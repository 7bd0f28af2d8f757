----------------------------- MODULE WorkerLifecycle -----------------------------
(***************************************************************************)
(* One account's worker: workers/account_worker.py (start, stop, the       *)
(* campaign and the forwarding loop), the lifecycle calls of               *)
(* services/account_runtime.py and account_manager.py, the restarts of     *)
(* core/health_monitor.py and of the crash callback, the list of resting   *)
(* accounts of core/account_shutdown.py with its monitor, and the file of  *)
(* running slots that the next process resumes from.  Coroutines of one    *)
(* event loop interleave at their awaits.  The account stays logged in and *)
(* its forwarding configured: a login would stop the loops for good.       *)
(***************************************************************************)
EXTENDS Integers, Sequences, FiniteSets

CONSTANTS Task,         \* identities for asyncio tasks of _run_forever
          Modes,        \* the posting modes that are ever chosen
          Asks,         \* the calls that operators make
          MaxCalls,     \* bound of the model on calls that wait for the lock
          MaxFaults,    \* bound of the model on exceptions that leave a loop
                        \* and restarts of the process, together
          MaxStarters   \* bound of the model on Starters at a time, with the
                        \* exceptions and restarts before, together

VARIABLES config,    \* what the posting mode enables
          running, flags, oneShot,
                     \* state.running, the *_running flags, _one_shot
          task, fate,  \* state.task, and whether it is done
          loop,      \* the loops of every task
          activity,  \* state.last_activity_at: 0, recent or too long ago
          calls, at, \* _lifecycle_lock: holder and waiters; the holder's stage
          alarm,     \* check_account decided to restart, and publishes that
          handling,  \* a coroutine of handle_worker_crash has not yet begun
          saved,     \* the slot is in the file of running slots
          resuming,  \* the boot found the slot in the file
          fleet,     \* a start of all accounts has not come to this one
          resting,   \* the account is on the list of account_shutdown.json
          reviving,  \* its week on the list is over, and the monitor starts it
          quiet,     \* history: STOP came last, and nothing was under way
          crashes, restarts

workerVars == <<running, flags, oneShot, task, fate, loop, activity>>
listVars == <<fleet, resting, reviving>>
vars == <<config, workerVars, calls, at, alarm, handling, saved, resuming, listVars,
          quiet, crashes, restarts>>

Feature == {"campaign", "forwarding"}

(* At most one feature is enabled; forwarding is automatic or manual.      *)
Config == {"none", "campaign", "forwarding", "manual"}
Enabled == CASE config = "none" -> {}
             [] config = "campaign" -> {"campaign"}
             [] OTHER -> {"forwarding"}

(* new: the forwarding loop before it knows how it is dispatched; top:     *)
(* about to check the loop condition, at first or after a rest; on: in a   *)
(* tick, or in a cycle or waiting for _cycle_lock; tail: the end of the    *)
(* campaign loop's coroutine.                                              *)
LoopStage == {"none", "new", "top", "on", "tail"}

(* live, done and not yet called back, or called back (or never started).  *)
Fate == {"live", "done", "seen"}

(* A call of AccountRuntime.start, of start by the boot, of stop, or of    *)
(* restart.  scope: the features that campaign= and forwarding= name, none *)
(* for both; health: the health monitor waits for it.                      *)
Call == [op : {"start", "resume", "stop", "restart"}, scope : SUBSET Feature,
         oneShot : BOOLEAN, health : BOOLEAN]

ASSUME LifecycleAssumption ==
  /\ Modes \subseteq Config /\ Modes # {}
  /\ Asks \subseteq {c \in Call : ~c.health /\ c.op # "resume"}
  /\ MaxCalls \in Nat /\ MaxFaults \in Nat /\ MaxStarters \in Nat
  /\ IsFiniteSet(Task) /\ Cardinality(Task) > MaxFaults

NoLoops == [f \in Feature |-> "none"]

TypeOK ==
  /\ config \in Config
  /\ running \in BOOLEAN /\ oneShot \in BOOLEAN /\ flags \subseteq Feature
  /\ task \in Task /\ fate \in Fate
  /\ loop \in [Task -> [Feature -> LoopStage]]
  /\ activity \in {"never", "recent", "old"}
  /\ calls \in Seq(Call) /\ at \in {"begin", "stopping", "started"}
  /\ alarm \in BOOLEAN /\ handling \in BOOLEAN
  /\ saved \in BOOLEAN /\ resuming \in BOOLEAN
  /\ fleet \in BOOLEAN /\ resting \in BOOLEAN /\ reviving \in BOOLEAN
  /\ quiet \in BOOLEAN
  /\ crashes \in Nat /\ restarts \in 0 .. MaxFaults - crashes

Init ==
  /\ config \in Modes
  /\ running = FALSE /\ flags = {} /\ oneShot = FALSE
  /\ task = (CHOOSE i \in Task : TRUE) /\ fate = "seen"
  /\ loop = [i \in Task |-> NoLoops]
  /\ activity = "never"
  /\ calls = <<>> /\ at = "begin"
  /\ alarm = FALSE /\ handling = FALSE
  /\ saved = FALSE /\ resuming = FALSE
  /\ fleet = FALSE /\ resting = FALSE /\ reviving = FALSE
  /\ quiet = FALSE
  /\ crashes = 0 /\ restarts = 0

---------------------------------------------------------------------------
(* The worker.                                                             *)

(* A cancelled task runs no further: it is always inside an await.         *)
Cancelled == [loop EXCEPT ![task] = IF fate = "live" THEN NoLoops ELSE @]

Launch_Beside ==
  LET i == CHOOSE i \in Task : loop[i] = NoLoops IN
  /\ task' = i
  /\ fate' = "live"
  /\ loop' = [loop EXCEPT ![i] = [campaign |-> "top", forwarding |-> "new"]]

Launch ==
  LET i == CHOOSE i \in Task : Cancelled[i] = NoLoops IN
  /\ task' = i
  /\ fate' = "live"
  /\ loop' = [Cancelled EXCEPT ![i] = [campaign |-> "top", forwarding |-> "new"]]

(* AccountWorker.start: a live task stays, whatever loops it has.          *)
StartWorker(wanted, once) ==
  /\ flags' = wanted
  /\ IF running /\ fate = "live"
     THEN UNCHANGED <<running, oneShot, task, fate, loop>>
     ELSE running' = TRUE /\ oneShot' = once /\ Launch
  /\ UNCHANGED activity

(* AccountWorker.stop: a worker without features is cancelled.             *)
StopWorker(gone) ==
  /\ flags' = flags \ gone
  /\ running' = (running /\ flags' # {})
  /\ oneShot' = FALSE
  /\ loop' = IF running' THEN loop ELSE Cancelled
  /\ fate' = IF fate = "live" /\ ~running' THEN "seen" ELSE fate
  /\ UNCHANGED <<task, activity>>

---------------------------------------------------------------------------
(* The loops of _run_forever.                                              *)

(* gather is over when every loop is.                                      *)
Finish(i, f) ==
  /\ loop' = [loop EXCEPT ![i][f] = "none"]
  /\ fate' = IF i = task /\ fate = "live" /\ \A g \in Feature \ {f} : loop[i][g] = "none"
             THEN "done" ELSE fate

(* The code after a loop; the campaign's resets _one_shot, and has awaits. *)
Leave(i, f) ==
  IF f = "forwarding" THEN Finish(i, f) /\ UNCHANGED <<oneShot, saved>>
  ELSE /\ loop' = [loop EXCEPT ![i][f] = "tail"]
       /\ oneShot' = FALSE
       /\ saved' = (saved /\ ~oneShot)
       /\ UNCHANGED fate

Manual(i) ==
  /\ loop[i]["forwarding"] = "new"
  /\ IF config = "manual"
     THEN flags' = flags \ {"forwarding"} /\ Finish(i, "forwarding")
     ELSE loop' = [loop EXCEPT ![i]["forwarding"] = "top"] /\ UNCHANGED <<flags, fate>>
  /\ UNCHANGED <<running, oneShot, task, activity, saved>>

(* The loops write last_activity_at, but the forwarding loop writes it     *)
(* through a proxy that has no alias for it: nobody reads that attribute.  *)
Touch(f) == activity' = IF f = "campaign" THEN "recent" ELSE activity

Condition_Waits(i, f) ==
  /\ loop[i][f] = "top"
  /\ running
  /\ f \in flags
  /\ IF f \in Enabled
     THEN /\ loop' = [loop EXCEPT ![i][f] = "on"]
          /\ Touch(f)
          /\ UNCHANGED <<flags, oneShot, fate, saved>>
     ELSE flags' = flags \ {f} /\ Leave(i, f) /\ UNCHANGED activity
  /\ UNCHANGED <<running, task>>

Condition(i, f) ==
  /\ loop[i][f] = "top"
  /\ \/ /\ running /\ f \in flags /\ f \in Enabled
        /\ loop' = [loop EXCEPT ![i][f] = "on"]
        /\ Touch(f)
        /\ UNCHANGED <<flags, oneShot, fate, saved>>
     \/ /\ running /\ f \in flags /\ f \notin Enabled
        /\ flags' = flags \ {f}
        /\ Leave(i, f)
        /\ UNCHANGED activity
     \/ /\ ~(running /\ f \in flags)
        /\ Leave(i, f)
        /\ UNCHANGED <<flags, activity>>
  /\ UNCHANGED <<running, task>>

CycleEnds(i, f) ==
  /\ loop[i][f] = "on"
  /\ Touch(f)
  /\ \/ /\ f \in flags /\ ~oneShot
        /\ loop' = [loop EXCEPT ![i][f] = "top"]
        /\ UNCHANGED <<flags, oneShot, fate, saved>>
     \/ /\ f \notin flags \/ oneShot
        /\ flags' = flags \ {f}
        /\ Leave(i, f)
  /\ UNCHANGED <<running, task>>

(* An error of a tick is logged, and the loop goes on after a wait.        *)
TickFails(i) ==
  /\ loop[i]["forwarding"] = "on"
  /\ loop' = [loop EXCEPT ![i]["forwarding"] = "top"]
  /\ UNCHANGED <<running, flags, oneShot, task, fate, activity, saved>>

(* _maybe_release_session.                                                 *)
Release(i) ==
  /\ loop[i]["campaign"] = "tail"
  /\ running' = (running /\ flags # {})
  /\ Finish(i, "campaign")
  /\ UNCHANGED <<flags, oneShot, task, activity, saved>>

(* What may yet start the worker, of all accounts or from the list.        *)
Starters ==
  Cardinality({s \in {<<"fleet", fleet>>, <<"resting", resting>>, <<"reviving", reviving>>} :
                 s[2]})

(* An exception ends the task; its other loop lives on without it.         *)
Raise(i, f) ==
  /\ loop[i][f] \in {"new", "top", "on"}
  /\ crashes + restarts < MaxFaults
  /\ Starters + crashes + restarts < MaxStarters
  /\ crashes' = crashes + 1
  /\ loop' = [loop EXCEPT ![i][f] = "none"]
  /\ fate' = IF i = task /\ fate = "live" THEN "done" ELSE fate
  /\ UNCHANGED <<running, flags, oneShot, task, activity, saved>>

Loop(i) ==
  \/ /\ \/ Manual(i)
        \/ \E f \in Feature : Condition(i, f) \/ CycleEnds(i, f)
        \/ TickFails(i)
        \/ Release(i)
     /\ UNCHANGED crashes
  \/ \E f \in Feature : Raise(i, f)

LoopStep ==
  /\ \E i \in Task : Loop(i)
  /\ UNCHANGED <<config, calls, at, alarm, handling, resuming, listVars, quiet,
                 restarts>>

---------------------------------------------------------------------------
(* Restarts that nobody asked for.                                         *)

Put(c) == calls' = Append(calls, c)
Restart(health) == [op |-> "restart", scope |-> {}, oneShot |-> FALSE, health |-> health]

Callback_Silent ==
  /\ fate = "done"
  /\ fate' = "seen"
  /\ UNCHANGED <<config, running, flags, oneShot, task, loop, activity, calls, at,
                 alarm, handling, saved, resuming, listVars, quiet, crashes,
                 restarts>>

(* _task_done_callback of the current task.                                *)
Callback ==
  /\ fate = "done"
  /\ fate' = "seen"
  /\ handling' = (handling \/ running)
  /\ UNCHANGED <<config, running, flags, oneShot, task, loop, activity, calls, at,
                 alarm, saved, resuming, listVars, quiet, crashes, restarts>>

HandleCrash_Always ==
  /\ handling
  /\ handling' = FALSE
  /\ Put(Restart(FALSE))
  /\ UNCHANGED <<config, workerVars, at, alarm, saved, resuming, listVars, quiet,
                 crashes, restarts>>

(* handle_worker_crash looks at running once it begins.                    *)
HandleCrash ==
  /\ handling
  /\ handling' = FALSE
  /\ IF running THEN Put(Restart(FALSE)) ELSE UNCHANGED calls
  /\ UNCHANGED <<config, workerVars, at, alarm, saved, resuming, listVars, quiet,
                 crashes, restarts>>

(* check_account finds the task dead, or last_activity_at 45 minutes old,  *)
(* and publishes that it is going to restart.  MaxCalls bounds the model.  *)
CheckAccount ==
  /\ running
  /\ ~alarm
  /\ \A n \in DOMAIN calls : ~calls[n].health
  /\ Len(calls) < MaxCalls
  /\ fate # "live" \/ activity = "old"
  /\ alarm' = TRUE
  /\ UNCHANGED <<config, workerVars, calls, at, handling, saved, resuming,
                 listVars, quiet, crashes, restarts>>

(* 45 minutes pass without a write to last_activity_at.                    *)
TimePasses ==
  /\ activity = "recent"
  /\ activity' = "old"
  /\ UNCHANGED <<config, running, flags, oneShot, task, fate, loop, calls, at,
                 alarm, handling, saved, resuming, listVars, quiet, crashes,
                 restarts>>

(* _restart_worker after the publish: nothing is looked at again.          *)
RestartWorker ==
  /\ alarm
  /\ alarm' = FALSE
  /\ Put(Restart(TRUE))
  /\ UNCHANGED <<config, workerVars, at, handling, saved, resuming, listVars,
                 quiet, crashes, restarts>>

---------------------------------------------------------------------------
(* Calls of the API.                                                       *)

(* Something is under way that may still start the worker.                 *)
UnderWay(waiting) ==
  \/ alarm \/ resuming \/ fleet \/ resting \/ reviving
  \/ \E n \in DOMAIN waiting : waiting[n].op # "stop"

(* A route asks for a start, a stop or a restart of this account, or the   *)
(* end of a login for a start.  start_account refuses an account that      *)
(* rests; a restart does not look.                                         *)
Ask ==
  /\ Len(calls) < MaxCalls
  /\ \E c \in Asks :
       /\ c.op = "start" => ~resting
       /\ Put(c)
       /\ quiet' = (quiet /\ c.op = "stop")
  /\ UNCHANGED <<config, workerVars, at, alarm, handling, saved, resuming,
                 listVars, crashes, restarts>>

(* start_all_logged_in goes from account to account, with a second and the *)
(* start of each between them; POST /start refuses while it is under way.  *)
StartAll ==
  /\ ~fleet
  /\ Starters + crashes + restarts < MaxStarters
  /\ fleet' = TRUE
  /\ quiet' = FALSE
  /\ UNCHANGED <<config, workerVars, calls, at, alarm, handling, saved, resuming,
                 resting, reviving, crashes, restarts>>

StartCall(once) == [op |-> "start", scope |-> {}, oneShot |-> once, health |-> FALSE]
StopCall == [op |-> "stop", scope |-> {}, oneShot |-> FALSE, health |-> FALSE]

FleetTurn ==
  /\ fleet
  /\ Len(calls) < MaxCalls
  /\ fleet' = FALSE
  /\ IF running \/ resting THEN UNCHANGED calls
     ELSE \E once \in BOOLEAN : Put(StartCall(once))
  /\ UNCHANGED <<config, workerVars, at, alarm, handling, saved, resuming,
                 resting, reviving, quiet, crashes, restarts>>

(* stop_all of the manager takes no lock, and leaves a start of all        *)
(* accounts that is under way alone.                                       *)
StopAll ==
  /\ StopWorker(Feature)
  /\ saved' = FALSE
  /\ quiet' = ~UnderWay(calls)
  /\ UNCHANGED <<config, calls, at, alarm, handling, resuming, listVars, crashes,
                 restarts>>

SetPostingMode ==
  /\ config' \in Modes \ {config}
  /\ UNCHANGED <<workerVars, calls, at, alarm, handling, saved, resuming,
                 listVars, quiet, crashes, restarts>>

---------------------------------------------------------------------------
(* The list of accounts that rest for a week, and its monitor.             *)

EntersRest ==
  /\ resting' = TRUE
  /\ IF running THEN Put(StopCall) /\ UNCHANGED saved
     ELSE saved' = FALSE /\ UNCHANGED calls

(* _check_slot: an account that should post has not for six hours.         *)
Idles ==
  /\ ~resting
  /\ ~reviving
  /\ Len(calls) < MaxCalls /\ Starters + crashes + restarts < MaxStarters
  /\ Enabled # {}
  /\ flags # {} \/ running \/ saved
  /\ EntersRest
  /\ UNCHANGED <<config, workerVars, at, alarm, handling, resuming, fleet,
                 reviving, quiet, crashes, restarts>>

(* An operator puts the account on the list; it is stopped in any case.    *)
PutToRest ==
  /\ Len(calls) < MaxCalls /\ Starters + crashes + restarts < MaxStarters
  /\ resting' = TRUE
  /\ Put(StopCall)
  /\ quiet' = FALSE
  /\ UNCHANGED <<config, workerVars, at, alarm, handling, saved, resuming, fleet,
                 reviving, crashes, restarts>>

(* _check_slot: a restart, a crash or a start that came first runs it.     *)
StopResting ==
  /\ resting
  /\ running
  /\ ~reviving
  /\ Len(calls) < MaxCalls
  /\ Put(StopCall)
  /\ UNCHANGED <<config, workerVars, at, alarm, handling, saved, resuming,
                 listVars, quiet, crashes, restarts>>

(* An operator takes the account off the list; or the week ends, from then *)
(* on the entry counts for nothing, and the monitor purges it.             *)
LeavesList ==
  /\ resting
  /\ resting' = FALSE
  /\ reviving' \in {reviving, TRUE}
  /\ UNCHANGED <<config, workerVars, calls, at, alarm, handling, saved, resuming,
                 fleet, quiet, crashes, restarts>>

(* _resume_after_shutdown, once purge_expired's accounts before it are     *)
(* resumed: whether this one ran when it was listed is not known any more. *)
Revive ==
  /\ reviving
  /\ Len(calls) < MaxCalls
  /\ reviving' = FALSE
  /\ IF running \/ resting THEN UNCHANGED calls ELSE Put(StartCall(FALSE))
  /\ UNCHANGED <<config, workerVars, at, alarm, handling, saved, resuming, fleet,
                 resting, quiet, crashes, restarts>>

---------------------------------------------------------------------------
(* The holder of the lifecycle lock.                                       *)

Goto(stage) == at' = stage /\ UNCHANGED calls
Unlock == calls' = Tail(calls) /\ at' = "begin"

(* worker.start, and what follows if it returns True or False.             *)
TryStart(wanted, once) ==
  IF wanted = {}
  THEN /\ flags' = {}
       /\ Unlock
       /\ UNCHANGED <<running, oneShot, task, fate, loop, activity, saved>>
  ELSE /\ StartWorker(wanted, once)
       /\ saved' = TRUE
       /\ Goto("started")

Wanted(c) == CASE c.op = "resume" -> c.scope
               [] c.op = "start" /\ c.scope # {} -> flags \cup c.scope
               [] OTHER -> Enabled

(* runtime.start, after refresh_info: the account may not be logged in.    *)
Start(c) ==
  /\ at = "begin"
  /\ c.op \in {"start", "resume"}
  /\ \/ TryStart(Wanted(c), c.oneShot)
     \/ c.op = "start" /\ Unlock /\ UNCHANGED <<workerVars, saved>>
  /\ UNCHANGED quiet

(* _stop_unlocked up to the wait for the task.                             *)
Stop(c) ==
  /\ at = "begin"
  /\ c.op \in {"stop", "restart"}
  /\ StopWorker(IF c.scope = {} THEN Feature ELSE c.scope)
  /\ saved' = FALSE
  /\ Goto("stopping")
  /\ UNCHANGED quiet

StartAgain(c) ==
  /\ at = "stopping"
  /\ c.op = "restart"
  /\ TryStart(Enabled, FALSE)
  /\ UNCHANGED quiet

(* stop_account marks the slot again after the lock is free, and so does   *)
(* start_account.                                                          *)
Stopped(c) ==
  /\ at = "stopping"
  /\ c.op = "stop"
  /\ Unlock
  /\ saved' = FALSE
  /\ quiet' = IF c.scope = {} THEN ~UnderWay(Tail(calls)) ELSE quiet
  /\ UNCHANGED workerVars

Started(c) ==
  /\ at = "started"
  /\ Unlock
  /\ saved' = (saved \/ c.op # "restart")
  /\ UNCHANGED <<workerVars, quiet>>

Hold ==
  /\ calls # <<>>
  /\ LET c == Head(calls)
     IN Start(c) \/ Stop(c) \/ StartAgain(c) \/ Stopped(c) \/ Started(c)
  /\ UNCHANGED <<config, alarm, handling, resuming, listVars, crashes, restarts>>

---------------------------------------------------------------------------
(* The file and the process.                                               *)

(* The heartbeat saves the running slots, unless there is none.            *)
Persist ==
  /\ saved' \in IF running THEN {TRUE} ELSE {saved, FALSE}
  /\ UNCHANGED <<config, workerVars, calls, at, alarm, handling, resuming,
                 listVars, quiet, crashes, restarts>>

(* The process ends: it saves what runs if it can.  The next one reads the *)
(* file.                                                                   *)
Reboot ==
  /\ crashes + restarts < MaxFaults
  /\ restarts' = restarts + 1
  /\ saved' \in {saved, running}
  /\ resuming' = saved'
  /\ running' = FALSE /\ flags' = {} /\ oneShot' = FALSE
  /\ fate' = "seen"
  /\ loop' = [i \in Task |-> NoLoops]
  /\ activity' = "never"
  /\ calls' = <<>> /\ at' = "begin"
  /\ alarm' = FALSE /\ handling' = FALSE
  /\ fleet' = FALSE /\ reviving' = FALSE
  /\ UNCHANGED <<config, task, resting, quiet, crashes>>

(* resume_persisted_workers starts what the posting mode enables.          *)
Resume ==
  /\ resuming
  /\ resuming' = FALSE
  /\ IF running \/ resting THEN UNCHANGED calls
     ELSE Put([op |-> "resume", scope |-> Enabled, oneShot |-> FALSE, health |-> FALSE])
  /\ UNCHANGED <<config, workerVars, at, alarm, handling, saved, listVars, quiet,
                 crashes, restarts>>

---------------------------------------------------------------------------
Monitors == Callback \/ HandleCrash \/ CheckAccount \/ RestartWorker \/ TimePasses
Shutdowns == Idles \/ PutToRest \/ StopResting \/ LeavesList \/ Revive

Next ==
  \/ LoopStep
  \/ Monitors
  \/ Ask
  \/ StartAll
  \/ FleetTurn
  \/ StopAll
  \/ Shutdowns
  \/ SetPostingMode
  \/ Hold
  \/ Persist
  \/ Reboot
  \/ Resume

Spec == Init /\ [][Next]_vars

(* The event loop runs every ready coroutine; a cycle, a tick and a wait   *)
(* end.  Nothing is assumed of operators, of the monitor, of errors or of  *)
(* the process.                                                            *)
GoOn(i, f) ==
  /\ \/ Condition(i, f)
     \/ CycleEnds(i, f)
     \/ f = "forwarding" /\ Manual(i)
     \/ f = "campaign" /\ Release(i)
  /\ UNCHANGED <<config, calls, at, alarm, handling, resuming, listVars, quiet,
                 crashes, restarts>>

Fairness ==
  /\ \A i \in Task : \A f \in Feature : WF_vars(GoOn(i, f))
  /\ WF_vars(Callback) /\ WF_vars(HandleCrash) /\ WF_vars(RestartWorker)
  /\ WF_vars(Hold) /\ WF_vars(Resume)

FairSpec == Spec /\ Fairness

---------------------------------------------------------------------------
(* Properties.                                                             *)

(* After a STOP that met nothing under way, the account being off the list *)
(* of those that rest, only an operator's start or restart runs the worker *)
(* again: no crash callback that was scheduled before, monitor, loop slow  *)
(* to end, heartbeat, boot or start of all accounts does.                  *)
QuietStopHolds == quiet => ~running

(* Starts, stops and restarts never leave a second loop of a feature; only *)
(* an exception does, one at most.                                         *)
LoopsBounded ==
  \A f \in Feature : Cardinality({i \in Task : loop[i][f] # "none"}) <= 1 + crashes

(* Whatever stopped the worker, its loops come to an end.                  *)
StopTakesEffect ==
  ~running ~> running \/ \A i \in Task : loop[i] = NoLoops

(* A feature that is started and stays enabled gets to run, also when its  *)
(* task did not begin with it or ended of an exception.                    *)
FeatureIsServed ==
  \A f \in Feature :
    []<>(running /\ f \in flags /\ f \in Enabled => \E i \in Task : loop[i][f] = "on")
=============================================================================
