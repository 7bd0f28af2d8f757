------------------------------- MODULE ForwardJob -------------------------------
(***************************************************************************)
(* The forward jobs of one account: services/forward_message_service.py.   *)
(* A request checks that no job runs, reads groups and source from         *)
(* Telegram, registers its job and starts a task for it; the task forwards *)
(* to one target after another while it holds the account's slot lock      *)
(* (run_group_operation of core/telegram_client.py).  Coroutines of one    *)
(* event loop interleave at their awaits.  That the worker's automatic     *)
(* forwarding is off is checked on entry only and left out here.           *)
(***************************************************************************)
EXTENDS Integers, FiniteSets

CONSTANTS Job,        \* identities of requests, and of the jobs they make
          Last,       \* the number of targets of every job
          SomeSettings, \* the settings of jobs
          Resends,    \* how often one call may send a template again
          MaxRestarts,\* bound of the model on restarts of the process
          None

VARIABLES stage,      \* how far the request, and then the task, has come
          settings,   \* the job's settings and kind of source
          status,     \* job.status
          sent, failed, \* job.sent; job.failed and job.skipped
          tries,      \* answers that the call under way has lost
          shown,      \* _jobs[slot]
          handle,     \* _tasks[slot]
          file,       \* forward_message_job.json
          posts,      \* history: how often Telegram took the job's message in,
                      \* by target
          overlap,    \* history: a request passed the check while another was
                      \* on its way to its job
          quiet,      \* history: a cancel came last, no request was on its way
          restarts

vars == <<stage, settings, status, sent, failed, tries, shown, handle, file, posts,
          overlap, quiet, restarts>>

Targets == 1 .. Last

(* listing: run_group_operation in list_joined_groups, and the preview of  *)
(* the source; fetching: the preview of resolve_source; announced: the job *)
(* is registered and _emit under way.  The task: created, but not run yet; *)
(* queued for the slot lock; next: at the top of the loop; sending;        *)
(* delivered: Telegram has it and has not answered; resting; cancelling:   *)
(* CancelledError is on its way; closing: in the _emit of the finally.     *)
Pending == {"listing", "fetching", "announced"}
InOperation == {"next", "sending", "delivered", "resting"}
Live == InOperation \union {"created", "queued", "cancelling", "closing"}
Stage == {"new", "over"} \union Pending \union Live

Status == {"idle", "running", "completed", "failed", "cancelled"}

(* Batch size, whether there is a pause between batches, and whether the   *)
(* job sends a text of its own (SOURCE_TEMPLATE) or forwards a post.       *)
Settings == [size : Nat \ {0}, pause : BOOLEAN, template : BOOLEAN]

Snapshot == [job : Job, status : Status, sent : 0 .. Last, failed : 0 .. Last]

ASSUME ForwardAssumption ==
  /\ IsFiniteSet(Job) /\ Last \in Nat \ {0} /\ MaxRestarts \in Nat /\ Resends \in Nat
  /\ SomeSettings \subseteq Settings /\ SomeSettings # {}
  /\ None \notin Job \union Snapshot

TypeOK ==
  /\ stage \in [Job -> Stage] /\ settings \in [Job -> SomeSettings]
  /\ status \in [Job -> Status] /\ tries \in [Job -> 0 .. Resends]
  /\ sent \in [Job -> 0 .. Last] /\ failed \in [Job -> 0 .. Last]
  /\ shown \in Job \union {None} /\ handle \in Job \union {None}
  /\ file \in Snapshot \union {None}
  /\ posts \in [Job -> [Targets -> Nat]]
  /\ overlap \in BOOLEAN /\ quiet \in BOOLEAN
  /\ restarts \in 0 .. MaxRestarts

Init ==
  /\ stage = [j \in Job |-> "new"] /\ settings \in [Job -> SomeSettings]
  /\ status = [j \in Job |-> "idle"] /\ tries = [j \in Job |-> 0]
  /\ sent = [j \in Job |-> 0] /\ failed = [j \in Job |-> 0]
  /\ shown = None /\ handle = None /\ file = None
  /\ posts = [j \in Job |-> [t \in Targets |-> 0]]
  /\ overlap = FALSE /\ quiet = TRUE
  /\ restarts = 0

Goto(j, s) == stage' = [stage EXCEPT ![j] = s]

LockFree == \A j \in Job : stage[j] \notin InOperation
Processed(j) == sent[j] + failed[j]

(* What _persist_job writes.                                               *)
Saved(j, st) == [job |-> j, status |-> st, sent |-> sent[j], failed |-> failed[j]]

---------------------------------------------------------------------------
(* Requests.                                                               *)

Busy_InJob == handle # None /\ stage[handle] \in InOperation

(* _ensure_not_busy: a task of the slot that is not done.                  *)
Busy == handle # None /\ stage[handle] \in Live

(* The first lines of start_job and of resolve_source.                     *)
Enter(j, s) ==
  /\ stage[j] = "new" /\ ~Busy
  /\ Goto(j, s)
  /\ overlap' = (overlap \/ \E i \in Job : stage[i] \in Pending)
  /\ quiet' = FALSE
  /\ UNCHANGED <<settings, tries, status, sent, failed, shown, handle, file, posts,
                 restarts>>

(* No source, no group, no connection, or Telegram's refusal.              *)
RequestFails(j) ==
  /\ stage[j] \in {"listing", "fetching"}
  /\ Goto(j, "over")
  /\ UNCHANGED <<settings, tries, status, sent, failed, shown, handle, file, posts,
                 overlap, quiet, restarts>>

(* _jobs[slot] = job and _persist_job, up to the _emit.                    *)
Register(j, st) ==
  /\ LockFree
  /\ status' = [status EXCEPT ![j] = st]
  /\ shown' = j
  /\ file' = Saved(j, st)
  /\ UNCHANGED <<settings, tries, sent, failed, handle, posts, overlap, quiet, restarts>>

StartRegisters(j) ==
  stage[j] = "listing" /\ Register(j, "running") /\ Goto(j, "announced")

PreviewRegisters(j) ==
  stage[j] = "fetching" /\ Register(j, "idle") /\ Goto(j, "over")

Launch_Revives(j) ==
  /\ stage[j] = "announced"
  /\ handle' = j
  /\ status' = [status EXCEPT ![j] = "running"]
  /\ Goto(j, "created")
  /\ UNCHANGED <<settings, tries, sent, failed, shown, file, posts, overlap,
                 quiet, restarts>>

(* _tasks[slot] = create_task(...): also for a job cancelled meanwhile.    *)
Launch(j) ==
  /\ stage[j] = "announced"
  /\ handle' = j
  /\ Goto(j, "created")
  /\ UNCHANGED <<settings, tries, status, sent, failed, shown, file, posts, overlap,
                 quiet, restarts>>

(* cancel_job.  A task that never ran, or is in its last await, ends       *)
(* without the rest of _run_job.                                           *)
Cancel ==
  /\ shown # None
  /\ status' = [status EXCEPT ![shown] = IF @ = "running" THEN "cancelled" ELSE @]
  /\ file' = Saved(shown, status'[shown])
  /\ IF Busy
     THEN /\ Goto(handle, IF stage[handle] \in {"created", "closing"} THEN "over"
                          ELSE "cancelling")
          /\ tries' = [tries EXCEPT ![handle] = 0]
     ELSE UNCHANGED <<stage, tries>>
  /\ quiet' = (\A j \in Job : stage[j] \notin {"listing", "fetching"})
  /\ UNCHANGED <<settings, sent, failed, shown, handle, posts, overlap, restarts>>

---------------------------------------------------------------------------
(* The task: _run_job with _op and _forward_one.                           *)

Step(j, from, to) ==
  /\ stage[j] = from
  /\ Goto(j, to)
  /\ UNCHANGED <<settings, shown, handle, overlap, quiet, restarts>>

Begin(j) ==
  Step(j, "created", "queued") /\ UNCHANGED <<status, sent, failed, tries, file, posts>>

TakeLock(j) ==
  /\ LockFree
  /\ Step(j, "queued", "next") /\ UNCHANGED <<status, sent, failed, tries, file, posts>>

(* The end of _run_job up to the _emit of its finally.                     *)
Close(j, st) ==
  /\ status' = [status EXCEPT ![j] = st]
  /\ file' = Saved(j, st)
  /\ UNCHANGED <<sent, failed, tries, posts>>

(* Reserved for a login, or no connection after all attempts.              *)
ConnectFails(j) ==
  LockFree /\ Step(j, "queued", "closing") /\ Close(j, "failed")

(* _forward_one up to the request.                                         *)
Forward(j) ==
  /\ status[j] = "running" /\ Processed(j) < Last
  /\ Step(j, "next", "sending") /\ UNCHANGED <<status, sent, failed, tries, file, posts>>

Deliver(j) ==
  /\ Step(j, "sending", "delivered")
  /\ posts' = [posts EXCEPT ![j][Processed(j) + 1] = @ + 1]
  /\ UNCHANGED <<status, sent, failed, tries, file>>

(* A template whose answer was lost is sent again within the call, without *)
(* a look at the job's status or at the chat: _telegram_op_with_retry, and *)
(* once more after process_group joined the group anew.                    *)
Resend(j) ==
  /\ settings[j].template /\ tries[j] < Resends
  /\ Step(j, "delivered", "sending")
  /\ tries' = [tries EXCEPT ![j] = @ + 1]
  /\ UNCHANGED <<status, sent, failed, file, posts>>

(* A delay between two targets of a batch, a pause between two batches.    *)
AfterTarget(j) ==
  LET n == Processed(j) + 1 IN
  IF status[j] = "running" /\ n < Last
     /\ (IF n % settings[j].size # 0 THEN TRUE ELSE settings[j].pause)
  THEN "resting" ELSE "next"

(* The call is over, and with it its retries.                              *)
CallEnds(j) == tries' = [tries EXCEPT ![j] = 0]

Answered_Uncounted(j) ==
  /\ stage[j] = "delivered"
  /\ Goto(j, AfterTarget(j)) /\ CallEnds(j)
  /\ sent' \in {sent, [sent EXCEPT ![j] = IF status[j] = "running" THEN @ + 1 ELSE @]}
  /\ UNCHANGED <<settings, status, failed, shown, handle, file, posts, overlap, quiet, restarts>>

(* The answer, or an exception although Telegram has it.  A target whose   *)
(* job was cancelled meanwhile is not counted.                             *)
Answered(j) ==
  /\ stage[j] = "delivered"
  /\ Goto(j, AfterTarget(j)) /\ CallEnds(j)
  /\ \/ /\ sent' = [sent EXCEPT ![j] = IF status[j] = "running" THEN @ + 1 ELSE @]
        /\ UNCHANGED failed
     \/ /\ failed' = [failed EXCEPT ![j] = IF status[j] = "running" THEN @ + 1 ELSE @]
        /\ UNCHANGED sent
  /\ UNCHANGED <<settings, status, shown, handle, file, posts, overlap, quiet, restarts>>

(* Refused, skipped, or flood waits exhausted; of a template that was sent *)
(* before in the call it may be the last try.                              *)
Refused(j) ==
  /\ Step(j, "sending", AfterTarget(j)) /\ CallEnds(j)
  /\ failed' = [failed EXCEPT ![j] = IF status[j] = "running" THEN @ + 1 ELSE @]
  /\ UNCHANGED <<status, sent, file, posts>>

Rest(j) ==
  /\ Step(j, "resting", "next")
  /\ UNCHANGED <<status, sent, failed, tries, file, posts>>

OperationEnds_OnlyWhenDone(j) ==
  /\ Processed(j) = Last
  /\ Step(j, "next", "closing")
  /\ Close(j, IF status[j] = "running" THEN "completed" ELSE status[j])

(* The loop ends: no target is left, or the status has changed.            *)
OperationEnds(j) ==
  /\ status[j] # "running" \/ Processed(j) = Last
  /\ Step(j, "next", "closing")
  /\ Close(j, IF status[j] = "running" THEN "completed" ELSE status[j])

Cancelled(j) == Step(j, "cancelling", "closing") /\ Close(j, "cancelled")

(* _tasks.pop(slot), whosever task that is.                                *)
Leave(j) ==
  /\ stage[j] = "closing"
  /\ Goto(j, "over")
  /\ handle' = None
  /\ UNCHANGED <<settings, tries, status, sent, failed, shown, file, posts, overlap,
                 quiet, restarts>>

TaskStep(j) ==
  \/ Begin(j) \/ TakeLock(j) \/ ConnectFails(j) \/ Forward(j) \/ Deliver(j)
  \/ Resend(j) \/ Answered(j) \/ Refused(j) \/ Rest(j) \/ OperationEnds(j) \/ Cancelled(j) \/ Leave(j)

---------------------------------------------------------------------------
Recovered_AsSaved(saved) == saved

(* The process ends and starts again: recover_jobs_after_restart.          *)
Recovered(saved) ==
  [saved EXCEPT !.status = IF @ = "running" THEN "failed" ELSE @]

Restart ==
  /\ restarts < MaxRestarts
  /\ restarts' = restarts + 1
  /\ stage' = [j \in Job |-> IF stage[j] = "new" THEN "new" ELSE "over"]
  /\ tries' = [j \in Job |-> 0]
  /\ handle' = None
  /\ overlap' = FALSE /\ quiet' = TRUE
  /\ IF file = None
     THEN UNCHANGED <<status, sent, failed, shown, file>>
     ELSE LET saved == Recovered(file)
              j == saved.job IN
          /\ file' = saved
          /\ shown' = j
          /\ status' = [i \in Job |-> IF i = j THEN saved.status ELSE "idle"]
          /\ sent' = [sent EXCEPT ![j] = saved.sent]
          /\ failed' = [failed EXCEPT ![j] = saved.failed]
  /\ UNCHANGED <<settings, posts>>

---------------------------------------------------------------------------
Request(j) ==
  \/ Enter(j, "listing") \/ Enter(j, "fetching") \/ RequestFails(j)
  \/ StartRegisters(j) \/ PreviewRegisters(j) \/ Launch(j)

Next ==
  \/ \E j \in Job : Request(j) \/ TaskStep(j)
  \/ Cancel
  \/ Restart

Spec == Init /\ [][Next]_vars

(* Requests and tasks go on: a Telegram call answers or times out, sleeps  *)
(* end, and the slot lock is handed on in order.                           *)
Fairness ==
  \A j \in Job :
    /\ WF_vars(RequestFails(j) \/ StartRegisters(j) \/ PreviewRegisters(j) \/ Launch(j))
    /\ WF_vars(TaskStep(j))

FairSpec == Spec /\ Fairness

---------------------------------------------------------------------------
(* Properties.                                                             *)

(* Two tasks forward for the account only if two requests overlapped: then *)
(* both passed _ensure_not_busy before either was registered.  Sequential  *)
(* requests can never get there, however jobs end or are cancelled.        *)
OneTaskPerSlot ==
  ~overlap => \A i, j \in Job : stage[i] \in Live /\ stage[j] \in Live => i = j

(* A cancel holds: when it came with no request on its way and none        *)
(* overlapped, no job is running from then on and none hands another       *)
(* message to Telegram, not even one that was cancelled before its task    *)
(* was created.                                                            *)
CancelHolds ==
  quiet /\ ~overlap =>
    \A j \in Job : status[j] # "running" /\ stage[j] \notin {"sending", "delivered", "resting"}

(* A target gets a job's post once, and its template once more for each    *)
(* answer that one call can lose; the counters tell what happened: a       *)
(* success is counted only if Telegram has the message, what Telegram has  *)
(* is counted except for one target that was under way, and a completed    *)
(* job has counted every target.                                           *)
CountsTrue ==
  \A j \in Job :
    LET taken == Cardinality({t \in Targets : posts[j][t] > 0}) IN
    /\ \A t \in Targets : posts[j][t] <= IF settings[j].template THEN 1 + Resends ELSE 1
    /\ sent[j] <= taken
    /\ stage[j] \in Live => taken <= Processed(j) + 1
    /\ status[j] = "completed" => Processed(j) = Last

(* A job shown as running has a task, or its request is about to create    *)
(* it: nothing that ended, was cancelled or was interrupted by a restart   *)
(* stays running on the dashboard.                                         *)
RunningIsAlive ==
  shown # None /\ status[shown] = "running" => stage[shown] \in Live \union {"announced"}

(* Every job comes to an end, and the account is free for the next.        *)
JobsSettle ==
  \A j \in Job : stage[j] \in Pending \union Live ~> stage[j] = "over"
=============================================================================
