------------------------------- MODULE ForwardTick -------------------------------
(***************************************************************************)
(* The automatic forwarding of one account: the loop                       *)
(* _run_forwarding_forever of workers/account_worker.py around             *)
(* features/interval_forward.py.  A tick samples groups that this round    *)
(* has not used, sends to them one after another, resting in between, and  *)
(* the groups that are left are saved with the account's posting mode.     *)
(* What Telegram answers and how long anything takes is a choice, and so   *)
(* is whether a failed write meets the posting mode or the intelligence.   *)
(***************************************************************************)
EXTENDS Integers, FiniteSets, FiniteSetsExt

CONSTANTS Group,     \* groups the account may be in
          Shunned,   \* invalid_groups and blocked_groups of the account
          Findable,  \* groups whose label finds them again among dead peers
          TickMin,   \* FORWARD_TICK_COUNT_MIN
          TickMax,   \* FORWARD_TICK_COUNT_MAX
          MaxUpsets  \* bound of the model on stops, floods, lost answers,
                     \* lost groups and failed writes

VARIABLES loop,      \* where _run_forwarding_forever is
          on,        \* should_continue_forwarding
          configured,\* is_configured: there is a message or a post to send
          joined,    \* what load_forward_targets returns
          saved,     \* tick_pending_keys in the posting mode file
          seen,      \* tick_pending_keys of the settings the loop read
          pool,      \* pending_pool of the tick
          todo,      \* targets the tick has not come to
          current,   \* the target it sends to
          done,      \* processed_keys
          dead,      \* dead_peers of the intelligence file
          learned,   \* dead_peers of the tick's copy
          joinDue,   \* _forward_ticks_since_join
          upsets,    \* how many of what MaxUpsets bounds there were
          members,   \* history: the groups this round began with and keeps
          used,      \* history: those it was done with, or that got a message
          doubt,     \* history: those that got one which the tick does not
                     \* know of: the answer was lost
          cut        \* history: the round was forgotten, or a tick of it could
                     \* not save what it did

settings == <<saved, seen>>
tick == <<pool, todo, current, done, learned>>
history == <<members, used, doubt, cut>>
vars == <<loop, on, configured, joined, settings, tick, dead, joinDue, upsets, history>>

(* top: the while condition; ready: settings read, connecting or waiting   *)
(* for the slot; next: between two targets; asked: check_last_message and  *)
(* the send; rest: the delay or batch pause; after: the tick is saved.     *)
InTick == {"next", "asked", "rest"}
Stage == {"off", "top", "ready", "after"} \union InTick

NoGroup == "none"

ASSUME ForwardAssumption ==
  /\ IsFiniteSet(Group) /\ Group # {} /\ NoGroup \notin Group
  /\ Shunned \subseteq Group /\ Findable \subseteq Group
  /\ TickMin \in Nat \ {0} /\ TickMax \in Nat /\ TickMin <= TickMax
  /\ MaxUpsets \in Nat

(* Types; a tick keeps apart what it is done with and what is to come.     *)
TypeOK ==
  /\ loop \in Stage /\ on \in BOOLEAN /\ configured \in BOOLEAN
  /\ joined \subseteq Group /\ saved \subseteq Group /\ seen \subseteq Group
  /\ pool \subseteq Group /\ todo \subseteq pool /\ done \subseteq pool \ todo
  /\ current \in Group \union {NoGroup} /\ current \notin todo
  /\ dead \subseteq Findable /\ learned \subseteq Findable
  /\ joinDue \in 0 .. 1 /\ upsets \in 0 .. MaxUpsets
  /\ members \subseteq Group /\ used \subseteq Group /\ doubt \subseteq used /\ cut \in BOOLEAN

Init ==
  /\ loop = "off" /\ on = FALSE /\ configured \in BOOLEAN
  /\ joined \in SUBSET Group
  /\ saved = {} /\ seen = {}
  /\ pool = {} /\ todo = {} /\ current = NoGroup /\ done = {}
  /\ dead = {} /\ learned = {}
  /\ joinDue = 0 /\ upsets = 0
  /\ members = {} /\ used = {} /\ doubt = {} /\ cut = FALSE

Goto(from, to) == loop = from /\ loop' = to

Upset == upsets < MaxUpsets /\ upsets' = upsets + 1

(* The message to the target is out, and the tick does not hear of it.     *)
Unheard == used' = used \union {current} /\ doubt' = doubt \union {current}

---------------------------------------------------------------------------
(* The worker around the loop.                                             *)

Start ==
  /\ ~on
  /\ on' = TRUE
  /\ loop' = IF loop = "off" THEN "top" ELSE loop
  /\ UNCHANGED <<configured, joined, settings, tick, dead, joinDue, upsets, history>>

(* A stop of the feature while the campaign goes on: the flag alone.       *)
StopFeature ==
  /\ on /\ Upset
  /\ on' = FALSE
  /\ joinDue' = 0
  /\ UNCHANGED <<loop, configured, joined, settings, tick, dead, history>>

(* The callback of a worker whose loop raised restarts it.                 *)
CrashRestart ==
  /\ on
  /\ Goto("off", "top")
  /\ UNCHANGED <<on, configured, joined, settings, tick, dead, joinDue, upsets, history>>

(* The operator sets the message or the post to send, or removes it.       *)
Configure ==
  /\ configured' = ~configured
  /\ \/ configured' /\ UNCHANGED upsets
     \/ ~configured' /\ Upset
  /\ UNCHANGED <<loop, on, joined, settings, tick, dead, joinDue, history>>

(* A stop of the worker cancels the task wherever it waits; a message may  *)
(* be out already.  The end of the process does the same.                  *)
Cancel ==
  /\ loop # "off" /\ Upset
  /\ loop' = "off" /\ on' = FALSE /\ joinDue' = 0
  /\ todo' = {} /\ done' = {} /\ current' = NoGroup
  /\ cut' = (cut \/ (loop \in InTick /\ done # {}))
  /\ \/ loop = "asked" /\ Unheard
     \/ UNCHANGED <<used, doubt>>
  /\ UNCHANGED <<configured, joined, settings, pool, learned, dead, members>>

(* reset_stats_display_counters begins a round anew.                       *)
ResetCounters ==
  /\ Upset
  /\ saved' = {}
  /\ cut' = TRUE
  /\ UNCHANGED <<loop, on, configured, joined, seen, tick, dead, joinDue, members, used, doubt>>

(* Somebody removes the account from a group.                              *)
Leave(g) ==
  /\ g \in joined /\ Upset
  /\ joined' = joined \ {g}
  /\ UNCHANGED <<loop, on, configured, settings, tick, dead, joinDue, history>>

---------------------------------------------------------------------------
(* The loop.                                                               *)

(* Without a message the loop waits a minute and looks again.              *)
ReadSettings ==
  /\ on /\ configured
  /\ Goto("top", "ready")
  /\ seen' = saved
  /\ UNCHANGED <<on, configured, joined, saved, tick, dead, joinDue, upsets, history>>

LoopEnds ==
  /\ ~on
  /\ Goto("top", "off")
  /\ joinDue' = 0
  /\ UNCHANGED <<on, configured, joined, settings, tick, dead, upsets, history>>

(* The slot is reserved for a login, or forwarding was switched off in the *)
(* settings.                                                               *)
LoopStops ==
  /\ on /\ Upset
  /\ Goto("top", "off")
  /\ on' = FALSE /\ joinDue' = 0
  /\ UNCHANGED <<configured, joined, settings, tick, dead, history>>

(* No connection, or the slot or the joined groups cannot be had.          *)
NotReady ==
  /\ Upset
  /\ Goto("ready", "top")
  /\ UNCHANGED <<on, configured, joined, settings, tick, dead, joinDue, history>>

TickSizes(n) == IF n < TickMin THEN {n} ELSE TickMin .. IF n < TickMax THEN n ELSE TickMax

(* Keys that are still joined; none is left: the round begins anew.        *)
PoolOf(keys) == IF keys \intersect joined = {} THEN joined ELSE keys \intersect joined

Pending == PoolOf(seen)

Resets == seen \intersect joined = {}

(* A round that ends whole is followed by a new one; a group the account   *)
(* is no longer in is dropped from the round.                              *)
Turn ==
  IF Resets /\ (members \intersect joined) \subseteq used \ doubt
  THEN members' = joined /\ used' = {} /\ doubt' = {} /\ cut' = FALSE
  ELSE members' = members \intersect joined /\ UNCHANGED <<used, doubt, cut>>

(* The loop saves the keys that the tick returned.  A write of the posting *)
(* mode that fails ends the loop's coroutine.                              *)
Saves(keys) ==
  \/ loop' = "after" /\ saved' = keys /\ UNCHANGED upsets
  \/ loop' = "off" /\ UNCHANGED saved /\ Upset

(* A write of the intelligence that fails is an error of the tick.         *)
TickError == loop' = "top" /\ UNCHANGED <<saved, dead>> /\ Upset

(* run_forward_tick up to its first target; peers that have been dead for  *)
(* a week are forgotten.                                                   *)
Pick ==
  /\ loop = "ready" /\ configured
  /\ Turn
  /\ pool' = Pending
  /\ \E gone \in SUBSET dead, n \in TickSizes(Cardinality(Pending)) :
       /\ learned' = dead \ gone
       /\ \E picked \in kSubset(n, Pending) :
            LET live == picked \ (Shunned \union learned') IN
            /\ todo' = live
            /\ IF live = {}
               THEN \/ Saves(Pending) /\ dead' = IF joined = {} THEN dead ELSE learned'
                    \/ TickError
               ELSE loop' = "next" /\ UNCHANGED <<saved, dead, upsets>>
  /\ done' = {} /\ current' = NoGroup
  /\ UNCHANGED <<on, configured, joined, seen, joinDue>>

(* The message was removed since the settings were read: the tick returns  *)
(* no keys, the loop saves an empty list, and the round is forgotten.      *)
PickUnconfigured ==
  /\ loop = "ready" /\ ~configured
  /\ \/ Saves({}) /\ cut' = (cut \/ loop' = "after")
     \/ TickError /\ UNCHANGED cut
  /\ UNCHANGED <<on, configured, joined, seen, tick, dead, joinDue, members, used, doubt>>

---------------------------------------------------------------------------
(* The tick.                                                               *)

Remaining_All == pool \ todo

Remaining == pool \ done

(* The tick returns what remains and the loop saves it; a write may fail.  *)
Finish ==
  /\ \/ Saves(Remaining) /\ dead' = learned
     \/ TickError
  /\ cut' = (cut \/ (loop' # "after" /\ done # {}))

TickEnds ==
  /\ loop = "next" /\ (~on \/ todo = {})
  /\ Finish
  /\ todo' = {} /\ current' = NoGroup
  /\ UNCHANGED <<on, configured, joined, seen, pool, done, learned, joinDue, members, used, doubt>>

Ask(g) ==
  /\ on /\ g \in todo
  /\ Goto("next", "asked")
  /\ current' = g /\ todo' = todo \ {g}
  /\ UNCHANGED <<on, configured, joined, settings, pool, done, learned, dead, joinDue, upsets, history>>

Learn == learned' \in {learned, learned \union ({current} \intersect Findable)}

(* Telegram took the message and the answer did not come: both ways to     *)
(* send try again within the call (_telegram_op_with_retry up to three     *)
(* times, _forward_one twice), without another look at the chat; whether   *)
(* more of these arrive makes no difference to what the tick knows.        *)
AnswerLost ==
  /\ loop = "asked" /\ current \notin doubt /\ Upset
  /\ Unheard
  /\ UNCHANGED <<loop, on, configured, joined, settings, tick, dead, joinDue, members, cut>>

(* Sent, skipped, failed, or failed in a way that makes the peer dead.     *)
Processed ==
  /\ loop = "asked"
  /\ Learn
  /\ done' = done \union {current}
  /\ used' = used \union {current} /\ doubt' = doubt \ {current}
  /\ loop' = IF on /\ todo # {} THEN "rest" ELSE "next"
  /\ UNCHANGED <<on, configured, joined, settings, pool, todo, current, dead, joinDue, upsets, members, cut>>

Flooded_Processed ==
  /\ loop = "asked" /\ Upset
  /\ loop' = "next"
  /\ done' = done \union {current}
  /\ \/ UNCHANGED todo
     \/ todo' = {}
  /\ UNCHANGED <<on, configured, joined, settings, pool, current, learned, dead, joinDue, history>>

(* A flood wait: the group stays for a later tick, also when a message got *)
(* through before it.  A long one ends this tick.                          *)
Flooded ==
  /\ loop = "asked" /\ Upset
  /\ loop' = "next"
  /\ \/ UNCHANGED todo
     \/ todo' = {}
  /\ UNCHANGED <<on, configured, joined, settings, pool, current, done, learned, dead, joinDue, history>>

Rested ==
  /\ on
  /\ Goto("rest", "next")
  /\ UNCHANGED <<on, configured, joined, settings, tick, dead, joinDue, upsets, history>>

(* A stop during a delay or a pause returns at once, without the groups    *)
(* that remain: the loop saves an empty list, and the intelligence is not  *)
(* saved.                                                                  *)
StoppedInRest ==
  /\ ~on /\ loop = "rest"
  /\ Saves({})
  /\ cut' = TRUE
  /\ todo' = {} /\ current' = NoGroup
  /\ UNCHANGED <<on, configured, joined, seen, pool, done, learned, dead, joinDue, members, used, doubt>>

(* After every second tick one more group may be joined; then the loop     *)
(* rests, or ends if it was a test of one tick.                            *)
After ==
  /\ Goto("after", "top")
  /\ on' \in {on, FALSE}
  /\ joinDue' = IF joinDue = 1 /\ on THEN 0 ELSE 1
  /\ IF joinDue = 1 /\ on
     THEN joined' \in {joined} \union {joined \union {g} : g \in Group}
     ELSE UNCHANGED joined
  /\ todo' = {} /\ done' = {} /\ current' = NoGroup
  /\ UNCHANGED <<configured, settings, pool, learned, dead, upsets, history>>

LoopStep ==
  \/ ReadSettings \/ LoopEnds \/ Pick \/ PickUnconfigured \/ TickEnds \/ (\E g \in Group : Ask(g))
  \/ Processed \/ Rested \/ StoppedInRest \/ After

Next ==
  \/ LoopStep \/ LoopStops \/ NotReady \/ AnswerLost \/ Flooded
  \/ Start \/ CrashRestart \/ StopFeature \/ Configure \/ Cancel \/ ResetCounters \/ (\E g \in Group : Leave(g))

Spec == Init /\ [][Next]_vars

(* Telegram answers or an error ends the wait; a worker whose loop raised  *)
(* is restarted; each dead peer gets old and is forgotten then.            *)
Fairness ==
  /\ WF_vars(LoopStep) /\ WF_vars(CrashRestart)
  /\ \A g \in Findable : SF_vars(Pick /\ g \notin learned')

FairSpec == Spec /\ Fairness

---------------------------------------------------------------------------
(* Properties.                                                             *)

(* "No reuse until round completes": within a round a group that the tick  *)
(* was done with is not sent to again, unless the round was forgotten or a *)
(* tick could not save what it did.  A group whose answer was lost may get *)
(* the message again.                                                      *)
ReuseNeedsCut == [][\A g \in used \ doubt : Ask(g) => cut]_vars

(* Between ticks the file tells which groups the round has still to use:   *)
(* neither a flood, nor a lost answer, nor dead peers, nor a stop that is  *)
(* noticed between two sends forgets a group or keeps one that is done.    *)
SavedIsExact ==
  ~cut /\ loop \notin InTick => PoolOf(saved) = PoolOf(members \ (used \ doubt))

(* While forwarding stays on and has a message, every group the account    *)
(* stays in is sent to again and again, unless nothing but groups that the *)
(* account shuns is left of the round: then no tick finds a target, and    *)
(* the round never ends.                                                   *)
EveryGroupServed ==
  \A g \in Group \ Shunned :
    <>[](on /\ configured /\ g \in joined) =>
      []<>(current = g) \/ <>[](loop \in InTick \/ Pending \subseteq Shunned)
=============================================================================
