------------------------------ MODULE AccountQueue ------------------------------
(***************************************************************************)
(* messaging/account_queue.py: the priority queue of one account slot and  *)
(* the callers that put a task on it.  asyncio runs one coroutine at a     *)
(* time and no body under AccountQueue._lock awaits, so each method        *)
(* is one step; only the poll of a full queue (asyncio.sleep(0.25)) and    *)
(* the wait on a future suspend a caller between two steps.                *)
(***************************************************************************)
EXTENDS Integers, FiniteSets

CONSTANTS Task,         \* QueueTask objects, each put by one caller
          MaxSize,      \* max_size
          Priority,     \* task.priority of a task
          WaitResult,   \* the tasks with wait_result = True
          Awaited,      \* those of them whose caller calls wait_for_task
          AutoReply,    \* the AI_AUTO_REPLY tasks
          Manual,       \* the operator's text and media messages
          Chat,         \* payload["user_id"] of a task
          MaxSequence   \* bound of the model: no put-back beyond this count

RETRY == 0
HIGH == 1
NORMAL == 2
LOW == 3

Policies == {"delay", "reject", "drop_low"}

ASSUME QueueAssumption ==
  /\ MaxSize \in Nat \ {0}
  /\ Priority \in [Task -> RETRY .. LOW]
  /\ WaitResult \subseteq Task
  /\ Awaited \subseteq WaitResult
  /\ AutoReply \subseteq Task
  /\ Manual \subseteq Task
  /\ MaxSequence \in Nat

(* Only DM sends, media, locations and retries of them ask for a result:   *)
(* the router's group-post, join and cycle calls leave wait at False.  A   *)
(* retry inherits wait_result but is routed without wait_for_task.         *)
ASSUME WaitedIsUrgent == \A t \in WaitResult : Priority[t] <= HIGH

VARIABLES policy,    \* QUEUE_BACKPRESSURE_POLICY, read once at import
          heap,      \* _heap, as a set of entries
          sequence,  \* _sequence
          pending,   \* task ids with a future in _pending
          caller,    \* how far the coroutine that put the task has come
          taken,     \* tasks handed to a consumer and not completed yet
          outcome    \* history: what became of the work of a task

queueVars == <<policy, heap, sequence, pending, caller, taken, outcome>>

Entry == [priority : RETRY .. LOW, sequence : Nat, task : Task]

CallerState == {"new", "polling", "returned", "waiting", "answered",
                "failed", "cancelled", "refused", "timed_out"}
Outcome == {"none", "handled", "raised", "cancelled", "drained", "evicted"}

TypeOK ==
  /\ policy \in Policies
  /\ heap \subseteq Entry
  /\ sequence \in Nat
  /\ pending \subseteq WaitResult
  /\ caller \in [Task -> CallerState]
  /\ taken \subseteq Task
  /\ outcome \in [Task -> Outcome]

Init ==
  /\ policy \in Policies
  /\ heap = {}
  /\ sequence = 0
  /\ pending = {}
  /\ caller = [t \in Task |-> "new"]
  /\ taken = {}
  /\ outcome = [t \in Task |-> "none"]

Queued(t) == \E e \in heap : e.task = t
Depth == Cardinality(heap)

(* The order of _HeapEntry: priority first, then arrival.                  *)
Before(e, f) == \/ e.priority < f.priority
                \/ e.priority = f.priority /\ e.sequence < f.sequence
Best(e) == e \in heap /\ \A f \in heap \ {e} : Before(e, f)

(* max() over the heap list takes some entry of the largest priority       *)
(* number; the list's layout decides ties.                                 *)
Evictable_Urgent(e) == e \in heap /\ \A f \in heap : f.priority <= e.priority
Evictable(e) == /\ e \in heap
                /\ e.priority > HIGH
                /\ \A f \in heap : f.priority <= e.priority

NewEntry(t) == [priority |-> Priority[t], sequence |-> sequence + 1, task |-> t]

Enqueue(t, kept) ==
  /\ heap' = kept \cup {NewEntry(t)}
  /\ sequence' = sequence + 1

Settle(S, how) == [t \in Task |-> IF t \in S /\ caller[t] = "waiting"
                                  THEN how ELSE caller[t]]

---------------------------------------------------------------------------
(* put: the task enters, at once or after polls of a full queue.           *)

(* enqueue_dm_send and enqueue_dm_send_media call                          *)
(* cancel_ai_auto_reply_for_user before they route the operator's message: *)
(* the queued replies to its chat go, in the same step as the first try.   *)
Dropped(t) == IF t \in Manual /\ caller[t] = "new"
              THEN {u \in AutoReply : Queued(u) /\ Chat[u] = Chat[t]} ELSE {}
Remaining(t) == {e \in heap : e.task \notin Dropped(t)}
Room_OneMore(t) == Cardinality(Remaining(t)) <= MaxSize
Room(t) == Cardinality(Remaining(t)) < MaxSize
Mark(S, how) == [t \in Task |-> IF t \in S THEN how ELSE outcome[t]]

Registered_All(t) == pending \cup {t}
Registered(t) == IF caller[t] = "new" THEN pending \cup ({t} \cap WaitResult)
                 ELSE pending

(* wait_for_task finds no future when a drain cleared _pending meanwhile.  *)
AfterPut(t, futures) == IF t \notin Awaited THEN "returned"
                        ELSE IF t \in futures THEN "waiting" ELSE "refused"

Accept(t) ==
  /\ caller[t] \in {"new", "polling"}
  /\ Room(t)
  /\ Enqueue(t, Remaining(t))
  /\ pending' = Registered(t) \ Dropped(t)
  /\ caller' = [Settle(Dropped(t) \cap pending, "answered") EXCEPT
                  ![t] = AfterPut(t, pending')]
  /\ outcome' = Mark(Dropped(t), "cancelled")
  /\ UNCHANGED <<policy, taken>>

AcceptEvicting(t) ==
  /\ policy = "drop_low"
  /\ caller[t] \in {"new", "polling"}
  /\ ~Room(t)
  /\ \E e \in heap :
       /\ Evictable(e)
       /\ Enqueue(t, heap \ {e})
       /\ outcome' = Mark({e.task}, "evicted")
  /\ pending' = Registered(t)
  /\ caller' = [caller EXCEPT ![t] = AfterPut(t, pending')]
  /\ UNCHANGED <<policy, taken>>

NoRoom(t) == ~Room(t) /\ ~(policy = "drop_low" /\ \E e \in heap : Evictable(e))

StartPolling(t) ==
  /\ policy # "reject"
  /\ caller[t] = "new"
  /\ NoRoom(t)
  /\ pending' = Registered(t)
  /\ caller' = [caller EXCEPT ![t] = "polling"]
  /\ UNCHANGED <<policy, heap, sequence, taken, outcome>>

(* The deadline passed and the last try of the loop found no room.         *)
GiveUpPolling_KeepsFuture(t) ==
  /\ caller[t] = "polling"
  /\ NoRoom(t)
  /\ caller' = [caller EXCEPT ![t] = "refused"]
  /\ UNCHANGED <<policy, heap, sequence, pending, taken, outcome>>

GiveUpPolling(t) ==
  /\ caller[t] = "polling"
  /\ NoRoom(t)
  /\ pending' = pending \ {t}
  /\ caller' = [caller EXCEPT ![t] = "refused"]
  /\ UNCHANGED <<policy, heap, sequence, taken, outcome>>

(* The reject branch raises with the future still registered.              *)
Reject(t) ==
  /\ policy = "reject"
  /\ caller[t] = "new"
  /\ ~Room(t)
  /\ pending' = Registered(t)
  /\ caller' = [caller EXCEPT ![t] = "refused"]
  /\ UNCHANGED <<policy, heap, sequence, taken, outcome>>

---------------------------------------------------------------------------
(* Consumers.                                                              *)

(* get (the queue processor) and pop_highest_priority (the fair scheduler) *)
Take_Peeks(t) ==
  /\ \E e \in heap : Best(e) /\ e.task = t
  /\ taken' = taken \cup {t}
  /\ UNCHANGED <<policy, heap, sequence, pending, caller, outcome>>

Take(t) ==
  /\ \E e \in heap :
       /\ Best(e)
       /\ e.task = t
       /\ heap' = heap \ {e}
  /\ taken' = taken \cup {t}
  /\ UNCHANGED <<policy, sequence, pending, caller, outcome>>

(* The fair scheduler pops a task that is not urgent and puts it back: the *)
(* pop made room and neither lock is contended, so no step comes between.  *)
(* The task goes behind its peers.                                         *)
PutBack(t) ==
  /\ \E e \in heap :
       /\ Best(e)
       /\ e.task = t
       /\ e.priority > HIGH
       /\ Enqueue(t, heap \ {e})
  /\ sequence < MaxSequence
  /\ UNCHANGED <<policy, pending, caller, taken, outcome>>

(* complete_task: pops the future and resolves it unless its waiter left.  *)
Resolve_NoError(t, ok) == Settle({t} \cap pending, "answered")
Resolve_Nobody(t, ok) == caller
Resolve(t, ok) == Settle({t} \cap pending, IF ok THEN "answered" ELSE "failed")

Complete(t, ok) ==
  /\ t \in taken
  /\ taken' = taken \ {t}
  /\ pending' = pending \ {t}
  /\ caller' = Resolve(t, ok)
  /\ outcome' = [outcome EXCEPT ![t] = IF ok THEN "handled" ELSE "raised"]
  /\ UNCHANGED <<policy, heap, sequence>>

---------------------------------------------------------------------------
(* wait_for: the waiter gives up; its cancelled future stays in _pending.  *)
WaitTimesOut(t) ==
  /\ caller[t] = "waiting"
  /\ caller' = [caller EXCEPT ![t] = "timed_out"]
  /\ UNCHANGED <<policy, heap, sequence, pending, taken, outcome>>

(* drain, on logout: every queued task and every future goes.              *)
Drain ==
  /\ heap' = {}
  /\ pending' = {}
  /\ caller' = Settle(pending, "cancelled")
  /\ outcome' = Mark({t \in Task : Queued(t)}, "drained")
  /\ UNCHANGED <<policy, sequence, taken>>

---------------------------------------------------------------------------
Put(t) == \/ Accept(t)
          \/ AcceptEvicting(t)
          \/ StartPolling(t)
          \/ GiveUpPolling(t)
          \/ Reject(t)

Next ==
  \/ \E t \in Task : \/ Put(t)
                     \/ Take(t)
                     \/ PutBack(t)
                     \/ \E ok \in BOOLEAN : Complete(t, ok)
                     \/ WaitTimesOut(t)
  \/ Drain

Spec == Init /\ [][Next]_queueVars

(* The event loop keeps running coroutines that are ready, and handlers    *)
(* return or raise: a consumer keeps taking, a taken task is completed and *)
(* a poller tries again.                                                   *)
Fairness ==
  \A t \in Task : /\ WF_queueVars(Take(t))
                  /\ WF_queueVars(\E ok \in BOOLEAN : Complete(t, ok))
                  /\ WF_queueVars(GiveUpPolling(t))
                  /\ SF_queueVars(Accept(t) /\ caller[t] = "polling")

FairSpec == Spec /\ Fairness

---------------------------------------------------------------------------
(* Properties.                                                             *)

(* However many callers poll a full queue at once, and whatever is put     *)
(* back or evicted, the heap never grows beyond max_size.                  *)
DepthBounded == Depth <= MaxSize

(* A coroutine blocked in wait_for_task is never forgotten: its future is  *)
(* in _pending and its task is still queued or in a consumer's hands.      *)
(* Eviction, put-back, cancellation and drain keep this.                   *)
WaiterCovered ==
  \A t \in Task : caller[t] = "waiting" =>
                    t \in pending /\ (Queued(t) \/ t \in taken)

(* _pending holds a future only for a task that can still be completed, so *)
(* it does not grow with the number of tasks ever put (except under        *)
(* "reject", whose branch raises without popping the future).              *)
NoLeakedFuture ==
  policy # "reject" =>
    \A t \in pending : Queued(t) \/ t \in taken \/ caller[t] = "polling"

(* What a waiter is told is what happened to its task: a result only when  *)
(* the handler returned or the reply was cancelled for a manual send, an   *)
(* error only when the handler raised.                                     *)
AnswerIsTrue ==
  \A t \in Task :
    /\ caller[t] = "answered" => outcome[t] \in {"handled", "cancelled"}
    /\ caller[t] = "failed" => outcome[t] = "raised"

(* Where the work of a task is: on the queue, with a consumer, over.       *)
Places(queued, claimed, settled) ==
  (IF queued THEN {"held"} ELSE {})
    \cup (IF claimed THEN {"claimed"} ELSE {})
    \cup (IF settled THEN {"settled"} ELSE {})
work == [t \in Task |-> Places(Queued(t), t \in taken, outcome[t] # "none")]

(* The queue implements the ledger: a task is handed to one consumer once, *)
(* never both queued and in hand, and never again after it is over.        *)
Ledger == INSTANCE WorkLedger
LedgerSpec == Ledger!Spec

(* Every wait ends: a caller blocked on a future hears something, and one  *)
(* polling a full queue gets in or is refused.                             *)
EveryWaitEnds ==
  \A t \in Task : /\ caller[t] = "waiting" ~> caller[t] # "waiting"
                  /\ caller[t] = "polling" ~> caller[t] # "polling"
=============================================================================
