--------------------------- MODULE AccountQueue_proofs ---------------------------
(***************************************************************************)
(* For every set of tasks, queue size and backpressure policy: the         *)
(* invariants of AccountQueue, and that it implements WorkLedger.          *)
(***************************************************************************)
EXTENDS AccountQueue, FiniteSetTheorems, TLAPS

(* A queued task carries its own priority.                                 *)
EntryPriority == \A e \in heap : e.priority = Priority[e.task]

(* A task has one entry.                                                   *)
OneEntry == \A e, f \in heap : e.task = f.task => e = f

(* A task is in at most one place, and in none before it was put.          *)
Placed ==
  \A t \in Task :
    /\ Queued(t) => t \notin taken /\ outcome[t] = "none"
    /\ t \in taken => outcome[t] = "none"
    /\ caller[t] \in {"new", "polling"} =>
         ~Queued(t) /\ t \notin taken /\ outcome[t] = "none"

(* The inductive invariant: nothing a waiter relies on can be evicted,     *)
(* because entries keep their priority; no answer is overwritten, because  *)
(* a task is in one place at a time.                                       *)
IInv == /\ TypeOK
        /\ EntryPriority
        /\ OneEntry
        /\ Placed
        /\ WaiterCovered
        /\ NoLeakedFuture
        /\ AnswerIsTrue

LEMMA Initially == Init => IInv
  BY QueueAssumption DEF Init, IInv, TypeOK, EntryPriority, OneEntry, Placed,
     WaiterCovered, NoLeakedFuture, AnswerIsTrue, Queued, CallerState, Outcome

---------------------------------------------------------------------------
(* Types.                                                                  *)

LEMMA NewEntryType ==
  ASSUME TypeOK, NEW t \in Task
  PROVE  /\ NewEntry(t) \in Entry
         /\ NewEntry(t).task = t
         /\ NewEntry(t).priority = Priority[t]
  BY QueueAssumption DEF TypeOK, NewEntry, Entry, RETRY, LOW

LEMMA SettleType ==
  ASSUME TypeOK, NEW S, NEW how \in CallerState
  PROVE  Settle(S, how) \in [Task -> CallerState]
  BY DEF TypeOK, Settle

LEMMA MarkType ==
  ASSUME TypeOK, NEW S, NEW how \in Outcome
  PROVE  Mark(S, how) \in [Task -> Outcome]
  BY DEF TypeOK, Mark

LEMMA RegisteredType ==
  ASSUME TypeOK, NEW t \in Task
  PROVE  Registered(t) \subseteq WaitResult
  BY QueueAssumption DEF TypeOK, Registered

LEMMA AfterPutType ==
  ASSUME NEW t, NEW futures
  PROVE  AfterPut(t, futures) \in CallerState \ {"new", "polling", "answered", "failed"}
  BY DEF AfterPut, CallerState

LEMMA TypeStep == TypeOK /\ [Next]_queueVars => TypeOK'
<1> SUFFICES ASSUME TypeOK, [Next]_queueVars PROVE TypeOK'
  OBVIOUS
<1> USE DEF TypeOK
<1>1. ASSUME NEW t \in Task, Accept(t) PROVE TypeOK'
  <2>1. Settle(Dropped(t) \cap pending, "answered") \in [Task -> CallerState]
    BY SettleType DEF CallerState
  <2>2. Mark(Dropped(t), "cancelled") \in [Task -> Outcome]
    BY MarkType DEF Outcome
  <2>3. caller' \in [Task -> CallerState]
    BY <1>1, <2>1, AfterPutType DEF Accept
  <2>4. heap' \subseteq Entry
    BY <1>1, NewEntryType DEF Accept, Enqueue, Remaining
  <2>5. Registered(t) \subseteq WaitResult
    BY RegisteredType
  <2>6. sequence' \in Nat /\ pending' \subseteq WaitResult
    BY <1>1, <2>5 DEF Accept, Enqueue
  <2>7. policy' \in Policies /\ taken' \subseteq Task /\ outcome' \in [Task -> Outcome]
    BY <1>1, <2>2 DEF Accept
  <2> QED
    BY <2>3, <2>4, <2>6, <2>7
<1>2. ASSUME NEW t \in Task, AcceptEvicting(t) PROVE TypeOK'
  <2>1. PICK e \in heap : /\ Enqueue(t, heap \ {e})
                          /\ outcome' = Mark({e.task}, "evicted")
    BY <1>2 DEF AcceptEvicting
  <2>2. Mark({e.task}, "evicted") \in [Task -> Outcome]
    BY MarkType DEF Outcome
  <2>3. caller' \in [Task -> CallerState]
    BY <1>2, AfterPutType DEF AcceptEvicting
  <2>4. heap' \subseteq Entry /\ sequence' \in Nat
    BY <2>1, NewEntryType DEF Enqueue
  <2>5. pending' \subseteq WaitResult
    BY <1>2, RegisteredType DEF AcceptEvicting
  <2>6. policy' \in Policies /\ taken' \subseteq Task /\ outcome' \in [Task -> Outcome]
    BY <1>2, <2>1, <2>2 DEF AcceptEvicting
  <2> QED
    BY <2>3, <2>4, <2>5, <2>6
<1>3. ASSUME NEW t \in Task, StartPolling(t) \/ Reject(t) PROVE TypeOK'
  BY <1>3, RegisteredType DEF StartPolling, Reject, CallerState
<1>4. ASSUME NEW t \in Task, GiveUpPolling(t) \/ WaitTimesOut(t) PROVE TypeOK'
  BY <1>4 DEF GiveUpPolling, WaitTimesOut, CallerState
<1>5. ASSUME NEW t \in Task, Take(t) PROVE TypeOK'
  BY <1>5 DEF Take
<1>6. ASSUME NEW t \in Task, PutBack(t) PROVE TypeOK'
  BY <1>6, NewEntryType DEF PutBack, Enqueue
<1>7. ASSUME NEW t \in Task, NEW ok \in BOOLEAN, Complete(t, ok) PROVE TypeOK'
  <2>1. Resolve(t, ok) \in [Task -> CallerState]
    BY SettleType DEF Resolve, CallerState
  <2> QED
    BY <1>7, <2>1 DEF Complete, Outcome
<1>8. CASE Drain
  <2>1. Settle(pending, "cancelled") \in [Task -> CallerState]
    BY SettleType DEF CallerState
  <2>2. Mark({t \in Task : Queued(t)}, "drained") \in [Task -> Outcome]
    BY MarkType DEF Outcome
  <2> QED
    BY <1>8, <2>1, <2>2 DEF Drain
<1>9. CASE UNCHANGED queueVars
  BY <1>9 DEF queueVars
<1> QED
  BY <1>1, <1>2, <1>3, <1>4, <1>5, <1>6, <1>7, <1>8, <1>9 DEF Next, Put

(* Every variable keeps its type.                                          *)
THEOREM TypeCorrect == Spec => []TypeOK
<1>1. Init => TypeOK
  BY Initially DEF IInv
<1> QED
  BY <1>1, TypeStep, PTL DEF Spec

---------------------------------------------------------------------------
(* Entries and places.                                                     *)

LEMMA EntryStep == IInv /\ [Next]_queueVars => EntryPriority' /\ OneEntry'
<1> SUFFICES ASSUME IInv, [Next]_queueVars PROVE EntryPriority' /\ OneEntry'
  OBVIOUS
<1> USE DEF IInv, EntryPriority, OneEntry
<1>0. ASSUME NEW t \in Task, NEW kept \in SUBSET heap, Enqueue(t, kept),
             \A e \in kept : e.task # t
      PROVE  EntryPriority' /\ OneEntry'
  BY <1>0, NewEntryType DEF Enqueue
<1>1. ASSUME NEW t \in Task, Accept(t) PROVE EntryPriority' /\ OneEntry'
  BY <1>0, <1>1 DEF Accept, Remaining, Placed, Queued
<1>2. ASSUME NEW t \in Task, AcceptEvicting(t) PROVE EntryPriority' /\ OneEntry'
  BY <1>0, <1>2 DEF AcceptEvicting, Placed, Queued
<1>3. ASSUME NEW t \in Task, PutBack(t) PROVE EntryPriority' /\ OneEntry'
  BY <1>0, <1>3 DEF PutBack
<1>4. CASE heap' \subseteq heap
  BY <1>4
<1> QED
  BY <1>1, <1>2, <1>3, <1>4
  DEF Next, Put, StartPolling, GiveUpPolling, Reject, Take, Complete,
      WaitTimesOut, Drain, queueVars

LEMMA SettleKeeps ==
  ASSUME TypeOK, NEW S, NEW how, NEW u \in Task
  PROVE  /\ caller[u] # "waiting" => Settle(S, how)[u] = caller[u]
         /\ u \notin S => Settle(S, how)[u] = caller[u]
         /\ u \in S /\ caller[u] = "waiting" => Settle(S, how)[u] = how
  BY DEF Settle

LEMMA MarkKeeps ==
  ASSUME NEW S, NEW how, NEW u \in Task
  PROVE  Mark(S, how)[u] = IF u \in S THEN how ELSE outcome[u]
  BY DEF Mark

LEMMA QueuedAfter ==
  ASSUME TypeOK, NEW t \in Task, NEW kept \in SUBSET heap, Enqueue(t, kept),
         NEW u
  PROVE  Queued(u)' <=> u = t \/ \E e \in kept : e.task = u
<1>1. heap' = kept \cup {NewEntry(t)} /\ NewEntry(t).task = t
  BY NewEntryType DEF Enqueue
<1> QED
  BY <1>1 DEF Queued

LEMMA PlacedStep == IInv /\ [Next]_queueVars => Placed'
<1> SUFFICES ASSUME IInv, [Next]_queueVars, NEW u \in Task
             PROVE  (/\ Queued(u) => u \notin taken /\ outcome[u] = "none"
                     /\ u \in taken => outcome[u] = "none"
                     /\ caller[u] \in {"new", "polling"} =>
                          ~Queued(u) /\ u \notin taken /\ outcome[u] = "none")'
  BY DEF Placed
<1> DEFINE Goal == (/\ Queued(u) => u \notin taken /\ outcome[u] = "none"
                    /\ u \in taken => outcome[u] = "none"
                    /\ caller[u] \in {"new", "polling"} =>
                         ~Queued(u) /\ u \notin taken /\ outcome[u] = "none")'
<1>0. /\ Queued(u) => u \notin taken /\ outcome[u] = "none"
      /\ u \in taken => outcome[u] = "none"
      /\ caller[u] \in {"new", "polling"} =>
           ~Queued(u) /\ u \notin taken /\ outcome[u] = "none"
  BY DEF IInv, Placed
<1>t. TypeOK /\ OneEntry
  BY DEF IInv
<1>1. ASSUME NEW t \in Task, Accept(t) PROVE Goal
  <2>1. t \notin Dropped(t) /\ ~Queued(t) /\ t \notin taken /\ outcome[t] = "none"
    BY <1>1 DEF Accept, IInv, Placed, Dropped
  <2>2. outcome'[u] = IF u \in Dropped(t) THEN "cancelled" ELSE outcome[u]
    BY <1>1, MarkKeeps DEF Accept
  <2>3. Queued(u)' <=> u = t \/ (Queued(u) /\ u \notin Dropped(t))
    <3>1. Remaining(t) \in SUBSET heap /\ Enqueue(t, Remaining(t))
      BY <1>1 DEF Accept, Remaining
    <3>2. Queued(u)' <=> u = t \/ \E e \in Remaining(t) : e.task = u
      BY <3>1, <1>t, QueuedAfter
    <3> QED
      BY <3>2 DEF Remaining, Queued
  <2>4. u \in Dropped(t) => Queued(u)
    BY DEF Dropped
  <2>5. u = t => caller'[u] \notin {"new", "polling"}
    BY <1>1, <1>t, SettleType, AfterPutType DEF Accept, CallerState
  <2>6. u # t => caller'[u] = caller[u] \/ caller'[u] = "answered"
    BY <1>1, <1>t, SettleKeeps DEF Accept
  <2>7. taken' = taken
    BY <1>1 DEF Accept
  <2> QED
    BY <1>0, <2>1, <2>2, <2>3, <2>4, <2>5, <2>6, <2>7
<1>2. ASSUME NEW t \in Task, AcceptEvicting(t) PROVE Goal
  <2>1. PICK e \in heap : /\ Enqueue(t, heap \ {e})
                          /\ outcome' = Mark({e.task}, "evicted")
    BY <1>2 DEF AcceptEvicting
  <2>2. e.task # t /\ ~Queued(t) /\ t \notin taken /\ outcome[t] = "none"
    BY <1>2 DEF AcceptEvicting, IInv, Placed, Queued
  <2>3. outcome'[u] = IF u = e.task THEN "evicted" ELSE outcome[u]
    BY <2>1, MarkKeeps
  <2>4. Queued(u)' <=> u = t \/ (Queued(u) /\ u # e.task)
    <3>1. Queued(u)' <=> u = t \/ \E f \in heap \ {e} : f.task = u
      BY <2>1, <1>t, QueuedAfter
    <3> QED
      BY <3>1, <1>t DEF Queued, OneEntry
  <2>5. u = e.task => Queued(u)
    BY DEF Queued
  <2>6. u = t => caller'[u] \notin {"new", "polling"}
    BY <1>2, <1>t, AfterPutType DEF AcceptEvicting, TypeOK
  <2>7. u # t => caller'[u] = caller[u]
    BY <1>2, <1>t DEF AcceptEvicting, TypeOK
  <2>8. taken' = taken
    BY <1>2 DEF AcceptEvicting
  <2> QED
    BY <1>0, <2>2, <2>3, <2>4, <2>5, <2>6, <2>7, <2>8
<1>3. ASSUME NEW t \in Task, StartPolling(t) \/ GiveUpPolling(t) \/ Reject(t)
      PROVE  Goal
  BY <1>0, <1>3, <1>t DEF StartPolling, GiveUpPolling, Reject, TypeOK, Queued
<1>4. ASSUME NEW t \in Task, Take(t) PROVE Goal
  <2>1. PICK e \in heap : e.task = t /\ heap' = heap \ {e}
    BY <1>4 DEF Take, Best
  <2>2. Queued(u)' <=> Queued(u) /\ u # t
    BY <1>t, <2>1 DEF Queued, OneEntry
  <2>3. Queued(t)
    BY <2>1 DEF Queued
  <2>4. taken' = taken \cup {t} /\ caller' = caller /\ outcome' = outcome
    BY <1>4 DEF Take
  <2> QED
    BY <1>0, <2>2, <2>3, <2>4
<1>5. ASSUME NEW t \in Task, PutBack(t) PROVE Goal
  <2>1. PICK e \in heap : e.task = t /\ Enqueue(t, heap \ {e})
    BY <1>5 DEF PutBack, Best
  <2>2. Queued(u)' <=> Queued(u)
    BY <1>t, <2>1, NewEntryType DEF Queued, OneEntry, Enqueue
  <2>3. taken' = taken /\ caller' = caller /\ outcome' = outcome
    BY <1>5 DEF PutBack
  <2> QED
    BY <1>0, <2>2, <2>3
<1>6. ASSUME NEW t \in Task, NEW ok \in BOOLEAN, Complete(t, ok) PROVE Goal
  <2>1. caller'[u] \in {"new", "polling"} => caller'[u] = caller[u]
    BY <1>6, <1>t, SettleKeeps DEF Complete, Resolve
  <2>2. heap' = heap /\ taken' = taken \ {t} /\ t \in taken
    BY <1>6 DEF Complete
  <2>3. u # t => outcome'[u] = outcome[u]
    BY <1>6, <1>t DEF Complete, TypeOK
  <2> QED
    BY <1>0, <2>1, <2>2, <2>3 DEF Queued
<1>7. ASSUME NEW t \in Task, WaitTimesOut(t) PROVE Goal
  BY <1>0, <1>7, <1>t DEF WaitTimesOut, TypeOK, Queued
<1>8. CASE Drain
  <2>1. ~Queued(u)' /\ taken' = taken
    BY <1>8 DEF Drain, Queued
  <2>2. outcome'[u] = IF Queued(u) THEN "drained" ELSE outcome[u]
    BY <1>8, MarkKeeps DEF Drain
  <2>3. caller'[u] \in {"new", "polling"} => caller'[u] = caller[u]
    BY <1>8, <1>t, SettleKeeps DEF Drain
  <2> QED
    BY <1>0, <2>1, <2>2, <2>3
<1>9. CASE UNCHANGED queueVars
  BY <1>0, <1>9 DEF queueVars, Queued
<1> QED
  BY <1>1, <1>2, <1>3, <1>4, <1>5, <1>6, <1>7, <1>8, <1>9 DEF Next, Put

---------------------------------------------------------------------------
(* Waiters and futures.                                                    *)

(* An evicted entry is nobody's wait: entries keep their priority.         *)
LEMMA EvictedIsUnawaited ==
  ASSUME IInv, NEW e \in heap, Evictable(e)
  PROVE  e.task \notin pending
<1>1. Priority[e.task] > HIGH
  BY DEF IInv, EntryPriority, Evictable
<1> QED
  BY <1>1, WaitedIsUrgent, QueueAssumption DEF IInv, TypeOK, HIGH, RETRY, LOW, Entry

LEMMA WaiterStep == IInv /\ [Next]_queueVars => WaiterCovered'
<1> SUFFICES ASSUME IInv, [Next]_queueVars, NEW u \in Task, caller'[u] = "waiting"
             PROVE  u \in pending' /\ (Queued(u)' \/ u \in taken')
  BY DEF WaiterCovered
<1> DEFINE Goal == u \in pending' /\ (Queued(u)' \/ u \in taken')
<1>0. caller[u] = "waiting" => u \in pending /\ (Queued(u) \/ u \in taken)
  BY DEF IInv, WaiterCovered
<1>t. TypeOK /\ OneEntry
  BY DEF IInv
<1>1. ASSUME NEW t \in Task, Accept(t) PROVE Goal
  <2>1. Remaining(t) \in SUBSET heap /\ Enqueue(t, Remaining(t))
    BY <1>1 DEF Accept, Remaining
  <2>2. Queued(u)' <=> u = t \/ (Queued(u) /\ u \notin Dropped(t))
    <3>1. Queued(u)' <=> u = t \/ \E e \in Remaining(t) : e.task = u
      BY <2>1, <1>t, QueuedAfter
    <3> QED
      BY <3>1 DEF Remaining, Queued
  <2>3. CASE u = t
    <3>1. caller'[t] = AfterPut(t, pending')
      BY <1>1, <1>t, SettleType DEF Accept, CallerState
    <3> QED
      BY <2>2, <2>3, <3>1 DEF AfterPut
  <2>4. CASE u # t
    <3>1. caller'[u] = Settle(Dropped(t) \cap pending, "answered")[u]
      BY <1>1, <2>4 DEF Accept, Settle
    <3>2. caller[u] = "waiting" /\ u \notin Dropped(t) \cap pending
      BY <3>1, <1>t, SettleKeeps
    <3>3. u \in pending' /\ taken' = taken
      BY <1>0, <1>1, <3>2 DEF Accept, Registered
    <3> QED
      BY <1>0, <2>2, <3>2, <3>3
  <2> QED
    BY <2>3, <2>4
<1>2. ASSUME NEW t \in Task, AcceptEvicting(t) PROVE Goal
  <2>1. PICK e \in heap : Evictable(e) /\ Enqueue(t, heap \ {e})
    BY <1>2 DEF AcceptEvicting
  <2>2. Queued(u)' <=> u = t \/ (Queued(u) /\ u # e.task)
    <3>1. Queued(u)' <=> u = t \/ \E f \in heap \ {e} : f.task = u
      BY <2>1, <1>t, QueuedAfter
    <3> QED
      BY <3>1, <1>t DEF Queued, OneEntry
  <2>3. e.task \notin pending
    BY <2>1, EvictedIsUnawaited
  <2>4. /\ pending \subseteq pending'
        /\ taken' = taken
        /\ u # t => caller'[u] = caller[u]
        /\ u = t => caller'[u] = AfterPut(t, pending')
    BY <1>2, <1>t DEF AcceptEvicting, Registered, TypeOK
  <2> QED
    BY <1>0, <2>2, <2>3, <2>4 DEF AfterPut
<1>3. ASSUME NEW t \in Task, StartPolling(t) \/ Reject(t) PROVE Goal
  BY <1>0, <1>3, <1>t DEF StartPolling, Reject, Registered, TypeOK, Queued
<1>4. ASSUME NEW t \in Task, GiveUpPolling(t) PROVE Goal
  BY <1>0, <1>4, <1>t DEF GiveUpPolling, TypeOK, Queued
<1>5. ASSUME NEW t \in Task, Take(t) PROVE Goal
  <2>1. PICK e \in heap : e.task = t /\ heap' = heap \ {e}
    BY <1>5 DEF Take, Best
  <2>2. Queued(u) => Queued(u)' \/ u = t
    BY <2>1 DEF Queued
  <2> QED
    BY <1>0, <1>5, <2>2 DEF Take
<1>6. ASSUME NEW t \in Task, PutBack(t) PROVE Goal
  <2>1. PICK e \in heap : e.task = t /\ Enqueue(t, heap \ {e})
    BY <1>6 DEF PutBack, Best
  <2>2. Queued(u) => Queued(u)'
    <3>1. Queued(u)' <=> u = t \/ \E f \in heap \ {e} : f.task = u
      BY <2>1, <1>t, QueuedAfter
    <3> QED
      BY <2>1, <3>1 DEF Queued
  <2> QED
    BY <1>0, <1>6, <2>2 DEF PutBack
<1>7. ASSUME NEW t \in Task, NEW ok \in BOOLEAN, Complete(t, ok) PROVE Goal
  <2>1. caller[u] = "waiting" /\ u \notin {t} \cap pending
    BY <1>7, <1>t, SettleKeeps DEF Complete, Resolve
  <2> QED
    BY <1>0, <1>7, <2>1 DEF Complete, Queued
<1>8. ASSUME NEW t \in Task, WaitTimesOut(t) PROVE Goal
  BY <1>0, <1>8, <1>t DEF WaitTimesOut, TypeOK, Queued
<1>9. CASE Drain
  <2>1. caller[u] = "waiting" /\ u \notin pending
    BY <1>9, <1>t, SettleKeeps DEF Drain
  <2> QED
    BY <1>0, <2>1
<1>10. CASE UNCHANGED queueVars
  BY <1>0, <1>10 DEF queueVars, Queued
<1> QED
  BY <1>1, <1>2, <1>3, <1>4, <1>5, <1>6, <1>7, <1>8, <1>9, <1>10 DEF Next, Put

LEMMA FutureStep == IInv /\ [Next]_queueVars => NoLeakedFuture'
<1> SUFFICES ASSUME IInv, [Next]_queueVars, policy' # "reject", NEW u \in pending'
             PROVE  (Queued(u) \/ u \in taken \/ caller[u] = "polling")'
  BY DEF NoLeakedFuture
<1> DEFINE Goal == (Queued(u) \/ u \in taken \/ caller[u] = "polling")'
<1>p. policy # "reject"
  BY DEF Next, Put, Accept, AcceptEvicting, StartPolling, GiveUpPolling, Reject,
         Take, PutBack, Complete, WaitTimesOut, Drain, queueVars
<1>0. u \in pending => Queued(u) \/ u \in taken \/ caller[u] = "polling"
  BY <1>p DEF IInv, NoLeakedFuture
<1>t. TypeOK /\ OneEntry /\ pending \subseteq Task
  BY QueueAssumption DEF IInv, TypeOK
<1>1. ASSUME NEW t \in Task, Accept(t) PROVE Goal
  <2>1. Remaining(t) \in SUBSET heap /\ Enqueue(t, Remaining(t))
    BY <1>1 DEF Accept, Remaining
  <2>2. Queued(u)' <=> u = t \/ (Queued(u) /\ u \notin Dropped(t))
    BY <2>1, <1>t, QueuedAfter DEF Remaining, Queued
  <2>3. u = t \/ (u \in pending /\ u \notin Dropped(t))
    BY <1>1 DEF Accept, Registered
  <2>4. ASSUME u # t, u \in Task, caller[u] = "polling" PROVE caller'[u] = "polling"
    BY <1>1, <1>t, <2>4, SettleKeeps DEF Accept
  <2> QED
    BY <1>0, <1>1, <1>t, <2>2, <2>3, <2>4 DEF Accept
<1>2. ASSUME NEW t \in Task, AcceptEvicting(t) PROVE Goal
  <2>1. PICK e \in heap : Evictable(e) /\ Enqueue(t, heap \ {e})
    BY <1>2 DEF AcceptEvicting
  <2>2. Queued(u)' <=> u = t \/ (Queued(u) /\ u # e.task)
    <3>1. Queued(u)' <=> u = t \/ \E f \in heap \ {e} : f.task = u
      BY <2>1, <1>t, QueuedAfter
    <3> QED
      BY <3>1, <1>t DEF Queued, OneEntry
  <2>3. e.task \notin pending
    BY <2>1, EvictedIsUnawaited
  <2>4. /\ u = t \/ u \in pending
        /\ taken' = taken
        /\ u # t /\ u \in Task => caller'[u] = caller[u]
    BY <1>2, <1>t DEF AcceptEvicting, Registered, TypeOK
  <2> QED
    BY <1>0, <1>t, <2>2, <2>3, <2>4
<1>3. ASSUME NEW t \in Task, StartPolling(t) PROVE Goal
  BY <1>0, <1>3, <1>t DEF StartPolling, Registered, TypeOK, Queued
<1>4. ASSUME NEW t \in Task, GiveUpPolling(t) PROVE Goal
  BY <1>0, <1>4, <1>t DEF GiveUpPolling, TypeOK, Queued
<1>5. ASSUME NEW t \in Task, Reject(t) PROVE Goal
  BY <1>5 DEF Reject
<1>6. ASSUME NEW t \in Task, Take(t) PROVE Goal
  <2>1. PICK e \in heap : e.task = t /\ heap' = heap \ {e}
    BY <1>6 DEF Take, Best
  <2>2. Queued(u) => Queued(u)' \/ u = t
    BY <2>1 DEF Queued
  <2> QED
    BY <1>0, <1>6, <2>2 DEF Take
<1>7. ASSUME NEW t \in Task, PutBack(t) PROVE Goal
  <2>1. PICK e \in heap : e.task = t /\ Enqueue(t, heap \ {e})
    BY <1>7 DEF PutBack, Best
  <2>2. Queued(u) => Queued(u)'
    <3>1. Queued(u)' <=> u = t \/ \E f \in heap \ {e} : f.task = u
      BY <2>1, <1>t, QueuedAfter
    <3> QED
      BY <2>1, <3>1 DEF Queued
  <2> QED
    BY <1>0, <1>7, <2>2 DEF PutBack
<1>8. ASSUME NEW t \in Task, NEW ok \in BOOLEAN, Complete(t, ok) PROVE Goal
  <2>1. caller[u] = "polling" => caller'[u] = "polling"
    BY <1>8, <1>t, SettleKeeps DEF Complete, Resolve
  <2> QED
    BY <1>0, <1>8, <2>1 DEF Complete, Queued
<1>9. ASSUME NEW t \in Task, WaitTimesOut(t) PROVE Goal
  BY <1>0, <1>9, <1>t DEF WaitTimesOut, TypeOK, Queued
<1>10. CASE Drain
  BY <1>10 DEF Drain
<1>11. CASE UNCHANGED queueVars
  BY <1>0, <1>11 DEF queueVars, Queued
<1> QED
  BY <1>1, <1>2, <1>3, <1>4, <1>5, <1>6, <1>7, <1>8, <1>9, <1>10, <1>11
  DEF Next, Put

LEMMA AnswerStep == IInv /\ [Next]_queueVars => AnswerIsTrue'
<1> SUFFICES ASSUME IInv, [Next]_queueVars, NEW u \in Task
             PROVE  (/\ caller[u] = "answered" => outcome[u] \in {"handled", "cancelled"}
                     /\ caller[u] = "failed" => outcome[u] = "raised")'
  BY DEF AnswerIsTrue
<1> DEFINE Goal ==
      (/\ caller[u] = "answered" => outcome[u] \in {"handled", "cancelled"}
       /\ caller[u] = "failed" => outcome[u] = "raised")'
<1>0. /\ caller[u] = "answered" => outcome[u] \in {"handled", "cancelled"}
      /\ caller[u] = "failed" => outcome[u] = "raised"
      /\ Queued(u) \/ u \in taken =>
           outcome[u] = "none" /\ caller[u] \notin {"answered", "failed"}
  BY DEF IInv, AnswerIsTrue, Placed
<1>t. TypeOK
  BY DEF IInv
<1>1. ASSUME NEW t \in Task, Accept(t) PROVE Goal
  <2>1. t \notin Dropped(t)
    BY <1>1 DEF Accept, IInv, Placed, Dropped
  <2>2. outcome'[u] = IF u \in Dropped(t) THEN "cancelled" ELSE outcome[u]
    BY <1>1, MarkKeeps DEF Accept
  <2>3. u = t => caller'[u] \notin {"answered", "failed"}
    BY <1>1, <1>t, SettleType, AfterPutType DEF Accept, CallerState
  <2>4. u # t => caller'[u] = caller[u]
                 \/ (u \in Dropped(t) /\ caller'[u] = "answered")
    BY <1>1, <1>t, SettleKeeps DEF Accept
  <2>5. u \in Dropped(t) => Queued(u)
    BY DEF Dropped
  <2> QED
    BY <1>0, <2>1, <2>2, <2>3, <2>4, <2>5
<1>2. ASSUME NEW t \in Task, AcceptEvicting(t) PROVE Goal
  <2>1. PICK e \in heap : outcome' = Mark({e.task}, "evicted")
    BY <1>2 DEF AcceptEvicting
  <2>2. outcome'[u] = IF u = e.task THEN "evicted" ELSE outcome[u]
    BY <2>1, MarkKeeps
  <2>3. u = e.task => Queued(u)
    BY DEF Queued
  <2>4. /\ u = t => caller'[u] \notin {"answered", "failed"}
        /\ u # t => caller'[u] = caller[u]
    BY <1>2, <1>t, AfterPutType DEF AcceptEvicting, TypeOK
  <2> QED
    BY <1>0, <2>2, <2>3, <2>4
<1>3. ASSUME NEW t \in Task, StartPolling(t) \/ GiveUpPolling(t) \/ Reject(t)
      PROVE  Goal
  BY <1>0, <1>3, <1>t DEF StartPolling, GiveUpPolling, Reject, TypeOK
<1>4. ASSUME NEW t \in Task, Take(t) \/ PutBack(t) PROVE Goal
  BY <1>0, <1>4 DEF Take, PutBack
<1>5. ASSUME NEW t \in Task, NEW ok \in BOOLEAN, Complete(t, ok) PROVE Goal
  <2>1. t \in taken /\ outcome' = [outcome EXCEPT ![t] = IF ok THEN "handled" ELSE "raised"]
    BY <1>5 DEF Complete
  <2>2. caller' = Settle({t} \cap pending, IF ok THEN "answered" ELSE "failed")
    BY <1>5 DEF Complete, Resolve
  <2>3. \/ caller'[u] = caller[u]
        \/ u = t /\ caller'[u] = IF ok THEN "answered" ELSE "failed"
    BY <1>t, <2>2, SettleKeeps
  <2>4. outcome'[u] = IF u = t THEN (IF ok THEN "handled" ELSE "raised") ELSE outcome[u]
    BY <1>t, <2>1 DEF TypeOK
  <2> QED
    BY <1>0, <2>1, <2>3, <2>4
<1>6. ASSUME NEW t \in Task, WaitTimesOut(t) PROVE Goal
  BY <1>0, <1>6, <1>t DEF WaitTimesOut, TypeOK
<1>7. CASE Drain
  <2>1. outcome'[u] = IF Queued(u) THEN "drained" ELSE outcome[u]
    BY <1>7, MarkKeeps DEF Drain
  <2>2. caller'[u] = caller[u] \/ caller'[u] = "cancelled"
    BY <1>7, <1>t, SettleKeeps DEF Drain
  <2> QED
    BY <1>0, <2>1, <2>2
<1>8. CASE UNCHANGED queueVars
  BY <1>0, <1>8 DEF queueVars
<1> QED
  BY <1>1, <1>2, <1>3, <1>4, <1>5, <1>6, <1>7, <1>8 DEF Next, Put

---------------------------------------------------------------------------
LEMMA Invariance == Spec => []IInv
<1>1. IInv /\ [Next]_queueVars => IInv'
  BY TypeStep, EntryStep, PlacedStep, WaiterStep, FutureStep, AnswerStep DEF IInv
<1> QED
  BY <1>1, Initially, PTL DEF Spec

(* No step of any policy forgets a coroutine blocked in wait_for_task.     *)
THEOREM WaitersCovered == Spec => []WaiterCovered
<1>1. IInv => WaiterCovered
  BY DEF IInv
<1> QED
  BY <1>1, Invariance, PTL

(* _pending holds futures of live tasks only, save for "reject".           *)
THEOREM FuturesAccounted == Spec => []NoLeakedFuture
<1>1. IInv => NoLeakedFuture
  BY DEF IInv
<1> QED
  BY <1>1, Invariance, PTL

(* What a waiter is told is what became of its task.                       *)
THEOREM AnswersTrue == Spec => []AnswerIsTrue
<1>1. IInv => AnswerIsTrue
  BY DEF IInv
<1> QED
  BY <1>1, Invariance, PTL

---------------------------------------------------------------------------
(* The bound on the heap.                                                  *)

Bounded == IsFiniteSet(heap) /\ DepthBounded

(* Adding an entry where there is room, or in the place of another.        *)
LEMMA AddEntry ==
  ASSUME NEW S, NEW kept \in SUBSET S, NEW e, IsFiniteSet(S),
         Cardinality(kept) < MaxSize
  PROVE  IsFiniteSet(kept \cup {e}) /\ Cardinality(kept \cup {e}) <= MaxSize
<1>1. IsFiniteSet(kept) /\ Cardinality(kept) \in Nat
  BY FS_Subset, FS_CardinalityType
<1>2. /\ IsFiniteSet(kept \cup {e})
      /\ Cardinality(kept \cup {e}) = Cardinality(kept)
         \/ Cardinality(kept \cup {e}) = Cardinality(kept) + 1
  BY <1>1, FS_AddElement
<1> QED
  BY <1>1, <1>2, QueueAssumption

LEMMA BoundedStep == Bounded /\ [Next]_queueVars => Bounded'
<1> SUFFICES ASSUME Bounded, [Next]_queueVars PROVE Bounded'
  OBVIOUS
<1> USE DEF Bounded, DepthBounded, Depth
<1>1. ASSUME NEW t \in Task, Accept(t) PROVE Bounded'
  <2>1. /\ Remaining(t) \in SUBSET heap
        /\ Cardinality(Remaining(t)) < MaxSize
        /\ heap' = Remaining(t) \cup {NewEntry(t)}
    BY <1>1 DEF Accept, Remaining, Room, Enqueue
  <2> QED
    BY <2>1, AddEntry
<1>2. ASSUME NEW t \in Task, NEW e \in heap, Enqueue(t, heap \ {e}) PROVE Bounded'
  <2>1. Cardinality(heap) \in Nat /\ Cardinality(heap \ {e}) = Cardinality(heap) - 1
    BY FS_CardinalityType, FS_RemoveElement
  <2>2. Cardinality(heap \ {e}) < MaxSize
    BY <2>1, QueueAssumption
  <2>3. heap' = (heap \ {e}) \cup {NewEntry(t)}
    BY <1>2 DEF Enqueue
  <2> QED
    BY <2>2, <2>3, AddEntry
<1>3. CASE heap' \subseteq heap
  <2>1. /\ IsFiniteSet(heap')
        /\ Cardinality(heap') \in Nat /\ Cardinality(heap) \in Nat
        /\ Cardinality(heap') <= Cardinality(heap)
    BY <1>3, FS_Subset, FS_CardinalityType
  <2> QED
    BY <2>1, QueueAssumption
<1> QED
  BY <1>1, <1>2, <1>3
  DEF Next, Put, AcceptEvicting, StartPolling, GiveUpPolling, Reject, Take,
      PutBack, Complete, WaitTimesOut, Drain, queueVars

(* The heap never outgrows max_size.                                       *)
THEOREM DepthStaysBounded == Spec => []DepthBounded
<1>1. Init => Bounded
  BY FS_EmptySet, QueueAssumption DEF Init, Bounded, DepthBounded, Depth
<1>2. Bounded => DepthBounded
  BY DEF Bounded
<1> QED
  BY <1>1, <1>2, BoundedStep, PTL DEF Spec

---------------------------------------------------------------------------
(* Refinement.                                                             *)

LEMMA WorkIs ==
  ASSUME NEW t \in Task
  PROVE  work[t] = (IF Queued(t) THEN {"held"} ELSE {})
                     \cup (IF t \in taken THEN {"claimed"} ELSE {})
                     \cup (IF outcome[t] # "none" THEN {"settled"} ELSE {})
  BY DEF work, Places

(* Where a task is, in terms of the ledger.                                *)
LEMMA Located ==
  ASSUME IInv, NEW t \in Task
  PROVE  /\ Queued(t) => work[t] = {"held"}
         /\ t \in taken => work[t] = {"claimed"}
         /\ ~Queued(t) /\ t \notin taken =>
              work[t] = IF outcome[t] # "none" THEN {"settled"} ELSE {}
<1>1. /\ Queued(t) => t \notin taken /\ outcome[t] = "none"
      /\ t \in taken => outcome[t] = "none"
  BY DEF IInv, Placed
<1> QED
  BY <1>1, WorkIs

(* The ledger moves a set of tasks when exactly their places change.       *)
LEMMA Moves ==
  ASSUME NEW S, NEW place,
         \A u \in Task : work'[u] = IF u \in S THEN {place} ELSE work[u]
  PROVE  work' = Ledger!Move(S, place)
<1>1. work' = [u \in Task |-> work'[u]]
  BY DEF work
<1> QED
  BY <1>1 DEF Ledger!Move

LEMMA LedgerStep == IInv /\ IInv' /\ [Next]_queueVars => [Ledger!Next]_work
<1> SUFFICES ASSUME IInv, IInv', [Next]_queueVars PROVE [Ledger!Next]_work
  OBVIOUS
<1>t. TypeOK /\ OneEntry
  BY DEF IInv
<1>w. \A u \in Task :
        work'[u] = (IF Queued(u)' THEN {"held"} ELSE {})
                     \cup (IF u \in taken' THEN {"claimed"} ELSE {})
                     \cup (IF outcome'[u] # "none" THEN {"settled"} ELSE {})
  BY DEF work, Places
<1>d. work' = [u \in Task |-> work'[u]] /\ work = [u \in Task |-> work[u]]
  BY DEF work
<1>1. ASSUME NEW t \in Task, NEW gone \in SUBSET Task,
             \A u \in gone : Queued(u),
             ~Queued(t) /\ t \notin taken /\ outcome[t] = "none",
             Queued(t)' /\ t \notin taken' /\ outcome'[t] = "none",
             \A u \in Task \ {t} :
               /\ Queued(u)' <=> Queued(u) /\ u \notin gone
               /\ u \in gone => outcome'[u] # "none"
               /\ u \notin gone => outcome'[u] = outcome[u],
             taken' = taken
      PROVE  Ledger!Next
  <2>1. gone \in SUBSET Ledger!Held
    BY <1>1, Located DEF Ledger!Held
  <2>2. work[t] = {} /\ work'[t] = {"held"}
    BY <1>1, <1>w, Located
  <2>3. ASSUME NEW u \in Task \ {t}
        PROVE  work'[u] = IF u \in gone THEN {"settled"} ELSE work[u]
    <3>1. CASE u \in gone
      <4>1. ~Queued(u)' /\ u \notin taken' /\ outcome'[u] # "none"
        BY <1>1, <2>3, <3>1 DEF IInv, Placed
      <4> QED
        BY <1>w, <3>1, <4>1
    <3>2. CASE u \notin gone
      <4>1. (Queued(u)' <=> Queued(u)) /\ outcome'[u] = outcome[u]
        BY <1>1, <2>3, <3>2
      <4> QED
        BY <1>1, <1>w, <3>2, <4>1, WorkIs
    <3> QED
      BY <3>1, <3>2
  <2>4. work' = [Ledger!Move(gone, "settled") EXCEPT ![t] = {"held"}]
    BY <1>d, <2>2, <2>3 DEF Ledger!Move
  <2> QED
    BY <2>1, <2>2, <2>4 DEF Ledger!Next, Ledger!Admit
<1>2. ASSUME NEW t \in Task, Accept(t) PROVE Ledger!Next
  <2>1. Remaining(t) \in SUBSET heap /\ Enqueue(t, Remaining(t))
    BY <1>2 DEF Accept, Remaining
  <2>2. ASSUME NEW u PROVE Queued(u)' <=> u = t \/ (Queued(u) /\ u \notin Dropped(t))
    <3>1. Queued(u)' <=> u = t \/ \E f \in Remaining(t) : f.task = u
      BY <2>1, <1>t, QueuedAfter
    <3> QED
      BY <3>1 DEF Queued, Remaining
  <2>3. t \notin Dropped(t) /\ ~Queued(t) /\ t \notin taken /\ outcome[t] = "none"
    BY <1>2 DEF Accept, IInv, Placed, Dropped
  <2>4. Dropped(t) \in SUBSET Task /\ \A u \in Dropped(t) : Queued(u)
    BY QueueAssumption DEF Dropped
  <2>5. \A u \in Task : outcome'[u] = IF u \in Dropped(t) THEN "cancelled" ELSE outcome[u]
    BY <1>2, MarkKeeps DEF Accept
  <2>6. taken' = taken
    BY <1>2 DEF Accept
  <2> QED
    BY <1>1, <2>2, <2>3, <2>4, <2>5, <2>6
<1>3. ASSUME NEW t \in Task, AcceptEvicting(t) PROVE Ledger!Next
  <2>1. PICK e \in heap : /\ Enqueue(t, heap \ {e})
                          /\ outcome' = Mark({e.task}, "evicted")
    BY <1>3 DEF AcceptEvicting
  <2>2. ASSUME NEW u PROVE Queued(u)' <=> u = t \/ (Queued(u) /\ u \notin {e.task})
    <3>1. Queued(u)' <=> u = t \/ \E f \in heap \ {e} : f.task = u
      BY <2>1, <1>t, QueuedAfter
    <3> QED
      BY <3>1, <1>t DEF Queued, OneEntry
  <2>3. ~Queued(t) /\ t \notin taken /\ outcome[t] = "none"
    BY <1>3 DEF AcceptEvicting, IInv, Placed
  <2>4. {e.task} \in SUBSET Task /\ (\A u \in {e.task} : Queued(u)) /\ e.task # t
    BY <1>t, <2>3 DEF TypeOK, Entry, Queued
  <2>5. \A u \in Task : outcome'[u] = IF u \in {e.task} THEN "evicted" ELSE outcome[u]
    BY <2>1, MarkKeeps
  <2>6. taken' = taken
    BY <1>3 DEF AcceptEvicting
  <2> QED
    BY <1>1, <2>2, <2>3, <2>4, <2>5, <2>6
<1>4. ASSUME NEW t \in Task, Take(t) PROVE Ledger!Next
  <2>1. PICK e \in heap : e.task = t /\ heap' = heap \ {e}
    BY <1>4 DEF Take, Best
  <2>2. \A u \in Task : Queued(u)' <=> Queued(u) /\ u # t
    BY <1>t, <2>1 DEF Queued, OneEntry
  <2>3. Queued(t) /\ taken' = taken \cup {t} /\ outcome' = outcome
    BY <1>4, <2>1 DEF Take, Queued
  <2>4. work[t] = {"held"}
    BY <2>3, Located
  <2>5. ASSUME NEW u \in Task
        PROVE  work'[u] = IF u \in {t} THEN {"claimed"} ELSE work[u]
    <3>1. CASE u = t
      BY <1>w, <2>2, <2>3, <3>1 DEF IInv, Placed
    <3>2. CASE u # t
      BY <1>w, <2>2, <2>3, <3>2, WorkIs
    <3> QED
      BY <3>1, <3>2
  <2>6. work' = Ledger!Move({t}, "claimed")
    BY <2>5, Moves
  <2> QED
    BY <2>4, <2>6 DEF Ledger!Next, Ledger!Claim
<1>5. ASSUME NEW t \in Task, NEW ok \in BOOLEAN, Complete(t, ok) PROVE Ledger!Next
  <2>1. t \in taken /\ taken' = taken \ {t} /\ heap' = heap
    BY <1>5 DEF Complete
  <2>2. \A u \in Task : outcome'[u] = IF u = t THEN (IF ok THEN "handled" ELSE "raised")
                                      ELSE outcome[u]
    BY <1>5, <1>t DEF Complete, TypeOK
  <2>3. work[t] = {"claimed"}
    BY <2>1, Located
  <2>4. ~Queued(t)
    BY <2>1 DEF IInv, Placed
  <2>5. ASSUME NEW u \in Task
        PROVE  work'[u] = IF u \in {t} THEN {"settled"} ELSE work[u]
    <3>1. Queued(u)' <=> Queued(u)
      BY <2>1 DEF Queued
    <3>2. CASE u = t
      BY <1>w, <2>1, <2>2, <2>4, <3>1, <3>2
    <3>3. CASE u # t
      BY <1>w, <2>1, <2>2, <3>1, <3>3, WorkIs
    <3> QED
      BY <3>2, <3>3
  <2>6. work' = Ledger!Move({t}, "settled")
    BY <2>5, Moves
  <2> QED
    BY <2>3, <2>6 DEF Ledger!Next, Ledger!Finish
<1>6. CASE Drain
  <2> DEFINE gone == {u \in Task : Queued(u)}
  <2>1. gone \in SUBSET Ledger!Held
    BY Located DEF Ledger!Held
  <2>2. ASSUME NEW u \in Task
        PROVE  work'[u] = IF u \in gone THEN {"settled"} ELSE work[u]
    <3>1. ~Queued(u)' /\ taken' = taken
      BY <1>6 DEF Drain, Queued
    <3>2. outcome'[u] = IF u \in gone THEN "drained" ELSE outcome[u]
      BY <1>6, MarkKeeps DEF Drain
    <3>3. CASE u \in gone
      BY <1>w, <3>1, <3>2, <3>3 DEF IInv, Placed
    <3>4. CASE u \notin gone
      BY <1>w, <3>1, <3>2, <3>4, WorkIs
    <3> QED
      BY <3>3, <3>4
  <2>3. work' = Ledger!Move(gone, "settled")
    BY <2>2, Moves
  <2> QED
    BY <2>1, <2>3 DEF Ledger!Next, Ledger!Discard
<1>7. ASSUME \A u \in Task : Queued(u)' <=> Queued(u), taken' = taken, outcome' = outcome
      PROVE  UNCHANGED work
  BY <1>7, <1>d, <1>w, WorkIs
<1>8. ASSUME NEW t \in Task, PutBack(t) PROVE UNCHANGED work
  <2>1. PICK e \in heap : e.task = t /\ Enqueue(t, heap \ {e})
    BY <1>8 DEF PutBack, Best
  <2>2. ASSUME NEW u PROVE Queued(u)' <=> Queued(u)
    <3>1. Queued(u)' <=> u = t \/ \E f \in heap \ {e} : f.task = u
      BY <2>1, <1>t, QueuedAfter
    <3> QED
      BY <2>1, <3>1 DEF Queued
  <2> QED
    BY <1>7, <1>8, <2>2 DEF PutBack
<1>9. ASSUME UNCHANGED <<heap, taken, outcome>> PROVE UNCHANGED work
  BY <1>7, <1>9 DEF Queued
<1> QED
  BY <1>2, <1>3, <1>4, <1>5, <1>6, <1>8, <1>9
  DEF Next, Put, StartPolling, GiveUpPolling, Reject, WaitTimesOut, queueVars

(* The queue implements the ledger: no interleaving of puts, polls,        *)
(* evictions, takes, put-backs, cancellations and drains hands a task out  *)
(* twice, loses it, or works on it after it is over.                       *)
THEOREM ImplementsLedger == Spec => LedgerSpec
<1>1. Init => Ledger!Init
  BY DEF Init, Ledger!Init, work, Queued, Places
<1> QED
  BY <1>1, Invariance, LedgerStep, PTL DEF Spec, LedgerSpec, Ledger!Spec
=============================================================================
