------------------------- MODULE AccountPipeline_proofs -------------------------
(***************************************************************************)
(* For every set of requests, number of attempts, queue size, number of    *)
(* processor loops and of stops: the safety properties of AccountPipeline. *)
(***************************************************************************)
EXTENDS AccountPipeline, FiniteSetTheorems, SequenceTheorems, WellFoundedInduction, TLAPS

(* The types, but for that of the gate, which Gate gives.                 *)
Types ==
  /\ Q!TypeOK
  /\ tracked \in Processor \cup {None} /\ active \in BOOLEAN /\ stopping \in Processor \cup {None}
  /\ stops \in 0 .. MaxStops /\ serviced \in 0 .. 1
  /\ stage \in [Consumer -> Stage] /\ hand \in [Consumer -> Attempt \cup {None}]
  /\ sleeping \subseteq Attempt /\ file \subseteq Job
  /\ sent \in [Job -> Nat] /\ unheard \in [Job -> Nat] /\ failures \subseteq Attempt

Unput(a) == caller[a] \in {"new", "polling"}
OneEntry == \A e, f \in heap : e.task = f.task => e = f

(* A task is in one place: with its caller, queued, in one consumer's      *)
(* hands, or asleep; and what sleeps has a next attempt.                   *)
Placed ==
  /\ OneEntry
  /\ \A a \in Attempt :
       /\ Unput(a) => ~Q!Queued(a) /\ ~InHand(a) /\ a \notin sleeping
       /\ Q!Queued(a) => ~InHand(a) /\ a \notin sleeping
       /\ InHand(a) => a \notin sleeping
       /\ a \in sleeping => a[2] < MaxAttempts
  /\ \A c, d \in Consumer : hand[c] # None /\ hand[c] = hand[d] => c = d

(* A consumer has a task while it handles one; the task of one that        *)
(* publishes a failure is complete.                                        *)
Handling == {"gate", "finish", "retry"}
Hands ==
  \A c \in Consumer : /\ hand[c] # None <=> stage[c] \in Handling
                      /\ stage[c] = "retry" => hand[c] \notin taken

(* A request that was not routed yet has left no trace.                    *)
Untouched ==
  \A j \in Job : caller[<<j, 0>>] = "new" =>
    sent[j] = 0 /\ \A n \in 0 .. MaxAttempts : ~Live(<<j, n>>)

(* One copy of a message at most was heard of; and while an attempt of its *)
(* request is under way, none was but by the attempt that has just sent.   *)
Finishing(a) == \E c \in Consumer : hand[c] = a /\ stage[c] = "finish"
HeardOnce ==
  \A j \in Job :
    /\ sent[j] <= 1 + unheard[j]
    /\ \A n \in 0 .. MaxAttempts :
         Live(<<j, n>>) /\ ~Finishing(<<j, n>>) => sent[j] <= unheard[j]

(* A handler that returned for an operator's request has sent it.          *)
HasSent(a) == a[1] \in Operator => sent[a[1]] >= 1
FinishedHasSent == \A a \in Attempt : Finishing(a) => HasSent(a)

(* A stop that is under way may still cost a task, and may leave a loop    *)
(* behind when it forgets the one that was started meanwhile.              *)
MayLose == IF stopping # None /\ stage[stopping] \in Handling THEN 1 ELSE 0
LostFew == IsFiniteSet(Lost) /\ Cardinality(Lost) + MayLose <= stops

MayForget == IF stopping # None THEN 1 ELSE 0
Stray == Looping \ {tracked}
StrayFew == IsFiniteSet(Stray) /\ Cardinality(Stray) + MayForget <= stops

Jobs == Untouched /\ OneLiveAttempt /\ HeardOnce /\ FinishedHasSent /\ AnsweredMeansSent
IInv == Types /\ Placed /\ Hands /\ Jobs /\ LostFew /\ StrayFew

---------------------------------------------------------------------------
(* Attempts, and the constants of the queue.                               *)

LEMMA AttemptIs ==
  /\ \A j \in Job : \A n \in 0 .. MaxAttempts :
       <<j, n>> \in Attempt /\ <<j, n>>[1] = j /\ <<j, n>>[2] = n
  /\ \A a \in Attempt : a[1] \in Job /\ a[2] \in 0 .. MaxAttempts /\ a = <<a[1], a[2]>>
  /\ None \notin Attempt /\ Cycle \notin Processor /\ None \notin Processor /\ MaxAttempts \in Nat
  BY PipelineAssumption DEF Attempt, Cycle

LEMMA FirstIs == \A j \in Job : <<j, 0>> \in Attempt
  BY AttemptIs

(* The queue's own assumptions hold of what the pipeline puts on it.       *)
LEMMA QueueAssumptionHolds ==
  /\ QueueSize \in Nat \ {0} /\ AttemptPriority \in [Attempt -> Q!RETRY .. Q!LOW]
  /\ Operator \X (0 .. MaxAttempts) \subseteq Attempt
  /\ Operator \X {0} \subseteq Operator \X (0 .. MaxAttempts)
  /\ \A a \in Attempt : AttemptPriority[a] <= Q!HIGH
  BY AttemptIs, PipelineAssumption DEF AttemptPriority, Q!RETRY, Q!HIGH, Q!LOW, Operator, Attempt

LEMMA Initially == Init => IInv
<1> SUFFICES ASSUME Init PROVE IInv
  OBVIOUS
<1> USE AttemptIs, PipelineAssumption DEF Init, Q!Init
<1>1. Types
  BY DEF Types, Q!TypeOK, Q!Policies, Q!CallerState, Q!Outcome, Stage
<1>2. ~\E a \in Attempt : Q!Queued(a) \/ InHand(a) \/ a \in sleeping \/ caller[a] = "polling"
  BY DEF Q!Queued, InHand
<1>3. Placed
  BY <1>2 DEF Placed, OneEntry
<1>4. Hands
  BY DEF Hands, Handling
<1>5. Jobs
  BY <1>2 DEF Jobs, Untouched, OneLiveAttempt, Live, HeardOnce, FinishedHasSent, Finishing, AnsweredMeansSent,
    Operator, InHand
<1>6. Lost = {} /\ Stray = {}
  BY DEF Lost, Stray, Looping, Consumer
<1>7. LostFew /\ StrayFew
  BY <1>6, FS_EmptySet DEF LostFew, StrayFew, MayLose, MayForget
<1> QED
  BY <1>1, <1>3, <1>4, <1>5, <1>7 DEF IInv

---------------------------------------------------------------------------
(* What the queue's steps do to the attempts: a caller that leaves "new"   *)
(* and "polling" never comes back to them, the heap gains what is put, and *)
(* only a completed task or a cancelled auto-reply answers a waiter.       *)

KeepsCallers(S) == \A b \in Attempt \ S : Unput(b)' => caller'[b] = caller[b]
Answers(S) == \A j \in Operator : caller'[<<j, 0>>] = "answered" => caller[<<j, 0>>] = "answered" \/ <<j, 0>> \in S

LEMMA SettleIs ==
  ASSUME NEW S, NEW how, NEW b \in Attempt
  PROVE  /\ Q!Settle(S, how)[b] = caller[b] \/ Q!Settle(S, how)[b] = how
         /\ b \notin S => Q!Settle(S, how)[b] = caller[b]
  BY DEF Q!Settle

LEMMA SettleType ==
  ASSUME Q!TypeOK, NEW S, NEW how \in Q!CallerState
  PROVE  Q!Settle(S, how) \in [Attempt -> Q!CallerState]
  BY DEF Q!TypeOK, Q!Settle

LEMMA MarkType ==
  ASSUME Q!TypeOK, NEW S, NEW how \in Q!Outcome
  PROVE  Q!Mark(S, how) \in [Attempt -> Q!Outcome]
  BY DEF Q!TypeOK, Q!Mark

LEMMA AfterPutIs ==
  ASSUME NEW a, NEW futures
  PROVE  Q!AfterPut(a, futures) \in {"returned", "waiting", "refused"}
  BY DEF Q!AfterPut

LEMMA DroppedIs ==
  ASSUME NEW a \in Attempt
  PROVE  \A b \in Q!Dropped(a) : b \in Attempt /\ Kind[b[1]] = "auto"
  BY DEF Q!Dropped

LEMMA NewEntryIs ==
  ASSUME Q!TypeOK, NEW a \in Attempt
  PROVE  Q!NewEntry(a) \in Q!Entry /\ Q!NewEntry(a).task = a
  BY QueueAssumptionHolds DEF Q!TypeOK, Q!NewEntry, Q!Entry

(* put: the policy is to delay, so nothing is evicted or rejected.         *)
LEMMA PutIs ==
  ASSUME NEW a \in Attempt, Q!Put(a)
  PROVE  Q!Accept(a) \/ Q!StartPolling(a) \/ Q!GiveUpPolling(a)
  BY DEF Q!Put, Q!AcceptEvicting, Q!Reject

LEMMA PutTypes ==
  ASSUME Q!TypeOK, NEW a \in Attempt, Q!Put(a)
  PROVE  Q!TypeOK'
<1> USE DEF Q!TypeOK
<1>1. Q!Registered(a) \subseteq Operator \X (0 .. MaxAttempts)
  BY DEF Q!Registered
<1>2. CASE Q!Accept(a)
  <2>1. Q!Settle(Q!Dropped(a) \cap pending, "answered") \in [Attempt -> Q!CallerState]
    BY SettleType DEF Q!CallerState
  <2>2. caller' \in [Attempt -> Q!CallerState]
    BY <1>2, <2>1, AfterPutIs DEF Q!Accept, Q!CallerState
  <2>3. outcome' \in [Attempt -> Q!Outcome]
    BY <1>2, MarkType DEF Q!Accept, Q!Outcome
  <2>4. heap' \subseteq Q!Entry /\ sequence' \in Nat
    BY <1>2, NewEntryIs DEF Q!Accept, Q!Enqueue, Q!Remaining
  <2> QED
    BY <1>1, <1>2, <2>2, <2>3, <2>4 DEF Q!Accept
<1>3. CASE Q!StartPolling(a)
  BY <1>1, <1>3 DEF Q!StartPolling, Q!CallerState
<1>4. CASE Q!GiveUpPolling(a)
  BY <1>4 DEF Q!GiveUpPolling, Q!CallerState
<1> QED
  BY <1>2, <1>3, <1>4, PutIs

LEMMA PutEffect ==
  ASSUME Q!TypeOK, NEW a \in Attempt, Q!Put(a)
  PROVE  /\ Unput(a) /\ caller'[a] # "new" /\ taken' = taken
         /\ heap' \subseteq heap \/ (caller'[a] # "polling" /\ heap' \subseteq heap \cup {Q!NewEntry(a)})
         /\ KeepsCallers({a}) /\ Answers({})
<1> USE DEF Q!TypeOK, Unput, KeepsCallers, Answers
<1>1. CASE Q!Accept(a)
  <2> DEFINE settled == Q!Settle(Q!Dropped(a) \cap pending, "answered")
  <2>1. settled \in [Attempt -> Q!CallerState]
    BY SettleType DEF Q!CallerState
  <2>2. caller' = [settled EXCEPT ![a] = Q!AfterPut(a, pending')]
    BY <1>1 DEF Q!Accept
  <2>3. \A b \in Attempt : settled[b] \in {"new", "polling"} => settled[b] = caller[b]
    BY SettleIs
  <2>4. \A j \in Operator : <<j, 0>> \in Attempt /\ <<j, 0>> \notin Q!Dropped(a)
    BY FirstIs, DroppedIs DEF Operator
  <2>5. \A j \in Operator : settled[<<j, 0>>] = caller[<<j, 0>>]
    <3> DEFINE D == Q!Dropped(a) \cap pending
    <3>1. \A b \in Attempt : b \notin D => settled[b] = caller[b]
      BY SettleIs
    <3> HIDE DEF settled
    <3> QED
      BY <2>4, <3>1
  <2> HIDE DEF settled
  <2>6. caller'[a] \in {"returned", "waiting", "refused"} /\ \A b \in Attempt \ {a} : caller'[b] = settled[b]
    BY <2>1, <2>2, AfterPutIs
  <2>7. KeepsCallers({a}) /\ Answers({})
    BY <2>3, <2>4, <2>5, <2>6
  <2>8. Unput(a) /\ taken' = taken /\ heap' = Q!Remaining(a) \cup {Q!NewEntry(a)}
    BY <1>1 DEF Q!Accept, Q!Enqueue
  <2>9. heap' \subseteq heap \cup {Q!NewEntry(a)}
    BY <2>8 DEF Q!Remaining
  <2> QED
    BY <2>6, <2>7, <2>8, <2>9
<1>2. CASE Q!StartPolling(a)
  BY <1>2, FirstIs DEF Q!StartPolling, Operator
<1>3. CASE Q!GiveUpPolling(a)
  BY <1>3, FirstIs DEF Q!GiveUpPolling, Operator
<1> QED
  BY <1>1, <1>2, <1>3, PutIs

LEMMA PutPlaces ==
  ASSUME Q!TypeOK, NEW a \in Attempt, Q!Put(a), OneEntry, ~Q!Queued(a)
  PROVE  /\ OneEntry'
         /\ \A b \in Attempt \ {a} : Q!Queued(b)' => Q!Queued(b)
         /\ Q!Queued(a)' => ~Unput(a)'
<1>1. CASE heap' \subseteq heap
  BY <1>1 DEF OneEntry, Q!Queued
<1>2. CASE caller'[a] # "polling" /\ heap' \subseteq heap \cup {Q!NewEntry(a)}
  <2>1. Q!NewEntry(a).task = a /\ \A e \in heap : e.task # a
    BY NewEntryIs DEF Q!Queued
  <2>2. OneEntry'
    BY <1>2, <2>1 DEF OneEntry
  <2>3. \A b \in Attempt \ {a} : Q!Queued(b)' => Q!Queued(b)
    BY <1>2, <2>1 DEF Q!Queued
  <2> QED
    BY <1>2, <2>2, <2>3, PutEffect DEF Unput
<1> QED
  BY <1>1, <1>2, PutEffect

(* The others: a consumer takes or completes a task, a waiter gives up, a  *)
(* logout drains the queue.                                                *)
LEMMA TakeEffect ==
  ASSUME Q!TypeOK, NEW a \in Attempt, Q!Take(a), OneEntry
  PROVE  /\ Q!TypeOK' /\ OneEntry' /\ heap' \subseteq heap
         /\ Q!Queued(a) /\ ~Q!Queued(a)' /\ taken' = taken \cup {a} /\ caller' = caller
<1>1. PICK e \in heap : e.task = a /\ heap' = heap \ {e}
  BY DEF Q!Take
<1> QED
  BY <1>1 DEF Q!TypeOK, Q!Take, OneEntry, Q!Queued

LEMMA CompleteEffect ==
  ASSUME Q!TypeOK, NEW a \in Attempt, NEW ok \in BOOLEAN, Q!Complete(a, ok)
  PROVE  /\ Q!TypeOK' /\ heap' = heap /\ taken' = taken \ {a}
         /\ KeepsCallers({}) /\ Answers(IF ok THEN {a} ELSE {})
<1> DEFINE how == IF ok THEN "answered" ELSE "failed"
<1>1. caller' = Q!Settle({a} \cap pending, how)
  BY DEF Q!Complete, Q!Resolve
<1>2. Q!TypeOK'
  BY <1>1, SettleType DEF Q!TypeOK, Q!Complete, Q!CallerState, Q!Outcome
<1>3. KeepsCallers({})
  BY <1>1, SettleIs DEF KeepsCallers, Unput
<1>4. Answers(IF ok THEN {a} ELSE {})
  BY <1>1, SettleIs, FirstIs DEF Answers, Operator
<1> QED
  BY <1>2, <1>3, <1>4 DEF Q!Complete

LEMMA LeaveEffect ==
  ASSUME Q!TypeOK, Q!Drain \/ \E a \in Attempt : Q!WaitTimesOut(a)
  PROVE  /\ Q!TypeOK' /\ heap' \subseteq heap /\ taken' = taken
         /\ KeepsCallers({}) /\ Answers({})
<1>1. CASE Q!Drain
  <2>1. caller' = Q!Settle(pending, "cancelled")
    BY <1>1 DEF Q!Drain
  <2>2. Q!TypeOK'
    BY <1>1, <2>1, SettleType, MarkType DEF Q!TypeOK, Q!Drain, Q!CallerState, Q!Outcome
  <2>3. KeepsCallers({}) /\ Answers({})
    BY <2>1, SettleIs, FirstIs DEF KeepsCallers, Unput, Answers, Operator
  <2> QED
    BY <1>1, <2>2, <2>3 DEF Q!Drain
<1>2. ASSUME NEW a \in Attempt, Q!WaitTimesOut(a)
      PROVE  /\ Q!TypeOK' /\ heap' \subseteq heap /\ taken' = taken
             /\ KeepsCallers({}) /\ Answers({})
  BY <1>2, FirstIs DEF Q!TypeOK, Q!WaitTimesOut, KeepsCallers, Unput, Answers, Operator, Q!CallerState
<1> QED
  BY <1>1, <1>2

---------------------------------------------------------------------------
(* What a step may do to the places of the attempts, and that it keeps     *)
(* each attempt in one place.                                              *)

LEMMA HandIs ==
  ASSUME Types, Hands, NEW c \in Consumer, stage[c] \in Handling
  PROVE  hand[c] \in Attempt /\ InHand(hand[c]) /\ Live(hand[c])
  BY DEF Types, Hands, InHand, Live

(* Nothing enters the heap or a hand; what goes to sleep left a hand.      *)
Retired(S) ==
  /\ heap' \subseteq heap /\ KeepsCallers({})
  /\ \A c \in Consumer : hand'[c] = hand[c] \/ hand'[c] = None
  /\ sleeping' \subseteq sleeping \cup S
  /\ \A a \in S : a \in Attempt /\ InHand(a) /\ ~InHand(a)' /\ a[2] < MaxAttempts

LEMMA RetiredPlaced ==
  ASSUME Types, Placed, NEW S, Retired(S)
  PROVE  Placed'
<1>1. OneEntry'
  BY DEF Placed, OneEntry, Retired
<1>2. \A c, d \in Consumer : hand'[c] # None /\ hand'[c] = hand'[d] => c = d
  BY DEF Placed, Retired
<1>3. ASSUME NEW a \in Attempt
      PROVE  /\ Unput(a)' => Unput(a)
             /\ Q!Queued(a)' => Q!Queued(a)
             /\ InHand(a)' => InHand(a)
  BY <1>3, AttemptIs DEF Retired, KeepsCallers, Unput, Q!Queued, InHand
<1>4. ASSUME NEW a \in Attempt
      PROVE  /\ Unput(a)' => ~Q!Queued(a)' /\ ~InHand(a)' /\ a \notin sleeping'
             /\ Q!Queued(a)' => ~InHand(a)' /\ a \notin sleeping'
             /\ InHand(a)' => a \notin sleeping'
             /\ a \in sleeping' => a[2] < MaxAttempts
  <2>1. a \in sleeping' => a \in sleeping \/ (InHand(a) /\ ~InHand(a)' /\ a[2] < MaxAttempts)
    BY DEF Retired
  <2> QED
    BY <1>3, <2>1 DEF Placed
<1> QED
  BY <1>1, <1>2, <1>4 DEF Placed

LEMMA RetiredLive ==
  ASSUME Types, NEW S, Retired(S), NEW a \in Attempt, Live(a)'
  PROVE  Live(a)
<1>1. caller'[a] = "polling" => caller[a] = "polling"
  BY DEF Retired, KeepsCallers, Unput
<1>2. Q!Queued(a)' => Q!Queued(a)
  BY DEF Retired, Q!Queued
<1>3. InHand(a)' => InHand(a)
  BY AttemptIs DEF Retired, InHand
<1>4. a \in sleeping' => a \in sleeping \/ InHand(a)
  BY DEF Retired
<1> QED
  BY <1>1, <1>2, <1>3, <1>4 DEF Live

(* A put: the attempt comes from its caller.                               *)
LEMMA PutPlaced ==
  ASSUME Types, Placed, NEW a \in Attempt, Q!Put(a), hand' = hand, sleeping' \subseteq sleeping
  PROVE  Placed'
<1>1. Q!TypeOK /\ Unput(a) /\ ~Q!Queued(a) /\ ~InHand(a) /\ a \notin sleeping
  BY PutEffect DEF Types, Placed
<1>2. /\ OneEntry'
      /\ \A b \in Attempt \ {a} : Q!Queued(b)' => Q!Queued(b)
      /\ Q!Queued(a)' => ~Unput(a)'
  BY <1>1, PutPlaces DEF Placed
<1>3. \A b \in Attempt \ {a} : Unput(b)' => Unput(b)
  BY <1>1, PutEffect DEF KeepsCallers, Unput
<1>4. \A b \in Attempt : InHand(b)' <=> InHand(b)
  BY DEF InHand
<1>5. ASSUME NEW b \in Attempt
      PROVE  /\ Unput(b)' => ~Q!Queued(b)' /\ ~InHand(b)' /\ b \notin sleeping'
             /\ Q!Queued(b)' => ~InHand(b)' /\ b \notin sleeping'
             /\ InHand(b)' => b \notin sleeping'
             /\ b \in sleeping' => b[2] < MaxAttempts
  <2>1. CASE b = a
    BY <1>1, <1>2, <1>4, <2>1
  <2>2. CASE b # a
    BY <1>2, <1>3, <1>4, <2>2 DEF Placed
  <2> QED
    BY <2>1, <2>2
<1>6. \A c, d \in Consumer : hand'[c] # None /\ hand'[c] = hand'[d] => c = d
  BY DEF Placed
<1> QED
  BY <1>2, <1>5, <1>6 DEF Placed

LEMMA PutLive ==
  ASSUME Types, Placed, NEW a \in Attempt, Q!Put(a), hand' = hand, sleeping' \subseteq sleeping,
         NEW b \in Attempt, b # a, Live(b)'
  PROVE  Live(b)
<1>1. Q!TypeOK /\ ~Q!Queued(a) /\ OneEntry
  BY PutEffect DEF Types, Placed
<1>2. caller'[b] = "polling" => caller[b] = "polling"
  BY <1>1, PutEffect DEF KeepsCallers, Unput
<1>3. Q!Queued(b)' => Q!Queued(b)
  BY <1>1, PutPlaces
<1>4. InHand(b)' => InHand(b)
  BY DEF InHand
<1> QED
  BY <1>2, <1>3, <1>4 DEF Live

---------------------------------------------------------------------------
(* What keeps the invariant of the requests: a step that brings nothing to *)
(* life and sends nothing; one that sends; one that starts an attempt.     *)

StaysRouted == \A j \in Job : caller'[<<j, 0>>] = "new" => caller[<<j, 0>>] = "new"

LEMMA CallersRouted ==
  ASSUME KeepsCallers({})
  PROVE  StaysRouted
  BY FirstIs DEF KeepsCallers, Unput, StaysRouted

LEMMA JobsCalm ==
  ASSUME Types, Jobs, StaysRouted, NEW S, Answers(S),
         UNCHANGED <<sent, unheard>>,
         \A a \in Attempt : Live(a)' => Live(a),
         \A a \in Attempt : Finishing(a) /\ Live(a)' => Finishing(a)',
         \A a \in Attempt : Finishing(a)' => Finishing(a) \/ HasSent(a),
         \A a \in S : a \in Attempt /\ HasSent(a)
  PROVE  Jobs'
<1> USE AttemptIs DEF Jobs
<1>1. Untouched'
  BY DEF Untouched, StaysRouted
<1>2. OneLiveAttempt'
  BY DEF OneLiveAttempt
<1>3. HeardOnce'
  BY DEF HeardOnce
<1>4. FinishedHasSent'
  BY DEF FinishedHasSent, HasSent
<1>5. AnsweredMeansSent'
  <2> SUFFICES ASSUME NEW j \in Operator, caller'[<<j, 0>>] = "answered"
               PROVE  sent[j] >= 1
    BY DEF AnsweredMeansSent
  <2>1. j \in Job
    BY DEF Operator
  <2> QED
    BY <2>1 DEF AnsweredMeansSent, Answers, HasSent
<1> QED
  BY <1>1, <1>2, <1>3, <1>4, <1>5

(* The attempt that sends: of what it adds, one copy may be heard of, by a *)
(* handler that returns.                                                   *)
SendsMore(a, n, m) ==
  /\ sent' = [sent EXCEPT ![a[1]] = @ + n]
  /\ unheard' = [unheard EXCEPT ![a[1]] = @ + m]

LEMMA JobsSend ==
  ASSUME Types, Jobs, StaysRouted, Answers({}), NEW a \in Attempt, Live(a), ~Finishing(a),
         NEW n \in Nat, NEW m \in Nat, n >= 1, SendsMore(a, n, m), n <= m \/ (n <= m + 1 /\ Finishing(a)'),
         \A b \in Attempt : Live(b)' => Live(b),
         \A b \in Attempt \ {a} : Finishing(b)' <=> Finishing(b)
  PROVE  Jobs'
<1> DEFINE i == a[1]
<1> USE AttemptIs DEF Jobs
<1>1. /\ i \in Job /\ sent[i] \in Nat /\ sent'[i] = sent[i] + n /\ unheard[i] \in Nat /\ unheard'[i] = unheard[i] + m
      /\ \A j \in Job \ {i} : sent'[j] = sent[j] /\ unheard'[j] = unheard[j]
  BY DEF Types, SendsMore
<1>2. \A k \in 0 .. MaxAttempts : Live(<<i, k>>) => <<i, k>> = a
  BY DEF OneLiveAttempt
<1>3. \A j \in Job : \A k \in 0 .. MaxAttempts : j # i => <<j, k>> # a
  BY AttemptIs
<1>4. Untouched'
  <2>1. caller'[<<i, 0>>] # "new"
    BY <1>1 DEF Untouched, StaysRouted
  <2> QED
    BY <1>1, <2>1 DEF Untouched, StaysRouted
<1>5. OneLiveAttempt'
  BY DEF OneLiveAttempt
<1>6. HeardOnce'
  <2> SUFFICES ASSUME NEW j \in Job
               PROVE  /\ sent'[j] <= 1 + unheard'[j]
                      /\ \A k \in 0 .. MaxAttempts :
                           Live(<<j, k>>)' /\ ~Finishing(<<j, k>>)' => sent'[j] <= unheard'[j]
    BY DEF HeardOnce
  <2>1. CASE j # i
    BY <1>1, <1>3, <2>1 DEF HeardOnce
  <2>2. CASE j = i
    <3>1. sent[i] <= unheard[i]
      BY <1>1 DEF HeardOnce
    <3>2. sent'[i] <= unheard'[i] \/ (sent'[i] <= 1 + unheard'[i] /\ Finishing(a)')
      <4>1. CASE n <= m
        BY <1>1, <3>1, <4>1
      <4>2. CASE n <= m + 1 /\ Finishing(a)'
        <5>1. sent'[i] <= 1 + unheard'[i]
          BY <1>1, <3>1, <4>2
        <5> QED
          BY <4>2, <5>1
      <4> QED
        BY <4>1, <4>2
    <3>3. sent'[i] <= 1 + unheard'[i]
      BY <1>1, <3>2
    <3> QED
      BY <1>2, <2>2, <3>2, <3>3
  <2> QED
    BY <2>1, <2>2
<1>7. \A j \in Job : sent'[j] >= 1 \/ sent'[j] = sent[j]
  BY <1>1
<1>8. FinishedHasSent'
  <2> SUFFICES ASSUME NEW b \in Attempt, Finishing(b)', b[1] \in Operator PROVE sent'[b[1]] >= 1
    BY DEF FinishedHasSent, HasSent
  <2>1. CASE b = a
    BY <1>1, <2>1
  <2>2. CASE b # a
    BY <1>1, <1>7, <2>2 DEF FinishedHasSent, HasSent
  <2> QED
    BY <2>1, <2>2
<1>9. AnsweredMeansSent'
  BY <1>7 DEF AnsweredMeansSent, Answers, Operator
<1> QED
  BY <1>4, <1>5, <1>6, <1>8, <1>9

LEMMA JobsStart ==
  ASSUME Types, Jobs, StaysRouted, Answers({}), NEW a \in Attempt,
         UNCHANGED <<sent, unheard>>, caller'[<<a[1], 0>>] # "new",
         sent[a[1]] <= unheard[a[1]],
         \A b \in Attempt \ {a} : Live(b)' => Live(b) /\ b[1] # a[1],
         \A b \in Attempt : Finishing(b)' <=> Finishing(b)
  PROVE  Jobs'
<1> USE AttemptIs DEF Jobs
<1>1. \A j \in Job : \A n \in 0 .. MaxAttempts : j # a[1] => <<j, n>> # a
  OBVIOUS
<1>2. \A n \in 0 .. MaxAttempts : Live(<<a[1], n>>)' => <<a[1], n>> = a
  OBVIOUS
<1>3. Untouched'
  BY <1>1 DEF Untouched, StaysRouted
<1>4. OneLiveAttempt'
  BY <1>1, <1>2 DEF OneLiveAttempt
<1>6. HeardOnce'
  BY <1>1, <1>2 DEF HeardOnce
<1>7. FinishedHasSent'
  BY DEF FinishedHasSent, HasSent
<1>8. AnsweredMeansSent'
  BY DEF AnsweredMeansSent, Answers
<1> QED
  BY <1>3, <1>4, <1>6, <1>7, <1>8

---------------------------------------------------------------------------
(* Counting what is lost and which loops are stray.                        *)

LEMMA OneMore ==
  ASSUME NEW S, NEW T, NEW x, IsFiniteSet(S), T \subseteq S \cup {x}
  PROVE  IsFiniteSet(T) /\ Cardinality(T) <= Cardinality(S) + 1
<1>0. Cardinality(S) \in Nat
  BY FS_CardinalityType
<1>1. IsFiniteSet(S \cup {x}) /\ Cardinality(S \cup {x}) <= Cardinality(S) + 1
  BY <1>0, FS_AddElement
<1>2. IsFiniteSet(T) /\ Cardinality(T) <= Cardinality(S \cup {x})
  BY <1>1, FS_Subset
<1>3. Cardinality(T) \in Nat /\ Cardinality(S) \in Nat /\ Cardinality(S \cup {x}) \in Nat
  BY <1>1, <1>2, FS_CardinalityType
<1> QED
  BY <1>1, <1>2, <1>3

LEMMA Sums ==
  \A l, k, m, n, s, t \in Nat :
    /\ l + m <= s /\ k <= l + 1 /\ n + s + 1 <= m + t => k + n <= t
    /\ l + m <= s /\ k <= l /\ n + s <= m + t => k + n <= t
  OBVIOUS

LEMMA OwesNoMore == \A m, n, s, t \in Nat : n <= m /\ t = s => n + s <= m + t
  OBVIOUS
LEMMA OwesOne == \A m, n, s, t \in Nat : m = 0 /\ n <= 1 /\ t = s + 1 => n + s <= m + t
  OBVIOUS
LEMMA OwesOneLess == \A m, n, s, t \in Nat : n <= m /\ n = 0 /\ m = 1 /\ t = s => n + s + 1 <= m + t
  OBVIOUS

LEMMA LostKept ==
  ASSUME LostFew, Lost' \subseteq Lost, MayLose' + stops <= MayLose + stops', stops \in Nat, stops' \in Nat
  PROVE  LostFew'
<1>1. IsFiniteSet(Lost') /\ Cardinality(Lost') <= Cardinality(Lost)
  BY FS_Subset DEF LostFew
<1>2. Cardinality(Lost) \in Nat /\ Cardinality(Lost') \in Nat /\ MayLose \in Nat /\ MayLose' \in Nat
  BY <1>1, FS_CardinalityType DEF LostFew, MayLose
<1> QED
  BY <1>1, <1>2, Sums DEF LostFew

LEMMA LostGrows ==
  ASSUME LostFew, NEW a, Lost' \subseteq Lost \cup {a}, MayLose' + stops + 1 <= MayLose + stops',
         stops \in Nat, stops' \in Nat
  PROVE  LostFew'
<1>1. IsFiniteSet(Lost') /\ Cardinality(Lost') <= Cardinality(Lost) + 1
  BY OneMore DEF LostFew
<1>2. Cardinality(Lost) \in Nat /\ Cardinality(Lost') \in Nat /\ MayLose \in Nat /\ MayLose' \in Nat
  BY <1>1, FS_CardinalityType DEF LostFew, MayLose
<1> QED
  BY <1>1, <1>2, Sums DEF LostFew

LEMMA StrayKept ==
  ASSUME StrayFew, Stray' \subseteq Stray, MayForget' + stops <= MayForget + stops', stops \in Nat, stops' \in Nat
  PROVE  StrayFew'
<1>1. IsFiniteSet(Stray') /\ Cardinality(Stray') <= Cardinality(Stray)
  BY FS_Subset DEF StrayFew
<1>2. Cardinality(Stray) \in Nat /\ Cardinality(Stray') \in Nat /\ MayForget \in Nat /\ MayForget' \in Nat
  BY <1>1, FS_CardinalityType DEF StrayFew, MayForget
<1> QED
  BY <1>1, <1>2, Sums DEF StrayFew

LEMMA StrayGrows ==
  ASSUME StrayFew, NEW p, Stray' \subseteq Stray \cup {p}, MayForget' + stops + 1 <= MayForget + stops',
         stops \in Nat, stops' \in Nat
  PROVE  StrayFew'
<1>1. IsFiniteSet(Stray') /\ Cardinality(Stray') <= Cardinality(Stray) + 1
  BY OneMore DEF StrayFew
<1>2. Cardinality(Stray) \in Nat /\ Cardinality(Stray') \in Nat /\ MayForget \in Nat /\ MayForget' \in Nat
  BY <1>1, FS_CardinalityType DEF StrayFew, MayForget
<1> QED
  BY <1>1, <1>2, Sums DEF StrayFew

---------------------------------------------------------------------------
(* Steps that leave every hand as it is.                                   *)

StageIdle == \A c \in Consumer : stage[c] \in Handling \/ stage'[c] \in Handling => stage'[c] = stage[c]

LEMMA QuietHands ==
  ASSUME Types, Hands, hand' = hand, StageIdle, taken' = taken
  PROVE  /\ Hands' /\ Lost' = Lost
         /\ \A a \in Attempt : Finishing(a)' <=> Finishing(a)
         /\ stopping' = stopping => MayLose' = MayLose
<1>1. Hands'
  BY DEF Hands, StageIdle, Handling
<1>2. \A a : InHand(a)' <=> InHand(a)
  BY DEF InHand
<1>3. Lost' = Lost
  BY <1>2 DEF Lost
<1>4. \A a \in Attempt : Finishing(a)' <=> Finishing(a)
  BY DEF Finishing, StageIdle, Handling
<1>5. stopping # None => stopping \in Consumer
  BY DEF Types, Consumer
<1>6. stopping' = stopping => MayLose' = MayLose
  BY <1>5 DEF MayLose, StageIdle
<1> QED
  BY <1>1, <1>3, <1>4, <1>6

LEMMA EnsureEffect ==
  ASSUME Types, EnsureProcessor
  PROVE  /\ tracked' \in Processor \cup {None} /\ active' \in BOOLEAN /\ stage' \in [Consumer -> Stage]
         /\ StageIdle /\ Stray' \subseteq Stray
<1>1. CASE LoopAlive
  BY <1>1 DEF EnsureProcessor, Types, StageIdle, Stray, Looping
<1>2. CASE ~LoopAlive
  <2>1. PICK p \in Processor : stage[p] = "off" /\ tracked' = p /\ active' = TRUE
                             /\ stage' = [stage EXCEPT ![p] = "idle"]
    BY <1>2 DEF EnsureProcessor
  <2>2. p \in Consumer
    BY DEF Consumer
  <2>3. stage' \in [Consumer -> Stage]
    BY <2>1 DEF Types, Stage
  <2>4. StageIdle
    BY <2>1, <2>2 DEF Types, StageIdle, Handling
  <2>5. tracked \notin Looping
    BY <1>2, AttemptIs DEF LoopAlive, Looping, Types
  <2>6. Stray' \subseteq Stray
    <3>1. \A q \in Processor \ {p} : stage'[q] = stage[q]
      BY <2>1 DEF Types, Consumer
    <3>2. Stray' \subseteq {q \in Processor \ {p} : stage'[q] # "off"}
      BY <2>1 DEF Stray, Looping
    <3>3. {q \in Processor : stage[q] # "off"} \subseteq Stray
      BY <2>5 DEF Stray, Looping
    <3> QED
      BY <3>1, <3>2, <3>3
  <2> QED
    BY <2>1, <2>3, <2>4, <2>6
<1> QED
  BY <1>1, <1>2

LEMMA CountsKept ==
  ASSUME Types, LostFew, StrayFew, Lost' \subseteq Lost, Stray' \subseteq Stray, MayLose' <= MayLose,
         UNCHANGED <<stopping, stops>>
  PROVE  LostFew' /\ StrayFew'
<1>1. stops \in Nat
  BY PipelineAssumption DEF Types
<1>2. LostFew'
  <2>1. MayLose \in Nat /\ MayLose' \in Nat
    BY DEF MayLose
  <2>2. stops' = stops
    OBVIOUS
  <2>3. MayLose' + stops <= MayLose + stops'
    BY <1>1, <2>1, <2>2, OwesNoMore
  <2>4. stops' \in Nat
    BY <1>1, <2>2
  <2> QED
    BY <1>1, <2>3, <2>4, LostKept
<1>3. MayForget' = MayForget /\ MayForget \in Nat
  BY DEF MayForget
<1>4. StrayFew'
  BY <1>1, <1>3, StrayKept
<1> QED
  BY <1>2, <1>4

(* A request is routed, polls for room, or its retry wakes.                *)
LEMMA RouteKeeps ==
  ASSUME IInv, NEW j \in Job, Route(j)
  PROVE  IInv'
<1> DEFINE a == <<j, 0>>
<1>1. /\ a \in Attempt /\ a[1] = j /\ Q!Put(a) /\ EnsureProcessor /\ file' \subseteq file /\ caller[a] = "new"
      /\ UNCHANGED <<stopping, stops, hand, serviced, gate, sleeping, sent, unheard, failures>>
  BY AttemptIs, FirstIs DEF Route, CallerRemovesUpload
<1>2. Types /\ Placed /\ Hands /\ Jobs /\ LostFew /\ StrayFew /\ Q!TypeOK
  BY DEF IInv, Types
<1> HIDE DEF a
<1>3. /\ caller'[a] # "new" /\ taken' = taken /\ KeepsCallers({a}) /\ Answers({})
  BY <1>1, <1>2, PutEffect
<1>4. Types'
  BY <1>1, <1>2, PutTypes, EnsureEffect DEF Types
<1>5. Placed'
  BY <1>1, <1>2, PutPlaced
<1>6. /\ Hands' /\ Lost' = Lost /\ Stray' \subseteq Stray /\ MayLose' = MayLose
      /\ \A b \in Attempt : Finishing(b)' <=> Finishing(b)
  BY <1>1, <1>2, <1>3, QuietHands, EnsureEffect
<1>7. Jobs'
  <2>1. sent[j] = 0 /\ \A b \in Attempt : b[1] = j => ~Live(b)
    BY <1>1, <1>2, AttemptIs DEF Jobs, Untouched, a
  <2>2. \A b \in Attempt \ {a} : Live(b)' => Live(b) /\ b[1] # a[1]
    BY <1>1, <1>2, <2>1, PutLive
  <2>3. StaysRouted
    BY <1>3, FirstIs DEF StaysRouted, KeepsCallers, Unput
  <2>4. caller'[<<a[1], 0>>] # "new" /\ sent[a[1]] <= unheard[a[1]]
    BY <1>1, <1>2, <1>3, <2>1 DEF a, Types
  <2> QED
    BY <1>1, <1>2, <1>3, <1>6, <2>2, <2>3, <2>4, JobsStart
<1>8. MayLose' <= MayLose
  BY <1>6 DEF MayLose
<1>9. LostFew' /\ StrayFew'
  BY <1>1, <1>2, <1>6, <1>8, CountsKept
<1> QED
  BY <1>4, <1>5, <1>6, <1>7, <1>9 DEF IInv

LEMMA PollKeeps ==
  ASSUME IInv, NEW a \in Attempt, Poll(a)
  PROVE  IInv'
<1>1. /\ Q!Put(a) /\ file' \subseteq file /\ caller[a] = "polling"
      /\ UNCHANGED <<tracked, active, stopping, stops, stage, hand, serviced, gate, sleeping, sent, unheard, failures>>
  BY DEF Poll, CallerRemovesUpload, loopVars, workVars
<1>2. Types /\ Placed /\ Hands /\ Jobs /\ LostFew /\ StrayFew /\ Q!TypeOK
  BY DEF IInv, Types
<1>3. /\ caller'[a] # "new" /\ taken' = taken /\ KeepsCallers({a}) /\ Answers({})
  BY <1>1, <1>2, PutEffect
<1>4. Types'
  BY <1>1, <1>2, PutTypes DEF Types
<1>5. Placed'
  BY <1>1, <1>2, PutPlaced
<1>6. /\ Hands' /\ Lost' = Lost /\ MayLose' = MayLose /\ Stray' = Stray
      /\ \A b \in Attempt : Finishing(b)' <=> Finishing(b)
  BY <1>1, <1>2, <1>3, QuietHands DEF StageIdle, Stray, Looping
<1>7. Jobs'
  <2>1. \A b \in Attempt : Live(b)' => Live(b)
    BY <1>1, <1>2, PutLive DEF Live
  <2>2. StaysRouted
    BY <1>3, FirstIs DEF StaysRouted, KeepsCallers, Unput
  <2> QED
    BY <1>1, <1>2, <1>3, <1>6, <2>1, <2>2, JobsCalm
<1>8. MayLose' <= MayLose
  BY <1>6 DEF MayLose
<1>9. LostFew' /\ StrayFew'
  BY <1>1, <1>2, <1>6, <1>8, CountsKept
<1> QED
  BY <1>4, <1>5, <1>6, <1>7, <1>9 DEF IInv

LEMMA WakeKeeps ==
  ASSUME IInv, NEW z \in Attempt, WakeRetry(z)
  PROVE  IInv'
<1> DEFINE a == <<z[1], z[2] + 1>>
<1>1. /\ z \in sleeping /\ sleeping' = sleeping \ {z} /\ Q!Put(a) /\ EnsureProcessor
      /\ UNCHANGED <<stopping, stops, hand, serviced, gate, file, sent, unheard, failures>>
  BY DEF WakeRetry, worldVars
<1>2. Types /\ Placed /\ Hands /\ Jobs /\ LostFew /\ StrayFew /\ Q!TypeOK
  BY DEF IInv, Types
<1>3. z[2] < MaxAttempts /\ ~InHand(z) /\ ~Q!Queued(z) /\ ~Unput(z) /\ Live(z)
  BY <1>1, <1>2 DEF Placed, Live
<1>4. a \in Attempt /\ a[1] = z[1] /\ a # z
  <2>1. z[1] \in Job /\ z[2] + 1 \in 0 .. MaxAttempts /\ z[2] # z[2] + 1
    BY <1>3, AttemptIs
  <2> QED
    BY <2>1, AttemptIs
<1> HIDE DEF a
<1>5. /\ caller'[a] # "new" /\ taken' = taken /\ KeepsCallers({a}) /\ Answers({})
  BY <1>1, <1>2, <1>4, PutEffect
<1>12. ~Q!Queued(a)
  BY <1>1, <1>2, <1>4, PutEffect DEF Placed
<1>6. Types'
  BY <1>1, <1>2, <1>4, PutTypes, EnsureEffect DEF Types
<1>7. Placed'
  BY <1>1, <1>2, <1>4, PutPlaced
<1>8. /\ Hands' /\ Lost' = Lost /\ Stray' \subseteq Stray /\ MayLose' = MayLose
      /\ \A b \in Attempt : Finishing(b)' <=> Finishing(b)
  BY <1>1, <1>2, <1>5, QuietHands, EnsureEffect
<1>9. Jobs'
  <2>1. \A b \in Attempt : b[1] = z[1] /\ Live(b) => b = z
    BY <1>2, <1>3, AttemptIs DEF Jobs, OneLiveAttempt
  <2>2. ~Live(z)'
    <3>1. caller'[z] # "polling"
      BY <1>3, <1>4, <1>5 DEF KeepsCallers, Unput
    <3>2. ~Q!Queued(z)' /\ ~InHand(z)'
      BY <1>1, <1>2, <1>3, <1>4, <1>12, PutPlaces DEF Placed, InHand
    <3> QED
      BY <1>1, <3>1, <3>2 DEF Live
  <2>3. \A b \in Attempt \ {a} : Live(b)' => Live(b) /\ b[1] # a[1]
    BY <1>1, <1>2, <1>4, <2>1, <2>2, PutLive
  <2>4. StaysRouted
    BY <1>5, FirstIs DEF StaysRouted, KeepsCallers, Unput
  <2>5. caller'[<<a[1], 0>>] # "new"
    BY <1>2, <1>3, <1>4, <2>4, AttemptIs DEF StaysRouted, Jobs, Untouched
  <2>6. sent[a[1]] <= unheard[a[1]]
    <3>1. ~Finishing(z)
      BY <1>3 DEF Finishing, InHand
    <3> QED
      BY <1>2, <1>3, <1>4, <3>1, AttemptIs DEF Jobs, HeardOnce
  <2> QED
    BY <1>1, <1>2, <1>4, <1>5, <1>8, <2>3, <2>4, <2>5, <2>6, JobsStart
<1>10. MayLose' <= MayLose
  BY <1>8 DEF MayLose
<1>11. LostFew' /\ StrayFew'
  BY <1>1, <1>2, <1>8, <1>10, CountsKept
<1> QED
  BY <1>6, <1>7, <1>8, <1>9, <1>11 DEF IInv

(* Nothing is put, taken or handed over: a waiter gives up, the cycle and  *)
(* a consumer that finds nothing move on, a processor is started, stopped, *)
(* ends, and is forgotten.                                                 *)
Aside ==
  /\ Q!TypeOK' /\ heap' \subseteq heap /\ taken' = taken /\ KeepsCallers({}) /\ Answers({})
  /\ stage' \in [Consumer -> Stage] /\ StageIdle /\ file' \subseteq file
  /\ UNCHANGED <<hand, sleeping, sent, unheard, failures>>

LEMMA QueueAside ==
  ASSUME Q!TypeOK, UNCHANGED queueVars \/ Q!Drain \/ \E a \in Attempt : Q!WaitTimesOut(a)
  PROVE  Q!TypeOK' /\ heap' \subseteq heap /\ taken' = taken /\ KeepsCallers({}) /\ Answers({})
<1>1. CASE UNCHANGED queueVars
  BY <1>1 DEF queueVars, Q!TypeOK, KeepsCallers, Answers
<1> QED
  BY <1>1, LeaveEffect

LEMMA AsideKeeps ==
  ASSUME Types, Placed, Hands, Jobs, Aside
  PROVE  /\ Placed' /\ Hands' /\ Jobs' /\ Lost' = Lost
         /\ stopping' = stopping => MayLose' = MayLose
<1>1. Retired({})
  BY DEF Aside, Retired
<1>2. Placed'
  BY <1>1, RetiredPlaced
<1>3. /\ Hands' /\ Lost' = Lost
      /\ \A a \in Attempt : Finishing(a)' <=> Finishing(a)
      /\ stopping' = stopping => MayLose' = MayLose
  BY QuietHands DEF Aside
<1>4. \A a \in Attempt : Live(a)' => Live(a)
  BY <1>1, RetiredLive
<1>5. Jobs'
  BY <1>3, <1>4, CallersRouted, JobsCalm DEF Aside
<1> QED
  BY <1>2, <1>3, <1>5

LEMMA QuietKeeps ==
  ASSUME IInv,
         \/ \E a \in Attempt : WaitTimesOut(a)
         \/ \E c \in Consumer : FindsNothing(c)
         \/ StartPost \/ EndPost \/ Ensure
  PROVE  IInv'
<1>1. Types /\ Placed /\ Hands /\ Jobs /\ LostFew /\ StrayFew /\ Q!TypeOK
  BY DEF IInv, Types
<1>2. UNCHANGED <<stopping, stops>>
  BY DEF WaitTimesOut, FindsNothing, StartPost, EndPost, Ensure, loopVars
<1>3. Cycle \in Consumer
  BY DEF Consumer
<1>4. /\ Q!TypeOK' /\ heap' \subseteq heap /\ taken' = taken /\ KeepsCallers({}) /\ Answers({})
      /\ file' \subseteq file /\ UNCHANGED <<hand, sleeping, sent, unheard, failures>>
  <2>1. UNCHANGED queueVars \/ \E a \in Attempt : Q!WaitTimesOut(a)
    BY DEF WaitTimesOut, FindsNothing, StartPost, EndPost, Ensure
  <2>2. file' \subseteq file /\ UNCHANGED <<hand, sleeping, sent, unheard, failures>>
    BY DEF WaitTimesOut, CallerRemovesUpload, FindsNothing, StartPost, EndPost, Ensure, workVars, worldVars
  <2> QED
    BY <1>1, <2>1, <2>2, QueueAside
<1>5. /\ tracked' \in Processor \cup {None} /\ active' \in BOOLEAN /\ serviced' \in 0 .. 1
      /\ stage' \in [Consumer -> Stage] /\ StageIdle /\ Stray' \subseteq Stray
  <2>1. CASE Ensure
    BY <1>1, <2>1, EnsureEffect DEF Ensure, Types
  <2>2. CASE \E a \in Attempt : WaitTimesOut(a)
    BY <1>1, <2>2 DEF WaitTimesOut, Types, loopVars, workVars, StageIdle, Stray, Looping
  <2>3. CASE StartPost \/ EndPost
    <3>1. UNCHANGED <<tracked, active, serviced>> /\ stage[Cycle] \in {"rest", "post"}
      BY <2>3 DEF StartPost, EndPost, loopVars
    <3>2. PICK s \in {"rest", "post", "idle"} : stage' = [stage EXCEPT ![Cycle] = s]
      BY <2>3 DEF StartPost, EndPost
    <3>3. \A p \in Processor : p \in Consumer /\ p # Cycle
      BY AttemptIs DEF Consumer
    <3>4. Stray' = Stray
      BY <1>1, <3>1, <3>2, <3>3 DEF Types, Stray, Looping
    <3>5. stage' \in [Consumer -> Stage] /\ StageIdle
      BY <1>1, <1>3, <3>1, <3>2 DEF Types, Stage, StageIdle, Handling
    <3> QED
      BY <1>1, <3>1, <3>4, <3>5 DEF Types
  <2>4. ASSUME NEW c \in Consumer, FindsNothing(c)
        PROVE  /\ UNCHANGED <<tracked, active>> /\ serviced' \in 0 .. 1
               /\ stage' \in [Consumer -> Stage] /\ StageIdle /\ Stray' \subseteq Stray
    <3>1. UNCHANGED <<tracked, active>> /\ serviced' \in 0 .. 1 /\ stage[c] = "idle"
      BY <1>1, <2>4 DEF FindsNothing, loopVars, Types
    <3>2. PICK s \in {"rest", "off"} : stage' = [stage EXCEPT ![c] = s]
      BY <2>4 DEF FindsNothing
    <3>3. stage' \in [Consumer -> Stage] /\ StageIdle
      BY <1>1, <3>1, <3>2 DEF Types, Stage, StageIdle, Handling
    <3>4. \A p \in Processor : stage'[p] # "off" => stage[p] # "off"
      BY <1>1, <3>1, <3>2 DEF Types, Consumer
    <3>5. Stray' \subseteq Stray
      BY <3>1, <3>4 DEF Stray, Looping
    <3> QED
      BY <3>1, <3>3, <3>5
  <2> QED
    BY <1>1, <2>1, <2>2, <2>3, <2>4 DEF Types
<1>6. Types'
  BY <1>1, <1>2, <1>4, <1>5 DEF Types
<1>7. Placed' /\ Hands' /\ Jobs' /\ Lost' = Lost /\ MayLose' = MayLose
  BY <1>1, <1>2, <1>4, <1>5, AsideKeeps DEF Aside
<1>8. MayLose' <= MayLose
  BY <1>7 DEF MayLose
<1>9. LostFew' /\ StrayFew'
  BY <1>1, <1>2, <1>5, <1>7, <1>8, CountsKept
<1> QED
  BY <1>6, <1>7, <1>9 DEF IInv

LEMMA StopKeeps ==
  ASSUME IInv, StopProcessor \/ StopReturns
  PROVE  IInv'
<1>1. Types /\ Placed /\ Hands /\ Jobs /\ LostFew /\ StrayFew /\ Q!TypeOK /\ stops \in Nat
  BY PipelineAssumption DEF IInv, Types
<1>2. Aside
  <2>1. UNCHANGED queueVars \/ Q!Drain
    BY DEF StopProcessor, StopReturns, AfterStop, queueVars
  <2>2. UNCHANGED <<stage, hand, sleeping, file, sent, unheard, failures>>
    BY DEF StopProcessor, StopReturns, workVars, worldVars
  <2> QED
    BY <1>1, <2>1, <2>2, QueueAside DEF Aside, Types, StageIdle
<1>3. Placed' /\ Hands' /\ Jobs' /\ Lost' = Lost
  BY <1>1, <1>2, AsideKeeps
<1>4. /\ tracked' \in Processor \cup {None} /\ stopping' \in Processor \cup {None}
      /\ active' \in BOOLEAN /\ stops' \in 0 .. MaxStops /\ UNCHANGED <<serviced, stage>>
  <2>1. tracked' \in {tracked, None} /\ stopping' \in {stopping, tracked, None} /\ active' \in {active, FALSE}
    BY DEF StopProcessor, StopReturns
  <2>2. stops' = stops \/ (stops < MaxStops /\ stops' = stops + 1)
    BY DEF StopProcessor, StopReturns
  <2>3. UNCHANGED <<serviced, stage>>
    BY DEF StopProcessor, StopReturns, workVars
  <2>4. stops' \in 0 .. MaxStops
    BY <1>1, <2>2, PipelineAssumption DEF Types
  <2> QED
    BY <1>1, <2>1, <2>3, <2>4 DEF Types
<1>5. Types'
  BY <1>1, <1>2, <1>4 DEF Types, Aside
<1>6. MayLose \in Nat /\ MayLose' \in Nat /\ MayForget \in Nat /\ MayForget' \in Nat /\ stops' \in Nat
  BY <1>4, PipelineAssumption DEF MayLose, MayForget
<1>7. CASE StopProcessor
  <2>1. stops' = stops + 1 /\ MayLose = 0 /\ MayForget = 0 /\ MayLose' <= 1 /\ MayForget' <= 1
    BY <1>7 DEF StopProcessor, MayLose, MayForget
  <2>2. Looping' = Looping
    BY <1>4 DEF Looping
  <2>3. Stray' \subseteq Stray
    <3>1. CASE LoopAlive
      BY <1>7, <2>2, <3>1 DEF StopProcessor, Stray
    <3>2. CASE ~LoopAlive
      BY <1>1, <2>2, <3>2, AttemptIs DEF LoopAlive, Looping, Types, Stray
    <3> QED
      BY <3>1, <3>2
  <2>4. MayLose' + stops <= MayLose + stops' /\ MayForget' + stops <= MayForget + stops'
    BY <1>1, <1>6, <2>1, OwesOne
  <2>5. LostFew'
    BY <1>1, <1>3, <1>6, <2>4, LostKept
  <2>6. StrayFew'
    BY <1>1, <1>6, <2>3, <2>4, StrayKept
  <2> QED
    BY <1>3, <1>5, <2>5, <2>6 DEF IInv
<1>8. CASE StopReturns
  <2>1. /\ stops' = stops /\ MayLose = 0 /\ MayLose' = 0 /\ MayForget = 1 /\ MayForget' = 0
        /\ tracked' = None
    BY <1>8 DEF StopReturns, MayLose, MayForget, Handling
  <2>2. Stray' \subseteq Stray \cup {tracked}
    BY <1>4 DEF Stray, Looping
  <2>3. MayLose' + stops <= MayLose + stops' /\ MayForget' + stops + 1 <= MayForget + stops'
    BY <1>1, <1>6, <2>1, OwesNoMore, OwesOneLess
  <2>4. LostFew'
    BY <1>1, <1>3, <1>6, <2>3, LostKept
  <2>5. StrayFew'
    BY <1>1, <1>6, <2>2, <2>3, StrayGrows
  <2> QED
    BY <1>3, <1>5, <2>4, <2>5 DEF IInv
<1> QED
  BY <1>7, <1>8

---------------------------------------------------------------------------
(* Steps of a consumer that handles a task.                                *)

LEMMA NotFinishing ==
  ASSUME Placed, Hands, NEW c \in Consumer, stage[c] \in {"gate", "retry"}
  PROVE  ~Finishing(hand[c])
  BY DEF Placed, Hands, Handling, Finishing

LEMMA ConsumerStep ==
  ASSUME Types, NEW c \in Consumer, NEW s \in Stage, stage' = [stage EXCEPT ![c] = s], stage[c] # "off",
         tracked' = tracked
  PROVE  /\ stage' \in [Consumer -> Stage] /\ Stray' \subseteq Stray
         /\ (c # stopping \/ stopping = None) /\ stopping' = stopping => MayLose' = MayLose
<1>1. \A p \in Processor : stage'[p] # "off" => stage[p] # "off"
  BY DEF Types, Consumer
<1>2. Stray' \subseteq Stray
  BY <1>1 DEF Stray, Looping
<1>3. stopping # None => stopping \in Consumer
  BY DEF Types, Consumer
<1>4. (c # stopping \/ stopping = None) /\ stopping' = stopping => MayLose' = MayLose
  BY <1>3 DEF Types, MayLose
<1> QED
  BY <1>2, <1>4 DEF Types

(* It lets go of its task.                                                 *)
LEMMA DropEffect ==
  ASSUME Types, Placed, Hands, NEW c \in Consumer, stage[c] \in Handling, NEW s \in Stage \ Handling,
         NEW x \in Attempt, x = hand[c], hand' = [hand EXCEPT ![c] = None], stage' = [stage EXCEPT ![c] = s],
         taken' \subseteq taken
  PROVE  /\ hand' \in [Consumer -> Attempt \cup {None}] /\ Hands'
         /\ \A d \in Consumer : hand'[d] = hand[d] \/ hand'[d] = None
         /\ \A a \in Attempt : InHand(a)' <=> InHand(a) /\ a # x
         /\ \A a \in Attempt : Finishing(a)' <=> Finishing(a) /\ a # x
<1>1. /\ hand'[c] = None /\ stage'[c] = s
      /\ \A d \in Consumer \ {c} : hand'[d] = hand[d] /\ stage'[d] = stage[d]
  BY DEF Types
<1>2. \A d \in Consumer \ {c} : hand[d] # x
  BY AttemptIs DEF Placed
<1>3. Hands'
  BY <1>1 DEF Hands, Handling
<1>4. \A a \in Attempt : InHand(a)' <=> InHand(a) /\ a # x
  BY <1>1, <1>2, AttemptIs DEF InHand
<1>5. \A a \in Attempt : Finishing(a)' <=> Finishing(a) /\ a # x
  BY <1>1, <1>2, AttemptIs DEF Finishing
<1> QED
  BY <1>1, <1>3, <1>4, <1>5 DEF Types

LEMMA Gone ==
  ASSUME Types, Placed, NEW S, Retired(S), NEW a \in Attempt, InHand(a), ~InHand(a)', a \notin S
  PROVE  ~Live(a)'
<1>1. ~Unput(a) /\ ~Q!Queued(a) /\ a \notin sleeping
  BY DEF Placed
<1> QED
  BY <1>1 DEF Retired, KeepsCallers, Unput, Q!Queued, Live

Rests(x) == sleeping' \subseteq sleeping \/ (x[2] < MaxAttempts /\ sleeping' \subseteq sleeping \cup {x})

LEMMA LetsGo ==
  ASSUME Types, Placed, Hands, Jobs, NEW c \in Consumer, stage[c] \in Handling, NEW s \in Stage \ Handling,
         NEW x \in Attempt, x = hand[c], hand' = [hand EXCEPT ![c] = None], stage' = [stage EXCEPT ![c] = s],
         heap' \subseteq heap, taken' \subseteq taken, KeepsCallers({}), Rests(x)
  PROVE  /\ Placed' /\ Hands' /\ StaysRouted /\ sleeping' \subseteq Attempt
         /\ hand' \in [Consumer -> Attempt \cup {None}]
         /\ sleeping' \subseteq sleeping => ~Live(x)'
         /\ \A a \in Attempt : Live(a)' => Live(a)
         /\ \A a \in Attempt : Finishing(a)' <=> Finishing(a) /\ a # x
         /\ Lost' \subseteq Lost \cup ({x} \cap taken')
<1>1. InHand(x)
  BY HandIs
<1>2. /\ hand' \in [Consumer -> Attempt \cup {None}] /\ Hands'
      /\ \A d \in Consumer : hand'[d] = hand[d] \/ hand'[d] = None
  BY DropEffect
<1>3. \A a \in Attempt : InHand(a)' <=> InHand(a) /\ a # x
  BY DropEffect
<1>4. \A a \in Attempt : Finishing(a)' <=> Finishing(a) /\ a # x
  BY DropEffect
<1>5. InHand(x) /\ ~InHand(x)'
  BY <1>1, <1>3
<1>6. \/ Retired({})
      \/ ~(sleeping' \subseteq sleeping) /\ Retired({x})
  BY <1>2, <1>5 DEF Retired, Rests
<1>7. Placed' /\ StaysRouted
  BY <1>6, RetiredPlaced, CallersRouted
<1>8. \A a \in Attempt : Live(a)' => Live(a)
  BY <1>6, RetiredLive
<1>9. sleeping' \subseteq sleeping => ~Live(x)'
  BY <1>5, <1>6, Gone
<1>10. Lost' \subseteq Lost \cup ({x} \cap taken')
  <2>1. taken \subseteq Attempt
    BY DEF Types, Q!TypeOK
  <2> SUFFICES ASSUME NEW a \in taken', ~InHand(a)', a # x
               PROVE  a \in Lost
    BY DEF Lost
  <2> QED
    BY <1>3, <2>1 DEF Lost
<1>11. sleeping' \subseteq Attempt
  BY DEF Types, Rests
<1> QED
  BY <1>2, <1>4, <1>7, <1>8, <1>9, <1>10, <1>11

LEMMA UploadType ==
  ASSUME Types, NEW a, HandlerRemovesUpload(a)
  PROVE  file' \subseteq Job
  BY DEF Types, HandlerRemovesUpload

LEMMA SendType ==
  ASSUME Types, NEW a \in Attempt, NEW heard \in BOOLEAN, Sends(a, heard)
  PROVE  /\ sent' \in [Job -> Nat] /\ unheard' \in [Job -> Nat]
         /\ \E n, m \in Nat : /\ n >= 1 /\ SendsMore(a, n, m)
                             /\ n <= m + 1 /\ (~heard => n <= m)
<1>1. PICK n \in 1 .. Tries : /\ sent' = [sent EXCEPT ![a[1]] = @ + n]
                              /\ unheard' = [unheard EXCEPT ![a[1]] = @ + IF heard THEN n - 1 ELSE n]
  BY DEF Sends
<1>2. PICK m \in Nat : m = IF heard THEN n - 1 ELSE n
  BY PipelineAssumption
<1>3. n \in Nat /\ n >= 1 /\ n <= m + 1 /\ (~heard => n <= m)
  BY <1>2, PipelineAssumption
<1>4. SendsMore(a, n, m)
  BY <1>1, <1>2 DEF SendsMore
<1>5. sent' \in [Job -> Nat] /\ unheard' \in [Job -> Nat]
  BY <1>3, <1>4, AttemptIs DEF Types, SendsMore
<1> QED
  BY <1>3, <1>4, <1>5

LEMMA NextTaskIs ==
  ASSUME Types, NEW c \in Consumer, NextTask(c)
  PROVE  /\ hand' = [hand EXCEPT ![c] = None] /\ serviced' \in 0 .. 1
         /\ \E s \in Stage \ Handling : stage' = [stage EXCEPT ![c] = s]
<1>1. hand' = [hand EXCEPT ![c] = None] /\ serviced' \in 0 .. 1
  BY DEF Types, NextTask, YieldLimit
<1>2. {"idle", "off", "rest"} \subseteq Stage \ Handling
  BY DEF Stage, Handling
<1>3. \E s \in {"idle", "off", "rest"} : stage' = [stage EXCEPT ![c] = s]
  BY DEF NextTask
<1> QED
  BY <1>1, <1>2, <1>3

(* The consumer takes a task.                                              *)
LEMMA TakeKeeps ==
  ASSUME IInv, NEW c \in Consumer, TakeTask(c)
  PROVE  IInv'
<1>1. Types /\ Placed /\ Hands /\ Jobs /\ LostFew /\ StrayFew /\ Q!TypeOK /\ OneEntry
  BY DEF IInv, Types, Placed
<1>2. /\ stage[c] = "idle" /\ c # stopping /\ stage' = [stage EXCEPT ![c] = "gate"]
      /\ UNCHANGED <<tracked, active, stopping, stops, serviced, sleeping, file, sent, unheard, failures>>
  BY DEF TakeTask, Runs, loopVars, worldVars
<1>3. PICK a \in Attempt : Q!Take(a) /\ hand' = [hand EXCEPT ![c] = a]
  BY DEF TakeTask
<1>4. /\ Q!TypeOK' /\ OneEntry' /\ heap' \subseteq heap
      /\ Q!Queued(a) /\ ~Q!Queued(a)' /\ taken' = taken \cup {a} /\ caller' = caller
  BY <1>1, <1>3, TakeEffect
<1>5. ~InHand(a) /\ a \notin sleeping /\ ~Unput(a)
  BY <1>1, <1>4 DEF Placed
<1>6. /\ hand[c] = None /\ hand'[c] = a /\ stage'[c] = "gate"
      /\ \A d \in Consumer \ {c} : hand'[d] = hand[d] /\ stage'[d] = stage[d]
      /\ hand' \in [Consumer -> Attempt \cup {None}]
  BY <1>1, <1>2, <1>3 DEF Types, Hands, Handling
<1>7. stage' \in [Consumer -> Stage] /\ Stray' \subseteq Stray /\ MayLose' = MayLose
  <2>1. "gate" \in Stage
    BY DEF Stage
  <2> QED
    BY <1>1, <1>2, <2>1, ConsumerStep
<1>8. Types'
  BY <1>1, <1>2, <1>4, <1>6, <1>7 DEF Types
<1>9. \A b \in Attempt : InHand(b)' <=> InHand(b) \/ b = a
  BY <1>6, AttemptIs DEF InHand
<1>10. \A b \in Attempt : Q!Queued(b)' => Q!Queued(b) /\ b # a
  BY <1>4 DEF Q!Queued
<1>11. \A b \in Attempt : Unput(b)' <=> Unput(b)
  BY <1>4 DEF Unput
<1>12. Placed'
  <2>1. \A d, e \in Consumer : hand'[d] # None /\ hand'[d] = hand'[e] => d = e
    BY <1>1, <1>5, <1>6 DEF Placed, InHand
  <2>2. ASSUME NEW b \in Attempt
        PROVE  /\ Unput(b)' => ~Q!Queued(b)' /\ ~InHand(b)' /\ b \notin sleeping'
               /\ Q!Queued(b)' => ~InHand(b)' /\ b \notin sleeping'
               /\ InHand(b)' => b \notin sleeping'
               /\ b \in sleeping' => b[2] < MaxAttempts
    BY <1>1, <1>2, <1>5, <1>9, <1>10, <1>11 DEF Placed
  <2> QED
    BY <1>4, <2>1, <2>2 DEF Placed
<1>13. Hands'
  BY <1>1, <1>2, <1>4, <1>5, <1>6, AttemptIs DEF Hands, Handling, InHand
<1>14. Jobs'
  <2>1. \A b \in Attempt : Live(b)' => Live(b)
    BY <1>2, <1>4, <1>9, <1>10 DEF Live
  <2>2. \A b \in Attempt : Finishing(b)' <=> Finishing(b)
    BY <1>2, <1>6, AttemptIs DEF Finishing
  <2>3. StaysRouted /\ Answers({})
    BY <1>4 DEF StaysRouted, Answers
  <2> QED
    BY <1>1, <1>2, <2>1, <2>2, <2>3, JobsCalm
<1>15. Lost' \subseteq Lost
  BY <1>1, <1>4, <1>9 DEF Lost, Q!TypeOK
<1>16. MayLose' <= MayLose
  BY <1>7 DEF MayLose
<1>17. LostFew' /\ StrayFew'
  BY <1>1, <1>2, <1>7, <1>15, <1>16, CountsKept
<1> QED
  BY <1>8, <1>12, <1>13, <1>14, <1>17 DEF IInv

(* The handler returned, or raised in a processor's hands: the task stays  *)
(* in them.                                                                *)
LEMMA HoldsOn ==
  ASSUME Types, Placed, Hands, NEW c \in Consumer, stage[c] = "gate", NEW s \in {"finish", "retry"},
         NEW x \in Attempt, x = hand[c], UNCHANGED <<hand, sleeping>>, stage' = [stage EXCEPT ![c] = s],
         heap' = heap, taken' \subseteq taken, KeepsCallers({}), s = "retry" => x \notin taken'
  PROVE  /\ Placed' /\ Hands' /\ StaysRouted /\ Live(x) /\ ~Finishing(x)
         /\ \A a \in Attempt : Live(a)' => Live(a)
         /\ \A a \in Attempt : Finishing(a)' <=> Finishing(a) \/ (a = x /\ s = "finish")
         /\ Lost' \subseteq Lost
<1>1. Live(x)
  BY HandIs DEF Handling
<1>2. ~Finishing(x)
  BY NotFinishing
<1>3. Retired({})
  BY DEF Retired
<1>4. Placed' /\ StaysRouted
  BY <1>3, RetiredPlaced, CallersRouted
<1>5. \A a \in Attempt : Live(a)' => Live(a)
  BY <1>3, RetiredLive
<1>6. stage'[c] = s /\ \A d \in Consumer \ {c} : stage'[d] = stage[d]
  BY DEF Types
<1>7. \A d \in Consumer \ {c} : hand[d] # x
  BY AttemptIs DEF Placed
<1>8. Hands'
  BY <1>6 DEF Hands, Handling
<1>9. \A a \in Attempt : Finishing(a)' <=> Finishing(a) \/ (a = x /\ s = "finish")
  BY <1>6 DEF Finishing
<1>10. Lost' \subseteq Lost
  BY DEF Lost, InHand
<1> QED
  BY <1>1, <1>2, <1>4, <1>5, <1>8, <1>9, <1>10

LEMMA ReturnsKeeps ==
  ASSUME IInv, NEW c \in Consumer, HandlerReturns(c)
  PROVE  IInv'
<1>1. Types /\ Placed /\ Hands /\ Jobs /\ LostFew /\ StrayFew /\ Q!TypeOK
  BY DEF IInv, Types
<1>2. /\ stage[c] = "gate" /\ c # stopping /\ stage' = [stage EXCEPT ![c] = "finish"]
      /\ UNCHANGED <<heap, sequence, pending, caller, taken, outcome>>
      /\ UNCHANGED <<tracked, active, stopping, stops, hand, serviced, sleeping, failures>>
  BY DEF HandlerReturns, Runs, queueVars, loopVars
<1>3. PICK x \in Attempt : x = hand[c]
  BY <1>1, <1>2, HandIs DEF Handling
<1>4. /\ Sends(x, TRUE) \/ (Kind[x[1]] = "auto" /\ UNCHANGED <<sent, unheard>>)
      /\ HandlerRemovesUpload(x)
  BY <1>3 DEF HandlerReturns, NoSend
<1>5. KeepsCallers({}) /\ Answers({}) /\ Q!TypeOK'
  BY <1>1, <1>2 DEF KeepsCallers, Answers, Q!TypeOK
<1>6. stage' \in [Consumer -> Stage] /\ Stray' \subseteq Stray /\ MayLose' = MayLose
  <2>1. "finish" \in Stage
    BY DEF Stage
  <2> QED
    BY <1>1, <1>2, <2>1, ConsumerStep
<1>7. Types'
  <2>1. sent' \in [Job -> Nat] /\ unheard' \in [Job -> Nat]
    BY <1>1, <1>4, SendType DEF Types
  <2> QED
    BY <1>1, <1>2, <1>4, <1>5, <1>6, <2>1, UploadType DEF Types
<1>8. /\ Placed' /\ Hands' /\ StaysRouted /\ Live(x) /\ ~Finishing(x) /\ Lost' \subseteq Lost
      /\ \A a \in Attempt : Live(a)' => Live(a)
      /\ \A a \in Attempt : Finishing(a)' <=> Finishing(a) \/ a = x
  BY <1>1, <1>2, <1>3, <1>5, HoldsOn
<1>9. Jobs'
  <2>1. CASE Sends(x, TRUE)
    <3>1. PICK n, m \in Nat : n >= 1 /\ SendsMore(x, n, m) /\ n <= m + 1
      BY <1>1, <2>1, SendType
    <3> QED
      BY <1>1, <1>2, <1>5, <1>8, <3>1, JobsSend
  <2>2. CASE Kind[x[1]] = "auto" /\ UNCHANGED <<sent, unheard>>
    <3>1. HasSent(x)
      BY <2>2 DEF HasSent, Operator
    <3> QED
      BY <1>1, <1>2, <1>5, <1>8, <2>2, <3>1, JobsCalm
  <2> QED
    BY <1>4, <2>1, <2>2
<1>10. MayLose' <= MayLose
  BY <1>6 DEF MayLose
<1>11. LostFew' /\ StrayFew'
  BY <1>1, <1>2, <1>6, <1>8, <1>10, CountsKept
<1> QED
  BY <1>7, <1>8, <1>9, <1>11 DEF IInv

(* The task is complete, or what is to follow its failure is settled.      *)
LEMMA FinishKeeps ==
  ASSUME IInv, NEW c \in Consumer, FinishTask(c)
  PROVE  IInv'
<1>1. Types /\ Placed /\ Hands /\ Jobs /\ LostFew /\ StrayFew /\ Q!TypeOK
  BY DEF IInv, Types
<1>2. /\ stage[c] = "finish" /\ c # stopping /\ NextTask(c)
      /\ UNCHANGED <<tracked, active, stopping, stops, sleeping, file, sent, unheard, failures>>
  BY DEF FinishTask, Runs, loopVars, worldVars
<1>3. PICK x \in Attempt : x = hand[c]
  BY <1>1, <1>2, HandIs DEF Handling
<1>4. /\ Q!TypeOK' /\ heap' = heap /\ taken' = taken \ {x} /\ KeepsCallers({}) /\ Answers({x})
  <2>1. Q!Complete(x, TRUE)
    BY <1>3 DEF FinishTask
  <2> QED
    BY <1>1, <2>1, CompleteEffect
<1>5. PICK s \in Stage \ Handling : stage' = [stage EXCEPT ![c] = s]
  BY <1>1, <1>2, NextTaskIs
<1>6. hand' = [hand EXCEPT ![c] = None] /\ serviced' \in 0 .. 1
  BY <1>1, <1>2, NextTaskIs
<1>7. stage' \in [Consumer -> Stage] /\ Stray' \subseteq Stray /\ MayLose' = MayLose
  BY <1>1, <1>2, <1>5, ConsumerStep
<1>8. /\ Placed' /\ Hands' /\ StaysRouted /\ hand' \in [Consumer -> Attempt \cup {None}] /\ ~Live(x)'
      /\ \A a \in Attempt : Live(a)' => Live(a)
      /\ \A a \in Attempt : Finishing(a)' <=> Finishing(a) /\ a # x
      /\ Lost' \subseteq Lost
  <2>1. stage[c] \in Handling
    BY <1>2 DEF Handling
  <2>2. /\ taken' \subseteq taken /\ {x} \cap taken' = {} /\ heap' \subseteq heap
        /\ sleeping' \subseteq sleeping /\ Rests(x)
    BY <1>2, <1>4 DEF Rests
  <2> QED
    BY <1>1, <1>3, <1>4, <1>5, <1>6, <2>1, <2>2, LetsGo
<1>9. Types'
  BY <1>1, <1>2, <1>4, <1>6, <1>7, <1>8 DEF Types
<1>10. HasSent(x)
  BY <1>1, <1>2, <1>3 DEF Jobs, FinishedHasSent, Finishing
<1>11. Jobs'
  BY <1>1, <1>2, <1>4, <1>8, <1>10, JobsCalm
<1>12. MayLose' <= MayLose
  BY <1>7 DEF MayLose
<1>13. LostFew' /\ StrayFew'
  BY <1>1, <1>2, <1>7, <1>8, <1>12, CountsKept
<1> QED
  BY <1>8, <1>9, <1>11, <1>13 DEF IInv

LEMMA RetryIs ==
  ASSUME NEW a, NEW fatal, ScheduleRetry(a, fatal)
  PROVE  Rests(a)
  BY DEF ScheduleRetry, Rests

LEMMA PublishedKeeps ==
  ASSUME IInv, NEW c \in Consumer, FailurePublished(c)
  PROVE  IInv'
<1>1. Types /\ Placed /\ Hands /\ Jobs /\ LostFew /\ StrayFew /\ Q!TypeOK
  BY DEF IInv, Types
<1>2. /\ stage[c] = "retry" /\ c # stopping /\ NextTask(c)
      /\ UNCHANGED <<heap, sequence, pending, caller, taken, outcome>>
      /\ UNCHANGED <<tracked, active, stopping, stops, file, sent, unheard, failures>>
  BY DEF FailurePublished, Runs, queueVars, loopVars, worldVars
<1>3. PICK x \in Attempt : x = hand[c]
  BY <1>1, <1>2, HandIs DEF Handling
<1>4. Q!TypeOK' /\ KeepsCallers({}) /\ Answers({})
  BY <1>1, <1>2 DEF KeepsCallers, Answers, Q!TypeOK
<1>5. PICK s \in Stage \ Handling : stage' = [stage EXCEPT ![c] = s]
  BY <1>1, <1>2, NextTaskIs
<1>6. hand' = [hand EXCEPT ![c] = None] /\ serviced' \in 0 .. 1
  BY <1>1, <1>2, NextTaskIs
<1>7. stage' \in [Consumer -> Stage] /\ Stray' \subseteq Stray /\ MayLose' = MayLose
  BY <1>1, <1>2, <1>5, ConsumerStep
<1>8. Rests(x)
  <2>1. ScheduleRetry(x, x \in failures)
    BY <1>3 DEF FailurePublished
  <2> QED
    BY <2>1, RetryIs
<1>9. ~Finishing(x) /\ x \notin taken
  BY <1>1, <1>2, <1>3, NotFinishing DEF Hands
<1>10. /\ Placed' /\ Hands' /\ StaysRouted /\ hand' \in [Consumer -> Attempt \cup {None}]
       /\ sleeping' \subseteq Attempt
       /\ \A a \in Attempt : Live(a)' => Live(a)
       /\ \A a \in Attempt : Finishing(a)' <=> Finishing(a)
       /\ Lost' \subseteq Lost
  <2>1. stage[c] \in Handling
    BY <1>2 DEF Handling
  <2>2. taken' \subseteq taken /\ {x} \cap taken' = {} /\ heap' \subseteq heap
    BY <1>2, <1>9
  <2>3. /\ Placed' /\ Hands' /\ StaysRouted /\ hand' \in [Consumer -> Attempt \cup {None}]
        /\ sleeping' \subseteq Attempt
        /\ \A a \in Attempt : Live(a)' => Live(a)
        /\ \A a \in Attempt : Finishing(a)' <=> Finishing(a) /\ a # x
        /\ Lost' \subseteq Lost \cup ({x} \cap taken')
    BY <1>1, <1>3, <1>4, <1>5, <1>6, <1>8, <2>1, <2>2, LetsGo
  <2> QED
    BY <1>9, <2>2, <2>3
<1>11. Types'
  BY <1>1, <1>2, <1>4, <1>6, <1>7, <1>10 DEF Types
<1>12. Jobs'
  BY <1>1, <1>2, <1>4, <1>10, JobsCalm
<1>13. MayLose' <= MayLose
  BY <1>7 DEF MayLose
<1>14. LostFew' /\ StrayFew'
  BY <1>1, <1>2, <1>7, <1>10, <1>13, CountsKept
<1> QED
  BY <1>10, <1>11, <1>12, <1>14 DEF IInv

(* The handler raised: a processor publishes the failure first, the cycle  *)
(* goes on at once.                                                        *)
LEMMA RaisesKeeps ==
  ASSUME IInv, NEW c \in Consumer, HandlerRaises(c)
  PROVE  IInv'
<1>1. Types /\ Placed /\ Hands /\ Jobs /\ LostFew /\ StrayFew /\ Q!TypeOK
  BY DEF IInv, Types
<1>2. /\ stage[c] = "gate" /\ c # stopping
      /\ UNCHANGED <<tracked, active, stopping, stops>>
  BY DEF HandlerRaises, Runs, loopVars
<1>3. PICK x \in Attempt : x = hand[c]
  BY <1>1, <1>2, HandIs DEF Handling
<1>4. /\ Q!TypeOK' /\ heap' = heap /\ taken' = taken \ {x} /\ KeepsCallers({}) /\ Answers({})
  <2>1. Q!Complete(x, FALSE)
    BY <1>3 DEF HandlerRaises, TellFailure
  <2> QED
    BY <1>1, <2>1, CompleteEffect
<1>5. /\ failures' \subseteq failures \cup {x}
      /\ Sends(x, FALSE) \/ UNCHANGED <<sent, unheard>>
      /\ HandlerRemovesUpload(x)
  BY <1>3 DEF HandlerRaises, Fails, NoSend
<1>6. ~Finishing(x) /\ Live(x)
  BY <1>1, <1>2, <1>3, NotFinishing, HandIs DEF Handling
<1>7. /\ Placed' /\ Hands' /\ StaysRouted /\ hand' \in [Consumer -> Attempt \cup {None}]
      /\ sleeping' \subseteq Attempt /\ serviced' \in 0 .. 1
      /\ \A a \in Attempt : Live(a)' => Live(a)
      /\ \A a \in Attempt : Finishing(a)' <=> Finishing(a)
      /\ Lost' \subseteq Lost
      /\ \E s \in Stage : stage' = [stage EXCEPT ![c] = s]
  <2>1. CASE stage' = [stage EXCEPT ![c] = "retry"] /\ UNCHANGED <<hand, serviced, sleeping>>
    <3>1. "retry" \in Stage
      BY DEF Stage
    <3>2. /\ Placed' /\ Hands' /\ StaysRouted /\ Lost' \subseteq Lost
          /\ \A a \in Attempt : Live(a)' => Live(a)
          /\ \A a \in Attempt : Finishing(a)' <=> Finishing(a)
      BY <1>1, <1>2, <1>3, <1>4, <2>1, HoldsOn
    <3> QED
      BY <1>1, <2>1, <3>1, <3>2 DEF Types
  <2>2. CASE NextTask(c) /\ \E fatal \in BOOLEAN : ScheduleRetry(x, fatal)
    <3>1. stage[c] \in Handling
      BY <1>2 DEF Handling
    <3>2. PICK s \in Stage \ Handling : stage' = [stage EXCEPT ![c] = s]
      BY <1>1, <2>2, NextTaskIs
    <3>3. hand' = [hand EXCEPT ![c] = None] /\ serviced' \in 0 .. 1
      BY <1>1, <2>2, NextTaskIs
    <3>4. Rests(x)
      BY <2>2, RetryIs
    <3>5. taken' \subseteq taken /\ {x} \cap taken' = {} /\ heap' \subseteq heap
      BY <1>4
    <3>6. /\ Placed' /\ Hands' /\ StaysRouted /\ hand' \in [Consumer -> Attempt \cup {None}]
          /\ sleeping' \subseteq Attempt
          /\ \A a \in Attempt : Live(a)' => Live(a)
          /\ \A a \in Attempt : Finishing(a)' <=> Finishing(a) /\ a # x
          /\ Lost' \subseteq Lost \cup ({x} \cap taken')
      BY <1>1, <1>3, <1>4, <3>1, <3>2, <3>3, <3>4, <3>5, LetsGo
    <3> QED
      BY <1>6, <3>2, <3>3, <3>5, <3>6
  <2>3. CanSend(x) \in BOOLEAN
    BY DEF CanSend, Handled, PayloadIntact
  <2> QED
    BY <1>3, <2>1, <2>2, <2>3 DEF HandlerRaises
<1>8. stage' \in [Consumer -> Stage] /\ Stray' \subseteq Stray /\ MayLose' = MayLose
  BY <1>1, <1>2, <1>7, ConsumerStep
<1>9. Types'
  <2>1. sent' \in [Job -> Nat] /\ unheard' \in [Job -> Nat] /\ file' \subseteq Job
    BY <1>1, <1>5, UploadType, SendType DEF Types
  <2> QED
    BY <1>1, <1>2, <1>4, <1>5, <1>7, <1>8, <2>1 DEF Types
<1>10. Jobs'
  <2>1. CASE Sends(x, FALSE)
    <3>1. PICK n, m \in Nat : n >= 1 /\ SendsMore(x, n, m) /\ n <= m
      BY <1>1, <2>1, SendType
    <3> QED
      BY <1>1, <1>4, <1>6, <1>7, <3>1, JobsSend
  <2>2. CASE UNCHANGED <<sent, unheard>>
    BY <1>1, <1>4, <1>7, <2>2, JobsCalm
  <2> QED
    BY <1>5, <2>1, <2>2
<1>11. MayLose' <= MayLose
  BY <1>8 DEF MayLose
<1>12. LostFew' /\ StrayFew'
  BY <1>1, <1>2, <1>7, <1>8, <1>11, CountsKept
<1> QED
  BY <1>7, <1>9, <1>10, <1>12 DEF IInv

(* A cancelled consumer forgets its task, which may just have been sent.   *)
LEMMA AbandonKeeps ==
  ASSUME Types, Placed, Hands, Jobs, NEW c \in Consumer, stage[c] \in Handling, NEW s \in Stage \ Handling,
         NEW x \in Attempt, x = hand[c], stage' = [stage EXCEPT ![c] = s], AbandonTask(c)
  PROVE  /\ Q!TypeOK' /\ Placed' /\ Hands' /\ Jobs' /\ Lost' \subseteq Lost \cup {x}
         /\ hand' \in [Consumer -> Attempt \cup {None}] /\ sent' \in [Job -> Nat] /\ unheard' \in [Job -> Nat]
         /\ file' \subseteq Job
<1>1. /\ hand' = [hand EXCEPT ![c] = None] /\ UNCHANGED <<sleeping, failures>>
      /\ UNCHANGED <<heap, sequence, pending, caller, taken, outcome>>
  BY DEF AbandonTask, queueVars
<1>2. UNCHANGED <<sent, unheard>> \/ (stage[c] = "gate" /\ Sends(x, FALSE))
  BY DEF AbandonTask, NoSend
<1>3. sent' \in [Job -> Nat] /\ unheard' \in [Job -> Nat] /\ file' \subseteq Job
  <2>1. file' \subseteq Job
    BY DEF AbandonTask, HandlerRemovesUpload, Types
  <2> QED
    BY <1>2, <2>1, SendType DEF Types
<1>4. Q!TypeOK' /\ KeepsCallers({}) /\ Answers({})
  BY <1>1 DEF KeepsCallers, Answers, Q!TypeOK, Types
<1>5. /\ Placed' /\ Hands' /\ StaysRouted /\ ~Live(x)'
      /\ hand' \in [Consumer -> Attempt \cup {None}]
      /\ \A a \in Attempt : Live(a)' => Live(a)
      /\ \A a \in Attempt : Finishing(a)' <=> Finishing(a) /\ a # x
      /\ Lost' \subseteq Lost \cup ({x} \cap taken')
  <2>1. heap' \subseteq heap /\ taken' \subseteq taken /\ sleeping' \subseteq sleeping /\ Rests(x)
    BY <1>1 DEF Rests
  <2> QED
    BY <1>1, <1>4, <2>1, LetsGo
<1>6. Jobs'
  <2>1. CASE UNCHANGED <<sent, unheard>>
    BY <1>1, <1>4, <1>5, <2>1, JobsCalm
  <2>2. CASE stage[c] = "gate" /\ Sends(x, FALSE)
    <3>1. Live(x) /\ ~Finishing(x)
      BY <2>2, HandIs, NotFinishing
    <3>2. PICK n, m \in Nat : n >= 1 /\ SendsMore(x, n, m) /\ n <= m
      BY <2>2, SendType
    <3> QED
      BY <1>1, <1>4, <1>5, <3>1, <3>2, JobsSend
  <2> QED
    BY <1>2, <2>1, <2>2
<1> QED
  BY <1>3, <1>4, <1>5, <1>6

LEMMA CancelCycleKeeps ==
  ASSUME IInv, CancelCycle
  PROVE  IInv'
<1>1. /\ Types /\ Placed /\ Hands /\ Jobs /\ LostFew /\ StrayFew /\ Q!TypeOK
      /\ stops \in Nat /\ MaxStops \in Nat /\ Cycle \in Consumer
  BY PipelineAssumption DEF IInv, Types, Consumer
<1>2. /\ stage[Cycle] \in Handling /\ stage' = [stage EXCEPT ![Cycle] = "rest"] /\ AbandonTask(Cycle)
      /\ stops' = stops + 1 /\ serviced' = 0 /\ UNCHANGED <<tracked, active, stopping>>
  BY DEF CancelCycle, Handling
<1>3. stops' \in 0 .. MaxStops /\ stops' \in Nat
  BY <1>1 DEF CancelCycle
<1>4. UNCHANGED <<sleeping, failures>>
  BY <1>2 DEF AbandonTask
<1>5. PICK x \in Attempt : x = hand[Cycle]
  BY <1>1, <1>2, HandIs
<1>6. "rest" \in Stage \ Handling
  BY DEF Stage, Handling
<1>7. /\ Q!TypeOK' /\ Placed' /\ Hands' /\ Jobs' /\ Lost' \subseteq Lost \cup {x}
      /\ hand' \in [Consumer -> Attempt \cup {None}] /\ sent' \in [Job -> Nat] /\ unheard' \in [Job -> Nat]
        /\ file' \subseteq Job
  BY <1>1, <1>2, <1>5, <1>6, AbandonKeeps
<1>8. stage' \in [Consumer -> Stage] /\ Stray' \subseteq Stray /\ MayLose' = MayLose
  <2>1. Cycle # stopping \/ stopping = None
    BY <1>1, AttemptIs DEF Types
  <2>2. stage[Cycle] # "off"
    BY <1>2 DEF Handling
  <2> QED
    BY <1>1, <1>2, <1>6, <2>1, <2>2, ConsumerStep
<1>9. Types'
  BY <1>1, <1>2, <1>3, <1>4, <1>7, <1>8 DEF Types
<1>10. /\ MayLose \in Nat /\ MayLose' + stops + 1 <= MayLose + stops'
       /\ MayForget' \in Nat /\ MayForget \in Nat /\ MayForget' = MayForget
  <2>1. MayLose \in Nat /\ MayForget \in Nat /\ MayForget' = MayForget
    BY <1>2 DEF MayLose, MayForget
  <2>2. \A m, n, l, k \in Nat : n = m /\ k = l + 1 => n + l + 1 <= m + k
    OBVIOUS
  <2> QED
    BY <1>1, <1>2, <1>3, <1>8, <2>1, <2>2
<1>11. LostFew'
  BY <1>1, <1>3, <1>7, <1>10, LostGrows
<1>12. StrayFew'
  <2>1. \A m, n, l, k \in Nat : n = m /\ k = l + 1 => n + l <= m + k
    OBVIOUS
  <2>2. MayForget' + stops <= MayForget + stops'
    BY <1>1, <1>2, <1>3, <1>10, <2>1
  <2> QED
    BY <1>1, <1>3, <1>8, <2>2, StrayKept
<1> QED
  BY <1>7, <1>9, <1>11, <1>12 DEF IInv

LEMMA CancelProcessorKeeps ==
  ASSUME IInv, CancelProcessor
  PROVE  IInv'
<1>1. /\ Types /\ Placed /\ Hands /\ Jobs /\ LostFew /\ StrayFew /\ Q!TypeOK
      /\ stops \in Nat /\ stopping \in Consumer /\ stopping # None
  BY PipelineAssumption DEF IInv, Types, Consumer, CancelProcessor
<1>2. UNCHANGED <<tracked, active, stopping, stops, serviced>>
  BY DEF CancelProcessor, loopVars
<1>3. CASE stage[stopping] \in Handling /\ stage' = [stage EXCEPT ![stopping] = "exit"] /\ AbandonTask(stopping)
  <2>1. PICK x \in Attempt : x = hand[stopping]
    BY <1>1, <1>3, HandIs
  <2>2. "exit" \in Stage \ Handling
    BY DEF Stage, Handling
  <2>3. /\ Q!TypeOK' /\ Placed' /\ Hands' /\ Jobs' /\ Lost' \subseteq Lost \cup {x}
        /\ hand' \in [Consumer -> Attempt \cup {None}] /\ sent' \in [Job -> Nat] /\ unheard' \in [Job -> Nat]
        /\ file' \subseteq Job
    BY <1>1, <1>3, <2>1, <2>2, AbandonKeeps
  <2>4. stage' \in [Consumer -> Stage] /\ Stray' \subseteq Stray
    <3>1. stage[stopping] # "off"
      BY <1>3 DEF Handling
    <3> QED
      BY <1>1, <1>2, <1>3, <2>2, <3>1, ConsumerStep
  <2>5. Types'
    <3>1. UNCHANGED <<sleeping, failures>>
      BY <1>3 DEF AbandonTask
    <3> QED
      BY <1>1, <1>2, <2>3, <2>4, <3>1 DEF Types
  <2>6. MayLose = 1 /\ MayLose' = 0 /\ MayForget' = MayForget /\ MayForget \in Nat
    <3>1. stage'[stopping] = "exit"
      BY <1>1, <1>3 DEF Types
    <3> QED
      BY <1>1, <1>2, <1>3, <3>1 DEF MayLose, MayForget, Handling
  <2>7. MayLose' + stops + 1 <= MayLose + stops' /\ MayForget' + stops <= MayForget + stops'
    BY <1>1, <1>2, <2>6, OwesNoMore, OwesOneLess
  <2>8. LostFew'
    BY <1>1, <1>2, <2>3, <2>7, LostGrows
  <2>9. StrayFew'
    BY <1>1, <1>2, <2>4, <2>7, StrayKept
  <2> QED
    BY <2>3, <2>5, <2>8, <2>9 DEF IInv
<1>4. CASE /\ stage[stopping] \in {"idle", "exit"} /\ stage' = [stage EXCEPT ![stopping] = "off"]
           /\ UNCHANGED <<queueVars, hand, gate, sleeping, worldVars>>
  <2>1. "off" \in Stage /\ stage[stopping] # "off"
    BY <1>4 DEF Stage
  <2>2. stage' \in [Consumer -> Stage] /\ Stray' \subseteq Stray
    BY <1>1, <1>2, <1>4, <2>1, ConsumerStep
  <2>3. StageIdle
    BY <1>1, <1>4 DEF Types, StageIdle, Handling
  <2>4. Aside
    BY <1>1, <1>4, <2>2, <2>3, QueueAside DEF Aside, worldVars
  <2>5. Placed' /\ Hands' /\ Jobs' /\ Lost' = Lost /\ MayLose' = MayLose
    BY <1>1, <1>2, <2>4, AsideKeeps
  <2>6. Types'
    BY <1>1, <1>2, <2>2, <2>4 DEF Types, Aside
  <2>7. MayLose' <= MayLose
    BY <2>5 DEF MayLose
  <2>8. LostFew' /\ StrayFew'
    BY <1>1, <1>2, <2>2, <2>5, <2>7, CountsKept
  <2> QED
    BY <2>5, <2>6, <2>8 DEF IInv
<1> QED
  BY <1>3, <1>4 DEF CancelProcessor, Handling

---------------------------------------------------------------------------
LEMMA Step == IInv /\ [Next]_vars => IInv'
<1> SUFFICES ASSUME IInv, [Next]_vars PROVE IInv'
  OBVIOUS
<1>1. CASE UNCHANGED vars
  <2>1. UNCHANGED <<heap, sequence, pending, caller, taken, outcome, tracked, active, stopping, stops, stage, hand,
                    serviced, sleeping, file, sent, unheard, failures>>
    BY <1>1 DEF vars, queueVars, loopVars, workVars, worldVars
  <2>2. Types /\ Placed /\ Hands /\ Jobs /\ LostFew /\ StrayFew /\ Q!TypeOK
    BY DEF IInv, Types
  <2>3. Aside /\ Types'
    BY <2>1, <2>2 DEF Aside, Types, Q!TypeOK, KeepsCallers, Answers, StageIdle
  <2>4. Placed' /\ Hands' /\ Jobs' /\ Lost' = Lost /\ MayLose' = MayLose
    BY <2>1, <2>2, <2>3, AsideKeeps
  <2>5. Stray' \subseteq Stray
    BY <2>1 DEF Stray, Looping
  <2>6. MayLose' <= MayLose
    BY <2>4 DEF MayLose
  <2>7. LostFew' /\ StrayFew'
    BY <2>1, <2>2, <2>4, <2>5, <2>6, CountsKept
  <2> QED
    BY <2>3, <2>4, <2>7 DEF IInv
<1>2. ASSUME NEW c \in Consumer, Handle(c) PROVE IInv'
  BY <1>2, TakeKeeps, ReturnsKeeps, RaisesKeeps, FinishKeeps, PublishedKeeps, QuietKeeps DEF Handle
<1>3. CASE \/ \E j \in Job : Route(j)
           \/ \E a \in Attempt : Poll(a) \/ WaitTimesOut(a) \/ WakeRetry(a)
  BY <1>3, RouteKeeps, PollKeeps, WakeKeeps, QuietKeeps
<1>4. CASE StartPost \/ EndPost \/ Ensure
  BY <1>4, QuietKeeps
<1>5. CASE StopProcessor \/ CancelProcessor \/ CancelCycle \/ StopReturns
  BY <1>5, StopKeeps, CancelProcessorKeeps, CancelCycleKeeps
<1> QED
  BY <1>1, <1>2, <1>3, <1>4, <1>5 DEF Next

(* The invariant of the pipeline: the router, the processor loops, the     *)
(* cycle, the retries and the stops keep it together.                      *)
THEOREM InvariantHolds == Spec => []IInv
  BY Initially, Step, PTL DEF Spec

(* Two consumers never work on one request: however it is retried, polled  *)
(* for, cancelled or drained, one attempt of it is under way.              *)
THEOREM OneAttemptLives == Spec => []OneLiveAttempt
<1>1. IInv => OneLiveAttempt
  BY DEF IInv, Jobs
<1> QED
  BY <1>1, InvariantHolds, PTL

(* complete_task tells the operator's call "ok" only for what was sent.    *)
THEOREM AnswersSent == Spec => []AnsweredMeansSent
<1>1. IInv => AnsweredMeansSent
  BY DEF IInv, Jobs
<1> QED
  BY <1>1, InvariantHolds, PTL

(* A message is repeated, by the resends inside a handler or by            *)
(* RetryManager, only for copies whose call the handler did not hear of:   *)
(* once it has heard of one, no retry, poll, cancel or second consumer     *)
(* sends it again.                                                         *)
THEOREM RepeatsNeedLosses == Spec => []RepeatsNeedLostAnswers
<1>1. IInv => RepeatsNeedLostAnswers
  BY DEF IInv, Jobs, HeardOnce, RepeatsNeedLostAnswers
<1> QED
  BY <1>1, InvariantHolds, PTL

(* Each stop_queue_processor or cancelled cycle costs at most one task.    *)
THEOREM OneLostPerStop == Spec => []OneTaskLostPerStop
<1>1. IInv => OneTaskLostPerStop
  <2> SUFFICES ASSUME IInv PROVE OneTaskLostPerStop
    OBVIOUS
  <2>1. LostFew /\ Cardinality(Lost) \in Nat /\ stops \in Nat
    BY FS_CardinalityType, PipelineAssumption DEF IInv, LostFew, Types
  <2> QED
    BY <2>1 DEF LostFew, MayLose, OneTaskLostPerStop
<1> QED
  BY <1>1, InvariantHolds, PTL

(* ensure_queue_processor keeps one loop; only a stop that forgets a loop  *)
(* leaves one more behind.                                                 *)
THEOREM LoopsFew == Spec => []SingleProcessor
<1>1. IInv => SingleProcessor
  <2> SUFFICES ASSUME IInv PROVE SingleProcessor
    OBVIOUS
  <2>1. IsFiniteSet(Stray) /\ Cardinality(Stray) \in Nat /\ Cardinality(Stray) <= stops /\ stops \in Nat
    BY FS_CardinalityType, PipelineAssumption DEF IInv, StrayFew, MayForget, Types
  <2>2. Looping \subseteq Stray \cup {tracked}
    BY DEF Stray
  <2>3. Cardinality(Looping) <= Cardinality(Stray) + 1 /\ Cardinality(Looping) \in Nat
    BY <2>1, <2>2, OneMore, FS_CardinalityType
  <2> QED
    BY <2>1, <2>3 DEF SingleProcessor
<1> QED
  BY <1>1, InvariantHolds, PTL

---------------------------------------------------------------------------
(* The gate: who is in a handler that takes it, or posts, and nobody else, *)
(* holds it or waits for it, once.                                         *)

Wants(c) == stage[c] = "post" \/ (stage[c] = "gate" /\ Handled(hand[c][1]))
AtGate(c) == \E i \in DOMAIN gate : gate[i] = c
GateOnce == \A i, j \in DOMAIN gate : gate[i] = gate[j] => i = j
GateExact == \A c \in Consumer : AtGate(c) <=> Wants(c)
Gate == gate \in Seq(Consumer) /\ GateOnce /\ GateExact

(* A least number, for the place of a waiter.                              *)
LEMMA LessIsWellFounded ==
  \E R : IsWellFoundedOn(R, Nat) /\ \A x, y \in Nat : <<y, x>> \in R <=> y < x
<1>1. \A x, y \in Nat : <<y, x>> \in OpToRel(<, Nat) <=> y < x
  BY DEF OpToRel
<1> QED
  BY <1>1, NatLessThanWellFounded, Zenon

LEMMA MinIs ==
  ASSUME NEW T \in SUBSET Nat, T # {}
  PROVE  Min(T) \in T /\ \A m \in T : Min(T) <= m
<1>1. PICK R : IsWellFoundedOn(R, Nat) /\ \A x, y \in Nat : <<y, x>> \in R <=> y < x
  BY LessIsWellFounded, Zenon
<1>2. PICK n \in T : \A m \in T : ~(<<m, n>> \in R)
  BY <1>1, WFMin
<1>3. \A m \in T : n \in Nat /\ m \in Nat /\ ~(m < n)
  BY <1>1, <1>2
<1>4. \E x \in T : \A y \in T : x <= y
  BY <1>3
<1> QED
  BY <1>4 DEF Min

LEMMA LeaveIs ==
  ASSUME gate \in Seq(Consumer), NEW c \in Consumer
  PROVE  \/ ~AtGate(c) /\ Leave(c) = gate
         \/ \E n \in DOMAIN gate : gate[n] = c /\ Leave(c) = RemoveAt(gate, n)
<1> DEFINE I == {i \in 1 .. Len(gate) : gate[i] = c}
<1>1. DOMAIN gate = 1 .. Len(gate) /\ Len(gate) \in Nat
  OBVIOUS
<1>2. CASE ~AtGate(c)
  BY <1>1, <1>2 DEF AtGate, Leave, RemoveFirst
<1>3. CASE AtGate(c)
  <2>1. I # {} /\ I \in SUBSET Nat
    BY <1>1, <1>3 DEF AtGate
  <2>2. SelectInSeq(gate, LAMBDA v : v = c) = Min(I)
    BY <2>1 DEF SelectInSeq
  <2>3. Leave(c) = RemoveAt(gate, Min(I))
    BY <1>1, <1>3, <2>2 DEF AtGate, Leave, RemoveFirst
  <2>4. Min(I) \in I
    BY <2>1, MinIs
  <2> QED
    BY <1>1, <2>3, <2>4
<1> QED
  BY <1>2, <1>3

LEMMA RemovedIs ==
  ASSUME NEW S, NEW s \in Seq(S), NEW n \in DOMAIN s
  PROVE  LET t == RemoveAt(s, n)
         IN  /\ t \in Seq(S) /\ Len(t) = Len(s) - 1
             /\ \A k \in 1 .. Len(s) - 1 : t[k] = IF k < n THEN s[k] ELSE s[k + 1]
<1> DEFINE a == SubSeq(s, 1, n - 1)
           b == SubSeq(s, n + 1, Len(s))
           t == RemoveAt(s, n)
<1>1. n \in 1 .. Len(s) /\ Len(s) \in Nat
  OBVIOUS
<1>2. a \in Seq(S) /\ Len(a) = n - 1 /\ \A k \in 1 .. n - 1 : a[k] = s[k]
  BY <1>1
<1>3. b \in Seq(S) /\ Len(b) = Len(s) - n /\ \A k \in 1 .. Len(s) - n : b[k] = s[n + k]
  BY <1>1
<1>4. t = a \o b
  BY DEF RemoveAt
<1> HIDE DEF a, b, t
<1>5. t \in Seq(S) /\ Len(t) = Len(s) - 1
  BY <1>1, <1>2, <1>3, <1>4
<1>6. \A i \in 1 .. Len(a) + Len(b) : t[i] = IF i <= Len(a) THEN a[i] ELSE b[i - Len(a)]
  BY <1>2, <1>3, <1>4, ConcatProperties
<1>7. ASSUME NEW k \in 1 .. Len(s) - 1
      PROVE  t[k] = IF k < n THEN s[k] ELSE s[k + 1]
  <2>1. t[k] = IF k <= n - 1 THEN a[k] ELSE b[k - (n - 1)]
    BY <1>1, <1>2, <1>3, <1>6
  <2>2. CASE k < n
    BY <1>1, <1>2, <2>1, <2>2
  <2>3. CASE ~(k < n)
    <3>1. k - (n - 1) \in 1 .. Len(s) - n /\ n + (k - (n - 1)) = k + 1
      BY <1>1, <2>3
    <3> QED
      BY <1>1, <1>3, <2>1, <2>3, <3>1
  <2> QED
    BY <2>2, <2>3
<1> QED
  BY <1>5, <1>7 DEF t

(* A consumer leaves the gate: it is not there any more, the others are.   *)
LEMMA GateLeaves ==
  ASSUME Gate, NEW c \in Consumer, gate' = Leave(c), ~Wants(c)',
         \A d \in Consumer \ {c} : Wants(d)' <=> Wants(d)
  PROVE  Gate'
<1>1. gate \in Seq(Consumer) /\ DOMAIN gate = 1 .. Len(gate) /\ Len(gate) \in Nat
  BY DEF Gate
<1>2. CASE ~AtGate(c) /\ gate' = gate
  BY <1>1, <1>2 DEF Gate, GateOnce, GateExact, AtGate
<1>3. ASSUME NEW n \in DOMAIN gate, gate[n] = c, gate' = RemoveAt(gate, n)
      PROVE  Gate'
  <2> DEFINE h(k) == IF k < n THEN k ELSE k + 1
  <2>1. /\ gate' \in Seq(Consumer) /\ Len(gate') = Len(gate) - 1
        /\ \A k \in 1 .. Len(gate) - 1 : gate'[k] = IF k < n THEN gate[k] ELSE gate[k + 1]
    BY <1>1, <1>3, RemovedIs
  <2>2. DOMAIN gate' = 1 .. Len(gate) - 1
    BY <2>1
  <2>3. \A k \in DOMAIN gate' : h(k) \in DOMAIN gate /\ h(k) # n /\ gate'[k] = gate[h(k)]
    BY <1>1, <1>3, <2>1, <2>2
  <2>4. \A j, k \in DOMAIN gate' : h(j) = h(k) => j = k
    BY <1>1, <1>3, <2>2
  <2>5. \A i \in DOMAIN gate \ {n} : \E k \in DOMAIN gate' : h(k) = i
    <3> TAKE i \in DOMAIN gate \ {n}
    <3>1. CASE i < n
      BY <1>1, <1>3, <2>2, <3>1
    <3>2. CASE ~(i < n)
      <4>1. i - 1 \in DOMAIN gate' /\ h(i - 1) = i
        BY <1>1, <1>3, <2>2, <3>2
      <4> QED
        BY <4>1
    <3> QED
      BY <3>1, <3>2
  <2> HIDE DEF h
  <2>6. GateOnce'
    BY <2>3, <2>4 DEF Gate, GateOnce
  <2>7. \A d \in Consumer \ {c} : AtGate(d)' <=> AtGate(d)
    BY <1>3, <2>3, <2>5 DEF AtGate
  <2>8. ~AtGate(c)'
    BY <1>3, <2>3 DEF AtGate, Gate, GateOnce
  <2> QED
    BY <2>1, <2>6, <2>7, <2>8 DEF Gate, GateExact
<1> QED
  BY <1>1, <1>2, <1>3, LeaveIs

LEMMA GateEnters ==
  ASSUME Gate, NEW c \in Consumer, gate' = Append(gate, c), ~Wants(c), Wants(c)',
         \A d \in Consumer \ {c} : Wants(d)' <=> Wants(d)
  PROVE  Gate'
<1>1. gate \in Seq(Consumer) /\ DOMAIN gate = 1 .. Len(gate) /\ Len(gate) \in Nat
  BY DEF Gate
<1>2. /\ gate' \in Seq(Consumer) /\ DOMAIN gate' = 1 .. Len(gate) + 1 /\ gate'[Len(gate) + 1] = c
      /\ \A k \in DOMAIN gate : gate'[k] = gate[k]
  BY <1>1
<1>3. \A k \in DOMAIN gate : gate[k] # c
  BY DEF Gate, GateExact, AtGate
<1>4. GateOnce'
  BY <1>1, <1>2, <1>3 DEF Gate, GateOnce
<1>5. AtGate(c)' /\ \A d \in Consumer \ {c} : AtGate(d)' <=> AtGate(d)
  BY <1>1, <1>2 DEF AtGate
<1> QED
  BY <1>2, <1>4, <1>5 DEF Gate, GateExact

LEMMA GateStays ==
  ASSUME Gate, gate' = gate, \A d \in Consumer : Wants(d)' <=> Wants(d)
  PROVE  Gate'
  BY DEF Gate, GateOnce, GateExact, AtGate

(* Where consumers go that do not want the gate.                           *)
LEMMA WantsIs ==
  ASSUME Types, NEW c \in Consumer, \A d \in Consumer \ {c} : stage'[d] = stage[d] /\ hand'[d] = hand[d]
  PROVE  /\ \A d \in Consumer \ {c} : Wants(d)' <=> Wants(d)
         /\ stage'[c] \notin {"gate", "post"} => ~Wants(c)'
  BY DEF Wants

LEMMA EnsureGate ==
  ASSUME Types, Gate, EnsureProcessor, UNCHANGED <<hand, gate>>
  PROVE  Gate'
<1>1. CASE LoopAlive
  BY <1>1, GateStays DEF EnsureProcessor, Wants
<1>2. CASE ~LoopAlive
  <2>1. PICK p \in Processor : stage[p] = "off" /\ stage' = [stage EXCEPT ![p] = "idle"]
    BY <1>2 DEF EnsureProcessor
  <2>2. \A d \in Consumer : Wants(d)' <=> Wants(d)
    BY <2>1 DEF Wants, Types, Consumer
  <2> QED
    BY <2>2, GateStays
<1> QED
  BY <1>1, <1>2

LEMMA NextTaskWants ==
  ASSUME Types, NEW c \in Consumer, NextTask(c)
  PROVE  ~Wants(c)' /\ \A d \in Consumer \ {c} : Wants(d)' <=> Wants(d)
<1>1. \E s \in {"idle", "off", "rest"} : stage' = [stage EXCEPT ![c] = s]
  BY DEF NextTask
<1>2. hand' = [hand EXCEPT ![c] = None]
  BY DEF NextTask
<1>3. stage'[c] \in {"idle", "off", "rest"} /\ \A d \in Consumer \ {c} : stage'[d] = stage[d] /\ hand'[d] = hand[d]
  BY <1>1, <1>2 DEF Types
<1> QED
  BY <1>3, WantsIs

LEMMA HandleGate ==
  ASSUME IInv, Gate, NEW c \in Consumer, Handle(c)
  PROVE  Gate'
<1>0. Types
  BY DEF IInv
<1>1. CASE TakeTask(c)
  <2>1. PICK a \in Attempt : /\ hand' = [hand EXCEPT ![c] = a]
                             /\ gate' = IF Handled(a[1]) THEN Append(gate, c) ELSE gate
    BY <1>1 DEF TakeTask
  <2>2. stage[c] = "idle" /\ stage' = [stage EXCEPT ![c] = "gate"]
    BY <1>1 DEF TakeTask
  <2>3. /\ stage'[c] = "gate" /\ hand'[c] = a
        /\ \A d \in Consumer \ {c} : stage'[d] = stage[d] /\ hand'[d] = hand[d]
    BY <1>0, <2>1, <2>2 DEF Types
  <2>4. ~Wants(c) /\ (Wants(c)' <=> Handled(a[1])) /\ \A d \in Consumer \ {c} : Wants(d)' <=> Wants(d)
    BY <1>0, <2>2, <2>3, WantsIs DEF Wants, Handled
  <2>5. CASE Handled(a[1])
    BY <2>1, <2>4, <2>5, GateEnters
  <2>6. CASE ~Handled(a[1])
    <3>1. \A d \in Consumer : Wants(d)' <=> Wants(d)
      BY <2>4, <2>6
    <3> QED
      BY <2>1, <2>6, <3>1, GateStays
  <2> QED
    BY <2>5, <2>6
<1>2. CASE HandlerReturns(c)
  <2>1. gate' = Leave(c) /\ stage' = [stage EXCEPT ![c] = "finish"] /\ hand' = hand
    BY <1>2 DEF HandlerReturns
  <2>2. ~Wants(c)' /\ \A d \in Consumer \ {c} : Wants(d)' <=> Wants(d)
    BY <1>0, <2>1 DEF Types, Wants
  <2> QED
    BY <2>1, <2>2, GateLeaves
<1>3. CASE HandlerRaises(c)
  <2>1. gate' = Leave(c) /\ (NextTask(c) \/ (stage' = [stage EXCEPT ![c] = "retry"] /\ hand' = hand))
    BY <1>3 DEF HandlerRaises
  <2>2. ~Wants(c)' /\ \A d \in Consumer \ {c} : Wants(d)' <=> Wants(d)
    <3>1. CASE NextTask(c)
      BY <1>0, <3>1, NextTaskWants
    <3>2. CASE stage' = [stage EXCEPT ![c] = "retry"] /\ hand' = hand
      BY <1>0, <3>2 DEF Types, Wants
    <3> QED
      BY <2>1, <3>1, <3>2
  <2> QED
    BY <2>1, <2>2, GateLeaves
<1>4. CASE FinishTask(c) \/ FailurePublished(c)
  <2>1. stage[c] \in {"finish", "retry"} /\ NextTask(c) /\ gate' = gate
    BY <1>4 DEF FinishTask, FailurePublished
  <2>2. ~Wants(c) /\ ~Wants(c)' /\ \A d \in Consumer \ {c} : Wants(d)' <=> Wants(d)
    BY <1>0, <2>1, NextTaskWants DEF Wants
  <2> QED
    BY <2>1, <2>2, GateStays
<1>5. CASE FindsNothing(c)
  <2>1. /\ stage[c] = "idle" /\ gate' = gate /\ hand' = hand
        /\ \E s \in {"rest", "off"} : stage' = [stage EXCEPT ![c] = s]
    BY <1>5 DEF FindsNothing
  <2>2. \A d \in Consumer : Wants(d)' <=> Wants(d)
    BY <1>0, <2>1 DEF Types, Wants
  <2> QED
    BY <2>1, <2>2, GateStays
<1> QED
  BY <1>1, <1>2, <1>3, <1>4, <1>5 DEF Handle

(* A consumer that is cancelled, and the cycle's own posts.                *)
LEMMA CancelGate ==
  ASSUME IInv, Gate, CancelProcessor \/ CancelCycle \/ StartPost \/ EndPost
  PROVE  Gate'
<1>0. Types
  BY DEF IInv
<1>c. Cycle \in Consumer
  BY DEF Consumer
<1>1. CASE CancelProcessor
  <2>1. PICK p \in Consumer : p = stopping
    BY <1>0, <1>1 DEF Types, Consumer, CancelProcessor
  <2>2. CASE stage' = [stage EXCEPT ![p] = "exit"] /\ AbandonTask(p)
    <3>1. gate' = Leave(p) /\ hand' = [hand EXCEPT ![p] = None]
      BY <2>2 DEF AbandonTask
    <3>2. ~Wants(p)' /\ \A d \in Consumer \ {p} : Wants(d)' <=> Wants(d)
      BY <1>0, <2>1, <2>2, <3>1 DEF Types, Wants
    <3> QED
      BY <2>1, <3>1, <3>2, GateLeaves
  <2>3. CASE stage[p] \in {"idle", "exit"} /\ stage' = [stage EXCEPT ![p] = "off"] /\ UNCHANGED <<hand, gate>>
    <3>1. \A d \in Consumer : Wants(d)' <=> Wants(d)
      BY <1>0, <2>1, <2>3 DEF Types, Wants
    <3> QED
      BY <2>3, <3>1, GateStays
  <2> QED
    BY <1>1, <2>1, <2>2, <2>3 DEF CancelProcessor
<1>2. CASE CancelCycle
  <2>1. gate' = Leave(Cycle) /\ hand' = [hand EXCEPT ![Cycle] = None] /\ stage' = [stage EXCEPT ![Cycle] = "rest"]
    BY <1>2 DEF CancelCycle, AbandonTask
  <2>2. ~Wants(Cycle)' /\ \A d \in Consumer \ {Cycle} : Wants(d)' <=> Wants(d)
    BY <1>0, <1>c, <2>1 DEF Types, Wants
  <2> QED
    BY <1>c, <2>1, <2>2, GateLeaves
<1>3. CASE StartPost
  <2>1. stage[Cycle] = "rest" /\ stage' = [stage EXCEPT ![Cycle] = "post"] /\ gate' = Append(gate, Cycle) /\ hand' = hand
    BY <1>3 DEF StartPost
  <2>2. ~Wants(Cycle) /\ Wants(Cycle)' /\ \A d \in Consumer \ {Cycle} : Wants(d)' <=> Wants(d)
    BY <1>0, <1>c, <2>1 DEF Types, Wants
  <2> QED
    BY <1>c, <2>1, <2>2, GateEnters
<1>4. CASE EndPost
  <2>1. /\ gate' = Leave(Cycle) /\ hand' = hand
        /\ \E s \in {"rest", "idle"} : stage' = [stage EXCEPT ![Cycle] = s]
    BY <1>4 DEF EndPost
  <2>2. ~Wants(Cycle)' /\ \A d \in Consumer \ {Cycle} : Wants(d)' <=> Wants(d)
    BY <1>0, <1>c, <2>1 DEF Types, Wants
  <2> QED
    BY <1>c, <2>1, <2>2, GateLeaves
<1> QED
  BY <1>1, <1>2, <1>3, <1>4

LEMMA GateStep == IInv /\ Gate /\ [Next]_vars => Gate'
<1> SUFFICES ASSUME IInv, Gate, [Next]_vars PROVE Gate'
  OBVIOUS
<1>1. CASE \/ UNCHANGED vars \/ StopProcessor \/ StopReturns
           \/ \E a \in Attempt : Poll(a) \/ WaitTimesOut(a)
  <2>1. UNCHANGED <<gate, stage, hand>>
    BY <1>1 DEF vars, workVars, StopProcessor, StopReturns, Poll, WaitTimesOut
  <2> QED
    BY <2>1, GateStays DEF Wants
<1>2. CASE \/ Ensure \/ \E j \in Job : Route(j)
           \/ \E a \in Attempt : WakeRetry(a)
  <2>1. EnsureProcessor /\ UNCHANGED <<hand, gate>>
    BY <1>2 DEF Ensure, Route, WakeRetry
  <2> QED
    BY <2>1, EnsureGate DEF IInv
<1> QED
  BY <1>1, <1>2, HandleGate, CancelGate DEF Next

LEMMA GateHolds == Spec => []Gate
<1>1. Init => Gate
  <2> SUFFICES ASSUME Init PROVE Gate
    OBVIOUS
  <2>1. gate = <<>> /\ \A c \in Consumer : stage[c] \in {"rest", "off"}
    BY DEF Init
  <2> QED
    BY <2>1 DEF Gate, GateOnce, GateExact, AtGate, Wants
<1> QED
  BY <1>1, GateStep, InvariantHolds, PTL DEF Spec

(* The types of the pipeline, its gate among them.                         *)
THEOREM TypeCorrect == Spec => []TypeOK
<1>1. IInv /\ Gate => TypeOK
  BY DEF IInv, Types, Gate, TypeOK
<1> QED
  BY <1>1, InvariantHolds, GateHolds, PTL

(* _execution_gate is never left behind: whoever holds it or waits for it  *)
(* is in a handler that sends, or posts, however loops and cycles are      *)
(* cancelled; and such a consumer is in its queue once.                    *)
GateNotLeaked == GateOnce /\ GateExact
THEOREM GateIsReleased == Spec => []GateNotLeaked
<1>1. Gate => GateNotLeaked
  BY DEF Gate, GateNotLeaked
<1> QED
  BY <1>1, GateHolds, PTL

---------------------------------------------------------------------------
(* The pipeline drives its queue as AccountQueue says, so what is proved   *)
(* of that module holds of it.                                             *)

LEMMA QueueStep == IInv /\ [Next]_vars => [Q!Next]_(Q!queueVars)
<1> SUFFICES ASSUME IInv, Next PROVE Q!Next \/ UNCHANGED queueVars
  BY DEF vars, queueVars, Q!queueVars
<1>1. CASE \E j \in Job : Route(j)
  BY <1>1, FirstIs DEF Route, Q!Next
<1>2. CASE \E a \in Attempt : Poll(a) \/ WaitTimesOut(a)
  BY <1>2 DEF Poll, WaitTimesOut, Q!Next
<1>3. ASSUME NEW a \in Attempt, WakeRetry(a) PROVE Q!Next
  <2>1. <<a[1], a[2] + 1>> \in Attempt
    BY <1>3, AttemptIs DEF IInv, Placed, WakeRetry
  <2> QED
    BY <1>3, <2>1 DEF WakeRetry, Q!Next
<1>4. ASSUME NEW c \in Consumer, Handle(c) PROVE Q!Next \/ UNCHANGED queueVars
  <2>1. stage[c] \in Handling => hand[c] \in Attempt
    BY HandIs DEF IInv
  <2>2. CASE TakeTask(c)
    BY <2>2 DEF TakeTask, Q!Next
  <2>3. CASE HandlerRaises(c)
    BY <2>1, <2>3 DEF HandlerRaises, TellFailure, Q!Next, Handling
  <2>4. CASE FinishTask(c)
    BY <2>1, <2>4 DEF FinishTask, Q!Next, Handling
  <2> QED
    BY <1>4, <2>2, <2>3, <2>4 DEF Handle, HandlerReturns, FailurePublished, FindsNothing
<1>5. CASE StartPost \/ EndPost \/ StopProcessor \/ CancelProcessor \/ CancelCycle \/ StopReturns \/ Ensure
  BY <1>5 DEF StartPost, EndPost, StopProcessor, CancelProcessor, CancelCycle, StopReturns, Ensure, AfterStop,
    AbandonTask, Q!Next
<1> QED
  BY <1>1, <1>2, <1>3, <1>4, <1>5 DEF Next

(* Routes, polls, retries, consumers and stops do with the queue only what *)
(* AccountQueue lets its callers and consumers do: a retry is a task that  *)
(* was not put before, and a task is completed by the consumer that took   *)
(* it.                                                                     *)
THEOREM ImplementsQueue == Spec => Q!Spec
<1>1. Init => Q!Init
  BY DEF Init
<1> QED
  BY <1>1, QueueStep, InvariantHolds, PTL DEF Spec, Q!Spec

QP == INSTANCE AccountQueue_proofs WITH
        Task <- Attempt, MaxSize <- QueueSize, policy <- "delay",
        Priority <- AttemptPriority,
        WaitResult <- Operator \X (0 .. MaxAttempts),
        Awaited <- Operator \X {0},
        AutoReply <- {a \in Attempt : Kind[a[1]] = "auto" /\ a[2] = 0},
        Manual <- {j \in Job : Kind[j] \in {"dm", "media"}} \X {0},
        Chat <- [a \in Attempt |-> JobChat[a[1]]],
        MaxSequence <- 0

LEMMA QueueAssumptions == QP!QueueAssumption /\ QP!WaitedIsUrgent
<1>1. /\ {a \in Attempt : Kind[a[1]] = "auto" /\ a[2] = 0} \subseteq Attempt
      /\ {j \in Job : Kind[j] \in {"dm", "media"}} \X {0} \subseteq Attempt
      /\ 0 \in Nat
  BY PipelineAssumption DEF Attempt
<1> QED
  BY <1>1, QueueAssumptionHolds DEF QP!QueueAssumption, QP!WaitedIsUrgent, QP!RETRY, QP!LOW, QP!HIGH, Q!RETRY, Q!LOW, Q!HIGH

LEMMA SameQueue ==
  /\ Q!Init <=> QP!Init
  /\ Q!Next <=> QP!Next
  /\ Q!queueVars = QP!queueVars
<1>1. Q!Init <=> QP!Init
  BY DEF Q!Init, QP!Init, Q!Policies, QP!Policies
<1>2. Q!queueVars = QP!queueVars
  BY DEF Q!queueVars, QP!queueVars
<1>3. Q!Next <=> QP!Next
  BY DEF Q!Next, Q!Put, Q!Accept, Q!AcceptEvicting, Q!StartPolling, Q!GiveUpPolling, Q!Reject, Q!Take, Q!PutBack,
    Q!Complete, Q!WaitTimesOut, Q!Drain, Q!Room, Q!Remaining, Q!Dropped, Q!Queued, Q!Enqueue, Q!NewEntry, Q!Registered,
    Q!Mark, Q!Settle, Q!AfterPut, Q!Evictable, Q!NoRoom, Q!Best, Q!Before, Q!Resolve, Q!HIGH, Q!Cardinality,
    QP!Next, QP!Put, QP!Accept, QP!AcceptEvicting, QP!StartPolling, QP!GiveUpPolling, QP!Reject, QP!Take, QP!PutBack,
    QP!Complete, QP!WaitTimesOut, QP!Drain, QP!Room, QP!Remaining, QP!Dropped, QP!Queued, QP!Enqueue, QP!NewEntry,
    QP!Registered, QP!Mark, QP!Settle, QP!AfterPut, QP!Evictable, QP!NoRoom, QP!Best, QP!Before, QP!Resolve, QP!HIGH,
    QP!Cardinality
<1> QED
  BY <1>1, <1>2, <1>3

LEMMA DrivesQueue == Spec => QP!Spec
<1>1. Init => QP!Init
  BY SameQueue DEF Init
<1>2. IInv /\ [Next]_vars => [QP!Next]_(QP!queueVars)
  <2>1. QP!queueVars' = Q!queueVars'
    BY DEF QP!queueVars, Q!queueVars
  <2>2. [Q!Next]_(Q!queueVars) => [QP!Next]_(QP!queueVars)
    BY <2>1, SameQueue
  <2> QED
    BY <2>2, QueueStep
<1> QED
  BY <1>1, <1>2, InvariantHolds, PTL DEF Spec, QP!Spec

(* With retries, stops and two consumers at work the queue stays within    *)
(* MAX_QUEUE_SIZE, no future is left in _pending, and a call is told what  *)
(* became of its task.  The task of a call in wait_for_task is queued or   *)
(* in a consumer's hands, unless it is one of those that a stop or a       *)
(* cancel lost, at most one each: such a call hears of its timeout only.   *)
WaiterKept ==
  /\ \A a \in Attempt : caller[a] = "waiting" => Q!Queued(a) \/ InHand(a) \/ a \in Lost
  /\ OneTaskLostPerStop
QueuePromises == Q!DepthBounded /\ WaiterKept /\ Q!NoLeakedFuture /\ Q!AnswerIsTrue
THEOREM QueueKeepsPromises == Spec => []QueuePromises
<1>1. QP!Spec => []QP!DepthBounded /\ []QP!WaiterCovered /\ []QP!NoLeakedFuture /\ []QP!AnswerIsTrue
  BY QueueAssumptions, QP!DepthStaysBounded, QP!WaitersCovered, QP!FuturesAccounted, QP!AnswersTrue, PTL
<1>2. QP!WaiterCovered /\ OneTaskLostPerStop => WaiterKept
  BY DEF WaiterKept, Lost, Q!Queued, QP!WaiterCovered, QP!Queued
<1>3. QP!DepthBounded /\ WaiterKept /\ QP!NoLeakedFuture /\ QP!AnswerIsTrue => QueuePromises
  BY DEF QueuePromises, Q!DepthBounded, Q!Depth, Q!Cardinality, QP!Cardinality, Q!NoLeakedFuture, Q!AnswerIsTrue, Q!Queued,
    QP!DepthBounded, QP!Depth, QP!NoLeakedFuture, QP!AnswerIsTrue, QP!Queued
<1> QED
  BY <1>1, <1>2, <1>3, DrivesQueue, OneLostPerStop, PTL

(* So the attempts of requests are a ledger of work: each is handed to one *)
(* consumer once, and never again after it is over.                        *)
THEOREM ImplementsLedger == Spec => QP!LedgerSpec
  BY QueueAssumptions, DrivesQueue, QP!ImplementsLedger, PTL

=============================================================================
