------------------------ MODULE CrossProjectOutbox_proofs ------------------------
(***************************************************************************)
(* For every set of events, number of attempts, size of the file and kind  *)
(* of fault: the safety properties of the outbox and its two dispatchers.  *)
(***************************************************************************)
EXTENDS CrossProjectOutbox, TLAPS

(* The dispatchers that may still record an attempt of an event.           *)
Claim(d, k) == IF k \in todo[d] THEN 1 ELSE 0
Claims(k) == Claim("inline", k) + Claim("loop", k)

(* A dispatcher that has an answer still holds the event it is about.      *)
AnswerHeld ==
  \A d \in Dispatcher :
    stage[d] \in {"delivered", "odd", "failed"} => current[d] \in todo[d]

(* A positive answer is about an event the peer took in.                   *)
AnswerAccepted ==
  \A d \in Dispatcher : stage[d] \in {"delivered", "odd"} => current[d] \in accepted

(* An event that is not pending gets no new claims, so the attempts it was *)
(* charged and those still to be charged stay within one of the limit.     *)
Budget ==
  \A k \in Key :
    /\ StatusOf(k) = "pending" => outbox.row[k].attempts < MaxAttempts
    /\ StatusOf(k) # "pending" => outbox.row[k].attempts + Claims(k) <= MaxAttempts + 1

IInv ==
  /\ TypeOK
  /\ AnswerHeld
  /\ AnswerAccepted
  /\ DeliveredWasAccepted
  /\ Budget

---------------------------------------------------------------------------
(* What the functions of the outbox return.                                *)

LEMMA EmptyType == Empty \in File
  BY DEF File, Empty, NoRow, Row, Status

LEMMA LoadedType ==
  ASSUME TypeOK, NEW b \in Loaded
  PROVE  /\ b \in File
         /\ b = outbox \/ b = Empty
  BY EmptyType DEF TypeOK, Loaded

LEMMA WithRowIs ==
  ASSUME NEW b \in File,
         NEW k \in Key, NEW r \in Row
  PROVE  /\ WithRow(b, k, r) \in File
         /\ WithRow(b, k, r).row[k] = r
         /\ \A x \in Key \ {k} : WithRow(b, k, r).row[x] = b.row[x]
  BY DEF WithRow, File

(* A new row is pending and not charged; rows leave, none changes.         *)
LEMMA AddIs ==
  ASSUME NEW b \in File, NEW k \in Key
  PROVE  /\ Add(b, k) \in File
         /\ Add(b, k).row[k].status = "pending" /\ Add(b, k).row[k].attempts = 0
         /\ \A x \in Key \ {k} : Add(b, k).row[x] \in {NoRow, b.row[x]}
<1>1. [status |-> "pending", attempts |-> 0, ready |-> TRUE] \in Row /\ NoRow \in Row
  BY DEF Row, NoRow, Status
<1>2. ASSUME NEW gone
      PROVE  [x \in Key |->
                IF x = k THEN [status |-> "pending", attempts |-> 0, ready |-> TRUE]
                ELSE IF x \in gone THEN NoRow ELSE b.row[x]] \in [Key -> Row]
  BY <1>1 DEF File
<1>3. CASE Len(b.order) < MaxRows
  <2>1. Append(b.order, k) \in Seq(Key)
    BY DEF File
  <2> QED
    BY <1>2, <1>3, <2>1 DEF Add, File
<1>4. CASE ~(Len(b.order) < MaxRows)
  <2>1. b.order # <<>>
    BY <1>4, OutboxAssumption DEF File
  <2>2. Append(Tail(b.order), k) \in Seq(Key)
    BY <2>1 DEF File
  <2> QED
    BY <1>2, <1>4, <2>2 DEF Add, File
<1> QED
  BY <1>3, <1>4

LEMMA RowIs ==
  ASSUME NEW b \in File, NEW k \in Key
  PROVE  b.row[k] \in Row /\ b.row[k].attempts \in Nat /\ b.row[k].attempts + 1 \in Nat
<1>1. b.row[k] \in Row
  BY DEF File
<1>2. \A r \in Row : r.attempts \in Nat
  BY DEF Row
<1> QED
  BY <1>1, <1>2

(* mark_delivered changes the status of a row that is there.               *)
LEMMA MarkDeliveredIs ==
  ASSUME NEW b \in File, NEW k \in Key
  PROVE  /\ MarkDelivered(b, k) \in File
         /\ MarkDelivered(b, k).row[k].attempts = b.row[k].attempts
         /\ b.row[k].status = "none" => MarkDelivered(b, k).row[k].status = "none"
         /\ b.row[k].status # "none" => MarkDelivered(b, k).row[k].status = "delivered"
         /\ \A x \in Key \ {k} : MarkDelivered(b, k).row[x] = b.row[x]
<1> DEFINE r == [b.row[k] EXCEPT !.status = "delivered"]
<1>1. r \in Row /\ r.status = "delivered" /\ r.attempts = b.row[k].attempts
  BY RowIs DEF Row, Status
<1>2. CASE b.row[k].status = "none"
  BY <1>2 DEF MarkDelivered
<1>3. CASE b.row[k].status # "none"
  <2>1. MarkDelivered(b, k) = WithRow(b, k, r)
    BY <1>3 DEF MarkDelivered
  <2> HIDE DEF r
  <2> QED
    BY <1>1, <1>3, <2>1, WithRowIs
<1> QED
  BY <1>2, <1>3

(* mark_failed charges an attempt to a row that is there; only a row that  *)
(* runs out of attempts changes its status.                                *)
LEMMA MarkFailedIs ==
  ASSUME NEW b \in File, NEW k \in Key
  PROVE  /\ MarkFailed(b, k) \in File
         /\ b.row[k].status = "none" => MarkFailed(b, k).row[k] = b.row[k]
         /\ b.row[k].status # "none" =>
              /\ MarkFailed(b, k).row[k].attempts = b.row[k].attempts + 1
              /\ MarkFailed(b, k).row[k].status =
                   IF b.row[k].attempts + 1 >= MaxAttempts THEN "dead"
                   ELSE b.row[k].status
         /\ \A x \in Key \ {k} : MarkFailed(b, k).row[x] = b.row[x]
<1> DEFINE n == b.row[k].attempts + 1
           dead == [b.row[k] EXCEPT !.attempts = n, !.status = "dead"]
           late == [b.row[k] EXCEPT !.attempts = n, !.ready = FALSE]
<1>0. b.row[k] \in Row /\ n \in Nat
  BY RowIs
<1>1. dead \in Row /\ dead.attempts = n /\ dead.status = "dead"
  BY <1>0 DEF Row, Status
<1>2. late \in Row /\ late.attempts = n /\ late.status = b.row[k].status
  BY <1>0 DEF Row, Status
<1>3. CASE b.row[k].status = "none"
  BY <1>3 DEF MarkFailed
<1>4. CASE b.row[k].status # "none" /\ n >= MaxAttempts
  <2>1. MarkFailed(b, k) = WithRow(b, k, dead)
    BY <1>4 DEF MarkFailed
  <2> HIDE DEF dead
  <2> QED
    BY <1>1, <1>4, <2>1, WithRowIs
<1>5. CASE b.row[k].status # "none" /\ ~(n >= MaxAttempts)
  <2>1. MarkFailed(b, k) = WithRow(b, k, late)
    BY <1>5 DEF MarkFailed
  <2> HIDE DEF late
  <2> QED
    BY <1>2, <1>5, <2>1, WithRowIs
<1> QED
  BY <1>3, <1>4, <1>5

(* due returns pending events only.                                        *)
LEMMA DueIs ==
  ASSUME NEW b \in File
  PROVE  Due(b) \subseteq {k \in Key : b.row[k].status = "pending"}
<1>1. \A i \in DOMAIN b.order : b.order[i] \in Key
  BY DEF File
<1>2. \A k \in Due(b) : \E i \in DOMAIN b.order : k = b.order[i] /\ Ready(b, i)
  BY DEF Due
<1> QED
  BY <1>1, <1>2 DEF Ready

LEMMA RecordedType ==
  ASSUME NEW b \in File, NEW d \in Dispatcher, current[d] \in Key
  PROVE  Recorded(b, d) \in File
  BY MarkDeliveredIs, MarkFailedIs DEF Recorded

---------------------------------------------------------------------------
(* Types.                                                                  *)

LEMMA TypeInit == Init => TypeOK
<1>1. (CHOOSE k \in Key : TRUE) \in Key
  BY OutboxAssumption
<1> QED
  BY <1>1, EmptyType, OutboxAssumption DEF Init, TypeOK, Stage, Dispatcher

LEMMA EscapeType ==
  ASSUME TypeOK, NEW d \in Dispatcher, Escape(d)
  PROVE  stage' \in [Dispatcher -> Stage] /\ todo' \in [Dispatcher -> SUBSET Key]
  BY DEF TypeOK, Escape, Goto, Stage

LEMMA NextPostType ==
  ASSUME TypeOK, NEW d \in Dispatcher, NextPost(d)
  PROVE  stage' \in [Dispatcher -> Stage] /\ todo' \in [Dispatcher -> SUBSET Key]
  BY DEF TypeOK, NextPost, Goto, Stage

LEMMA TypeStep == TypeOK /\ [Next]_vars => TypeOK'
<1> SUFFICES ASSUME TypeOK, [Next]_vars PROVE TypeOK'
  OBVIOUS
<1>1. ASSUME NEW k \in Key, Emit(k) PROVE TypeOK'
  <2>1. outbox' \in File
    BY <1>1, LoadedType, AddIs DEF Emit, TypeOK
  <2>2. stage' \in [Dispatcher -> Stage]
    BY <1>1 DEF Emit, TypeOK, Goto, Stage
  <2> QED
    BY <1>1, <2>1, <2>2 DEF Emit, TypeOK
<1>2. ASSUME NEW k \in Key, BackoffEnds(k) PROVE TypeOK'
  <2>1. [outbox.row[k] EXCEPT !.ready = TRUE] \in Row
    BY RowIs DEF TypeOK, Row
  <2>2. outbox' \in File
    BY <1>2, <2>1, WithRowIs DEF BackoffEnds, TypeOK
  <2> QED
    BY <1>2, <2>2 DEF BackoffEnds, TypeOK
<1>3. ASSUME WakeLoop PROVE TypeOK'
  BY <1>3 DEF WakeLoop, TypeOK, Goto, Stage
<1>4. ASSUME NEW d \in Dispatcher, TakeDue(d) PROVE TypeOK'
  <2>1. \A b \in Loaded : Due(b) \subseteq Key
    BY LoadedType, DueIs
  <2>2. todo' \in [Dispatcher -> SUBSET Key]
    BY <1>4, <2>1 DEF TakeDue, TypeOK
  <2>3. stage' \in [Dispatcher -> Stage]
    BY <1>4 DEF TakeDue, TypeOK, Goto, Stage
  <2> QED
    BY <1>4, <2>2, <2>3 DEF TakeDue, TypeOK
<1>5. ASSUME NEW d \in Dispatcher, NEW k \in Key, Post(d, k) PROVE TypeOK'
  BY <1>5 DEF Post, TypeOK, Goto, Stage
<1>6. ASSUME NEW d \in Dispatcher, Record(d) PROVE TypeOK'
  <2>1. outbox' \in File
    BY <1>6, LoadedType, RecordedType DEF Record, TypeOK
  <2>2. Escape(d) \/ NextPost(d)
    BY <1>6 DEF Record
  <2> QED
    BY <1>6, <2>1, <2>2, EscapeType, NextPostType DEF Record, TypeOK
<1>7. ASSUME Restart PROVE TypeOK'
  BY <1>7, OutboxAssumption DEF Restart, TypeOK, Stage
<1>8. ASSUME UNCHANGED vars PROVE TypeOK'
  BY <1>8 DEF vars, TypeOK
<1> QED
  BY <1>1, <1>2, <1>3, <1>4, <1>5, <1>6, <1>7, <1>8 DEF Next, Dispatch

---------------------------------------------------------------------------
(* Answers.                                                                *)

LEMMA AnswersStep ==
  TypeOK /\ AnswerHeld /\ AnswerAccepted /\ [Next]_vars => AnswerHeld' /\ AnswerAccepted'
<1> SUFFICES ASSUME TypeOK, AnswerHeld, AnswerAccepted, [Next]_vars
             PROVE  AnswerHeld' /\ AnswerAccepted'
  OBVIOUS
<1> USE DEF AnswerHeld, AnswerAccepted
<1>1. ASSUME NEW k \in Key, Emit(k) PROVE AnswerHeld' /\ AnswerAccepted'
  BY <1>1 DEF Emit, Goto, TypeOK
<1>2. ASSUME NEW k \in Key, BackoffEnds(k) PROVE AnswerHeld' /\ AnswerAccepted'
  BY <1>2 DEF BackoffEnds
<1>3. ASSUME WakeLoop PROVE AnswerHeld' /\ AnswerAccepted'
  BY <1>3 DEF WakeLoop, Goto, TypeOK
<1>4. ASSUME NEW d \in Dispatcher, TakeDue(d) PROVE AnswerHeld' /\ AnswerAccepted'
  BY <1>4 DEF TakeDue, Goto, TypeOK
<1>5. ASSUME NEW d \in Dispatcher, NEW k \in Key, Post(d, k)
      PROVE  AnswerHeld' /\ AnswerAccepted'
  BY <1>5 DEF Post, Goto, TypeOK
<1>6. ASSUME NEW d \in Dispatcher, Record(d) PROVE AnswerHeld' /\ AnswerAccepted'
  <2>1. Escape(d) \/ NextPost(d)
    BY <1>6 DEF Record
  <2>2. stage'[d] \in {"idle", "ended", "posting"}
    BY <2>1 DEF Escape, NextPost, Goto, TypeOK
  <2>3. \A e \in Dispatcher \ {d} : stage'[e] = stage[e] /\ todo'[e] = todo[e]
    BY <2>1 DEF Escape, NextPost, Goto, TypeOK
  <2> QED
    BY <1>6, <2>2, <2>3 DEF Record
<1>7. ASSUME Restart PROVE AnswerHeld' /\ AnswerAccepted'
  BY <1>7 DEF Restart
<1>8. ASSUME UNCHANGED vars PROVE AnswerHeld' /\ AnswerAccepted'
  BY <1>8 DEF vars
<1> QED
  BY <1>1, <1>2, <1>3, <1>4, <1>5, <1>6, <1>7, <1>8 DEF Next, Dispatch

---------------------------------------------------------------------------
(* The budget.                                                             *)

LEMMA ClaimsType == ASSUME NEW k PROVE Claims(k) \in {0, 1, 2}
  BY DEF Claims, Claim

(* What a dispatcher drops it no longer claims.                            *)
LEMMA DropClaims ==
  ASSUME TypeOK, NEW d \in Dispatcher, Escape(d) \/ NextPost(d), current[d] \in todo[d]
  PROVE  \A k \in Key : /\ Claims(k)' <= Claims(k)
                        /\ k = current[d] => Claims(k)' = Claims(k) - 1
<1>1. todo'[d] \subseteq todo[d] /\ current[d] \notin todo'[d]
  BY DEF Escape, NextPost, TypeOK
<1>2. \A e \in Dispatcher \ {d} : todo'[e] = todo[e]
  BY DEF Escape, NextPost, TypeOK
<1>3. CASE d = "inline"
  <2>1. todo'["inline"] \subseteq todo["inline"] /\ todo'["loop"] = todo["loop"]
    BY <1>1, <1>2, <1>3 DEF Dispatcher
  <2>2. current[d] \in todo["inline"] /\ current[d] \notin todo'["inline"]
    BY <1>1, <1>3
  <2> QED
    BY <2>1, <2>2 DEF Claims, Claim
<1>4. CASE d = "loop"
  <2>1. todo'["loop"] \subseteq todo["loop"] /\ todo'["inline"] = todo["inline"]
    BY <1>1, <1>2, <1>4 DEF Dispatcher
  <2>2. current[d] \in todo["loop"] /\ current[d] \notin todo'["loop"]
    BY <1>1, <1>4
  <2> QED
    BY <2>1, <2>2 DEF Claims, Claim
<1> QED
  BY <1>3, <1>4 DEF Dispatcher

(* A file that could not be read has no row to charge.                     *)
LEMMA LoadedBudget ==
  ASSUME IInv, NEW b \in Loaded, NEW k \in Key
  PROVE  /\ b.row[k].status = "pending" => b.row[k].attempts < MaxAttempts
         /\ b.row[k].status # "pending" =>
              b.row[k].attempts + Claims(k) <= MaxAttempts + 1
         /\ b.row[k].status = "delivered" => k \in accepted
<1>1. CASE b = outbox
  BY <1>1 DEF IInv, Budget, DeliveredWasAccepted, StatusOf
<1>2. CASE b = Empty
  BY <1>2, ClaimsType, OutboxAssumption DEF Empty, NoRow
<1> QED
  BY <1>1, <1>2, LoadedType DEF IInv

LEMMA BudgetStep == IInv /\ [Next]_vars => Budget' /\ DeliveredWasAccepted'
<1> SUFFICES ASSUME IInv, [Next]_vars, NEW x \in Key
             PROVE  /\ StatusOf(x)' = "pending" => outbox'.row[x].attempts < MaxAttempts
                    /\ StatusOf(x)' # "pending" =>
                         outbox'.row[x].attempts + Claims(x)' <= MaxAttempts + 1
                    /\ StatusOf(x)' = "delivered" => x \in accepted'
  BY DEF Budget, DeliveredWasAccepted
<1> DEFINE Goal ==
      /\ StatusOf(x)' = "pending" => outbox'.row[x].attempts < MaxAttempts
      /\ StatusOf(x)' # "pending" =>
           outbox'.row[x].attempts + Claims(x)' <= MaxAttempts + 1
      /\ StatusOf(x)' = "delivered" => x \in accepted'
<1>a. TypeOK
  BY DEF IInv
<1>b. outbox.row[x].attempts \in Nat /\ Claims(x) \in Nat /\ MaxAttempts \in Nat \ {0}
  BY <1>a, RowIs, ClaimsType, OutboxAssumption DEF TypeOK
<1>c. ASSUME outbox'.row[x].status = outbox.row[x].status,
             outbox'.row[x].attempts = outbox.row[x].attempts,
             accepted \subseteq accepted',
             Claims(x)' \in Nat,
             StatusOf(x) # "pending" => Claims(x)' <= Claims(x)
      PROVE  Goal
  BY <1>b, <1>c DEF IInv, Budget, DeliveredWasAccepted, StatusOf
<1>d. Claims(x)' \in {0, 1, 2}
  BY DEF Claims, Claim
<1>1. ASSUME NEW k \in Key, Emit(k) PROVE Goal
  <2>0. todo' = todo /\ accepted' = accepted /\ Claims(x)' = Claims(x)
    BY <1>1 DEF Emit, Claims, Claim
  <2>1. CASE UNCHANGED outbox
    BY <2>0, <2>1, <1>b, <1>c, <1>d
  <2>2. ASSUME NEW b \in Loaded, outbox' = Add(b, k) PROVE Goal
    <3>1. b \in File
      BY <1>a, LoadedType
    <3>2. CASE x = k
      BY <1>b, <2>2, <3>1, <3>2, AddIs DEF StatusOf
    <3>3. CASE x # k /\ Add(b, k).row[x] = NoRow
      BY <1>b, <1>d, <2>2, <3>3 DEF StatusOf, NoRow
    <3>4. CASE x # k /\ Add(b, k).row[x] = b.row[x]
      BY <2>0, <2>2, <3>4, LoadedBudget DEF StatusOf
    <3> QED
      BY <3>1, <3>2, <3>3, <3>4, AddIs
  <2> QED
    BY <1>1, <2>1, <2>2 DEF Emit
<1>2. ASSUME NEW k \in Key, BackoffEnds(k) PROVE Goal
  <2>1. Claims(x)' = Claims(x) /\ accepted' = accepted
    BY <1>2 DEF BackoffEnds, Claims, Claim
  <2>2. outbox \in File /\ outbox.row[k] \in Row
    BY <1>a, RowIs DEF TypeOK
  <2> DEFINE r == [outbox.row[k] EXCEPT !.ready = TRUE]
  <2>3. r \in Row /\ r.status = outbox.row[k].status /\ r.attempts = outbox.row[k].attempts
    BY <2>2 DEF Row
  <2>4. outbox' = WithRow(outbox, k, r)
    BY <1>2 DEF BackoffEnds
  <2> HIDE DEF r
  <2>5. /\ outbox'.row[x].status = outbox.row[x].status
        /\ outbox'.row[x].attempts = outbox.row[x].attempts
    BY <2>2, <2>3, <2>4, WithRowIs
  <2> QED
    BY <1>b, <1>c, <1>d, <2>1, <2>5
<1>3. ASSUME WakeLoop PROVE Goal
  BY <1>3, <1>b, <1>c, <1>d DEF WakeLoop, Claims, Claim
<1>4. ASSUME NEW d \in Dispatcher, TakeDue(d) PROVE Goal
  <2>1. PICK b \in Loaded : todo' = [todo EXCEPT ![d] = Due(b)]
    BY <1>4 DEF TakeDue
  <2>2. b \in File /\ (b = outbox \/ b = Empty)
    BY <1>a, LoadedType
  <2>3. x \in Due(b) => StatusOf(x) = "pending"
    BY <2>2, DueIs DEF StatusOf, Empty, NoRow
  <2>4. StatusOf(x) # "pending" => Claims(x)' <= Claims(x)
    BY <2>1, <2>3, <1>a DEF Claims, Claim, TypeOK, Dispatcher
  <2> QED
    BY <1>4, <1>c, <1>d, <2>4 DEF TakeDue
<1>5. ASSUME NEW d \in Dispatcher, NEW k \in Key, Post(d, k) PROVE Goal
  BY <1>5, <1>b, <1>c, <1>d DEF Post, Claims, Claim
<1>6. ASSUME NEW d \in Dispatcher, Record(d) PROVE Goal
  <2>0. /\ Escape(d) \/ NextPost(d)
        /\ current[d] \in todo[d]
        /\ accepted' = accepted
        /\ stage[d] = "failed" \/ current[d] \in accepted
        /\ current[d] \in Key
    BY <1>6 DEF Record, IInv, AnswerHeld, AnswerAccepted, TypeOK
  <2>1. Claims(x)' <= Claims(x) /\ (x = current[d] => Claims(x)' = Claims(x) - 1)
    BY <1>a, <2>0, DropClaims
  <2>2. CASE UNCHANGED outbox
    BY <2>0, <2>1, <2>2, <1>c, <1>d
  <2>3. ASSUME NEW b \in Loaded, outbox' = Recorded(b, d) PROVE Goal
    <3>1. b \in File /\ b.row[x].attempts \in Nat
      BY <1>a, LoadedType, RowIs
    <3>2. /\ b.row[x].status = "pending" => b.row[x].attempts < MaxAttempts
          /\ b.row[x].status # "pending" =>
               b.row[x].attempts + Claims(x) <= MaxAttempts + 1
          /\ b.row[x].status = "delivered" => x \in accepted
      BY LoadedBudget
    <3>3. CASE x # current[d]
      <4>1. x \in Key \ {current[d]}
        BY <3>3
      <4>2. MarkFailed(b, current[d]).row[x] = b.row[x]
        BY <2>0, <3>1, <4>1, MarkFailedIs
      <4>3. MarkDelivered(b, current[d]).row[x] = b.row[x]
        BY <2>0, <3>1, <4>1, MarkDeliveredIs
      <4>4. outbox'.row[x] = b.row[x]
        BY <2>3, <4>2, <4>3 DEF Recorded
      <4> QED
        BY <1>b, <1>d, <2>0, <2>1, <3>1, <3>2, <4>4 DEF StatusOf
    <3>4. CASE x = current[d] /\ stage[d] = "failed" /\ b.row[x].status = "none"
      <4>1. outbox'.row[x] = b.row[x]
        BY <2>3, <3>1, <3>4, MarkFailedIs DEF Recorded
      <4> QED
        BY <1>b, <1>d, <2>0, <2>1, <3>1, <3>2, <4>1 DEF StatusOf
    <3>5. CASE x = current[d] /\ stage[d] = "failed" /\ b.row[x].status # "none"
      <4>1. /\ outbox'.row[x].attempts = b.row[x].attempts + 1
            /\ outbox'.row[x].status = IF b.row[x].attempts + 1 >= MaxAttempts
                                       THEN "dead" ELSE b.row[x].status
        BY <2>3, <3>1, <3>5, MarkFailedIs DEF Recorded
      <4>2. CASE b.row[x].status = "pending"
        BY <1>b, <1>d, <2>1, <3>1, <3>2, <3>5, <4>1, <4>2, ClaimsType DEF StatusOf
      <4>3. CASE b.row[x].status # "pending"
        BY <1>b, <1>d, <2>0, <2>1, <3>1, <3>2, <3>5, <4>1, <4>3 DEF StatusOf
      <4> QED
        BY <4>2, <4>3
    <3>6. CASE x = current[d] /\ stage[d] # "failed"
      <4>1. /\ outbox'.row[x].attempts = b.row[x].attempts
            /\ outbox'.row[x].status \in {"none", "delivered"}
        BY <2>3, <3>1, <3>6, MarkDeliveredIs DEF Recorded
      <4>2. x \in accepted'
        BY <2>0, <3>6
      <4>3. b.row[x].attempts + Claims(x)' <= MaxAttempts + 1
        BY <1>b, <1>d, <2>1, <3>1, <3>2, <3>6, ClaimsType
      <4> QED
        BY <4>1, <4>2, <4>3 DEF StatusOf
    <3> QED
      BY <3>3, <3>4, <3>5, <3>6
  <2> QED
    BY <1>6, <2>2, <2>3 DEF Record
<1>7. ASSUME Restart PROVE Goal
  <2>1. Claims(x)' = 0
    BY <1>7 DEF Restart, Claims, Claim, Dispatcher
  <2> QED
    BY <1>7, <2>1, <1>b, <1>c DEF Restart
<1>8. ASSUME UNCHANGED vars PROVE Goal
  BY <1>8, <1>b, <1>c, <1>d DEF vars, Claims, Claim
<1> QED
  BY <1>1, <1>2, <1>3, <1>4, <1>5, <1>6, <1>7, <1>8 DEF Next, Dispatch

---------------------------------------------------------------------------
(* The theorems.                                                           *)

LEMMA IInvInit == Init => IInv
<1> SUFFICES ASSUME Init PROVE IInv
  OBVIOUS
<1>1. TypeOK
  BY TypeInit
<1>2. \A k \in Key : StatusOf(k) = "none" /\ outbox.row[k].attempts = 0
  BY DEF Init, Empty, NoRow, StatusOf
<1>3. AnswerHeld /\ AnswerAccepted
  BY DEF Init, AnswerHeld, AnswerAccepted
<1>4. DeliveredWasAccepted /\ Budget
  BY <1>2, ClaimsType, OutboxAssumption DEF DeliveredWasAccepted, Budget
<1> QED
  BY <1>1, <1>3, <1>4 DEF IInv

LEMMA IInvStep == IInv /\ [Next]_vars => IInv'
  BY TypeStep, AnswersStep, BudgetStep DEF IInv

(* The inductive invariant holds of every behaviour of the two dispatchers *)
(* (start_dispatcher_loop, record_from_telegram_thread).                   *)
THEOREM InvariantHolds == Spec => []IInv
  BY IInvInit, IInvStep, PTL DEF Spec

(* The types of the file, of the dispatchers and of what they hold.        *)
THEOREM TypeCorrect == Spec => []TypeOK
<1>1. IInv => TypeOK
  BY DEF IInv
<1> QED
  BY <1>1, InvariantHolds, PTL

(* mark_delivered never records an event the peer did not take in.         *)
THEOREM DeliveriesAreReal == Spec => []DeliveredWasAccepted
<1>1. IInv => DeliveredWasAccepted
  BY DEF IInv
<1> QED
  BY <1>1, InvariantHolds, PTL

(* mark_failed charges at most one attempt beyond _MAX_ATTEMPTS, however   *)
(* the dispatchers overlap and whatever part of the file is lost.          *)
THEOREM AttemptsAreBounded == Spec => []AttemptsBounded
<1>1. IInv => AttemptsBounded
  <2> SUFFICES ASSUME IInv, NEW k \in Key
               PROVE  /\ outbox.row[k].attempts <= MaxAttempts + 1
                      /\ StatusOf(k) = "pending" => outbox.row[k].attempts < MaxAttempts
    BY DEF AttemptsBounded
  <2>1. outbox.row[k].attempts \in Nat
    BY RowIs DEF IInv, TypeOK
  <2>2. Claims(k) \in {0, 1, 2}
    BY ClaimsType
  <2> QED
    BY <2>1, <2>2, OutboxAssumption DEF IInv, Budget
<1> QED
  BY <1>1, InvariantHolds, PTL

(* Neither a late answer (mark_delivered, mark_failed) nor the end of a    *)
(* backoff makes a settled event due again.                                *)
LEMMA SettledStep ==
  ASSUME TypeOK, [Next]_vars, NEW x \in Key,
         StatusOf(x) # "pending", StatusOf(x)' = "pending"
  PROVE  outbox'.row[x].attempts = 0
<1> USE DEF StatusOf
<1>0. \A b \in Loaded : b \in File /\ b.row[x].status # "pending"
  BY LoadedType DEF Empty, NoRow
<1>1. ASSUME NEW k \in Key, Emit(k) PROVE outbox'.row[x].attempts = 0
  <2>1. PICK b \in Loaded : outbox' = Add(b, k)
    BY <1>1 DEF Emit
  <2>2. x = k
    BY <1>0, <2>1, AddIs DEF NoRow
  <2> QED
    BY <1>0, <2>1, <2>2, AddIs
<1>2. ASSUME NEW k \in Key, BackoffEnds(k) PROVE FALSE
  <2> DEFINE r == [outbox.row[k] EXCEPT !.ready = TRUE]
  <2>1. outbox \in File /\ outbox.row[k] \in Row
    BY RowIs DEF TypeOK
  <2>2. r \in Row /\ outbox' = WithRow(outbox, k, r) /\ x # k
    BY <1>2, <2>1 DEF BackoffEnds, Row
  <2> HIDE DEF r
  <2>3. outbox'.row[x] = outbox.row[x]
    BY <2>1, <2>2, WithRowIs
  <2> QED
    BY <2>3
<1>3. ASSUME NEW d \in Dispatcher, Record(d) PROVE FALSE
  <2>1. PICK b \in Loaded : outbox' = Recorded(b, d)
    BY <1>3 DEF Record
  <2>2. b \in File /\ b.row[x].status # "pending" /\ current[d] \in Key
    BY <1>0 DEF TypeOK
  <2>3. MarkDelivered(b, current[d]).row[x].status # "pending"
    <3>1. CASE x = current[d]
      BY <2>2, <3>1, MarkDeliveredIs
    <3>2. CASE x \in Key \ {current[d]}
      BY <2>2, <3>2, MarkDeliveredIs
    <3> QED
      BY <3>1, <3>2
  <2>4. MarkFailed(b, current[d]).row[x].status # "pending"
    <3>1. CASE x = current[d]
      BY <2>2, <3>1, MarkFailedIs
    <3>2. CASE x \in Key \ {current[d]}
      BY <2>2, <3>2, MarkFailedIs
    <3> QED
      BY <3>1, <3>2
  <2> QED
    BY <2>1, <2>3, <2>4 DEF Recorded
<1>4. ASSUME UNCHANGED outbox PROVE FALSE
  BY <1>4
<1>5. ASSUME WakeLoop \/ Restart \/ UNCHANGED vars PROVE UNCHANGED outbox
  BY <1>5 DEF WakeLoop, Restart, vars
<1>6. ASSUME NEW d \in Dispatcher, TakeDue(d) \/ \E k \in Key : Post(d, k)
      PROVE  UNCHANGED outbox
  BY <1>6 DEF TakeDue, Post
<1> QED
  BY <1>1, <1>2, <1>3, <1>4, <1>5, <1>6 DEF Next, Dispatch

(* An event that was delivered or given up is due again only as a new row  *)
(* of enqueue, whatever the two dispatchers do.                            *)
THEOREM SettledEventsStay == Spec => SettledStaysSettled
<1>1. TypeOK /\ [Next]_vars =>
        [\A k \in Key :
           StatusOf(k) \in {"delivered", "dead"} /\ StatusOf(k)' = "pending" =>
             outbox'.row[k].attempts = 0]_vars
  BY SettledStep
<1> QED
  BY <1>1, TypeCorrect, PTL DEF Spec, SettledStaysSettled

---------------------------------------------------------------------------
(* The outbox implements the ledger of events.                             *)

Said == [k \in Key |-> StatusOf(k)]
InHands == todo["inline"] \cup todo["loop"]

LEMMA SaidIs ==
  ASSUME NEW b \in File, outbox' = b
  PROVE  Said' = [x \in Key |-> b.row[x].status]
  BY DEF Said, StatusOf

(* What a dispatcher drops is in fewer hands, what it picks was pending.   *)
LEMMA DropsOnly ==
  ASSUME TypeOK, NEW d \in Dispatcher, Escape(d) \/ NextPost(d)
  PROVE  InHands' \in SUBSET InHands
<1>1. todo'[d] \subseteq todo[d] /\ \A e \in Dispatcher \ {d} : todo'[e] = todo[e]
  BY DEF Escape, NextPost, TypeOK
<1>2. todo'["inline"] \subseteq todo["inline"] /\ todo'["loop"] \subseteq todo["loop"]
  BY <1>1 DEF Dispatcher
<1> QED
  BY <1>2 DEF InHands

LEMMA EmptySays ==
  ASSUME outbox' = Empty
  PROVE  Said' = Ledger!Nothing
  BY DEF Said, StatusOf, Empty, NoRow, Ledger!Nothing

LEMMA AddSays ==
  ASSUME NEW k \in Key
  PROVE  [x \in Key |-> Add(Empty, k).row[x].status] = [Ledger!Nothing EXCEPT ![k] = "pending"]
<1> DEFINE status == [x \in Key |-> Add(Empty, k).row[x].status]
<1>1. \A x \in Key \ {k} : Add(Empty, k).row[x].status = "none"
  BY EmptyType, AddIs DEF Empty, NoRow
<1>2. Add(Empty, k).row[k].status = "pending"
  BY EmptyType, AddIs
<1>3. \A x \in Key : status[x] = IF x = k THEN "pending" ELSE "none"
  BY <1>1, <1>2
<1>4. status = [x \in Key |-> status[x]]
  OBVIOUS
<1> HIDE DEF status
<1>5. status = [Ledger!Nothing EXCEPT ![k] = "pending"]
  BY <1>3, <1>4 DEF Ledger!Nothing
<1> QED
  BY <1>5 DEF status

(* The trim forgets one row.                                               *)
LEMMA TrimSays ==
  ASSUME TypeOK, NEW k \in Key, outbox' = Add(outbox, k)
  PROVE  \/ Said' = [Said EXCEPT ![k] = "pending"]
         \/ \E x \in Key \ {k} : Said' = [Said EXCEPT ![k] = "pending", ![x] = "none"]
<1> DEFINE gone == IF Len(outbox.order) < MaxRows THEN {} ELSE {Head(outbox.order)}
<1>1. \A x \in Key : StatusOf(x)' = IF x = k THEN "pending"
                                    ELSE IF x \in gone THEN "none" ELSE StatusOf(x)
  BY DEF Add, StatusOf, NoRow
<1>2. CASE k \in gone \/ gone = {}
  <2>1. \A x \in Key : StatusOf(x)' = IF x = k THEN "pending" ELSE StatusOf(x)
    BY <1>1, <1>2
  <2> HIDE DEF gone
  <2> QED
    BY <2>1 DEF Said
<1>3. CASE k \notin gone /\ gone # {}
  <2>1. outbox.order \in Seq(Key) /\ outbox.order # <<>> /\ gone = {Head(outbox.order)}
    BY <1>3, OutboxAssumption DEF TypeOK, File
  <2>2. PICK x \in Key \ {k} : gone = {x}
    BY <1>3, <2>1
  <2>3. \A y \in Key : StatusOf(y)' = IF y = k THEN "pending" ELSE IF y = x THEN "none" ELSE StatusOf(y)
    BY <1>1, <2>2
  <2> HIDE DEF gone
  <2> QED
    BY <2>3 DEF Said
<1> QED
  BY <1>2, <1>3

(* What is recorded of an answer, in a file that could be read.            *)
LEMMA RecordSays ==
  ASSUME IInv, NEW d \in Dispatcher, stage[d] \in {"delivered", "odd", "failed"},
         outbox' = Recorded(outbox, d)
  PROVE  \/ Said' = Said
         \/ /\ StatusOf(current[d]) # "none"
            /\ \E end \in {"delivered", "dead"} :
                 /\ end = "delivered" => current[d] \in accepted
                 /\ Said' = [Said EXCEPT ![current[d]] = end]
<1> DEFINE k == current[d]
<1>0. outbox \in File /\ k \in Key
  BY DEF IInv, TypeOK
<1> HIDE DEF k
<1>1. ASSUME NEW end, outbox'.row[k].status = end, \A x \in Key \ {k} : outbox'.row[x] = outbox.row[x]
      PROVE  Said' = [Said EXCEPT ![k] = end]
  BY <1>0, <1>1 DEF Said, StatusOf
<1>2. ASSUME outbox'.row[k].status = outbox.row[k].status, \A x \in Key \ {k} : outbox'.row[x] = outbox.row[x]
      PROVE  Said' = Said
  BY <1>0, <1>2 DEF Said, StatusOf
<1>3. CASE stage[d] = "failed"
  <2>1. outbox' = MarkFailed(outbox, k)
    BY <1>3 DEF Recorded, k
  <2>2. \/ outbox'.row[k].status = outbox.row[k].status
        \/ outbox.row[k].status # "none" /\ outbox'.row[k].status = "dead"
    BY <1>0, <2>1, MarkFailedIs
  <2>3. \A x \in Key \ {k} : outbox'.row[x] = outbox.row[x]
    BY <1>0, <2>1, MarkFailedIs
  <2> QED
    BY <1>1, <1>2, <2>2, <2>3 DEF k, StatusOf
<1>4. CASE stage[d] # "failed"
  <2>1. outbox' = MarkDelivered(outbox, k)
    BY <1>4 DEF Recorded, k
  <2>2. \/ outbox'.row[k].status = outbox.row[k].status
        \/ outbox.row[k].status # "none" /\ outbox'.row[k].status = "delivered"
    BY <1>0, <2>1, MarkDeliveredIs
  <2>3. \A x \in Key \ {k} : outbox'.row[x] = outbox.row[x]
    BY <1>0, <2>1, MarkDeliveredIs
  <2>4. k \in accepted
    BY <1>4 DEF IInv, AnswerAccepted, k
  <2> QED
    BY <1>1, <1>2, <2>2, <2>3, <2>4 DEF k, StatusOf
<1> QED
  BY <1>3, <1>4

LEMMA RecordedEmpty ==
  ASSUME NEW d \in Dispatcher, current[d] \in Key
  PROVE  Recorded(Empty, d) = Empty
  BY DEF Recorded, MarkFailed, MarkDelivered, Empty, NoRow

LEMMA LedgerStep ==
  ASSUME IInv, [Next]_vars
  PROVE  [Ledger!Next]_<<Said, InHands, accepted>>
<1> DEFINE Goal == [Ledger!Next]_<<Said, InHands, accepted>>
<1>0. TypeOK /\ AnswerHeld
  BY DEF IInv
<1>m. /\ Said = [k \in Key |-> StatusOf(k)] /\ InHands = todo["inline"] \cup todo["loop"]
      /\ Said' = [k \in Key |-> StatusOf(k)'] /\ InHands' = todo'["inline"] \cup todo'["loop"]
  BY DEF Said, InHands
<1>1. ASSUME NEW k \in Key, Emit(k) PROVE Goal
  <2>0. InHands' = InHands /\ accepted' = accepted /\ InHands' \in SUBSET InHands
    BY <1>1 DEF Emit, InHands
  <2>1. CASE UNCHANGED outbox
    BY <2>0, <2>1 DEF Said, StatusOf
  <2>2. CASE StatusOf(k) = "none" /\ outbox' = Add(outbox, k)
    <3>1. Said[k] = "none"
      BY <2>2 DEF Said
    <3>2. Ledger!Enqueue(k)
      BY <1>0, <1>m, <2>0, <2>2, <3>1, TrimSays DEF Ledger!Enqueue
    <3> QED
      BY <3>2 DEF Ledger!Next
  <2>3. CASE outbox' = Add(Empty, k)
    <3>1. Said' = [Ledger!Nothing EXCEPT ![k] = "pending"]
      BY <2>3, AddSays DEF Said, StatusOf
    <3>2. Ledger!Lose
      BY <1>m, <2>0, <3>1 DEF Ledger!Lose
    <3> QED
      BY <3>2 DEF Ledger!Next
  <2> QED
    BY <1>0, <1>1, <2>1, <2>2, <2>3, LoadedType DEF Emit, StatusOf
<1>2. ASSUME NEW k \in Key, BackoffEnds(k) PROVE Goal
  <2> DEFINE r == [outbox.row[k] EXCEPT !.ready = TRUE]
  <2>1. outbox \in File /\ outbox.row[k] \in Row
    BY <1>0, RowIs DEF TypeOK
  <2>2. r \in Row /\ r.status = outbox.row[k].status /\ outbox' = WithRow(outbox, k, r)
    BY <1>2, <2>1 DEF BackoffEnds, Row
  <2> HIDE DEF r
  <2>3. \A x \in Key : outbox'.row[x].status = outbox.row[x].status
    BY <2>1, <2>2, WithRowIs
  <2>4. Said' = Said
    BY <2>3 DEF Said, StatusOf
  <2> QED
    BY <1>2, <2>4 DEF BackoffEnds, InHands
<1>3. ASSUME NEW d \in Dispatcher, TakeDue(d) PROVE Goal
  <2>1. PICK b \in Loaded : todo' = [todo EXCEPT ![d] = Due(b)]
    BY <1>3 DEF TakeDue
  <2>2. Due(b) \subseteq {k \in Key : StatusOf(k) = "pending"}
    BY <1>0, LoadedType, DueIs DEF StatusOf, Empty, NoRow
  <2>3. Due(b) \subseteq Ledger!Pending
    BY <2>2 DEF Ledger!Pending
  <2>4. InHands' \in SUBSET (InHands \cup Due(b))
    BY <1>0, <2>1 DEF InHands, TypeOK, Dispatcher
  <2>5. Said' = Said /\ accepted' = accepted
    BY <1>3 DEF TakeDue, Said, StatusOf
  <2>6. Ledger!HandOut
    BY <1>m, <2>3, <2>4, <2>5 DEF Ledger!HandOut
  <2> QED
    BY <2>6 DEF Ledger!Next
<1>4. ASSUME NEW d \in Dispatcher, NEW k \in Key, Post(d, k) PROVE Goal
  <2>1. /\ k \in InHands /\ InHands' = InHands /\ Said' = Said
        /\ accepted' = accepted \/ accepted' = accepted \cup {k}
    BY <1>4 DEF Post, InHands, Said, StatusOf, Dispatcher
  <2>2. accepted' = accepted \/ Ledger!TakeIn(k)
    BY <1>m, <2>1 DEF Ledger!TakeIn
  <2> QED
    BY <2>1, <2>2 DEF Ledger!Next
<1>5. ASSUME NEW d \in Dispatcher, Record(d) PROVE Goal
  <2> DEFINE k == current[d]
  <2>0. /\ Escape(d) \/ NextPost(d)
        /\ stage[d] \in {"delivered", "odd", "failed"}
        /\ accepted' = accepted
    BY <1>5 DEF Record
  <2>1. k \in Key /\ k \in InHands /\ InHands' \in SUBSET InHands
    BY <1>0, <2>0, DropsOnly DEF AnswerHeld, TypeOK, InHands, Dispatcher
  <2> HIDE DEF k
  <2>2. CASE Said' = Said
    <3>1. Ledger!HandOut
      BY <1>m, <2>0, <2>1, <2>2 DEF Ledger!HandOut
    <3> QED
      BY <3>1 DEF Ledger!Next
  <2>3. ASSUME NEW end \in {"delivered", "dead"}, Said[k] # "none",
               end = "delivered" => k \in accepted, Said' = [Said EXCEPT ![k] = end]
        PROVE  Goal
    <3>1. Ledger!Settle(k, end)
      BY <1>m, <2>0, <2>1, <2>3 DEF Ledger!Settle
    <3> QED
      BY <2>1, <3>1 DEF Ledger!Next
  <2>4. CASE outbox' = Empty
    <3>1. Ledger!Lose
      BY <1>m, <2>0, <2>1, <2>4, EmptySays DEF Ledger!Lose
    <3> QED
      BY <3>1 DEF Ledger!Next
  <2>5. CASE outbox' = Recorded(outbox, d)
    BY <2>0, <2>1, <2>2, <2>3, <2>5, RecordSays DEF k, Said
  <2>6. CASE UNCHANGED outbox
    BY <2>2, <2>6 DEF Said, StatusOf
  <2> QED
    BY <1>0, <1>5, <2>1, <2>4, <2>5, <2>6, LoadedType, RecordedEmpty DEF Record, k
<1>6. ASSUME Restart PROVE Goal
  <2>1. InHands' \in SUBSET InHands /\ Said' = Said /\ accepted' = accepted
    BY <1>6 DEF Restart, InHands, Said, StatusOf, Dispatcher
  <2>2. Ledger!HandOut
    BY <1>m, <2>1 DEF Ledger!HandOut
  <2> QED
    BY <2>2 DEF Ledger!Next
<1>7. CASE WakeLoop \/ UNCHANGED vars
  BY <1>7 DEF WakeLoop, vars, Said, StatusOf, InHands
<1> QED
  BY <1>1, <1>2, <1>3, <1>4, <1>5, <1>6, <1>7 DEF Next, Dispatch

(* enqueue, due, mark_delivered, mark_failed and the two dispatchers do    *)
(* with an event only what the ledger lets them: it is handed out while it *)
(* is pending, recorded delivered once taken in, and never reopened.       *)
THEOREM ImplementsLedger == Spec => EventLedgerSpec
<1>1. Init => Ledger!Init
  BY DEF Init, Empty, NoRow, StatusOf, Dispatcher, Ledger!Init, Ledger!Nothing
<1>2. IInv /\ [Next]_vars => [Ledger!Next]_<<Said, InHands, accepted>>
  BY LedgerStep
<1>3. /\ Said = [k \in Key |-> StatusOf(k)] /\ InHands = todo["inline"] \cup todo["loop"]
  BY DEF Said, InHands
<1> QED
  BY <1>1, <1>2, InvariantHolds, PTL DEF Spec, EventLedgerSpec, Ledger!Spec, Said, InHands
=============================================================================
