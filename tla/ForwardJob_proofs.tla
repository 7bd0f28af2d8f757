--------------------------- MODULE ForwardJob_proofs ---------------------------
(***************************************************************************)
(* For any jobs, targets, settings, retries and restarts: the             *)
(* safety properties of the forward jobs of one account.                   *)
(***************************************************************************)
EXTENDS ForwardJob, FiniteSetTheorems, TLAPS

Taken(j) == {t \in Targets : posts[j][t] > 0}
Beyond(j, n) == \A t \in Targets : t > n => posts[j][t] = 0

Early == {"new", "listing", "fetching"}

(* A job whose task has no lock yet has sent nothing.                      *)
Fresh(j) ==
  stage[j] \in {"new", "created", "queued"} \union Pending =>
    sent[j] = 0 /\ failed[j] = 0 /\ Beyond(j, 0)

(* Telegram has nothing beyond the targets counted, and one more if a call *)
(* is under way or was not counted.                                        *)
Reach(j) ==
  /\ Processed(j) <= Last
  /\ stage[j] \in {"sending", "delivered"} => Processed(j) < Last
  /\ stage[j] = "resting" => Beyond(j, Processed(j))
  /\ stage[j] = "next" /\ status[j] = "running" => Beyond(j, Processed(j))
  /\ stage[j] \in Live => Beyond(j, Processed(j) + 1)
  /\ status[j] = "completed" => Processed(j) = Last

(* A success that is counted next has been taken already.                  *)
Credit(j) ==
  /\ sent[j] <= Cardinality(Taken(j))
  /\ \/ stage[j] = "delivered"
     \/ stage[j] = "sending" /\ \E t \in Targets : t > Processed(j) /\ posts[j][t] > 0
     => sent[j] + 1 <= Cardinality(Taken(j))

Limit(j) == IF settings[j].template THEN 1 + Resends ELSE 1

(* The call under way has sent once, and once more for each lost answer.   *)
Repeats(j) ==
  /\ \A t \in Targets : posts[j][t] <= Limit(j)
  /\ ~settings[j].template => tries[j] = 0
  /\ stage[j] = "sending" => \A t \in Targets : t > Processed(j) => posts[j][t] <= tries[j]
  /\ stage[j] = "delivered" => \A t \in Targets : t > Processed(j) => posts[j][t] <= tries[j] + 1

JobTrue(j) == Fresh(j) /\ Reach(j) /\ Credit(j) /\ Repeats(j)

(* The file tells of a job that was registered, and no more than was done. *)
FileTrue ==
  IF file = None
  THEN \A j \in Job : status[j] = "idle"
  ELSE /\ stage[file.job] \notin Early
       /\ file.sent + file.failed <= Last
       /\ file.sent <= Cardinality(Taken(file.job))
       /\ file.status = "completed" => file.sent + file.failed = Last

(* What a status says of the stage, and what is on the dashboard.          *)
StatusTrue ==
  /\ \A j \in Job : stage[j] \in Early => status[j] = "idle"
  /\ \A j \in Job : stage[j] = "closing" => status[j] # "running"
  /\ shown # None => stage[shown] \notin Early
  /\ RunningIsAlive

(* Without overlapping requests one job at a time is on its way, the       *)
(* handle is its task's, and what runs is what is shown.                   *)
OneOnItsWay ==
  ~overlap =>
    /\ \A i, j \in Job : stage[i] \in Pending \union Live /\ stage[j] \in Pending \union Live => i = j
    /\ \A j \in Job : stage[j] \in Live => handle = j
    /\ \A j \in Job : status[j] = "running" => shown = j /\ stage[j] \in Live \union {"announced"}

QuietHolds ==
  /\ quiet => \A j \in Job : stage[j] \notin {"listing", "fetching"}
  /\ CancelHolds

Control == StatusTrue /\ OneOnItsWay /\ QuietHolds
IInv == TypeOK /\ (\A j \in Job : JobTrue(j)) /\ FileTrue /\ Control

---------------------------------------------------------------------------
(* Targets.                                                                *)

LEMMA TakenFinite ==
  ASSUME NEW j \in Job
  PROVE  IsFiniteSet(Taken(j)) /\ Cardinality(Taken(j)) \in Nat
<1>1. IsFiniteSet(Targets)
  BY FS_Interval, ForwardAssumption DEF Targets
<1>2. Taken(j) \subseteq Targets
  BY DEF Taken
<1> QED
  BY <1>1, <1>2, FS_Subset, FS_CardinalityType

LEMMA TakenWithin ==
  ASSUME NEW j \in Job, NEW n \in Nat, Beyond(j, n), TypeOK
  PROVE  Cardinality(Taken(j)) <= n
<1>1. IsFiniteSet(1 .. n) /\ Cardinality(1 .. n) = n
  <2>1. 1 \in Int /\ n \in Int
    OBVIOUS
  <2>2. IsFiniteSet(1 .. n) /\ Cardinality(1 .. n) = IF 1 > n THEN 0 ELSE n - 1 + 1
    BY <2>1, FS_Interval
  <2> QED
    BY <2>2
<1>2. Taken(j) \subseteq 1 .. n
  BY DEF Taken, Beyond, Targets, TypeOK
<1> QED
  BY <1>1, <1>2, FS_Subset

LEMMA InitHolds == Init => IInv
<1> SUFFICES ASSUME Init PROVE IInv
  OBVIOUS
<1> USE ForwardAssumption DEF Init
<1>1. TypeOK
  <2>1. posts \in [Job -> [Targets -> Nat]]
    OBVIOUS
  <2>2. stage \in [Job -> Stage] /\ status \in [Job -> Status]
    BY DEF Stage, Status
  <2>3. /\ sent \in [Job -> 0 .. Last] /\ failed \in [Job -> 0 .. Last] /\ restarts \in 0 .. MaxRestarts
        /\ tries \in [Job -> 0 .. Resends]
    OBVIOUS
  <2> QED
    BY <2>1, <2>2, <2>3 DEF TypeOK
<1>2. ASSUME NEW j \in Job PROVE JobTrue(j)
  <2>1. Cardinality(Taken(j)) \in Nat
    BY TakenFinite
  <2> QED
    BY <2>1 DEF JobTrue, Fresh, Reach, Credit, Repeats, Limit, Beyond, Processed, Live, InOperation
<1>3. FileTrue /\ Control
  BY DEF FileTrue, Control, StatusTrue, OneOnItsWay, QuietHolds, Early, RunningIsAlive, CancelHolds, Pending, Live,
    InOperation
<1> QED
  BY <1>1, <1>2, <1>3 DEF IInv
LEMMA PutType ==
  ASSUME NEW S, NEW R, NEW f \in [S -> R], NEW g, NEW x \in S, NEW row \in R, g = [f EXCEPT ![x] = row]
  PROVE  g \in [S -> R]
  OBVIOUS

LEMMA BumpType ==
  ASSUME NEW S, NEW f \in [S -> Nat], NEW n \in S
  PROVE  [f EXCEPT ![n] = @ + 1] \in [S -> Nat]
  OBVIOUS

---------------------------------------------------------------------------
(* Types.                                                                  *)

LEMMA SavedType ==
  ASSUME TypeOK, NEW j \in Job, NEW st \in Status
  PROVE  Saved(j, st) \in Snapshot
BY DEF TypeOK, Saved, Snapshot

LEMMA RequestTypes ==
  ASSUME TypeOK, NEW j \in Job, Request(j)
  PROVE  TypeOK'
<1> USE DEF TypeOK, Stage, Pending, Live, InOperation, Status
<1>1. CASE Enter(j, "listing") \/ Enter(j, "fetching") \/ RequestFails(j) \/ Launch(j)
  BY <1>1 DEF Enter, RequestFails, Launch, Goto
<1>2. ASSUME NEW st \in {"running", "idle"}, NEW s \in {"announced", "over"}, Register(j, st), Goto(j, s)
      PROVE  TypeOK'
  <2>1. file' \in Snapshot
    BY <1>2, SavedType DEF Register
  <2> QED
    BY <1>2, <2>1 DEF Register, Goto
<1> QED
  BY <1>1, <1>2 DEF Request, StartRegisters, PreviewRegisters

LEMMA CancelTypes == TypeOK /\ Cancel => TypeOK'
<1> SUFFICES ASSUME TypeOK, Cancel PROVE TypeOK'
  OBVIOUS
<1> USE DEF TypeOK
<1>1. status' \in [Job -> Status]
  BY DEF Cancel, Status
<1>2. stage' \in [Job -> Stage]
  BY DEF Cancel, Busy, Goto, Stage, Live
<1>3. shown \in Job /\ status'[shown] \in Status
  BY <1>1 DEF Cancel
<1>4. file' \in Snapshot
  BY <1>3, SavedType DEF Cancel
<1>5. tries' \in [Job -> 0 .. Resends]
  <2>1. tries' = tries \/ tries' = [tries EXCEPT ![handle] = 0]
    BY DEF Cancel
  <2>2. 0 \in 0 .. Resends /\ tries \in [Job -> 0 .. Resends]
    BY ForwardAssumption
  <2> HIDE DEF TypeOK
  <2> QED
    BY <2>1, <2>2
<1> QED
  BY <1>1, <1>2, <1>4, <1>5 DEF Cancel

LEMMA TaskTypes ==
  ASSUME TypeOK, NEW j \in Job, JobTrue(j), TaskStep(j)
  PROVE  TypeOK'
<1> USE ForwardAssumption DEF TypeOK, Stage, Pending, Live, InOperation
<1>1. CASE Begin(j) \/ TakeLock(j) \/ Forward(j) \/ Rest(j) \/ Leave(j)
  BY <1>1 DEF Begin, TakeLock, Forward, Rest, Leave, Step, Goto
<1>2. ASSUME NEW from, NEW st \in Status, Step(j, from, "closing"), Close(j, st)
      PROVE  TypeOK'
  <2>1. file' \in Snapshot
    BY <1>2, SavedType DEF Close
  <2> QED
    BY <1>2, <2>1 DEF Close, Step, Goto
<1>3. CASE ConnectFails(j) \/ OperationEnds(j) \/ Cancelled(j)
  BY <1>2, <1>3 DEF ConnectFails, OperationEnds, Cancelled, Status
<1>4. AfterTarget(j) \in {"resting", "next"}
  BY DEF AfterTarget
<1>6. sent[j] + failed[j] < Last \/ stage[j] \notin {"sending", "delivered"}
  BY DEF JobTrue, Reach, Processed
<1>5. CASE Deliver(j)
  <2>1. posts' \in [Job -> [Targets -> Nat]]
    <3> DEFINE n == Processed(j) + 1
               q == [posts[j] EXCEPT ![n] = @ + 1]
    <3>1. posts[j] \in [Targets -> Nat]
      OBVIOUS
    <3>2. n \in Targets
      <4>1. sent[j] + failed[j] < Last /\ sent[j] \in Nat /\ failed[j] \in Nat
        BY <1>5, <1>6 DEF Deliver, Step
      <4>2. Last \in Nat
        BY ForwardAssumption
      <4> QED
        BY <4>1, <4>2, SMTT(30) DEF Processed, Targets
    <3> HIDE DEF n
    <3>3. q \in [Targets -> Nat]
      BY <3>1, <3>2, BumpType
    <3>4. posts' = [posts EXCEPT ![j] = q]
      BY <1>5 DEF Deliver, n
    <3> HIDE DEF q
    <3>5. posts \in [Job -> [Targets -> Nat]]
      OBVIOUS
    <3> HIDE DEF TypeOK
    <3> QED
      BY <3>3, <3>4, <3>5, PutType
  <2> QED
    BY <1>5, <2>1 DEF Deliver, Step, Goto
<1>7. CASE Answered(j)
  <2>1. sent' \in [Job -> 0 .. Last] /\ failed' \in [Job -> 0 .. Last]
    <3>1. stage[j] = "delivered"
      BY <1>7 DEF Answered
    <3>2. sent[j] + 1 \in 0 .. Last /\ failed[j] + 1 \in 0 .. Last
      BY <1>6, <3>1
    <3> DEFINE more(c) == [c EXCEPT ![j] = IF status[j] = "running" THEN @ + 1 ELSE @]
    <3>3. more(sent) \in [Job -> 0 .. Last] /\ more(failed) \in [Job -> 0 .. Last]
      BY <3>2
    <3>4. (sent' = more(sent) /\ failed' = failed) \/ (failed' = more(failed) /\ sent' = sent)
      BY <1>7 DEF Answered
    <3> HIDE DEF more
    <3> QED
      BY <3>3, <3>4
  <2>2. tries' \in [Job -> 0 .. Resends]
    BY <1>7 DEF Answered, CallEnds
  <2> QED
    BY <1>4, <1>7, <2>1, <2>2 DEF Answered, Goto
<1>8. CASE Refused(j)
  <2>1. failed' \in [Job -> 0 .. Last]
    BY <1>6, <1>8 DEF Refused, Step
  <2>2. tries' \in [Job -> 0 .. Resends]
    BY <1>8 DEF Refused, CallEnds
  <2> QED
    BY <1>4, <1>8, <2>1, <2>2 DEF Refused, Step, Goto
<1>9. CASE Resend(j)
  <2>1. tries' \in [Job -> 0 .. Resends]
    BY <1>9 DEF Resend
  <2> QED
    BY <1>9, <2>1 DEF Resend, Step, Goto
<1> QED
  BY <1>1, <1>3, <1>5, <1>7, <1>8, <1>9 DEF TaskStep

LEMMA RestartTypes == TypeOK /\ Restart => TypeOK'
<1> SUFFICES ASSUME TypeOK, Restart PROVE TypeOK'
  OBVIOUS
<1> USE DEF TypeOK
<1>0. restarts' \in 0 .. MaxRestarts
  BY ForwardAssumption DEF Restart
<1>1. stage' \in [Job -> Stage] /\ tries' \in [Job -> 0 .. Resends]
  BY ForwardAssumption DEF Restart, Stage
<1>2. CASE file = None
  BY <1>1, <1>2, <1>0 DEF Restart
<1>3. CASE file # None
  <2>1. file \in Snapshot
    BY <1>3
  <2>2. Recovered(file) \in Snapshot
    BY <2>1 DEF Recovered, Snapshot, Status
  <2> QED
    <3> DEFINE saved == Recovered(file)
    <3>0. saved \in Snapshot
      BY <2>2
    <3>1. saved.job \in Job /\ saved.status \in Status /\ saved.sent \in 0 .. Last /\ saved.failed \in 0 .. Last
      BY <2>2 DEF Snapshot
    <3>2. /\ file' = saved /\ shown' = saved.job
          /\ status' = [i \in Job |-> IF i = saved.job THEN saved.status ELSE "idle"]
          /\ sent' = [sent EXCEPT ![saved.job] = saved.sent]
          /\ failed' = [failed EXCEPT ![saved.job] = saved.failed]
          /\ handle' = None /\ overlap' = FALSE /\ quiet' = TRUE /\ UNCHANGED <<settings, posts>>
      BY <1>3 DEF Restart
    <3>3. "idle" \in Status
      BY DEF Status
    <3> HIDE DEF saved
    <3> QED
      BY <1>0, <1>1, <3>0, <3>1, <3>2, <3>3
<1> QED
  BY <1>2, <1>3
---------------------------------------------------------------------------
(* What Telegram has, and what is counted.                                 *)

Unsent == {"new", "created", "queued"} \union Pending

(* A step that sends and counts nothing of a job, by the stages it leads   *)
(* to.                                                                     *)
Moves(i) ==
  /\ stage'[i] \in Unsent => stage[i] \in Unsent
  /\ stage'[i] = "sending" =>
       \/ stage[i] = "sending"
       \/ stage[i] = "next" /\ status[i] = "running" /\ Processed(i) < Last
  /\ stage'[i] \in {"delivered", "resting"} => stage'[i] = stage[i]
  /\ stage'[i] \in {"sending", "delivered"} => tries'[i] = tries[i]
  /\ tries'[i] \in {0, tries[i]}
  /\ stage'[i] = "next" /\ status'[i] = "running" =>
       stage[i] \in {"queued", "resting"} \/ (stage[i] = "next" /\ status[i] = "running")
  /\ stage'[i] \in Live => stage[i] \in Live \union Unsent
  /\ status'[i] = "completed" => status[i] = "completed" \/ Processed(i) = Last

LEMMA NothingSent ==
  ASSUME TypeOK, NEW i \in Job, JobTrue(i), Moves(i),
         sent'[i] = sent[i], failed'[i] = failed[i], posts'[i] = posts[i], settings'[i] = settings[i]
  PROVE  JobTrue(i)'
<1> USE DEF TypeOK, JobTrue
<1>1. Processed(i)' = Processed(i) /\ Taken(i)' = Taken(i)
  BY DEF Processed, Taken
<1>2. Processed(i) \in Nat
  BY DEF Processed
<1>3. ASSUME NEW n PROVE Beyond(i, n)' = Beyond(i, n)
  BY DEF Beyond
<1>4. Fresh(i)'
  BY <1>3 DEF Fresh, Moves, Unsent
<1>5. stage[i] \in Unsent => Processed(i) = 0 /\ Beyond(i, 0) /\ Beyond(i, 1)
  <2>1. stage[i] \in Unsent => sent[i] = 0 /\ failed[i] = 0 /\ Beyond(i, 0)
    BY DEF Fresh, Unsent
  <2>2. Beyond(i, 0) => Beyond(i, 1)
    BY DEF Beyond, Targets
  <2> QED
    BY <2>1, <2>2 DEF Processed
<1>6. Reach(i)'
  <2>1. (Processed(i) <= Last)' /\ (status[i] = "completed" => Processed(i) = Last)'
    BY <1>1 DEF Reach, Moves
  <2>2. (stage[i] \in {"sending", "delivered"} => Processed(i) < Last)'
    BY <1>1 DEF Reach, Moves
  <2>3. (stage[i] = "resting" => Beyond(i, Processed(i)))'
    BY <1>1, <1>3 DEF Reach, Moves
  <2>4. (stage[i] = "next" /\ status[i] = "running" => Beyond(i, Processed(i)))'
    BY <1>1, <1>3, <1>5 DEF Reach, Moves, Unsent
  <2>5. (stage[i] \in Live => Beyond(i, Processed(i) + 1))'
    BY <1>1, <1>3, <1>5 DEF Reach, Moves
  <2> QED
    BY <2>1, <2>2, <2>3, <2>4, <2>5 DEF Reach
<1>7. stage'[i] = "sending" => stage[i] = "sending" \/ \A t \in Targets : t > Processed(i) => posts[i][t] = 0
  BY DEF Moves, Reach, Beyond
<1>8. Credit(i)'
  <2>1. \A t \in Targets : posts[i][t] \in Nat
    OBVIOUS
  <2> QED
    BY <1>1, <1>7, <2>1 DEF Credit, Moves
<1>9. Repeats(i)'
  <2>1. (\A t \in Targets : posts[i][t] <= Limit(i))' /\ (~settings[i].template => tries[i] = 0)'
    BY DEF Repeats, Limit, Moves
  <2>2. (stage[i] = "sending" => \A t \in Targets : t > Processed(i) => posts[i][t] <= tries[i])'
    BY <1>1, <1>7, ForwardAssumption DEF Repeats, Moves
  <2>3. (stage[i] = "delivered" => \A t \in Targets : t > Processed(i) => posts[i][t] <= tries[i] + 1)'
    BY <1>1 DEF Repeats, Moves
  <2> QED
    BY <2>1, <2>2, <2>3 DEF Repeats
<1> QED
  BY <1>4, <1>6, <1>8, <1>9

(* The target that is delivered is the first that is not counted.          *)
LEMMA DeliverTrue ==
  ASSUME TypeOK, NEW j \in Job, JobTrue(j), Deliver(j)
  PROVE  JobTrue(j)'
<1> DEFINE n == Processed(j) + 1
<1>1. /\ stage[j] = "sending" /\ stage'[j] = "delivered"
      /\ UNCHANGED <<status, sent, failed, tries, settings>>
  BY DEF TypeOK, Deliver, Step, Goto
<1>2. Processed(j) \in Nat /\ Processed(j) < Last /\ Last \in Nat /\ n \in Targets
  <2>1. Processed(j) \in Nat
    BY DEF TypeOK, Processed
  <2> QED
    BY <1>1, <2>1, ForwardAssumption DEF JobTrue, Reach, Targets
<1>3. /\ posts'[j][n] = posts[j][n] + 1 /\ posts[j][n] \in Nat
      /\ \A t \in Targets \ {n} : posts'[j][t] = posts[j][t] /\ posts[j][t] \in Nat
  <2>1. posts[j] \in [Targets -> Nat] /\ posts' = [posts EXCEPT ![j] = [posts[j] EXCEPT ![n] = posts[j][n] + 1]]
    BY DEF TypeOK, Deliver
  <2>2. posts'[j] = [posts[j] EXCEPT ![n] = posts[j][n] + 1]
    BY <2>1 DEF TypeOK
  <2> HIDE DEF n
  <2> QED
    BY <1>2, <2>1, <2>2
<1>4. Processed(j)' = Processed(j)
  BY <1>1 DEF Processed
<1>5. Beyond(j, n)'
  <2>1. Beyond(j, n)
    BY <1>1 DEF JobTrue, Reach, Live, InOperation
  <2>2. \A t \in Targets : t > n => t # n
    BY <1>2 DEF Targets
  <2> QED
    BY <1>3, <1>4, <2>1, <2>2 DEF Beyond
<1>6. Taken(j)' = Taken(j) \union {n}
  <2> HIDE DEF n
  <2> QED
    BY <1>2, <1>3 DEF Taken
<1>7. Credit(j)'
  <2>1. Cardinality(Taken(j)) \in Nat
    BY TakenFinite
  <2>2. sent[j] \in Nat /\ sent[j] <= Cardinality(Taken(j))
    BY DEF TypeOK, JobTrue, Credit
  <2>3. CASE n \in Taken(j)
    <3>1. sent[j] + 1 <= Cardinality(Taken(j))
      BY <1>1, <1>2, <2>3 DEF JobTrue, Credit, Taken
    <3>2. Taken(j)' = Taken(j)
      BY <1>6, <2>3
    <3> QED
      BY <1>1, <2>1, <2>2, <3>1, <3>2 DEF Credit
  <2>4. CASE n \notin Taken(j)
    <3>1. Cardinality(Taken(j)') = Cardinality(Taken(j)) + 1
      BY <1>6, <2>4, TakenFinite, FS_AddElement
    <3>2. sent[j] <= Cardinality(Taken(j)') /\ sent[j] + 1 <= Cardinality(Taken(j)')
      BY <2>1, <2>2, <3>1
    <3> QED
      BY <1>1, <3>2 DEF Credit
  <2> QED
    BY <2>3, <2>4
<1>8. Repeats(j)'
  <2>1. \A t \in Targets : t > Processed(j) => posts[j][t] <= tries[j]
    BY <1>1 DEF JobTrue, Repeats
  <2>2. tries[j] \in 0 .. Resends /\ Resends \in Nat
    BY ForwardAssumption DEF TypeOK
  <2>3. posts[j][n] <= tries[j]
    BY <1>2, <2>1
  <2>4. tries[j] + 1 <= Limit(j)
    BY <2>2 DEF JobTrue, Repeats, Limit
  <2>5. Limit(j)' = Limit(j)
    BY <1>1 DEF Limit
  <2>6. \A t \in Targets : posts'[j][t] <= Limit(j)
    <3> SUFFICES ASSUME NEW t \in Targets PROVE posts'[j][t] <= Limit(j)
      OBVIOUS
    <3>1. CASE t = n
      <4> HIDE DEF n
      <4>1. Limit(j) \in Nat
        BY <2>2 DEF Limit
      <4> QED
        BY <1>3, <2>2, <2>3, <2>4, <3>1, <4>1
    <3>2. CASE t # n
      BY <1>3, <3>2 DEF JobTrue, Repeats
    <3> QED
      BY <3>1, <3>2
  <2>7. \A t \in Targets : t > Processed(j) => posts'[j][t] <= tries[j] + 1
    <3> SUFFICES ASSUME NEW t \in Targets, t > Processed(j) PROVE posts'[j][t] <= tries[j] + 1
      OBVIOUS
    <3>1. posts[j][t] <= tries[j] /\ posts[j][t] \in Nat
      BY <2>1 DEF TypeOK
    <3>2. posts'[j][t] \in {posts[j][t], posts[j][t] + 1}
      <4> HIDE DEF n
      <4> QED
        BY <1>3
    <3> QED
      BY <2>2, <3>1, <3>2
  <2> QED
    BY <1>1, <1>4, <2>5, <2>6, <2>7 DEF JobTrue, Repeats
<1>9. Reach(j)' /\ Fresh(j)'
  BY <1>1, <1>2, <1>4, <1>5 DEF JobTrue, Reach, Fresh, Live, InOperation, Pending
<1> QED
  BY <1>7, <1>8, <1>9 DEF JobTrue

(* One more answer is lost, and the call may send once more.               *)
LEMMA ResendTrue ==
  ASSUME TypeOK, NEW j \in Job, JobTrue(j), Resend(j)
  PROVE  JobTrue(j)'
<1> USE DEF TypeOK
<1>1. /\ stage[j] = "delivered" /\ stage'[j] = "sending"
      /\ UNCHANGED <<status, sent, failed, posts, settings>>
      /\ settings[j].template /\ tries'[j] = tries[j] + 1
  BY DEF Resend, Step, Goto
<1>2. Processed(j)' = Processed(j) /\ Taken(j)' = Taken(j) /\ Limit(j)' = Limit(j)
  BY <1>1 DEF Processed, Taken, Limit
<1>3. ASSUME NEW n PROVE Beyond(j, n)' = Beyond(j, n)
  BY <1>1 DEF Beyond
<1>4. Reach(j)' /\ Fresh(j)'
  BY <1>1, <1>2, <1>3 DEF JobTrue, Reach, Fresh, Live, InOperation, Pending
<1>5. Credit(j)'
  BY <1>1, <1>2 DEF JobTrue, Credit
<1>6. Repeats(j)'
  BY <1>1, <1>2 DEF JobTrue, Repeats
<1> QED
  BY <1>4, <1>5, <1>6 DEF JobTrue

(* What Telegram took is never taken back.                                 *)
LEMMA DeliverTakes ==
  ASSUME TypeOK, NEW j \in Job, JobTrue(j), Deliver(j), NEW i \in Job
  PROVE  Cardinality(Taken(i)) <= Cardinality(Taken(i)')
<1>1. posts[i] \in [Targets -> Nat]
  BY DEF TypeOK
<1>2. posts' = [posts EXCEPT ![j] = [posts[j] EXCEPT ![Processed(j) + 1] = @ + 1]]
  BY DEF Deliver
<1>3. Taken(i) \subseteq Taken(i)'
  <2>1. CASE i # j
    BY <1>2, <2>1 DEF TypeOK, Taken
  <2>2. CASE i = j
    <3>1. posts'[i] = [posts[i] EXCEPT ![Processed(j) + 1] = @ + 1]
      BY <1>2, <2>2 DEF TypeOK
    <3>2. \A t \in Targets : posts[i][t] > 0 => posts'[i][t] > 0
      BY <1>1, <3>1
    <3> QED
      BY <3>2 DEF Taken
  <2> QED
    BY <2>1, <2>2
<1>4. IsFiniteSet(Taken(i)')
  <2>1. IsFiniteSet(Targets)
    BY FS_Interval, ForwardAssumption DEF Targets
  <2> QED
    BY <2>1, FS_Subset DEF Taken
<1> QED
  BY <1>3, <1>4, FS_Subset

(* The answer is counted if the job runs; otherwise no more is sent.       *)
LEMMA AnsweredTrue ==
  ASSUME TypeOK, NEW j \in Job, JobTrue(j), Answered(j)
  PROVE  JobTrue(j)'
<1> USE DEF TypeOK
<1>1. /\ stage[j] = "delivered" /\ UNCHANGED <<status, posts>>
      /\ Processed(j) < Last /\ Beyond(j, Processed(j) + 1)
      /\ sent[j] + 1 <= Cardinality(Taken(j)) /\ Processed(j) \in Nat
  BY DEF Answered, JobTrue, Reach, Credit, Processed, Live, InOperation
<1>2. stage'[j] \in {"next", "resting"} /\ (stage'[j] = "resting" => status[j] = "running")
  BY DEF Answered, Goto, AfterTarget
<1>3. Taken(j)' = Taken(j) /\ Cardinality(Taken(j)) \in Nat
  BY <1>1, TakenFinite DEF Taken
<1>4. Repeats(j)'
  BY <1>1, <1>2 DEF Answered, CallEnds, JobTrue, Repeats, Limit
<1>5. CASE status[j] = "running"
  <2>1. Processed(j)' = Processed(j) + 1 /\ sent'[j] \in {sent[j], sent[j] + 1}
    <3>1. sent[j] \in Nat /\ failed[j] \in Nat
      OBVIOUS
    <3>2. \/ sent'[j] = sent[j] + 1 /\ failed'[j] = failed[j]
          \/ sent'[j] = sent[j] /\ failed'[j] = failed[j] + 1
      BY <1>5 DEF Answered
    <3>3. Processed(j) = sent[j] + failed[j] /\ Processed(j)' = sent'[j] + failed'[j]
      BY DEF Processed
    <3> HIDE DEF TypeOK
    <3> QED
      BY <3>1, <3>2, <3>3
  <2>2. Beyond(j, Processed(j))' /\ Beyond(j, Processed(j) + 1)'
    BY <1>1, <2>1 DEF Beyond, Targets
  <2>3. Reach(j)'
    BY <1>1, <1>2, <1>5, <2>1, <2>2, ForwardAssumption DEF Reach
  <2> QED
    BY <1>1, <1>2, <1>3, <1>4, <2>1, <2>3 DEF JobTrue, Fresh, Credit, Pending
<1>6. CASE status[j] # "running"
  <2>1. Processed(j)' = Processed(j) /\ sent'[j] = sent[j]
    BY <1>6 DEF Answered, Processed
  <2>2. Beyond(j, Processed(j) + 1)'
    BY <1>1, <2>1 DEF Beyond, Targets
  <2>3. Reach(j)'
    BY <1>1, <1>2, <1>6, <2>1, <2>2, ForwardAssumption DEF Reach, JobTrue
  <2> QED
    BY <1>1, <1>2, <1>3, <1>4, <2>1, <2>3 DEF JobTrue, Fresh, Credit, Pending
<1> QED
  BY <1>5, <1>6

LEMMA RefusedTrue ==
  ASSUME TypeOK, NEW j \in Job, JobTrue(j), Refused(j)
  PROVE  JobTrue(j)'
<1> USE DEF TypeOK
<1>1. /\ stage[j] = "sending" /\ UNCHANGED <<status, sent, posts>>
      /\ Processed(j) < Last /\ Beyond(j, Processed(j) + 1)
      /\ sent[j] <= Cardinality(Taken(j)) /\ Processed(j) \in Nat
  BY DEF Refused, Step, JobTrue, Reach, Credit, Processed, Live, InOperation
<1>2. stage'[j] \in {"next", "resting"} /\ (stage'[j] = "resting" => status[j] = "running")
  BY DEF Refused, Step, Goto, AfterTarget
<1>3. Taken(j)' = Taken(j)
  BY <1>1 DEF Taken
<1>4. Repeats(j)'
  BY <1>1, <1>2 DEF Refused, Step, CallEnds, JobTrue, Repeats, Limit
<1>5. /\ Processed(j)' \in {Processed(j), Processed(j) + 1}
      /\ status[j] = "running" => Processed(j)' = Processed(j) + 1
  <2>1. sent'[j] = sent[j] /\ sent[j] \in Nat /\ failed[j] \in Nat
    BY DEF Refused
  <2>2. failed'[j] = IF status[j] = "running" THEN failed[j] + 1 ELSE failed[j]
    BY DEF Refused
  <2> QED
    BY <2>1, <2>2 DEF Processed
<1>6. Beyond(j, Processed(j) + 1)' /\ (status[j] = "running" => Beyond(j, Processed(j))')
  BY <1>1, <1>5 DEF Beyond, Targets
<1>7. Processed(j)' <= Last /\ (status[j] = "completed" => FALSE)
  BY <1>1, <1>5, ForwardAssumption DEF JobTrue, Reach
<1>8. Reach(j)'
  BY <1>1, <1>2, <1>6, <1>7 DEF Reach
<1> QED
  BY <1>1, <1>2, <1>3, <1>4, <1>8 DEF JobTrue, Fresh, Credit, Pending

(* The other jobs.                                                         *)
LEMMA OtherTrue ==
  ASSUME TypeOK, NEW i \in Job, JobTrue(i), stage'[i] = stage[i], status'[i] = status[i],
         sent'[i] = sent[i], failed'[i] = failed[i], posts'[i] = posts[i], tries'[i] = tries[i],
         settings'[i] = settings[i]
  PROVE  JobTrue(i)'
<1>1. Moves(i)
  BY DEF Moves
<1> QED
  BY <1>1, NothingSent

LEMMA RequestTrue ==
  ASSUME IInv, NEW j \in Job, Request(j), NEW i \in Job
  PROVE  JobTrue(i)'
<1> USE DEF IInv
<1>1. UNCHANGED <<sent, failed, posts, tries, settings>>
  BY DEF Request, Enter, RequestFails, StartRegisters, PreviewRegisters, Register, Launch
<1>2. Moves(i)
  <2>1. i # j => stage'[i] = stage[i] /\ status'[i] = status[i]
    BY DEF TypeOK, Request, Enter, RequestFails, StartRegisters, PreviewRegisters, Register, Launch, Goto
  <2>2. status'[j] \in {status[j], "running", "idle"}
    BY DEF TypeOK, Request, Enter, RequestFails, StartRegisters, PreviewRegisters, Register, Launch
  <2>3. \/ stage[j] \in Unsent /\ stage'[j] \in {"listing", "fetching", "announced", "created"}
        \/ stage'[j] = "over"
    BY DEF TypeOK, Request, Enter, RequestFails, StartRegisters, PreviewRegisters, Register, Launch, Goto, Unsent,
      Pending
  <2> QED
    BY <1>1, <2>1, <2>2, <2>3 DEF Moves, Unsent, Pending, Live, InOperation
<1> QED
  BY <1>1, <1>2, NothingSent

LEMMA CancelTrue ==
  ASSUME IInv, Cancel, NEW i \in Job
  PROVE  JobTrue(i)'
<1> USE DEF IInv
<1>1. UNCHANGED <<sent, failed, posts, settings>>
  BY DEF Cancel
<1>2. Moves(i)
  <2>1. status'[i] \in {status[i], "cancelled"} /\ (status[i] # "running" => status'[i] = status[i])
    BY DEF TypeOK, Cancel
  <2>2. stage'[i] = stage[i] \/ (stage[i] \in Live /\ stage'[i] \in {"over", "cancelling"})
    BY DEF TypeOK, Cancel, Busy, Goto
  <2>3. tries'[i] \in {0, tries[i]} /\ (tries'[i] = tries[i] \/ stage'[i] \in {"over", "cancelling"})
    BY DEF TypeOK, Cancel, Busy, Goto
  <2> QED
    BY <2>1, <2>2, <2>3 DEF Moves, Unsent, Pending, Live, InOperation
<1> QED
  BY <1>1, <1>2, NothingSent

LEMMA TaskTrue ==
  ASSUME IInv, NEW j \in Job, TaskStep(j), NEW i \in Job
  PROVE  JobTrue(i)'
<1> USE DEF IInv
<1>1. CASE i # j
  <2>1. stage'[i] = stage[i] /\ status'[i] = status[i] /\ sent'[i] = sent[i] /\ failed'[i] = failed[i]
    BY <1>1 DEF TypeOK, TaskStep, Begin, TakeLock, ConnectFails, Forward, Deliver, Resend, Answered, Refused, CallEnds, Rest,
      OperationEnds, Cancelled, Leave, Step, Close, Goto
  <2>2. posts'[i] = posts[i] /\ tries'[i] = tries[i] /\ settings'[i] = settings[i]
    BY <1>1 DEF TypeOK, TaskStep, Begin, TakeLock, ConnectFails, Forward, Deliver, Resend, Answered, Refused, CallEnds, Rest,
      OperationEnds, Cancelled, Leave, Step, Close
  <2> QED
    BY <2>1, <2>2, OtherTrue
<1>2. CASE i = j /\ (Deliver(j) \/ Resend(j) \/ Answered(j) \/ Refused(j))
  BY <1>2, DeliverTrue, ResendTrue, AnsweredTrue, RefusedTrue
<1>3. CASE i = j /\ ~(Deliver(j) \/ Resend(j) \/ Answered(j) \/ Refused(j))
  <2>1. UNCHANGED <<sent, failed, posts, tries, settings>>
    BY <1>3 DEF TaskStep, Begin, TakeLock, ConnectFails, Forward, Rest, OperationEnds, Cancelled, Leave, Step, Close
  <2>2. \/ stage[j] = "created" /\ stage'[j] = "queued" /\ status'[j] = status[j]
        \/ stage[j] \in {"queued", "resting"} /\ stage'[j] = "next" /\ status'[j] = status[j]
        \/ stage[j] = "next" /\ stage'[j] = "sending" /\ status'[j] = status[j]
             /\ status[j] = "running" /\ Processed(j) < Last
        \/ stage[j] \in Live \union Unsent /\ stage'[j] = "closing"
             /\ (status'[j] = "completed" => status[j] = "completed" \/ Processed(j) = Last)
        \/ stage'[j] = "over" /\ status'[j] = status[j]
    BY <1>3 DEF TypeOK, TaskStep, Begin, TakeLock, ConnectFails, Forward, Rest, OperationEnds, Cancelled, Leave, Step,
      Close, Goto, Live, InOperation
  <2>3. Moves(j)
    BY <2>1, <2>2 DEF Moves, Unsent, Pending, Live, InOperation
  <2> QED
    BY <1>3, <2>1, <2>3, NothingSent
<1> QED
  BY <1>1, <1>2, <1>3

LEMMA RestartTrue ==
  ASSUME IInv, Restart, NEW i \in Job
  PROVE  JobTrue(i)'
<1> USE DEF IInv
<1>1. /\ stage'[i] \in {"new", "over"} /\ (stage'[i] = "new" => stage[i] = "new")
      /\ UNCHANGED <<posts, settings>>
      /\ tries'[i] = 0
  BY DEF TypeOK, Restart
<1>2. CASE file = None
  <2>1. UNCHANGED <<status, sent, failed>>
    BY <1>2 DEF Restart
  <2>2. Moves(i)
    BY <1>1, <2>1 DEF Moves, Unsent, Pending, Live, InOperation
  <2> QED
    BY <1>1, <2>1, <2>2, NothingSent
<1>3. CASE file # None /\ i # file.job
  <2>1. status'[i] = "idle" /\ sent'[i] = sent[i] /\ failed'[i] = failed[i]
    BY <1>3 DEF TypeOK, Restart, Recovered, Snapshot
  <2>2. Moves(i)
    BY <1>1, <2>1 DEF Moves, Unsent, Pending, Live, InOperation
  <2> QED
    BY <1>1, <2>1, <2>2, NothingSent
<1>4. CASE file # None /\ i = file.job
  <2>1. /\ status'[i] = (IF file.status = "running" THEN "failed" ELSE file.status)
        /\ sent'[i] = file.sent /\ failed'[i] = file.failed
    <3>1. file \in Snapshot
      BY <1>4 DEF TypeOK
    <3>2. /\ Recovered(file).job = file.job /\ Recovered(file).sent = file.sent /\ Recovered(file).failed = file.failed
          /\ Recovered(file).status = IF file.status = "running" THEN "failed" ELSE file.status
      BY <3>1 DEF Recovered, Snapshot
    <3> QED
      BY <1>4, <3>2 DEF TypeOK, Restart
  <2>2. stage'[i] = "over"
    BY <1>4 DEF TypeOK, Restart, FileTrue, Early
  <2>3. Taken(i)' = Taken(i)
    BY <1>1 DEF Taken
  <2>4. Processed(i)' = file.sent + file.failed
    BY <2>1 DEF Processed
  <2>5. Repeats(i)'
    BY <1>1, <2>2 DEF JobTrue, Repeats, Limit
  <2> QED
    BY <1>1, <1>4, <2>1, <2>2, <2>3, <2>4, <2>5
    DEF FileTrue, JobTrue, Fresh, Reach, Credit, Pending, Live, InOperation
<1> QED
  BY <1>2, <1>3, <1>4
---------------------------------------------------------------------------
(* The file.                                                               *)

(* A file that is written tells of its job as it is.                       *)
LEMMA SavedTrue ==
  ASSUME TypeOK, NEW j \in Job, JobTrue(j), NEW st \in Status, file' = Saved(j, st),
         stage'[j] \notin Early, st = "completed" => Processed(j) = Last, posts' = posts
  PROVE  FileTrue'
<1>1. /\ file'.job = j /\ file'.status = st /\ file'.sent = sent[j] /\ file'.failed = failed[j]
  BY DEF Saved
<1>2. file' # None
  BY SavedType, ForwardAssumption
<1>3. Taken(j)' = Taken(j)
  BY DEF Taken
<1>4. sent[j] + failed[j] <= Last /\ sent[j] <= Cardinality(Taken(j))
  BY DEF JobTrue, Reach, Credit, Processed
<1> QED
  BY <1>1, <1>2, <1>3, <1>4 DEF FileTrue, Processed

(* A file that is not written stays true.                                  *)
LEMMA FileKept ==
  ASSUME IInv, UNCHANGED <<file, status>>,
         \A i \in Job : stage'[i] \in Early => stage[i] \in Early,
         \A i \in Job : Cardinality(Taken(i)) <= Cardinality(Taken(i)')
  PROVE  FileTrue'
<1>1. CASE file = None
  BY <1>1 DEF IInv, FileTrue
<1>2. CASE file # None
  <2>1. file.job \in Job /\ file.sent \in Nat
    BY <1>2, ForwardAssumption DEF IInv, TypeOK, Snapshot
  <2>2. Cardinality(Taken(file.job)) \in Nat /\ Cardinality(Taken(file.job)) <= Cardinality(Taken(file.job)')
    BY <2>1, TakenFinite
  <2>3. Cardinality(Taken(file.job)') \in Nat
    <3>1. IsFiniteSet(Targets)
      BY FS_Interval, ForwardAssumption DEF Targets
    <3> QED
      BY <3>1, FS_Subset, FS_CardinalityType DEF Taken
  <2>4. file.sent <= Cardinality(Taken(file.job)')
    BY <1>2, <2>1, <2>2, <2>3 DEF IInv, FileTrue
  <2> QED
    BY <1>2, <2>1, <2>4 DEF IInv, FileTrue
<1> QED
  BY <1>1, <1>2

LEMMA SameTaken ==
  ASSUME posts' = posts, NEW i \in Job
  PROVE  Cardinality(Taken(i)) <= Cardinality(Taken(i)')
<1>1. Taken(i)' = Taken(i)
  BY DEF Taken
<1> QED
  BY <1>1, TakenFinite

LEMMA RequestFile ==
  ASSUME IInv, NEW j \in Job, Request(j)
  PROVE  FileTrue'
<1> USE DEF IInv
<1>1. CASE Enter(j, "listing") \/ Enter(j, "fetching") \/ RequestFails(j) \/ Launch(j)
  <2>1. UNCHANGED <<file, status, posts>>
    BY <1>1 DEF Enter, RequestFails, Launch
  <2>2. \A i \in Job : stage'[i] \in Early => stage[i] \in Early
    BY <1>1 DEF TypeOK, Enter, RequestFails, Launch, Goto, Early
  <2> QED
    BY <2>1, <2>2, FileKept, SameTaken
<1>2. ASSUME NEW st \in {"running", "idle"}, NEW s \in {"announced", "over"}, Register(j, st), Goto(j, s)
      PROVE  FileTrue'
  <2>1. file' = Saved(j, st) /\ posts' = posts /\ stage'[j] \notin Early /\ st \in Status
    BY <1>2 DEF TypeOK, Register, Goto, Early, Status
  <2> QED
    BY <2>1, SavedTrue
<1> QED
  BY <1>1, <1>2 DEF Request, StartRegisters, PreviewRegisters

LEMMA CancelFile == IInv /\ Cancel => FileTrue'
<1> SUFFICES ASSUME IInv, Cancel PROVE FileTrue'
  OBVIOUS
<1> USE DEF IInv
<1>1. shown \in Job /\ file' = Saved(shown, status'[shown]) /\ posts' = posts
  BY DEF TypeOK, Cancel
<1>2. status'[shown] \in Status /\ (status'[shown] = "completed" => status[shown] = "completed")
  BY <1>1 DEF TypeOK, Cancel, Status
<1>3. stage'[shown] \notin Early
  BY <1>1 DEF TypeOK, Control, StatusTrue, Cancel, Busy, Goto, Early
<1>4. status'[shown] = "completed" => Processed(shown) = Last
  BY <1>1, <1>2 DEF JobTrue, Reach
<1> QED
  BY <1>1, <1>2, <1>3, <1>4, SavedTrue

LEMMA TaskFile ==
  ASSUME IInv, NEW j \in Job, TaskStep(j)
  PROVE  FileTrue'
<1> USE DEF IInv
<1>1. CASE ConnectFails(j) \/ OperationEnds(j) \/ Cancelled(j)
  <2>1. PICK st \in Status : file' = Saved(j, st) /\ posts' = posts /\ (st = "completed" => Processed(j) = Last)
    <3>1. status[j] \in Status /\ (status[j] = "completed" => Processed(j) = Last)
      BY DEF TypeOK, JobTrue, Reach
    <3> QED
      BY <1>1, <3>1 DEF ConnectFails, OperationEnds, Cancelled, Close, Status
  <2>2. stage'[j] \notin Early
    BY <1>1 DEF TypeOK, ConnectFails, OperationEnds, Cancelled, Step, Goto, Early
  <2> QED
    BY <2>1, <2>2, SavedTrue
<1>2. CASE ~(ConnectFails(j) \/ OperationEnds(j) \/ Cancelled(j))
  <2>1. UNCHANGED <<file, status>>
    BY <1>2 DEF TaskStep, Begin, TakeLock, Forward, Deliver, Resend, Answered, Refused, Rest, Leave, Step
  <2>2. \A i \in Job : stage'[i] \in Early => stage[i] \in Early
    BY <1>2 DEF TypeOK, TaskStep, Begin, TakeLock, Forward, Deliver, Resend, Answered, Refused, Rest, Leave, Step, Goto, Early,
      AfterTarget
  <2>3. CASE Deliver(j)
    BY <2>1, <2>2, <2>3, DeliverTakes, FileKept
  <2>4. CASE ~Deliver(j)
    <3>1. posts' = posts
      BY <1>2, <2>4 DEF TaskStep, Begin, TakeLock, Forward, Resend, Answered, Refused, Rest, Leave, Step
    <3> QED
      BY <2>1, <2>2, <3>1, SameTaken, FileKept
  <2> QED
    BY <2>3, <2>4
<1> QED
  BY <1>1, <1>2

LEMMA RestartFile == IInv /\ Restart => FileTrue'
<1> SUFFICES ASSUME IInv, Restart PROVE FileTrue'
  OBVIOUS
<1> USE DEF IInv
<1>1. \A i \in Job : stage'[i] \in Early => stage[i] \in Early
  BY DEF TypeOK, Restart, Early
<1>2. posts' = posts
  BY DEF Restart
<1>3. CASE file = None
  BY <1>1, <1>2, <1>3, SameTaken, FileKept DEF Restart
<1>4. CASE file # None
  <2>1. file \in Snapshot
    BY <1>4 DEF TypeOK
  <2>2. /\ file'.job = file.job /\ file'.sent = file.sent /\ file'.failed = file.failed
        /\ file'.status = (IF file.status = "running" THEN "failed" ELSE file.status)
        /\ file' \in Snapshot
    BY <1>4, <2>1 DEF Restart, Recovered, Snapshot, Status
  <2>3. file' # None /\ file.job \in Job
    BY <2>1, <2>2, ForwardAssumption DEF Snapshot
  <2>4. PICK k \in Job : k = file.job /\ k = file'.job
    BY <2>2, <2>3
  <2>5. Taken(k)' = Taken(k)
    BY <1>2 DEF Taken
  <2> QED
    BY <1>1, <1>4, <2>2, <2>3, <2>4, <2>5 DEF FileTrue
<1> QED
  BY <1>3, <1>4
---------------------------------------------------------------------------
(* Who runs, and what a cancel leaves.                                     *)

LEMMA RequestControl ==
  ASSUME IInv, NEW j \in Job, Request(j)
  PROVE  Control'
<1> USE DEF IInv, Control
<1>1. CASE Enter(j, "listing") \/ Enter(j, "fetching")
  <2>1. /\ stage[j] = "new" /\ ~Busy /\ stage'[j] \in {"listing", "fetching"} /\ ~quiet'
        /\ \A i \in Job \ {j} : stage'[i] = stage[i]
        /\ UNCHANGED <<status, shown, handle>>
        /\ ~overlap' => ~overlap /\ \A i \in Job : stage[i] \notin Pending
    BY <1>1 DEF TypeOK, Enter, Goto
  <2>2. StatusTrue'
    BY <2>1 DEF TypeOK, StatusTrue, RunningIsAlive, Early, Pending, Live, InOperation
  <2>3. ~overlap' => \A i \in Job : stage[i] \notin Pending \union Live
    BY <2>1, ForwardAssumption DEF TypeOK, OneOnItsWay, Busy
  <2>4. OneOnItsWay'
    BY <2>1, <2>3 DEF TypeOK, OneOnItsWay, Pending, Live, InOperation
  <2> QED
    BY <2>1, <2>2, <2>4 DEF QuietHolds, CancelHolds
<1>2. CASE RequestFails(j)
  <2>1. /\ stage[j] \in {"listing", "fetching"} /\ stage'[j] = "over"
        /\ \A i \in Job \ {j} : stage'[i] = stage[i]
        /\ UNCHANGED <<status, shown, handle, overlap, quiet>>
    BY <1>2 DEF TypeOK, RequestFails, Goto
  <2> QED
    BY <2>1 DEF TypeOK, StatusTrue, RunningIsAlive, OneOnItsWay, QuietHolds, CancelHolds, Early, Pending, Live,
      InOperation
<1>3. CASE StartRegisters(j)
  <2>1. /\ stage[j] = "listing" /\ stage'[j] = "announced"
        /\ \A i \in Job \ {j} : stage'[i] = stage[i] /\ status'[i] = status[i]
        /\ status'[j] = "running" /\ shown' = j /\ UNCHANGED <<handle, overlap, quiet>>
    BY <1>3 DEF TypeOK, StartRegisters, Register, Goto
  <2>2. StatusTrue'
    <3>1. \A i \in Job : stage[i] \in Early => status[i] = "idle"
      BY DEF StatusTrue
    <3>2. \A i \in Job : stage'[i] \in Early => status'[i] = "idle"
      BY <2>1, <3>1 DEF Early
    <3>3. \A i \in Job : stage'[i] = "closing" => status'[i] # "running"
      BY <2>1 DEF StatusTrue
    <3>4. stage'[shown'] \notin Early
      BY <2>1 DEF Early
    <3>5. RunningIsAlive'
      BY <2>1 DEF RunningIsAlive
    <3> QED
      BY <3>2, <3>3, <3>4, <3>5 DEF StatusTrue
  <2>3. OneOnItsWay'
    <3> SUFFICES ASSUME ~overlap  PROVE OneOnItsWay'
      BY <2>1 DEF OneOnItsWay
    <3>1. \A i \in Job \ {j} : stage[i] \notin Pending \union Live
      BY <2>1 DEF OneOnItsWay, Pending
    <3>2. \A i \in Job \ {j} : status[i] # "running"
      BY <3>1 DEF OneOnItsWay, Pending
    <3>3. stage'[j] \notin Live
      BY <2>1 DEF Live, InOperation
    <3>4. \A i \in Job : stage'[i] \in Pending \union Live => i = j
      BY <2>1, <3>1
    <3>5. \A i \in Job : stage'[i] \notin Live
      BY <2>1, <3>1, <3>3
    <3>6. \A i \in Job : status'[i] = "running" => shown' = i /\ stage'[i] \in Live \union {"announced"}
      BY <2>1, <3>2
    <3> QED
      BY <3>4, <3>5, <3>6 DEF OneOnItsWay
  <2>4. QuietHolds'
    BY <2>1 DEF TypeOK, QuietHolds, CancelHolds
  <2> QED
    BY <2>2, <2>3, <2>4
<1>4. CASE PreviewRegisters(j)
  <2>1. /\ stage[j] = "fetching" /\ stage'[j] = "over"
        /\ \A i \in Job \ {j} : stage'[i] = stage[i] /\ status'[i] = status[i]
        /\ status'[j] = "idle" /\ shown' = j /\ UNCHANGED <<handle, overlap, quiet>>
    BY <1>4 DEF TypeOK, PreviewRegisters, Register, Goto
  <2>2. StatusTrue'
    <3>1. \A i \in Job : stage[i] \in Early => status[i] = "idle"
      BY DEF StatusTrue
    <3>2. \A i \in Job : stage'[i] \in Early => status'[i] = "idle"
      BY <2>1, <3>1 DEF Early
    <3>3. \A i \in Job : stage'[i] = "closing" => status'[i] # "running"
      BY <2>1 DEF StatusTrue
    <3>4. stage'[shown'] \notin Early
      BY <2>1 DEF Early
    <3>5. RunningIsAlive'
      BY <2>1 DEF RunningIsAlive
    <3> QED
      BY <3>2, <3>3, <3>4, <3>5 DEF StatusTrue
  <2>3. OneOnItsWay'
    <3> SUFFICES ASSUME ~overlap  PROVE OneOnItsWay'
      BY <2>1 DEF OneOnItsWay
    <3>1. \A i \in Job \ {j} : stage[i] \notin Pending \union Live
      BY <2>1 DEF OneOnItsWay, Pending
    <3>2. \A i \in Job \ {j} : status[i] # "running"
      BY <3>1 DEF OneOnItsWay, Pending
    <3>3. stage'[j] \notin Live
      BY <2>1 DEF Live, InOperation
    <3>4. \A i \in Job : stage'[i] \in Pending \union Live => i = j
      BY <2>1, <3>1
    <3>5. \A i \in Job : stage'[i] \notin Live
      BY <2>1, <3>1, <3>3
    <3>6. \A i \in Job : status'[i] = "running" => shown' = i /\ stage'[i] \in Live \union {"announced"}
      BY <2>1, <3>2
    <3> QED
      BY <3>4, <3>5, <3>6 DEF OneOnItsWay
  <2>4. QuietHolds'
    BY <2>1 DEF TypeOK, QuietHolds, CancelHolds
  <2> QED
    BY <2>2, <2>3, <2>4
<1>5. CASE Launch(j)
  <2>1. /\ stage[j] = "announced" /\ stage'[j] = "created"
        /\ \A i \in Job \ {j} : stage'[i] = stage[i]
        /\ handle' = j /\ UNCHANGED <<status, shown, overlap, quiet>>
    BY <1>5 DEF TypeOK, Launch, Goto
  <2>2. StatusTrue'
    BY <2>1 DEF TypeOK, StatusTrue, RunningIsAlive, Early, Pending, Live, InOperation
  <2>3. OneOnItsWay'
    BY <2>1 DEF TypeOK, OneOnItsWay, Pending, Live, InOperation
  <2>4. QuietHolds'
    BY <2>1 DEF TypeOK, QuietHolds, CancelHolds
  <2> QED
    BY <2>2, <2>3, <2>4
<1> QED
  BY <1>1, <1>2, <1>3, <1>4, <1>5 DEF Request

LEMMA CancelControl == IInv /\ Cancel => Control'
<1> SUFFICES ASSUME IInv, Cancel PROVE Control'
  OBVIOUS
<1> USE DEF IInv, Control
<1>1. /\ shown \in Job /\ UNCHANGED <<shown, handle, overlap>>
      /\ status'[shown] # "running" /\ \A i \in Job \ {shown} : status'[i] = status[i]
      /\ \A i \in Job : status'[i] \in {status[i], "cancelled"} /\ (status[i] # "running" => status'[i] = status[i])
      /\ quiet' => \A i \in Job : stage[i] \notin {"listing", "fetching"}
  BY DEF TypeOK, Cancel
<1>2. /\ \A i \in Job : i # handle => stage'[i] = stage[i]
      /\ \A i \in Job : stage'[i] = stage[i] \/ (stage[i] \in Live /\ stage'[i] \in {"over", "cancelling"})
      /\ \A i \in Job : i = handle /\ stage[i] \in Live => stage'[i] \in {"over", "cancelling"}
  BY ForwardAssumption DEF TypeOK, Cancel, Busy, Goto
<1>3. StatusTrue'
  <2>1. \A i \in Job : stage'[i] \in Early => status'[i] = "idle"
    BY <1>1, <1>2 DEF StatusTrue, Early
  <2>2. \A i \in Job : stage'[i] = "closing" => status'[i] # "running"
    BY <1>1, <1>2 DEF StatusTrue
  <2>3. shown' # None => stage'[shown'] \notin Early
    BY <1>1, <1>2 DEF StatusTrue, Early
  <2>4. RunningIsAlive'
    BY <1>1 DEF RunningIsAlive
  <2> QED
    BY <2>1, <2>2, <2>3, <2>4 DEF StatusTrue
<1>4. OneOnItsWay'
  BY <1>1, <1>2 DEF TypeOK, OneOnItsWay, Pending, Live, InOperation
<1>5. QuietHolds'
  <2>1. ASSUME ~overlap, NEW i \in Job
        PROVE  status'[i] # "running" /\ stage'[i] \notin {"sending", "delivered", "resting"}
    <3>1. status'[i] # "running"
      BY <1>1, <2>1 DEF OneOnItsWay
    <3>2. stage[i] \in {"sending", "delivered", "resting"} => i = handle /\ stage[i] \in Live
      BY <2>1 DEF OneOnItsWay, Live, InOperation
    <3> QED
      BY <1>2, <3>1, <3>2
  <2>2. quiet' => \A i \in Job : stage'[i] \notin {"listing", "fetching"}
    BY <1>1, <1>2
  <2> QED
    BY <1>1, <2>1, <2>2 DEF QuietHolds, CancelHolds
<1> QED
  BY <1>3, <1>4, <1>5

LEMMA TaskControl ==
  ASSUME IInv, NEW j \in Job, TaskStep(j)
  PROVE  Control'
<1> USE DEF IInv, Control
<1>1. /\ \A i \in Job \ {j} : stage'[i] = stage[i] /\ status'[i] = status[i]
      /\ UNCHANGED <<shown, overlap, quiet>>
  BY DEF TypeOK, TaskStep, Begin, TakeLock, ConnectFails, Forward, Deliver, Resend, Answered, Refused, Rest,
    OperationEnds, Cancelled, Leave, Step, Close, Goto
<1>2. CASE Leave(j)
  <2>1. stage[j] = "closing" /\ stage'[j] = "over" /\ handle' = None /\ status' = status
    BY <1>2 DEF TypeOK, Leave, Goto
  <2>2. StatusTrue'
    <3>1. \A i \in Job : stage'[i] \in Early \union {"closing"} => i # j /\ stage'[i] = stage[i]
      BY <1>1, <2>1 DEF Early
    <3>2. RunningIsAlive'
      BY <1>1, <2>1 DEF TypeOK, StatusTrue, RunningIsAlive
    <3>3. shown' # None => stage'[shown'] \notin Early
      BY <1>1, <2>1 DEF TypeOK, StatusTrue, Early
    <3> QED
      BY <2>1, <3>1, <3>2, <3>3 DEF StatusTrue
  <2>3. OneOnItsWay'
    BY <1>1, <2>1 DEF StatusTrue, OneOnItsWay, Pending, Live, InOperation
  <2>4. QuietHolds'
    BY <1>1, <2>1 DEF QuietHolds, CancelHolds
  <2> QED
    BY <2>2, <2>3, <2>4
<1>3. CASE ConnectFails(j) \/ OperationEnds(j) \/ Cancelled(j)
  <2>1. stage[j] \in Live /\ stage'[j] = "closing" /\ handle' = handle /\ status'[j] # "running"
    BY <1>3 DEF TypeOK, ConnectFails, OperationEnds, Cancelled, Close, Step, Goto, Live, InOperation
  <2> QED
    BY <1>1, <2>1 DEF TypeOK, StatusTrue, RunningIsAlive, OneOnItsWay, QuietHolds, CancelHolds, Early, Pending, Live,
      InOperation
<1>4. CASE ~(Leave(j) \/ ConnectFails(j) \/ OperationEnds(j) \/ Cancelled(j))
  <2>1. /\ stage[j] \in Live /\ stage'[j] \in Live \ {"closing"} /\ handle' = handle /\ status' = status
        /\ stage'[j] \in {"sending", "delivered", "resting"} =>
             status[j] = "running" \/ stage[j] \in {"sending", "delivered"}
    BY <1>4 DEF TypeOK, TaskStep, Begin, TakeLock, Forward, Deliver, Resend, Answered, Refused, Rest, AfterTarget, Step, Goto,
      Live, InOperation
  <2> QED
    BY <1>1, <2>1 DEF TypeOK, StatusTrue, RunningIsAlive, OneOnItsWay, QuietHolds, CancelHolds, Early, Pending, Live,
      InOperation
<1> QED
  BY <1>2, <1>3, <1>4

LEMMA RestartControl == IInv /\ Restart => Control'
<1> SUFFICES ASSUME IInv, Restart PROVE Control'
  OBVIOUS
<1> USE DEF IInv, Control
<1>1. \A i \in Job : stage'[i] \in {"new", "over"} /\ (stage'[i] = "new" => stage[i] = "new")
  BY DEF TypeOK, Restart
<1>2. \A i \in Job : status'[i] # "running" /\ (stage'[i] = "new" => status'[i] = "idle")
  <2>1. CASE file = None
    BY <1>1, <2>1 DEF Restart, FileTrue
  <2>2. CASE file # None
    <3>1. /\ Recovered(file).job = file.job /\ stage[file.job] # "new"
          /\ Recovered(file).status # "running"
      BY <2>2 DEF TypeOK, Recovered, Snapshot, FileTrue, Early
    <3> QED
      BY <1>1, <2>2, <3>1 DEF Restart
  <2> QED
    BY <2>1, <2>2
<1>3. shown' # None => stage'[shown'] \notin Early
  <2>1. CASE file = None
    BY <1>1, <2>1 DEF TypeOK, Restart, StatusTrue, Early
  <2>2. CASE file # None
    <3>1. shown' = file.job /\ file.job \in Job
      BY <2>2 DEF TypeOK, Restart, Recovered, Snapshot
    <3> QED
      BY <1>1, <2>2, <3>1 DEF FileTrue, Early
  <2> QED
    BY <2>1, <2>2
<1>4. shown' \in Job \union {None}
  BY RestartTypes DEF TypeOK
<1> QED
  BY <1>1, <1>2, <1>3, <1>4
  DEF StatusTrue, RunningIsAlive, OneOnItsWay, QuietHolds, CancelHolds, Early, Pending, Live, InOperation

LEMMA StepHolds == IInv /\ [Next]_vars => IInv'
<1> SUFFICES ASSUME IInv, [Next]_vars PROVE IInv'
  OBVIOUS
<1>1. CASE \E j \in Job : Request(j)
  BY <1>1, RequestTypes, RequestTrue, RequestFile, RequestControl DEF IInv
<1>2. CASE \E j \in Job : TaskStep(j)
  BY <1>2, TaskTypes, TaskTrue, TaskFile, TaskControl DEF IInv
<1>3. CASE Cancel
  BY <1>3, CancelTypes, CancelTrue, CancelFile, CancelControl DEF IInv
<1>4. CASE Restart
  BY <1>4, RestartTypes, RestartTrue, RestartFile, RestartControl DEF IInv
<1>5. CASE UNCHANGED vars
  <2>1. TypeOK'
    BY <1>5 DEF vars, IInv, TypeOK
  <2>2. ASSUME NEW i \in Job PROVE JobTrue(i)'
    BY <1>5, OtherTrue DEF vars, IInv
  <2>3. FileTrue'
    BY <1>5, FileKept, SameTaken DEF vars
  <2>4. Control'
    BY <1>5 DEF vars, IInv, Control, StatusTrue, RunningIsAlive, OneOnItsWay, QuietHolds, CancelHolds
  <2> QED
    BY <2>1, <2>2, <2>3, <2>4 DEF IInv
<1> QED
  BY <1>1, <1>2, <1>3, <1>4, <1>5 DEF Next

---------------------------------------------------------------------------
(* The theorems.                                                           *)

(* The invariant holds in every state of every behaviour.                  *)
THEOREM InvariantHolds == Spec => []IInv
BY InitHolds, StepHolds, PTL DEF Spec

(* The state has its type: no counter exceeds the number of targets.       *)
THEOREM TypeCorrect == Spec => []TypeOK
<1>1. IInv => TypeOK
  BY DEF IInv
<1> QED
  BY <1>1, InvariantHolds, PTL

(* Requests that do not overlap never bring two tasks to forward for one   *)
(* account.                                                                *)
THEOREM TasksAreAlone == Spec => []OneTaskPerSlot
<1>1. IInv => OneTaskPerSlot
  BY DEF IInv, Control, OneOnItsWay, OneTaskPerSlot
<1> QED
  BY <1>1, InvariantHolds, PTL

(* A cancel with no request on its way holds.                              *)
THEOREM CancelsHold == Spec => []CancelHolds
<1>1. IInv => CancelHolds
  BY DEF IInv, Control, QuietHolds
<1> QED
  BY <1>1, InvariantHolds, PTL

(* A target gets a job's post once and its template at most once per try   *)
(* of one call, and the counters tell what Telegram took, for any number   *)
(* of targets and of tries.                                                *)
THEOREM CountersTrue == Spec => []CountsTrue
<1>1. IInv => CountsTrue
  <2> SUFFICES ASSUME IInv, NEW j \in Job
               PROVE  /\ \A t \in Targets : posts[j][t] <= Limit(j)
                      /\ sent[j] <= Cardinality(Taken(j))
                      /\ stage[j] \in Live => Cardinality(Taken(j)) <= Processed(j) + 1
                      /\ status[j] = "completed" => Processed(j) = Last
    BY DEF CountsTrue, Taken, Limit
  <2>1. JobTrue(j) /\ TypeOK
    BY DEF IInv
  <2>2. Processed(j) + 1 \in Nat
    BY <2>1 DEF TypeOK, Processed
  <2>3. stage[j] \in Live => Cardinality(Taken(j)) <= Processed(j) + 1
    BY <2>1, <2>2, TakenWithin DEF JobTrue, Reach
  <2> QED
    BY <2>1, <2>3 DEF JobTrue, Reach, Credit, Repeats
<1> QED
  BY <1>1, InvariantHolds, PTL

(* What is shown as running has a task or is about to get one.             *)
THEOREM RunningJobsLive == Spec => []RunningIsAlive
<1>1. IInv => RunningIsAlive
  BY DEF IInv, Control, StatusTrue
<1> QED
  BY <1>1, InvariantHolds, PTL

(* The slot lock: at most one job is in its run_group_operation and hands  *)
(* messages to Telegram, also when requests overlapped, both passed        *)
(* _ensure_not_busy and two tasks are there.                               *)
OneJobSends ==
  \A i, j \in Job : stage[i] \in InOperation /\ stage[j] \in InOperation => i = j

LEMMA LockIsTaken ==
  ASSUME TypeOK, OneJobSends, Next
  PROVE  OneJobSends'
<1> USE DEF OneJobSends, TypeOK
<1>1. ASSUME NEW j \in Job, NEW s, Goto(j, s), s \notin InOperation \/ stage[j] \in InOperation \/ LockFree
      PROVE  OneJobSends'
  BY <1>1 DEF Goto, LockFree
<1>2. ASSUME NEW j \in Job, Request(j)
      PROVE  OneJobSends'
  BY <1>1, <1>2 DEF Request, Enter, RequestFails, StartRegisters, PreviewRegisters, Launch, InOperation
<1>3. ASSUME NEW j \in Job, TaskStep(j)
      PROVE  OneJobSends'
  <2>1. CASE Begin(j) \/ ConnectFails(j) \/ OperationEnds(j) \/ Cancelled(j) \/ Leave(j)
    BY <1>1, <2>1 DEF Begin, ConnectFails, OperationEnds, Cancelled, Leave, Step, InOperation
  <2>2. CASE TakeLock(j)
    BY <1>1, <2>2 DEF TakeLock, Step
  <2>3. CASE Forward(j) \/ Deliver(j) \/ Resend(j) \/ Answered(j) \/ Refused(j) \/ Rest(j)
    BY <1>1, <2>3 DEF Forward, Deliver, Resend, Answered, Refused, Rest, Step, InOperation
  <2> QED
    BY <1>3, <2>1, <2>2, <2>3 DEF TaskStep
<1>4. CASE Cancel
  <2>1. ASSUME Busy
        PROVE  handle \in Job /\ \E s \in {"over", "cancelling"} : Goto(handle, s)
    BY <1>4, <2>1 DEF Cancel, Busy
  <2> QED
    BY <1>1, <1>4, <2>1 DEF Cancel, InOperation
<1>5. CASE Restart
  BY <1>5 DEF Restart, InOperation
<1> QED
  BY <1>2, <1>3, <1>4, <1>5 DEF Next

(* Whatever requests do, one job at a time sends for the account.          *)
THEOREM OneJobAtATime == Spec => []OneJobSends
<1>1. Init => OneJobSends
  BY DEF Init, OneJobSends, InOperation
<1>2. IInv => TypeOK
  BY DEF IInv
<1>3. TypeOK /\ OneJobSends /\ [Next]_vars => OneJobSends'
  BY LockIsTaken DEF OneJobSends, vars
<1> QED
  BY <1>1, <1>2, <1>3, InvariantHolds, PTL DEF Spec
=============================================================================
