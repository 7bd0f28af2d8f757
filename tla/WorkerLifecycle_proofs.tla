------------------------- MODULE WorkerLifecycle_proofs -------------------------
(***************************************************************************)
(* For any calls of operators, any modes and any number of exceptions and  *)
(* restarts of the process: a STOP holds, and loops do not multiply.       *)
(***************************************************************************)
EXTENDS WorkerLifecycle, FiniteSetTheorems, SequenceTheorems, TLAPS

(* Tasks with a loop that nobody would cancel.                             *)
Orphans == {i \in Task : loop[i] # NoLoops /\ ~(i = task /\ fate = "live")}
OrphansBounded == Cardinality(Orphans) <= crashes

(* What the holder of the lock has done so far.                            *)
HolderTrue ==
  /\ at # "begin" => calls # <<>>
  /\ at = "stopping" => Head(calls).op \in {"stop", "restart"}
  /\ at = "stopping" /\ Head(calls).scope = {} => ~running /\ flags = {}
  /\ at = "started" => Head(calls).op # "stop"

(* After such a stop nothing that is under way or on disk starts anything, *)
(* and nothing looks to the shutdown monitor as if it should post.         *)
QuietIsQuiet == quiet => ~running /\ flags = {} /\ ~saved /\ ~UnderWay(calls)

IInv == TypeOK /\ OrphansBounded /\ HolderTrue /\ QuietIsQuiet

USE DEF listVars

---------------------------------------------------------------------------

LEMMA NoLoopsType == NoLoops \in [Feature -> LoopStage]
BY DEF NoLoops, LoopStage

LEMMA EnabledType == Enabled \subseteq Feature
BY DEF Enabled, Feature

LEMMA SomeTask == Task # {}
<1> SUFFICES ASSUME Task = {} PROVE FALSE
  OBVIOUS
<1>1. Cardinality(Task) = 0
  BY FS_EmptySet
<1> QED
  BY <1>1, LifecycleAssumption

LEMMA TasksFinite ==
  ASSUME NEW S \in SUBSET Task
  PROVE  IsFiniteSet(S) /\ Cardinality(S) \in Nat /\ Cardinality(S) <= Cardinality(Task)
BY FS_Subset, FS_CardinalityType, LifecycleAssumption

LEMMA InitHolds == Init => IInv
<1> SUFFICES ASSUME Init PROVE IInv
  OBVIOUS
<1>1. task \in Task
  BY SomeTask DEF Init
<1>2. loop \in [Task -> [Feature -> LoopStage]]
  BY NoLoopsType DEF Init
<1>3. config \in Config /\ crashes \in Nat /\ restarts \in 0 .. MaxFaults - crashes
  BY LifecycleAssumption DEF Init
<1>4. calls \in Seq(Call)
  BY DEF Init
<1>5. TypeOK
  BY <1>1, <1>2, <1>3, <1>4 DEF Init, TypeOK, Fate
<1>6. Orphans = {}
  BY DEF Init, Orphans
<1> QED
  BY <1>5, <1>6, FS_EmptySet DEF Init, IInv, OrphansBounded, HolderTrue, QuietIsQuiet

---------------------------------------------------------------------------
(* The worker's own steps.                                                 *)

LEMMA CancelledType ==
  ASSUME TypeOK
  PROVE  /\ Cancelled \in [Task -> [Feature -> LoopStage]]
         /\ \A i \in Task : Cancelled[i] # NoLoops <=> i \in Orphans
BY NoLoopsType DEF TypeOK, Cancelled, Orphans

(* There is always a fresh identity for a task.                            *)
LEMMA FreshTask ==
  ASSUME IInv
  PROVE  \E i \in Task : Cancelled[i] = NoLoops
<1> SUFFICES ASSUME \A i \in Task : Cancelled[i] # NoLoops PROVE FALSE
  OBVIOUS
<1>1. Orphans = Task
  BY CancelledType DEF IInv, Orphans
<1>2. crashes <= MaxFaults
  BY LifecycleAssumption DEF IInv, TypeOK
<1> QED
  BY <1>1, <1>2, TasksFinite, LifecycleAssumption DEF IInv, OrphansBounded, TypeOK

LEMMA FewerOrphans ==
  ASSUME IInv, Orphans' \subseteq Orphans, crashes' = crashes
  PROVE  OrphansBounded'
<1>1. Orphans \subseteq Task
  BY DEF Orphans
<1>2. Cardinality(Orphans') <= Cardinality(Orphans)
  BY <1>1, TasksFinite, FS_Subset
<1>3. Cardinality(Orphans') \in Nat /\ Cardinality(Orphans) \in Nat
  BY <1>1, TasksFinite
<1> QED
  BY <1>2, <1>3 DEF IInv, OrphansBounded, TypeOK

WorkerType ==
  /\ running \in BOOLEAN /\ oneShot \in BOOLEAN /\ flags \subseteq Feature
  /\ task \in Task /\ fate \in Fate
  /\ loop \in [Task -> [Feature -> LoopStage]]
  /\ activity \in {"never", "recent", "old"}

LEMMA StartWorkerHolds ==
  ASSUME IInv, NEW wanted \in SUBSET Feature, NEW once \in BOOLEAN, StartWorker(wanted, once)
  PROVE  WorkerType' /\ Orphans' \subseteq Orphans
<1> USE DEF IInv
<1>1. CASE running /\ fate = "live"
  BY <1>1 DEF StartWorker, TypeOK, WorkerType, Orphans
<1>2. CASE ~(running /\ fate = "live")
  <2> DEFINE i == CHOOSE i \in Task : Cancelled[i] = NoLoops
  <2>1. i \in Task /\ Cancelled[i] = NoLoops
    BY FreshTask
  <2>2. /\ running' = TRUE /\ oneShot' = once /\ flags' = wanted /\ activity' = activity
        /\ task' = i /\ fate' = "live"
        /\ loop' = [Cancelled EXCEPT ![i] = [campaign |-> "top", forwarding |-> "new"]]
    BY <1>2 DEF StartWorker, Launch
  <2> HIDE DEF i
  <2>3. [campaign |-> "top", forwarding |-> "new"] \in [Feature -> LoopStage]
    BY DEF Feature, LoopStage
  <2>4. loop' \in [Task -> [Feature -> LoopStage]]
    BY <2>2, <2>3, CancelledType
  <2>5. WorkerType'
    BY <2>1, <2>2, <2>4 DEF WorkerType, TypeOK, Fate
  <2>6. \A k \in Task \ {i} : loop'[k] = Cancelled[k]
    BY <2>2, CancelledType
  <2>7. Orphans' \subseteq Orphans
    BY <2>1, <2>2, <2>6, CancelledType DEF Orphans
  <2> QED
    BY <2>5, <2>7
<1> QED
  BY <1>1, <1>2

LEMMA StopWorkerHolds ==
  ASSUME IInv, NEW gone \in SUBSET Feature, StopWorker(gone)
  PROVE  /\ WorkerType' /\ Orphans' \subseteq Orphans
         /\ (running' => running) /\ flags' \subseteq flags
         /\ (gone = Feature => ~running' /\ flags' = {})
<1> USE DEF IInv
<1>1. /\ flags' = flags \ gone /\ running' = (running /\ flags' # {})
      /\ oneShot' = FALSE /\ task' = task /\ activity' = activity
      /\ loop' = (IF running' THEN loop ELSE Cancelled)
      /\ fate' = IF fate = "live" /\ ~running' THEN "seen" ELSE fate
  BY DEF StopWorker
<1>2. WorkerType'
  BY <1>1, CancelledType DEF WorkerType, TypeOK, Fate
<1>3. Orphans' \subseteq Orphans
  <2>1. CASE running'
    BY <1>1, <2>1 DEF Orphans
  <2>2. CASE ~running'
    BY <1>1, <2>2, CancelledType DEF Orphans
  <2> QED
    BY <2>1, <2>2
<1> QED
  BY <1>1, <1>2, <1>3 DEF TypeOK

---------------------------------------------------------------------------
(* The steps of the loops.                                                 *)

(* A loop that goes from one stage to another makes no orphan.             *)
LEMMA MoveFacts ==
  ASSUME TypeOK, NEW i \in Task, NEW f \in Feature, NEW s \in LoopStage,
         loop[i][f] # "none", loop' = [loop EXCEPT ![i][f] = s],
         task' = task, fate' = fate
  PROVE  loop' \in [Task -> [Feature -> LoopStage]] /\ Orphans' \subseteq Orphans
<1>1. loop \in [Task -> [Feature -> LoopStage]]
  BY DEF TypeOK
<1>2. loop' \in [Task -> [Feature -> LoopStage]]
  BY <1>1
<1>3. loop[i] # NoLoops
  BY DEF NoLoops
<1>4. \A k \in Task \ {i} : loop'[k] = loop[k]
  BY <1>1
<1> QED
  BY <1>2, <1>3, <1>4 DEF Orphans

LEMMA FinishFacts ==
  ASSUME TypeOK, NEW i \in Task, NEW f \in Feature, loop[i][f] # "none",
         Finish(i, f), task' = task
  PROVE  /\ loop' \in [Task -> [Feature -> LoopStage]] /\ fate' \in Fate
         /\ Orphans' \subseteq Orphans
<1>1. loop \in [Task -> [Feature -> LoopStage]] /\ fate \in Fate
  BY DEF TypeOK
<1>2. loop' = [loop EXCEPT ![i][f] = "none"]
  BY DEF Finish
<1>3. loop' \in [Task -> [Feature -> LoopStage]]
  BY <1>1, <1>2 DEF LoopStage
<1>4. fate' \in Fate
  BY <1>1 DEF Finish, Fate
<1>5. loop[i] # NoLoops
  BY DEF NoLoops
<1>6. \A k \in Task \ {i} : loop'[k] = loop[k]
  BY <1>1, <1>2
<1>7. CASE fate' = fate
  BY <1>3, <1>4, <1>5, <1>6, <1>7 DEF Orphans
<1>8. CASE fate' # fate
  <2>1. i = task /\ \A g \in Feature \ {f} : loop[i][g] = "none"
    BY <1>8 DEF Finish
  <2>2. \A g \in Feature : loop'[i][g] = "none"
    BY <1>1, <1>2, <2>1
  <2>3. loop'[i] = NoLoops
    BY <1>3, <2>2 DEF NoLoops
  <2> QED
    BY <1>3, <1>4, <1>5, <1>6, <2>1, <2>3 DEF Orphans
<1> QED
  BY <1>3, <1>4, <1>7, <1>8

LEMMA LeaveFacts ==
  ASSUME TypeOK, NEW i \in Task, NEW f \in Feature, loop[i][f] # "none",
         Leave(i, f), task' = task
  PROVE  /\ loop' \in [Task -> [Feature -> LoopStage]] /\ fate' \in Fate
         /\ oneShot' \in BOOLEAN /\ saved' \in BOOLEAN /\ (saved' => saved)
         /\ Orphans' \subseteq Orphans
<1>1. CASE f = "forwarding"
  BY <1>1, FinishFacts DEF Leave, TypeOK
<1>2. CASE f # "forwarding"
  <2>1. /\ loop' = [loop EXCEPT ![i][f] = "tail"] /\ oneShot' = FALSE
        /\ saved' = (saved /\ ~oneShot) /\ fate' = fate
    BY <1>2 DEF Leave
  <2>2. "tail" \in LoopStage
    BY DEF LoopStage
  <2>3. loop' \in [Task -> [Feature -> LoopStage]] /\ Orphans' \subseteq Orphans
    BY <2>1, <2>2, MoveFacts
  <2> QED
    BY <2>1, <2>3 DEF TypeOK
<1> QED
  BY <1>1, <1>2

(* What every step of a loop does to the worker, but for an exception.     *)
Calm ==
  /\ WorkerType' /\ saved' \in BOOLEAN
  /\ (running' => running) /\ flags' \subseteq flags /\ (saved' => saved)
  /\ Orphans' \subseteq Orphans

LEMMA ManualCalm ==
  ASSUME TypeOK, NEW i \in Task, Manual(i)
  PROVE  Calm
<1>1. loop[i]["forwarding"] # "none" /\ "forwarding" \in Feature /\ "top" \in LoopStage
  BY DEF Manual, Feature, LoopStage
<1>2. /\ running' = running /\ oneShot' = oneShot /\ task' = task
      /\ activity' = activity /\ saved' = saved /\ flags' \subseteq flags
  BY DEF Manual, TypeOK
<1>3. CASE config = "manual"
  BY <1>1, <1>2, <1>3, FinishFacts DEF Manual, Calm, WorkerType, TypeOK
<1>4. CASE config # "manual"
  <2>1. loop' = [loop EXCEPT ![i]["forwarding"] = "top"] /\ fate' = fate
    BY <1>4 DEF Manual
  <2> QED
    BY <1>1, <1>2, <2>1, MoveFacts DEF Calm, WorkerType, TypeOK
<1> QED
  BY <1>3, <1>4

LEMMA ConditionCalm ==
  ASSUME TypeOK, NEW i \in Task, NEW f \in Feature, Condition(i, f)
  PROVE  Calm
<1>1. loop[i][f] # "none" /\ "on" \in LoopStage
  BY DEF Condition, LoopStage
<1>2. running' = running /\ task' = task
  BY DEF Condition
<1>3. flags' \subseteq flags /\ activity' \in {"never", "recent", "old"}
  BY DEF Condition, Touch, TypeOK
<1>4. CASE loop' = [loop EXCEPT ![i][f] = "on"] /\ oneShot' = oneShot
           /\ fate' = fate /\ saved' = saved
  BY <1>1, <1>2, <1>3, <1>4, MoveFacts DEF Calm, WorkerType, TypeOK
<1>5. CASE Leave(i, f)
  BY <1>1, <1>2, <1>3, <1>5, LeaveFacts DEF Calm, WorkerType, TypeOK
<1> QED
  BY <1>4, <1>5 DEF Condition

LEMMA CycleEndsCalm ==
  ASSUME TypeOK, NEW i \in Task, NEW f \in Feature, CycleEnds(i, f)
  PROVE  Calm
<1>1. loop[i][f] # "none" /\ "top" \in LoopStage
  BY DEF CycleEnds, LoopStage
<1>2. running' = running /\ task' = task
  BY DEF CycleEnds
<1>3. flags' \subseteq flags /\ activity' \in {"never", "recent", "old"}
  BY DEF CycleEnds, Touch, TypeOK
<1>4. CASE loop' = [loop EXCEPT ![i][f] = "top"] /\ oneShot' = oneShot
           /\ fate' = fate /\ saved' = saved
  BY <1>1, <1>2, <1>3, <1>4, MoveFacts DEF Calm, WorkerType, TypeOK
<1>5. CASE Leave(i, f)
  BY <1>1, <1>2, <1>3, <1>5, LeaveFacts DEF Calm, WorkerType, TypeOK
<1> QED
  BY <1>4, <1>5 DEF CycleEnds

LEMMA TickFailsCalm ==
  ASSUME TypeOK, NEW i \in Task, TickFails(i)
  PROVE  Calm
<1>1. loop[i]["forwarding"] # "none" /\ "forwarding" \in Feature /\ "top" \in LoopStage
  BY DEF TickFails, Feature, LoopStage
<1> QED
  BY <1>1, MoveFacts DEF TickFails, Calm, WorkerType, TypeOK

LEMMA ReleaseCalm ==
  ASSUME TypeOK, NEW i \in Task, Release(i)
  PROVE  Calm
<1>1. loop[i]["campaign"] # "none" /\ "campaign" \in Feature
  BY DEF Release, Feature
<1> QED
  BY <1>1, FinishFacts DEF Release, Calm, WorkerType, TypeOK

(* What is left when only the worker and the file change, and calm.        *)
LEMMA CalmHolds ==
  ASSUME IInv, Calm,
         UNCHANGED <<config, calls, at, alarm, handling, resuming, listVars, quiet, crashes, restarts>>
  PROVE  IInv'
<1>1. TypeOK'
  BY DEF IInv, Calm, WorkerType, TypeOK
<1>2. OrphansBounded'
  BY FewerOrphans DEF Calm
<1>3. HolderTrue'
  BY DEF IInv, Calm, HolderTrue
<1>4. QuietIsQuiet'
  BY DEF IInv, Calm, QuietIsQuiet, UnderWay
<1> QED
  BY <1>1, <1>2, <1>3, <1>4 DEF IInv

LEMMA RaiseHolds ==
  ASSUME IInv, NEW i \in Task, NEW f \in Feature, Raise(i, f),
         UNCHANGED <<config, calls, at, alarm, handling, resuming, listVars, quiet, restarts>>
  PROVE  IInv'
<1>0. TypeOK
  BY DEF IInv
<1>1. loop' \in [Task -> [Feature -> LoopStage]]
  <2>1. loop' = [loop EXCEPT ![i][f] = "none"] /\ "none" \in LoopStage
    BY DEF Raise, LoopStage
  <2> QED
    BY <1>0, <2>1 DEF TypeOK
<1>2. crashes' \in Nat /\ restarts' \in 0 .. MaxFaults - crashes'
  BY <1>0, LifecycleAssumption DEF Raise, TypeOK
<1>3. TypeOK'
  BY <1>0, <1>1, <1>2 DEF Raise, TypeOK, Fate
<1>4. Orphans' \subseteq Orphans \cup {task}
  <2>1. loop[i] # NoLoops
    BY DEF Raise, NoLoops
  <2>2. \A k \in Task \ {i} : loop'[k] = loop[k]
    BY <1>0 DEF Raise, TypeOK
  <2>3. task' = task /\ (fate' = fate \/ i = task)
    BY DEF Raise
  <2> QED
    BY <2>1, <2>2, <2>3 DEF Orphans
<1>5. OrphansBounded'
  <2>1. Orphans \in SUBSET Task /\ Orphans' \in SUBSET Task /\ task \in Task
    BY <1>0 DEF Orphans, TypeOK
  <2>2. IsFiniteSet(Orphans)
    BY <2>1, TasksFinite
  <2>3. IsFiniteSet(Orphans \cup {task}) /\ Cardinality(Orphans \cup {task}) <= Cardinality(Orphans) + 1
    <3>1. IsFiniteSet(Orphans \cup {task})
      BY <2>2, FS_AddElement
    <3>2. Cardinality(Orphans \cup {task}) \in {Cardinality(Orphans), Cardinality(Orphans) + 1}
      BY <2>2, FS_AddElement
    <3>3. Cardinality(Orphans) \in Nat
      BY <2>2, FS_CardinalityType
    <3> QED
      BY <3>1, <3>2, <3>3
  <2>4. Cardinality(Orphans') <= Cardinality(Orphans \cup {task})
    BY <1>4, <2>3, FS_Subset
  <2>5. /\ Cardinality(Orphans') \in Nat /\ Cardinality(Orphans) \in Nat
        /\ Cardinality(Orphans \cup {task}) \in Nat
    BY <2>1, <2>3, TasksFinite, FS_CardinalityType
  <2>6. crashes' = crashes + 1 /\ Cardinality(Orphans) <= crashes /\ crashes \in Nat
    BY <1>0 DEF Raise, IInv, OrphansBounded, TypeOK
  <2> QED
    BY <2>3, <2>4, <2>5, <2>6 DEF OrphansBounded
<1>6. HolderTrue' /\ QuietIsQuiet'
  BY DEF IInv, Raise, HolderTrue, QuietIsQuiet, UnderWay
<1> QED
  BY <1>3, <1>5, <1>6 DEF IInv

LEMMA LoopStepHolds == IInv /\ LoopStep => IInv'
<1> SUFFICES ASSUME IInv, LoopStep PROVE IInv'
  OBVIOUS
<1>0. UNCHANGED <<config, calls, at, alarm, handling, resuming, listVars, quiet, restarts>> /\ TypeOK
  BY DEF LoopStep, IInv
<1>1. PICK i \in Task : Loop(i)
  BY DEF LoopStep
<1>2. ASSUME NEW f \in Feature, Raise(i, f) PROVE IInv'
  BY <1>0, <1>2, RaiseHolds
<1>3. ASSUME crashes' = crashes, Calm PROVE IInv'
  BY <1>0, <1>3, CalmHolds
<1>4. (\E f \in Feature : Raise(i, f)) \/ (crashes' = crashes /\ Calm)
  BY <1>0, <1>1, ManualCalm, ConditionCalm, CycleEndsCalm, TickFailsCalm, ReleaseCalm DEF Loop
<1> QED
  BY <1>2, <1>3, <1>4

---------------------------------------------------------------------------
(* The calls that wait for the lock.                                       *)

Busy(waiting) == \E n \in DOMAIN waiting : waiting[n].op # "stop"

LEMMA AppendFacts ==
  ASSUME calls \in Seq(Call), NEW c \in Call, calls' = Append(calls, c)
  PROVE  /\ calls' \in Seq(Call) /\ calls' # <<>>
         /\ calls # <<>> => Head(calls') = Head(calls)
         /\ Busy(calls') => Busy(calls) \/ c.op # "stop"
<1>1. /\ calls' \in Seq(Call) /\ Len(calls') = Len(calls) + 1 /\ Len(calls) \in Nat
      /\ \A n \in 1 .. Len(calls) : calls'[n] = calls[n]
      /\ calls'[Len(calls) + 1] = c
  BY AppendProperties
<1>2. DOMAIN calls = 1 .. Len(calls) /\ DOMAIN calls' = 1 .. Len(calls) + 1
  BY <1>1
<1>3. calls # <<>> => Len(calls) >= 1
  BY <1>1, EmptySeq
<1>4. calls # <<>> => Head(calls') = Head(calls)
  BY <1>1, <1>3
<1>5. Busy(calls') => Busy(calls) \/ c.op # "stop"
  BY <1>1, <1>2 DEF Busy
<1> QED
  BY <1>1, <1>4, <1>5

LEMMA HeadFacts ==
  ASSUME calls \in Seq(Call), calls # <<>>
  PROVE  /\ Head(calls) \in Call /\ Tail(calls) \in Seq(Call)
         /\ Head(calls).op # "stop" => Busy(calls)
         /\ Busy(Tail(calls)) => Busy(calls)
<1>1. /\ Tail(calls) \in Seq(Call) /\ Len(calls) \in Nat /\ Len(calls) >= 1
      /\ Len(Tail(calls)) = Len(calls) - 1
      /\ \A n \in 1 .. Len(calls) - 1 : Tail(calls)[n] = calls[n + 1]
  BY EmptySeq
<1>2. DOMAIN calls = 1 .. Len(calls) /\ DOMAIN Tail(calls) = 1 .. Len(calls) - 1
  BY <1>1
<1>3. Head(calls) = calls[1] /\ 1 \in DOMAIN calls /\ Head(calls) \in Call
  BY <1>1, <1>2
<1> QED
  BY <1>1, <1>2, <1>3 DEF Busy

LEMMA UnderWayIsBusy ==
  ASSUME NEW waiting
  PROVE  UnderWay(waiting) <=> \/ alarm \/ resuming \/ Busy(waiting)
                               \/ fleet \/ resting \/ reviving
BY DEF UnderWay, Busy

LEMMA PutHolds ==
  ASSUME IInv, NEW c \in Call, Put(c),
         UNCHANGED <<config, workerVars, at, saved, crashes, restarts>>,
         alarm' \in BOOLEAN, handling' \in BOOLEAN, resuming' \in BOOLEAN,
         fleet' \in BOOLEAN, resting' \in BOOLEAN, reviving' \in BOOLEAN,
         quiet' \in BOOLEAN,
         quiet' => /\ quiet /\ c.op = "stop" /\ ~alarm' /\ ~resuming'
                   /\ ~fleet' /\ ~resting' /\ ~reviving'
  PROVE  IInv'
<1>1. calls \in Seq(Call) /\ calls' = Append(calls, c)
  BY DEF IInv, TypeOK, Put
<1>2. TypeOK'
  BY <1>1, AppendFacts DEF IInv, TypeOK, workerVars
<1>3. OrphansBounded'
  BY FewerOrphans DEF workerVars, Orphans
<1>4. HolderTrue'
  BY <1>1, AppendFacts DEF IInv, HolderTrue, workerVars
<1>5. QuietIsQuiet'
  <2> SUFFICES ASSUME quiet' PROVE ~running' /\ flags' = {} /\ ~saved' /\ ~Busy(calls')
    BY DEF QuietIsQuiet, UnderWay, Busy
  <2>1. ~running /\ flags = {} /\ ~saved /\ ~Busy(calls)
    BY UnderWayIsBusy DEF IInv, QuietIsQuiet
  <2> QED
    BY <1>1, <2>1, AppendFacts DEF workerVars
<1> QED
  BY <1>2, <1>3, <1>4, <1>5 DEF IInv

LEMMA UnlockHolds ==
  ASSUME IInv, calls # <<>>, Unlock,
         WorkerType', saved' \in BOOLEAN, quiet' \in BOOLEAN, Orphans' \subseteq Orphans,
         UNCHANGED <<config, alarm, handling, resuming, listVars, crashes, restarts>>,
         quiet' => ~running' /\ flags' = {} /\ ~saved' /\ ~UnderWay(Tail(calls))
  PROVE  IInv'
<1>1. calls' \in Seq(Call) /\ calls' = Tail(calls) /\ at' = "begin"
  BY HeadFacts DEF IInv, TypeOK, Unlock
<1>2. TypeOK'
  BY <1>1 DEF IInv, TypeOK, WorkerType
<1>3. OrphansBounded'
  BY FewerOrphans
<1>4. HolderTrue'
  BY <1>1 DEF HolderTrue
<1>5. QuietIsQuiet'
  BY <1>1 DEF QuietIsQuiet, UnderWay
<1> QED
  BY <1>2, <1>3, <1>4, <1>5 DEF IInv

LEMMA GotoHolds ==
  ASSUME IInv, calls # <<>>, NEW s \in {"stopping", "started"}, Goto(s),
         WorkerType', saved' \in BOOLEAN, Orphans' \subseteq Orphans,
         UNCHANGED <<config, alarm, handling, resuming, listVars, crashes, restarts, quiet>>,
         s = "stopping" => Head(calls).op \in {"stop", "restart"},
         s = "stopping" /\ Head(calls).scope = {} => ~running' /\ flags' = {},
         s = "started" => Head(calls).op # "stop",
         quiet => ~running' /\ flags' = {} /\ ~saved'
  PROVE  IInv'
<1>1. calls' = calls /\ at' = s
  BY DEF Goto
<1>2. TypeOK'
  BY <1>1 DEF IInv, TypeOK, WorkerType
<1>3. OrphansBounded'
  BY FewerOrphans
<1>4. HolderTrue'
  BY <1>1 DEF HolderTrue
<1>5. QuietIsQuiet'
  BY <1>1 DEF IInv, QuietIsQuiet, UnderWay
<1> QED
  BY <1>2, <1>3, <1>4, <1>5 DEF IInv

(* A start or restart that holds the lock, or waits for it, is no quiet.   *)
LEMMA StarterIsLoud ==
  ASSUME IInv, calls # <<>>, Head(calls).op # "stop"
  PROVE  ~quiet
BY HeadFacts, UnderWayIsBusy DEF IInv, TypeOK, QuietIsQuiet

LEMMA TryStartHolds ==
  ASSUME IInv, calls # <<>>, Head(calls).op # "stop",
         NEW wanted \in SUBSET Feature, NEW once \in BOOLEAN, TryStart(wanted, once),
         UNCHANGED <<config, alarm, handling, resuming, listVars, crashes, restarts, quiet>>
  PROVE  IInv'
<1>1. ~quiet
  BY StarterIsLoud
<1>2. CASE wanted = {}
  <2>1. Unlock /\ flags' = {} /\ UNCHANGED <<running, oneShot, task, fate, loop, activity, saved>>
    BY <1>2 DEF TryStart
  <2>2. WorkerType' /\ Orphans' \subseteq Orphans /\ saved' \in BOOLEAN
    BY <2>1 DEF IInv, TypeOK, WorkerType, Orphans
  <2> QED
    BY <1>1, <2>1, <2>2, UnlockHolds DEF IInv, TypeOK
<1>3. CASE wanted # {}
  <2>1. StartWorker(wanted, once) /\ saved' = TRUE /\ Goto("started")
    BY <1>3 DEF TryStart
  <2>2. WorkerType' /\ Orphans' \subseteq Orphans
    BY <2>1, StartWorkerHolds
  <2> QED
    BY <1>1, <2>1, <2>2, GotoHolds
<1> QED
  BY <1>2, <1>3

LEMMA HoldHolds == IInv /\ Hold => IInv'
<1> SUFFICES ASSUME IInv, Hold PROVE IInv'
  OBVIOUS
<1> DEFINE c == Head(calls)
<1>1. /\ calls # <<>> /\ UNCHANGED <<config, alarm, handling, resuming, listVars, crashes, restarts>>
      /\ Start(c) \/ Stop(c) \/ StartAgain(c) \/ Stopped(c) \/ Started(c)
  BY DEF Hold
<1>2. c \in Call /\ TypeOK
  BY <1>1, HeadFacts DEF IInv, TypeOK
<1> HIDE DEF c
<1>3. c.scope \subseteq Feature /\ c.oneShot \in BOOLEAN
  BY <1>2 DEF Call
<1>4. CASE Start(c)
  <2>1. c.op # "stop" /\ UNCHANGED quiet
    BY <1>4 DEF Start
  <2>2. Wanted(c) \subseteq Feature
    BY <1>2, <1>3, EnabledType DEF Wanted, TypeOK
  <2>3. CASE TryStart(Wanted(c), c.oneShot)
    BY <1>1, <1>3, <2>1, <2>2, <2>3, TryStartHolds DEF c
  <2>4. CASE Unlock /\ UNCHANGED <<workerVars, saved>>
    <3>1. WorkerType' /\ Orphans' \subseteq Orphans /\ saved' \in BOOLEAN /\ quiet' \in BOOLEAN
      BY <1>2, <2>1, <2>4 DEF TypeOK, WorkerType, Orphans, workerVars
    <3>2. ~quiet'
      BY <1>1, <2>1, StarterIsLoud DEF c
    <3> QED
      BY <1>1, <2>4, <3>1, <3>2, UnlockHolds
  <2> QED
    BY <1>4, <2>3, <2>4 DEF Start
<1>5. CASE Stop(c)
  <2> DEFINE gone == IF c.scope = {} THEN Feature ELSE c.scope
  <2>1. /\ StopWorker(gone) /\ saved' = FALSE /\ Goto("stopping") /\ UNCHANGED quiet
        /\ c.op \in {"stop", "restart"} /\ gone \in SUBSET Feature
        /\ c.scope = {} => gone = Feature
    BY <1>3, <1>5 DEF Stop
  <2> HIDE DEF gone
  <2>2. /\ WorkerType' /\ Orphans' \subseteq Orphans /\ (running' => running)
        /\ flags' \subseteq flags /\ (c.scope = {} => ~running' /\ flags' = {})
    BY <2>1, StopWorkerHolds
  <2>3. quiet => ~running' /\ flags' = {} /\ ~saved'
    BY <2>1, <2>2 DEF IInv, QuietIsQuiet
  <2> QED
    BY <1>1, <2>1, <2>2, <2>3, GotoHolds DEF c
<1>6. CASE StartAgain(c)
  <2>1. c.op # "stop" /\ UNCHANGED quiet /\ TryStart(Enabled, FALSE)
    BY <1>6 DEF StartAgain
  <2> QED
    BY <1>1, <2>1, EnabledType, TryStartHolds DEF c
<1>7. CASE Stopped(c)
  <2>1. /\ Unlock /\ saved' = FALSE /\ UNCHANGED workerVars
        /\ at = "stopping"
        /\ quiet' = IF c.scope = {} THEN ~UnderWay(Tail(calls)) ELSE quiet
    BY <1>7 DEF Stopped
  <2>2. WorkerType' /\ Orphans' \subseteq Orphans /\ saved' \in BOOLEAN /\ quiet' \in BOOLEAN
    BY <1>2, <2>1 DEF TypeOK, WorkerType, Orphans, workerVars, UnderWay
  <2>3. running' = running /\ flags' = flags
    BY <2>1 DEF workerVars
  <2>4. CASE c.scope = {}
    BY <1>1, <2>1, <2>2, <2>3, <2>4, UnlockHolds DEF IInv, HolderTrue, c
  <2>5. CASE c.scope # {}
    <3>1. quiet' => ~running' /\ flags' = {} /\ ~UnderWay(Tail(calls))
      BY <1>1, <1>2, <2>1, <2>3, <2>5, HeadFacts, UnderWayIsBusy DEF IInv, TypeOK, QuietIsQuiet
    <3> QED
      BY <1>1, <2>1, <2>2, <3>1, UnlockHolds
  <2> QED
    BY <2>4, <2>5
<1>8. CASE Started(c)
  <2>1. /\ Unlock /\ saved' \in BOOLEAN /\ UNCHANGED workerVars /\ at = "started"
        /\ quiet' = quiet
    BY <1>2, <1>8 DEF Started, TypeOK
  <2>2. WorkerType' /\ Orphans' \subseteq Orphans /\ quiet' \in BOOLEAN
    BY <1>2, <2>1 DEF TypeOK, WorkerType, Orphans, workerVars
  <2>3. ~quiet
    BY <1>1, <2>1, StarterIsLoud DEF IInv, HolderTrue
  <2> QED
    BY <1>1, <2>1, <2>2, <2>3, UnlockHolds
<1> QED
  BY <1>1, <1>4, <1>5, <1>6, <1>7, <1>8

---------------------------------------------------------------------------
(* Restarts that nobody asked for, calls, the file and the process.        *)

LEMMA MonitorsHold == IInv /\ Monitors => IInv'
<1> SUFFICES ASSUME IInv, Monitors PROVE IInv'
  OBVIOUS
<1>0. TypeOK
  BY DEF IInv
<1>1. CASE Callback
  <2>1. Orphans' \subseteq Orphans
    BY <1>1 DEF Callback, Orphans
  <2>2. OrphansBounded'
    BY <1>1, <2>1, FewerOrphans DEF Callback
  <2>3. TypeOK'
    BY <1>0, <1>1 DEF Callback, TypeOK, Fate
  <2> QED
    BY <1>1, <2>2, <2>3 DEF IInv, Callback, HolderTrue, QuietIsQuiet, UnderWay
<1>2. CASE HandleCrash
  <2>1. CASE running
    <3>1. Restart(FALSE) \in Call
      BY DEF Restart, Call
    <3>2. ~quiet
      BY <2>1 DEF IInv, QuietIsQuiet
    <3> QED
      BY <1>0, <1>2, <2>1, <3>1, <3>2, PutHolds DEF HandleCrash, TypeOK
  <2>2. CASE ~running
    <3>1. OrphansBounded'
      BY <1>2, FewerOrphans DEF HandleCrash, workerVars, Orphans
    <3>2. TypeOK'
      BY <1>0, <1>2, <2>2 DEF HandleCrash, TypeOK, workerVars
    <3> QED
      BY <1>2, <2>2, <3>1, <3>2
         DEF IInv, HandleCrash, HolderTrue, QuietIsQuiet, UnderWay, workerVars
  <2> QED
    BY <2>1, <2>2
<1>3. CASE CheckAccount
  <2>1. ~quiet
    BY <1>3 DEF IInv, QuietIsQuiet, CheckAccount
  <2>2. OrphansBounded'
    BY <1>3, FewerOrphans DEF CheckAccount, workerVars, Orphans
  <2>3. TypeOK'
    BY <1>0, <1>3 DEF CheckAccount, TypeOK, workerVars
  <2> QED
    BY <1>3, <2>1, <2>2, <2>3
       DEF IInv, CheckAccount, HolderTrue, QuietIsQuiet, workerVars
<1>4. CASE RestartWorker
  <2>1. Restart(TRUE) \in Call
    BY DEF Restart, Call
  <2>2. ~quiet
    BY <1>4 DEF IInv, QuietIsQuiet, UnderWay, RestartWorker
  <2> QED
    BY <1>0, <1>4, <2>1, <2>2, PutHolds DEF RestartWorker, TypeOK
<1>5. CASE TimePasses
  <2>1. OrphansBounded'
    BY <1>5, FewerOrphans DEF TimePasses, Orphans
  <2>2. TypeOK'
    BY <1>0, <1>5 DEF TimePasses, TypeOK
  <2> QED
    BY <1>5, <2>1, <2>2 DEF IInv, TimePasses, HolderTrue, QuietIsQuiet, UnderWay
<1> QED
  BY <1>1, <1>2, <1>3, <1>4, <1>5 DEF Monitors

LEMMA AskHolds == IInv /\ Ask => IInv'
<1> SUFFICES ASSUME IInv, Ask PROVE IInv'
  OBVIOUS
<1>1. PICK c \in Asks : Put(c) /\ quiet' = (quiet /\ c.op = "stop")
  BY DEF Ask
<1>2. c \in Call
  BY LifecycleAssumption
<1>3. quiet => ~alarm /\ ~resuming /\ ~fleet /\ ~resting /\ ~reviving
  BY DEF IInv, QuietIsQuiet, UnderWay
<1>4. UNCHANGED <<config, workerVars, at, alarm, handling, saved, resuming,
                  fleet, resting, reviving, crashes, restarts>>
  BY DEF Ask
<1> QED
  BY <1>1, <1>2, <1>3, <1>4, PutHolds DEF IInv, TypeOK

LEMMA StopAllHolds == IInv /\ StopAll => IInv'
<1> SUFFICES ASSUME IInv, StopAll PROVE IInv'
  OBVIOUS
<1>1. /\ StopWorker(Feature) /\ saved' = FALSE /\ quiet' = ~UnderWay(calls)
      /\ UNCHANGED <<config, calls, at, alarm, handling, resuming, listVars, crashes, restarts>>
  BY DEF StopAll
<1>2. WorkerType' /\ Orphans' \subseteq Orphans /\ ~running' /\ flags' = {}
  BY <1>1, StopWorkerHolds
<1>3. TypeOK'
  BY <1>1, <1>2 DEF IInv, TypeOK, WorkerType, UnderWay
<1>4. OrphansBounded'
  BY <1>1, <1>2, FewerOrphans
<1> QED
  BY <1>1, <1>2, <1>3, <1>4 DEF IInv, HolderTrue, QuietIsQuiet, UnderWay

(* A step that touches the list and its starters only, and is loud.        *)
LEMMA ListHolds ==
  ASSUME IInv, fleet' \in BOOLEAN, resting' \in BOOLEAN, reviving' \in BOOLEAN,
         saved' \in BOOLEAN, quiet' = FALSE,
         UNCHANGED <<config, workerVars, calls, at, alarm, handling, resuming, crashes,
                     restarts>>
  PROVE  IInv'
<1>1. OrphansBounded'
  BY FewerOrphans DEF workerVars, Orphans
<1>2. TypeOK'
  BY DEF IInv, TypeOK, workerVars
<1> QED
  BY <1>1, <1>2 DEF IInv, HolderTrue, QuietIsQuiet, workerVars

LEMMA CallTypes ==
  /\ \A once \in BOOLEAN : StartCall(once) \in Call
  /\ StopCall \in Call /\ StopCall.op = "stop"
BY DEF StartCall, StopCall, Call

LEMMA FleetHolds == IInv /\ (StartAll \/ FleetTurn) => IInv'
<1> SUFFICES ASSUME IInv, StartAll \/ FleetTurn PROVE IInv'
  OBVIOUS
<1>0. TypeOK
  BY DEF IInv
<1>1. CASE StartAll
  BY <1>0, <1>1, ListHolds DEF StartAll, TypeOK
<1>2. CASE FleetTurn
  <2>1. /\ quiet' = FALSE /\ fleet' = FALSE
        /\ UNCHANGED <<config, workerVars, at, alarm, handling, saved, resuming,
                       resting, reviving, crashes, restarts>>
    BY <1>2 DEF FleetTurn, IInv, QuietIsQuiet, UnderWay, TypeOK
  <2>2. CASE UNCHANGED calls
    BY <1>0, <2>1, <2>2, ListHolds DEF TypeOK
  <2>3. CASE \E once \in BOOLEAN : Put(StartCall(once))
    BY <1>0, <2>1, <2>3, CallTypes, PutHolds DEF TypeOK
  <2> QED
    BY <1>2, <2>2, <2>3 DEF FleetTurn
<1> QED
  BY <1>1, <1>2

LEMMA ShutdownsHold == IInv /\ Shutdowns => IInv'
<1> SUFFICES ASSUME IInv, Shutdowns PROVE IInv'
  OBVIOUS
<1>0. TypeOK
  BY DEF IInv
<1>1. CASE Idles
  <2>1. /\ quiet' = FALSE /\ resting' = TRUE
        /\ UNCHANGED <<config, workerVars, at, alarm, handling, resuming, fleet,
                       reviving, crashes, restarts>>
    BY <1>1 DEF Idles, EntersRest, IInv, QuietIsQuiet, TypeOK
  <2>2. CASE Put(StopCall) /\ UNCHANGED saved
    BY <1>0, <2>1, <2>2, CallTypes, PutHolds DEF TypeOK
  <2>3. CASE saved' = FALSE /\ UNCHANGED calls
    BY <1>0, <2>1, <2>3, ListHolds DEF TypeOK
  <2> QED
    BY <1>1, <2>2, <2>3 DEF Idles, EntersRest
<1>2. CASE PutToRest
  BY <1>0, <1>2, CallTypes, PutHolds DEF PutToRest, TypeOK
<1>3. CASE StopResting
  <2>1. /\ quiet' = FALSE /\ Put(StopCall)
        /\ UNCHANGED <<config, workerVars, at, alarm, handling, saved, resuming,
                       fleet, resting, reviving, crashes, restarts>>
    BY <1>3 DEF StopResting, IInv, QuietIsQuiet, TypeOK
  <2> QED
    BY <1>0, <2>1, CallTypes, PutHolds DEF TypeOK
<1>4. CASE LeavesList
  <2>1. quiet' = FALSE
    BY <1>4 DEF LeavesList, IInv, QuietIsQuiet, UnderWay, TypeOK
  <2> QED
    BY <1>0, <1>4, <2>1, ListHolds DEF LeavesList, TypeOK
<1>5. CASE Revive
  <2>1. /\ quiet' = FALSE /\ reviving' = FALSE
        /\ UNCHANGED <<config, workerVars, at, alarm, handling, saved, resuming,
                       fleet, resting, crashes, restarts>>
    BY <1>5 DEF Revive, IInv, QuietIsQuiet, UnderWay, TypeOK
  <2>2. CASE UNCHANGED calls
    BY <1>0, <2>1, <2>2, ListHolds DEF TypeOK
  <2>3. CASE Put(StartCall(FALSE))
    BY <1>0, <2>1, <2>3, CallTypes, PutHolds DEF TypeOK
  <2> QED
    BY <1>5, <2>2, <2>3 DEF Revive
<1> QED
  BY <1>1, <1>2, <1>3, <1>4, <1>5 DEF Shutdowns

LEMMA ProcessHolds == IInv /\ (SetPostingMode \/ Persist \/ Reboot \/ Resume) => IInv'
<1> SUFFICES ASSUME IInv, SetPostingMode \/ Persist \/ Reboot \/ Resume PROVE IInv'
  OBVIOUS
<1>0. TypeOK
  BY DEF IInv
<1>1. CASE SetPostingMode
  <2>1. OrphansBounded'
    BY <1>1, FewerOrphans DEF SetPostingMode, workerVars, Orphans
  <2>2. TypeOK'
    BY <1>0, <1>1, LifecycleAssumption DEF SetPostingMode, TypeOK, workerVars
  <2> QED
    BY <1>1, <2>1, <2>2
       DEF IInv, SetPostingMode, HolderTrue, QuietIsQuiet, UnderWay, workerVars
<1>2. CASE Persist
  <2>1. OrphansBounded'
    BY <1>2, FewerOrphans DEF Persist, workerVars, Orphans
  <2>2. saved' \in BOOLEAN
    BY <1>0, <1>2 DEF Persist, TypeOK
  <2>3. TypeOK'
    <3>1. /\ UNCHANGED <<config, running, flags, oneShot, task, fate, loop, activity, calls, at, alarm>>
          /\ UNCHANGED <<handling, resuming, fleet, resting, reviving, quiet, crashes, restarts>>
      BY <1>2 DEF Persist, workerVars, listVars
    <3> QED
      BY <1>0, <2>2, <3>1 DEF TypeOK
  <2> QED
    BY <1>2, <2>1, <2>3 DEF IInv, Persist, HolderTrue, QuietIsQuiet, UnderWay, workerVars
<1>3. CASE Reboot
  <2>1. Orphans' = {}
    BY <1>3 DEF Reboot, Orphans
  <2>2. OrphansBounded'
    BY <1>0, <1>3, <2>1, FS_EmptySet DEF Reboot, OrphansBounded, TypeOK
  <2>3. loop' \in [Task -> [Feature -> LoopStage]]
    BY <1>3, NoLoopsType DEF Reboot
  <2>4. crashes' \in Nat /\ restarts' \in 0 .. MaxFaults - crashes'
    BY <1>0, <1>3, LifecycleAssumption DEF Reboot, TypeOK
  <2>5. calls' \in Seq(Call) /\ saved' \in BOOLEAN /\ resuming' \in BOOLEAN
    BY <1>0, <1>3 DEF Reboot, TypeOK
  <2>6. TypeOK'
    BY <1>0, <1>3, <2>3, <2>4, <2>5 DEF Reboot, TypeOK, Fate
  <2>7. HolderTrue'
    BY <1>3 DEF Reboot, HolderTrue
  <2>8. QuietIsQuiet'
    BY <1>3 DEF Reboot, IInv, QuietIsQuiet, UnderWay
  <2> QED
    BY <2>2, <2>6, <2>7, <2>8 DEF IInv
<1>4. CASE Resume
  <2>1. ~quiet
    BY <1>4 DEF IInv, QuietIsQuiet, UnderWay, Resume
  <2>2. CASE running \/ resting
    <3>1. OrphansBounded'
      BY <1>4, FewerOrphans DEF Resume, workerVars, Orphans
    <3>2. TypeOK'
      BY <1>0, <1>4, <2>2 DEF Resume, TypeOK, workerVars
    <3> QED
      BY <1>4, <2>1, <2>2, <3>1, <3>2 DEF IInv, Resume, HolderTrue, QuietIsQuiet, workerVars
  <2>3. CASE ~(running \/ resting)
    <3>1. PICK c : /\ c = [op |-> "resume", scope |-> Enabled, oneShot |-> FALSE, health |-> FALSE]
                   /\ Put(c)
      BY <1>4, <2>3 DEF Resume
    <3>2. c \in Call
      BY <3>1, EnabledType DEF Call
    <3> QED
      BY <1>0, <1>4, <2>1, <3>1, <3>2, PutHolds DEF Resume, TypeOK
  <2> QED
    BY <2>2, <2>3
<1> QED
  BY <1>1, <1>2, <1>3, <1>4

LEMMA StutterHolds == IInv /\ UNCHANGED vars => IInv'
<1> SUFFICES ASSUME IInv, UNCHANGED vars PROVE IInv'
  OBVIOUS
<1> QED
  BY DEF IInv, vars, workerVars, TypeOK, OrphansBounded, Orphans, HolderTrue, QuietIsQuiet,
         UnderWay

LEMMA NextHolds == IInv /\ [Next]_vars => IInv'
BY LoopStepHolds, MonitorsHold, AskHolds, FleetHolds, StopAllHolds, ShutdownsHold,
   HoldHolds, ProcessHolds, StutterHolds DEF Next

---------------------------------------------------------------------------

(* The loops of a feature belong to the orphans and to the current task.   *)
LEMMA OrphansBoundLoops == IInv => LoopsBounded
<1> SUFFICES ASSUME IInv, NEW f \in Feature
             PROVE  Cardinality({i \in Task : loop[i][f] # "none"}) <= 1 + crashes
  BY DEF LoopsBounded
<1> DEFINE L == {i \in Task : loop[i][f] # "none"}
<1>1. L \subseteq Orphans \cup {task}
  <2> SUFFICES ASSUME NEW i \in Task, loop[i][f] # "none", i # task PROVE i \in Orphans
    OBVIOUS
  <2> QED
    BY DEF Orphans, NoLoops
<1> HIDE DEF L
<1>2. Orphans \in SUBSET Task
  BY DEF Orphans
<1>3. IsFiniteSet(Orphans) /\ Cardinality(Orphans) \in Nat
  BY <1>2, TasksFinite
<1>4. /\ IsFiniteSet(Orphans \cup {task})
      /\ Cardinality(Orphans \cup {task}) \in {Cardinality(Orphans), Cardinality(Orphans) + 1}
  BY <1>3, FS_AddElement
<1>5. Cardinality(L) <= Cardinality(Orphans \cup {task}) /\ IsFiniteSet(L)
  BY <1>1, <1>4, FS_Subset
<1>6. Cardinality(L) \in Nat
  BY <1>5, FS_CardinalityType
<1>7. Cardinality(Orphans) <= crashes /\ crashes \in Nat
  BY DEF IInv, OrphansBounded, TypeOK
<1>8. Cardinality(L) <= 1 + crashes
  BY <1>3, <1>4, <1>5, <1>6, <1>7
<1> QED
  BY <1>8 DEF L

(* The invariant that the others follow from: a task outlives the worker's *)
(* knowledge of it only by an exception, the holder of the lock did what   *)
(* its stage says, and a quiet stop leaves nothing that would start.       *)
THEOREM InvariantHolds == Spec => []IInv
BY InitHolds, NextHolds, PTL DEF Spec

(* Every variable keeps its type, also for unbounded queues of calls.      *)
THEOREM TypeCorrect == Spec => []TypeOK
<1>1. IInv => TypeOK
  BY DEF IInv
<1> QED
  BY <1>1, InvariantHolds, PTL

(* No callback, monitor, slow loop, heartbeat, boot, start of all accounts *)
(* or end of a rest undoes a STOP that met nothing under way.              *)
THEOREM StopsHold == Spec => []QuietStopHolds
<1>1. IInv => QuietStopHolds
  BY DEF IInv, QuietIsQuiet, QuietStopHolds
<1> QED
  BY <1>1, InvariantHolds, PTL

(* However many starts, stops, restarts and crashes overlap, a feature has *)
(* at most one loop more than there were exceptions.                       *)
THEOREM LoopsFew == Spec => []LoopsBounded
BY InvariantHolds, OrphansBoundLoops, PTL
=============================================================================
