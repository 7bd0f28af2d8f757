--------------------------- MODULE ForwardTick_proofs ---------------------------
(***************************************************************************)
(* For any groups, any sizes of ticks and any number of stops, floods,     *)
(* lost answers, lost groups and failed writes: what the posting mode file *)
(* tells of a round of the automatic forwarding.                           *)
(***************************************************************************)
EXTENDS ForwardTick, TLAPS

(* What the round has still to use, with those that got a message which no *)
(* tick knows of.                                                          *)
Left == members \ (used \ doubt)

(* What is left of the pool is what is left of the round.                  *)
TickExact == ~cut /\ loop \in InTick => pool \ done = Left

AfterExact == ~cut /\ loop = "after" => saved = Left

(* The file tells what is left among the groups that are joined, or the    *)
(* round has just begun and the file still tells that there is nothing     *)
(* left of the one before.                                                 *)
Fits ==
  \/ saved \intersect joined = Left \intersect joined
  \/ saved \intersect joined = {} /\ joined \subseteq Left

Unsaved == loop \in {"off", "top", "ready"} \/ (loop \in InTick /\ done = {})
FileFits == ~cut /\ Unsaved => Fits

(* Between the settings and the pick only a reset changes the file.        *)
ReadIsCurrent ==
  loop = "ready" => (saved = seen \/ (cut /\ saved = {}))

InHand == loop = "asked" => current \in pool \ done

IInv == TypeOK /\ InHand /\ ReadIsCurrent /\ TickExact /\ AfterExact /\ FileFits

---------------------------------------------------------------------------

LEMMA InitHolds == Init => IInv
<1> SUFFICES ASSUME Init PROVE IInv
  OBVIOUS
<1>1. TypeOK
  <2>1. upsets \in 0 .. MaxUpsets /\ joinDue \in 0 .. 1
    BY ForwardAssumption DEF Init
  <2> QED
    BY <2>1 DEF Init, TypeOK, Stage, InTick
<1> QED
  BY <1>1 DEF Init, IInv, InHand, ReadIsCurrent, TickExact, AfterExact, FileFits, Fits, Left, InTick

LEMMA UpsetType == TypeOK /\ Upset => upsets' \in 0 .. MaxUpsets
BY ForwardAssumption DEF TypeOK, Upset

(* The worker around the loop.                                             *)
LEMMA WorkerSteps ==
  ASSUME IInv, Start \/ CrashRestart \/ StopFeature \/ Configure \/ ResetCounters \/ \E g \in Group : Leave(g)
  PROVE  IInv'
<1> USE DEF IInv, settings, tick, history
<1>1. CASE Start \/ CrashRestart
  <2>1. TypeOK'
    BY <1>1 DEF Start, CrashRestart, Goto, TypeOK, Stage
  <2> QED
    BY <1>1, <2>1 DEF Start, CrashRestart, Goto, InHand, ReadIsCurrent, TickExact, AfterExact, FileFits, Fits, Unsaved,
                      Left, InTick
<1>2. CASE StopFeature \/ Configure
  <2>1. TypeOK'
    <3>1. CASE StopFeature
      <4>1. upsets' \in 0 .. MaxUpsets /\ joinDue' \in 0 .. 1
        BY <3>1, UpsetType DEF StopFeature
      <4> QED
        BY <3>1, <4>1 DEF StopFeature, TypeOK
    <3>2. CASE Configure
      <4>1. upsets' \in 0 .. MaxUpsets
        BY <3>2, UpsetType DEF Configure, TypeOK
      <4>2. configured' \in BOOLEAN
        BY <3>2 DEF Configure
      <4> QED
        BY <3>2, <4>1, <4>2 DEF Configure, TypeOK
    <3> QED
      BY <1>2, <3>1, <3>2
  <2> QED
    BY <1>2, <2>1 DEF StopFeature, Configure, InHand, ReadIsCurrent, TickExact, AfterExact, FileFits, Fits, Unsaved, Left
<1>3. CASE ResetCounters
  <2>1. TypeOK'
    BY <1>3, UpsetType DEF ResetCounters, TypeOK, Stage
  <2> QED
    BY <1>3, <2>1 DEF ResetCounters, InHand, ReadIsCurrent, TickExact, AfterExact, FileFits
<1>4. CASE \E g \in Group : Leave(g)
  <2>1. joined' \subseteq joined /\ UNCHANGED <<loop, on, configured, saved, seen, pool, todo, current, done, learned,
                                                 dead, joinDue, members, used, doubt, cut>>
    BY <1>4 DEF Leave
  <2>2. upsets' \in 0 .. MaxUpsets
    BY <1>4, UpsetType DEF Leave
  <2>3. TypeOK'
    BY <2>1, <2>2 DEF TypeOK
  <2>4. Fits => Fits'
    BY <2>1 DEF Fits, Left
  <2> QED
    BY <2>1, <2>3, <2>4 DEF InHand, ReadIsCurrent, TickExact, AfterExact, FileFits, Unsaved, Left
<1> QED
  BY <1>1, <1>2, <1>3, <1>4

(* A message that nobody heard of leaves the group to the round.           *)
LEMMA UnheardKeepsLeft ==
  ASSUME IInv, loop = "asked", Unheard
  PROVE  /\ used' \subseteq Group /\ doubt' \subseteq used'
         /\ ~cut /\ members' = members => Left' = Left
<1>1. current \in Group /\ used \subseteq Group /\ doubt \subseteq used
  BY DEF IInv, InHand, TypeOK
<1>2. ~cut => current \notin used \ doubt
  BY DEF IInv, InHand, TickExact, Left, InTick
<1> QED
  BY <1>1, <1>2 DEF Unheard, Left

LEMMA AnswerLostStep == IInv /\ AnswerLost => IInv'
<1> SUFFICES ASSUME IInv, AnswerLost PROVE IInv'
  OBVIOUS
<1>1. /\ loop = "asked"
      /\ UNCHANGED <<loop, on, configured, joined, saved, seen, pool, todo, current, done, learned, dead, joinDue,
                     members, cut>>
  BY DEF AnswerLost, settings, tick
<1>2. /\ used' \subseteq Group /\ doubt' \subseteq used'
      /\ ~cut => Left' = Left
  BY <1>1, UnheardKeepsLeft DEF AnswerLost
<1>3. TypeOK'
  BY <1>1, <1>2, UpsetType DEF AnswerLost, IInv, TypeOK
<1>4. FileFits'
  BY <1>1, <1>2 DEF IInv, FileFits, Fits, Unsaved, InTick
<1> QED
  BY <1>1, <1>2, <1>3, <1>4 DEF IInv, InHand, ReadIsCurrent, TickExact, AfterExact

(* A tick that is cut off keeps the file, which fits unless it was done    *)
(* with something.                                                         *)
LEMMA CancelStep == IInv /\ Cancel => IInv'
<1> SUFFICES ASSUME IInv, Cancel PROVE IInv'
  OBVIOUS
<1>1. /\ loop' = "off" /\ todo' = {} /\ done' = {} /\ current' = NoGroup
      /\ UNCHANGED <<configured, joined, saved, seen, pool, learned, dead, members>>
      /\ cut' \/ (~cut /\ ~(loop \in InTick /\ done # {}))
  BY DEF Cancel, settings
<1>2. /\ used' \subseteq Group /\ doubt' \subseteq used'
      /\ ~cut => Left' = Left
  <2>1. CASE loop = "asked" /\ Unheard
    BY <1>1, <2>1, UnheardKeepsLeft
  <2>2. CASE UNCHANGED <<used, doubt>>
    BY <1>1, <2>2 DEF IInv, TypeOK, Left
  <2> QED
    BY <2>1, <2>2 DEF Cancel
<1>3. TypeOK'
  <2>1. upsets' \in 0 .. MaxUpsets /\ on' = FALSE /\ joinDue' \in 0 .. 1
    BY UpsetType DEF Cancel, IInv
  <2>2. cut' \in BOOLEAN
    BY DEF Cancel, IInv, TypeOK
  <2> QED
    BY <1>1, <1>2, <2>1, <2>2, ForwardAssumption DEF IInv, TypeOK, Stage
<1>4. ASSUME ~cut' PROVE Fits'
  <2>1. Fits
    BY <1>1, <1>4 DEF IInv, TypeOK, Stage, FileFits, Unsaved, AfterExact, Fits
  <2> QED
    BY <1>1, <1>2, <1>4, <2>1 DEF Fits
<1> QED
  BY <1>1, <1>3, <1>4 DEF IInv, InHand, ReadIsCurrent, TickExact, AfterExact, FileFits, InTick

LEMMA EdgeSteps ==
  ASSUME IInv, ReadSettings \/ LoopEnds \/ LoopStops \/ NotReady \/ After
  PROVE  IInv'
<1> USE DEF IInv, settings, tick, history
<1>1. TypeOK'
  <2>1. CASE ReadSettings \/ LoopEnds \/ NotReady
    BY <2>1, UpsetType DEF ReadSettings, LoopEnds, NotReady, Goto, TypeOK, Stage, InTick
  <2>3. CASE LoopStops
    <3>1. /\ loop = "top" /\ loop' = "off" /\ on' = FALSE /\ joinDue' = 0
          /\ UNCHANGED <<configured, joined, saved, seen, pool, todo, current, done, learned, dead, members, used, doubt,
                         cut>>
      BY <2>3 DEF LoopStops, Goto
    <3>2. upsets' \in 0 .. MaxUpsets
      BY <2>3, UpsetType DEF LoopStops
    <3>3. loop' \in Stage /\ joinDue' \in 0 .. 1
      BY <3>1 DEF Stage
    <3>4. on' \in BOOLEAN
      BY <2>3 DEF LoopStops
    <3> QED
      BY <3>1, <3>2, <3>3, <3>4 DEF TypeOK
  <2>2. CASE After
    <3>1. joined' \subseteq Group
      BY <2>2 DEF After, TypeOK
    <3>2. on' \in BOOLEAN
      <4>1. on' \in {on, FALSE} /\ on \in BOOLEAN
        BY <2>2 DEF After, TypeOK
      <4> QED
        BY <4>1
    <3>3. joinDue' \in 0 .. 1
      BY <2>2 DEF After
    <3> QED
      BY <2>2, <3>1, <3>2, <3>3, ForwardAssumption DEF After, Goto, TypeOK, Stage, InTick
  <2> QED
    BY <2>1, <2>2, <2>3
<1>2. /\ UNCHANGED <<saved, members, used, doubt, cut>>
      /\ loop \in {"top", "ready", "after"} /\ loop' \in {"top", "ready", "off"}
      /\ loop' = "ready" => seen' = saved
      /\ loop # "after" => joined' = joined
  BY DEF ReadSettings, LoopEnds, LoopStops, NotReady, After, Goto
<1>3. ~cut => Fits'
  BY <1>2 DEF FileFits, Unsaved, AfterExact, Fits, Left
<1> QED
  BY <1>1, <1>2, <1>3 DEF InHand, ReadIsCurrent, TickExact, AfterExact, FileFits, InTick

(* The pool is what is left of the round, or the round begins anew.        *)
LEMMA PickStep == IInv /\ Pick => IInv'
<1> SUFFICES ASSUME IInv, Pick PROVE IInv'
  OBVIOUS
<1> USE DEF IInv, settings, tick, history
<1>1. PICK gone \in SUBSET dead, n \in TickSizes(Cardinality(Pending)) :
        /\ learned' = dead \ gone
        /\ \E picked \in kSubset(n, Pending) :
             LET live == picked \ (Shunned \union learned') IN
             /\ todo' = live
             /\ IF live = {}
                THEN \/ Saves(Pending) /\ dead' = IF joined = {} THEN dead ELSE learned'
                     \/ TickError
                ELSE loop' = "next" /\ UNCHANGED <<saved, dead, upsets>>
  BY DEF Pick
<1>2. /\ todo' \subseteq Pending
      /\ \/ loop' = "after" /\ saved' = Pending
         \/ loop' \in {"off", "top", "next"} /\ saved' = saved
      /\ dead' \subseteq Findable /\ learned' \subseteq Findable
      /\ upsets' \in 0 .. MaxUpsets
  <2>1. todo' \subseteq Pending /\ learned' \subseteq Findable
    BY <1>1 DEF kSubset, TypeOK
  <2>2. CASE Saves(Pending) /\ dead' = IF joined = {} THEN dead ELSE learned'
    BY <2>1, <2>2, UpsetType DEF Saves, TypeOK
  <2>3. CASE TickError
    BY <2>1, <2>3, UpsetType DEF TickError, TypeOK
  <2>4. CASE loop' = "next" /\ UNCHANGED <<saved, dead, upsets>>
    BY <2>1, <2>4 DEF TypeOK
  <2> QED
    BY <1>1, <2>1, <2>2, <2>3, <2>4
<1>3. /\ loop = "ready" /\ pool' = Pending /\ done' = {} /\ current' = NoGroup
      /\ UNCHANGED <<on, configured, joined, seen, joinDue>>
  BY DEF Pick
<1>4. /\ Pending \subseteq joined
      /\ Pending = IF Resets THEN joined ELSE seen \intersect joined
  BY DEF Pending, PoolOf, Resets
<1>5. members' \subseteq Group /\ used' \subseteq Group /\ doubt' \subseteq used' /\ cut' \in BOOLEAN
  BY DEF Pick, Turn, TypeOK
<1>6. TypeOK'
  BY <1>2, <1>3, <1>4, <1>5, ForwardAssumption DEF TypeOK, Stage, InTick
<1>7. CASE Resets /\ (members \intersect joined) \subseteq used \ doubt
  <2>1. members' = joined /\ used' = {} /\ doubt' = {} /\ cut' = FALSE
    BY <1>7 DEF Pick, Turn
  <2>2. Pending = Left'
    BY <1>4, <1>7, <2>1 DEF Left
  <2>3. saved \intersect joined = {}
    BY <1>3, <1>7 DEF Resets, ReadIsCurrent
  <2>4. saved' = saved => Fits'
    BY <1>3, <2>1, <2>3 DEF Fits, Left
  <2> QED
    BY <1>2, <1>3, <1>6, <2>2, <2>4
    DEF InHand, ReadIsCurrent, TickExact, AfterExact, FileFits, Unsaved, InTick
<1>8. CASE ~(Resets /\ (members \intersect joined) \subseteq used \ doubt)
  <2>1. members' = members \intersect joined /\ UNCHANGED <<used, doubt, cut>>
    BY <1>8 DEF Pick, Turn
  <2>2. ASSUME ~cut PROVE Pending = Left' /\ (saved' = saved => Fits')
    <3>1. saved = seen /\ Fits
      BY <1>3, <2>2 DEF ReadIsCurrent, FileFits, Unsaved
    <3>2. Left' = Left \intersect joined
      BY <2>1 DEF Left
    <3>3. Pending = Left \intersect joined
      BY <1>4, <1>8, <3>1 DEF Fits, Left, Resets
    <3> QED
      BY <1>3, <3>1, <3>2, <3>3 DEF Fits
  <2> QED
    BY <1>2, <1>3, <1>6, <2>1, <2>2
    DEF InHand, ReadIsCurrent, TickExact, AfterExact, FileFits, Unsaved, InTick
<1> QED
  BY <1>7, <1>8

(* A tick that finds no message forgets the round, or changes nothing.     *)
LEMMA PickUnconfiguredStep == IInv /\ PickUnconfigured => IInv'
<1> SUFFICES ASSUME IInv, PickUnconfigured PROVE IInv'
  OBVIOUS
<1> USE DEF IInv, settings, tick, history
<1>1. /\ loop = "ready"
      /\ UNCHANGED <<on, configured, joined, seen, pool, todo, current, done, learned, dead, joinDue, members, used, doubt>>
      /\ upsets' \in 0 .. MaxUpsets
      /\ \/ loop' = "after" /\ saved' = {} /\ cut'
         \/ loop' \in {"off", "top"} /\ saved' = saved /\ cut' = cut
  BY UpsetType DEF PickUnconfigured, Saves, TickError, TypeOK
<1>2. TypeOK'
  BY <1>1 DEF TypeOK, Stage
<1>3. ~cut' => Fits'
  BY <1>1 DEF FileFits, Unsaved, Fits, Left
<1> QED
  BY <1>1, <1>2, <1>3 DEF InHand, ReadIsCurrent, TickExact, AfterExact, FileFits, InTick

(* The tick.                                                               *)
LEMMA TickSteps ==
  ASSUME IInv, (\E g \in Group : Ask(g)) \/ Flooded \/ Rested
  PROVE  IInv'
<1> USE DEF IInv, settings, tick, history
<1>1. TypeOK'
  <2>1. CASE \E g \in Group : Ask(g)
    BY <2>1, ForwardAssumption DEF Ask, Goto, TypeOK, Stage, InTick
  <2>2. CASE Flooded
    BY <2>2, UpsetType DEF Flooded, TypeOK, Stage, InTick
  <2>3. CASE Rested
    BY <2>3 DEF Rested, Goto, TypeOK, Stage, InTick
  <2> QED
    BY <2>1, <2>2, <2>3
<1>2. /\ UNCHANGED <<joined, saved, pool, done, members, used, doubt, cut>>
      /\ loop \in InTick /\ loop' \in InTick
      /\ loop' = "asked" => current' \in pool \ done
  BY DEF Ask, Flooded, Rested, Goto, TypeOK, InTick
<1> QED
  BY <1>1, <1>2 DEF InHand, ReadIsCurrent, TickExact, AfterExact, FileFits, Fits, Unsaved, Left, InTick

LEMMA ProcessedStep == IInv /\ Processed => IInv'
<1> SUFFICES ASSUME IInv, Processed PROVE IInv'
  OBVIOUS
<1> USE DEF IInv, settings, tick, history
<1>1. /\ loop = "asked" /\ loop' \in {"rest", "next"} /\ current \in pool \ done
      /\ done' = done \union {current} /\ used' = used \union {current} /\ doubt' = doubt \ {current}
      /\ UNCHANGED <<on, configured, joined, saved, seen, pool, todo, current, dead, joinDue, upsets, members, cut>>
      /\ learned' \subseteq Findable
  BY DEF Processed, Learn, InHand, TypeOK
<1>2. TypeOK'
  BY <1>1 DEF TypeOK, Stage, InTick
<1>3. TickExact'
  BY <1>1 DEF TickExact, Left, InTick
<1> QED
  BY <1>1, <1>2, <1>3 DEF InHand, ReadIsCurrent, AfterExact, FileFits, Unsaved

LEMMA TickEnding ==
  ASSUME IInv, TickEnds \/ StoppedInRest
  PROVE  IInv'
<1> USE DEF IInv, settings, tick, history
<1>1. CASE TickEnds
  <2>1. /\ loop = "next" /\ todo' = {} /\ current' = NoGroup
        /\ UNCHANGED <<on, configured, joined, seen, pool, done, learned, joinDue, members, used, doubt>>
        /\ upsets' \in 0 .. MaxUpsets
        /\ dead' \in {dead, learned}
        /\ \/ loop' = "after" /\ saved' = pool \ done /\ cut' = cut
           \/ loop' \in {"top", "off"} /\ cut' = (cut \/ done # {}) /\ saved' = saved
    BY <1>1, UpsetType DEF TickEnds, Finish, Saves, TickError, Remaining, TypeOK
  <2>2. TypeOK'
    BY <2>1 DEF TypeOK, Stage, InTick
  <2>3. CASE loop' = "after" /\ saved' = pool \ done /\ cut' = cut
    BY <2>1, <2>2, <2>3 DEF InHand, ReadIsCurrent, TickExact, AfterExact, FileFits, Unsaved, Left, InTick
  <2>4. CASE loop' \in {"top", "off"} /\ cut' = (cut \/ done # {}) /\ saved' = saved
    BY <2>1, <2>2, <2>4 DEF InHand, ReadIsCurrent, TickExact, AfterExact, FileFits, Fits, Unsaved, Left, InTick
  <2> QED
    BY <2>1, <2>3, <2>4
<1>2. CASE StoppedInRest
  <2>1. /\ loop' \in {"after", "off"} /\ saved' \in {saved, {}} /\ cut' = TRUE /\ upsets' \in 0 .. MaxUpsets
        /\ todo' = {} /\ current' = NoGroup
        /\ UNCHANGED <<on, configured, joined, seen, pool, done, learned, dead, joinDue, members, used, doubt>>
    BY <1>2, UpsetType DEF StoppedInRest, Saves, TypeOK
  <2>2. TypeOK'
    BY <2>1, ForwardAssumption DEF TypeOK, Stage
  <2> QED
    BY <2>1, <2>2 DEF InHand, ReadIsCurrent, TickExact, AfterExact, FileFits
<1> QED
  BY <1>1, <1>2

LEMMA Step == IInv /\ [Next]_vars => IInv'
<1> SUFFICES ASSUME IInv, [Next]_vars PROVE IInv'
  OBVIOUS
<1>1. CASE Next
  BY <1>1, WorkerSteps, AnswerLostStep, CancelStep, EdgeSteps, PickStep, PickUnconfiguredStep, TickSteps, ProcessedStep,
     TickEnding
  DEF Next, LoopStep
<1>2. CASE UNCHANGED vars
  BY <1>2 DEF vars, settings, tick, history, IInv, TypeOK, InHand, ReadIsCurrent, TickExact, AfterExact, FileFits,
    Fits, Unsaved, Left
<1> QED
  BY <1>1, <1>2

---------------------------------------------------------------------------
(* The theorems.                                                           *)

(* The invariant holds in every state of every behaviour.                  *)
THEOREM InvariantHolds == Spec => []IInv
BY InitHolds, Step, PTL DEF Spec

(* The state has its type: a tick keeps apart what is done and what is to  *)
(* come.                                                                   *)
THEOREM TypeCorrect == Spec => []TypeOK
<1>1. IInv => TypeOK
  BY DEF IInv
<1> QED
  BY <1>1, InvariantHolds, PTL

(* Between ticks the file tells what the round has still to use.           *)
THEOREM FileIsExact == Spec => []SavedIsExact
<1>1. IInv => SavedIsExact
  <2> SUFFICES ASSUME IInv, ~cut, loop \notin InTick PROVE PoolOf(saved) = PoolOf(Left)
    BY DEF SavedIsExact, Left
  <2>1. Fits
    BY DEF IInv, TypeOK, Stage, FileFits, Unsaved, AfterExact, Fits
  <2> QED
    BY <2>1 DEF Fits, PoolOf
<1> QED
  BY <1>1, InvariantHolds, PTL

(* Within a round that lost nothing, no group that a tick was done with is *)
(* asked again.                                                            *)
THEOREM NoReuse == Spec => ReuseNeedsCut
<1>1. IInv => [\A g \in used \ doubt : Ask(g) => cut]_vars
  BY DEF IInv, TypeOK, TickExact, Left, InTick, Ask, Goto
<1> QED
  BY <1>1, InvariantHolds, PTL DEF ReuseNeedsCut
=============================================================================
