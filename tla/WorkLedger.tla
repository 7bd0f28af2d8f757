------------------------------- MODULE WorkLedger -------------------------------
(***************************************************************************)
(* What a work queue promises, without its order, its bound or its         *)
(* futures: a task is admitted once, handed to one consumer at most once,  *)
(* over once, and in one place at a time.  AccountQueue implements it.     *)
(***************************************************************************)
CONSTANT Task
VARIABLE work   \* the places a task is in: held, claimed or settled

Init == work = [t \in Task |-> {}]

Held == {t \in Task : work[t] = {"held"}}

Move(S, place) == [t \in Task |-> IF t \in S THEN {place} ELSE work[t]]

(* Admit a task, possibly at the expense of held ones.                     *)
Admit(t, gone) ==
  /\ work[t] = {}
  /\ work' = [Move(gone, "settled") EXCEPT ![t] = {"held"}]

Claim(t) == work[t] = {"held"} /\ work' = Move({t}, "claimed")

Finish(t) == work[t] = {"claimed"} /\ work' = Move({t}, "settled")

Discard(gone) == work' = Move(gone, "settled")

Next ==
  \/ \E t \in Task : \/ \E gone \in SUBSET Held : Admit(t, gone)
                     \/ Claim(t)
                     \/ Finish(t)
  \/ \E gone \in SUBSET Held : Discard(gone)

Spec == Init /\ [][Next]_work
=============================================================================
