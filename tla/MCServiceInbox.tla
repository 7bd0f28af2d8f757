----------------------------- MODULE MCServiceInbox -----------------------------
(* The peer posts one notification three times and another one twice.      *)
EXTENDS ServiceInbox, TLC

CONSTANTS k1, k2, a1, a2, a3, b1, b2

McKeyOf == [r \in Request |-> IF r \in {a1, a2, a3} THEN k1 ELSE k2]
SameKey == Permutations({a1, a2, a3}) \cup Permutations({b1, b2})
=============================================================================
