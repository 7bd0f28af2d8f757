----------------------------- MODULE MCAccountQueue -----------------------------
(* Four or five tasks on a queue of two places.                            *)
EXTENDS AccountQueue, TLC

CONSTANTS dm1, dm2, auto, retry, post, cycle, ana, bob

McPriority == [t \in Task |-> CASE t = retry -> RETRY
                                [] t \in {dm1, dm2, auto} -> HIGH
                                [] t = post -> NORMAL
                                [] t = cycle -> LOW]
McWaitResult == Task \cap {dm1, dm2, retry}
McAwaited == Task \cap {dm1, dm2}
McAutoReply == Task \cap {auto}
McManual == Task \cap {dm1, dm2}
McChat == [t \in Task |-> IF t \in {dm1, auto} THEN ana ELSE bob]
=============================================================================
