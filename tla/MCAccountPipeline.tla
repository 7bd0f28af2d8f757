---------------------------- MODULE MCAccountPipeline ----------------------------
(* Two or three requests to two chats; two or three processor loops may    *)
(* come to exist, and the cycle.                                           *)
EXTENDS AccountPipeline, TLC

CONSTANTS dm, dm2, media, location, auto, ana, bob

McKind == [j \in Job |-> CASE j \in {dm, dm2} -> "dm"
                           [] j = media -> "media"
                           [] j = location -> "location"
                           [] j = auto -> "auto"]
McJobChat == [j \in Job |-> IF j \in {dm, auto} THEN ana ELSE bob]
Processors == Permutations(Processor)
=============================================================================
