----------------------------- MODULE MCAutoReply -----------------------------
(***************************************************************************)
(* An instance of AutoReply with the limits of the code scaled down: the   *)
(* periodic sync asks for less than the store keeps, an open chat for more *)
(* than the periodic sync.                                                 *)
(***************************************************************************)
EXTENDS AutoReply

MCLimit == [light |-> 1, open |-> 2, page |-> 1, send |-> 2]
=============================================================================
