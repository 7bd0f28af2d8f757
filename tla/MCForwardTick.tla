------------------------------ MODULE MCForwardTick ------------------------------
(***************************************************************************)
(* Instances of ForwardTick.                                               *)
(***************************************************************************)
EXTENDS ForwardTick
=============================================================================
