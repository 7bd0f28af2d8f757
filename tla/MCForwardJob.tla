------------------------------ MODULE MCForwardJob ------------------------------
(***************************************************************************)
(* Instances of ForwardJob: a template at the human pace, and a post in    *)
(* batches of two with a pause between them.                               *)
(***************************************************************************)
EXTENDS ForwardJob

Human == [size |-> 1, pause |-> FALSE, template |-> TRUE]
Batched == [size |-> 2, pause |-> TRUE, template |-> FALSE]

AnySettings == {Human, Batched}
=============================================================================
