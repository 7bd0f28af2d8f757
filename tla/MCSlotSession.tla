----------------------------- MODULE MCSlotSession -----------------------------
(***************************************************************************)
(* Instances of SlotSession.  The bounds are the identities of operations  *)
(* and requests.                                                           *)
(***************************************************************************)
EXTENDS SlotSession
=============================================================================
