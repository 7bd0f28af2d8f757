-------------------------- MODULE MCCrossProjectOutbox --------------------------
(* Two or three events, a few attempts instead of twelve.                  *)
EXTENDS CrossProjectOutbox
=============================================================================
