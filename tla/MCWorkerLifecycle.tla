---------------------------- MODULE MCWorkerLifecycle ----------------------------
(***************************************************************************)
(* Instances of WorkerLifecycle: what operators may ask for.               *)
(***************************************************************************)
EXTENDS WorkerLifecycle, TLC

Asked(op, scope, once) ==
  [op |-> op, scope |-> scope, oneShot |-> once, health |-> FALSE]

(* A start of one feature, the stop of the other and of both.  Restarts    *)
(* start what is enabled, around the clock, so that the features meet.     *)
Operators == {Asked("start", {"forwarding"}, FALSE), Asked("stop", {"campaign"}, FALSE),
              Asked("stop", {}, FALSE)}
=============================================================================
