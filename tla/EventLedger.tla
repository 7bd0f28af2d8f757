------------------------------ MODULE EventLedger ------------------------------
(***************************************************************************)
(* What an outbox promises of its events, without attempts, files, times   *)
(* or dispatchers: an event is due only while it is pending, handed to the *)
(* peer only after it was due, recorded delivered only if the peer took it *)
(* in, and pending again only by a new enqueue.  A new row may push one    *)
(* out, and all may be lost at once.  CrossProjectOutbox implements it.    *)
(***************************************************************************)
CONSTANT Key
VARIABLES status,  \* what the outbox says of an event, none: nothing
          due,     \* events in the hands of a dispatcher
          taken    \* events the peer took in

Nothing == [k \in Key |-> "none"]

Init == status = Nothing /\ due = {} /\ taken = {}

Pending == {k \in Key : status[k] = "pending"}

Enqueue(k) ==
  /\ status[k] = "none"
  /\ \/ status' = [status EXCEPT ![k] = "pending"]
     \/ \E x \in Key \ {k} : status' = [status EXCEPT ![k] = "pending", ![x] = "none"]
  /\ UNCHANGED <<due, taken>>

HandOut ==
  /\ due' \in SUBSET (due \cup Pending)
  /\ UNCHANGED <<status, taken>>

TakeIn(k) ==
  /\ k \in due
  /\ taken' = taken \cup {k}
  /\ UNCHANGED <<status, due>>

(* The answer that comes in last has the last word.                        *)
Settle(k, end) ==
  /\ k \in due
  /\ status[k] # "none"
  /\ end = "delivered" => k \in taken
  /\ status' = [status EXCEPT ![k] = end]
  /\ due' \in SUBSET due
  /\ UNCHANGED taken

(* All rows are lost, at an enqueue or when an answer is recorded.         *)
Lose ==
  /\ \/ status' = Nothing
     \/ \E k \in Key : status' = [Nothing EXCEPT ![k] = "pending"]
  /\ due' \in SUBSET due
  /\ UNCHANGED taken

Next ==
  \/ \E k \in Key : \/ Enqueue(k)
                    \/ TakeIn(k)
                    \/ \E end \in {"delivered", "dead"} : Settle(k, end)
  \/ HandOut
  \/ Lose

Spec == Init /\ [][Next]_<<status, due, taken>>
=============================================================================
