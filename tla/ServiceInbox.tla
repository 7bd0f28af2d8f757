------------------------------- MODULE ServiceInbox -------------------------------
(***************************************************************************)
(* features/service_inbox.py and its consumer, receive_notification of     *)
(* core/internal_api.py: a request reserves its idempotency key in a file, *)
(* notifies web-push subscribers and then one phone after the other, and   *)
(* releases the key if that raises.  Requests of the peer run concurrently *)
(* on the event loop and interleave at each await of send_text.            *)
(***************************************************************************)
EXTENDS Integers, Sequences, FiniteSets, SequencesExt

CONSTANTS Key, Request,
          KeyOf,       \* X-Idempotency-Key of a request
          Phones,      \* how many phones are to be told
          Keep,        \* keys the file keeps
          MaxFaults,   \* bound of the model on failed reads and writes of the file
          MaxCrashes   \* bound of the model on process restarts

ASSUME InboxAssumption ==
  /\ KeyOf \in [Request -> Key]
  /\ Phones \in Nat
  /\ Keep \in Nat \ {0}
  /\ MaxFaults \in Nat
  /\ MaxCrashes \in Nat

VARIABLES reserved,  \* keys in the file, oldest first
          stage,     \* what a request has come to
          told,      \* phones a request has told
          sent,      \* history: notifications of a key per target, 0 = web push
          faults, crashes

vars == <<reserved, stage, told, sent, faults, crashes>>

Stage == {"new", "working", "ok", "failed", "duplicate", "lost"}

TypeOK ==
  /\ reserved \in Seq(Key)
  /\ stage \in [Request -> Stage]
  /\ told \in [Request -> 0 .. Phones]
  /\ sent \in [Key -> [0 .. Phones -> Nat]]
  /\ faults \in 0 .. MaxFaults
  /\ crashes \in 0 .. MaxCrashes

Init ==
  /\ reserved = <<>>
  /\ stage = [r \in Request |-> "new"]
  /\ told = [r \in Request |-> 0]
  /\ sent = [k \in Key |-> [n \in 0 .. Phones |-> 0]]
  /\ faults = 0 /\ crashes = 0

---------------------------------------------------------------------------
In(k, keys) == \E i \in DOMAIN keys : keys[i] = k

(* The file is read and written, or one of the two fails.  claim takes a   *)
(* file it cannot read for empty and overwrites it; release leaves it as   *)
(* it is.  A write that fails raises and leaves the old file in place.     *)
FileWorks == UNCHANGED faults
FileFails == faults < MaxFaults /\ faults' = faults + 1

Reserve_Nothing(keys, k) == keys

Reserve(keys, k) ==
  Append(IF Len(keys) < Keep THEN keys ELSE Tail(keys), k)

Claimed(k) ==
  \/ FileWorks /\ ~In(k, reserved) /\ reserved' = Reserve(reserved, k)
  \/ FileFails /\ reserved' = Reserve(<<>>, k)

Release_Never(k) == UNCHANGED <<reserved, faults>>

(* Called while the request fails anyway: whether release cannot read the  *)
(* file or its write raises, the key stays and the request has failed.     *)
Release(k) ==
  \/ /\ FileWorks
     /\ \/ ~In(k, reserved) /\ UNCHANGED reserved
        \/ \E i \in DOMAIN reserved : reserved[i] = k /\ reserved' = RemoveAt(reserved, i)
  \/ FileFails /\ UNCHANGED reserved

Becomes(r, s) == stage' = [stage EXCEPT ![r] = s]
Notify(r, target) == sent' = [sent EXCEPT ![KeyOf[r]][target] = @ + 1]
Progress(r, n) == Becomes(r, IF n = Phones THEN "ok" ELSE "working")

Duplicate(r) ==
  /\ stage[r] = "new"
  /\ In(KeyOf[r], reserved)
  /\ Becomes(r, "duplicate")
  /\ UNCHANGED <<reserved, told, sent, faults, crashes>>

(* claim, and the web pushes, which do not await.                          *)
Claim(r) ==
  /\ stage[r] = "new"
  /\ Claimed(KeyOf[r])
  /\ Notify(r, 0)
  /\ Progress(r, 0)
  /\ UNCHANGED <<told, crashes>>

(* The write of claim raises, in front of the try: nothing is reserved and *)
(* nothing sent.  Its read may have failed too.                            *)
ClaimRaises(r) ==
  /\ stage[r] = "new"
  /\ \/ FileFails /\ ~In(KeyOf[r], reserved)
     \/ faults + 2 <= MaxFaults /\ faults' = faults + 2
  /\ Becomes(r, "failed")
  /\ UNCHANGED <<reserved, told, sent, crashes>>

(* A web push raises: the key is reserved and released at once.  The file  *)
(* may fail claim, or release, or both.                                    *)
ClaimFails(r) ==
  /\ stage[r] = "new"
  /\ \/ FileWorks /\ ~In(KeyOf[r], reserved) /\ reserved' = Front(Reserve(reserved, KeyOf[r]))
     \/ FileFails /\ reserved' = <<>>
     \/ FileFails /\ ~In(KeyOf[r], reserved) /\ reserved' = Reserve(reserved, KeyOf[r])
     \/ faults + 2 <= MaxFaults /\ faults' = faults + 2 /\ reserved' = Reserve(<<>>, KeyOf[r])
  /\ Notify(r, 0) \/ UNCHANGED sent
  /\ Becomes(r, "failed")
  /\ UNCHANGED <<told, crashes>>

SendText(r) ==
  /\ stage[r] = "working"
  /\ told' = [told EXCEPT ![r] = @ + 1]
  /\ Notify(r, told[r] + 1)
  /\ Progress(r, told[r] + 1)
  /\ UNCHANGED <<reserved, faults, crashes>>

(* send_text raises, before or after the provider took the message.        *)
SendFails(r) ==
  /\ stage[r] = "working"
  /\ Notify(r, told[r] + 1) \/ UNCHANGED sent
  /\ Release(KeyOf[r])
  /\ Becomes(r, "failed")
  /\ UNCHANGED <<told, crashes>>

Restart_Forgets ==
  /\ crashes < MaxCrashes
  /\ crashes' = crashes + 1
  /\ stage' = [r \in Request |-> IF stage[r] = "working" THEN "lost" ELSE stage[r]]
  /\ reserved' = <<>>
  /\ UNCHANGED <<told, sent, faults>>

(* The process dies, or shuts down and cancels the requests: a             *)
(* CancelledError is not an Exception, and nothing releases their keys.    *)
Restart ==
  /\ crashes < MaxCrashes
  /\ crashes' = crashes + 1
  /\ stage' = [r \in Request |-> IF stage[r] = "working" THEN "lost" ELSE stage[r]]
  /\ UNCHANGED <<reserved, told, sent, faults>>

Next ==
  \/ \E r \in Request : \/ Duplicate(r)
                        \/ Claim(r)
                        \/ ClaimRaises(r)
                        \/ ClaimFails(r)
                        \/ SendText(r)
                        \/ SendFails(r)
  \/ Restart

Spec == Init /\ [][Next]_vars

---------------------------------------------------------------------------
(* Properties.                                                             *)

Of(k, s) == {r \in Request : KeyOf[r] = k /\ stage[r] = s}

(* Two requests never work on the same key at once, and none does after    *)
(* one of them succeeded: each one more takes a fault of the file.         *)
OneWorkerPerKey ==
  \A k \in Key : Cardinality(Of(k, "working") \cup Of(k, "ok")) <= 1 + faults

(* "... release the reservation if processing raises, so failed work can   *)
(* retry": a key stays reserved for a request that works, succeeded or     *)
(* went down with the process, or because release could not read or write  *)
(* the file: one key for each such fault.                                  *)
HeldForNothing ==
  {k \in Key : In(k, reserved) /\ Of(k, "working") \cup Of(k, "ok") \cup Of(k, "lost") = {}}

ReservedForAReason == Cardinality(HeldForNothing) <= faults

(* A target is notified again only for a request that failed before, or    *)
(* because the file failed claim: as many times, and once more.            *)
RepeatsNeedFailures ==
  \A k \in Key : \A n \in 0 .. Phones :
    sent[k][n] <= 1 + Cardinality(Of(k, "failed")) + faults
=============================================================================
