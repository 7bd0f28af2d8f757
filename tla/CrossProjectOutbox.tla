---------------------------- MODULE CrossProjectOutbox ----------------------------
(***************************************************************************)
(* services/cross_project_outbox.py and the two dispatchers of             *)
(* services/opportunity_event_producer.py: the loop that posts due events  *)
(* every 30 s from a worker thread, and the inline dispatch on the event   *)
(* loop that follows each enqueue.  Each function of the outbox holds      *)
(* _LOCK over one read and one write of the file; between the functions,   *)
(* and during a post, the two dispatchers interleave.                      *)
(***************************************************************************)
EXTENDS Integers, Sequences, FiniteSets

CONSTANTS Key,          \* idempotency keys of events
          MaxAttempts,  \* _MAX_ATTEMPTS
          MaxRows,      \* rows enqueue keeps in the file
          Batch,        \* due(limit=...)
          Faults,       \* what may go wrong besides the peer
          MaxCrashes    \* bound of the model on process restarts

ASSUME OutboxAssumption ==
  /\ Key # {}
  /\ MaxAttempts \in Nat \ {0}
  /\ MaxRows \in Nat \ {0}
  /\ Batch \in Nat \ {0}
  /\ Faults \subseteq {"read", "write", "body"}
  /\ MaxCrashes \in Nat

VARIABLES outbox,    \* the file
          stage,     \* where each dispatcher is
          todo,      \* rest of its snapshot of due events
          current,   \* the event it posts
          accepted,  \* history: events the peer took in
          crashes

vars == <<outbox, stage, todo, current, accepted, crashes>>

Dispatcher == {"inline", "loop"}

(* due: about to read the file; posting: between two posts; delivered, odd *)
(* and failed: a post has its answer, which is not recorded yet; ended:    *)
(* _dispatcher_loop died of an exception.                                  *)
Stage == {"idle", "due", "posting", "delivered", "odd", "failed", "ended"}

Status == {"none", "pending", "delivered", "dead"}
Row == [status : Status, attempts : Nat, ready : BOOLEAN]
File == [order : Seq(Key), row : [Key -> Row]]

TypeOK ==
  /\ outbox \in File
  /\ stage \in [Dispatcher -> Stage]
  /\ todo \in [Dispatcher -> SUBSET Key]
  /\ current \in [Dispatcher -> Key]
  /\ accepted \subseteq Key
  /\ crashes \in 0 .. MaxCrashes

NoRow == [status |-> "none", attempts |-> 0, ready |-> FALSE]
Empty == [order |-> <<>>, row |-> [k \in Key |-> NoRow]]

Init ==
  /\ outbox = Empty
  /\ stage = [d \in Dispatcher |-> "idle"]
  /\ todo = [d \in Dispatcher |-> {}]
  /\ current = [d \in Dispatcher |-> CHOOSE k \in Key : TRUE]
  /\ accepted = {}
  /\ crashes = 0

---------------------------------------------------------------------------
(* The file.  _load turns any OSError into an empty list, and the function *)
(* goes on to save what it made of that.                                   *)
Loaded == {outbox} \cup (IF "read" \in Faults THEN {Empty} ELSE {})

(* enqueue of a new key, and the trim to the newest rows.                  *)
Add(b, k) ==
  LET gone == IF Len(b.order) < MaxRows THEN {} ELSE {Head(b.order)} IN
  [order |-> Append(IF gone = {} THEN b.order ELSE Tail(b.order), k),
   row |-> [x \in Key |->
              IF x = k
              THEN [status |-> "pending", attempts |-> 0, ready |-> TRUE]
              ELSE IF x \in gone THEN NoRow ELSE b.row[x]]]

WithRow(b, k, r) == [b EXCEPT !.row = [b.row EXCEPT ![k] = r]]

MarkDelivered(b, k) ==
  IF b.row[k].status = "none" THEN b
  ELSE WithRow(b, k, [b.row[k] EXCEPT !.status = "delivered"])

MarkFailed_OneMore(b, k) ==
  LET r == b.row[k]
      n == r.attempts + 1
  IN IF r.status = "none" THEN b
     ELSE WithRow(b, k, IF n > MaxAttempts
                        THEN [r EXCEPT !.attempts = n, !.status = "dead"]
                        ELSE [r EXCEPT !.attempts = n, !.ready = FALSE])

MarkFailed_Reopens(b, k) ==
  LET r == b.row[k]
      n == r.attempts + 1
  IN IF r.status = "none" THEN b
     ELSE WithRow(b, k, IF n >= MaxAttempts
            THEN [r EXCEPT !.attempts = n, !.status = "dead"]
            ELSE [status |-> "pending", attempts |-> n, ready |-> FALSE])

(* A row that is out of attempts keeps its time; any other backs off.      *)
MarkFailed(b, k) ==
  LET r == b.row[k]
      n == r.attempts + 1
  IN IF r.status = "none" THEN b
     ELSE WithRow(b, k, IF n >= MaxAttempts
                        THEN [r EXCEPT !.attempts = n, !.status = "dead"]
                        ELSE [r EXCEPT !.attempts = n, !.ready = FALSE])

(* due takes the first rows of the file that are pending and whose time    *)
(* has come.                                                               *)
Ready_OneLess(b, i) ==
  LET r == b.row[b.order[i]]
  IN r.status = "pending" /\ r.ready /\ r.attempts < MaxAttempts - 1

Ready_AnyStatus(b, i) == LET r == b.row[b.order[i]] IN r.status # "none" /\ r.ready

Ready(b, i) == LET r == b.row[b.order[i]] IN r.status = "pending" /\ r.ready

Due(b) ==
  LET due == {i \in DOMAIN b.order : Ready(b, i)}
  IN {b.order[i] : i \in {i \in due : Cardinality({j \in due : j < i}) < Batch}}

---------------------------------------------------------------------------
Goto(d, s) == stage' = [stage EXCEPT ![d] = s]

(* An OSError or AttributeError leaves dispatch_opportunities_once: the    *)
(* caller of the inline dispatch swallows it, the loop has no handler.     *)
Escape(d) ==
  /\ Goto(d, IF d = "loop" THEN "ended" ELSE "idle")
  /\ todo' = [todo EXCEPT ![d] = {}]

(* record_from_telegram_thread: enqueue, then dispatch inline.             *)
Emit(k) ==
  /\ stage["inline"] = "idle"
  /\ \E b \in Loaded :
       \/ /\ b.row[k].status # "none"
          /\ Goto("inline", "due")
          /\ UNCHANGED outbox
       \/ /\ b.row[k].status = "none"
          /\ outbox' = Add(b, k)
          /\ Goto("inline", "due")
       \/ /\ "write" \in Faults
          /\ b.row[k].status = "none"
          /\ UNCHANGED <<outbox, stage>>
  /\ UNCHANGED <<todo, current, accepted, crashes>>

(* The loop wakes on the event loop, which an inline dispatch blocks.      *)
WakeLoop ==
  /\ stage["loop"] = "idle"
  /\ stage["inline"] = "idle"
  /\ Goto("loop", "due")
  /\ UNCHANGED <<outbox, todo, current, accepted, crashes>>

(* Posts of one snapshot go out in some order; nothing depends on which.   *)
TakeDue(d) ==
  /\ stage[d] = "due"
  /\ \E b \in Loaded :
       /\ todo' = [todo EXCEPT ![d] = Due(b)]
       /\ Goto(d, IF Due(b) = {} THEN "idle" ELSE "posting")
  /\ UNCHANGED <<outbox, current, accepted, crashes>>

(* The peer answers 2xx with the object it promised or with another JSON   *)
(* value, or the post fails; a lost or unreadable answer fails it though   *)
(* the peer took the event in.                                             *)
Post(d, k) ==
  /\ stage[d] = "posting"
  /\ k \in todo[d]
  /\ current' = [current EXCEPT ![d] = k]
  /\ \/ Goto(d, "delivered") /\ accepted' = accepted \cup {k}
     \/ "body" \in Faults /\ Goto(d, "odd") /\ accepted' = accepted \cup {k}
     \/ Goto(d, "failed") /\ accepted' = accepted \cup {k}
     \/ Goto(d, "failed") /\ UNCHANGED accepted
  /\ UNCHANGED <<outbox, todo, crashes>>

NextPost(d) ==
  LET rest == todo[d] \ {current[d]} IN
  /\ todo' = [todo EXCEPT ![d] = rest]
  /\ Goto(d, IF rest = {} THEN "idle" ELSE "posting")

Recorded_Unchecked(b, d) == MarkDelivered(b, current[d])
Recorded(b, d) == IF stage[d] = "failed" THEN MarkFailed(b, current[d])
                  ELSE MarkDelivered(b, current[d])

(* mark_delivered, then body.get, or mark_failed.                          *)
Record(d) ==
  /\ stage[d] \in {"delivered", "odd", "failed"}
  /\ \/ \E b \in Loaded :
          /\ outbox' = Recorded(b, d)
          /\ IF stage[d] = "odd" THEN Escape(d) ELSE NextPost(d)
     \/ /\ "write" \in Faults
        /\ Escape(d)
        /\ UNCHANGED outbox
  /\ UNCHANGED <<current, accepted, crashes>>

(* next_attempt_at of an event comes.                                      *)
BackoffEnds(k) ==
  /\ outbox.row[k].status = "pending"
  /\ ~outbox.row[k].ready
  /\ outbox' = WithRow(outbox, k, [outbox.row[k] EXCEPT !.ready = TRUE])
  /\ UNCHANGED <<stage, todo, current, accepted, crashes>>

(* The process dies; the next one starts its dispatcher loop.              *)
Restart ==
  /\ crashes < MaxCrashes
  /\ crashes' = crashes + 1
  /\ stage' = [d \in Dispatcher |-> "idle"]
  /\ todo' = [d \in Dispatcher |-> {}]
  /\ UNCHANGED <<outbox, current, accepted>>

---------------------------------------------------------------------------
Dispatch(d) == \/ TakeDue(d)
               \/ \E k \in Key : Post(d, k)
               \/ Record(d)

Next ==
  \/ \E k \in Key : Emit(k) \/ BackoffEnds(k)
  \/ WakeLoop
  \/ \E d \in Dispatcher : Dispatch(d)
  \/ Restart

Spec == Init /\ [][Next]_vars

(* Time passes, the loop's sleep ends on an event loop that gets free, and *)
(* a dispatcher's post ends within the 15 s of its client.                 *)
Fairness ==
  /\ \A k \in Key : WF_vars(BackoffEnds(k))
  /\ SF_vars(WakeLoop)
  /\ \A d \in Dispatcher : WF_vars(Dispatch(d))

FairSpec == Spec /\ Fairness

---------------------------------------------------------------------------
(* Properties.                                                             *)

StatusOf(k) == outbox.row[k].status

(* An event is recorded delivered only when the peer took it in, whatever  *)
(* is retried, restarted or answered late.                                 *)
DeliveredWasAccepted == \A k \in Key : StatusOf(k) = "delivered" => k \in accepted

(* A pending event has attempts left, and no event is ever charged more    *)
(* than one attempt beyond the limit: the one of a dispatcher that was     *)
(* posting it when the other one recorded the last failure.                *)
AttemptsBounded ==
  \A k \in Key :
    /\ outbox.row[k].attempts <= MaxAttempts + 1
    /\ StatusOf(k) = "pending" => outbox.row[k].attempts < MaxAttempts

(* An event that was delivered or given up is not due again because of a   *)
(* late answer of the other dispatcher: only the enqueue of an event the   *)
(* file lost starts it anew, with no attempt charged.                      *)
SettledStaysSettled ==
  [][\A k \in Key :
       StatusOf(k) \in {"delivered", "dead"} /\ StatusOf(k)' = "pending" =>
         outbox'.row[k].attempts = 0]_vars

(* The outbox does with its events only what EventLedger lets it: none is  *)
(* handed out unless it was pending, and what is settled is settled again  *)
(* by an answer that was still awaited, but never reopened.                *)
Ledger == INSTANCE EventLedger WITH
            status <- [k \in Key |-> StatusOf(k)],
            due <- todo["inline"] \cup todo["loop"],
            taken <- accepted

EventLedgerSpec == Ledger!Spec

(* While the file can be read, every event is delivered or given up in the *)
(* end, however the two dispatchers overlap and whatever the peer answers, *)
(* unless the loop ended: a JSON answer that is no object, or a write that *)
(* fails, ends _dispatcher_loop for good, and what is pending then waits   *)
(* for a restart or for the next event of the inbox.                       *)
EventsSettle ==
  \A k \in Key :
    StatusOf(k) = "pending" ~> (StatusOf(k) # "pending" \/ stage["loop"] = "ended")
=============================================================================
