----------------------------- MODULE AccountPipeline -----------------------------
(***************************************************************************)
(* One account's send pipeline: MessageRouter puts a request on the        *)
(* account's queue, the worker's queue processor and the fair scheduler of *)
(* a running cycle take tasks off it and handle them one at a time behind  *)
(* _execution_gate, and RetryManager puts a failed task back as a RETRY.   *)
(***************************************************************************)
EXTENDS Integers, FiniteSets, SequencesExt

CONSTANTS Job,           \* requests routed by the API or by the AI scheduler
          Kind,          \* what a job asks for
          JobChat,       \* the chat it is addressed to
          MaxAttempts,   \* RETRY_MAX_ATTEMPTS
          QueueSize,     \* MAX_QUEUE_SIZE
          Tries,         \* calls to Telegram one handler may make for its send
          Processor,     \* queue-processor loops that may come to exist
          None,
          MaxStops       \* bound of the model on stop_queue_processor calls

Kinds == {"dm", "media", "location", "auto"}

ASSUME PipelineAssumption ==
  /\ Kind \in [Job -> Kinds]
  /\ MaxAttempts \in Nat
  /\ QueueSize \in Nat \ {0}
  /\ Tries \in Nat \ {0}
  /\ MaxStops \in Nat
  /\ "cycle" \notin Processor
  /\ None \notin Processor \cup (Job \X Nat)

(* Each retry is a new QueueTask: attempt <<j, n>> has retry_count n.      *)
Attempt == Job \X (0 .. MaxAttempts)
AttemptPriority == [a \in Attempt |-> IF a[2] > 0 THEN 0 ELSE 1]
Operator == {j \in Job : Kind[j] # "auto"}

VARIABLES heap, sequence, pending, caller, taken, outcome,
          tracked,    \* _queue_task: the loop the worker knows of
          active,     \* _queue_active
          stopping,   \* the loop a stop_queue_processor call waits for
          stops,      \* how many consumers were cancelled or stopped
          stage,      \* where each consumer is in its loop
          hand,       \* the task it handles
          serviced,   \* tasks the fair scheduler served in this yield
          gate,       \* holder and waiters of _execution_gate, in order
          sleeping,   \* tasks whose retry waits out its delay
          file,       \* media jobs whose upload is still on disk
          sent,       \* history: messages Telegram accepted, per job
          unheard,    \* history: those the handler did not hear of
          failures    \* history: attempts Telegram or a store made fail

Q == INSTANCE AccountQueue WITH
       Task <- Attempt, MaxSize <- QueueSize, policy <- "delay",
       Priority <- AttemptPriority,
       WaitResult <- Operator \X (0 .. MaxAttempts),
       Awaited <- Operator \X {0},
       AutoReply <- {a \in Attempt : Kind[a[1]] = "auto" /\ a[2] = 0},
       Manual <- {j \in Job : Kind[j] \in {"dm", "media"}} \X {0},
       Chat <- [a \in Attempt |-> JobChat[a[1]]],
       MaxSequence <- 0

queueVars == <<heap, sequence, pending, caller, taken, outcome>>
loopVars == <<tracked, active, stopping, stops>>
workVars == <<stage, hand, serviced, gate, sleeping>>
worldVars == <<file, sent, unheard, failures>>
vars == <<queueVars, loopVars, workVars, worldVars>>

Cycle == "cycle"   \* the campaign's cycle, a second consumer of the queue
Consumer == Processor \cup {Cycle}

(* off: no such loop; idle: about to take a task; gate: in a handler, at   *)
(* or behind the gate; finish: the handler returned; retry: it raised and  *)
(* the failure is being published; exit: cancelled, in its finally block;  *)
(* rest and post: the cycle, between groups and posting to one.            *)
Stage == {"off", "idle", "gate", "finish", "retry", "exit", "rest", "post"}

TypeOK ==
  /\ Q!TypeOK
  /\ tracked \in Processor \cup {None}
  /\ active \in BOOLEAN
  /\ stopping \in Processor \cup {None}
  /\ stops \in 0 .. MaxStops
  /\ stage \in [Consumer -> Stage]
  /\ hand \in [Consumer -> Attempt \cup {None}]
  /\ serviced \in 0 .. 1
  /\ gate \in Seq(Consumer)
  /\ sleeping \subseteq Attempt
  /\ file \subseteq Job
  /\ sent \in [Job -> Nat]
  /\ unheard \in [Job -> Nat]
  /\ failures \subseteq Attempt

Init ==
  /\ Q!Init
  /\ tracked = None
  /\ active = TRUE
  /\ stopping = None
  /\ stops = 0
  /\ stage = [c \in Consumer |-> IF c = Cycle THEN "rest" ELSE "off"]
  /\ hand = [c \in Consumer |-> None]
  /\ serviced = 0
  /\ gate = <<>>
  /\ sleeping = {}
  /\ file = {j \in Job : Kind[j] = "media"}
  /\ sent = [j \in Job |-> 0]
  /\ unheard = [j \in Job |-> 0]
  /\ failures = {}

---------------------------------------------------------------------------
LoopAlive_Busy == tracked # None /\ hand[tracked] # None
LoopAlive == tracked # None /\ stage[tracked] # "off"

(* AccountWorker.ensure_queue_processor.                                   *)
EnsureProcessor ==
  IF LoopAlive
  THEN UNCHANGED <<tracked, active, stage>>
  ELSE \E p \in Processor :
         /\ stage[p] = "off"
         /\ p # stopping
         /\ tracked' = p
         /\ active' = TRUE
         /\ stage' = [stage EXCEPT ![p] = "idle"]

(* The API call that uploaded a file removes it when it ends in an error.  *)
CallerRemovesUpload ==
  file' = {j \in file :
             caller'[<<j, 0>>] \notin {"refused", "failed", "timed_out"}}

(* MessageRouter.route, from an enqueue_* call.                            *)
Route(j) ==
  /\ caller[<<j, 0>>] = "new"
  /\ EnsureProcessor
  /\ Q!Put(<<j, 0>>)
  /\ CallerRemovesUpload
  /\ UNCHANGED <<stopping, stops, hand, serviced, gate, sleeping,
                 sent, unheard, failures>>

(* A put that found the queue full polls it until its deadline.            *)
Poll(a) ==
  /\ caller[a] = "polling"
  /\ Q!Put(a)
  /\ CallerRemovesUpload
  /\ UNCHANGED <<loopVars, workVars, sent, unheard, failures>>

WaitTimesOut(a) ==
  /\ Q!WaitTimesOut(a)
  /\ CallerRemovesUpload
  /\ UNCHANGED <<loopVars, workVars, sent, unheard, failures>>

---------------------------------------------------------------------------
(* Consumers: _queue_processor_loop and yield_for_priority_work.  A        *)
(* consumer that was cancelled runs no more of its body.                   *)
Runs(c) == c # stopping

(* The RETRY branch unwraps original_payload once; schedule_retry wraps    *)
(* the payload of a RETRY again, so from the second retry on the handler   *)
(* finds the inner wrapper where the request's fields should be.           *)
PayloadIntact(a) == a[2] <= 1

(* _handle_queue_task has no branch for DM_SEND_LOCATION.                  *)
Handled(j) == Kind[j] # "location"

TakeTask(c) ==
  /\ stage[c] = "idle"
  /\ Runs(c)
  /\ \E a \in Attempt :
       /\ Q!Take(a)
       /\ hand' = [hand EXCEPT ![c] = a]
       /\ gate' = IF Handled(a[1]) THEN Append(gate, c) ELSE gate
  /\ stage' = [stage EXCEPT ![c] = "gate"]
  /\ UNCHANGED <<loopVars, serviced, sleeping, worldVars>>

Leave_KeepsGate(c) == gate
Leave(c) == RemoveFirst(gate, c)
HoldsGate(c) == gate # <<>> /\ Head(gate) = c

(* The handler of a media task removes the upload however it ends.         *)
HandlerRemovesUpload(a) ==
  file' = IF PayloadIntact(a) THEN file \ {a[1]} ELSE file

CanSend(a) ==
  /\ Handled(a[1])
  /\ PayloadIntact(a)
  /\ Kind[a[1]] = "media" => a[1] \in file

(* run_dm_operation calls Telegram again after an error of the session (4  *)
(* calls in all), and generate_and_send after 'database is locked' (6      *)
(* rounds of those), without asking whether the message of the call before *)
(* went out: n of them did, and only the last call can have heard of it.   *)
(* generate_and_send asks once, before its first call, whether the chat    *)
(* still waits for an answer.                                              *)
Sends(a, heard) ==
  /\ Kind[a[1]] = "auto" =>
       \A k \in Job : JobChat[k] = JobChat[a[1]] => sent[k] = 0
  /\ \E n \in 1 .. Tries :
       /\ sent' = [sent EXCEPT ![a[1]] = @ + n]
       /\ unheard' = [unheard EXCEPT ![a[1]] = @ + IF heard THEN n - 1 ELSE n]
NoSend == UNCHANGED <<sent, unheard>>

HandlerReturns(c) ==
  LET a == hand[c] IN
  /\ stage[c] = "gate"
  /\ Runs(c)
  /\ HoldsGate(c)
  /\ CanSend(a)
  /\ \/ Sends(a, TRUE)
     \/ Kind[a[1]] = "auto" /\ NoSend   \* it decided not to answer
  /\ HandlerRemovesUpload(a)
  /\ gate' = Leave(c)
  /\ stage' = [stage EXCEPT ![c] = "finish"]
  /\ UNCHANGED <<queueVars, loopVars, hand, serviced, sleeping, failures>>

(* Where a consumer goes after a task: the processor loops while it is     *)
(* active; the yield goes on while its budget lasts, at most to two tasks. *)
YieldLimit == 2

NextTask(c) ==
  /\ hand' = [hand EXCEPT ![c] = None]
  /\ \/ /\ c # Cycle
        /\ stage' = [stage EXCEPT ![c] = IF active THEN "idle" ELSE "off"]
        /\ UNCHANGED serviced
     \/ /\ c = Cycle
        /\ serviced + 1 < YieldLimit
        /\ stage' = [stage EXCEPT ![c] = "idle"]
        /\ serviced' = serviced + 1
     \/ /\ c = Cycle
        /\ stage' = [stage EXCEPT ![c] = "rest"]
        /\ serviced' = 0

FinishTask_Retries(c) ==
  /\ stage[c] = "finish"
  /\ Runs(c)
  /\ Q!Complete(hand[c], TRUE)
  /\ sleeping' = sleeping \cup {hand[c]}
  /\ NextTask(c)
  /\ UNCHANGED <<loopVars, gate, worldVars>>

FinishTask_Forgets(c) ==
  /\ stage[c] = "finish"
  /\ Runs(c)
  /\ NextTask(c)
  /\ UNCHANGED <<queueVars, loopVars, gate, sleeping, worldVars>>

FinishTask(c) ==
  /\ stage[c] = "finish"
  /\ Runs(c)
  /\ Q!Complete(hand[c], TRUE)
  /\ NextTask(c)
  /\ UNCHANGED <<loopVars, gate, sleeping, worldVars>>

(* RetryManager.schedule_retry: a fatal error or the last attempt ends the *)
(* job; otherwise the task sleeps out its delay.  Only what Telegram or a  *)
(* store raised can be fatal.                                              *)
ScheduleRetry(a, fatal) ==
  \/ a[2] < MaxAttempts /\ sleeping' = sleeping \cup {a}
  \/ (a[2] >= MaxAttempts \/ fatal) /\ UNCHANGED sleeping

(* The handler raises: Telegram or a store failed, before a message went   *)
(* out or when one was already delivered (an answer lost in the last call, *)
(* or run_dm_send's sync after it); or the task cannot be handled.         *)
Fails(a) ==
  \/ /\ CanSend(a)
     /\ failures' = failures \cup {a}
     /\ Sends(a, FALSE) \/ NoSend
  \/ /\ ~CanSend(a)
     /\ UNCHANGED <<sent, unheard, failures>>

(* The waiter hears of it at once; the processor publishes the failure     *)
(* before it schedules the retry, the cycle does not.                      *)
TellFailure_AsResult(a) == Q!Complete(a, TRUE)
TellFailure(a) == Q!Complete(a, FALSE)

HandlerRaises(c) ==
  LET a == hand[c] IN
  /\ stage[c] = "gate"
  /\ Runs(c)
  /\ Handled(a[1]) => HoldsGate(c)
  /\ Fails(a)
  /\ HandlerRemovesUpload(a)
  /\ gate' = Leave(c)
  /\ TellFailure(a)
  /\ \/ /\ c # Cycle
        /\ stage' = [stage EXCEPT ![c] = "retry"]
        /\ UNCHANGED <<hand, serviced, sleeping>>
     \/ c = Cycle /\ ScheduleRetry(a, CanSend(a)) /\ NextTask(c)
  /\ UNCHANGED loopVars

FailurePublished(c) ==
  /\ stage[c] = "retry"
  /\ Runs(c)
  /\ ScheduleRetry(hand[c], hand[c] \in failures)
  /\ NextTask(c)
  /\ UNCHANGED <<queueVars, loopVars, gate, worldVars>>

(* _enqueue: the delay is over and the retry is routed as a new task.      *)
WakeRetry_StaysTracked(a) ==
  /\ a \in sleeping
  /\ EnsureProcessor
  /\ Q!Put(<<a[1], a[2] + 1>>)
  /\ UNCHANGED <<stopping, stops, hand, serviced, gate, sleeping, worldVars>>

WakeRetry(a) ==
  /\ a \in sleeping
  /\ sleeping' = sleeping \ {a}
  /\ EnsureProcessor
  /\ Q!Put(<<a[1], a[2] + 1>>)
  /\ UNCHANGED <<stopping, stops, hand, serviced, gate, worldVars>>

---------------------------------------------------------------------------
(* The cycle posts to groups inline, through the same gate, and between    *)
(* two groups may yield to queued DMs.                                     *)
StartPost ==
  /\ stage[Cycle] = "rest"
  /\ stage' = [stage EXCEPT ![Cycle] = "post"]
  /\ gate' = Append(gate, Cycle)
  /\ UNCHANGED <<queueVars, loopVars, hand, serviced, sleeping, worldVars>>

(* should_yield_to_dms looks at the heap at that moment.                   *)
EndPost ==
  /\ stage[Cycle] = "post"
  /\ HoldsGate(Cycle)
  /\ gate' = Leave(Cycle)
  /\ \/ stage' = [stage EXCEPT ![Cycle] = "rest"]
     \/ heap # {} /\ stage' = [stage EXCEPT ![Cycle] = "idle"]
  /\ UNCHANGED <<queueVars, loopVars, hand, serviced, sleeping, worldVars>>

(* Nothing to take: the yield ends, and get() times out to a loop that     *)
(* looks at _queue_active again.                                           *)
FindsNothing(c) ==
  /\ stage[c] = "idle"
  /\ Runs(c)
  /\ heap = {}
  /\ c = Cycle \/ ~active
  /\ stage' = [stage EXCEPT ![c] = IF c = Cycle THEN "rest" ELSE "off"]
  /\ serviced' = IF c = Cycle THEN 0 ELSE serviced
  /\ UNCHANGED <<queueVars, loopVars, hand, gate, sleeping, worldVars>>

---------------------------------------------------------------------------
(* stop_queue_processor: cancel the tracked loop, wait for it, forget it.  *)
(* Its callers: the health monitor, which ensures a loop again 0.2 s       *)
(* later, and a logout, which drains the queue.                            *)
AfterStop == UNCHANGED queueVars \/ Q!Drain

StopProcessor ==
  /\ stops < MaxStops
  /\ stopping = None
  /\ stops' = stops + 1
  /\ active' = FALSE
  /\ \/ /\ LoopAlive
        /\ stopping' = tracked
        /\ UNCHANGED <<tracked, queueVars>>
     \/ /\ ~LoopAlive
        /\ tracked' = None
        /\ AfterStop
        /\ UNCHANGED stopping
  /\ UNCHANGED <<workVars, worldVars>>

(* CancelledError in a handler is not an Exception: nothing completes the  *)
(* task or retries it.  What the handler asked of Telegram may still have  *)
(* been done.                                                              *)
AbandonTask(c) ==
  /\ hand' = [hand EXCEPT ![c] = None]
  /\ gate' = Leave(c)
  /\ \/ NoSend
     \/ /\ stage[c] = "gate"
        /\ HoldsGate(c)
        /\ CanSend(hand[c])
        /\ Sends(hand[c], FALSE)
  /\ IF stage[c] = "gate" THEN HandlerRemovesUpload(hand[c]) ELSE UNCHANGED file
  /\ UNCHANGED <<queueVars, sleeping, failures>>

CancelProcessor ==
  /\ stopping # None
  /\ \/ /\ stage[stopping] \in {"gate", "finish", "retry"}
        /\ stage' = [stage EXCEPT ![stopping] = "exit"]
        /\ AbandonTask(stopping)
     \/ /\ stage[stopping] \in {"idle", "exit"}
        /\ stage' = [stage EXCEPT ![stopping] = "off"]
        /\ UNCHANGED <<queueVars, hand, gate, sleeping, worldVars>>
  /\ UNCHANGED <<loopVars, serviced>>

(* Stopping the campaign cancels the cycle; a later start runs it again.   *)
CancelCycle ==
  /\ stops < MaxStops
  /\ stops' = stops + 1
  /\ stage[Cycle] \in {"gate", "finish"}
  /\ stage' = [stage EXCEPT ![Cycle] = "rest"]
  /\ serviced' = 0
  /\ AbandonTask(Cycle)
  /\ UNCHANGED <<tracked, active, stopping>>

(* The stop resumes one turn of the event loop after its target ended.     *)
StopReturns ==
  /\ stopping # None
  /\ stage[stopping] = "off"
  /\ tracked' = None
  /\ stopping' = None
  /\ AfterStop
  /\ UNCHANGED <<active, stops, workVars, worldVars>>

(* The health monitor, a worker start or a login ensures the processor.    *)
Ensure ==
  /\ EnsureProcessor
  /\ UNCHANGED <<queueVars, stopping, stops, hand, serviced, gate, sleeping,
                 worldVars>>

---------------------------------------------------------------------------
Handle(c) == \/ TakeTask(c)
             \/ HandlerReturns(c)
             \/ HandlerRaises(c)
             \/ FinishTask(c)
             \/ FailurePublished(c)
             \/ FindsNothing(c)

Next ==
  \/ \E j \in Job : Route(j)
  \/ \E a \in Attempt : Poll(a) \/ WaitTimesOut(a) \/ WakeRetry(a)
  \/ \E c \in Consumer : Handle(c)
  \/ StartPost
  \/ EndPost
  \/ StopProcessor
  \/ CancelProcessor
  \/ CancelCycle
  \/ StopReturns
  \/ Ensure

Spec == Init /\ [][Next]_vars

(* The event loop runs what is ready: a poll comes round, a delay passes,  *)
(* a consumer goes on with its task once the gate, which asyncio.Lock      *)
(* hands out in order, is its own, and a post to a group ends.             *)
Fairness ==
  /\ \A a \in Attempt : WF_vars(Poll(a)) /\ WF_vars(WakeRetry(a))
  /\ \A c \in Consumer : WF_vars(Handle(c))
  /\ WF_vars(EndPost)

FairSpec == Spec /\ Fairness

---------------------------------------------------------------------------
(* Properties.                                                             *)

InHand(a) == \E c \in Consumer : hand[c] = a
Live(a) == \/ caller[a] = "polling"
           \/ Q!Queued(a)
           \/ InHand(a)
           \/ a \in sleeping

(* A job never has two copies under way: whatever is retried, polled for,  *)
(* cancelled or drained, two consumers never work on the same request.     *)
OneLiveAttempt ==
  \A j \in Job : \A m, n \in 0 .. MaxAttempts :
    Live(<<j, m>>) /\ Live(<<j, n>>) => m = n

(* The operator is told "ok" only for a message Telegram accepted.  The    *)
(* code's resends, inside a handler and by RetryManager, repeat a message  *)
(* only for a copy whose call was not heard of: once the handler has heard *)
(* of one, no retry, poll, cancel or second consumer sends it again.       *)
AnsweredMeansSent ==
  \A j \in Operator : caller[<<j, 0>>] = "answered" => sent[j] >= 1
RepeatsNeedLostAnswers == \A j \in Job : sent[j] <= 1 + unheard[j]

(* Cancelling a consumer loses at most the one task it handles: any other  *)
(* task that was taken is in the hands of a consumer.                      *)
Lost == {a \in taken : ~InHand(a)}
OneTaskLostPerStop == Cardinality(Lost) <= stops

(* "Single consumer for this account's queue": one processor loop, and one *)
(* more for a stop at most, which forgets a loop that was started while it *)
(* waited.                                                                 *)
Looping == {p \in Processor : stage[p] # "off"}
SingleProcessor == Cardinality(Looping) <= 1 + stops

(* The operator's call hears of its message without the 300 s timeout, and *)
(* a job under way, retries included, comes to an end however the cycle's  *)
(* posts, the retries and the full queue compete.                          *)
RequestSettles ==
  \A j \in Job : caller[<<j, 0>>] = "waiting" ~> caller[<<j, 0>>] # "waiting"
JobsSettle == \A a \in Attempt : Live(a) ~> ~Live(a)
=============================================================================
