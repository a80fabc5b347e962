--------------------------- MODULE DeliveryWorker ---------------------------
(***************************************************************************)
(* The io worker pool: the tasks of tasks/sending.py (dispatch_fanout,     *)
(* deliver, sms_poll) run by worker threads over the shared rows, the io   *)
(* queue they take their messages from and the channel provider they call. *)
(*                                                                         *)
(* A message is acknowledged when a thread starts it (Celery's default     *)
(* early ack), so starting a task and its first SELECT are one step here:  *)
(* nothing another process can see lies between them.  From there on every *)
(* repository call and every HTTP exchange is a step of its own.           *)
(***************************************************************************)
EXTENDS DeliveryStore

CONSTANTS Worker,            \* threads of the io pool
          NoDelivery,        \* "no delivery", for an idle thread
          MaxPolls,          \* sms_poll_window_s / sms_poll_interval_s
          MaxRedeliveries,   \* bound: messages the broker delivers again
          MaxFaults          \* bound: tasks, sends and handlers cut short

ASSUME WorkerAssumption == /\ NoDelivery \notin Delivery
                           /\ MaxPolls \in Nat
                           /\ MaxRedeliveries \in Nat
                           /\ MaxFaults \in Nat

VARIABLES fanoutQ,      \* copies of dispatch_fanout(k) in the io queue
          deliverQ,     \* copies of deliver(d)
          pollQ,        \* copies of the n-th sms_poll(d), elapsed = n * interval
          redelivered,  \* messages delivered again so far
          fate,         \* what the provider decided for each send it accepted
          callbacks,    \* copies of the provider's callback on their way to the webhook
          calls,        \* calls made to the provider for a delivery (history)
          job,          \* what each thread is doing
          faults        \* tasks, sends and handlers cut short so far

queueVars    == <<fanoutQ, deliverQ, pollQ>>
providerVars == <<fate, callbacks, calls>>
workerVars   == <<queueVars, redelivered, providerVars, job, faults>>

\* How far a task has come, and what it means to record.
Pc == {"idle", "fanout", "claim", "call", "record", "write", "enqueue", "poll", "confirm"}
Outcome == [to : Status, ref : Ref \cup {NoRef}, why : Reason]

NoOutcome == [to |-> "none", ref |-> NoRef, why |-> "none"]
Idle == [pc |-> "idle", on |-> NoDelivery, todo |-> {}, count |-> 0,
         out |-> NoOutcome, seen |-> "none"]

Job == [pc    : Pc,
        on    : Delivery \cup {NoDelivery},   \* the delivery the task is about
        todo  : SUBSET Delivery,              \* ids a fan-out has yet to publish
        count : Nat,                          \* attempts made, or the number of the poll
        out   : Outcome,
        seen  : Status]                       \* from_status read before the write

WorkerInit == /\ fanoutQ     = [k \in Dispatch |-> 0]
              /\ deliverQ    = [d \in Delivery |-> 0]
              /\ pollQ       = [m \in Delivery \X (0 .. MaxPolls) |-> 0]
              /\ redelivered = 0
              /\ fate        = [r \in Ref |-> "none"]
              /\ callbacks   = [r \in Ref |-> 0]
              /\ calls       = [d \in Delivery |-> 0]
              /\ job         = [w \in Worker |-> Idle]
              /\ faults      = 0

WorkerTypeOK == /\ fanoutQ     \in [Dispatch -> Nat]
                /\ deliverQ    \in [Delivery -> Nat]
                /\ pollQ       \in [Delivery \X (0 .. MaxPolls) -> Nat]
                /\ redelivered \in Nat
                /\ fate        \in [Ref -> {"none", "delivered", "failed"}]
                /\ callbacks   \in [Ref -> Nat]
                /\ calls       \in [Delivery -> Nat]
                /\ job         \in [Worker -> Job]
                /\ faults      \in Nat

\* Thread w goes on with locals j; with none left, its task has ended.
Continue(w, j) == job' = [job EXCEPT ![w] = j]
Finish(w)      == Continue(w, Idle)

-----------------------------------------------------------------------------
(* dispatch_fanout *)

\* Take dispatch_fanout(k) and read the ids still queued; nothing to do ends it.
BeginFanout(w, k) ==
    /\ job[w].pc = "idle"
    /\ fanoutQ[k] > 0
    /\ fanoutQ' = [fanoutQ EXCEPT ![k] = @ - 1]
    /\ IF k \in dispatched /\ QueuedIds(k) # {}
       THEN Continue(w, [Idle EXCEPT !.pc = "fanout", !.todo = QueuedIds(k)])
       ELSE Finish(w)
    /\ UNCHANGED <<dbVars, deliverQ, pollQ, redelivered, providerVars, faults>>

\* Publish deliver for one of the ids.
FanoutPublish(w) ==
    \E d \in job[w].todo :
        /\ job[w].pc = "fanout"
        /\ deliverQ' = [deliverQ EXCEPT ![d] = @ + 1]
        /\ IF job[w].todo = {d}
           THEN Finish(w)
           ELSE Continue(w, [job[w] EXCEPT !.todo = job[w].todo \ {d}])
        /\ UNCHANGED <<dbVars, fanoutQ, pollQ, redelivered, providerVars, faults>>

-----------------------------------------------------------------------------
(* deliver: DeliveryService.deliver_one and the hand-over to sms_poll *)

\* Why a delivery is refused before anything is sent; "none" when it is not.
Verdict(d) == IF d \in NoDestination THEN "missing_destination"
              ELSE IF d \in BadDestination THEN "invalid_format"
              ELSE "none"

Failed(why) == [to |-> "failed", ref |-> NoRef, why |-> why]

\* Variant: the adapter's validation is not asked.
BeginDeliverUnvalidated(w, d) ==
    /\ job[w].pc = "idle"
    /\ deliverQ[d] > 0
    /\ deliverQ' = [deliverQ EXCEPT ![d] = @ - 1]
    /\ IF status[d] # "queued" THEN Finish(w)
       ELSE Continue(w, [Idle EXCEPT !.pc = "claim", !.on = d])
    /\ UNCHANGED <<dbVars, fanoutQ, pollQ, redelivered, providerVars, faults>>

\* Take deliver(d) and read the row: no-op unless queued, then validation.
BeginDeliver(w, d) ==
    /\ job[w].pc = "idle"
    /\ deliverQ[d] > 0
    /\ deliverQ' = [deliverQ EXCEPT ![d] = @ - 1]
    /\ IF status[d] # "queued" THEN Finish(w)
       ELSE IF Verdict(d) = "none"
            THEN Continue(w, [Idle EXCEPT !.pc = "claim", !.on = d])
            ELSE Continue(w, [Idle EXCEPT !.pc = "record", !.on = d, !.out = Failed(Verdict(d))])
    /\ UNCHANGED <<dbVars, fanoutQ, pollQ, redelivered, providerVars, faults>>

\* Variant: a lost claim is taken for a claim already held.
ClaimIgnored(w) ==
    /\ job[w].pc = "claim"
    /\ IF job[w].on \in keys THEN UNCHANGED dbVars ELSE ClaimKey(job[w].on)
    /\ Continue(w, [job[w] EXCEPT !.pc = "call"])
    /\ UNCHANGED <<queueVars, redelivered, providerVars, faults>>

\* Claim the idempotency key; a lost claim ends the task.
Claim(w) ==
    LET d == job[w].on IN
    /\ job[w].pc = "claim"
    /\ \/ /\ ClaimKey(d)
          /\ Continue(w, [job[w] EXCEPT !.pc = "call"])
       \/ /\ d \in keys
          /\ Finish(w)
          /\ UNCHANGED dbVars
    /\ UNCHANGED <<queueVars, redelivered, providerVars, faults>>

\* After one more call to the provider: out # NoOutcome ends the attempts.
AfterCall(w, out) ==
    /\ calls' = [calls EXCEPT ![job[w].on] = @ + 1]
    /\ Continue(w, [job[w] EXCEPT !.count = job[w].count + 1,
                                  !.out = out,
                                  !.pc = IF out = NoOutcome THEN "call" ELSE "record"])
    /\ UNCHANGED <<dbVars, queueVars, redelivered, faults>>

\* Variant: one attempt too many.
RetriedOnceMore(w) == IF job[w].count + 1 <= MaxAttempts THEN NoOutcome ELSE Failed("channel_error")

\* A transient error is retried until the attempts are used up.
Retried(w) == IF job[w].count + 1 < MaxAttempts THEN NoOutcome ELSE Failed("channel_error")

\* The provider accepts the send: a new reference, its outcome decided, and for
\* e-mail and push a callback on its way before the answer has been read.
ProviderAccepts(r) ==
    /\ \E outcome \in {"delivered", "failed"} : fate' = [fate EXCEPT ![r] = outcome]
    /\ callbacks' = IF r[1] \in Polled THEN callbacks ELSE [callbacks EXCEPT ![r] = @ + 1]

\* Variant: the reference of the first attempt is kept, whichever was accepted.
CallAcceptedFirstRef(w) ==
    /\ job[w].pc = "call"
    /\ ProviderAccepts(<<job[w].on, job[w].count + 1>>)
    /\ AfterCall(w, [to |-> "sent", ref |-> <<job[w].on, 1>>, why |-> "none"])

CallAccepted(w) ==
    LET r == <<job[w].on, job[w].count + 1>> IN
    /\ job[w].pc = "call"
    /\ ProviderAccepts(r)
    /\ AfterCall(w, [to |-> "sent", ref |-> r, why |-> "none"])

\* Accepted, but the client gave up waiting for the answer: a transient error.
CallTimedOut(w) ==
    /\ job[w].pc = "call"
    /\ ProviderAccepts(<<job[w].on, job[w].count + 1>>)
    /\ AfterCall(w, Retried(w))

\* 429, 5xx, or no connection: transient and not accepted.
CallTransient(w) ==
    /\ job[w].pc = "call"
    /\ AfterCall(w, Retried(w))
    /\ UNCHANGED <<fate, callbacks>>

\* Variant: a permanent error is not caught, so no failure is recorded.
CallRejectedUncaught(w) ==
    /\ job[w].pc = "call"
    /\ calls' = [calls EXCEPT ![job[w].on] = @ + 1]
    /\ Finish(w)
    /\ UNCHANGED <<dbVars, queueVars, redelivered, fate, callbacks, faults>>

\* Any other 4xx: permanent, never retried.
CallRejected(w) ==
    /\ job[w].pc = "call"
    /\ AfterCall(w, Failed("channel_error"))
    /\ UNCHANGED <<fate, callbacks>>

\* The breaker is, or has just been, opened: CircuitBreakerError, no call.
\* Module Resilience says when; here it may be at any attempt.
CallRefused(w) ==
    /\ job[w].pc = "call"
    /\ Continue(w, [job[w] EXCEPT !.pc = "record", !.out = Failed("channel_error")])
    /\ UNCHANGED <<dbVars, queueVars, redelivered, providerVars, faults>>

\* record_sent and record_failed read the row again for from_status ...
RecordRead(w) ==
    /\ job[w].pc = "record"
    /\ Continue(w, [job[w] EXCEPT !.pc = "write", !.seen = status[job[w].on]])
    /\ UNCHANGED <<dbVars, queueVars, redelivered, providerVars, faults>>

\* ... and write without looking at it.
RecordWrite(w) ==
    LET d == job[w].on
        out == job[w].out
    IN /\ job[w].pc = "write"
       /\ IF out.to = "sent" THEN WriteSent(d, job[w].seen, out.ref)
                             ELSE WriteFailed(d, job[w].seen, out.why)
       /\ IF out.to = "sent" /\ d \in Polled
          THEN Continue(w, [Idle EXCEPT !.pc = "enqueue", !.on = d])
          ELSE Finish(w)
       /\ UNCHANGED <<queueVars, redelivered, providerVars, faults>>

\* An SMS that was sent starts its chain of polls at elapsed = 0.
EnqueuePoll(w) ==
    /\ job[w].pc = "enqueue"
    /\ pollQ' = [pollQ EXCEPT ![<<job[w].on, 0>>] = @ + 1]
    /\ Finish(w)
    /\ UNCHANGED <<dbVars, fanoutQ, deliverQ, redelivered, providerVars, faults>>

-----------------------------------------------------------------------------
(* sms_poll: SmsPollService.poll_once and the re-enqueue within the window *)

\* Take the n-th sms_poll(d); nothing to poll unless sent with a reference.
BeginPoll(w, d, n) ==
    /\ job[w].pc = "idle"
    /\ pollQ[<<d, n>>] > 0
    /\ pollQ' = [pollQ EXCEPT ![<<d, n>>] = @ - 1]
    /\ IF status[d] = "sent" /\ ref[d] # NoRef
       THEN Continue(w, [Idle EXCEPT !.pc = "poll", !.on = d, !.count = n])
       ELSE Finish(w)
    /\ UNCHANGED <<dbVars, fanoutQ, deliverQ, redelivered, providerVars, faults>>

Answer(outcome) == [to |-> outcome, ref |-> NoRef,
                    why |-> IF outcome = "failed" THEN "carrier_rejected" ELSE "none"]

\* The provider reports an outcome; confirm reads the row again and stops
\* unless it is still sent.
PollAnswered(w) ==
    LET d == job[w].on
        outcome == fate[ref[d]]
    IN /\ job[w].pc = "poll"
       /\ IF status[d] # "sent" THEN Finish(w)
          ELSE Continue(w, [Idle EXCEPT !.pc = "confirm", !.on = d, !.out = Answer(outcome)])
       /\ UNCHANGED <<dbVars, queueVars, redelivered, providerVars, faults>>

\* Variant: the end of the window fails the delivery.
PollPendingFails(w) ==
    LET next == <<job[w].on, job[w].count + 1>> IN
    /\ job[w].pc = "poll"
    /\ IF next[2] <= MaxPolls
       THEN /\ pollQ' = [pollQ EXCEPT ![next] = @ + 1]
            /\ Finish(w)
       ELSE /\ Continue(w, [job[w] EXCEPT !.pc = "confirm", !.out = Failed("channel_error")])
            /\ UNCHANGED pollQ
    /\ UNCHANGED <<dbVars, fanoutQ, deliverQ, redelivered, providerVars, faults>>

\* Still pending: poll again one interval later while that is inside the window.
PollPending(w) ==
    LET next == <<job[w].on, job[w].count + 1>> IN
    /\ job[w].pc = "poll"
    /\ IF next[2] <= MaxPolls
       THEN pollQ' = [pollQ EXCEPT ![next] = @ + 1]
       ELSE UNCHANGED pollQ
    /\ Finish(w)
    /\ UNCHANGED <<dbVars, fanoutQ, deliverQ, redelivered, providerVars, faults>>

\* poll_status raises (429, 5xx, timeout, 404): nothing catches it, the task fails.
PollError(w) ==
    /\ job[w].pc = "poll"
    /\ Finish(w)
    /\ UNCHANGED <<dbVars, queueVars, redelivered, providerVars, faults>>

ConfirmWrite(w) ==
    LET out == job[w].out IN
    /\ job[w].pc = "confirm"
    /\ WriteConfirmed(job[w].on, out.to, out.why)
    /\ Finish(w)
    /\ UNCHANGED <<queueVars, redelivered, providerVars, faults>>

-----------------------------------------------------------------------------
(* What the platform does to them *)

\* The thread dies, or the task raises what nothing catches: the message was
\* acknowledged when it started and is gone.
Crash(w) ==
    /\ job[w].pc # "idle"
    /\ faults < MaxFaults
    /\ faults' = faults + 1
    /\ Finish(w)
    /\ UNCHANGED <<dbVars, queueVars, redelivered, providerVars>>

\* A message reaches the pool once more: a publish retried after its
\* acknowledgement was lost, or a connection lost before the ack.
Redeliver ==
    /\ redelivered < MaxRedeliveries
    /\ redelivered' = redelivered + 1
    /\ \/ /\ \E k \in Dispatch : fanoutQ[k] > 0 /\ fanoutQ' = [fanoutQ EXCEPT ![k] = @ + 1]
          /\ UNCHANGED <<deliverQ, pollQ>>
       \/ /\ \E d \in Delivery : deliverQ[d] > 0 /\ deliverQ' = [deliverQ EXCEPT ![d] = @ + 1]
          /\ UNCHANGED <<fanoutQ, pollQ>>
       \/ /\ \E m \in Delivery \X (0 .. MaxPolls) :
                pollQ[m] > 0 /\ pollQ' = [pollQ EXCEPT ![m] = @ + 1]
          /\ UNCHANGED <<fanoutQ, deliverQ>>
    /\ UNCHANGED <<dbVars, providerVars, job, faults>>

-----------------------------------------------------------------------------
Begin(w) == \/ \E k \in Dispatch : BeginFanout(w, k)
            \/ \E d \in Delivery : BeginDeliver(w, d)
            \/ \E d \in Delivery, n \in 0 .. MaxPolls : BeginPoll(w, d, n)

\* One step of the task a thread is running.
TaskStep(w) == \/ FanoutPublish(w)
               \/ Claim(w)
               \/ CallAccepted(w) \/ CallTimedOut(w) \/ CallTransient(w)
               \/ CallRejected(w) \/ CallRefused(w)
               \/ RecordRead(w) \/ RecordWrite(w) \/ EnqueuePoll(w)
               \/ PollAnswered(w) \/ PollPending(w) \/ PollError(w) \/ ConfirmWrite(w)

WorkerNext == \/ \E w \in Worker : Begin(w) \/ TaskStep(w) \/ Crash(w)
              \/ Redeliver
=============================================================================
