------------------------------ MODULE Pipeline ------------------------------
(***************************************************************************)
(* The whole notification pipeline: the API process that accepts a send    *)
(* (SendingService), the io workers that deliver it (DeliveryWorker) and   *)
(* the webhook that confirms e-mail and push (WebhookConfirmationService). *)
(* The parts share the rows, the io queue and the provider, nothing else.  *)
(***************************************************************************)
EXTENDS DeliveryWorker

CONSTANTS Handler,         \* webhook requests the API processes at one time
          MaxRepeats       \* bound: callbacks the provider posts again

ASSUME PipelineAssumption == MaxRepeats \in Nat

VARIABLES api,       \* progress of the send request of each dispatch
          hook,      \* what each webhook request is doing
          repeated   \* callbacks posted again so far

apiVars == <<api, hook, repeated>>
vars == <<dbVars, workerVars, apiVars>>

NoHook == [on |-> NoDelivery, to |-> "none"]

Init == /\ StoreInit
        /\ WorkerInit
        /\ api      = [k \in Dispatch |-> "idle"]
        /\ hook     = [h \in Handler |-> NoHook]
        /\ repeated = 0

\* Types of every variable of the pipeline.
TypeOK == /\ StoreTypeOK
          /\ WorkerTypeOK
          /\ api      \in [Dispatch -> {"idle", "saving", "enqueue", "done", "aborted"}]
          /\ hook     \in [Handler -> [on : Delivery \cup {NoDelivery}, to : Status]]
          /\ repeated \in Nat

-----------------------------------------------------------------------------
(* POST /sends: SendingService.send_template *)

\* The template and its recipients are valid; the dispatch row is committed.
StartSend(k) ==
    /\ api[k] = "idle"
    /\ CreateDispatch(k)
    /\ api' = [api EXCEPT ![k] = "saving"]
    /\ UNCHANGED <<workerVars, hook, repeated>>

Unsaved(k) == { d \in Delivery : DispatchOf[d] = k /\ status[d] = "none" }

\* Variant: the fan-out may be enqueued while rows are still being saved.
SaveDeliveryLate(k) ==
    /\ api[k] \in {"saving", "enqueue", "done"}
    /\ \E d \in Unsaved(k) :
           /\ CreateQueued(d)
           /\ api' = IF api[k] = "saving" THEN [api EXCEPT ![k] = "enqueue"] ELSE api
    /\ UNCHANGED <<workerVars, hook, repeated>>

\* One recipient: its row and first transition, a transaction of their own.
SaveDelivery(k) ==
    /\ api[k] = "saving"
    /\ \E d \in Unsaved(k) :
           /\ CreateQueued(d)
           /\ api' = IF Unsaved(k) = {d} THEN [api EXCEPT ![k] = "enqueue"] ELSE api
    /\ UNCHANGED <<workerVars, hook, repeated>>

EnqueueFanout(k) ==
    /\ api[k] = "enqueue"
    /\ fanoutQ' = [fanoutQ EXCEPT ![k] = @ + 1]
    /\ api' = [api EXCEPT ![k] = "done"]
    /\ UNCHANGED <<dbVars, deliverQ, pollQ, redelivered, providerVars, job, faults,
                   hook, repeated>>

\* The request ends early: the API pod dies, a later insert fails or the broker
\* cannot be reached.  What was committed stays.
AbortSend(k) ==
    /\ api[k] \in {"saving", "enqueue"}
    /\ faults < MaxFaults
    /\ faults' = faults + 1
    /\ api' = [api EXCEPT ![k] = "aborted"]
    /\ UNCHANGED <<dbVars, queueVars, redelivered, providerVars, job,
                   hook, repeated>>

-----------------------------------------------------------------------------
(* POST /webhooks/delivery: confirm_by_provider_ref *)

\* Variant: correlated by delivery, whichever send the callback is about.
ReceiveCallbackLoosely(h, r) ==
    /\ hook[h] = NoHook
    /\ callbacks[r] > 0
    /\ callbacks' = [callbacks EXCEPT ![r] = @ - 1]
    /\ hook' = IF status[r[1]] = "sent"
               THEN [hook EXCEPT ![h] = [on |-> r[1], to |-> fate[r]]]
               ELSE hook
    /\ UNCHANGED <<dbVars, queueVars, redelivered, fate, calls, job, faults,
                   api, repeated>>

\* Variant: the request is not answered in time, so the provider posts it again.
ReceiveCallbackUnanswered(h, r) ==
    /\ hook[h] = NoHook
    /\ callbacks[r] > 0
    /\ hook' = IF \E d \in Delivery : ref[d] = r /\ status[d] = "sent"
               THEN [hook EXCEPT ![h] = [on |-> r[1], to |-> fate[r]]]
               ELSE hook
    /\ UNCHANGED <<dbVars, workerVars, api, repeated>>

\* The callback for r arrives and is correlated: SELECT by reference where the
\* status is sent.  Without a match it is answered 204 and forgotten.
ReceiveCallback(h, r) ==
    /\ hook[h] = NoHook
    /\ callbacks[r] > 0
    /\ callbacks' = [callbacks EXCEPT ![r] = @ - 1]
    /\ hook' = IF \E d \in Delivery : ref[d] = r /\ status[d] = "sent"
               THEN [hook EXCEPT ![h] = [on |-> CHOOSE d \in Delivery : ref[d] = r,
                                         to |-> fate[r]]]
               ELSE hook
    /\ UNCHANGED <<dbVars, queueVars, redelivered, fate, calls, job, faults,
                   api, repeated>>

\* Variant: the session is closed without a commit.
ApplyCallbackUncommitted(h) ==
    /\ hook[h] # NoHook
    /\ hook' = [hook EXCEPT ![h] = NoHook]
    /\ UNCHANGED <<dbVars, workerVars, api, repeated>>

\* The provider's callback carries no reason, so a failure is stored without one.
ApplyCallback(h) ==
    /\ hook[h] # NoHook
    /\ WriteConfirmed(hook[h].on, hook[h].to, "none")
    /\ hook' = [hook EXCEPT ![h] = NoHook]
    /\ UNCHANGED <<workerVars, api, repeated>>

\* The request dies between its SELECT and its COMMIT.
CrashHook(h) ==
    /\ hook[h] # NoHook
    /\ faults < MaxFaults
    /\ faults' = faults + 1
    /\ hook' = [hook EXCEPT ![h] = NoHook]
    /\ UNCHANGED <<dbVars, queueVars, redelivered, providerVars, job,
                   api, repeated>>

\* The one POST of a callback fails and the provider does not repeat it ...
LoseCallback(r) ==
    /\ callbacks[r] > 0
    /\ faults < MaxFaults
    /\ faults' = faults + 1
    /\ callbacks' = [callbacks EXCEPT ![r] = @ - 1]
    /\ UNCHANGED <<dbVars, queueVars, redelivered, fate, calls, job, apiVars>>

\* ... or a provider that repeats callbacks posts it twice.
RepeatCallback(r) ==
    /\ callbacks[r] > 0
    /\ repeated < MaxRepeats
    /\ repeated' = repeated + 1
    /\ callbacks' = [callbacks EXCEPT ![r] = @ + 1]
    /\ UNCHANGED <<dbVars, queueVars, redelivered, fate, calls, job, faults,
                   api, hook>>

-----------------------------------------------------------------------------
SendStep(k) == StartSend(k) \/ SaveDelivery(k) \/ EnqueueFanout(k)

WorkerStep == /\ WorkerNext
              /\ UNCHANGED apiVars

Next == \/ WorkerStep
        \/ \E k \in Dispatch : SendStep(k) \/ AbortSend(k)
        \/ \E h \in Handler : \/ \E r \in Ref : ReceiveCallback(h, r)
                              \/ ApplyCallback(h) \/ CrashHook(h)
        \/ \E r \in Ref : LoseCallback(r) \/ RepeatCallback(r)

Spec == Init /\ [][Next]_vars

\* The rows of the deliveries, read as a state of the abstract specification.
Life == INSTANCE Lifecycle

-----------------------------------------------------------------------------
(* Fairness: Celery's consumers keep taking messages while a thread is idle, *)
(* a running task and a running request keep executing, the provider posts   *)
(* its callbacks.  Users need not send, and faults need not happen.          *)
Fairness ==
    /\ \A w \in Worker : WF_vars(TaskStep(w) /\ UNCHANGED apiVars)
    /\ \A k \in Dispatch : /\ WF_vars((\E w \in Worker : BeginFanout(w, k)) /\ UNCHANGED apiVars)
                           /\ WF_vars(SaveDelivery(k) \/ EnqueueFanout(k))
    /\ \A d \in Delivery :
           /\ WF_vars((\E w \in Worker : BeginDeliver(w, d)) /\ UNCHANGED apiVars)
           /\ \A n \in 0 .. MaxPolls :
                  WF_vars((\E w \in Worker : BeginPoll(w, d, n)) /\ UNCHANGED apiVars)
    /\ \A h \in Handler : WF_vars(ApplyCallback(h))
    /\ \A r \in Ref : WF_vars(\E h \in Handler : ReceiveCallback(h, r))

FairSpec == Spec /\ Fairness

-----------------------------------------------------------------------------
(* Safety *)

\* A task past the claim and before the record of a claimed delivery.
Sends(j, d) == /\ j.on = d
               /\ \/ j.pc = "call"
                  \/ /\ j.pc \in {"record", "write"}
                     /\ Verdict(d) = "none"

Sending(w, d) == Sends(job[w], d)

\* Whatever is redelivered or crashes, one task at a time sends a delivery, and
\* only while the row is still queued and its key is claimed: the read of the
\* row before the claim (delivery.py:54) may be stale, the claim may not.
SingleSender ==
    \A d \in Delivery, w \in Worker :
        Sending(w, d) => /\ d \in keys
                         /\ status[d] = "queued"
                         /\ \A v \in Worker : Sending(v, d) => v = w

\* The retry budget belongs to the delivery and not to the task: redelivered
\* messages and restarted workers never add calls to stop_after_attempt's.
AttemptsBounded == \A d \in Delivery : calls[d] <= MaxAttempts

\* FR-022: a delivery validation refuses reaches neither the key nor the
\* provider and ends failed with validation's reason; one that validation let
\* through and that failed before it was sent failed on the channel.
ValidationDecides ==
    \A d \in Delivery :
        /\ Verdict(d) # "none" => /\ d \notin keys /\ calls[d] = 0
                                  /\ status[d] \in {"none", "queued", "failed"}
        /\ status[d] = "failed" /\ ref[d] = NoRef =>
               reason[d] = IF Verdict(d) = "none" THEN "channel_error" ELSE Verdict(d)

\* A recorded outcome is the provider's outcome of the send whose reference the
\* row keeps, though earlier timed-out attempts had references and outcomes of
\* their own (confirm_by_provider_ref, poll_once).
OutcomeIsProviders ==
    \A d \in Delivery :
        /\ status[d] \in {"sent", "delivered"} => ref[d] # NoRef
        /\ ref[d] # NoRef => /\ ref[d][1] = d
                             /\ fate[ref[d]] # "none"
                             /\ status[d] \in {"sent", fate[ref[d]]}

\* A path of the lifecycle from the creation of the row to its present status.
LegalHistory(d) ==
    /\ \A i \in 1 .. Len(history[d]) :
           history[d][i] \in Life!AllowedTransitions \cup {<<"none", "queued">>}
    /\ \A i \in 2 .. Len(history[d]) : history[d][i - 1][2] = history[d][i][1]
    /\ Len(history[d]) > 0 => /\ history[d][1][1] = "none"
                              /\ history[d][Len(history[d])][2] = status[d]

\* As long as no message and no callback came in a second copy, the stored history
\* of every delivery is such a path, whatever was cut short: no edge is missing,
\* repeated, or written over a terminal one (FR-025).
HistoryIsAPath == redelivered = 0 /\ repeated = 0 => \A d \in Delivery : LegalHistory(d)

\* Nothing is queued, running, being saved or on its way.
Quiescent == /\ \A k \in Dispatch : fanoutQ[k] = 0 /\ api[k] \notin {"saving", "enqueue"}
             /\ \A d \in Delivery : deliverQ[d] = 0 /\ \A n \in 0 .. MaxPolls : pollQ[<<d, n>>] = 0
             /\ \A w \in Worker : job[w] = Idle
             /\ \A h \in Handler : hook[h] = NoHook
             /\ \A r \in Ref : callbacks[r] = 0

\* When all work is done and nothing was cut short no delivery is left behind queued,
\* redelivered messages or not: every committed row was fanned out, and whoever
\* claimed its key, and no one who lost the claim, recorded how the send ended.
NothingStranded == Quiescent /\ faults = 0 => \A d \in Delivery : status[d] # "queued"

\* The provider is only ever called for a row that is queued in that moment.
CalledWhileQueued ==
    [][\A d \in Delivery : calls'[d] # calls[d] => status[d] = "queued" /\ d \in keys]_vars

\* data-model.md:178, no edge overwrites a recorded terminal state: two copies of a
\* message or of a callback may both write, but a row that is final stays as it is.
FinalRowStays ==
    [][\A d \in Delivery : status[d] \in Life!Terminal =>
           UNCHANGED <<status[d], ref[d], reason[d]>>]_vars

-----------------------------------------------------------------------------
(* The promise of module Lifecycle, kept by the rows of the deliveries and   *)
(* of their transitions under every redelivery, repetition and fault.        *)
LifecycleSpec == Life!Spec

\* What a task with locals j knows of the run of its calls.
RunResult(j) == CASE j.pc = "call" -> "running"
                  [] j.pc \in {"record", "write"} /\ j.out.to = "sent" -> "sent"
                  [] j.pc \in {"record", "write"} /\ j.out.why = "channel_error" -> "failed"
                  [] OTHER -> "idle"
RunCount(j) == IF RunResult(j) = "idle" THEN 0 ELSE j.count

\* The promise of module Attempts, which Resilience keeps as well: the pipeline
\* calls the provider no other way than ResiliencePolicy.run does.
Runs == INSTANCE Attempts WITH Thread <- Worker,
                               result <- [w \in Worker |-> RunResult(job[w])],
                               count <- [w \in Worker |-> RunCount(job[w])]
AttemptsSpec == Runs!Spec

-----------------------------------------------------------------------------
(* Liveness, unless something was cut short *)

\* A committed delivery does not stay queued: it is sent or failed in the end.
EventuallyAttempted ==
    \A d \in Delivery :
        status[d] = "queued" ~> status[d] \in {"sent", "delivered", "failed"} \/ faults > 0

\* A callback still on its way when the send has been recorded decides the
\* delivery it is about, however many other callbacks share the handlers.
CallbackDecides ==
    \A d \in Delivery :
        (status[d] = "sent" /\ ref[d] # NoRef /\ callbacks[ref[d]] > 0)
            ~> status[d] \in Life!Terminal \/ faults > 0

-----------------------------------------------------------------------------
(* What the documents say and the code does not do *)

\* data-model.md:177 "idempotency guarantees at most one accepted send per
\* delivery": the key is claimed once, but a retry after a timeout is a second
\* send to a provider that accepted the first.
AtMostOneAccepted ==
    \A d \in Delivery : \A m, n \in 1 .. MaxAttempts :
        fate[<<d, m>>] # "none" /\ fate[<<d, n>>] # "none" => m = n

=============================================================================
