--------------------------- MODULE PipelineProofs ---------------------------
(***************************************************************************)
(* The inductive invariant of Pipeline, and that it holds.                 *)
(* The properties are not inductive: they speak of rows and calls, and     *)
(* whether a step keeps them depends on what the threads and requests in   *)
(* mid-flight still mean to write.  IInv comes first; what is said of the  *)
(* order of things, of the channel that confirms a delivery, of who looks  *)
(* after a queued one and of its history rests on it.  The proofs follow in*)
(* that order, with the refinements of Lifecycle and of Attempts behind    *)
(* IInv.  One lemma per action; before them, one per KIND of step: a task  *)
(* that only moves on, a step no task takes part in, the claim, a call, a  *)
(* record, a confirmation.                                                 *)
(***************************************************************************)
EXTENDS Pipeline, TLAPS

\* The idempotency key separates the deliveries somebody has started to send
\* from those nobody has, and only validated deliveries get one.
KeyInv ==
    \A d \in Delivery :
        /\ d \in keys => Verdict(d) = "none" /\ status[d] # "none"
        /\ d \notin keys => /\ calls[d] = 0
                            /\ ref[d] = NoRef
                            /\ status[d] \in {"none", "queued"}
                               \/ (status[d] = "failed" /\ Verdict(d) # "none")

\* References are handed out in the order of the calls, and the row keeps one
\* the provider accepted for this very delivery.
RefInv ==
    /\ \A d \in Delivery, n \in 1 .. MaxAttempts : fate[<<d, n>>] # "none" => n <= calls[d]
    /\ OutcomeIsProviders

\* What a task in the middle of its work may rely on, from its own locals j.
JobOK(j) ==
    /\ j.pc \notin {"idle", "fanout"} => j.on \in Delivery /\ status[j.on] # "none"
    /\ j.pc = "claim" => Verdict(j.on) = "none" /\ j.count = 0
    /\ j.pc = "call" => calls[j.on] = j.count /\ j.count < MaxAttempts
    /\ j.pc \in {"record", "write"} =>
           IF Verdict(j.on) # "none"
           THEN j.out = Failed(Verdict(j.on))
           ELSE \/ j.out = Failed("channel_error")
                \/ /\ j.out.to = "sent"
                   /\ j.out.ref \in Ref
                   /\ j.out.ref[1] = j.on
                   /\ fate[j.out.ref] # "none"
    /\ j.pc \in {"poll", "confirm"} => j.on \in keys /\ ref[j.on] # NoRef
    /\ j.pc = "confirm" => j.out.to = fate[ref[j.on]]
                           /\ j.out.why = IF j.out.to = "failed" THEN "carrier_rejected" ELSE "none"

JobInv == \A w \in Worker : JobOK(job[w])

\* What a webhook request between its SELECT and its COMMIT may rely on.
HookInv ==
    \A h \in Handler : hook[h] # NoHook =>
        LET d == hook[h].on
        IN d \in Delivery /\ d \in keys /\ ref[d] # NoRef /\ hook[h].to = fate[ref[d]]

\* The inductive invariant that the safety of sending rests on.
IInv == /\ TypeOK
        /\ KeyInv
        /\ RefInv
        /\ JobInv
        /\ HookInv
        /\ SingleSender
        /\ AttemptsBounded
        /\ ValidationDecides

-----------------------------------------------------------------------------
(* The order of things: what the refinement of Lifecycle needs *)

\* The sends whose recipients all have their rows.
WholeSends == { k \in Dispatch : Life!Whole(k) }

\* Nobody works on a delivery before every recipient of its dispatch has a row:
\* the fan-out is enqueued after the last of them, and everything else follows.
QueueWhole ==
    /\ \A k \in Dispatch : api[k] \in {"enqueue", "done"} \/ fanoutQ[k] > 0 => k \in WholeSends
    /\ \A d \in Delivery : deliverQ[d] > 0 \/ d \in keys => DispatchOf[d] \in WholeSends
    /\ \A d \in Delivery, n \in 0 .. MaxPolls : pollQ[<<d, n>>] > 0 => DispatchOf[d] \in WholeSends

TaskWhole ==
    \A w \in Worker : /\ job[w].on \in Delivery => DispatchOf[job[w].on] \in WholeSends
                      /\ \A d \in job[w].todo : DispatchOf[d] \in WholeSends

\* The from_status a task has read is that of the row, unless the row has moved on.
SeenInv == \A w \in Worker : job[w].pc = "write" =>
               /\ job[w].seen \in Life!DeliveryStatus
               /\ status[job[w].on] = "queued" => job[w].seen = "queued"

OrderInv == QueueWhole /\ TaskWhole /\ SeenInv

-----------------------------------------------------------------------------
(* Which channel a delivery is confirmed by: why a final row stays *)

\* Only an SMS is ever polled.
OnlyPolled == \A m \in Delivery \X (0 .. MaxPolls) : pollQ[m] > 0 => m[1] \in Polled

\* Polls are about an SMS and callbacks are about none, so that no delivery is
\* confirmed by both.
ChannelInv ==
    /\ OnlyPolled
    /\ \A w \in Worker : job[w].pc \in {"enqueue", "poll", "confirm"} => job[w].on \in Polled
    /\ \A r \in Ref : callbacks[r] > 0 => r[1] \notin Polled
    /\ \A h \in Handler : hook[h] # NoHook => hook[h].on \notin Polled

\* Only a failed delivery has a reason, and one that failed after it was sent has
\* that of its channel: the carrier's for an SMS, none where a callback said so.
ReasonInv ==
    \A d \in Delivery :
        /\ status[d] # "failed" => reason[d] = "none"
        /\ status[d] = "failed" /\ ref[d] # NoRef =>
               reason[d] = IF d \in Polled THEN "carrier_rejected" ELSE "none"

-----------------------------------------------------------------------------
(* Who looks after a queued delivery: why none is stranded *)

\* A dispatch that is saved, or has deliveries, has a row.
Listed == /\ \A k \in Dispatch : api[k] # "idle" => k \in dispatched
          /\ \A d \in Delivery : status[d] # "none" => api[DispatchOf[d]] # "idle"

\* Somebody will still come to delivery d: its request, a message, or a task.
Awaited(d) == \/ api[DispatchOf[d]] \in {"saving", "enqueue"}
              \/ fanoutQ[DispatchOf[d]] > 0
              \/ deliverQ[d] > 0
              \/ \E w \in Worker : \/ job[w].pc = "fanout" /\ d \in job[w].todo
                                   \/ job[w].pc \in {"claim", "record", "write"} /\ job[w].on = d

\* Unless something was cut short, a queued delivery is awaited or being sent.
InHand(d) == status[d] = "queued" =>
                 IF d \in keys THEN \E w \in Worker : Sending(w, d) ELSE Awaited(d)

StrandInv == Listed /\ (faults = 0 => \A d \in Delivery : InHand(d))

-----------------------------------------------------------------------------
(* One message, one task, one callback: why a history is a path *)

\* No message and no callback came in a second copy.
Single == redelivered = 0 /\ repeated = 0

\* Where the one message or task about a delivery may be: in a queue, among the
\* ids of a fan-out, or in the hands of a thread.
Place == ({"fanout", "deliver"} \X {0}) \cup ({"poll"} \X (0 .. MaxPolls))
             \cup ({"ids", "task"} \X Worker)

Found(d, p) == \/ p[1] = "fanout" /\ fanoutQ[DispatchOf[d]] > 0
               \/ p[1] = "deliver" /\ deliverQ[d] > 0
               \/ p[1] = "poll" /\ pollQ[<<d, p[2]>>] > 0
               \/ p[1] = "ids" /\ d \in job[p[2]].todo
               \/ p[1] = "task" /\ job[p[2]].on = d

\* It is in one place, once, and nowhere before the fan-out is enqueued.
OnePlace(d) == /\ \A p, q \in Place : Found(d, p) /\ Found(d, q) => p = q
               /\ fanoutQ[DispatchOf[d]] <= 1
               /\ deliverQ[d] <= 1
               /\ \A n \in 0 .. MaxPolls : pollQ[<<d, n>>] <= 1
               /\ api[DispatchOf[d]] # "done" => \A p \in Place : ~Found(d, p)

\* A row with status st[d] stays as a task with locals j has read it until it writes.
TaskStatus(j, st) == /\ j.pc \in {"claim", "call", "record", "write"} => st[j.on] = "queued"
                     /\ j.pc = "write" => j.seen = "queued"
                     /\ j.pc = "confirm" => st[j.on] = "sent"

\* Each send has one callback, and only the one of the send on record is served.
OneCallback ==
    /\ \A r \in Ref : /\ callbacks[r] <= 1
                      /\ callbacks[r] > 0 => fate[r] # "none"
    /\ \A h \in Handler : hook[h] # NoHook =>
           /\ status[hook[h].on] = "sent"
           /\ callbacks[ref[hook[h].on]] = 0
           /\ \A g \in Handler : hook[g].on = hook[h].on => g = h

\* A path that ends at the status, and begins with the row.
Recorded(d) == LegalHistory(d) /\ (status[d] = "none" <=> history[d] = << >>)

Alone    == \A d \in Delivery : OnePlace(d)
Steady   == \A w \in Worker : TaskStatus(job[w], status)
AllLegal == \A d \in Delivery : Recorded(d)

PathInv == Single => Alone /\ Steady /\ OneCallback /\ AllLegal

-----------------------------------------------------------------------------

\* All of it: an inductive invariant.
Inductive == IInv /\ OrderInv /\ ChannelInv /\ ReasonInv /\ StrandInv /\ PathInv

-----------------------------------------------------------------------------
(* Kinds of steps *)

\* What the invariant says about rows and calls rests on these variables.
bookVars == <<status, ref, reason, keys, fate, calls>>

\* A step of a task that writes no row and calls no provider.
Quiet == /\ UNCHANGED <<dbVars, providerVars, redelivered, apiVars>>
         /\ fanoutQ'  \in [Dispatch -> Nat]
         /\ deliverQ' \in [Delivery -> Nat]
         /\ pollQ'    \in [Delivery \X (0 .. MaxPolls) -> Nat]
         /\ faults'   \in Nat

\* An idle thread is a thread.
LEMMA IdleIsJob == Idle \in Job /\ Idle.pc = "idle" /\ Idle.on = NoDelivery
BY DEF Job, Idle, NoOutcome, Outcome, Status, Reason, Pc

\* Continue(w, j) gives thread w the locals j and no other thread anything.
LEMMA Continued ==
    ASSUME job \in [Worker -> Job], NEW w \in Worker, NEW j \in Job, Continue(w, j)
    PROVE  /\ job' \in [Worker -> Job]
           /\ job'[w] = j
           /\ \A v \in Worker \ {w} : job'[v] = job[v]
BY DEF Continue

\* A thread goes on with locals j that the invariant allows, and does not become
\* a sender: as long as no row and no call changes, the invariant is kept.
LEMMA TaskLocal ==
    ASSUME IInv, TypeOK', UNCHANGED <<bookVars, hook>>,
           NEW w \in Worker, NEW j \in Job, Continue(w, j), JobOK(j),
           \A d \in Delivery : Sends(j, d) => Sends(job[w], d)
    PROVE  IInv'
<1>1. /\ job'[w] = j
      /\ \A v \in Worker \ {w} : job'[v] = job[v]
  BY Continued DEF IInv, TypeOK, WorkerTypeOK
<1>2. KeyInv' /\ RefInv' /\ HookInv' /\ AttemptsBounded' /\ ValidationDecides'
  BY DEF IInv, KeyInv, RefInv, HookInv, AttemptsBounded, ValidationDecides, OutcomeIsProviders, bookVars, Verdict
<1>3. JobInv'
  BY <1>1 DEF IInv, JobInv, JobOK, bookVars
<1>4. SingleSender'
  BY <1>1 DEF IInv, SingleSender, Sending, Sends, bookVars
<1> QED BY <1>2, <1>3, <1>4 DEF IInv

\* The same, for a step that in addition keeps the types of what it does change.
LEMMA QuietStep ==
    ASSUME IInv, Quiet, NEW w \in Worker, NEW j \in Job, Continue(w, j), JobOK(j),
           \A d \in Delivery : Sends(j, d) => Sends(job[w], d)
    PROVE  IInv'
<1>1. job' \in [Worker -> Job]
  BY Continued DEF IInv, TypeOK, WorkerTypeOK
<1>2. StoreTypeOK'
  BY DEF IInv, TypeOK, StoreTypeOK, dbVars, Quiet
<1>3. WorkerTypeOK'
  BY <1>1 DEF IInv, TypeOK, WorkerTypeOK, providerVars, Quiet
<1>4. TypeOK'
  BY <1>2, <1>3 DEF IInv, TypeOK, apiVars, Quiet
<1>5. UNCHANGED <<bookVars, hook>>
  BY DEF Quiet, dbVars, providerVars, apiVars, bookVars
<1> QED BY <1>4, <1>5, TaskLocal

\* A task may end at any point: the invariant asks nothing of an idle thread.
LEMMA QuietEnd ==
    ASSUME IInv, Quiet, NEW w \in Worker, Finish(w)
    PROVE  IInv'
<1>1. JobOK(Idle)
  BY IdleIsJob DEF JobOK
<1>2. \A d \in Delivery : ~Sends(Idle, d)
  BY IdleIsJob DEF Sends
<1> QED BY <1>1, <1>2, IdleIsJob, QuietStep DEF Finish

-----------------------------------------------------------------------------
(* Steps of a task that record nothing *)

\* A fan-out starts (tasks/sending.py:14-18).
LEMMA BeginFanoutStep ==
    ASSUME IInv, NEW w \in Worker, NEW k \in Dispatch, BeginFanout(w, k), UNCHANGED apiVars
    PROVE  IInv'
<1> DEFINE j == [Idle EXCEPT !.pc = "fanout", !.todo = QueuedIds(k)]
<1>1. Quiet
  BY DEF IInv, TypeOK, WorkerTypeOK, BeginFanout, Quiet
<1>2. CASE Finish(w)
  BY <1>1, <1>2, QuietEnd
<1>3. CASE Continue(w, j)
  <2>1. j \in Job /\ j.pc = "fanout" /\ j.on = NoDelivery
    BY DEF Job, Pc, Idle, NoOutcome, Outcome, Status, Reason, QueuedIds
  <2>2. JobOK(j) /\ \A d \in Delivery : ~Sends(j, d)
    BY <2>1 DEF JobOK, Sends
  <2> QED BY <1>1, <1>3, <2>1, <2>2, QuietStep
<1> QED BY <1>2, <1>3 DEF BeginFanout

\* A fan-out publishes one deliver (tasks/sending.py:19-21).
LEMMA FanoutPublishStep ==
    ASSUME IInv, NEW w \in Worker, FanoutPublish(w), UNCHANGED apiVars
    PROVE  IInv'
<1>1. PICK d \in job[w].todo :
        /\ deliverQ' = [deliverQ EXCEPT ![d] = @ + 1]
        /\ \/ Finish(w)
           \/ Continue(w, [job[w] EXCEPT !.todo = job[w].todo \ {d}])
        /\ job[w].pc = "fanout"
  BY Zenon DEF FanoutPublish
<1> DEFINE j == [job[w] EXCEPT !.todo = job[w].todo \ {d}]
<1>2. job[w] \in Job
  BY DEF IInv, TypeOK, WorkerTypeOK
<1>3. d \in Delivery
  BY <1>1, <1>2 DEF Job
<1>4. Quiet
  BY <1>1, <1>3 DEF IInv, TypeOK, WorkerTypeOK, FanoutPublish, Quiet
<1>5. CASE Finish(w)
  BY <1>4, <1>5, QuietEnd
<1>6. CASE Continue(w, j)
  <2>1. j \in Job /\ j.pc = "fanout"
    BY <1>1, <1>2 DEF Job
  <2>2. JobOK(j) /\ \A e \in Delivery : ~Sends(j, e)
    BY <2>1 DEF JobOK, Sends
  <2> QED BY <1>4, <1>6, <2>1, <2>2, QuietStep
<1> QED BY <1>1, <1>5, <1>6

\* A deliver starts: no-op, validation, or the claim (delivery.py:53-93).
LEMMA BeginDeliverStep ==
    ASSUME IInv, NEW w \in Worker, NEW d \in Delivery, BeginDeliver(w, d), UNCHANGED apiVars
    PROVE  IInv'
<1> DEFINE i == [Idle EXCEPT !.pc = "claim", !.on = d]
           j == [Idle EXCEPT !.pc = "record", !.on = d, !.out = Failed(Verdict(d))]
<1>1. Quiet
  BY DEF IInv, TypeOK, WorkerTypeOK, BeginDeliver, Quiet
<1>2. CASE Finish(w)
  BY <1>1, <1>2, QuietEnd
<1>3. CASE status[d] = "queued" /\ Verdict(d) = "none" /\ Continue(w, i)
  <2>1. i \in Job /\ i.pc = "claim" /\ i.on = d /\ i.count = 0
    BY DEF Job, Pc, Idle, NoOutcome, Outcome, Status, Reason
  <2>2. JobOK(i) /\ \A e \in Delivery : ~Sends(i, e)
    BY <1>3, <2>1 DEF JobOK, Sends
  <2> QED BY <1>1, <1>3, <2>1, <2>2, QuietStep
<1>4. CASE status[d] = "queued" /\ Verdict(d) # "none" /\ Continue(w, j)
  <2>1. Failed(Verdict(d)) \in Outcome
    BY DEF Failed, Verdict, Outcome, Status, Reason
  <2>2. j \in Job /\ j.pc = "record" /\ j.on = d /\ j.out = Failed(Verdict(d))
    BY <2>1 DEF Job, Pc, Idle, NoOutcome, Outcome, Status, Reason
  <2>3. JobOK(j) /\ \A e \in Delivery : ~Sends(j, e)
    BY <1>4, <2>2 DEF JobOK, Sends
  <2> QED BY <1>1, <1>4, <2>2, <2>3, QuietStep
<1> QED BY <1>2, <1>3, <1>4 DEF BeginDeliver

\* The breaker refuses a call (delivery.py:104-108).
LEMMA CallRefusedStep ==
    ASSUME IInv, NEW w \in Worker, CallRefused(w), UNCHANGED apiVars
    PROVE  IInv'
<1> DEFINE j == [job[w] EXCEPT !.pc = "record", !.out = Failed("channel_error")]
<1>1. Quiet
  BY DEF IInv, TypeOK, WorkerTypeOK, CallRefused, queueVars, Quiet
<1>2. job[w] \in Job /\ job[w].pc = "call" /\ JobOK(job[w])
  BY DEF IInv, TypeOK, WorkerTypeOK, CallRefused, JobInv
<1>3. job[w].on \in Delivery /\ status[job[w].on] # "none" /\ Verdict(job[w].on) = "none"
  BY <1>2 DEF JobOK, IInv, SingleSender, Sending, Sends, KeyInv
<1>4. Failed("channel_error") \in Outcome
  BY DEF Failed, Outcome, Status, Reason
<1>5. j \in Job /\ j.pc = "record" /\ j.on = job[w].on /\ j.out = Failed("channel_error")
  BY <1>2, <1>4 DEF Job, Pc
<1>6. JobOK(j)
  BY <1>3, <1>5 DEF JobOK
<1>7. \A d \in Delivery : Sends(j, d) => Sends(job[w], d)
  BY <1>2, <1>5 DEF Sends
<1> QED BY <1>1, <1>5, <1>6, <1>7, QuietStep DEF CallRefused

\* from_status is read (sync_repo.py:91-126).
LEMMA RecordReadStep ==
    ASSUME IInv, NEW w \in Worker, RecordRead(w), UNCHANGED apiVars
    PROVE  IInv'
<1> DEFINE j == [job[w] EXCEPT !.pc = "write", !.seen = status[job[w].on]]
<1>1. Quiet
  BY DEF IInv, TypeOK, WorkerTypeOK, RecordRead, queueVars, Quiet
<1>2. job[w] \in Job /\ job[w].pc = "record" /\ JobOK(job[w])
  BY DEF IInv, TypeOK, WorkerTypeOK, RecordRead, JobInv
<1>3. job[w].on \in Delivery /\ status[job[w].on] \in Status
  BY <1>2 DEF JobOK, IInv, TypeOK, StoreTypeOK
<1>4. j \in Job /\ j.pc = "write" /\ j.on = job[w].on /\ j.out = job[w].out
  BY <1>2, <1>3 DEF Job, Pc
<1>5. JobOK(j)
  BY <1>2, <1>4 DEF JobOK
<1>6. \A d \in Delivery : Sends(j, d) => Sends(job[w], d)
  BY <1>2, <1>4 DEF Sends
<1> QED BY <1>1, <1>4, <1>5, <1>6, QuietStep DEF RecordRead

\* The first poll is enqueued (tasks/sending.py:36-38).
LEMMA EnqueuePollStep ==
    ASSUME IInv, NEW w \in Worker, EnqueuePoll(w), UNCHANGED apiVars
    PROVE  IInv'
<1>1. <<job[w].on, 0>> \in Delivery \X (0 .. MaxPolls)
  BY WorkerAssumption DEF IInv, JobInv, JobOK, EnqueuePoll
<1>2. Quiet
  BY <1>1 DEF IInv, TypeOK, WorkerTypeOK, EnqueuePoll, queueVars, Quiet
<1> QED BY <1>2, QuietEnd DEF EnqueuePoll

\* A poll starts; the row it finds sent has a claimed key (confirmation.py:55-65).
LEMMA BeginPollStep ==
    ASSUME IInv, NEW w \in Worker, NEW d \in Delivery, NEW n \in 0 .. MaxPolls,
           BeginPoll(w, d, n), UNCHANGED apiVars
    PROVE  IInv'
<1> DEFINE j == [Idle EXCEPT !.pc = "poll", !.on = d, !.count = n]
<1>1. Quiet
  BY DEF IInv, TypeOK, WorkerTypeOK, BeginPoll, Quiet
<1>2. CASE Finish(w)
  BY <1>1, <1>2, QuietEnd
<1>3. CASE status[d] = "sent" /\ ref[d] # NoRef /\ Continue(w, j)
  <2>1. j \in Job /\ j.pc = "poll" /\ j.on = d
    <3>1. n \in Nat
      BY WorkerAssumption
    <3> QED BY <3>1 DEF Job, Pc, Idle, NoOutcome, Outcome, Status, Reason
  <2>2. d \in keys
    BY <1>3 DEF IInv, KeyInv
  <2>3. JobOK(j) /\ \A e \in Delivery : ~Sends(j, e)
    BY <1>3, <2>1, <2>2 DEF JobOK, Sends
  <2> QED BY <1>1, <1>3, <2>1, <2>3, QuietStep
<1> QED BY <1>2, <1>3 DEF BeginPoll

\* The poll has an outcome, and it is the outcome of the reference the row keeps.
LEMMA PollAnsweredStep ==
    ASSUME IInv, NEW w \in Worker, PollAnswered(w), UNCHANGED apiVars
    PROVE  IInv'
<1> DEFINE d == job[w].on
           o == Answer(fate[ref[d]])
           j == [Idle EXCEPT !.pc = "confirm", !.on = d, !.out = o]
<1>1. Quiet
  BY DEF IInv, TypeOK, WorkerTypeOK, PollAnswered, queueVars, Quiet
<1>2. CASE Finish(w)
  BY <1>1, <1>2, QuietEnd
<1>3. CASE Continue(w, j)
  <2>1. d \in Delivery /\ d \in keys /\ ref[d] # NoRef /\ status[d] # "none"
    BY DEF PollAnswered, IInv, JobInv, JobOK
  <2>2. o \in Outcome /\ o.to = fate[ref[d]]
        /\ o.why = IF o.to = "failed" THEN "carrier_rejected" ELSE "none"
    BY <2>1 DEF IInv, TypeOK, StoreTypeOK, WorkerTypeOK, Answer, Outcome, Status, Reason
  <2>3. j \in Job /\ j.pc = "confirm" /\ j.on = d /\ j.out = o
    BY <2>1, <2>2 DEF Job, Pc, Idle, Status
  <2>4. JobOK(j) /\ \A e \in Delivery : ~Sends(j, e)
    BY <2>1, <2>2, <2>3 DEF JobOK, Sends
  <2> QED BY <1>1, <1>3, <2>3, <2>4, QuietStep
<1> QED BY <1>2, <1>3 DEF PollAnswered

\* Still pending: the next poll, or the end of the window (tasks/sending.py:44-51).
LEMMA PollPendingStep ==
    ASSUME IInv, NEW w \in Worker, PollPending(w), UNCHANGED apiVars
    PROVE  IInv'
<1>1. job[w].on \in Delivery
  BY DEF IInv, JobInv, JobOK, PollPending
<1>2. Quiet
  BY <1>1 DEF IInv, TypeOK, WorkerTypeOK, PollPending, Quiet
<1> QED BY <1>2, QuietEnd DEF PollPending

\* The status request fails (provider_http.py:49-62).
LEMMA PollErrorStep ==
    ASSUME IInv, NEW w \in Worker, PollError(w), UNCHANGED apiVars
    PROVE  IInv'
<1>1. Quiet
  BY DEF IInv, TypeOK, WorkerTypeOK, PollError, queueVars, Quiet
<1> QED BY <1>1, QuietEnd DEF PollError

\* A task dies.
LEMMA CrashStep ==
    ASSUME IInv, NEW w \in Worker, Crash(w), UNCHANGED apiVars
    PROVE  IInv'
<1>1. Quiet
  BY DEF IInv, TypeOK, WorkerTypeOK, Crash, queueVars, Quiet
<1> QED BY <1>1, QuietEnd DEF Crash
-----------------------------------------------------------------------------
(* Steps that run no task and write no delivery row *)

\* A step that moves no thread and changes no row and no call keeps the invariant
\* if the webhook requests stay sound.
LEMMA TasksRest ==
    ASSUME IInv, TypeOK', UNCHANGED <<bookVars, job>>, HookInv'
    PROVE  IInv'
<1>1. KeyInv' /\ RefInv' /\ AttemptsBounded' /\ ValidationDecides'
  BY DEF IInv, KeyInv, RefInv, AttemptsBounded, ValidationDecides, OutcomeIsProviders, bookVars, Verdict
<1>2. JobInv'
  BY DEF IInv, JobInv, JobOK, bookVars
<1>3. SingleSender'
  BY DEF IInv, SingleSender, Sending, Sends, bookVars
<1> QED BY <1>1, <1>2, <1>3 DEF IInv

\* Requests in flight stay sound while rows and fates do.
LEMMA HooksRest ==
    ASSUME IInv, UNCHANGED <<bookVars, hook>>
    PROVE  HookInv'
BY DEF IInv, HookInv, bookVars

\* A message is delivered once more.
LEMMA RedeliverStep ==
    ASSUME IInv, Redeliver, UNCHANGED apiVars
    PROVE  IInv'
<1>1. UNCHANGED <<bookVars, job, hook>>
  BY DEF Redeliver, bookVars, dbVars, providerVars, apiVars
<1>2. fanoutQ' \in [Dispatch -> Nat]
  BY DEF IInv, TypeOK, WorkerTypeOK, Redeliver
<1>3. deliverQ' \in [Delivery -> Nat]
  BY DEF IInv, TypeOK, WorkerTypeOK, Redeliver
<1>4. pollQ' \in [Delivery \X (0 .. MaxPolls) -> Nat]
  BY DEF IInv, TypeOK, WorkerTypeOK, Redeliver
<1>5. TypeOK'
  BY <1>2, <1>3, <1>4 DEF IInv, TypeOK, StoreTypeOK, WorkerTypeOK, Redeliver,
                          dbVars, providerVars, apiVars
<1> QED BY <1>1, <1>5, HooksRest, TasksRest

\* A dispatch row is committed (sending.py:62-70).
LEMMA StartSendStep ==
    ASSUME IInv, NEW k \in Dispatch, StartSend(k)
    PROVE  IInv'
<1>1. UNCHANGED <<bookVars, job, hook>>
  BY DEF StartSend, CreateDispatch, bookVars, workerVars, providerVars
<1>2. TypeOK'
  BY DEF IInv, TypeOK, StoreTypeOK, WorkerTypeOK, StartSend, CreateDispatch,
         workerVars, queueVars, providerVars
<1> QED BY <1>1, <1>2, HooksRest, TasksRest

\* The fan-out is enqueued (bootstrap.py:63-66).
LEMMA EnqueueFanoutStep ==
    ASSUME IInv, NEW k \in Dispatch, EnqueueFanout(k)
    PROVE  IInv'
<1>1. UNCHANGED <<bookVars, job, hook>>
  BY DEF EnqueueFanout, bookVars, dbVars, providerVars
<1>2. TypeOK'
  BY DEF IInv, TypeOK, StoreTypeOK, WorkerTypeOK, EnqueueFanout, dbVars, providerVars
<1> QED BY <1>1, <1>2, HooksRest, TasksRest

\* A send request ends early.
LEMMA AbortSendStep ==
    ASSUME IInv, NEW k \in Dispatch, AbortSend(k)
    PROVE  IInv'
<1>1. UNCHANGED <<bookVars, job, hook>>
  BY DEF AbortSend, bookVars, dbVars, providerVars
<1>2. TypeOK'
  BY DEF IInv, TypeOK, StoreTypeOK, WorkerTypeOK, AbortSend, dbVars, queueVars, providerVars
<1> QED BY <1>1, <1>2, HooksRest, TasksRest

\* A webhook request dies between SELECT and COMMIT.
LEMMA CrashHookStep ==
    ASSUME IInv, NEW h \in Handler, CrashHook(h)
    PROVE  IInv'
<1>1. UNCHANGED <<bookVars, job>>
  BY DEF CrashHook, bookVars, dbVars, providerVars
<1>2. NoHook \in [on : Delivery \cup {NoDelivery}, to : Status]
  BY DEF NoHook, Status
<1>3. TypeOK'
  BY <1>2 DEF IInv, TypeOK, StoreTypeOK, WorkerTypeOK, CrashHook, dbVars, queueVars, providerVars
<1>4. HookInv'
  BY <1>1 DEF IInv, TypeOK, HookInv, CrashHook, bookVars
<1> QED BY <1>1, <1>3, <1>4, TasksRest

\* A callback is lost (provider_sim/main.py:54-61).
LEMMA LoseCallbackStep ==
    ASSUME IInv, NEW r \in Ref, LoseCallback(r)
    PROVE  IInv'
<1>1. UNCHANGED <<bookVars, job, hook>>
  BY DEF LoseCallback, bookVars, dbVars, apiVars
<1>2. TypeOK'
  BY DEF IInv, TypeOK, StoreTypeOK, WorkerTypeOK, LoseCallback, dbVars, queueVars, apiVars
<1> QED BY <1>1, <1>2, HooksRest, TasksRest

\* A callback is posted once more.
LEMMA RepeatCallbackStep ==
    ASSUME IInv, NEW r \in Ref, RepeatCallback(r)
    PROVE  IInv'
<1>1. UNCHANGED <<bookVars, job, hook>>
  BY DEF RepeatCallback, bookVars, dbVars
<1>2. TypeOK'
  BY DEF IInv, TypeOK, StoreTypeOK, WorkerTypeOK, RepeatCallback, dbVars, queueVars
<1> QED BY <1>1, <1>2, HooksRest, TasksRest

\* A callback is correlated: the row that keeps its reference is claimed, and what
\* will be written is the fate of that reference (async_repo.py:495-503).
LEMMA ReceiveCallbackStep ==
    ASSUME IInv, NEW h \in Handler, NEW r \in Ref, ReceiveCallback(h, r)
    PROVE  IInv'
<1>1. UNCHANGED <<bookVars, job>>
  BY DEF ReceiveCallback, bookVars, dbVars
<1>2. StoreTypeOK' /\ WorkerTypeOK' /\ UNCHANGED <<api, repeated>>
  BY DEF IInv, TypeOK, StoreTypeOK, WorkerTypeOK, ReceiveCallback, dbVars, queueVars
<1>3. CASE UNCHANGED hook
  <2>1. TypeOK'
    BY <1>2, <1>3 DEF IInv, TypeOK
  <2> QED BY <1>1, <1>3, <2>1, HooksRest, TasksRest
<1>4. CASE \E d \in Delivery : ref[d] = r /\ status[d] = "sent"
  <2> DEFINE d == CHOOSE e \in Delivery : ref[e] = r
             n == [on |-> d, to |-> fate[r]]
  <2>1. d \in Delivery /\ ref[d] = r
    <3>1. \E c : c \in Delivery /\ ref[c] = r
      BY <1>4
    <3>2. (CHOOSE c : c \in Delivery /\ ref[c] = r) = d
      OBVIOUS
    <3> QED BY <3>1, <3>2
  <2>2. r # NoRef
    BY StoreAssumption DEF Ref
  <2>3. d \in keys
    BY <2>1, <2>2 DEF IInv, KeyInv
  <2>4. n \in [on : Delivery \cup {NoDelivery}, to : Status]
    BY <2>1 DEF IInv, TypeOK, WorkerTypeOK, Status
  <2>5. hook' = [hook EXCEPT ![h] = n]
    BY <1>4 DEF ReceiveCallback
  <2>6. TypeOK'
    <3>1. hook' \in [Handler -> [on : Delivery \cup {NoDelivery}, to : Status]]
      BY <2>4, <2>5 DEF IInv, TypeOK
    <3> QED BY <1>2, <3>1 DEF IInv, TypeOK
  <2>7. HookInv'
    BY <1>1, <2>1, <2>2, <2>3, <2>5 DEF IInv, TypeOK, HookInv, bookVars
  <2> QED BY <1>1, <2>6, <2>7, TasksRest
<1> QED BY <1>3, <1>4 DEF ReceiveCallback
-----------------------------------------------------------------------------
(* The claim *)

\* What every step leaves a task that does not take part in it.
Kept == /\ keys \subseteq keys'
        /\ \A d \in Delivery : /\ status[d] # "none" => status'[d] # "none"
                               /\ ref[d] # NoRef => ref'[d] = ref[d]
        /\ \A r \in Ref : fate[r] # "none" => fate'[r] = fate[r]

\* A reference a row keeps stays, and so does what the provider decided for it.
LEMMA FatesKeep ==
    ASSUME IInv, Kept
    PROVE  \A d \in Delivery : ref[d] # NoRef => /\ ref'[d] = ref[d]
                                                /\ fate[ref[d]] # "none"
                                                /\ fate'[ref[d]] = fate[ref[d]]
BY DEF IInv, TypeOK, StoreTypeOK, RefInv, OutcomeIsProviders, Kept

\* A task that does not take part in a step stays sound.
LEMMA OthersKeep ==
    ASSUME IInv, Kept, NEW v \in Worker, job'[v] = job[v],
           job[v].pc = "call" => calls'[job[v].on] = calls[job[v].on]
    PROVE  JobOK(job[v])'
<1>1. JobOK(job[v])
  BY DEF IInv, JobInv
<1> QED BY <1>1, FatesKeep DEF JobOK, Kept

\* The claim is won: nobody sent d before, and now this thread alone does.
LEMMA ClaimWonStep ==
    ASSUME IInv, NEW w \in Worker, job[w].pc = "claim", ClaimKey(job[w].on),
           Continue(w, [job[w] EXCEPT !.pc = "call"]),
           UNCHANGED <<queueVars, redelivered, providerVars, faults, apiVars>>
    PROVE  IInv'
<1> DEFINE d == job[w].on
           j == [job[w] EXCEPT !.pc = "call"]
<1>1. job[w] \in Job /\ JobOK(job[w])
  BY DEF IInv, TypeOK, WorkerTypeOK, JobInv
<1>2. d \in Delivery /\ status[d] # "none" /\ Verdict(d) = "none"
  BY <1>1 DEF JobOK
<1>3. d \notin keys /\ calls[d] = 0 /\ status[d] = "queued" /\ keys' = keys \cup {d}
  BY <1>2 DEF IInv, KeyInv, ClaimKey
<1>4. j \in Job /\ j.pc = "call" /\ j.on = d /\ j.count = job[w].count
  BY <1>1 DEF Job, Pc
<1>5. /\ job' \in [Worker -> Job]
      /\ job'[w] = j
      /\ \A v \in Worker \ {w} : job'[v] = job[v]
  BY <1>4, Continued DEF IInv, TypeOK, WorkerTypeOK
<1>6. UNCHANGED <<status, ref, reason, fate, calls, hook>>
  BY DEF ClaimKey, providerVars, apiVars
<1>7. TypeOK'
  BY <1>2, <1>3, <1>5 DEF IInv, TypeOK, StoreTypeOK, WorkerTypeOK, ClaimKey, queueVars,
                          providerVars, apiVars
<1>8. KeyInv' /\ RefInv' /\ HookInv' /\ AttemptsBounded' /\ ValidationDecides'
  BY <1>2, <1>3, <1>6 DEF IInv, KeyInv, RefInv, HookInv, AttemptsBounded, ValidationDecides,
                          OutcomeIsProviders, Verdict
<1>9. JobInv'
  <2>1. JobOK(job[w])'
    BY <1>1, <1>2, <1>3, <1>4, <1>5, <1>6, StoreAssumption DEF JobOK
  <2>2. ASSUME NEW v \in Worker \ {w} PROVE JobOK(job[v])'
    <3>1. Kept
      BY <1>3, <1>6 DEF Kept
    <3> QED BY <1>5, <1>6, <3>1, OthersKeep
  <2> QED BY <2>1, <2>2 DEF JobInv
<1>10. SingleSender'
  <2>1. ASSUME NEW v \in Worker \ {w}, NEW e \in Delivery, Sending(v, e)'
        PROVE  Sending(v, e) /\ e # d
    <3>1. Sending(v, e)
      BY <1>5, <2>1 DEF Sending, Sends
    <3> QED BY <1>3, <3>1 DEF IInv, SingleSender
  <2>2. ASSUME NEW e \in Delivery, Sending(w, e)'
        PROVE  e = d
    BY <1>4, <1>5, <2>2 DEF Sending, Sends
  <2> QED BY <1>3, <1>6, <2>1, <2>2 DEF IInv, SingleSender
<1> QED BY <1>7, <1>8, <1>9, <1>10 DEF IInv
\* The claim, won or lost (resilience.py:55-66).
LEMMA ClaimStep ==
    ASSUME IInv, NEW w \in Worker, Claim(w), UNCHANGED apiVars
    PROVE  IInv'
<1>1. CASE ClaimKey(job[w].on) /\ Continue(w, [job[w] EXCEPT !.pc = "call"])
  BY <1>1, ClaimWonStep DEF Claim
<1>2. CASE Finish(w) /\ UNCHANGED dbVars
  <2>1. Quiet
    BY <1>2 DEF IInv, TypeOK, WorkerTypeOK, Claim, queueVars, Quiet
  <2> QED BY <1>2, <2>1, QuietEnd
<1> QED BY <1>1, <1>2 DEF Claim

-----------------------------------------------------------------------------
(* Calls to the provider *)

\* One call to the provider, whatever it answered: out is what the task made of
\* the answer, and the provider may have accepted the send.
LEMMA CallStep ==
    ASSUME IInv, NEW w \in Worker, job[w].pc = "call",
           NEW out \in Outcome, AfterCall(w, out), UNCHANGED apiVars,
           \/ UNCHANGED <<fate, callbacks>>
           \/ ProviderAccepts(<<job[w].on, job[w].count + 1>>),
           \/ out = NoOutcome /\ job[w].count + 1 < MaxAttempts
           \/ out = Failed("channel_error")
           \/ /\ ProviderAccepts(<<job[w].on, job[w].count + 1>>)
              /\ out.to = "sent" /\ out.ref = <<job[w].on, job[w].count + 1>>
    PROVE  IInv'
<1> DEFINE d == job[w].on
           n == job[w].count + 1
           r == <<d, n>>
           p == IF out = NoOutcome THEN "call" ELSE "record"
           j == [job[w] EXCEPT !.count = n, !.out = out, !.pc = p]
<1>1. job[w] \in Job /\ JobOK(job[w])
  BY DEF IInv, TypeOK, WorkerTypeOK, JobInv
<1>2. d \in Delivery /\ calls[d] = job[w].count /\ n \in 1 .. MaxAttempts /\ n \in Nat /\ r \in Ref
  <2>1. d \in Delivery /\ calls[d] = job[w].count /\ job[w].count < MaxAttempts
    BY <1>1 DEF JobOK
  <2>2. job[w].count \in Nat
    BY <1>1 DEF Job
  <2>3. n \in 1 .. MaxAttempts /\ n \in Nat
    BY <2>1, <2>2, StoreAssumption
  <2> QED BY <2>1, <2>3 DEF Ref
<1>3. d \in keys /\ status[d] = "queued" /\ Verdict(d) = "none" /\ fate[r] = "none"
  <2>1. d \in keys /\ status[d] = "queued" /\ Verdict(d) = "none"
    BY <1>2 DEF IInv, SingleSender, Sending, Sends, KeyInv
  <2>2. ~(n <= calls[d])
    BY <1>1, <1>2 DEF Job
  <2> QED BY <1>2, <2>1, <2>2 DEF IInv, RefInv
<1>4. j \in Job /\ j.pc = p /\ j.on = d /\ j.count = n /\ j.out = out
  BY <1>1, <1>2 DEF Job, Pc
<1>5. /\ job' \in [Worker -> Job]
      /\ job'[w] = j
      /\ \A v \in Worker \ {w} : job'[v] = job[v]
  BY <1>4, Continued DEF IInv, TypeOK, WorkerTypeOK, AfterCall
<1>6. /\ UNCHANGED <<dbVars, queueVars, redelivered, faults, apiVars>>
      /\ calls' = [calls EXCEPT ![d] = n]
  BY <1>2 DEF AfterCall
<1>7. /\ fate' \in [Ref -> {"none", "delivered", "failed"}]
      /\ callbacks' \in [Ref -> Nat]
      /\ \A q \in Ref : q # r => fate'[q] = fate[q]
      /\ ProviderAccepts(r) => fate'[r] # "none"
  <2>1. CASE UNCHANGED <<fate, callbacks>>
    <3>1. ~ProviderAccepts(r) \/ fate'[r] # "none"
      BY <1>2 DEF IInv, TypeOK, WorkerTypeOK, ProviderAccepts
    <3> QED BY <2>1, <3>1 DEF IInv, TypeOK, WorkerTypeOK
  <2>2. CASE ProviderAccepts(r)
    BY <1>2, <2>2 DEF IInv, TypeOK, WorkerTypeOK, ProviderAccepts
  <2> QED BY <2>1, <2>2
<1>17. Kept
  BY <1>3, <1>6, <1>7 DEF Kept, dbVars
<1>8. TypeOK'
  <2>1. calls' \in [Delivery -> Nat]
    BY <1>2, <1>6 DEF IInv, TypeOK, WorkerTypeOK
  <2> QED BY <1>5, <1>6, <1>7, <2>1 DEF IInv, TypeOK, StoreTypeOK, WorkerTypeOK, dbVars,
                                        queueVars, apiVars
<1>9. KeyInv'
  BY <1>2, <1>3, <1>6 DEF IInv, KeyInv, TypeOK, WorkerTypeOK, dbVars, Verdict
<1>10. RefInv'
  <2>1. ASSUME NEW e \in Delivery, NEW m \in 1 .. MaxAttempts, fate'[<<e, m>>] # "none"
        PROVE  m <= calls'[e]
    BY <1>2, <1>6, <1>7, <2>1 DEF IInv, RefInv, TypeOK, WorkerTypeOK, Ref
  <2>2. OutcomeIsProviders'
    BY <1>6, <1>17, FatesKeep DEF IInv, RefInv, OutcomeIsProviders, dbVars
  <2> QED BY <2>1, <2>2 DEF RefInv
<1>11. JobInv'
  <2>1. JobOK(job[w])'
    <3>1. job'[w].on \in Delivery /\ status'[d] # "none" /\ Verdict(d)' = "none"
      BY <1>2, <1>3, <1>4, <1>5, <1>6 DEF dbVars, Verdict
    <3>2. CASE out = NoOutcome /\ n < MaxAttempts
      BY <1>2, <1>4, <1>5, <1>6, <3>1, <3>2 DEF JobOK, IInv, TypeOK, WorkerTypeOK
    <3>3. CASE out = Failed("channel_error")
      BY <1>4, <1>5, <3>1, <3>3 DEF JobOK, Failed, NoOutcome
    <3>4. CASE ProviderAccepts(r) /\ out.to = "sent" /\ out.ref = r
      BY <1>2, <1>4, <1>5, <1>7, <3>1, <3>4 DEF JobOK, NoOutcome
    <3> QED BY <3>2, <3>3, <3>4
  <2>2. ASSUME NEW v \in Worker \ {w} PROVE JobOK(job[v])'
    <3>1. job[v].pc = "call" => calls'[job[v].on] = calls[job[v].on]
      BY <1>2, <1>6 DEF IInv, SingleSender, Sending, Sends, TypeOK, WorkerTypeOK
    <3> QED BY <1>5, <1>17, <3>1, OthersKeep
  <2> QED BY <2>1, <2>2 DEF JobInv
<1>12. HookInv'
  BY <1>6, <1>17, FatesKeep DEF IInv, HookInv, dbVars, apiVars
<1>13. SingleSender'
  <2>1. ASSUME NEW e \in Delivery, NEW v \in Worker, Sending(v, e)'
        PROVE  Sending(v, e)
    BY <1>3, <1>4, <1>5, <2>1 DEF Sending, Sends
  <2> QED BY <1>6, <2>1 DEF IInv, SingleSender, dbVars
<1>14. AttemptsBounded'
  BY <1>2, <1>6 DEF IInv, AttemptsBounded, TypeOK, WorkerTypeOK
<1>15. ValidationDecides'
  BY <1>2, <1>3, <1>6 DEF IInv, ValidationDecides, TypeOK, WorkerTypeOK, Verdict, dbVars
<1> QED BY <1>8, <1>9, <1>10, <1>11, <1>12, <1>13, <1>14, <1>15 DEF IInv
\* The four ways a call to the provider can end (resilience.py:40-52).
LEMMA ProviderCallStep ==
    ASSUME IInv, NEW w \in Worker, UNCHANGED apiVars,
           CallAccepted(w) \/ CallTimedOut(w) \/ CallTransient(w) \/ CallRejected(w)
    PROVE  IInv'
<1> DEFINE r == <<job[w].on, job[w].count + 1>>
           sent == [to |-> "sent", ref |-> r, why |-> "none"]
<1>1. job[w].pc = "call"
  BY DEF CallAccepted, CallTimedOut, CallTransient, CallRejected
<1>2. job[w].on \in Delivery /\ job[w].count \in Nat /\ job[w].count < MaxAttempts
  BY <1>1 DEF IInv, TypeOK, WorkerTypeOK, JobInv, JobOK, Job
<1>3. r \in Ref
  <2>1. job[w].count + 1 \in 1 .. MaxAttempts
    BY <1>2, StoreAssumption
  <2> QED BY <1>2, <2>1 DEF Ref
<1>4. sent \in Outcome /\ Failed("channel_error") \in Outcome /\ NoOutcome \in Outcome
  BY <1>3 DEF Failed, NoOutcome, Outcome, Status, Reason
<1>5. \/ Retried(w) = NoOutcome /\ job[w].count + 1 < MaxAttempts
      \/ Retried(w) = Failed("channel_error")
  BY DEF Retried
<1>6. CASE CallAccepted(w)
  <2>1. ProviderAccepts(r) /\ AfterCall(w, sent)
    BY <1>6 DEF CallAccepted
  <2> QED BY <1>1, <1>4, <2>1, CallStep
<1>7. CASE CallTimedOut(w)
  BY <1>1, <1>4, <1>5, <1>7, CallStep DEF CallTimedOut
<1>8. CASE CallTransient(w)
  BY <1>1, <1>4, <1>5, <1>8, CallStep DEF CallTransient
<1>9. CASE CallRejected(w)
  BY <1>1, <1>4, <1>9, CallStep DEF CallRejected
<1> QED BY <1>6, <1>7, <1>8, <1>9

-----------------------------------------------------------------------------
(* Writes of a delivery row *)

\* An update of a row and its transition have the types of the tables.
LEMMA WriteTypes ==
    ASSUME StoreTypeOK, NEW d \in Delivery, NEW from \in Status, NEW to \in Status,
           Write(d, from, to)
    PROVE  /\ status' = [status EXCEPT ![d] = to]
           /\ status' \in [Delivery -> Status]
           /\ history' \in [Delivery -> Seq(Status \X Status)]
<1>1. <<from, to>> \in Status \X Status /\ history[d] \in Seq(Status \X Status)
  BY DEF StoreTypeOK
<1>2. Append(history[d], <<from, to>>) \in Seq(Status \X Status)
  BY <1>1
<1> QED BY <1>2 DEF Write, StoreTypeOK

\* One recipient is saved as queued (sending.py:71-84).
LEMMA SaveDeliveryStep ==
    ASSUME IInv, NEW k \in Dispatch, SaveDelivery(k)
    PROVE  IInv'
<1>1. PICK d \in Unsaved(k) : CreateQueued(d)
  BY DEF SaveDelivery
<1>2. d \in Delivery /\ status[d] = "none"
  BY DEF Unsaved
<1>3. UNCHANGED <<dispatched, ref, reason, keys, workerVars, hook, repeated>>
  BY <1>1 DEF SaveDelivery, CreateQueued
<1>4. /\ status' = [status EXCEPT ![d] = "queued"]
      /\ status' \in [Delivery -> Status]
      /\ history' \in [Delivery -> Seq(Status \X Status)]
  BY <1>1, <1>2, WriteTypes DEF CreateQueued, IInv, TypeOK, Status
<1>5. api' \in [Dispatch -> {"idle", "saving", "enqueue", "done", "aborted"}]
  BY DEF IInv, TypeOK, SaveDelivery
<1>6. d \notin keys /\ ref[d] = NoRef /\ calls[d] = 0
  BY <1>2 DEF IInv, KeyInv
<1>7. TypeOK'
  BY <1>3, <1>4, <1>5 DEF IInv, TypeOK, StoreTypeOK, WorkerTypeOK, workerVars, queueVars,
                          providerVars
<1>8. UNCHANGED <<job, fate, calls>>
  BY <1>3 DEF workerVars, providerVars
<1>9. KeyInv'
  BY <1>2, <1>3, <1>4, <1>6, <1>8 DEF IInv, KeyInv, TypeOK, StoreTypeOK, Verdict
<1>10. RefInv'
  BY <1>2, <1>3, <1>4, <1>6, <1>8 DEF IInv, RefInv, OutcomeIsProviders, TypeOK, StoreTypeOK
<1>11. JobInv'
  <2>1. Kept
    BY <1>2, <1>3, <1>4, <1>8 DEF Kept, IInv, TypeOK, StoreTypeOK
  <2> QED BY <1>8, <2>1, OthersKeep DEF JobInv
<1>12. HookInv'
  BY <1>3, <1>8 DEF IInv, HookInv
<1>13. SingleSender'
  BY <1>2, <1>3, <1>4, <1>8 DEF IInv, SingleSender, Sending, Sends, TypeOK, StoreTypeOK
<1>14. AttemptsBounded'
  BY <1>8 DEF IInv, AttemptsBounded
<1>15. ValidationDecides'
  BY <1>2, <1>3, <1>4, <1>6, <1>8 DEF IInv, ValidationDecides, TypeOK, StoreTypeOK, Verdict
<1> QED BY <1>7, <1>9, <1>10, <1>11, <1>12, <1>13, <1>14, <1>15 DEF IInv
\* The outcome the provider decided for the send whose reference the row keeps
\* is written, by the poll that ends or by the webhook request that ends.
LEMMA ConfirmedStep ==
    ASSUME IInv, TypeOK', UNCHANGED <<fate, calls>>,
           NEW d \in Delivery, d \in keys, ref[d] # NoRef,
           NEW why, WriteConfirmed(d, fate[ref[d]], why),
           \A v \in Worker : job'[v] = job[v] \/ job'[v] = Idle,
           \A h \in Handler : hook'[h] = hook[h] \/ hook'[h] = NoHook
    PROVE  IInv'
<1>1. fate[ref[d]] \in {"delivered", "failed"} /\ status[d] \in {"sent", fate[ref[d]]}
  BY DEF IInv, TypeOK, StoreTypeOK, WorkerTypeOK, RefInv, OutcomeIsProviders
<1>2. Verdict(d) = "none" /\ status[d] # "queued"
  BY <1>1 DEF IInv, KeyInv
<1>3. UNCHANGED <<ref, keys>> /\ status' = [status EXCEPT ![d] = fate[ref[d]]]
  BY DEF WriteConfirmed, Write
<1>4. \A e \in Delivery \ {d} : status'[e] = status[e] /\ reason'[e] = reason[e]
  BY <1>3 DEF WriteConfirmed, IInv, TypeOK, StoreTypeOK
<1>5. status'[d] = fate[ref[d]]
  BY <1>3 DEF IInv, TypeOK, StoreTypeOK
<1>6. Kept
  BY <1>1, <1>3, <1>4, <1>5 DEF Kept
<1>7. KeyInv'
  BY <1>1, <1>2, <1>3, <1>4, <1>5 DEF IInv, KeyInv, Verdict
<1>8. RefInv'
  BY <1>1, <1>3, <1>4, <1>5 DEF IInv, RefInv, OutcomeIsProviders
<1>9. JobInv'
  <2>1. ASSUME NEW v \in Worker, job'[v] = job[v] PROVE JobOK(job[v])'
    BY <1>6, <2>1, OthersKeep
  <2>2. ASSUME NEW v \in Worker, job'[v] = Idle PROVE JobOK(job[v])'
    BY <2>2, IdleIsJob DEF JobOK
  <2> QED BY <2>1, <2>2 DEF JobInv
<1>10. HookInv'
  BY <1>3 DEF IInv, HookInv
<1>11. SingleSender'
  <2>1. ASSUME NEW e \in Delivery, NEW v \in Worker, Sending(v, e)'
        PROVE  Sending(v, e) /\ e # d
    <3>1. job'[v] = job[v]
      BY <2>1, IdleIsJob DEF Sending, Sends
    <3>2. Sending(v, e)
      BY <2>1, <3>1 DEF Sending, Sends
    <3> QED BY <1>2, <3>2 DEF IInv, SingleSender
  <2> QED BY <1>3, <1>4, <2>1 DEF IInv, SingleSender
<1>12. AttemptsBounded'
  BY DEF IInv, AttemptsBounded
<1>13. ValidationDecides'
  BY <1>2, <1>3, <1>4 DEF IInv, ValidationDecides, Verdict
<1> QED BY <1>7, <1>8, <1>9, <1>10, <1>11, <1>12, <1>13 DEF IInv

\* A confirmation has the types of the tables.
LEMMA ConfirmTypes ==
    ASSUME StoreTypeOK, NEW d \in Delivery, NEW outcome \in Status, NEW why \in Reason,
           WriteConfirmed(d, outcome, why)
    PROVE  StoreTypeOK'
<1>1. Write(d, "sent", outcome) /\ UNCHANGED <<dispatched, ref, keys>>
  BY DEF WriteConfirmed
<1>2. reason' \in [Delivery -> Reason]
  BY DEF WriteConfirmed, StoreTypeOK
<1> QED BY <1>1, <1>2, WriteTypes DEF StoreTypeOK, Status

\* A poll confirms its delivery (sync_repo.py:128-145).
LEMMA ConfirmWriteStep ==
    ASSUME IInv, NEW w \in Worker, ConfirmWrite(w), UNCHANGED apiVars
    PROVE  IInv'
<1> DEFINE d == job[w].on
<1>1. job[w] \in Job /\ job[w].out \in Outcome
  BY DEF IInv, TypeOK, WorkerTypeOK, Job
<1>2. /\ d \in Delivery /\ d \in keys /\ ref[d] # NoRef
      /\ job[w].out.to = fate[ref[d]]
  BY DEF IInv, JobInv, JobOK, ConfirmWrite
<1>3. WriteConfirmed(d, fate[ref[d]], job[w].out.why)
  BY <1>2 DEF ConfirmWrite
<1>4. job[w].out.to \in Status /\ job[w].out.why \in Reason
  BY <1>1 DEF Outcome
<1>5. /\ job' \in [Worker -> Job]
      /\ \A v \in Worker : job'[v] = job[v] \/ job'[v] = Idle
  BY IdleIsJob, Continued DEF ConfirmWrite, Finish, IInv, TypeOK, WorkerTypeOK
<1>6. UNCHANGED <<queueVars, redelivered, providerVars, faults, apiVars>>
  BY DEF ConfirmWrite
<1>7. StoreTypeOK'
  BY <1>2, <1>3, <1>4, ConfirmTypes DEF IInv, TypeOK
<1>8. TypeOK'
  BY <1>5, <1>6, <1>7 DEF IInv, TypeOK, WorkerTypeOK, queueVars, providerVars, apiVars
<1> QED BY <1>2, <1>3, <1>5, <1>6, <1>8, ConfirmedStep DEF providerVars, apiVars

\* A webhook request confirms its delivery (async_repo.py:504-520).
LEMMA ApplyCallbackStep ==
    ASSUME IInv, NEW h \in Handler, ApplyCallback(h)
    PROVE  IInv'
<1> DEFINE d == hook[h].on
<1>1. /\ d \in Delivery /\ d \in keys /\ ref[d] # NoRef
      /\ hook[h].to = fate[ref[d]]
  BY DEF IInv, HookInv, ApplyCallback
<1>2. WriteConfirmed(d, fate[ref[d]], "none")
  BY <1>1 DEF ApplyCallback
<1>3. hook[h].to \in Status
  BY DEF IInv, TypeOK
<1>4. /\ hook' \in [Handler -> [on : Delivery \cup {NoDelivery}, to : Status]]
      /\ \A g \in Handler : hook'[g] = hook[g] \/ hook'[g] = NoHook
  <2>1. NoHook \in [on : Delivery \cup {NoDelivery}, to : Status]
    BY DEF NoHook, Status
  <2> QED BY <2>1 DEF ApplyCallback, IInv, TypeOK
<1>5. UNCHANGED <<workerVars, api, repeated>>
  BY DEF ApplyCallback
<1>6. StoreTypeOK'
  BY <1>1, <1>2, <1>3, ConfirmTypes DEF IInv, TypeOK, Reason
<1>7. TypeOK'
  BY <1>4, <1>5, <1>6 DEF IInv, TypeOK, WorkerTypeOK, workerVars, queueVars, providerVars
<1>8. UNCHANGED <<fate, calls, job>>
  BY <1>5 DEF workerVars, providerVars
<1> QED BY <1>1, <1>2, <1>4, <1>7, <1>8, ConfirmedStep
\* The end of a delivery attempt is written; n is what the thread does next.
LEMMA RecordedStep ==
    ASSUME IInv, TypeOK', NEW w \in Worker, job[w].pc = "write",
           UNCHANGED <<fate, calls, hook>>,
           NEW n \in Job, Continue(w, n), n.pc \in {"idle", "enqueue"},
           n.pc = "enqueue" => n.on = job[w].on,
           \/ /\ job[w].out.to = "sent"
              /\ WriteSent(job[w].on, job[w].seen, job[w].out.ref)
           \/ /\ job[w].out.to # "sent"
              /\ WriteFailed(job[w].on, job[w].seen, job[w].out.why)
    PROVE  IInv'
<1> DEFINE d == job[w].on
           out == job[w].out
<1>1. job[w] \in Job /\ JobOK(job[w])
  BY DEF IInv, TypeOK, WorkerTypeOK, JobInv
<1>2. d \in Delivery /\ status[d] # "none"
  BY <1>1 DEF JobOK
<1>3. /\ job'[w] = n
      /\ \A v \in Worker \ {w} : job'[v] = job[v]
  BY Continued DEF IInv, TypeOK, WorkerTypeOK
<1>4. /\ keys' = keys
      /\ \A e \in Delivery \ {d} :
            status'[e] = status[e] /\ reason'[e] = reason[e] /\ ref'[e] = ref[e]
      /\ status'[d] = "sent" \/ status'[d] = "failed"
  BY <1>2 DEF WriteSent, WriteFailed, Write, IInv, TypeOK, StoreTypeOK
<1>5. ref[d] = NoRef
  <2>1. CASE Verdict(d) # "none"
    BY <1>2, <2>1 DEF IInv, KeyInv
  <2>2. CASE Verdict(d) = "none"
    <3>1. status[d] = "queued"
      BY <1>2, <2>2 DEF IInv, SingleSender, Sending, Sends
    <3>2. ref[d] # NoRef => fate[ref[d]] \in {"none", "delivered", "failed"}
      BY <1>2 DEF IInv, TypeOK, StoreTypeOK, WorkerTypeOK
    <3> QED BY <1>2, <3>1, <3>2 DEF IInv, RefInv, OutcomeIsProviders
  <2> QED BY <2>1, <2>2
<1>6. Verdict(d) = "none" => d \in keys /\ \A v \in Worker \ {w} : ~Sending(v, d)
  BY <1>2 DEF IInv, SingleSender, Sending, Sends
<1>7. Verdict(d) # "none" => d \notin keys /\ \A v \in Worker : ~Sending(v, d)
  BY <1>2 DEF IInv, KeyInv, SingleSender
<1>8. \/ /\ Verdict(d) = "none" /\ status'[d] = "sent"
         /\ ref'[d] \in Ref /\ ref'[d][1] = d /\ fate[ref'[d]] # "none"
      \/ /\ status'[d] = "failed" /\ ref'[d] = NoRef
         /\ reason'[d] = IF Verdict(d) = "none" THEN "channel_error" ELSE Verdict(d)
  <2>1. CASE Verdict(d) # "none"
    <3>1. out = Failed(Verdict(d))
      BY <1>1, <2>1 DEF JobOK
    <3>2. WriteFailed(d, job[w].seen, Verdict(d))
      BY <3>1 DEF Failed
    <3> QED BY <1>2, <1>5, <2>1, <3>2 DEF WriteFailed, Write, IInv, TypeOK, StoreTypeOK
  <2>2. CASE out = Failed("channel_error") /\ Verdict(d) = "none"
    <3>1. WriteFailed(d, job[w].seen, "channel_error")
      BY <2>2 DEF Failed
    <3> QED BY <1>2, <1>5, <2>2, <3>1 DEF WriteFailed, Write, IInv, TypeOK, StoreTypeOK
  <2>3. CASE /\ Verdict(d) = "none" /\ out.to = "sent"
             /\ out.ref \in Ref /\ out.ref[1] = d /\ fate[out.ref] # "none"
    <3>1. WriteSent(d, job[w].seen, out.ref)
      BY <2>3
    <3> QED BY <1>2, <2>3, <3>1 DEF WriteSent, Write, IInv, TypeOK, StoreTypeOK
  <2> QED BY <1>1, <2>1, <2>2, <2>3 DEF JobOK
<1>9. Kept
  BY <1>2, <1>4, <1>5 DEF Kept
<1>10. KeyInv'
  BY <1>2, <1>4, <1>6, <1>7, <1>8 DEF IInv, KeyInv, Verdict
<1>11. RefInv'
  <2>1. OutcomeIsProviders'
    BY <1>2, <1>4, <1>8, StoreAssumption DEF IInv, RefInv, OutcomeIsProviders, Ref
  <2> QED BY <2>1 DEF IInv, RefInv
<1>12. JobInv'
  <2>1. JobOK(job[w])'
    BY <1>2, <1>3, <1>4 DEF JobOK
  <2>2. ASSUME NEW v \in Worker \ {w} PROVE JobOK(job[v])'
    BY <1>3, <1>9, OthersKeep
  <2> QED BY <2>1, <2>2 DEF JobInv
<1>13. HookInv'
  BY <1>4, <1>9, FatesKeep DEF IInv, HookInv
<1>14. SingleSender'
  <2>1. ASSUME NEW e \in Delivery, NEW v \in Worker, Sending(v, e)'
        PROVE  Sending(v, e) /\ e # d
    <3>1. v # w
      BY <1>3, <2>1 DEF Sending, Sends
    <3>2. Sending(v, e)
      BY <1>3, <2>1, <3>1 DEF Sending, Sends
    <3> QED BY <1>6, <1>7, <3>1, <3>2
  <2> QED BY <1>4, <2>1 DEF IInv, SingleSender
<1>15. AttemptsBounded'
  BY DEF IInv, AttemptsBounded
<1>16. ValidationDecides'
  BY <1>2, <1>4, <1>7, <1>8, StoreAssumption DEF IInv, ValidationDecides, Verdict, Ref
<1> QED BY <1>10, <1>11, <1>12, <1>13, <1>14, <1>15, <1>16 DEF IInv

\* record_sent and record_failed write (sync_repo.py:91-126).
LEMMA RecordWriteStep ==
    ASSUME IInv, NEW w \in Worker, RecordWrite(w), UNCHANGED apiVars
    PROVE  IInv'
<1> DEFINE d == job[w].on
           out == job[w].out
           e == [Idle EXCEPT !.pc = "enqueue", !.on = d]
<1>1. job[w] \in Job /\ out \in Outcome /\ job[w].seen \in Status /\ job[w].pc = "write"
  BY DEF IInv, TypeOK, WorkerTypeOK, RecordWrite, Job
<1>2. d \in Delivery
  BY DEF IInv, JobInv, JobOK, RecordWrite
<1>3. /\ \/ out.to = "sent" /\ WriteSent(d, job[w].seen, out.ref)
         \/ out.to # "sent" /\ WriteFailed(d, job[w].seen, out.why)
      /\ UNCHANGED <<queueVars, redelivered, providerVars, faults, apiVars>>
      /\ Continue(w, e) \/ Finish(w)
  BY DEF RecordWrite
<1>4. out.ref \in Ref \cup {NoRef} /\ out.why \in Reason
  BY <1>1 DEF Outcome
<1>5. StoreTypeOK'
  <2>1. CASE WriteSent(d, job[w].seen, out.ref)
    <3>1. ref' \in [Delivery -> Ref \cup {NoRef}]
      BY <1>4, <2>1 DEF WriteSent, IInv, TypeOK, StoreTypeOK
    <3> QED BY <1>1, <1>2, <2>1, <3>1, WriteTypes DEF WriteSent, IInv, TypeOK, StoreTypeOK, Status
  <2>2. CASE WriteFailed(d, job[w].seen, out.why)
    <3>1. reason' \in [Delivery -> Reason]
      BY <1>4, <2>2 DEF WriteFailed, IInv, TypeOK, StoreTypeOK
    <3> QED BY <1>1, <1>2, <2>2, <3>1, WriteTypes DEF WriteFailed, IInv, TypeOK, StoreTypeOK, Status
  <2> QED BY <1>3, <2>1, <2>2
<1>6. e \in Job /\ e.pc = "enqueue" /\ e.on = d
  BY <1>2 DEF Job, Pc, Idle, NoOutcome, Outcome, Status, Reason
<1>7. TypeOK'
  <2>1. job' \in [Worker -> Job]
    BY <1>3, <1>6, IdleIsJob, Continued DEF Finish, IInv, TypeOK, WorkerTypeOK
  <2> QED BY <1>3, <1>5, <2>1 DEF IInv, TypeOK, WorkerTypeOK, queueVars, providerVars, apiVars
<1>8. UNCHANGED <<fate, calls, hook>>
  BY <1>3 DEF providerVars, apiVars
<1>9. CASE Continue(w, e)
  BY <1>1, <1>3, <1>6, <1>7, <1>8, <1>9, RecordedStep
<1>10. CASE Finish(w)
  BY <1>1, <1>3, <1>7, <1>8, <1>10, IdleIsJob, RecordedStep DEF Finish
<1> QED BY <1>3, <1>9, <1>10
-----------------------------------------------------------------------------
(* The invariant *)

\* An empty database satisfies the invariant.
LEMMA InitInvariant == Init => IInv
<1> SUFFICES ASSUME Init PROVE IInv
  OBVIOUS
<1> USE DEF Init, StoreInit, WorkerInit
<1>1. TypeOK
  <2>1. StoreTypeOK
    BY DEF StoreTypeOK, Status, Reason
  <2>2. WorkerTypeOK
    BY IdleIsJob DEF WorkerTypeOK
  <2>3. NoHook \in [on : Delivery \cup {NoDelivery}, to : Status]
    BY DEF NoHook, Status
  <2> QED BY <2>1, <2>2, <2>3 DEF TypeOK
<1>2. KeyInv
  BY DEF KeyInv
<1>3. RefInv
  BY StoreAssumption DEF RefInv, OutcomeIsProviders, Ref
<1>4. JobInv
  BY IdleIsJob DEF JobInv, JobOK
<1>5. HookInv
  BY DEF HookInv
<1>6. SingleSender
  BY IdleIsJob DEF SingleSender, Sending, Sends
<1>7. AttemptsBounded
  BY StoreAssumption DEF AttemptsBounded
<1>8. ValidationDecides
  BY DEF ValidationDecides
<1> QED BY <1>1, <1>2, <1>3, <1>4, <1>5, <1>6, <1>7, <1>8 DEF IInv

\* A step that changes nothing keeps the invariant.
LEMMA StutterInvariant ==
    ASSUME IInv, UNCHANGED vars
    PROVE  IInv'
<1>1. UNCHANGED <<bookVars, job, hook>>
  BY DEF vars, bookVars, dbVars, workerVars, providerVars, apiVars
<1>2. TypeOK'
  BY DEF IInv, TypeOK, StoreTypeOK, WorkerTypeOK, vars, dbVars, workerVars, queueVars,
         providerVars, apiVars
<1> QED BY <1>1, <1>2, HooksRest, TasksRest

\* Every step of the workers keeps the invariant.
LEMMA WorkerInvariant ==
    ASSUME IInv, WorkerStep
    PROVE  IInv'
<1>1. UNCHANGED apiVars
  BY DEF WorkerStep
<1>2. CASE Redeliver
  BY <1>1, <1>2, RedeliverStep
<1>3. ASSUME NEW w \in Worker, Begin(w)
      PROVE  IInv'
  BY <1>1, <1>3, BeginFanoutStep, BeginDeliverStep, BeginPollStep DEF Begin
<1>4. ASSUME NEW w \in Worker, TaskStep(w)
      PROVE  IInv'
  <2>1. CASE FanoutPublish(w) \/ Claim(w)
    BY <1>1, <2>1, FanoutPublishStep, ClaimStep
  <2>2. CASE CallAccepted(w) \/ CallTimedOut(w) \/ CallTransient(w) \/ CallRejected(w)
    BY <1>1, <2>2, ProviderCallStep
  <2>3. CASE CallRefused(w) \/ RecordRead(w) \/ RecordWrite(w) \/ EnqueuePoll(w)
    BY <1>1, <2>3, CallRefusedStep, RecordReadStep, RecordWriteStep, EnqueuePollStep
  <2>4. CASE PollAnswered(w) \/ PollPending(w) \/ PollError(w) \/ ConfirmWrite(w)
    BY <1>1, <2>4, PollAnsweredStep, PollPendingStep, PollErrorStep, ConfirmWriteStep
  <2> QED BY <1>4, <2>1, <2>2, <2>3, <2>4 DEF TaskStep
<1>5. ASSUME NEW w \in Worker, Crash(w)
      PROVE  IInv'
  BY <1>1, <1>5, CrashStep
<1> QED BY <1>2, <1>3, <1>4, <1>5 DEF WorkerStep, WorkerNext

\* Every step of the system keeps the invariant.
LEMMA NextInvariant ==
    ASSUME IInv, [Next]_vars
    PROVE  IInv'
<1>1. CASE WorkerStep
  BY <1>1, WorkerInvariant
<1>2. ASSUME NEW k \in Dispatch, SendStep(k) \/ AbortSend(k)
      PROVE  IInv'
  BY <1>2, StartSendStep, SaveDeliveryStep, EnqueueFanoutStep, AbortSendStep DEF SendStep
<1>3. ASSUME NEW h \in Handler, NEW r \in Ref, ReceiveCallback(h, r)
      PROVE  IInv'
  BY <1>3, ReceiveCallbackStep
<1>4. ASSUME NEW h \in Handler, ApplyCallback(h) \/ CrashHook(h)
      PROVE  IInv'
  BY <1>4, ApplyCallbackStep, CrashHookStep
<1>5. ASSUME NEW r \in Ref, LoseCallback(r) \/ RepeatCallback(r)
      PROVE  IInv'
  BY <1>5, LoseCallbackStep, RepeatCallbackStep
<1>6. CASE UNCHANGED vars
  BY <1>6, StutterInvariant
<1> QED BY <1>1, <1>2, <1>3, <1>4, <1>5, <1>6 DEF Next

\* IInv is an invariant: whatever is redelivered, repeated, lost or cut short, and
\* for every number of recipients, threads, requests and attempts.
THEOREM Invariance == Spec => []IInv
<1>1. Init => IInv
  BY InitInvariant
<1>2. IInv /\ [Next]_vars => IInv'
  BY NextInvariant
<1> QED BY <1>1, <1>2, PTL DEF Spec

\* Every variable keeps its type; in particular every status, reference and reason
\* a task writes from its own locals is one the tables admit.
THEOREM TypesCorrect == Spec => []TypeOK
<1>1. IInv => TypeOK
  BY DEF IInv
<1> QED BY <1>1, Invariance, PTL

\* At most one task sends a delivery, and only while it is queued and claimed
\* (DeliveryService.deliver_one, IdempotentSender.guard).
THEOREM OneSenderAtATime == Spec => []SingleSender
<1>1. IInv => SingleSender
  BY DEF IInv
<1> QED BY <1>1, Invariance, PTL

\* The provider is called at most MaxAttempts times for a delivery, over all the
\* tasks that ever run for it (ResiliencePolicy.run behind the claim).
THEOREM BudgetPerDelivery == Spec => []AttemptsBounded
<1>1. IInv => AttemptsBounded
  BY DEF IInv
<1> QED BY <1>1, Invariance, PTL

\* FR-022: a refused delivery reaches neither the key nor the provider, and fails
\* with the reason of its refusal (deliver_one).
THEOREM RefusedNeverSent == Spec => []ValidationDecides
<1>1. IInv => ValidationDecides
  BY DEF IInv
<1> QED BY <1>1, Invariance, PTL

\* A recorded outcome is the one the provider decided for the reference the row
\* keeps (confirm_by_provider_ref, poll_once).
THEOREM RecordedIsProviders == Spec => []OutcomeIsProviders
<1>1. IInv => OutcomeIsProviders
  BY DEF IInv, RefInv
<1> QED BY <1>1, Invariance, PTL

-----------------------------------------------------------------------------
(***************************************************************************)
(* The rows of the deliveries implement Lifecycle, and the provider is     *)
(* called only for a row that is queued and claimed.                       *)
(***************************************************************************)

\* A delivery that is confirmed was sent, or already has that very outcome.
LEMMA ConfirmMoves ==
    ASSUME IInv, OrderInv, NEW d \in Delivery, d \in keys, ref[d] # NoRef,
           NEW why, WriteConfirmed(d, fate[ref[d]], why)
    PROVE  Life!Next
<1>1. fate[ref[d]] \in {"delivered", "failed"} /\ status[d] \in {"sent", fate[ref[d]]}
  BY DEF IInv, TypeOK, StoreTypeOK, WorkerTypeOK, RefInv, OutcomeIsProviders
<1>2. /\ status' = [status EXCEPT ![d] = fate[ref[d]]]
      /\ Life!Noted(d, "sent", fate[ref[d]])
  BY DEF WriteConfirmed, Write, Life!Noted
<1>3. CASE status[d] = "sent"
  <2>1. Life!Whole(DispatchOf[d])
    BY DEF OrderInv, QueueWhole, WholeSends
  <2>2. Life!Move(d, fate[ref[d]])
    BY <1>1, <1>2, <1>3, <2>1 DEF Life!Move, Life!AllowedTransitions
  <2> QED BY <1>1, <2>2 DEF Life!Next, Life!DeliveryStatus
<1>4. CASE status[d] = fate[ref[d]]
  <2>1. UNCHANGED status
    BY <1>2, <1>4 DEF IInv, TypeOK, StoreTypeOK
  <2>2. Life!Repeat(d, "sent")
    BY <1>1, <1>2, <1>4, <2>1 DEF Life!Repeat, Life!Terminal
  <2> QED BY <2>2 DEF Life!Next, Life!DeliveryStatus
<1> QED BY <1>1, <1>3, <1>4

\* What a task records moves a queued delivery, or fails a failed one again.
LEMMA RecordMoves ==
    ASSUME IInv, OrderInv, NEW w \in Worker, RecordWrite(w)
    PROVE  Life!Next
<1> DEFINE d == job[w].on
           to == IF job[w].out.to = "sent" THEN "sent" ELSE "failed"
<1>1. /\ d \in Delivery /\ status[d] # "none" /\ job[w].pc = "write" /\ JobOK(job[w])
      /\ job[w].seen \in Life!DeliveryStatus
      /\ status[d] = "queued" => job[w].seen = "queued"
      /\ Life!Whole(DispatchOf[d])
  BY DEF RecordWrite, IInv, JobInv, JobOK, OrderInv, TaskWhole, WholeSends, SeenInv
<1>2. status' = [status EXCEPT ![d] = to] /\ Life!Noted(d, job[w].seen, to)
  BY DEF RecordWrite, WriteSent, WriteFailed, Write, Life!Noted
<1>3. CASE status[d] = "queued"
  <2>1. Life!Move(d, to)
    BY <1>1, <1>2, <1>3 DEF Life!Move, Life!AllowedTransitions
  <2> QED BY <1>1, <2>1 DEF Life!Next, Life!DeliveryStatus
<1>4. CASE status[d] # "queued"
  <2>1. Verdict(d) # "none"
    BY <1>1, <1>4 DEF IInv, SingleSender, Sending, Sends
  <2>2. to = "failed" /\ status[d] = "failed"
    BY <1>1, <1>4, <2>1 DEF IInv, ValidationDecides, JobOK, Failed
  <2>3. UNCHANGED status
    BY <1>2, <2>2 DEF IInv, TypeOK, StoreTypeOK
  <2>4. Life!Repeat(d, job[w].seen)
    BY <1>2, <2>2, <2>3 DEF Life!Repeat, Life!Terminal
  <2> QED BY <1>1, <2>4 DEF Life!Next
<1> QED BY <1>3, <1>4

\* Every step of the pipeline is a step of the lifecycle, or leaves it alone.
LEMMA StepsMove ==
    ASSUME IInv, OrderInv, [Next]_vars
    PROVE  [Life!Next]_(Life!lifeVars)
<1>1. ASSUME NEW w \in Worker, RecordWrite(w)
      PROVE  Life!Next
  BY <1>1, RecordMoves
<1>2. ASSUME NEW w \in Worker, ConfirmWrite(w)
      PROVE  Life!Next
  <2>1. /\ job[w].on \in Delivery /\ ref[job[w].on] # NoRef /\ job[w].on \in keys
        /\ job[w].out.to = fate[ref[job[w].on]]
    BY <1>2 DEF ConfirmWrite, IInv, JobInv, JobOK
  <2> QED BY <1>2, <2>1, ConfirmMoves DEF ConfirmWrite
<1>3. ASSUME NEW h \in Handler, ApplyCallback(h)
      PROVE  Life!Next
  <2>1. /\ hook[h].on \in Delivery /\ ref[hook[h].on] # NoRef /\ hook[h].on \in keys
        /\ hook[h].to = fate[ref[hook[h].on]]
    BY <1>3 DEF ApplyCallback, IInv, HookInv
  <2> QED BY <1>3, <2>1, ConfirmMoves DEF ApplyCallback
<1>4. ASSUME NEW k \in Dispatch, SaveDelivery(k)
      PROVE  Life!Next
  <2>1. PICK d \in Unsaved(k) : CreateQueued(d)
    BY <1>4 DEF SaveDelivery
  <2>2. Life!Create(d) /\ d \in Delivery
    BY <2>1 DEF Unsaved, CreateQueued, Write, Life!Create, Life!Noted
  <2> QED BY <2>2 DEF Life!Next
<1>5. ASSUME NEW w \in Worker, Begin(w)
      PROVE  UNCHANGED dbVars
  BY <1>5 DEF Begin, BeginFanout, BeginDeliver, BeginPoll
<1>6. ASSUME NEW w \in Worker,
             FanoutPublish(w) \/ Claim(w) \/ CallRefused(w) \/ RecordRead(w) \/ EnqueuePoll(w)
      PROVE  UNCHANGED <<status, history>>
  BY <1>6 DEF FanoutPublish, Claim, ClaimKey, CallRefused, RecordRead, EnqueuePoll, dbVars
<1>7. ASSUME NEW w \in Worker,
             CallAccepted(w) \/ CallTimedOut(w) \/ CallTransient(w) \/ CallRejected(w)
      PROVE  UNCHANGED dbVars
  BY <1>7 DEF CallAccepted, CallTimedOut, CallTransient, CallRejected, AfterCall
<1>8. ASSUME NEW w \in Worker,
             PollAnswered(w) \/ PollPending(w) \/ PollError(w) \/ Crash(w)
      PROVE  UNCHANGED dbVars
  BY <1>8 DEF PollAnswered, PollPending, PollError, Crash
<1>9. CASE Redeliver
  BY <1>9 DEF Redeliver, dbVars, Life!lifeVars
<1>10. ASSUME NEW k \in Dispatch, StartSend(k) \/ EnqueueFanout(k) \/ AbortSend(k)
       PROVE  UNCHANGED <<status, history>>
  BY <1>10 DEF StartSend, CreateDispatch, EnqueueFanout, AbortSend, dbVars
<1>11. ASSUME NEW h \in Handler, CrashHook(h) \/ \E r \in Ref : ReceiveCallback(h, r)
       PROVE  UNCHANGED dbVars
  BY <1>11 DEF CrashHook, ReceiveCallback
<1>12. ASSUME NEW r \in Ref, LoseCallback(r) \/ RepeatCallback(r)
       PROVE  UNCHANGED dbVars
  BY <1>12 DEF LoseCallback, RepeatCallback
<1>13. CASE UNCHANGED vars
  BY <1>13 DEF vars, dbVars, Life!lifeVars
<1> QED
  BY <1>1, <1>2, <1>3, <1>4, <1>5, <1>6, <1>7, <1>8, <1>9, <1>10, <1>11, <1>12, <1>13
     DEF Next, WorkerStep, WorkerNext, TaskStep, SendStep, dbVars, Life!lifeVars

-----------------------------------------------------------------------------
(* The order of things is kept *)

\* What a step of the rows leaves whole, and does not queue again.
RowsStay == /\ WholeSends \subseteq WholeSends'
        /\ \A d \in Delivery : status[d] # "none" /\ status'[d] = "queued" => status[d] = "queued"

LEMMA RowsKept ==
    ASSUME IInv, OrderInv, [Next]_vars
    PROVE  RowsStay
<1>1. status \in [Delivery -> Status]
  BY DEF IInv, TypeOK, StoreTypeOK
<1>2. CASE UNCHANGED Life!lifeVars
  BY <1>2 DEF RowsStay, WholeSends, Life!Whole, Life!lifeVars
<1>3. ASSUME NEW d \in Delivery, Life!Create(d) \/ \E to \in Life!DeliveryStatus : Life!Move(d, to)
      PROVE  RowsStay
  BY <1>1, <1>3 DEF RowsStay, WholeSends, Life!Whole, Life!Create, Life!Move, Life!AllowedTransitions, Life!DeliveryStatus
<1>4. ASSUME NEW d \in Delivery, NEW from, Life!Repeat(d, from)
      PROVE  RowsStay
  BY <1>4 DEF RowsStay, WholeSends, Life!Whole, Life!Repeat
<1> QED BY <1>2, <1>3, <1>4, StepsMove DEF Life!Next

\* A thread goes on with locals j about a delivery whose dispatch is whole.
LEMMA TaskOrder ==
    ASSUME IInv, TaskWhole, SeenInv, RowsStay, NEW w \in Worker, NEW j \in Job, Continue(w, j),
           j.on \in Delivery => DispatchOf[j.on] \in WholeSends,
           \A d \in j.todo : DispatchOf[d] \in WholeSends,
           j.pc = "write" => /\ j.seen \in Life!DeliveryStatus
                             /\ status'[j.on] = "queued" => j.seen = "queued"
    PROVE  TaskWhole' /\ SeenInv'
<1>1. /\ job'[w] = j
      /\ \A v \in Worker \ {w} : job'[v] = job[v]
  BY Continued DEF IInv, TypeOK, WorkerTypeOK
<1>2. job \in [Worker -> Job] /\ \A d \in Delivery : DispatchOf[d] \in Dispatch
  BY StoreAssumption DEF IInv, TypeOK, WorkerTypeOK
<1>3. TaskWhole'
  <2> SUFFICES ASSUME NEW v \in Worker
               PROVE  /\ job'[v].on \in Delivery => DispatchOf[job'[v].on] \in WholeSends'
                      /\ \A d \in job'[v].todo : DispatchOf[d] \in WholeSends'
    BY DEF TaskWhole
  <2>1. CASE v = w
    BY <1>1, <1>2, <2>1 DEF RowsStay, Job
  <2>2. CASE v # w
    BY <1>1, <1>2, <2>2 DEF RowsStay, TaskWhole, Job
  <2> QED BY <2>1, <2>2
<1>4. SeenInv'
  <2> SUFFICES ASSUME NEW v \in Worker, job'[v].pc = "write"
               PROVE  /\ job'[v].seen \in Life!DeliveryStatus
                      /\ status'[job'[v].on] = "queued" => job'[v].seen = "queued"
    BY DEF SeenInv
  <2>1. CASE v = w
    BY <1>1, <2>1
  <2>2. CASE v # w
    BY <1>1, <2>2 DEF RowsStay, SeenInv, IInv, JobInv, JobOK
  <2> QED BY <2>1, <2>2
<1> QED BY <1>3, <1>4

\* A thread that ends its task.
LEMMA EndOrder ==
    ASSUME IInv, TaskWhole, SeenInv, RowsStay, NEW w \in Worker, Finish(w)
    PROVE  TaskWhole' /\ SeenInv'
BY IdleIsJob, TaskOrder, WorkerAssumption DEF Finish, Idle

\* A step no thread takes part in.
LEMMA RestOrder ==
    ASSUME IInv, TaskWhole, SeenInv, RowsStay, UNCHANGED job
    PROVE  TaskWhole' /\ SeenInv'
<1>1. job \in [Worker -> Job] /\ \A d \in Delivery : DispatchOf[d] \in Dispatch
  BY StoreAssumption DEF IInv, TypeOK, WorkerTypeOK
<1>2. TaskWhole'
  BY <1>1 DEF TaskWhole, RowsStay, Job
<1>3. SeenInv'
  BY DEF SeenInv, RowsStay, IInv, JobInv, JobOK
<1> QED BY <1>2, <1>3

\* Messages, keys and requests that were there already.
LEMMA QueuesKept ==
    ASSUME QueueWhole, RowsStay, UNCHANGED <<api, queueVars, keys>>
    PROVE  QueueWhole'
BY StoreAssumption DEF QueueWhole, RowsStay, queueVars

\* Taking a message, and what the first SELECT makes of it.
LEMMA BeginOrder ==
    ASSUME IInv, OrderInv, RowsStay, NEW w \in Worker, Begin(w), UNCHANGED apiVars
    PROVE  OrderInv'
<1> USE StoreAssumption, WorkerAssumption DEF OrderInv
<1>1. TypeOK /\ TypeOK'
  <2>1. IInv'
    BY NextInvariant DEF Next, WorkerStep, WorkerNext
  <2> QED BY <2>1 DEF IInv
<1>2. ASSUME NEW k \in Dispatch, BeginFanout(w, k)
      PROVE  OrderInv'
  <2>1. QueueWhole'
    BY <1>1, <1>2 DEF QueueWhole, RowsStay, BeginFanout, dbVars, apiVars, TypeOK, WorkerTypeOK
  <2>2. k \in WholeSends
    BY <1>2 DEF QueueWhole, BeginFanout
  <2>3. CASE Finish(w)
    BY <2>1, <2>3, EndOrder
  <2>4. CASE Continue(w, [Idle EXCEPT !.pc = "fanout", !.todo = QueuedIds(k)])
    <3> DEFINE j == [Idle EXCEPT !.pc = "fanout", !.todo = QueuedIds(k)]
    <3>1. j \in Job /\ j.on = NoDelivery /\ j.pc = "fanout" /\ j.todo = QueuedIds(k)
      BY IdleIsJob DEF Job, Pc, Idle, QueuedIds
    <3>2. \A d \in j.todo : DispatchOf[d] \in WholeSends
      BY <2>2, <3>1 DEF QueuedIds
    <3> HIDE DEF j
    <3> QED BY <2>1, <2>4, <3>1, <3>2, TaskOrder DEF j
  <2> QED BY <1>2, <2>3, <2>4 DEF BeginFanout
<1>3. ASSUME NEW d \in Delivery, BeginDeliver(w, d)
      PROVE  OrderInv'
  <2>1. QueueWhole'
    BY <1>1, <1>3 DEF QueueWhole, RowsStay, BeginDeliver, dbVars, apiVars, TypeOK, WorkerTypeOK
  <2>2. DispatchOf[d] \in WholeSends
    BY <1>3 DEF QueueWhole, BeginDeliver
  <2>3. CASE Finish(w)
    BY <2>1, <2>3, EndOrder
  <2>4. ASSUME NEW j, Continue(w, j), \/ j = [Idle EXCEPT !.pc = "claim", !.on = d]
                                      \/ j = [Idle EXCEPT !.pc = "record", !.on = d, !.out = Failed(Verdict(d))]
        PROVE  OrderInv'
    <3>1. Failed(Verdict(d)) \in Outcome
      BY DEF Failed, Verdict, Outcome, Status, Reason
    <3>2. j \in Job /\ j.on = d /\ j.pc # "write" /\ j.todo = {}
      BY <2>4, <3>1, IdleIsJob DEF Job, Pc, Idle, NoOutcome
    <3> QED BY <2>1, <2>2, <2>4, <3>2, TaskOrder
  <2> QED BY <1>3, <2>3, <2>4 DEF BeginDeliver
<1>4. ASSUME NEW d \in Delivery, NEW n \in 0 .. MaxPolls, BeginPoll(w, d, n)
      PROVE  OrderInv'
  <2>1. QueueWhole'
    BY <1>1, <1>4 DEF QueueWhole, RowsStay, BeginPoll, dbVars, apiVars, TypeOK, WorkerTypeOK
  <2>2. DispatchOf[d] \in WholeSends
    BY <1>4 DEF QueueWhole, BeginPoll
  <2>3. CASE Finish(w)
    BY <2>1, <2>3, EndOrder
  <2>4. CASE Continue(w, [Idle EXCEPT !.pc = "poll", !.on = d, !.count = n])
    <3> DEFINE j == [Idle EXCEPT !.pc = "poll", !.on = d, !.count = n]
    <3>1. j \in Job /\ j.on = d /\ j.pc # "write" /\ j.todo = {}
      <4>1. n \in Nat
        BY WorkerAssumption
      <4> QED BY <4>1 DEF Job, Pc, Idle, NoOutcome, Outcome, Status, Reason
    <3> HIDE DEF j
    <3> QED BY <2>1, <2>2, <2>4, <3>1, TaskOrder DEF j
  <2> QED BY <1>4, <2>3, <2>4 DEF BeginPoll
<1> QED BY <1>2, <1>3, <1>4 DEF Begin

\* A step of a running task: it stays with its delivery, or with the rest of its ids.
LEMMA TaskStepOrder ==
    ASSUME IInv, OrderInv, RowsStay, NEW w \in Worker, TaskStep(w) \/ Crash(w), UNCHANGED apiVars
    PROVE  OrderInv'
<1> USE StoreAssumption, WorkerAssumption DEF OrderInv
<1>1. TypeOK /\ TypeOK' /\ IInv'
  <2>1. IInv'
    BY NextInvariant DEF Next, WorkerStep, WorkerNext
  <2> QED BY <2>1 DEF IInv
<1>2. job[w] \in Job /\ job'[w] \in Job
  BY <1>1 DEF TypeOK, WorkerTypeOK
<1>3. QueueWhole'
  <2>1. CASE FanoutPublish(w)
    <3>1. PICK d \in job[w].todo : deliverQ' = [deliverQ EXCEPT ![d] = @ + 1]
      BY <2>1 DEF FanoutPublish
    <3>2. d \in Delivery /\ DispatchOf[d] \in WholeSends
      BY <1>2, <3>1 DEF Job, TaskWhole
    <3> QED BY <1>1, <2>1, <3>1, <3>2
            DEF FanoutPublish, QueueWhole, RowsStay, dbVars, apiVars, TypeOK, WorkerTypeOK
  <2>2. CASE Claim(w)
    <3>1. job[w].on \in Delivery /\ DispatchOf[job[w].on] \in WholeSends
      BY <2>2 DEF Claim, TaskWhole, IInv, JobInv, JobOK
    <3>2. keys' \subseteq keys \cup {job[w].on} /\ UNCHANGED <<queueVars, api>>
      BY <2>2 DEF Claim, ClaimKey, dbVars, apiVars
    <3> QED BY <3>1, <3>2 DEF QueueWhole, RowsStay, queueVars
  <2>3. CASE EnqueuePoll(w)
    <3>1. job[w].on \in Delivery /\ DispatchOf[job[w].on] \in WholeSends
      BY <2>3 DEF EnqueuePoll, TaskWhole, IInv, JobInv, JobOK
    <3>2. pollQ' = [pollQ EXCEPT ![<<job[w].on, 0>>] = @ + 1] /\ UNCHANGED <<fanoutQ, deliverQ, keys, api>>
      BY <2>3 DEF EnqueuePoll, dbVars, apiVars
    <3> QED BY <1>1, <3>1, <3>2 DEF QueueWhole, RowsStay, TypeOK, WorkerTypeOK
  <2>4. CASE PollPending(w)
    <3>1. job[w].on \in Delivery /\ DispatchOf[job[w].on] \in WholeSends
      BY <2>4 DEF PollPending, TaskWhole, IInv, JobInv, JobOK
    <3>2. /\ pollQ' \in {pollQ, [pollQ EXCEPT ![<<job[w].on, job[w].count + 1>>] = @ + 1]}
          /\ UNCHANGED <<fanoutQ, deliverQ, keys, api>>
      BY <2>4 DEF PollPending, dbVars, apiVars
    <3> QED BY <1>1, <3>1, <3>2 DEF QueueWhole, RowsStay, TypeOK, WorkerTypeOK
  <2>5. CASE CallAccepted(w) \/ CallTimedOut(w) \/ CallTransient(w) \/ CallRejected(w)
    BY <2>5, QueuesKept DEF CallAccepted, CallTimedOut, CallTransient, CallRejected, AfterCall, dbVars, apiVars
  <2>6. CASE CallRefused(w) \/ RecordRead(w) \/ PollAnswered(w) \/ PollError(w) \/ Crash(w)
    BY <2>6, QueuesKept DEF CallRefused, RecordRead, PollAnswered, PollError, Crash, dbVars, apiVars
  <2>7. CASE RecordWrite(w)
    BY <2>7, QueuesKept DEF RecordWrite, WriteSent, WriteFailed, apiVars
  <2>8. CASE ConfirmWrite(w)
    BY <2>8, QueuesKept DEF ConfirmWrite, WriteConfirmed, apiVars
  <2> QED BY <2>1, <2>2, <2>3, <2>4, <2>5, <2>6, <2>7, <2>8 DEF TaskStep
<1>4. ASSUME \/ job'[w].on = job[w].on /\ job'[w].todo \subseteq job[w].todo
             \/ job'[w] = Idle,
             job'[w].pc # "write",
             Continue(w, job'[w])
      PROVE  TaskWhole' /\ SeenInv'
  <2>1. job'[w].on \in Delivery => DispatchOf[job'[w].on] \in WholeSends
    BY <1>4 DEF TaskWhole, Idle
  <2>2. \A d \in job'[w].todo : DispatchOf[d] \in WholeSends
    BY <1>4 DEF TaskWhole, Idle
  <2> QED BY <1>2, <1>4, <2>1, <2>2, TaskOrder
<1>5. ASSUME NEW j, Continue(w, j)
      PROVE  job'[w] = j
  BY <1>1, <1>5 DEF Continue, TypeOK, WorkerTypeOK
<1>6. TaskWhole' /\ SeenInv'
  <2>1. CASE FanoutPublish(w)
    <3>1. PICK d \in job[w].todo : \/ Finish(w)
                                   \/ Continue(w, [job[w] EXCEPT !.todo = job[w].todo \ {d}])
      BY <2>1 DEF FanoutPublish
    <3>2. CASE Finish(w)
      BY <3>2, EndOrder
    <3>3. CASE Continue(w, [job[w] EXCEPT !.todo = job[w].todo \ {d}])
      <4>1. job'[w] = [job[w] EXCEPT !.todo = job[w].todo \ {d}]
        BY <1>5, <3>3
      <4>2. job'[w].on = job[w].on /\ job'[w].todo \subseteq job[w].todo /\ job'[w].pc # "write"
        BY <1>2, <2>1, <4>1 DEF Job, FanoutPublish
      <4> QED BY <1>4, <3>3, <4>1, <4>2
    <3> QED BY <3>1, <3>2, <3>3
  <2>2. CASE Claim(w)
    <3>1. CASE Finish(w)
      BY <3>1, EndOrder
    <3>2. CASE Continue(w, [job[w] EXCEPT !.pc = "call"])
      <4>1. job'[w] = [job[w] EXCEPT !.pc = "call"]
        BY <1>5, <3>2
      <4>2. job'[w].on = job[w].on /\ job'[w].todo \subseteq job[w].todo /\ job'[w].pc # "write"
        BY <1>2, <4>1 DEF Job
      <4> QED BY <1>4, <3>2, <4>1, <4>2
    <3> QED BY <2>2, <3>1, <3>2 DEF Claim
  <2>3. ASSUME NEW out, AfterCall(w, out)
        PROVE  TaskWhole' /\ SeenInv'
    <3> DEFINE j == [job[w] EXCEPT !.count = job[w].count + 1, !.out = out,
                                   !.pc = IF out = NoOutcome THEN "call" ELSE "record"]
    <3>1. Continue(w, j)
      BY <2>3 DEF AfterCall
    <3>2. job'[w] = j
      BY <1>5, <3>1
    <3>3. job'[w].on = job[w].on /\ job'[w].todo \subseteq job[w].todo /\ job'[w].pc # "write"
      BY <1>2, <3>2 DEF Job
    <3> QED BY <1>4, <3>1, <3>2, <3>3
  <2>4. CASE CallAccepted(w) \/ CallTimedOut(w) \/ CallTransient(w) \/ CallRejected(w)
    BY <2>3, <2>4 DEF CallAccepted, CallTimedOut, CallTransient, CallRejected
  <2>5. CASE CallRefused(w)
    <3> DEFINE j == [job[w] EXCEPT !.pc = "record", !.out = Failed("channel_error")]
    <3>1. Continue(w, j)
      BY <2>5 DEF CallRefused
    <3>2. job'[w] = j
      BY <1>5, <3>1
    <3>3. job'[w].on = job[w].on /\ job'[w].todo \subseteq job[w].todo /\ job'[w].pc # "write"
      BY <1>2, <3>2 DEF Job
    <3> QED BY <1>4, <3>1, <3>2, <3>3
  <2>6. CASE RecordRead(w)
    <3> DEFINE j == [job[w] EXCEPT !.pc = "write", !.seen = status[job[w].on]]
    <3>1. Continue(w, j) /\ UNCHANGED status
      BY <2>6 DEF RecordRead, dbVars
    <3>2. job[w].on \in Delivery /\ status[job[w].on] # "none"
      BY <2>6 DEF RecordRead, IInv, JobInv, JobOK
    <3>3. status[job[w].on] \in Life!DeliveryStatus
      BY <1>1, <3>2 DEF TypeOK, StoreTypeOK, Status, Life!DeliveryStatus
    <3>4. j \in Job /\ j.on = job[w].on /\ j.todo = job[w].todo /\ j.seen = status[job[w].on]
      BY <1>2, <3>3 DEF Job, Pc, Status, Life!DeliveryStatus
    <3>5. DispatchOf[j.on] \in WholeSends /\ \A d \in j.todo : DispatchOf[d] \in WholeSends
      BY <3>2, <3>4 DEF TaskWhole
    <3> HIDE DEF j
    <3> QED BY <3>1, <3>2, <3>4, <3>5, <3>3, TaskOrder
  <2>7. CASE RecordWrite(w)
    <3>1. CASE Finish(w)
      BY <3>1, EndOrder
    <3>2. CASE Continue(w, [Idle EXCEPT !.pc = "enqueue", !.on = job[w].on])
      <4>1. job'[w] = [Idle EXCEPT !.pc = "enqueue", !.on = job[w].on]
        BY <1>5, <3>2
      <4>2. job'[w].on = job[w].on /\ job'[w].todo \subseteq job[w].todo /\ job'[w].pc # "write"
        BY <4>1 DEF Idle
      <4> QED BY <1>4, <3>2, <4>1, <4>2
    <3> QED BY <2>7, <3>1, <3>2 DEF RecordWrite
  <2>8. CASE PollAnswered(w)
    <3>1. CASE Finish(w)
      BY <3>1, EndOrder
    <3>2. CASE Continue(w, [Idle EXCEPT !.pc = "confirm", !.on = job[w].on, !.out = Answer(fate[ref[job[w].on]])])
      <4>1. job'[w] = [Idle EXCEPT !.pc = "confirm", !.on = job[w].on, !.out = Answer(fate[ref[job[w].on]])]
        BY <1>5, <3>2
      <4>2. job'[w].on = job[w].on /\ job'[w].todo \subseteq job[w].todo /\ job'[w].pc # "write"
        BY <4>1 DEF Idle
      <4> QED BY <1>4, <3>2, <4>1, <4>2
    <3> QED BY <2>8, <3>1, <3>2 DEF PollAnswered
  <2>9. CASE EnqueuePoll(w) \/ PollPending(w) \/ PollError(w) \/ ConfirmWrite(w) \/ Crash(w)
    BY <2>9, EndOrder DEF EnqueuePoll, PollPending, PollError, ConfirmWrite, Crash
  <2> QED BY <2>1, <2>2, <2>4, <2>5, <2>6, <2>7, <2>8, <2>9 DEF TaskStep
<1> QED BY <1>3, <1>6

\* Every step keeps the order.
LEMMA OrderKept ==
    ASSUME IInv, OrderInv, [Next]_vars
    PROVE  OrderInv'
<1> USE StoreAssumption, WorkerAssumption
<1>1. RowsStay /\ TypeOK /\ IInv'
  BY RowsKept, NextInvariant DEF IInv
<1>2. ASSUME NEW w \in Worker, WorkerStep, Begin(w) \/ TaskStep(w) \/ Crash(w)
      PROVE  OrderInv'
  BY <1>1, <1>2, BeginOrder, TaskStepOrder DEF WorkerStep
<1>3. CASE WorkerStep /\ Redeliver
  <2>1. UNCHANGED <<api, keys, job>>
    BY <1>3 DEF WorkerStep, Redeliver, dbVars, apiVars
  <2>2. /\ \A k \in Dispatch : fanoutQ'[k] > 0 => fanoutQ[k] > 0
        /\ \A d \in Delivery : deliverQ'[d] > 0 => deliverQ[d] > 0
        /\ \A m \in Delivery \X (0 .. MaxPolls) : pollQ'[m] > 0 => pollQ[m] > 0
    <3>1. CASE \E k \in Dispatch : /\ fanoutQ[k] > 0
                                  /\ fanoutQ' = [fanoutQ EXCEPT ![k] = @ + 1]
                                  /\ UNCHANGED <<deliverQ, pollQ>>
      BY <1>1, <3>1 DEF TypeOK, WorkerTypeOK
    <3>2. CASE \E d \in Delivery : /\ deliverQ[d] > 0
                                  /\ deliverQ' = [deliverQ EXCEPT ![d] = @ + 1]
                                  /\ UNCHANGED <<fanoutQ, pollQ>>
      BY <1>1, <3>2 DEF TypeOK, WorkerTypeOK
    <3>3. CASE \E m \in Delivery \X (0 .. MaxPolls) : /\ pollQ[m] > 0
                                                     /\ pollQ' = [pollQ EXCEPT ![m] = @ + 1]
                                                     /\ UNCHANGED <<fanoutQ, deliverQ>>
      BY <1>1, <3>3 DEF TypeOK, WorkerTypeOK
    <3> QED BY <1>3, <3>1, <3>2, <3>3 DEF Redeliver
  <2>3. QueueWhole'
    BY <1>1, <2>1, <2>2 DEF OrderInv, QueueWhole, RowsStay
  <2> QED BY <1>1, <2>1, <2>3, RestOrder DEF OrderInv
<1>4. ASSUME NEW k \in Dispatch, SendStep(k) \/ AbortSend(k)
      PROVE  OrderInv'
  <2>1. UNCHANGED <<job, deliverQ, pollQ, keys>>
    BY <1>4 DEF SendStep, StartSend, CreateDispatch, SaveDelivery, CreateQueued, EnqueueFanout, AbortSend,
                dbVars, workerVars, queueVars
  <2>2. QueueWhole'
    <3>1. CASE StartSend(k) \/ AbortSend(k)
      BY <1>1, <2>1, <3>1 DEF OrderInv, QueueWhole, RowsStay, StartSend, AbortSend, workerVars, queueVars, TypeOK
    <3>2. CASE EnqueueFanout(k)
      BY <1>1, <2>1, <3>2 DEF OrderInv, QueueWhole, RowsStay, EnqueueFanout, TypeOK, WorkerTypeOK
    <3>3. CASE SaveDelivery(k)
      <4>1. PICK d \in Unsaved(k) : /\ CreateQueued(d)
                                    /\ api' = IF Unsaved(k) = {d} THEN [api EXCEPT ![k] = "enqueue"] ELSE api
        BY <3>3 DEF SaveDelivery
      <4>2. api' # api => k \in WholeSends'
        BY <1>1, <4>1 DEF WholeSends, Life!Whole, Unsaved, CreateQueued, Write, TypeOK, StoreTypeOK
      <4>3. UNCHANGED fanoutQ
        BY <3>3 DEF SaveDelivery, workerVars, queueVars
      <4> QED BY <1>1, <2>1, <4>1, <4>2, <4>3 DEF OrderInv, QueueWhole, RowsStay, TypeOK
    <3> QED BY <1>4, <3>1, <3>2, <3>3 DEF SendStep
  <2> QED BY <1>1, <2>1, <2>2, RestOrder DEF OrderInv
<1>5. ASSUME UNCHANGED <<job, api, queueVars, keys>>
      PROVE  OrderInv'
  BY <1>1, <1>5, QueuesKept, RestOrder DEF OrderInv
<1>6. ASSUME NEW h \in Handler, ApplyCallback(h) \/ CrashHook(h) \/ \E r \in Ref : ReceiveCallback(h, r)
      PROVE  OrderInv'
  BY <1>5, <1>6 DEF ApplyCallback, WriteConfirmed, CrashHook, ReceiveCallback, dbVars, workerVars
<1>7. ASSUME NEW r \in Ref, LoseCallback(r) \/ RepeatCallback(r)
      PROVE  OrderInv'
  BY <1>5, <1>7 DEF LoseCallback, RepeatCallback, dbVars, apiVars
<1>8. CASE UNCHANGED vars
  BY <1>5, <1>8 DEF vars, dbVars, workerVars, apiVars
<1> QED BY <1>2, <1>3, <1>4, <1>6, <1>7, <1>8 DEF Next, WorkerStep, WorkerNext

\* Nothing is under way at first.
LEMMA InitOrder == ASSUME Init PROVE OrderInv
<1>1. QueueWhole
  BY DEF Init, StoreInit, WorkerInit, QueueWhole
<1>2. TaskWhole /\ SeenInv
  BY IdleIsJob, WorkerAssumption DEF Init, WorkerInit, TaskWhole, SeenInv, Idle
<1> QED BY <1>1, <1>2 DEF OrderInv

\* The rows of the deliveries, under every redelivery, repetition and fault, are
\* written as Lifecycle says: along ALLOWED_TRANSITIONS (domain/dispatch.py:67-72), a
\* transition with every write, and nothing before all rows of the send are there.
THEOREM ImplementsLifecycle == Spec => LifecycleSpec
<1>1. Init => Life!Init /\ OrderInv
  BY InitOrder DEF Init, StoreInit, Life!Init
<1>2. IInv /\ OrderInv /\ [Next]_vars => [Life!Next]_(Life!lifeVars)
  BY StepsMove
<1>3. IInv /\ OrderInv /\ [Next]_vars => OrderInv'
  BY OrderKept
<1> QED BY <1>1, <1>2, <1>3, Invariance, PTL DEF Spec, LifecycleSpec, Life!Spec

-----------------------------------------------------------------------------
\* Only the four ends of a call change calls, and their task is the sender.
LEMMA CallsWhileQueued ==
    ASSUME IInv, [Next]_vars, NEW d \in Delivery, calls'[d] # calls[d]
    PROVE  status[d] = "queued" /\ d \in keys
<1>1. ASSUME NEW w \in Worker,
             CallAccepted(w) \/ CallTimedOut(w) \/ CallTransient(w) \/ CallRejected(w)
      PROVE  status[d] = "queued" /\ d \in keys
  <2>1. job[w].pc = "call" /\ calls' = [calls EXCEPT ![job[w].on] = @ + 1]
    BY <1>1 DEF CallAccepted, CallTimedOut, CallTransient, CallRejected, AfterCall
  <2>2. job[w].on = d
    BY <2>1 DEF IInv, TypeOK, WorkerTypeOK
  <2> QED BY <2>1, <2>2 DEF IInv, SingleSender, Sending, Sends
<1>2. ASSUME NEW w \in Worker, Begin(w)
      PROVE  UNCHANGED calls
  BY <1>2 DEF Begin, BeginFanout, BeginDeliver, BeginPoll, providerVars
<1>3. ASSUME NEW w \in Worker,
             \/ FanoutPublish(w) \/ Claim(w) \/ CallRefused(w)
             \/ RecordRead(w) \/ RecordWrite(w) \/ EnqueuePoll(w)
      PROVE  UNCHANGED calls
  BY <1>3 DEF FanoutPublish, Claim, CallRefused, RecordRead, RecordWrite, EnqueuePoll,
              providerVars
<1>4. ASSUME NEW w \in Worker,
             PollAnswered(w) \/ PollPending(w) \/ PollError(w) \/ ConfirmWrite(w) \/ Crash(w)
      PROVE  UNCHANGED calls
  BY <1>4 DEF PollAnswered, PollPending, PollError, ConfirmWrite, Crash, providerVars
<1>5. CASE Redeliver
  BY <1>5 DEF Redeliver, providerVars
<1>6. ASSUME NEW k \in Dispatch, SendStep(k) \/ AbortSend(k)
      PROVE  UNCHANGED calls
  BY <1>6 DEF SendStep, StartSend, SaveDelivery, EnqueueFanout, AbortSend, workerVars,
              providerVars
<1>7. ASSUME NEW h \in Handler,
             ApplyCallback(h) \/ CrashHook(h) \/ \E r \in Ref : ReceiveCallback(h, r)
      PROVE  UNCHANGED calls
  BY <1>7 DEF ApplyCallback, CrashHook, ReceiveCallback, workerVars, providerVars
<1>8. ASSUME NEW r \in Ref, LoseCallback(r) \/ RepeatCallback(r)
      PROVE  UNCHANGED calls
  BY <1>8 DEF LoseCallback, RepeatCallback
<1>9. CASE UNCHANGED vars
  BY <1>9 DEF vars, workerVars, providerVars
<1> QED
  BY <1>1, <1>2, <1>3, <1>4, <1>5, <1>6, <1>7, <1>8, <1>9
     DEF Next, WorkerStep, WorkerNext, TaskStep

\* Every call to the provider is made for a row that is queued in that very
\* moment and whose key is claimed, however long ago the task read the row.
THEOREM CallsOnlyQueued == Spec => CalledWhileQueued
<1>1. IInv /\ [Next]_vars =>
          [\A d \in Delivery : calls'[d] # calls[d] => status[d] = "queued" /\ d \in keys]_vars
  BY CallsWhileQueued
<1> QED BY <1>1, Invariance, PTL DEF Spec, CalledWhileQueued

-----------------------------------------------------------------------------
(* The calls of the tasks are runs of module Attempts *)

Results == [w \in Worker |-> RunResult(job[w])]
Counts == [w \in Worker |-> RunCount(job[w])]

\* A step of a thread leaves the locals of the others alone.
LEMMA OthersStay ==
    ASSUME NEW w \in Worker, job \in [Worker -> Job], NEW j, Continue(w, j)
    PROVE  job' \in [Worker -> Job \cup {j}] /\ job'[w] = j /\ \A v \in Worker \ {w} : job'[v] = job[v]
BY DEF Continue

\* One thread goes on: its run, and nobody else's, may change.
LEMMA RunMoves ==
    ASSUME job \in [Worker -> Job], NEW w \in Worker, NEW j, Continue(w, j)
    PROVE  /\ Results' = [Results EXCEPT ![w] = RunResult(j)]
           /\ Counts' = [Counts EXCEPT ![w] = RunCount(j)]
<1>1. job'[w] = j /\ \A v \in Worker \ {w} : job'[v] = job[v]
  BY OthersStay
<1>2. /\ Results' = [v \in Worker |-> RunResult(job'[v])]
      /\ Counts' = [v \in Worker |-> RunCount(job'[v])]
  BY DEF Results, Counts, RunCount, RunResult
<1> QED BY <1>1, <1>2 DEF Results, Counts

\* A task that has no run, or no longer.
LEMMA RunLeaves ==
    ASSUME job \in [Worker -> Job], NEW w \in Worker, NEW j, Continue(w, j), RunResult(j) = "idle"
    PROVE  Runs!Next
<1>1. DOMAIN Results = Worker /\ DOMAIN Counts = Worker /\ RunCount(j) = 0
  BY DEF Results, Counts, RunCount
<1>2. /\ Results' = [v \in Worker |-> IF v \in {w} THEN "idle" ELSE Results[v]]
      /\ Counts' = [v \in Worker |-> IF v \in {w} THEN 0 ELSE Counts[v]]
  BY <1>1, RunMoves
<1>3. Runs!Leave({w})
  BY <1>2 DEF Runs!Leave, Results, Counts
<1> QED BY <1>3 DEF Runs!Next

\* A task that goes on with its run as it is.
LEMMA RunRests ==
    ASSUME job \in [Worker -> Job], NEW w \in Worker, NEW j, Continue(w, j),
           RunResult(j) = RunResult(job[w]), RunCount(j) = RunCount(job[w])
    PROVE  UNCHANGED <<Results, Counts>>
<1>1. /\ Results = [v \in Worker |-> Results[v]] /\ Results[w] = RunResult(j)
      /\ Counts = [v \in Worker |-> Counts[v]] /\ Counts[w] = RunCount(j)
  BY DEF Results, Counts
<1> QED BY <1>1, RunMoves

\* One more call completes.
LEMMA RunCalls ==
    ASSUME IInv, NEW w \in Worker, job[w].pc = "call", NEW out, AfterCall(w, out),
           \/ out.to = "sent"
           \/ out = Failed("channel_error")
           \/ out = Retried(w)
    PROVE  Runs!Next
<1> DEFINE j == [job[w] EXCEPT !.count = job[w].count + 1, !.out = out,
                               !.pc = IF out = NoOutcome THEN "call" ELSE "record"]
<1>1. job \in [Worker -> Job] /\ job[w] \in Job /\ job[w].count < MaxAttempts /\ job[w].count \in Nat
  BY DEF IInv, TypeOK, WorkerTypeOK, JobInv, JobOK, Job
<1>2. RunResult(job[w]) = "running" /\ RunCount(job[w]) = job[w].count
  BY DEF RunResult, RunCount
<1>3. Continue(w, j)
  BY DEF AfterCall
<1>4. /\ j.count = job[w].count + 1 /\ j.out = out
      /\ j.pc = IF out = NoOutcome THEN "call" ELSE "record"
  BY <1>1 DEF Job
<1> HIDE DEF j
<1>5. CASE out = NoOutcome
  <2>1. job[w].count + 1 < MaxAttempts
    BY <1>5 DEF NoOutcome, Failed, Retried
  <2>2. RunResult(j) = "running" /\ RunCount(j) = job[w].count + 1
    BY <1>4, <1>5 DEF RunResult, RunCount
  <2>3. /\ Results' = [Results EXCEPT ![w] = "running"]
        /\ Counts' = [Counts EXCEPT ![w] = job[w].count + 1]
    BY <1>1, <1>3, <2>2, RunMoves
  <2>4. Results' = Results
    BY <1>2, <2>3 DEF Results
  <2>5. Runs!Call(w)
    BY <1>1, <1>2, <2>1, <2>3, <2>4 DEF Runs!Call, Results, Counts
  <2> QED BY <2>5 DEF Runs!Next
<1>6. CASE out # NoOutcome
  <2>1. out.to = "sent" \/ out = Failed("channel_error")
    BY <1>6 DEF Retried
  <2>2. PICK end \in {"sent", "failed"} : RunResult(j) = end
    BY <1>4, <1>6, <2>1 DEF RunResult, Failed
  <2>3. RunCount(j) = job[w].count + 1
    BY <1>4, <2>2 DEF RunCount
  <2>4. /\ Results' = [Results EXCEPT ![w] = end]
        /\ Counts' = [Counts EXCEPT ![w] = job[w].count + 1]
    BY <1>1, <1>3, <2>2, <2>3, RunMoves
  <2>5. Runs!Call(w)
    BY <1>1, <1>2, <2>4 DEF Runs!Call, Results, Counts
  <2> QED BY <2>5 DEF Runs!Next
<1> QED BY <1>5, <1>6

\* The steps of a task, one by one.
LEMMA TaskRuns ==
    ASSUME IInv, NEW w \in Worker, TaskStep(w)
    PROVE  Runs!Next \/ UNCHANGED <<Results, Counts>>
<1>0. /\ job \in [Worker -> Job] /\ job[w] \in Job /\ JobOK(job[w])
      /\ job[w].pc \in Pc
  BY DEF IInv, TypeOK, WorkerTypeOK, JobInv, Job
<1>1. CASE Finish(w)
  <2>1. RunResult(Idle) = "idle"
    BY DEF RunResult, Idle
  <2> QED BY <1>0, <1>1, <2>1, RunLeaves DEF Finish
<1>2. CASE FanoutPublish(w) /\ ~Finish(w)
  <2>1. PICK d \in job[w].todo : Continue(w, [job[w] EXCEPT !.todo = job[w].todo \ {d}])
    BY <1>2 DEF FanoutPublish
  <2>2. RunResult([job[w] EXCEPT !.todo = job[w].todo \ {d}]) = "idle"
    BY <1>0, <1>2 DEF FanoutPublish, RunResult, Job
  <2> QED BY <1>0, <2>1, <2>2, RunLeaves
<1>3. CASE Claim(w) /\ ~Finish(w)
  <2> DEFINE j == [job[w] EXCEPT !.pc = "call"]
  <2>1. job[w].pc = "claim" /\ Continue(w, j) /\ job[w].count = 0
    BY <1>0, <1>3 DEF Claim, JobOK
  <2>2. j.pc = "call" /\ j.count = 0
    BY <1>0, <2>1 DEF Job
  <2> HIDE DEF j
  <2>3. RunResult(j) = "running" /\ RunCount(j) = 0 /\ RunResult(job[w]) = "idle" /\ RunCount(job[w]) = 0
    BY <2>1, <2>2 DEF RunResult, RunCount
  <2>4. Results' = [Results EXCEPT ![w] = "running"] /\ Counts' = [Counts EXCEPT ![w] = 0]
    BY <1>0, <2>1, <2>3, RunMoves
  <2>5. Runs!Start(w)
    BY <2>3, <2>4 DEF Runs!Start, Results, Counts
  <2> QED BY <2>5 DEF Runs!Next
<1>4. CASE CallAccepted(w)
  BY <1>4, RunCalls DEF CallAccepted
<1>5. CASE CallTimedOut(w) \/ CallTransient(w) \/ CallRejected(w)
  BY <1>5, RunCalls DEF CallTimedOut, CallTransient, CallRejected
<1>6. CASE CallRefused(w)
  <2> DEFINE j == [job[w] EXCEPT !.pc = "record", !.out = Failed("channel_error")]
  <2>1. job[w].pc = "call" /\ Continue(w, j)
    BY <1>6 DEF CallRefused
  <2>2. j.pc = "record" /\ j.out = Failed("channel_error") /\ j.count = job[w].count
    BY <1>0 DEF Job
  <2> HIDE DEF j
  <2>3. /\ RunResult(j) = "failed" /\ RunCount(j) = job[w].count
        /\ RunResult(job[w]) = "running" /\ RunCount(job[w]) = job[w].count
    BY <2>1, <2>2 DEF RunResult, RunCount, Failed
  <2>4. Results' = [Results EXCEPT ![w] = "failed"] /\ Counts' = [Counts EXCEPT ![w] = job[w].count]
    BY <1>0, <2>1, <2>3, RunMoves
  <2>5. Runs!Refuse(w)
    BY <2>3, <2>4 DEF Runs!Refuse, Results, Counts
  <2> QED BY <2>5 DEF Runs!Next
<1>7. CASE RecordRead(w)
  <2> DEFINE j == [job[w] EXCEPT !.pc = "write", !.seen = status[job[w].on]]
  <2>1. job[w].pc = "record" /\ Continue(w, j)
    BY <1>7 DEF RecordRead
  <2>2. j.pc = "write" /\ j.out = job[w].out /\ j.count = job[w].count
    BY <1>0 DEF Job
  <2> HIDE DEF j
  <2>3. RunResult(j) = RunResult(job[w]) /\ RunCount(j) = RunCount(job[w])
    BY <2>1, <2>2 DEF RunResult, RunCount
  <2> QED BY <1>0, <2>1, <2>3, RunRests
<1>8. CASE RecordWrite(w) /\ ~Finish(w)
  <2>1. Continue(w, [Idle EXCEPT !.pc = "enqueue", !.on = job[w].on])
    BY <1>8 DEF RecordWrite
  <2>2. RunResult([Idle EXCEPT !.pc = "enqueue", !.on = job[w].on]) = "idle"
    BY DEF RunResult, Idle
  <2> QED BY <1>0, <2>1, <2>2, RunLeaves
<1>9. CASE PollAnswered(w) /\ ~Finish(w)
  <2> DEFINE j == [Idle EXCEPT !.pc = "confirm", !.on = job[w].on, !.out = Answer(fate[ref[job[w].on]])]
  <2>1. Continue(w, j)
    BY <1>9 DEF PollAnswered
  <2>2. RunResult(j) = "idle"
    BY DEF RunResult, Idle
  <2> QED BY <1>0, <2>1, <2>2, RunLeaves
<1> QED
  BY <1>1, <1>2, <1>3, <1>4, <1>5, <1>6, <1>7, <1>8, <1>9
     DEF TaskStep, EnqueuePoll, PollPending, PollError, ConfirmWrite

\* A task begins, and no run with it: a refused address is recorded without a call.
LEMMA BeginRuns ==
    ASSUME IInv, NEW w \in Worker, Begin(w)
    PROVE  Runs!Next
<1>0. job \in [Worker -> Job]
  BY DEF IInv, TypeOK, WorkerTypeOK
<1>1. CASE Finish(w)
  <2>1. RunResult(Idle) = "idle"
    BY DEF RunResult, Idle
  <2> QED BY <1>0, <1>1, <2>1, RunLeaves DEF Finish
<1>2. ASSUME NEW k \in Dispatch, BeginFanout(w, k), ~Finish(w)
      PROVE  Runs!Next
  <2>1. Continue(w, [Idle EXCEPT !.pc = "fanout", !.todo = QueuedIds(k)])
    BY <1>2 DEF BeginFanout
  <2>2. RunResult([Idle EXCEPT !.pc = "fanout", !.todo = QueuedIds(k)]) = "idle"
    BY DEF RunResult, Idle
  <2> QED BY <1>0, <2>1, <2>2, RunLeaves
<1>3. ASSUME NEW d \in Delivery, BeginDeliver(w, d), ~Finish(w)
      PROVE  Runs!Next
  <2>1. PICK j : /\ j \in {[Idle EXCEPT !.pc = "claim", !.on = d],
                           [Idle EXCEPT !.pc = "record", !.on = d, !.out = Failed(Verdict(d))]}
                 /\ Continue(w, j)
    BY <1>3 DEF BeginDeliver
  <2>2. RunResult(j) = "idle"
    <3>1. CASE j = [Idle EXCEPT !.pc = "claim", !.on = d]
      BY <3>1 DEF RunResult, Idle
    <3>2. CASE j = [Idle EXCEPT !.pc = "record", !.on = d, !.out = Failed(Verdict(d))]
      <4>1. Verdict(d) \in {"none", "missing_destination", "invalid_format"}
        BY DEF Verdict
      <4>2. j.pc = "record" /\ j.out.to = "failed" /\ j.out.why = Verdict(d)
        BY <3>2 DEF Idle, Failed
      <4> QED BY <4>1, <4>2 DEF RunResult
    <3> QED BY <2>1, <3>1, <3>2
  <2> QED BY <1>0, <2>1, <2>2, RunLeaves
<1>4. ASSUME NEW d \in Delivery, NEW n \in 0 .. MaxPolls, BeginPoll(w, d, n), ~Finish(w)
      PROVE  Runs!Next
  <2>1. Continue(w, [Idle EXCEPT !.pc = "poll", !.on = d, !.count = n])
    BY <1>4 DEF BeginPoll
  <2>2. RunResult([Idle EXCEPT !.pc = "poll", !.on = d, !.count = n]) = "idle"
    BY DEF RunResult, Idle
  <2> QED BY <1>0, <2>1, <2>2, RunLeaves
<1> QED BY <1>1, <1>2, <1>3, <1>4 DEF Begin

\* Every step of the pipeline is a step of Attempts, or leaves the runs alone.
LEMMA StepsRun ==
    ASSUME IInv, [Next]_vars
    PROVE  [Runs!Next]_<<Results, Counts>>
<1>1. ASSUME NEW w \in Worker, Crash(w)
      PROVE  Runs!Next
  <2>1. job \in [Worker -> Job] /\ Continue(w, Idle)
    BY <1>1 DEF IInv, TypeOK, WorkerTypeOK, Crash, Finish
  <2>2. RunResult(Idle) = "idle"
    BY DEF RunResult, Idle
  <2> QED BY <2>1, <2>2, RunLeaves
<1>2. CASE UNCHANGED job
  BY <1>2 DEF Results, Counts
<1>3. ASSUME NEW w \in Worker, Begin(w) \/ TaskStep(w) \/ Crash(w)
      PROVE  Runs!Next \/ UNCHANGED <<Results, Counts>>
  BY <1>1, <1>3, BeginRuns, TaskRuns
<1>4. CASE WorkerStep
  <2>1. CASE Redeliver
    BY <1>2, <2>1 DEF Redeliver
  <2> QED BY <1>3, <1>4, <2>1 DEF WorkerStep, WorkerNext
<1>5. CASE ~WorkerStep
  <2>1. UNCHANGED job
    BY <1>5 DEF Next, SendStep, StartSend, SaveDelivery, EnqueueFanout, AbortSend, ReceiveCallback,
                ApplyCallback, CrashHook, LoseCallback, RepeatCallback, workerVars, vars
  <2> QED BY <1>2, <2>1
<1> QED BY <1>4, <1>5

\* The pipeline calls the provider as module Attempts promises, which Resilience
\* keeps (KeepsPromise): in runs that start anew for a task (Claim), make at most
\* MaxAttempts calls and end as sent or failed, unless their thread dies.
THEOREM ImplementsAttempts == Spec => AttemptsSpec
<1>1. Init => Runs!Init
  BY DEF Init, WorkerInit, Runs!Init, RunResult, RunCount, Idle
<1>2. IInv /\ [Next]_vars => [Runs!Next]_<<Results, Counts>>
  BY StepsRun
<1> QED BY <1>1, <1>2, Invariance, PTL DEF Spec, AttemptsSpec, Runs!Spec, Results, Counts

-----------------------------------------------------------------------------
(***************************************************************************)
(* No delivery is confirmed by two channels, and a final row stays.        *)
(***************************************************************************)

\* A thread that goes on to confirm or to poll does so for an SMS.
LEMMA ChannelTask ==
    ASSUME IInv, ChannelInv, NEW w \in Worker, NEW j, Continue(w, j),
           UNCHANGED <<callbacks, hook>>, OnlyPolled',
           j.pc \in {"enqueue", "poll", "confirm"} => j.on \in Polled
    PROVE  ChannelInv'
<1>1. job'[w] = j /\ \A v \in Worker \ {w} : job'[v] = job[v]
  BY OthersStay DEF IInv, TypeOK, WorkerTypeOK
<1> QED BY <1>1 DEF ChannelInv

\* A thread that ends does neither.
LEMMA ChannelEnd ==
    ASSUME IInv, ChannelInv, NEW w \in Worker, Finish(w), UNCHANGED <<callbacks, hook>>, OnlyPolled'
    PROVE  ChannelInv'
BY ChannelTask DEF Finish, Idle

\* A task starts; a poll is taken from the queue of polls.
LEMMA ChannelBegin ==
    ASSUME IInv, ChannelInv, NEW w \in Worker, Begin(w), UNCHANGED hook
    PROVE  ChannelInv'
<1>1. UNCHANGED callbacks /\ pollQ \in [Delivery \X (0 .. MaxPolls) -> Nat]
  BY DEF Begin, BeginFanout, BeginDeliver, BeginPoll, providerVars, IInv, TypeOK, WorkerTypeOK
<1>2. ASSUME NEW k \in Dispatch, BeginFanout(w, k)
      PROVE  ChannelInv'
  <2> DEFINE j == [Idle EXCEPT !.pc = "fanout", !.todo = QueuedIds(k)]
  <2>1. j.pc = "fanout"
    BY DEF Idle
  <2>2. UNCHANGED pollQ /\ (Continue(w, j) \/ Finish(w))
    BY <1>2 DEF BeginFanout
  <2> HIDE DEF j
  <2> QED BY <1>1, <2>1, <2>2, ChannelTask, ChannelEnd DEF ChannelInv, OnlyPolled
<1>3. ASSUME NEW d \in Delivery, BeginDeliver(w, d)
      PROVE  ChannelInv'
  <2> DEFINE i == [Idle EXCEPT !.pc = "claim", !.on = d]
             j == [Idle EXCEPT !.pc = "record", !.on = d, !.out = Failed(Verdict(d))]
  <2>1. i.pc = "claim" /\ j.pc = "record"
    BY DEF Idle
  <2>2. UNCHANGED pollQ /\ (Continue(w, i) \/ Continue(w, j) \/ Finish(w))
    BY <1>3 DEF BeginDeliver
  <2> HIDE DEF i, j
  <2> QED BY <1>1, <2>1, <2>2, ChannelTask, ChannelEnd DEF ChannelInv, OnlyPolled
<1>4. ASSUME NEW d \in Delivery, NEW n \in 0 .. MaxPolls, BeginPoll(w, d, n)
      PROVE  ChannelInv'
  <2> DEFINE j == [Idle EXCEPT !.pc = "poll", !.on = d, !.count = n]
  <2>1. j.pc = "poll" /\ j.on = d
    BY DEF Idle
  <2>2. d \in Polled
    BY <1>4 DEF BeginPoll, ChannelInv, OnlyPolled
  <2>3. pollQ' = [pollQ EXCEPT ![<<d, n>>] = @ - 1] /\ (Continue(w, j) \/ Finish(w))
    BY <1>4 DEF BeginPoll
  <2>4. OnlyPolled'
    BY <1>1, <2>2, <2>3 DEF ChannelInv, OnlyPolled
  <2> HIDE DEF j
  <2> QED BY <1>1, <2>1, <2>2, <2>3, <2>4, ChannelTask, ChannelEnd
<1> QED BY <1>2, <1>3, <1>4 DEF Begin

\* The provider accepts a send, and posts a callback only when nobody polls.
LEMMA ChannelCall ==
    ASSUME IInv, ChannelInv, NEW w \in Worker, NEW out, AfterCall(w, out), job[w].pc = "call",
           UNCHANGED hook,
           UNCHANGED callbacks \/ ProviderAccepts(<<job[w].on, job[w].count + 1>>)
    PROVE  ChannelInv'
<1> DEFINE j == [job[w] EXCEPT !.count = job[w].count + 1, !.out = out,
                               !.pc = IF out = NoOutcome THEN "call" ELSE "record"]
           r == <<job[w].on, job[w].count + 1>>
<1>1. job[w] \in Job /\ callbacks \in [Ref -> Nat]
  BY DEF IInv, TypeOK, WorkerTypeOK
<1>2. j.pc \in {"call", "record"}
  BY <1>1 DEF Job
<1>3. Continue(w, j) /\ UNCHANGED pollQ
  BY DEF AfterCall, queueVars
<1>4. r[1] = job[w].on
  OBVIOUS
<1> HIDE DEF j, r
<1>5. job'[w] = j /\ \A v \in Worker \ {w} : job'[v] = job[v]
  BY <1>3, OthersStay DEF IInv, TypeOK, WorkerTypeOK
<1>6. UNCHANGED callbacks
          \/ callbacks' = IF r[1] \in Polled THEN callbacks ELSE [callbacks EXCEPT ![r] = @ + 1]
  BY DEF ProviderAccepts, r
<1>7. \A q \in Ref : callbacks'[q] > 0 => q[1] \notin Polled
  BY <1>1, <1>6 DEF ChannelInv
<1> QED BY <1>2, <1>3, <1>5, <1>7 DEF ChannelInv, OnlyPolled

\* A running task: what it enqueues and confirms is an SMS.
LEMMA ChannelStep ==
    ASSUME IInv, ChannelInv, NEW w \in Worker, TaskStep(w) \/ Crash(w), UNCHANGED hook
    PROVE  ChannelInv'
<1> USE WorkerAssumption
<1>1. /\ job[w] \in Job /\ JobOK(job[w])
      /\ pollQ \in [Delivery \X (0 .. MaxPolls) -> Nat]
      /\ job[w].pc \in {"enqueue", "poll", "confirm"} => job[w].on \in Polled
  BY DEF IInv, TypeOK, WorkerTypeOK, JobInv, ChannelInv
<1>2. ASSUME NEW j, Continue(w, j), UNCHANGED <<pollQ, callbacks>>,
             j.pc \in {"enqueue", "poll", "confirm"} => j.on \in Polled
      PROVE  ChannelInv'
  BY <1>2, ChannelTask DEF ChannelInv, OnlyPolled
<1>3. ASSUME Finish(w), UNCHANGED <<pollQ, callbacks>>
      PROVE  ChannelInv'
  BY <1>3, ChannelEnd DEF ChannelInv, OnlyPolled
<1>4. CASE FanoutPublish(w)
  <2>1. PICK d \in job[w].todo : Finish(w) \/ Continue(w, [job[w] EXCEPT !.todo = job[w].todo \ {d}])
    BY <1>4 DEF FanoutPublish
  <2> DEFINE j == [job[w] EXCEPT !.todo = job[w].todo \ {d}]
  <2>2. j.pc = "fanout"
    BY <1>1, <1>4 DEF Job, FanoutPublish
  <2>3. UNCHANGED <<pollQ, callbacks>>
    BY <1>4 DEF FanoutPublish, providerVars
  <2> HIDE DEF j
  <2> QED BY <1>2, <1>3, <2>1, <2>2, <2>3 DEF j
<1>5. CASE Claim(w)
  <2> DEFINE j == [job[w] EXCEPT !.pc = "call"]
  <2>1. j.pc = "call"
    BY <1>1 DEF Job
  <2>2. UNCHANGED <<pollQ, callbacks>> /\ (Finish(w) \/ Continue(w, j))
    BY <1>5 DEF Claim, queueVars, providerVars
  <2> HIDE DEF j
  <2> QED BY <1>2, <1>3, <2>1, <2>2
<1>6. CASE CallAccepted(w) \/ CallTimedOut(w) \/ CallTransient(w) \/ CallRejected(w)
  BY <1>6, ChannelCall DEF CallAccepted, CallTimedOut, CallTransient, CallRejected
<1>7. CASE CallRefused(w)
  <2> DEFINE j == [job[w] EXCEPT !.pc = "record", !.out = Failed("channel_error")]
  <2>1. j.pc = "record"
    BY <1>1 DEF Job
  <2>2. UNCHANGED <<pollQ, callbacks>> /\ Continue(w, j)
    BY <1>7 DEF CallRefused, queueVars, providerVars
  <2> HIDE DEF j
  <2> QED BY <1>2, <2>1, <2>2
<1>8. CASE RecordRead(w)
  <2> DEFINE j == [job[w] EXCEPT !.pc = "write", !.seen = status[job[w].on]]
  <2>1. j.pc = "write"
    BY <1>1 DEF Job
  <2>2. UNCHANGED <<pollQ, callbacks>> /\ Continue(w, j)
    BY <1>8 DEF RecordRead, queueVars, providerVars
  <2> HIDE DEF j
  <2> QED BY <1>2, <2>1, <2>2
<1>9. CASE RecordWrite(w)
  <2> DEFINE j == [Idle EXCEPT !.pc = "enqueue", !.on = job[w].on]
  <2>1. j.on = job[w].on
    BY DEF Idle
  <2>2. /\ UNCHANGED <<pollQ, callbacks>>
        /\ Finish(w) \/ (job[w].on \in Polled /\ Continue(w, j))
    BY <1>9 DEF RecordWrite, queueVars, providerVars
  <2> HIDE DEF j
  <2> QED BY <1>2, <1>3, <2>1, <2>2
<1>10. CASE EnqueuePoll(w) \/ PollPending(w)
  <2>1. /\ Finish(w) /\ UNCHANGED callbacks /\ job[w].on \in Polled
        /\ \/ pollQ' = [pollQ EXCEPT ![<<job[w].on, 0>>] = @ + 1]
           \/ pollQ' = [pollQ EXCEPT ![<<job[w].on, job[w].count + 1>>] = @ + 1]
           \/ UNCHANGED pollQ
    BY <1>1, <1>10 DEF EnqueuePoll, PollPending, providerVars
  <2>2. OnlyPolled'
    BY <1>1, <2>1 DEF ChannelInv, OnlyPolled
  <2>3. UNCHANGED hook
    OBVIOUS
  <2> QED BY <2>1, <2>2, <2>3, ChannelEnd
<1>11. CASE PollAnswered(w)
  <2> DEFINE j == [Idle EXCEPT !.pc = "confirm", !.on = job[w].on, !.out = Answer(fate[ref[job[w].on]])]
  <2>1. j.on = job[w].on
    BY DEF Idle
  <2>2. /\ UNCHANGED <<pollQ, callbacks>> /\ job[w].pc = "poll"
        /\ Finish(w) \/ Continue(w, j)
    BY <1>11 DEF PollAnswered, queueVars, providerVars
  <2> HIDE DEF j
  <2> QED BY <1>1, <1>2, <1>3, <2>1, <2>2
<1>12. CASE PollError(w) \/ ConfirmWrite(w) \/ Crash(w)
  BY <1>3, <1>12 DEF PollError, ConfirmWrite, Crash, queueVars, providerVars
<1> QED BY <1>4, <1>5, <1>6, <1>7, <1>8, <1>9, <1>10, <1>11, <1>12 DEF TaskStep

\* Steps of the API, the webhook, the provider and the broker.
LEMMA ChannelKept ==
    ASSUME IInv, ChannelInv, [Next]_vars
    PROVE  ChannelInv'
<1>1. /\ callbacks \in [Ref -> Nat] /\ pollQ \in [Delivery \X (0 .. MaxPolls) -> Nat]
      /\ hook \in [Handler -> [on : Delivery \cup {NoDelivery}, to : Status]]
  BY DEF IInv, TypeOK, WorkerTypeOK
<1>2. ASSUME NEW w \in Worker, WorkerStep, Begin(w) \/ TaskStep(w) \/ Crash(w)
      PROVE  ChannelInv'
  BY <1>2, ChannelBegin, ChannelStep DEF WorkerStep, apiVars
<1>3. CASE WorkerStep /\ Redeliver
  <2>1. UNCHANGED <<callbacks, hook, job>>
    BY <1>3 DEF WorkerStep, Redeliver, providerVars, apiVars
  <2>2. OnlyPolled'
    BY <1>1, <1>3 DEF Redeliver, ChannelInv, OnlyPolled
  <2> QED BY <2>1, <2>2 DEF ChannelInv
<1>4. ASSUME NEW k \in Dispatch, SendStep(k) \/ AbortSend(k)
      PROVE  ChannelInv'
  <2>1. UNCHANGED <<callbacks, hook, job, pollQ>>
    BY <1>4 DEF SendStep, StartSend, SaveDelivery, EnqueueFanout, AbortSend, workerVars, queueVars, providerVars
  <2> QED BY <2>1 DEF ChannelInv, OnlyPolled
<1>5. ASSUME NEW h \in Handler, ApplyCallback(h) \/ CrashHook(h)
      PROVE  ChannelInv'
  <2>1. UNCHANGED <<callbacks, job, pollQ>> /\ hook' = [hook EXCEPT ![h] = NoHook]
    BY <1>5 DEF ApplyCallback, CrashHook, workerVars, queueVars, providerVars
  <2>2. \A g \in Handler : hook'[g] # NoHook => hook'[g] = hook[g]
    BY <1>1, <2>1
  <2> QED BY <2>1, <2>2 DEF ChannelInv, OnlyPolled
<1>6. ASSUME NEW h \in Handler, NEW r \in Ref, ReceiveCallback(h, r)
      PROVE  ChannelInv'
  <2> DEFINE matches == \E d \in Delivery : ref[d] = r /\ status[d] = "sent"
             i == [on |-> CHOOSE d \in Delivery : ref[d] = r, to |-> fate[r]]
  <2>1. /\ callbacks[r] > 0 /\ callbacks' = [callbacks EXCEPT ![r] = @ - 1]
        /\ hook' = IF matches THEN [hook EXCEPT ![h] = i] ELSE hook
        /\ UNCHANGED <<job, pollQ>>
    BY <1>6 DEF ReceiveCallback, queueVars
  <2>2. r \in Ref /\ r # NoRef
    BY StoreAssumption DEF Ref
  <2>3. ASSUME matches
        PROVE  i.on \notin Polled
    <3>1. i.on \in Delivery /\ ref[i.on] = r
      BY <2>3
    <3>2. ref[i.on][1] = i.on
      BY <2>2, <3>1 DEF IInv, RefInv, OutcomeIsProviders
    <3> QED BY <2>1, <3>1, <3>2 DEF ChannelInv
  <2> HIDE DEF i, matches
  <2>4. \A g \in Handler : hook'[g] # NoHook => hook'[g].on \notin Polled
    BY <1>1, <2>1, <2>3 DEF ChannelInv
  <2>5. \A q \in Ref : callbacks'[q] > 0 => q[1] \notin Polled
    BY <1>1, <2>1 DEF ChannelInv
  <2> QED BY <2>1, <2>4, <2>5 DEF ChannelInv, OnlyPolled
<1>7. ASSUME NEW r \in Ref, LoseCallback(r) \/ RepeatCallback(r)
      PROVE  ChannelInv'
  <2>1. /\ callbacks[r] > 0 /\ UNCHANGED <<hook, job, pollQ>>
        /\ callbacks' = [callbacks EXCEPT ![r] = @ - 1] \/ callbacks' = [callbacks EXCEPT ![r] = @ + 1]
    BY <1>7 DEF LoseCallback, RepeatCallback, queueVars, apiVars
  <2>2. \A q \in Ref : callbacks'[q] > 0 => q[1] \notin Polled
    BY <1>1, <2>1 DEF ChannelInv
  <2> QED BY <2>1, <2>2 DEF ChannelInv, OnlyPolled
<1>8. CASE UNCHANGED vars
  BY <1>8 DEF vars, workerVars, queueVars, providerVars, apiVars, ChannelInv, OnlyPolled
<1> QED BY <1>2, <1>3, <1>4, <1>5, <1>6, <1>7, <1>8 DEF Next, WorkerStep, WorkerNext

\* Before the first row nobody polls and nobody calls back.
LEMMA InitChannel == ASSUME Init PROVE ChannelInv /\ ReasonInv
BY DEF Init, StoreInit, WorkerInit, ChannelInv, ReasonInv, OnlyPolled, Idle

\* What may happen to a row: nothing, a first write, a record of the attempts, or
\* the confirmation of its channel.
RowMoves(d) ==
    \/ UNCHANGED <<status[d], ref[d], reason[d]>>
    \/ /\ status[d] \in {"none", "queued"} /\ status'[d] \in {"queued", "sent"}
       /\ UNCHANGED reason[d]
    \/ /\ status[d] \in {"none", "queued"} /\ status'[d] = "failed" /\ ref'[d] = NoRef
    \/ /\ status[d] = "sent" /\ status'[d] = "delivered" /\ UNCHANGED <<ref[d], reason[d]>>
    \/ /\ status[d] = "sent" /\ status'[d] = "failed" /\ UNCHANGED ref[d]
       /\ reason'[d] = IF d \in Polled THEN "carrier_rejected" ELSE "none"

\* A confirmation is the one of the delivery's channel; a second one changes nothing.
LEMMA ConfirmedRow ==
    ASSUME IInv, ReasonInv, NEW d \in Delivery, d \in keys, ref[d] # NoRef, NEW e \in Delivery,
           WriteConfirmed(d, fate[ref[d]], IF d \in Polled /\ fate[ref[d]] = "failed"
                                           THEN "carrier_rejected" ELSE "none")
    PROVE  RowMoves(e)
<1>1. /\ fate[ref[d]] \in {"delivered", "failed"} /\ status[d] \in {"sent", fate[ref[d]]}
      /\ status \in [Delivery -> Status] /\ reason \in [Delivery -> Reason]
  BY DEF IInv, TypeOK, StoreTypeOK, WorkerTypeOK, RefInv, OutcomeIsProviders
<1>2. UNCHANGED ref /\ status' = [status EXCEPT ![d] = fate[ref[d]]]
  BY DEF WriteConfirmed, Write
<1>3. CASE e # d
  BY <1>1, <1>2, <1>3 DEF WriteConfirmed, RowMoves
<1>4. CASE e = d /\ fate[ref[d]] = "delivered"
  <2>1. UNCHANGED reason /\ status'[d] = "delivered"
    BY <1>1, <1>2, <1>4 DEF WriteConfirmed
  <2> QED BY <1>1, <1>2, <1>4, <2>1 DEF RowMoves
<1>5. CASE e = d /\ fate[ref[d]] = "failed"
  <2>1. /\ status'[d] = "failed"
        /\ reason'[d] = IF d \in Polled THEN "carrier_rejected" ELSE "none"
    BY <1>1, <1>2, <1>5 DEF WriteConfirmed
  <2> QED BY <1>1, <1>2, <1>5, <2>1 DEF RowMoves, ReasonInv
<1> QED BY <1>1, <1>3, <1>4, <1>5

\* What a task records is the first that happens to a queued row, or validation's
\* verdict once more.
LEMMA RecordedRow ==
    ASSUME IInv, NEW w \in Worker, RecordWrite(w), NEW e \in Delivery
    PROVE  RowMoves(e)
<1> DEFINE d == job[w].on
           out == job[w].out
<1>1. /\ d \in Delivery /\ status[d] # "none" /\ job[w].pc = "write" /\ JobOK(job[w])
      /\ status \in [Delivery -> Status] /\ reason \in [Delivery -> Reason]
      /\ ref \in [Delivery -> Ref \cup {NoRef}]
  BY DEF RecordWrite, IInv, TypeOK, StoreTypeOK, JobInv, JobOK
<1>2. status[d] = "queued" => ref[d] = NoRef
  <2>1. ASSUME ref[d] # NoRef
        PROVE  status[d] \in {"sent", fate[ref[d]]} /\ ref[d] \in Ref
    BY <1>1, <2>1 DEF IInv, RefInv, OutcomeIsProviders
  <2>2. fate \in [Ref -> {"none", "delivered", "failed"}]
    BY DEF IInv, TypeOK, WorkerTypeOK
  <2> QED BY <2>1, <2>2
<1>3. CASE e # d
  <2>1. CASE out.to = "sent"
    BY <1>1, <1>3, <2>1 DEF RecordWrite, WriteSent, Write, RowMoves
  <2>2. CASE out.to # "sent"
    BY <1>1, <1>3, <2>2 DEF RecordWrite, WriteFailed, Write, RowMoves
  <2> QED BY <2>1, <2>2
<1>4. CASE e = d /\ Verdict(d) = "none"
  <2>1. status[d] = "queued"
    BY <1>1, <1>4 DEF IInv, SingleSender, Sending, Sends
  <2>2. CASE out.to = "sent"
    BY <1>1, <1>4, <2>1, <2>2 DEF RecordWrite, WriteSent, Write, RowMoves
  <2>3. CASE out.to # "sent"
    <3>1. status'[d] = "failed" /\ ref' = ref
      BY <1>1, <2>3 DEF RecordWrite, WriteFailed, Write
    <3> QED BY <1>2, <1>4, <2>1, <3>1 DEF RowMoves
  <2> QED BY <2>2, <2>3
<1>5. CASE e = d /\ Verdict(d) # "none"
  <2>1. /\ out = Failed(Verdict(d)) /\ d \notin keys /\ ref[d] = NoRef /\ status[d] \in {"queued", "failed"}
        /\ status[d] = "failed" => reason[d] = Verdict(d)
    BY <1>1, <1>5 DEF JobOK, IInv, KeyInv, ValidationDecides
  <2>2. WriteFailed(d, job[w].seen, Verdict(d))
    BY <2>1 DEF RecordWrite, Failed
  <2>3. status'[d] = "failed" /\ ref' = ref /\ reason'[d] = Verdict(d)
    BY <1>1, <2>2 DEF WriteFailed, Write
  <2> QED BY <1>5, <2>1, <2>3 DEF RowMoves
<1> QED BY <1>3, <1>4, <1>5

\* Every step moves a row as RowMoves says.
LEMMA RowsMove ==
    ASSUME IInv, ChannelInv, ReasonInv, [Next]_vars, NEW e \in Delivery
    PROVE  RowMoves(e)
<1>1. ASSUME UNCHANGED <<status, ref, reason>>
      PROVE  RowMoves(e)
  BY <1>1 DEF RowMoves
<1>2. ASSUME NEW w \in Worker, RecordWrite(w)
      PROVE  RowMoves(e)
  BY <1>2, RecordedRow
<1>3. ASSUME NEW w \in Worker, ConfirmWrite(w)
      PROVE  RowMoves(e)
  <2> DEFINE d == job[w].on
  <2>1. /\ d \in Delivery /\ d \in keys /\ ref[d] # NoRef /\ d \in Polled
        /\ job[w].out.to = fate[ref[d]]
        /\ job[w].out.why = IF job[w].out.to = "failed" THEN "carrier_rejected" ELSE "none"
        /\ WriteConfirmed(d, job[w].out.to, job[w].out.why)
    BY <1>3 DEF ConfirmWrite, IInv, JobInv, JobOK, ChannelInv
  <2> QED BY <2>1, ConfirmedRow
<1>4. ASSUME NEW h \in Handler, ApplyCallback(h)
      PROVE  RowMoves(e)
  <2> DEFINE d == hook[h].on
  <2>1. /\ d \in Delivery /\ d \in keys /\ ref[d] # NoRef /\ d \notin Polled
        /\ WriteConfirmed(d, fate[ref[d]], "none")
    BY <1>4 DEF ApplyCallback, IInv, HookInv, ChannelInv
  <2> QED BY <2>1, ConfirmedRow
<1>5. ASSUME NEW k \in Dispatch, SaveDelivery(k)
      PROVE  RowMoves(e)
  <2>1. PICK d \in Unsaved(k) : CreateQueued(d)
    BY <1>5 DEF SaveDelivery
  <2>2. d \in Delivery /\ status[d] = "none" /\ status \in [Delivery -> Status]
    BY DEF Unsaved, IInv, TypeOK, StoreTypeOK
  <2>3. status' = [status EXCEPT ![d] = "queued"] /\ UNCHANGED <<ref, reason>>
    BY <2>1 DEF CreateQueued, Write
  <2> QED BY <2>2, <2>3 DEF RowMoves
<1>6. ASSUME NEW w \in Worker, Begin(w)
      PROVE  UNCHANGED dbVars
  BY <1>6 DEF Begin, BeginFanout, BeginDeliver, BeginPoll
<1>7. ASSUME NEW w \in Worker,
             FanoutPublish(w) \/ Claim(w) \/ CallRefused(w) \/ RecordRead(w) \/ EnqueuePoll(w)
      PROVE  UNCHANGED <<status, ref, reason>>
  BY <1>7 DEF FanoutPublish, Claim, ClaimKey, CallRefused, RecordRead, EnqueuePoll, dbVars
<1>8. ASSUME NEW w \in Worker,
             CallAccepted(w) \/ CallTimedOut(w) \/ CallTransient(w) \/ CallRejected(w)
      PROVE  UNCHANGED dbVars
  BY <1>8 DEF CallAccepted, CallTimedOut, CallTransient, CallRejected, AfterCall
<1>9. ASSUME NEW w \in Worker,
             PollAnswered(w) \/ PollPending(w) \/ PollError(w) \/ Crash(w)
      PROVE  UNCHANGED dbVars
  BY <1>9 DEF PollAnswered, PollPending, PollError, Crash
<1>10. CASE Redeliver
  BY <1>1, <1>10 DEF Redeliver, dbVars
<1>11. ASSUME NEW k \in Dispatch, StartSend(k) \/ EnqueueFanout(k) \/ AbortSend(k)
       PROVE  UNCHANGED <<status, ref, reason>>
  BY <1>11 DEF StartSend, CreateDispatch, EnqueueFanout, AbortSend, dbVars
<1>12. ASSUME NEW h \in Handler, CrashHook(h) \/ \E r \in Ref : ReceiveCallback(h, r)
       PROVE  UNCHANGED dbVars
  BY <1>12 DEF CrashHook, ReceiveCallback
<1>13. ASSUME NEW r \in Ref, LoseCallback(r) \/ RepeatCallback(r)
       PROVE  UNCHANGED dbVars
  BY <1>13 DEF LoseCallback, RepeatCallback
<1>14. CASE UNCHANGED vars
  BY <1>1, <1>14 DEF vars, dbVars
<1> QED
  BY <1>1, <1>2, <1>3, <1>4, <1>5, <1>6, <1>7, <1>8, <1>9, <1>10, <1>11, <1>12, <1>13, <1>14
     DEF Next, WorkerStep, WorkerNext, TaskStep, SendStep, dbVars

\* So a reason comes with a failure, and with the channel's own.
LEMMA ReasonKept ==
    ASSUME IInv, ChannelInv, ReasonInv, [Next]_vars
    PROVE  ReasonInv'
<1>1. ASSUME NEW d \in Delivery
      PROVE  /\ status'[d] # "failed" => reason'[d] = "none"
             /\ status'[d] = "failed" /\ ref'[d] # NoRef =>
                    reason'[d] = IF d \in Polled THEN "carrier_rejected" ELSE "none"
  BY <1>1, RowsMove DEF RowMoves, ReasonInv
<1> QED BY <1>1 DEF ReasonInv

\* No edge overwrites a recorded terminal state (data-model.md:178): record_failed
\* (sync_repo.py:109) never asks whether the row is final, and two polls or two posts
\* of a callback may both find it sent, but what the later one writes is there already.
THEOREM FinalRowsStay == Spec => FinalRowStays
<1>1. IInv /\ ChannelInv /\ ReasonInv /\ [Next]_vars => ChannelInv' /\ ReasonInv'
  BY ChannelKept, ReasonKept
<1>2. IInv /\ ChannelInv /\ ReasonInv /\ [Next]_vars =>
          [\A d \in Delivery : status[d] \in Life!Terminal =>
               UNCHANGED <<status[d], ref[d], reason[d]>>]_vars
  BY RowsMove DEF RowMoves, Life!Terminal
<1> QED BY <1>1, <1>2, InitChannel, Invariance, PTL DEF Spec, FinalRowStays

(***************************************************************************)
(* Nobody is left behind: a queued delivery is awaited or being sent,      *)
(* unless something was cut short.                                         *)
(***************************************************************************)

\* A step of the rows, keys and requests no thread and no message takes part in.
LEMMA HandsRest ==
    ASSUME StrandInv, faults' = faults, UNCHANGED <<status, keys, api, queueVars, job, dispatched>>
    PROVE  StrandInv'
<1>1. UNCHANGED <<status, keys, api, job, dispatched, fanoutQ, deliverQ>>
  BY DEF queueVars
<1>2. Listed'
  BY <1>1 DEF StrandInv, Listed
<1>3. ASSUME NEW d \in Delivery, InHand(d)
      PROVE  InHand(d)'
  <2>1. Awaited(d)' <=> Awaited(d)
    BY <1>1 DEF Awaited
  <2>2. \A w \in Worker : Sending(w, d)' <=> Sending(w, d)
    BY <1>1 DEF Sending, Sends, Verdict
  <2> QED BY <1>1, <1>3, <2>1, <2>2 DEF InHand
<1> QED BY <1>2, <1>3 DEF StrandInv

\* What every start of a task does and does not do.
LEMMA BeginContinues ==
    ASSUME NEW w \in Worker, Begin(w)
    PROVE  /\ job[w].pc = "idle"
           /\ UNCHANGED <<status, keys, dispatched, faults>>
           /\ \E j : Continue(w, j)
<1>1. ASSUME NEW k \in Dispatch, BeginFanout(w, k)
      PROVE  job[w].pc = "idle" /\ UNCHANGED <<dbVars, faults>> /\ \E j : Continue(w, j)
  BY <1>1 DEF BeginFanout, Finish
<1>2. ASSUME NEW d \in Delivery, BeginDeliver(w, d)
      PROVE  job[w].pc = "idle" /\ UNCHANGED <<dbVars, faults>> /\ \E j : Continue(w, j)
  BY <1>2 DEF BeginDeliver, Finish
<1>3. ASSUME NEW d \in Delivery, NEW n \in 0 .. MaxPolls, BeginPoll(w, d, n)
      PROVE  job[w].pc = "idle" /\ UNCHANGED <<dbVars, faults>> /\ \E j : Continue(w, j)
  BY <1>3 DEF BeginPoll, Finish
<1> QED BY <1>1, <1>2, <1>3 DEF Begin, dbVars

\* A thread starts a task.
LEMMA BeginHands ==
    ASSUME IInv, StrandInv, NEW w \in Worker, Begin(w), UNCHANGED apiVars
    PROVE  StrandInv'
<1> USE StoreAssumption, WorkerAssumption
<1>1. /\ job \in [Worker -> Job] /\ fanoutQ \in [Dispatch -> Nat] /\ deliverQ \in [Delivery -> Nat]
      /\ job[w].pc = "idle"
      /\ UNCHANGED <<status, keys, api, dispatched, faults>>
  BY BeginContinues DEF IInv, TypeOK, WorkerTypeOK, apiVars
<1>2. Listed'
  BY <1>1 DEF StrandInv, Listed
<1>3. ASSUME NEW d \in Delivery, InHand(d), status[d] = "queued", faults = 0
      PROVE  InHand(d)'
  <2>1. \A v \in Worker \ {w} : job'[v] = job[v]
    BY <1>1, BeginContinues, OthersStay
  <2>2. CASE d \in keys
    <3>1. PICK v \in Worker : Sending(v, d)
      BY <1>3, <2>2 DEF InHand
    <3>2. job'[v] = job[v]
      BY <1>1, <2>1, <3>1 DEF Sending, Sends
    <3> QED BY <1>1, <2>2, <3>1, <3>2 DEF InHand, Sending, Sends, Verdict
  <2>3. CASE d \notin keys
    <3>1. Awaited(d)
      BY <1>3, <2>3 DEF InHand
    <3>2. Awaited(d)'
      <4>1. ASSUME NEW v \in Worker, \/ job[v].pc = "fanout" /\ d \in job[v].todo
                                     \/ job[v].pc \in {"claim", "record", "write"} /\ job[v].on = d
            PROVE  Awaited(d)'
        BY <1>1, <2>1, <4>1 DEF Awaited
      <4>2. CASE api[DispatchOf[d]] \in {"saving", "enqueue"}
        BY <1>1, <4>2 DEF Awaited
      <4>3. CASE fanoutQ[DispatchOf[d]] > 0
        <5>1. CASE \E k \in Dispatch : BeginFanout(w, k)
          <6>1. PICK k \in Dispatch : BeginFanout(w, k)
            BY <5>1
          <6>2. CASE k # DispatchOf[d]
            BY <1>1, <4>3, <6>1, <6>2 DEF BeginFanout, Awaited
          <6>3. CASE k = DispatchOf[d]
            <7>1. k \in dispatched /\ d \in QueuedIds(k)
              BY <1>3, <6>3 DEF StrandInv, Listed, QueuedIds
            <7>2. job'[w] = [Idle EXCEPT !.pc = "fanout", !.todo = QueuedIds(k)]
              BY <1>1, <6>1, <7>1 DEF BeginFanout, Continue
            <7>3. job'[w].pc = "fanout" /\ d \in job'[w].todo
              BY <7>1, <7>2 DEF Idle
            <7> QED BY <7>3 DEF Awaited
          <6> QED BY <6>2, <6>3
        <5>2. CASE ~\E k \in Dispatch : BeginFanout(w, k)
          <6>1. fanoutQ' = fanoutQ
            BY <5>2 DEF Begin, BeginDeliver, BeginPoll
          <6> QED BY <4>3, <6>1 DEF Awaited
        <5> QED BY <5>1, <5>2
      <4>4. CASE deliverQ[d] > 0
        <5>1. CASE BeginDeliver(w, d)
          <6>1. \/ job'[w] = [Idle EXCEPT !.pc = "claim", !.on = d]
                \/ job'[w] = [Idle EXCEPT !.pc = "record", !.on = d, !.out = Failed(Verdict(d))]
            BY <1>1, <1>3, <5>1 DEF BeginDeliver, Continue
          <6>2. job'[w].pc \in {"claim", "record"} /\ job'[w].on = d
            BY <6>1 DEF Idle
          <6> QED BY <6>2 DEF Awaited
        <5>2. CASE ~BeginDeliver(w, d)
          <6>1. deliverQ'[d] = deliverQ[d]
            BY <1>1, <5>2 DEF Begin, BeginFanout, BeginDeliver, BeginPoll
          <6> QED BY <4>4, <6>1 DEF Awaited
        <5> QED BY <5>1, <5>2
      <4> QED BY <3>1, <4>1, <4>2, <4>3, <4>4 DEF Awaited
    <3> QED BY <1>1, <2>3, <3>2 DEF InHand
  <2> QED BY <2>2, <2>3
<1>4. ASSUME NEW d \in Delivery, faults = 0
      PROVE  InHand(d)'
  BY <1>1, <1>3, <1>4 DEF InHand, StrandInv
<1> QED BY <1>1, <1>2, <1>4 DEF StrandInv

\* Thread v is to come to d before it is claimed.
Fetches(v, d) == \/ job[v].pc = "fanout" /\ d \in job[v].todo
                 \/ job[v].pc \in {"claim", "record", "write"} /\ job[v].on = d

\* A step of thread w about another delivery, or one that w goes on with.
LEMMA HandsPass ==
    ASSUME NEW d \in Delivery, InHand(d), NEW w \in Worker,
           status[d] = "queued", UNCHANGED <<api, fanoutQ>>, d \in keys' <=> d \in keys,
           deliverQ[d] > 0 => deliverQ'[d] > 0,
           \A v \in Worker \ {w} : job'[v] = job[v],
           Sending(w, d) => Sending(w, d)',
           d \notin keys /\ Fetches(w, d) => Awaited(d)'
    PROVE  InHand(d)'
<1>1. CASE d \in keys
  <2>1. PICK v \in Worker : Sending(v, d)
    BY <1>1 DEF InHand
  <2>2. CASE v = w
    BY <1>1, <2>1, <2>2 DEF InHand
  <2>3. CASE v # w
    <3>1. Sending(v, d)'
      BY <2>1, <2>3 DEF Sending, Sends, Verdict
    <3> QED BY <1>1, <3>1 DEF InHand
  <2> QED BY <2>2, <2>3
<1>2. CASE d \notin keys
  <2>1. Awaited(d)
    BY <1>2 DEF InHand
  <2>2. \A v \in Worker \ {w} : Fetches(v, d) => Fetches(v, d)'
    BY DEF Fetches
  <2>3. Awaited(d)'
    BY <1>2, <2>1, <2>2 DEF Awaited, Fetches
  <2> QED BY <1>2, <2>3 DEF InHand
<1> QED BY <1>1, <1>2

\* What every step of a running task does and does not do.
LEMMA TaskContinues ==
    ASSUME NEW w \in Worker, TaskStep(w)
    PROVE  /\ UNCHANGED <<dispatched, fanoutQ, faults>>
           /\ \E j : Continue(w, j)
           /\ \/ UNCHANGED status
              \/ /\ job[w].pc \in {"write", "confirm"}
                 /\ \E to : status' = [status EXCEPT ![job[w].on] = to]
<1>1. CASE FanoutPublish(w)
  BY <1>1 DEF FanoutPublish, Finish, dbVars
<1>2. CASE Claim(w)
  BY <1>2 DEF Claim, ClaimKey, Finish, dbVars, queueVars
<1>3. CASE CallAccepted(w) \/ CallTimedOut(w) \/ CallTransient(w) \/ CallRejected(w) \/ CallRefused(w)
  BY <1>3 DEF CallAccepted, CallTimedOut, CallTransient, CallRejected, CallRefused, AfterCall, dbVars, queueVars
<1>4. CASE RecordRead(w) \/ EnqueuePoll(w) \/ PollAnswered(w) \/ PollPending(w) \/ PollError(w)
  BY <1>4 DEF RecordRead, EnqueuePoll, PollAnswered, PollPending, PollError, Finish, dbVars, queueVars
<1>5. CASE RecordWrite(w)
  BY <1>5 DEF RecordWrite, WriteSent, WriteFailed, Write, Finish, queueVars
<1>6. CASE ConfirmWrite(w)
  BY <1>6 DEF ConfirmWrite, WriteConfirmed, Write, Finish, queueVars
<1> QED BY <1>1, <1>2, <1>3, <1>4, <1>5, <1>6 DEF TaskStep

\* A step of a running task: it goes on with the delivery, or it ends.
LEMMA TaskHands ==
    ASSUME IInv, OrderInv, StrandInv, NEW w \in Worker, TaskStep(w), UNCHANGED apiVars
    PROVE  StrandInv'
<1> USE StoreAssumption, WorkerAssumption
<1>1. /\ job \in [Worker -> Job] /\ deliverQ \in [Delivery -> Nat] /\ status \in [Delivery -> Status]
      /\ JobOK(job[w])
  BY DEF IInv, TypeOK, StoreTypeOK, WorkerTypeOK, JobInv
<1>2. /\ UNCHANGED <<api, dispatched, faults, fanoutQ>>
      /\ \A v \in Worker \ {w} : job'[v] = job[v]
  BY <1>1, TaskContinues, OthersStay DEF apiVars
<1>3. [Next]_vars
  BY DEF Next, WorkerStep, WorkerNext
<1>4. RowsStay
  BY <1>3, RowsKept
<1>5. ASSUME NEW j, Continue(w, j)
      PROVE  job'[w] = j
  BY <1>1, <1>5, OthersStay
<1>6. ASSUME NEW d \in Delivery, InHand(d), status[d] = "queued", status'[d] = "queued"
      PROVE  InHand(d)'
  <2>1. CASE FanoutPublish(w)
    <3>1. PICK e \in job[w].todo :
             /\ job[w].pc = "fanout"
             /\ deliverQ' = [deliverQ EXCEPT ![e] = @ + 1]
             /\ IF job[w].todo = {e}
                THEN Finish(w)
                ELSE Continue(w, [job[w] EXCEPT !.todo = job[w].todo \ {e}])
             /\ UNCHANGED dbVars
      BY <2>1 DEF FanoutPublish
    <3>2. deliverQ'[e] > 0 /\ (deliverQ[d] > 0 => deliverQ'[d] > 0) /\ e \in Delivery
      BY <1>1, <3>1 DEF Job
    <3>3. ASSUME d # e, d \in job[w].todo
          PROVE  job'[w].pc = "fanout" /\ d \in job'[w].todo
      <4>1. Continue(w, [job[w] EXCEPT !.todo = job[w].todo \ {e}])
        BY <3>1, <3>3
      <4>2. job'[w] = [job[w] EXCEPT !.todo = job[w].todo \ {e}]
        BY <1>5, <4>1
      <4> QED BY <1>1, <3>1, <3>3, <4>2 DEF Job
    <3>4. Fetches(w, d) => Awaited(d)'
      BY <3>1, <3>2, <3>3 DEF Fetches, Awaited
    <3>5. ~Sending(w, d)
      BY <3>1 DEF Sending, Sends
    <3> QED BY <1>2, <1>6, <3>1, <3>2, <3>4, <3>5, HandsPass DEF dbVars
  <2>2. CASE Claim(w)
    <3>1. job[w].pc = "claim" /\ deliverQ' = deliverQ /\ ~Sending(w, d)
      BY <2>2 DEF Claim, queueVars, Sending, Sends
    <3>2. CASE ClaimKey(job[w].on) /\ Continue(w, [job[w] EXCEPT !.pc = "call"])
      <4>1. job'[w] = [job[w] EXCEPT !.pc = "call"]
        BY <1>5, <3>2
      <4>2. CASE d = job[w].on
        <5>1. Sending(w, d)'
          BY <1>1, <4>1, <4>2 DEF Sending, Sends, Job
        <5> QED BY <3>2, <4>2, <5>1 DEF InHand, ClaimKey
      <4>3. CASE d # job[w].on
        BY <1>2, <1>6, <3>1, <3>2, <4>3, HandsPass DEF Fetches, ClaimKey
      <4> QED BY <4>2, <4>3
    <3>3. CASE job[w].on \in keys /\ UNCHANGED dbVars
      BY <1>2, <1>6, <3>1, <3>3, HandsPass DEF Fetches, dbVars
    <3> QED BY <2>2, <3>2, <3>3 DEF Claim
  <2>3. ASSUME job[w].pc = "call", job'[w].pc \in {"call", "record"}, job'[w].on = job[w].on,
               UNCHANGED <<status, keys, deliverQ>>
        PROVE  InHand(d)'
    <3>1. ~Fetches(w, d)
      BY <2>3 DEF Fetches
    <3>2. Sending(w, d) => Sending(w, d)'
      BY <1>1, <2>3 DEF Sending, Sends, Verdict, IInv, KeyInv, SingleSender
    <3> QED BY <1>2, <1>6, <2>3, <3>1, <3>2, HandsPass
  <2>4. CASE CallAccepted(w) \/ CallTimedOut(w) \/ CallTransient(w) \/ CallRejected(w)
    <3>1. PICK out : AfterCall(w, out) /\ job[w].pc = "call"
      BY <2>4 DEF CallAccepted, CallTimedOut, CallTransient, CallRejected
    <3>2. job'[w] = [job[w] EXCEPT !.count = job[w].count + 1, !.out = out,
                                   !.pc = IF out = NoOutcome THEN "call" ELSE "record"]
      BY <1>5, <3>1 DEF AfterCall
    <3>3. job'[w].pc \in {"call", "record"} /\ job'[w].on = job[w].on
      BY <1>1, <3>2 DEF Job
    <3> QED BY <2>3, <3>1, <3>3 DEF AfterCall, dbVars, queueVars
  <2>5. CASE CallRefused(w)
    <3>1. job'[w] = [job[w] EXCEPT !.pc = "record", !.out = Failed("channel_error")]
      BY <1>5, <2>5 DEF CallRefused
    <3>2. job'[w].pc = "record" /\ job'[w].on = job[w].on
      BY <1>1, <3>1 DEF Job
    <3> QED BY <2>3, <2>5, <3>2 DEF CallRefused, dbVars, queueVars
  <2>6. CASE RecordRead(w)
    <3>1. job'[w] = [job[w] EXCEPT !.pc = "write", !.seen = status[job[w].on]]
      BY <1>5, <2>6 DEF RecordRead
    <3>2. job[w].pc = "record" /\ job'[w].pc = "write" /\ job'[w].on = job[w].on
      BY <1>1, <2>6, <3>1 DEF Job, RecordRead
    <3>3. Sending(w, d) => Sending(w, d)'
      BY <3>2 DEF Sending, Sends, Verdict
    <3>4. Fetches(w, d) => Awaited(d)'
      BY <3>2 DEF Fetches, Awaited
    <3> QED BY <1>2, <1>6, <2>6, <3>3, <3>4, HandsPass DEF RecordRead, dbVars, queueVars
  <2>7. CASE RecordWrite(w)
    <3>1. /\ keys' = keys /\ deliverQ' = deliverQ /\ job[w].pc = "write" /\ job[w].on \in Delivery
          /\ \E to \in {"sent", "failed"} : status' = [status EXCEPT ![job[w].on] = to]
      BY <1>1, <2>7 DEF RecordWrite, WriteSent, WriteFailed, Write, queueVars, JobOK
    <3>2. d # job[w].on
      BY <1>1, <1>6, <3>1
    <3> QED BY <1>2, <1>6, <3>1, <3>2, HandsPass DEF Fetches, Sending, Sends
  <2>8. CASE EnqueuePoll(w) \/ PollAnswered(w) \/ PollPending(w) \/ PollError(w) \/ ConfirmWrite(w)
    <3>1. job[w].pc \in {"enqueue", "poll", "confirm"} /\ keys' = keys /\ deliverQ' = deliverQ
      BY <2>8 DEF EnqueuePoll, PollAnswered, PollPending, PollError, ConfirmWrite, WriteConfirmed, dbVars, queueVars
    <3> QED BY <1>2, <1>6, <3>1, HandsPass DEF Fetches, Sending, Sends
  <2> QED BY <2>1, <2>2, <2>4, <2>5, <2>6, <2>7, <2>8 DEF TaskStep
<1>7. Listed'
  <2>1. \A d \in Delivery : status'[d] # "none" => status[d] # "none"
    BY <1>1, TaskContinues DEF JobOK
  <2> QED BY <1>2, <2>1 DEF StrandInv, Listed
<1>8. ASSUME NEW d \in Delivery, faults = 0
      PROVE  InHand(d)'
  <2>1. CASE status'[d] = "queued"
    <3>1. status[d] # "none"
      BY <1>1, <2>1, TaskContinues DEF JobOK
    <3> QED BY <1>4, <1>6, <1>8, <2>1, <3>1 DEF RowsStay, StrandInv
  <2>2. CASE status'[d] # "queued"
    BY <2>2 DEF InHand
  <2> QED BY <2>1, <2>2
<1> QED BY <1>2, <1>7, <1>8 DEF StrandInv

\* Every step looks after what is queued.
LEMMA HandsKept ==
    ASSUME IInv, OrderInv, StrandInv, [Next]_vars
    PROVE  StrandInv'
<1> USE StoreAssumption, WorkerAssumption
<1>1. /\ status \in [Delivery -> Status] /\ api \in [Dispatch -> {"idle", "saving", "enqueue", "done", "aborted"}]
      /\ fanoutQ \in [Dispatch -> Nat] /\ deliverQ \in [Delivery -> Nat] /\ faults \in Nat
  BY DEF IInv, TypeOK, StoreTypeOK, WorkerTypeOK
<1>2. RowsStay
  BY RowsKept
<1>3. ASSUME faults' = faults + 1, Listed'
      PROVE  StrandInv'
  BY <1>1, <1>3 DEF StrandInv
<1>4. ASSUME UNCHANGED <<status, api, dispatched>>
      PROVE  Listed'
  BY <1>4 DEF StrandInv, Listed
<1>5. CASE WorkerStep
  <2>1. ASSUME NEW w \in Worker, Begin(w) \/ TaskStep(w)
        PROVE  StrandInv'
    BY <1>5, <2>1, BeginHands, TaskHands DEF WorkerStep
  <2>2. ASSUME NEW w \in Worker, Crash(w)
        PROVE  StrandInv'
    BY <1>3, <1>4, <1>5, <2>2 DEF WorkerStep, Crash, dbVars, apiVars
  <2>3. CASE Redeliver
    <3>1. UNCHANGED <<status, keys, api, dispatched, job, faults>>
      BY <1>5, <2>3 DEF WorkerStep, Redeliver, dbVars, apiVars
    <3>2. /\ \A k \in Dispatch : fanoutQ[k] > 0 => fanoutQ'[k] > 0
          /\ \A d \in Delivery : deliverQ[d] > 0 => deliverQ'[d] > 0
      BY <1>1, <2>3 DEF Redeliver
    <3>3. ASSUME NEW d \in Delivery, InHand(d)
          PROVE  InHand(d)'
      <4>1. Awaited(d) => Awaited(d)'
        BY <3>1, <3>2 DEF Awaited
      <4>2. \A w \in Worker : Sending(w, d) => Sending(w, d)'
        BY <3>1 DEF Sending, Sends, Verdict
      <4> QED BY <3>1, <3>3, <4>1, <4>2 DEF InHand
    <3> QED BY <1>4, <3>1, <3>3 DEF StrandInv
  <2> QED BY <1>5, <2>1, <2>2, <2>3 DEF WorkerStep, WorkerNext
<1>6. ASSUME NEW k \in Dispatch, SendStep(k) \/ AbortSend(k)
      PROVE  StrandInv'
  <2>1. CASE AbortSend(k)
    <3>1. Listed'
      BY <1>1, <2>1 DEF AbortSend, dbVars, StrandInv, Listed
    <3> QED BY <1>3, <2>1, <3>1 DEF AbortSend
  <2>2. CASE StartSend(k)
    <3>1. Listed'
      BY <1>1, <2>2 DEF StartSend, CreateDispatch, StrandInv, Listed
    <3>2. UNCHANGED <<status, keys, fanoutQ, deliverQ, job, faults>> /\ api[k] = "idle"
          /\ api' = [api EXCEPT ![k] = "saving"]
      BY <2>2 DEF StartSend, CreateDispatch, workerVars, queueVars
    <3>3. ASSUME NEW d \in Delivery, InHand(d)
          PROVE  InHand(d)'
      <4>1. Awaited(d) => Awaited(d)'
        BY <1>1, <3>2 DEF Awaited
      <4>2. \A w \in Worker : Sending(w, d) => Sending(w, d)'
        BY <3>2 DEF Sending, Sends, Verdict
      <4> QED BY <3>2, <3>3, <4>1, <4>2 DEF InHand
    <3> QED BY <3>1, <3>2, <3>3 DEF StrandInv
  <2>3. CASE SaveDelivery(k)
    <3>1. PICK e \in Unsaved(k) : /\ CreateQueued(e)
                                  /\ api' = IF Unsaved(k) = {e} THEN [api EXCEPT ![k] = "enqueue"] ELSE api
      BY <2>3 DEF SaveDelivery
    <3>2. /\ api[k] = "saving" /\ e \in Delivery /\ DispatchOf[e] = k /\ status[e] = "none"
          /\ status' = [status EXCEPT ![e] = "queued"]
          /\ UNCHANGED <<keys, dispatched, fanoutQ, deliverQ, job, faults>>
      BY <2>3, <3>1 DEF SaveDelivery, Unsaved, CreateQueued, Write, workerVars, queueVars
    <3>3. api'[k] \in {"saving", "enqueue"} /\ \A l \in Dispatch \ {k} : api'[l] = api[l]
      BY <1>1, <3>1, <3>2
    <3>4. Listed'
      BY <1>1, <3>2, <3>3 DEF StrandInv, Listed
    <3>5. ASSUME NEW d \in Delivery, InHand(d)
          PROVE  InHand(d)'
      <4>1. CASE DispatchOf[d] = k /\ d \notin keys
        BY <3>2, <3>3, <4>1 DEF InHand, Awaited
      <4>2. CASE d \in keys
        <5>1. d # e
          BY <3>2, <4>2 DEF IInv, KeyInv
        <5>2. \A w \in Worker : Sending(w, d) => Sending(w, d)'
          BY <3>2 DEF Sending, Sends, Verdict
        <5> QED BY <1>1, <3>2, <3>5, <4>2, <5>1, <5>2 DEF InHand
      <4>3. CASE DispatchOf[d] # k /\ d \notin keys
        <5>1. Awaited(d) => Awaited(d)'
          BY <3>2, <3>3, <4>3 DEF Awaited
        <5> QED BY <1>1, <3>2, <3>5, <4>3, <5>1 DEF InHand
      <4> QED BY <4>1, <4>2, <4>3
    <3> QED BY <3>2, <3>4, <3>5 DEF StrandInv
  <2>4. CASE EnqueueFanout(k)
    <3>1. /\ api' = [api EXCEPT ![k] = "done"] /\ fanoutQ' = [fanoutQ EXCEPT ![k] = @ + 1]
          /\ UNCHANGED <<status, keys, dispatched, deliverQ, job, faults>>
          /\ api[k] = "enqueue"
      BY <2>4 DEF EnqueueFanout, dbVars
    <3>2. Listed'
      BY <1>1, <3>1 DEF StrandInv, Listed
    <3>3. ASSUME NEW d \in Delivery, InHand(d)
          PROVE  InHand(d)'
      <4>1. Awaited(d) => Awaited(d)'
        BY <1>1, <3>1 DEF Awaited
      <4>2. \A w \in Worker : Sending(w, d) => Sending(w, d)'
        BY <3>1 DEF Sending, Sends, Verdict
      <4> QED BY <3>1, <3>3, <4>1, <4>2 DEF InHand
    <3> QED BY <3>1, <3>2, <3>3 DEF StrandInv
  <2> QED BY <1>6, <2>1, <2>2, <2>3, <2>4 DEF SendStep
<1>7. ASSUME NEW h \in Handler, ApplyCallback(h)
      PROVE  StrandInv'
  <2>1. /\ hook[h].on \in Delivery /\ status[hook[h].on] # "none" /\ status[hook[h].on] # "queued"
        /\ status' = [status EXCEPT ![hook[h].on] = hook[h].to] /\ hook[h].to # "queued"
        /\ UNCHANGED <<keys, dispatched, api, fanoutQ, deliverQ, job, faults>>
    BY <1>7 DEF ApplyCallback, WriteConfirmed, Write, IInv, HookInv, RefInv, OutcomeIsProviders, TypeOK,
               WorkerTypeOK, StoreTypeOK, workerVars, queueVars
  <2>2. Listed'
    BY <1>1, <2>1 DEF StrandInv, Listed
  <2>3. ASSUME NEW d \in Delivery, InHand(d)
        PROVE  InHand(d)'
    <3>1. Awaited(d) => Awaited(d)'
      BY <2>1 DEF Awaited
    <3>2. \A w \in Worker : Sending(w, d) => Sending(w, d)'
      BY <2>1 DEF Sending, Sends, Verdict
    <3>3. status'[d] = "queued" => status[d] = "queued"
      BY <1>1, <2>1
    <3> QED BY <2>1, <2>3, <3>1, <3>2, <3>3 DEF InHand
  <2> QED BY <2>1, <2>2, <2>3 DEF StrandInv
<1>8. ASSUME NEW h \in Handler, CrashHook(h)
      PROVE  StrandInv'
  BY <1>3, <1>4, <1>8 DEF CrashHook, dbVars
<1>9. ASSUME NEW r \in Ref, LoseCallback(r)
      PROVE  StrandInv'
  BY <1>3, <1>4, <1>9 DEF LoseCallback, dbVars, apiVars
<1>10. ASSUME NEW r \in Ref, RepeatCallback(r) \/ \E h \in Handler : ReceiveCallback(h, r)
       PROVE  StrandInv'
  BY <1>10, HandsRest DEF RepeatCallback, ReceiveCallback, dbVars
<1>11. CASE UNCHANGED vars
  BY <1>11, HandsRest DEF vars, dbVars, workerVars, apiVars
<1> QED BY <1>5, <1>6, <1>7, <1>8, <1>9, <1>10, <1>11 DEF Next

\* When all is quiet and nothing was cut short, no delivery is still queued.
LEMMA QuietMeansDone == ASSUME IInv, StrandInv PROVE NothingStranded
<1> SUFFICES ASSUME Quiescent, faults = 0, NEW d \in Delivery, status[d] = "queued"
             PROVE  FALSE
  BY DEF NothingStranded
<1>1. DispatchOf[d] \in Dispatch /\ \A w \in Worker : job[w].pc = "idle"
  BY StoreAssumption DEF Quiescent, Idle
<1>2. ~Awaited(d)
  BY <1>1 DEF Awaited, Quiescent
<1>3. ~\E w \in Worker : Sending(w, d)
  BY <1>1 DEF Sending, Sends
<1> QED BY <1>2, <1>3 DEF StrandInv, InHand

\* At first there is no delivery.
LEMMA InitStrand == ASSUME Init PROVE StrandInv
BY StoreAssumption DEF Init, StoreInit, WorkerInit, StrandInv, Listed, InHand

\* When nothing is queued, running or on its way and nothing was cut short, no
\* delivery is still queued, however many messages came twice: whoever claims a key
\* records how the send ended (deliver_one, IdempotentSender), and every committed row
\* is fanned out (send_template, dispatch_fanout).
THEOREM NobodyLeftBehind == Spec => []NothingStranded
<1>1. Init => OrderInv
  BY InitOrder
<1>2. Init => StrandInv
  BY InitStrand
<1>3. IInv /\ OrderInv /\ [Next]_vars => OrderInv'
  BY OrderKept
<1>4. IInv /\ OrderInv /\ StrandInv /\ [Next]_vars => StrandInv'
  BY HandsKept
<1>5. IInv /\ StrandInv => NothingStranded
  BY QuietMeansDone
<1> QED BY <1>1, <1>2, <1>3, <1>4, <1>5, Invariance, PTL DEF Spec

-----------------------------------------------------------------------------
(***************************************************************************)
(* Histories are paths, as long as nothing comes in a second copy: there   *)
(* is one message or task about a delivery and one callback about a send,  *)
(* so a row stays as a task has read it.                                   *)
(***************************************************************************)

-----------------------------------------------------------------------------
(* One place *)

\* Nothing about d comes to a place where nothing was.
Stays(d) == /\ \A p \in Place : Found(d, p)' => Found(d, p)
            /\ fanoutQ'[DispatchOf[d]] <= fanoutQ[DispatchOf[d]]
            /\ deliverQ'[d] <= deliverQ[d]
            /\ \A n \in 0 .. MaxPolls : pollQ'[<<d, n>>] <= pollQ[<<d, n>>]

\* What was about d in place p is in place q, if anywhere.
Moves(d, p, q) == /\ p \in Place /\ Found(d, p)
                  /\ \A x \in Place : Found(d, x)' => x = q \/ (x # p /\ Found(d, x))
                  /\ fanoutQ'[DispatchOf[d]] <= 1
                  /\ deliverQ'[d] <= 1
                  /\ \A n \in 0 .. MaxPolls : pollQ'[<<d, n>>] <= 1

\* Either way it is in one place, or in none.
LEMMA PlaceKept ==
    ASSUME IInv, TypeOK', NEW d \in Delivery, OnePlace(d), UNCHANGED api,
           Stays(d) \/ \E p, q : Moves(d, p, q)
    PROVE  OnePlace(d)'
<1> USE StoreAssumption, WorkerAssumption
<1>1. /\ fanoutQ \in [Dispatch -> Nat] /\ deliverQ \in [Delivery -> Nat]
      /\ pollQ \in [Delivery \X (0 .. MaxPolls) -> Nat]
      /\ fanoutQ' \in [Dispatch -> Nat] /\ deliverQ' \in [Delivery -> Nat]
      /\ pollQ' \in [Delivery \X (0 .. MaxPolls) -> Nat]
  BY DEF IInv, TypeOK, WorkerTypeOK
<1>2. Place' = Place
  BY DEF Place
<1>3. CASE Stays(d)
  <2>1. fanoutQ'[DispatchOf[d]] <= 1 /\ deliverQ'[d] <= 1
    BY <1>1, <1>3 DEF Stays, OnePlace
  <2>2. \A n \in 0 .. MaxPolls : pollQ'[<<d, n>>] <= 1
    BY <1>1, <1>3 DEF Stays, OnePlace
  <2> HIDE DEF Found, Place
  <2> QED BY <1>3, <2>1, <2>2, <1>2 DEF Stays, OnePlace
<1>4. ASSUME NEW p, NEW q, Moves(d, p, q)
      PROVE  OnePlace(d)'
  <2>1. \A x \in Place : Found(d, x)' => x = q
    BY <1>4 DEF Moves, OnePlace
  <2>2. api[DispatchOf[d]] = "done"
    BY <1>4 DEF Moves, OnePlace
  <2> QED BY <1>2, <1>4, <2>1, <2>2 DEF Moves, OnePlace
<1> QED BY <1>3, <1>4

\* The places of a step of thread w that takes and gives no message.
LEMMA LocalStays ==
    ASSUME IInv, NEW w \in Worker, NEW j, Continue(w, j), UNCHANGED queueVars, NEW d \in Delivery,
           d \in j.todo => d \in job[w].todo,
           j.on = d => job[w].on = d
    PROVE  Stays(d)
<1> USE StoreAssumption, WorkerAssumption
<1>1. /\ fanoutQ \in [Dispatch -> Nat] /\ deliverQ \in [Delivery -> Nat]
      /\ pollQ \in [Delivery \X (0 .. MaxPolls) -> Nat] /\ job \in [Worker -> Job]
  BY DEF IInv, TypeOK, WorkerTypeOK
<1>2. job'[w] = j /\ \A v \in Worker \ {w} : job'[v] = job[v]
  BY <1>1 DEF Continue
<1>3. UNCHANGED <<fanoutQ, deliverQ, pollQ>>
  BY DEF queueVars
<1>4. \A p \in Place : Found(d, p)' => Found(d, p)
  BY <1>2, <1>3 DEF Place, Found
<1> QED BY <1>1, <1>3, <1>4 DEF Stays

\* A fan-out is taken: the ids it has read are with thread w.
LEMMA BeginFanoutPlace ==
    ASSUME IInv, IInv', Alone, NEW w \in Worker, NEW k \in Dispatch, BeginFanout(w, k), UNCHANGED api
    PROVE  Alone'
<1> USE StoreAssumption, WorkerAssumption
<1>1. /\ fanoutQ \in [Dispatch -> Nat] /\ deliverQ \in [Delivery -> Nat]
      /\ pollQ \in [Delivery \X (0 .. MaxPolls) -> Nat] /\ job \in [Worker -> Job]
      /\ TypeOK' /\ job[w].pc = "idle"
  BY DEF IInv, TypeOK, WorkerTypeOK, BeginFanout
<1>2. /\ fanoutQ' = [fanoutQ EXCEPT ![k] = @ - 1] /\ fanoutQ[k] > 0
      /\ UNCHANGED <<deliverQ, pollQ>>
      /\ \A v \in Worker \ {w} : job'[v] = job[v]
  BY <1>1 DEF BeginFanout, Continue, Finish
<1>3. job'[w].on = NoDelivery /\ job'[w].todo \subseteq QueuedIds(k)
  <2>1. CASE Continue(w, [Idle EXCEPT !.pc = "fanout", !.todo = QueuedIds(k)])
    <3>1. job'[w] = [Idle EXCEPT !.pc = "fanout", !.todo = QueuedIds(k)]
      BY <1>1, <2>1 DEF Continue
    <3> QED BY <3>1 DEF Idle
  <2>2. CASE Finish(w)
    <3>1. job'[w] = Idle
      BY <1>1, <2>2 DEF Continue, Finish
    <3> QED BY <3>1 DEF Idle
  <2> QED BY <2>1, <2>2 DEF BeginFanout
<1>4. ASSUME NEW d \in Delivery
      PROVE  OnePlace(d)'
  <2>1. CASE DispatchOf[d] = k
    <3>1. Found(d, <<"fanout", 0>>) /\ <<"fanout", 0>> \in Place /\ <<"ids", w>> \in Place
      BY <1>2, <2>1 DEF Found, Place
    <3>2. fanoutQ'[DispatchOf[d]] = 0 /\ OnePlace(d)
      BY <1>1, <1>2, <2>1 DEF Alone, OnePlace
    <3>3. ASSUME NEW x \in Place, Found(d, x)'
          PROVE  x = <<"ids", w>> \/ (x # <<"fanout", 0>> /\ Found(d, x))
      BY <1>2, <1>3, <3>2, <3>3 DEF Place, Found
    <3>4. Moves(d, <<"fanout", 0>>, <<"ids", w>>)
      BY <1>2, <3>1, <3>2, <3>3 DEF Moves, OnePlace
    <3> QED BY <1>1, <3>2, <3>4, PlaceKept
  <2>2. CASE DispatchOf[d] # k
    <3>1. \A x \in Place : Found(d, x)' => Found(d, x)
      BY <1>2, <1>3, <2>2 DEF Place, Found, QueuedIds
    <3>2. Stays(d)
      BY <1>1, <1>2, <2>2, <3>1 DEF Stays
    <3> QED BY <1>1, <3>2, PlaceKept DEF Alone
  <2> QED BY <2>1, <2>2
<1> QED BY <1>4 DEF Alone

\* A fan-out publishes one of its ids.
LEMMA FanoutPublishPlace ==
    ASSUME IInv, IInv', Alone, NEW w \in Worker, FanoutPublish(w), UNCHANGED api
    PROVE  Alone'
<1> USE StoreAssumption, WorkerAssumption
<1>1. /\ fanoutQ \in [Dispatch -> Nat] /\ deliverQ \in [Delivery -> Nat]
      /\ pollQ \in [Delivery \X (0 .. MaxPolls) -> Nat] /\ job \in [Worker -> Job]
      /\ TypeOK'
  BY DEF IInv, TypeOK, WorkerTypeOK
<1>2. PICK e \in job[w].todo :
         /\ deliverQ' = [deliverQ EXCEPT ![e] = @ + 1]
         /\ IF job[w].todo = {e}
            THEN Finish(w)
            ELSE Continue(w, [job[w] EXCEPT !.todo = job[w].todo \ {e}])
         /\ UNCHANGED <<fanoutQ, pollQ>>
  BY DEF FanoutPublish
<1>3. e \in Delivery
  BY <1>1, <1>2 DEF Job
<1>4. /\ \A v \in Worker \ {w} : job'[v] = job[v]
      /\ job'[w].todo = job[w].todo \ {e} /\ job'[w].on \in {job[w].on, NoDelivery}
  <2>1. CASE job[w].todo = {e}
    <3>1. /\ \A v \in Worker \ {w} : job'[v] = job[v]
          /\ job'[w] = Idle
      BY <1>1, <1>2, <2>1 DEF Continue, Finish
    <3> QED BY <2>1, <3>1 DEF Idle
  <2>2. CASE job[w].todo # {e}
    <3>1. /\ \A v \in Worker \ {w} : job'[v] = job[v]
          /\ job'[w] = [job[w] EXCEPT !.todo = job[w].todo \ {e}]
      BY <1>1, <1>2, <2>2 DEF Continue
    <3> QED BY <1>1, <3>1 DEF Job
  <2> QED BY <2>1, <2>2
<1>5. ASSUME NEW d \in Delivery
      PROVE  OnePlace(d)'
  <2>1. CASE d = e
    <3>1. Found(d, <<"ids", w>>) /\ <<"deliver", 0>> \in Place /\ <<"ids", w>> \in Place
      BY <1>2, <2>1 DEF Found, Place
    <3>2. OnePlace(d) /\ ~Found(d, <<"deliver", 0>>)
      BY <3>1 DEF Alone, OnePlace
    <3>3. deliverQ'[d] = 1
      BY <1>1, <1>2, <1>3, <2>1, <3>2 DEF Found
    <3>4. ASSUME NEW x \in Place, Found(d, x)'
          PROVE  x = <<"deliver", 0>> \/ (x # <<"ids", w>> /\ Found(d, x))
      BY <1>2, <1>4, <2>1, <3>4 DEF Place, Found
    <3>5. Moves(d, <<"ids", w>>, <<"deliver", 0>>)
      BY <1>2, <3>1, <3>2, <3>3, <3>4 DEF Moves, OnePlace
    <3> QED BY <1>1, <3>2, <3>5, PlaceKept
  <2>2. CASE d # e
    <3>1. \A x \in Place : Found(d, x)' => Found(d, x)
      BY <1>1, <1>2, <1>3, <1>4, <2>2 DEF Place, Found
    <3>2. Stays(d)
      BY <1>1, <1>2, <1>3, <2>2, <3>1 DEF Stays
    <3> QED BY <1>1, <3>2, PlaceKept DEF Alone
  <2> QED BY <2>1, <2>2
<1> QED BY <1>5 DEF Alone

\* A deliver is taken: the delivery is with thread w.
LEMMA BeginDeliverPlace ==
    ASSUME IInv, IInv', Alone, NEW w \in Worker, NEW e \in Delivery, BeginDeliver(w, e), UNCHANGED api
    PROVE  Alone'
<1> USE StoreAssumption, WorkerAssumption
<1>1. /\ fanoutQ \in [Dispatch -> Nat] /\ deliverQ \in [Delivery -> Nat]
      /\ pollQ \in [Delivery \X (0 .. MaxPolls) -> Nat] /\ job \in [Worker -> Job]
      /\ TypeOK'
  BY DEF IInv, TypeOK, WorkerTypeOK
<1>2. /\ deliverQ' = [deliverQ EXCEPT ![e] = @ - 1] /\ deliverQ[e] > 0
      /\ UNCHANGED <<fanoutQ, pollQ>>
      /\ \A v \in Worker \ {w} : job'[v] = job[v]
  BY <1>1 DEF BeginDeliver, Continue, Finish
<1>3. job'[w].on \in {e, NoDelivery} /\ job'[w].todo = {}
  <2>1. \/ job'[w] = Idle
        \/ job'[w] = [Idle EXCEPT !.pc = "claim", !.on = e]
        \/ job'[w] = [Idle EXCEPT !.pc = "record", !.on = e, !.out = Failed(Verdict(e))]
    BY <1>1 DEF BeginDeliver, Continue, Finish
  <2>2. CASE job'[w] = Idle
    BY <2>2 DEF Idle
  <2>3. CASE job'[w] = [Idle EXCEPT !.pc = "claim", !.on = e]
    BY <2>3 DEF Idle
  <2>4. CASE job'[w] = [Idle EXCEPT !.pc = "record", !.on = e, !.out = Failed(Verdict(e))]
    BY <2>4 DEF Idle
  <2> QED BY <2>1, <2>2, <2>3, <2>4
<1>4. ASSUME NEW d \in Delivery
      PROVE  OnePlace(d)'
  <2>1. CASE d = e
    <3>1. Found(d, <<"deliver", 0>>) /\ <<"deliver", 0>> \in Place /\ <<"task", w>> \in Place
      BY <1>2, <2>1 DEF Found, Place
    <3>2. OnePlace(d) /\ deliverQ'[d] = 0
      BY <1>1, <1>2, <2>1 DEF Alone, OnePlace
    <3>3. ASSUME NEW x \in Place, Found(d, x)'
          PROVE  x = <<"task", w>> \/ (x # <<"deliver", 0>> /\ Found(d, x))
      BY <1>2, <1>3, <3>2, <3>3 DEF Place, Found
    <3>4. Moves(d, <<"deliver", 0>>, <<"task", w>>)
      BY <1>2, <3>1, <3>2, <3>3 DEF Moves, OnePlace
    <3> QED BY <1>1, <3>2, <3>4, PlaceKept
  <2>2. CASE d # e
    <3>1. \A x \in Place : Found(d, x)' => Found(d, x)
      BY <1>1, <1>2, <1>3, <2>2 DEF Place, Found
    <3>2. Stays(d)
      BY <1>1, <1>2, <2>2, <3>1 DEF Stays
    <3> QED BY <1>1, <3>2, PlaceKept DEF Alone
  <2> QED BY <2>1, <2>2
<1> QED BY <1>4 DEF Alone

\* A poll is taken: the delivery is with thread w.
LEMMA BeginPollPlace ==
    ASSUME IInv, IInv', Alone, NEW w \in Worker, NEW e \in Delivery, NEW m \in 0 .. MaxPolls,
           BeginPoll(w, e, m), UNCHANGED api
    PROVE  Alone'
<1> USE StoreAssumption, WorkerAssumption
<1>1. /\ fanoutQ \in [Dispatch -> Nat] /\ deliverQ \in [Delivery -> Nat]
      /\ pollQ \in [Delivery \X (0 .. MaxPolls) -> Nat] /\ job \in [Worker -> Job]
      /\ TypeOK'
  BY DEF IInv, TypeOK, WorkerTypeOK
<1>2. /\ pollQ' = [pollQ EXCEPT ![<<e, m>>] = @ - 1] /\ pollQ[<<e, m>>] > 0
      /\ UNCHANGED <<fanoutQ, deliverQ>>
      /\ \A v \in Worker \ {w} : job'[v] = job[v]
  BY <1>1 DEF BeginPoll, Continue, Finish
<1>3. job'[w].on \in {e, NoDelivery} /\ job'[w].todo = {}
  <2>1. \/ job'[w] = Idle
        \/ job'[w] = [Idle EXCEPT !.pc = "poll", !.on = e, !.count = m]
    BY <1>1 DEF BeginPoll, Continue, Finish
  <2>2. CASE job'[w] = Idle
    BY <2>2 DEF Idle
  <2>3. CASE job'[w] = [Idle EXCEPT !.pc = "poll", !.on = e, !.count = m]
    BY <2>3 DEF Idle
  <2> QED BY <2>1, <2>2, <2>3
<1>4. ASSUME NEW d \in Delivery
      PROVE  OnePlace(d)'
  <2>1. CASE d = e
    <3>1. Found(d, <<"poll", m>>) /\ <<"poll", m>> \in Place /\ <<"task", w>> \in Place
      BY <1>2, <2>1 DEF Found, Place
    <3>2. OnePlace(d) /\ pollQ'[<<d, m>>] = 0
      BY <1>1, <1>2, <2>1 DEF Alone, OnePlace
    <3>3. ASSUME NEW x \in Place, Found(d, x)'
          PROVE  x = <<"task", w>> \/ (x # <<"poll", m>> /\ Found(d, x))
      BY <1>1, <1>2, <1>3, <2>1, <3>2, <3>3 DEF Place, Found
    <3>4. \A n \in 0 .. MaxPolls : pollQ'[<<d, n>>] <= 1
      BY <1>1, <1>2, <2>1, <3>2 DEF OnePlace
    <3>5. Moves(d, <<"poll", m>>, <<"task", w>>)
      BY <1>2, <3>1, <3>2, <3>3, <3>4 DEF Moves, OnePlace
    <3> QED BY <1>1, <3>2, <3>5, PlaceKept
  <2>2. CASE d # e
    <3>1. \A x \in Place : Found(d, x)' => Found(d, x)
      BY <1>1, <1>2, <1>3, <2>2 DEF Place, Found
    <3>2. Stays(d)
      BY <1>1, <1>2, <2>2, <3>1 DEF Stays
    <3> QED BY <1>1, <3>2, PlaceKept DEF Alone
  <2> QED BY <2>1, <2>2
<1> QED BY <1>4 DEF Alone

\* A poll is put into the queue by the thread that has the delivery, and ends there.
LEMMA PollQueuedPlace ==
    ASSUME IInv, IInv', Alone, NEW w \in Worker, NEW m \in 0 .. MaxPolls, job[w].on \in Delivery,
           pollQ' = [pollQ EXCEPT ![<<job[w].on, m>>] = @ + 1], Finish(w), UNCHANGED <<api, fanoutQ, deliverQ>>
    PROVE  Alone'
<1> USE StoreAssumption, WorkerAssumption
<1> DEFINE e == job[w].on
<1>1. /\ fanoutQ \in [Dispatch -> Nat] /\ deliverQ \in [Delivery -> Nat]
      /\ pollQ \in [Delivery \X (0 .. MaxPolls) -> Nat] /\ job \in [Worker -> Job]
      /\ TypeOK'
  BY DEF IInv, TypeOK, WorkerTypeOK
<1>2. /\ \A v \in Worker \ {w} : job'[v] = job[v]
      /\ job'[w].on = NoDelivery /\ job'[w].todo = {}
  <2>1. /\ \A v \in Worker \ {w} : job'[v] = job[v]
        /\ job'[w] = Idle
    BY <1>1 DEF Continue, Finish
  <2> QED BY <2>1 DEF Idle
<1>3. ASSUME NEW d \in Delivery
      PROVE  OnePlace(d)'
  <2>1. CASE d = e
    <3>1. Found(d, <<"task", w>>) /\ <<"poll", m>> \in Place /\ <<"task", w>> \in Place
      BY <2>1 DEF Found, Place
    <3>2. OnePlace(d) /\ ~Found(d, <<"poll", m>>)
      BY <3>1 DEF Alone, OnePlace
    <3>3. pollQ'[<<d, m>>] = 1
      BY <1>1, <2>1, <3>2 DEF Found
    <3>4. ASSUME NEW x \in Place, Found(d, x)'
          PROVE  x = <<"poll", m>> \/ (x # <<"task", w>> /\ Found(d, x))
      BY <1>1, <1>2, <2>1, <3>4 DEF Place, Found
    <3>5. \A n \in 0 .. MaxPolls : pollQ'[<<d, n>>] <= 1
      BY <1>1, <2>1, <3>2, <3>3 DEF OnePlace
    <3>6. Moves(d, <<"task", w>>, <<"poll", m>>)
      BY <3>1, <3>2, <3>4, <3>5 DEF Moves, OnePlace
    <3> QED BY <1>1, <3>2, <3>6, PlaceKept
  <2>2. CASE d # e
    <3>1. \A x \in Place : Found(d, x)' => Found(d, x)
      BY <1>1, <1>2, <2>2 DEF Place, Found
    <3>2. Stays(d)
      BY <1>1, <2>2, <3>1 DEF Stays
    <3> QED BY <1>1, <3>2, PlaceKept DEF Alone
  <2> QED BY <2>1, <2>2
<1> QED BY <1>3 DEF Alone

\* A task that goes on stays with its delivery, or it has ended.
LEMMA TaskKeeps ==
    ASSUME IInv, NEW w \in Worker, TaskStep(w) \/ Crash(w), ~FanoutPublish(w)
    PROVE  \E j : Continue(w, j) /\ j.on \in {job[w].on, NoDelivery} /\ j.todo \subseteq job[w].todo
<1>1. job[w] \in Job
  BY DEF IInv, TypeOK, WorkerTypeOK
<1>2. ASSUME Finish(w)
      PROVE  \E j : Continue(w, j) /\ j.on \in {job[w].on, NoDelivery} /\ j.todo \subseteq job[w].todo
  BY <1>2 DEF Finish, Idle
<1>3. CASE Claim(w)
  <2>1. [job[w] EXCEPT !.pc = "call"].on = job[w].on /\ [job[w] EXCEPT !.pc = "call"].todo = job[w].todo
    BY <1>1 DEF Job
  <2> QED BY <1>2, <1>3, <2>1 DEF Claim
<1>4. CASE CallAccepted(w) \/ CallTimedOut(w) \/ CallTransient(w) \/ CallRejected(w)
  <2>1. PICK out : AfterCall(w, out)
    BY <1>4 DEF CallAccepted, CallTimedOut, CallTransient, CallRejected
  <2> DEFINE j == [job[w] EXCEPT !.count = job[w].count + 1, !.out = out,
                                 !.pc = IF out = NoOutcome THEN "call" ELSE "record"]
  <2>2. Continue(w, j) /\ j.on = job[w].on /\ j.todo = job[w].todo
    BY <1>1, <2>1 DEF AfterCall, Job
  <2> QED BY <2>2
<1>5. CASE CallRefused(w)
  <2> DEFINE j == [job[w] EXCEPT !.pc = "record", !.out = Failed("channel_error")]
  <2>1. Continue(w, j) /\ j.on = job[w].on /\ j.todo = job[w].todo
    BY <1>1, <1>5 DEF CallRefused, Job
  <2> QED BY <2>1
<1>6. CASE RecordRead(w)
  <2> DEFINE j == [job[w] EXCEPT !.pc = "write", !.seen = status[job[w].on]]
  <2>1. Continue(w, j) /\ j.on = job[w].on /\ j.todo = job[w].todo
    BY <1>1, <1>6 DEF RecordRead, Job
  <2> QED BY <2>1
<1>7. CASE RecordWrite(w)
  <2> DEFINE j == [Idle EXCEPT !.pc = "enqueue", !.on = job[w].on]
  <2>1. j.on = job[w].on /\ j.todo = {}
    BY DEF Idle
  <2>2. CASE Continue(w, j)
    <3> HIDE DEF j
    <3> QED BY <2>1, <2>2
  <2>3. CASE Finish(w)
    BY <1>2, <2>3
  <2> QED BY <1>7, <2>2, <2>3 DEF RecordWrite
<1>8. CASE PollAnswered(w)
  <2> DEFINE j == [Idle EXCEPT !.pc = "confirm", !.on = job[w].on, !.out = Answer(fate[ref[job[w].on]])]
  <2>1. j.on = job[w].on /\ j.todo = {}
    BY DEF Idle
  <2> QED BY <1>2, <1>8, <2>1 DEF PollAnswered
<1>9. CASE EnqueuePoll(w) \/ PollPending(w) \/ PollError(w) \/ ConfirmWrite(w) \/ Crash(w)
  BY <1>2, <1>9 DEF EnqueuePoll, PollPending, PollError, ConfirmWrite, Crash
<1> QED BY <1>3, <1>4, <1>5, <1>6, <1>7, <1>8, <1>9 DEF TaskStep

\* A step of a running task.
LEMMA TaskPlace ==
    ASSUME IInv, IInv', Alone, NEW w \in Worker, TaskStep(w) \/ Crash(w), UNCHANGED api
    PROVE  Alone'
<1> USE WorkerAssumption
<1>1. CASE FanoutPublish(w)
  BY <1>1, FanoutPublishPlace
<1>2. CASE EnqueuePoll(w)
  <2>1. /\ job[w].on \in Delivery /\ Finish(w)
        /\ pollQ' = [pollQ EXCEPT ![<<job[w].on, 0>>] = @ + 1] /\ UNCHANGED <<fanoutQ, deliverQ>>
    BY <1>2 DEF EnqueuePoll, IInv, JobInv, JobOK
  <2>2. 0 \in 0 .. MaxPolls
    BY WorkerAssumption
  <2> QED BY <2>1, <2>2, PollQueuedPlace
<1>3. ASSUME UNCHANGED queueVars, ~FanoutPublish(w)
      PROVE  Alone'
  <2>1. PICK j : Continue(w, j) /\ j.on \in {job[w].on, NoDelivery} /\ j.todo \subseteq job[w].todo
    BY <1>3, TaskKeeps
  <2>2. ASSUME NEW d \in Delivery
        PROVE  OnePlace(d)'
    <3>1. Stays(d)
      BY <1>3, <2>1, LocalStays
    <3> QED BY <3>1, PlaceKept DEF Alone, IInv
  <2> QED BY <2>2 DEF Alone
<1>4. CASE PollPending(w)
  <2>1. job[w].on \in Delivery /\ job[w].count \in Nat /\ job[w].pc = "poll"
    BY <1>4 DEF PollPending, IInv, JobInv, JobOK, TypeOK, WorkerTypeOK, Job
  <2>2. ~FanoutPublish(w)
    BY <2>1 DEF FanoutPublish
  <2>3. CASE job[w].count + 1 <= MaxPolls
    <3>1. job[w].count + 1 \in 0 .. MaxPolls
      BY <2>1, <2>3
    <3>2. /\ pollQ' = [pollQ EXCEPT ![<<job[w].on, job[w].count + 1>>] = @ + 1] /\ Finish(w)
          /\ UNCHANGED <<fanoutQ, deliverQ>>
      BY <1>4, <2>3 DEF PollPending
    <3> QED BY <2>1, <3>1, <3>2, PollQueuedPlace
  <2>4. CASE ~(job[w].count + 1 <= MaxPolls)
    <3>1. UNCHANGED queueVars
      BY <1>4, <2>4 DEF PollPending, queueVars
    <3> QED BY <1>3, <2>2, <3>1
  <2> QED BY <2>3, <2>4
<1>5. CASE CallAccepted(w) \/ CallTimedOut(w) \/ CallTransient(w) \/ CallRejected(w)
  <2>1. UNCHANGED queueVars
    BY <1>5 DEF CallAccepted, CallTimedOut, CallTransient, CallRejected, AfterCall
  <2> QED BY <1>1, <1>3, <2>1
<1>6. CASE Claim(w) \/ CallRefused(w) \/ RecordRead(w) \/ RecordWrite(w)
  <2>1. UNCHANGED queueVars
    BY <1>6 DEF Claim, CallRefused, RecordRead, RecordWrite
  <2> QED BY <1>1, <1>3, <2>1
<1>7. CASE PollAnswered(w) \/ PollError(w) \/ ConfirmWrite(w) \/ Crash(w)
  <2>1. UNCHANGED queueVars
    BY <1>7 DEF PollAnswered, PollError, ConfirmWrite, Crash
  <2> QED BY <1>1, <1>3, <2>1
<1> QED BY <1>1, <1>2, <1>4, <1>5, <1>6, <1>7 DEF TaskStep

\* The fan-out is enqueued: nothing was about its deliveries before.
LEMMA EnqueueFanoutPlace ==
    ASSUME IInv, IInv', Alone, NEW k \in Dispatch, EnqueueFanout(k)
    PROVE  Alone'
<1> USE StoreAssumption, WorkerAssumption
<1>1. /\ fanoutQ \in [Dispatch -> Nat] /\ api \in [Dispatch -> {"idle", "saving", "enqueue", "done", "aborted"}]
  BY DEF IInv, TypeOK, WorkerTypeOK
<1>2. /\ api[k] = "enqueue" /\ api' = [api EXCEPT ![k] = "done"]
      /\ fanoutQ' = [fanoutQ EXCEPT ![k] = @ + 1]
      /\ UNCHANGED <<deliverQ, pollQ, job>>
  BY DEF EnqueueFanout
<1>3. ASSUME NEW d \in Delivery
      PROVE  OnePlace(d)'
  <2>1. OnePlace(d) /\ Place' = Place
    BY DEF Alone, Place
  <2>2. CASE DispatchOf[d] = k
    <3>1. \A x \in Place : ~Found(d, x)
      BY <1>2, <2>1, <2>2 DEF OnePlace
    <3>2. <<"fanout", 0>> \in Place
      BY DEF Place
    <3>3. fanoutQ[k] = 0
      <4>1. ~Found(d, <<"fanout", 0>>)
        BY <3>1, <3>2
      <4> QED BY <1>1, <2>2, <4>1 DEF Found
    <3>4. \A x \in Place : Found(d, x)' => x = <<"fanout", 0>>
      BY <1>2, <2>2, <3>1 DEF Place, Found
    <3>5. fanoutQ'[DispatchOf[d]] <= 1 /\ api'[DispatchOf[d]] = "done"
      BY <1>1, <1>2, <2>2, <3>3
    <3> QED BY <1>2, <2>1, <3>4, <3>5 DEF OnePlace
  <2>3. CASE DispatchOf[d] # k
    <3>1. fanoutQ'[DispatchOf[d]] = fanoutQ[DispatchOf[d]] /\ api'[DispatchOf[d]] = api[DispatchOf[d]]
      BY <1>1, <1>2, <2>3
    <3>2. \A x \in Place : Found(d, x)' <=> Found(d, x)
      BY <1>2, <3>1 DEF Found
    <3> QED BY <1>2, <2>1, <3>1, <3>2 DEF OnePlace
  <2> QED BY <2>2, <2>3
<1> QED BY <1>3 DEF Alone

\* A step without messages and threads, of a request that does not become done.
LEMMA RestPlace ==
    ASSUME Alone, UNCHANGED <<queueVars, job>>, \A k \in Dispatch : api'[k] # "done" => api[k] # "done"
    PROVE  Alone'
<1> USE StoreAssumption
<1>1. UNCHANGED <<fanoutQ, deliverQ, pollQ, job>>
  BY DEF queueVars
<1>2. ASSUME NEW d \in Delivery
      PROVE  OnePlace(d)'
  <2>1. OnePlace(d) /\ Place' = Place
    BY DEF Alone, Place
  <2>2. \A x \in Place : Found(d, x)' <=> Found(d, x)
    BY <1>1 DEF Found
  <2> QED BY <1>1, <2>1, <2>2 DEF OnePlace
<1> QED BY <1>2 DEF Alone

\* Every step that delivers nothing twice leaves one place to each delivery.
LEMMA OnePlaceKept ==
    ASSUME IInv, IInv', Alone, [Next]_vars, redelivered' = redelivered
    PROVE  Alone'
<1>1. ASSUME NEW w \in Worker, WorkerStep, Begin(w) \/ TaskStep(w) \/ Crash(w)
      PROVE  Alone'
  <2>1. UNCHANGED api
    BY <1>1 DEF WorkerStep, apiVars
  <2> QED BY <1>1, <2>1, BeginFanoutPlace, BeginDeliverPlace, BeginPollPlace, TaskPlace DEF Begin
<1>2. ~Redeliver
  BY DEF Redeliver, IInv, TypeOK, WorkerTypeOK
<1>3. ASSUME UNCHANGED <<queueVars, job>>, \A k \in Dispatch : api'[k] # "done" => api[k] # "done"
      PROVE  Alone'
  BY <1>3, RestPlace
<1>4. ASSUME NEW k \in Dispatch, StartSend(k) \/ SaveDelivery(k) \/ AbortSend(k)
      PROVE  Alone'
  <2>1. api \in [Dispatch -> {"idle", "saving", "enqueue", "done", "aborted"}]
    BY DEF IInv, TypeOK
  <2>2. \A l \in Dispatch : api'[l] # "done" => api[l] # "done"
    BY <1>4, <2>1 DEF StartSend, SaveDelivery, AbortSend
  <2>3. UNCHANGED <<queueVars, job>>
    BY <1>4 DEF StartSend, SaveDelivery, AbortSend, workerVars
  <2> QED BY <1>3, <2>2, <2>3
<1>5. ASSUME NEW h \in Handler, ApplyCallback(h) \/ CrashHook(h) \/ \E r \in Ref : ReceiveCallback(h, r)
      PROVE  Alone'
  BY <1>3, <1>5 DEF ApplyCallback, CrashHook, ReceiveCallback, workerVars
<1>6. ASSUME NEW r \in Ref, LoseCallback(r) \/ RepeatCallback(r)
      PROVE  Alone'
  BY <1>3, <1>6 DEF LoseCallback, RepeatCallback, apiVars
<1>7. CASE UNCHANGED vars
  BY <1>3, <1>7 DEF vars, workerVars, apiVars
<1> QED BY <1>1, <1>2, <1>4, <1>5, <1>6, <1>7, EnqueueFanoutPlace DEF Next, WorkerStep, WorkerNext, SendStep

-----------------------------------------------------------------------------
(* The rows under the tasks *)

\* Two threads are not about the same delivery.
LEMMA TasksApart ==
    ASSUME Alone, NEW v \in Worker, NEW w \in Worker, job[v].on \in Delivery, job[v].on = job[w].on
    PROVE  v = w
<1>1. /\ <<"task", v>> \in Place /\ <<"task", w>> \in Place
      /\ Found(job[v].on, <<"task", v>>) /\ Found(job[v].on, <<"task", w>>)
  BY DEF Place, Found
<1>2. <<"task", v>> = <<"task", w>>
  BY <1>1 DEF Alone, OnePlace
<1> QED BY <1>2

\* A step of thread w writes at most the row it is about.
LEMMA SteadyTask ==
    ASSUME IInv, Alone, Steady, NEW w \in Worker, NEW j, Continue(w, j), TaskStatus(j, status'),
           \A d \in Delivery : status'[d] = status[d] \/ d = job[w].on
    PROVE  Steady'
<1>1. /\ job'[w] = j
      /\ \A v \in Worker \ {w} : job'[v] = job[v]
  BY DEF Continue, IInv, TypeOK, WorkerTypeOK
<1>2. ASSUME NEW v \in Worker
      PROVE  TaskStatus(job'[v], status')
  <2>1. CASE v = w
    BY <1>1, <2>1
  <2>2. CASE v # w
    <3>1. job'[v] = job[v] /\ TaskStatus(job[v], status) /\ JobOK(job[v])
      BY <1>1, <2>2 DEF Steady, IInv, JobInv
    <3>2. job[v].on \in Delivery => status'[job[v].on] = status[job[v].on]
      BY <2>2, TasksApart
    <3> QED BY <3>1, <3>2 DEF TaskStatus, JobOK
  <2> QED BY <2>1, <2>2
<1> QED BY <1>2 DEF Steady

\* A task that ends reads nothing any more.
LEMMA SteadyEnd ==
    ASSUME IInv, Alone, Steady, NEW w \in Worker, Finish(w),
           \A d \in Delivery : status'[d] = status[d] \/ d = job[w].on
    PROVE  Steady'
<1>1. TaskStatus(Idle, status')
  BY DEF TaskStatus, Idle
<1> QED BY <1>1, SteadyTask DEF Finish

\* Rows no task is about may be written by others.
LEMMA SteadyRest ==
    ASSUME IInv, ChannelInv, Steady, UNCHANGED job,
           \A d \in Delivery : \/ status'[d] = status[d] \/ status[d] = "none"
                               \/ status[d] = "sent" /\ d \notin Polled
    PROVE  Steady'
<1>1. ASSUME NEW v \in Worker
      PROVE  TaskStatus(job'[v], status')
  <2>1. /\ job'[v] = job[v] /\ TaskStatus(job[v], status) /\ JobOK(job[v])
        /\ job[v].pc = "confirm" => job[v].on \in Polled
    BY DEF Steady, IInv, JobInv, ChannelInv
  <2> QED BY <2>1 DEF TaskStatus, JobOK
<1> QED BY <1>1 DEF Steady

\* A task is started from a row it has just read.
LEMMA SteadyBegin ==
    ASSUME IInv, Alone, Steady, NEW w \in Worker, Begin(w)
    PROVE  Steady'
<1>1. UNCHANGED dbVars
  BY DEF Begin, BeginFanout, BeginDeliver, BeginPoll
<1>2. UNCHANGED status
  BY <1>1 DEF dbVars
<1>3. ASSUME Finish(w)
      PROVE  Steady'
  BY <1>2, <1>3, SteadyEnd
<1>4. ASSUME NEW j, Continue(w, j), TaskStatus(j, status')
      PROVE  Steady'
  BY <1>2, <1>4, SteadyTask
<1>5. ASSUME NEW k \in Dispatch, BeginFanout(w, k)
      PROVE  Steady'
  <2> DEFINE j == [Idle EXCEPT !.pc = "fanout", !.todo = QueuedIds(k)]
  <2>1. TaskStatus(j, status')
    BY DEF TaskStatus, Idle
  <2>2. Continue(w, j) \/ Finish(w)
    BY <1>5 DEF BeginFanout
  <2> HIDE DEF j
  <2> QED BY <1>3, <1>4, <2>1, <2>2
<1>6. ASSUME NEW d \in Delivery, BeginDeliver(w, d)
      PROVE  Steady'
  <2> DEFINE j == [Idle EXCEPT !.pc = "claim", !.on = d]
             i == [Idle EXCEPT !.pc = "record", !.on = d, !.out = Failed(Verdict(d))]
  <2>1. /\ j.pc = "claim" /\ j.on = d
        /\ i.pc = "record" /\ i.on = d
    BY DEF Idle
  <2>2. \/ Finish(w)
        \/ status[d] = "queued" /\ (Continue(w, j) \/ Continue(w, i))
    BY <1>6 DEF BeginDeliver
  <2> HIDE DEF i, j
  <2> QED BY <1>2, <1>3, <1>4, <2>1, <2>2 DEF TaskStatus
<1>7. ASSUME NEW d \in Delivery, NEW n \in 0 .. MaxPolls, BeginPoll(w, d, n)
      PROVE  Steady'
  <2> DEFINE j == [Idle EXCEPT !.pc = "poll", !.on = d, !.count = n]
  <2>1. j.pc = "poll" /\ j.on = d
    BY DEF Idle
  <2>2. Continue(w, j) \/ Finish(w)
    BY <1>7 DEF BeginPoll
  <2> HIDE DEF j
  <2> QED BY <1>3, <1>4, <2>1, <2>2 DEF TaskStatus
<1> QED BY <1>5, <1>6, <1>7 DEF Begin

\* A running task keeps what it has read until it has written.
LEMMA SteadyStep ==
    ASSUME IInv, Alone, Steady, NEW w \in Worker, TaskStep(w) \/ Crash(w)
    PROVE  Steady'
<1>1. job[w] \in Job /\ status \in [Delivery -> Status] /\ JobOK(job[w]) /\ TaskStatus(job[w], status)
  BY DEF IInv, TypeOK, StoreTypeOK, WorkerTypeOK, JobInv, Steady
<1>2. ASSUME NEW j, Continue(w, j), UNCHANGED status, TaskStatus(j, status)
      PROVE  Steady'
  BY <1>2, SteadyTask
<1>3. ASSUME Finish(w), UNCHANGED status
      PROVE  Steady'
  BY <1>3, SteadyEnd
<1>4. CASE FanoutPublish(w)
  <2>1. PICK d \in job[w].todo : Finish(w) \/ Continue(w, [job[w] EXCEPT !.todo = job[w].todo \ {d}])
    BY <1>4 DEF FanoutPublish
  <2> DEFINE j == [job[w] EXCEPT !.todo = job[w].todo \ {d}]
  <2>2. TaskStatus(j, status)
    BY <1>1 DEF TaskStatus, Job
  <2>3. UNCHANGED status
    BY <1>4 DEF FanoutPublish, dbVars
  <2> HIDE DEF j
  <2> QED BY <1>2, <1>3, <2>1, <2>2, <2>3 DEF j
<1>5. CASE Claim(w)
  <2> DEFINE j == [job[w] EXCEPT !.pc = "call"]
  <2>1. TaskStatus(j, status)
    BY <1>1, <1>5 DEF TaskStatus, Job, Claim
  <2>2. UNCHANGED status /\ (Finish(w) \/ Continue(w, j))
    BY <1>5 DEF Claim, ClaimKey, dbVars
  <2> HIDE DEF j
  <2> QED BY <1>2, <1>3, <2>1, <2>2
<1>6. ASSUME NEW out, AfterCall(w, out), job[w].pc = "call"
      PROVE  Steady'
  <2> DEFINE j == [job[w] EXCEPT !.count = job[w].count + 1, !.out = out,
                                 !.pc = IF out = NoOutcome THEN "call" ELSE "record"]
  <2>1. j.pc \in {"call", "record"} /\ j.on = job[w].on
    BY <1>1 DEF Job
  <2>2. UNCHANGED status /\ Continue(w, j)
    BY <1>6 DEF AfterCall, dbVars
  <2> HIDE DEF j
  <2>3. TaskStatus(j, status)
    BY <1>1, <1>6, <2>1 DEF TaskStatus
  <2> QED BY <1>2, <2>2, <2>3
<1>7. CASE CallAccepted(w) \/ CallTimedOut(w) \/ CallTransient(w) \/ CallRejected(w)
  BY <1>6, <1>7 DEF CallAccepted, CallTimedOut, CallTransient, CallRejected
<1>8. CASE CallRefused(w)
  <2> DEFINE j == [job[w] EXCEPT !.pc = "record", !.out = Failed("channel_error")]
  <2>1. j.pc = "record" /\ j.on = job[w].on
    BY <1>1 DEF Job
  <2>2. UNCHANGED status /\ Continue(w, j) /\ job[w].pc = "call"
    BY <1>8 DEF CallRefused, dbVars
  <2> HIDE DEF j
  <2>3. TaskStatus(j, status)
    BY <1>1, <2>1, <2>2 DEF TaskStatus
  <2> QED BY <1>2, <2>2, <2>3
<1>9. CASE RecordRead(w)
  <2> DEFINE j == [job[w] EXCEPT !.pc = "write", !.seen = status[job[w].on]]
  <2>1. j.pc = "write" /\ j.on = job[w].on /\ j.seen = status[job[w].on]
    BY <1>1 DEF Job
  <2>2. UNCHANGED status /\ Continue(w, j) /\ job[w].pc = "record"
    BY <1>9 DEF RecordRead, dbVars
  <2> HIDE DEF j
  <2>3. TaskStatus(j, status)
    BY <1>1, <2>1, <2>2 DEF TaskStatus
  <2> QED BY <1>2, <2>2, <2>3
<1>10. CASE RecordWrite(w)
  <2> DEFINE j == [Idle EXCEPT !.pc = "enqueue", !.on = job[w].on]
  <2>1. j.pc = "enqueue" /\ j.on = job[w].on
    BY DEF Idle
  <2>2. \E to : status' = [status EXCEPT ![job[w].on] = to]
    BY <1>10 DEF RecordWrite, WriteSent, WriteFailed, Write
  <2>3. \A d \in Delivery : status'[d] = status[d] \/ d = job[w].on
    BY <1>1, <2>2
  <2>4. Finish(w) \/ Continue(w, j)
    BY <1>10 DEF RecordWrite
  <2> HIDE DEF j
  <2>5. TaskStatus(j, status')
    BY <2>1 DEF TaskStatus
  <2> QED BY <2>3, <2>4, <2>5, SteadyTask, SteadyEnd
<1>11. CASE EnqueuePoll(w) \/ PollPending(w)
  BY <1>3, <1>11 DEF EnqueuePoll, PollPending, dbVars
<1>12. CASE PollAnswered(w)
  <2> DEFINE j == [Idle EXCEPT !.pc = "confirm", !.on = job[w].on, !.out = Answer(fate[ref[job[w].on]])]
  <2>1. j.pc = "confirm" /\ j.on = job[w].on
    BY DEF Idle
  <2>2. /\ UNCHANGED status /\ job[w].pc = "poll"
        /\ Finish(w) \/ (status[job[w].on] = "sent" /\ Continue(w, j))
    BY <1>12 DEF PollAnswered, dbVars
  <2> HIDE DEF j
  <2>3. status[job[w].on] = "sent" => TaskStatus(j, status)
    BY <1>1, <2>1, <2>2 DEF TaskStatus
  <2> QED BY <1>2, <1>3, <2>2, <2>3
<1>13. CASE PollError(w) \/ Crash(w)
  BY <1>3, <1>13 DEF PollError, Crash, dbVars
<1>14. CASE ConfirmWrite(w)
  <2>1. status' = [status EXCEPT ![job[w].on] = job[w].out.to] /\ Finish(w)
    BY <1>14 DEF ConfirmWrite, WriteConfirmed, Write
  <2>2. \A d \in Delivery : status'[d] = status[d] \/ d = job[w].on
    BY <1>1, <2>1
  <2> QED BY <2>1, <2>2, SteadyEnd
<1> QED BY <1>4, <1>5, <1>7, <1>8, <1>9, <1>10, <1>11, <1>12, <1>13, <1>14 DEF TaskStep

-----------------------------------------------------------------------------
(* One callback per send *)

\* The callback a request serves is about the send the row keeps.
LEMMA CallbackAbout ==
    ASSUME IInv, NEW h \in Handler, hook[h] # NoHook
    PROVE  hook[h].on \in Delivery /\ ref[hook[h].on] \in Ref
BY DEF IInv, HookInv, TypeOK, StoreTypeOK

\* A step that serves no callback and leaves every row one may be about.
LEMMA CallbacksRest ==
    ASSUME IInv, ChannelInv, OneCallback, UNCHANGED <<callbacks, hook>>, \A r \in Ref : fate[r] # "none" => fate'[r] # "none",
           \A d \in Delivery : status[d] = "sent" /\ d \notin Polled
                                   => status'[d] = "sent" /\ ref'[d] = ref[d]
    PROVE  OneCallback'
<1>1. \A h \in Handler : hook[h] # NoHook => hook[h].on \in Delivery
  BY DEF IInv, HookInv
<1> QED BY <1>1 DEF OneCallback, ChannelInv

\* The provider accepts a send: its reference is new, so no callback was on its
\* way for it and no request serves it.
LEMMA CallbackSent ==
    ASSUME IInv, OneCallback, NEW w \in Worker, job[w].pc = "call",
           ProviderAccepts(<<job[w].on, job[w].count + 1>>), UNCHANGED <<hook, dbVars>>
    PROVE  OneCallback'
<1> USE StoreAssumption
<1> DEFINE d == job[w].on
           n == job[w].count + 1
           r == <<d, n>>
<1>1. /\ d \in Delivery /\ n \in 1 .. MaxAttempts /\ calls[d] = job[w].count
      /\ fate \in [Ref -> {"none", "delivered", "failed"}] /\ callbacks \in [Ref -> Nat]
      /\ calls[d] \in Nat
  BY DEF IInv, TypeOK, WorkerTypeOK, JobInv, JobOK, Job
<1>2. r \in Ref /\ r[1] = d
  BY <1>1 DEF Ref
<1>3. fate[r] = "none"
  BY <1>1 DEF IInv, RefInv
<1>4. callbacks[r] = 0
  BY <1>1, <1>2, <1>3 DEF OneCallback
<1> HIDE DEF r
<1>5. PICK outcome \in {"delivered", "failed"} : fate' = [fate EXCEPT ![r] = outcome]
  BY DEF ProviderAccepts, r
<1>6. callbacks' = IF d \in Polled THEN callbacks ELSE [callbacks EXCEPT ![r] = @ + 1]
  BY <1>2 DEF ProviderAccepts, r
<1>7. \A q \in Ref : /\ callbacks'[q] <= 1
                     /\ callbacks'[q] > 0 => fate'[q] # "none"
  <2>1. CASE d \in Polled
    BY <1>1, <1>5, <1>6, <2>1 DEF OneCallback
  <2>2. CASE d \notin Polled
    BY <1>1, <1>2, <1>4, <1>5, <1>6, <2>2 DEF OneCallback
  <2> QED BY <2>1, <2>2
<1>8. ASSUME NEW h \in Handler, hook[h] # NoHook
      PROVE  /\ status[hook[h].on] = "sent"
             /\ callbacks'[ref[hook[h].on]] = 0
             /\ \A g \in Handler : hook[g].on = hook[h].on => g = h
  <2>1. /\ hook[h].on \in Delivery /\ status[hook[h].on] = "sent"
        /\ callbacks[ref[hook[h].on]] = 0
        /\ \A g \in Handler : hook[g].on = hook[h].on => g = h
    BY <1>8 DEF OneCallback, IInv, HookInv
  <2>2. ref[hook[h].on] \in Ref \ {r}
    BY <1>3, <1>8, <2>1, CallbackAbout DEF IInv, RefInv, OutcomeIsProviders
  <2> QED BY <1>1, <1>6, <2>1, <2>2
<1>9. UNCHANGED <<hook, status, ref>>
  BY DEF dbVars
<1> QED BY <1>7, <1>8, <1>9 DEF OneCallback

\* A callback arrives: the delivery it is correlated with is the one it is about.
LEMMA CallbackServed ==
    ASSUME IInv, OneCallback, NEW h \in Handler, NEW r \in Ref, ReceiveCallback(h, r)
    PROVE  OneCallback'
<1>1. callbacks \in [Ref -> Nat] /\ hook \in [Handler -> [on : Delivery \cup {NoDelivery}, to : Status]]
  BY DEF IInv, TypeOK, WorkerTypeOK
<1>2. /\ callbacks[r] > 0 /\ callbacks' = [callbacks EXCEPT ![r] = @ - 1]
      /\ UNCHANGED <<fate, status, ref>>
  BY DEF ReceiveCallback, dbVars
<1>3. callbacks'[r] = 0
  BY <1>1, <1>2 DEF OneCallback
<1>4. \A q \in Ref : /\ callbacks'[q] <= 1
                     /\ callbacks'[q] > 0 => fate'[q] # "none"
  BY <1>1, <1>2 DEF OneCallback
<1>5. \A q \in Ref : callbacks[q] = 0 => callbacks'[q] = 0
  BY <1>1, <1>2
<1>6. CASE UNCHANGED hook
  BY <1>2, <1>4, <1>5, <1>6, CallbackAbout DEF OneCallback
<1>7. CASE hook' # hook
  <2> DEFINE d == CHOOSE e \in Delivery : ref[e] = r
  <2>1. PICK e \in Delivery : ref[e] = r /\ status[e] = "sent"
    BY <1>7 DEF ReceiveCallback
  <2>2. hook' = [hook EXCEPT ![h] = [on |-> d, to |-> fate[r]]]
    BY <1>7 DEF ReceiveCallback
  <2>3. d \in Delivery /\ ref[d] = r
    BY <2>1
  <2>4. r # NoRef
    BY StoreAssumption DEF Ref
  <2>5. d = e /\ d = r[1]
    BY <2>1, <2>3, <2>4 DEF IInv, RefInv, OutcomeIsProviders
  <2> HIDE DEF d
  <2>6. hook'[h].on = d /\ \A g \in Handler \ {h} : hook'[g] = hook[g]
    BY <1>1, <2>2
  <2>7. \A g \in Handler : hook[g] # NoHook => hook[g].on # d
    BY <1>2, <2>3 DEF OneCallback
  <2>8. \A g \in Handler \ {h} : hook'[g].on # d
    BY <2>3, <2>6, <2>7, WorkerAssumption DEF NoHook
  <2>9. ASSUME NEW g \in Handler, hook'[g] # NoHook
        PROVE  /\ status[hook'[g].on] = "sent"
               /\ callbacks'[ref[hook'[g].on]] = 0
               /\ \A f \in Handler : hook'[f].on = hook'[g].on => f = g
    <3>1. CASE g = h
      BY <1>3, <2>1, <2>3, <2>5, <2>6, <2>8, <3>1
    <3>2. CASE g # h
      BY <1>5, <2>6, <2>8, <2>9, <3>2, CallbackAbout DEF OneCallback
    <3> QED BY <3>1, <3>2
  <2> QED BY <1>2, <1>4, <2>9 DEF OneCallback
<1> QED BY <1>6, <1>7

\* A request ends, or a callback is lost.
LEMMA CallbackGone ==
    ASSUME IInv, OneCallback, UNCHANGED <<fate, ref>>,
           \/ \E h \in Handler : /\ hook[h] # NoHook /\ hook' = [hook EXCEPT ![h] = NoHook]
                                 /\ \A d \in Delivery : status'[d] = status[d] \/ d = hook[h].on
                                 /\ UNCHANGED callbacks
           \/ /\ \E r \in Ref : callbacks[r] > 0 /\ callbacks' = [callbacks EXCEPT ![r] = @ - 1]
              /\ UNCHANGED <<hook, status>>
    PROVE  OneCallback'
<1>1. /\ callbacks \in [Ref -> Nat] /\ hook \in [Handler -> [on : Delivery \cup {NoDelivery}, to : Status]]
      /\ \A h \in Handler : hook[h] # NoHook => hook[h].on \in Delivery
  BY DEF IInv, TypeOK, WorkerTypeOK, HookInv
<1>2. ASSUME NEW h \in Handler, hook[h] # NoHook, hook' = [hook EXCEPT ![h] = NoHook],
             \A d \in Delivery : status'[d] = status[d] \/ d = hook[h].on,
             UNCHANGED callbacks
      PROVE  OneCallback'
  <2>1. hook'[h] = NoHook /\ \A g \in Handler \ {h} : hook'[g] = hook[g]
    BY <1>1, <1>2
  <2>2. ASSUME NEW g \in Handler, hook'[g] # NoHook
        PROVE  /\ status'[hook'[g].on] = "sent"
               /\ callbacks'[ref'[hook'[g].on]] = 0
               /\ \A f \in Handler : hook'[f].on = hook'[g].on => f = g
    <3>1. g # h /\ hook'[g] = hook[g] /\ hook[g].on # hook[h].on /\ hook[g].on \in Delivery
      BY <1>1, <1>2, <2>1, <2>2 DEF OneCallback
    <3>2. hook'[h].on # hook[g].on
      BY <2>1, <3>1, WorkerAssumption DEF NoHook
    <3> QED BY <1>2, <2>1, <2>2, <3>1, <3>2 DEF OneCallback
  <2> QED BY <1>2, <2>2 DEF OneCallback
<1>3. ASSUME NEW r \in Ref, callbacks[r] > 0, callbacks' = [callbacks EXCEPT ![r] = @ - 1],
             UNCHANGED <<hook, status>>
      PROVE  OneCallback'
  <2>1. \A q \in Ref : callbacks[q] = 0 => callbacks'[q] = 0
    BY <1>1, <1>3
  <2>2. \A q \in Ref : /\ callbacks'[q] <= 1
                       /\ callbacks'[q] > 0 => fate'[q] # "none"
    BY <1>1, <1>3 DEF OneCallback
  <2> QED BY <1>3, <2>1, <2>2, CallbackAbout DEF OneCallback
<1> QED BY <1>2, <1>3

-----------------------------------------------------------------------------
(* The histories *)

\* The transition that is written starts where the history ends.
LEMMA LegalWrite ==
    ASSUME IInv, AllLegal, NEW d \in Delivery, NEW to \in Status, Write(d, status[d], to),
           <<status[d], to>> \in Life!AllowedTransitions \cup {<<"none", "queued">>}
    PROVE  AllLegal'
<1>1. status \in [Delivery -> Status] /\ history \in [Delivery -> Seq(Status \X Status)]
  BY DEF IInv, TypeOK, StoreTypeOK
<1> DEFINE t == <<status[d], to>>
<1>2. /\ status' = [status EXCEPT ![d] = to]
      /\ history' = [history EXCEPT ![d] = Append(@, t)]
  BY DEF Write
<1>3. ASSUME NEW e \in Delivery, e # d
      PROVE  Recorded(e)'
  <2>1. status'[e] = status[e] /\ history'[e] = history[e] /\ Recorded(e)
    BY <1>1, <1>2, <1>3 DEF AllLegal
  <2> QED BY <2>1 DEF Recorded, LegalHistory
<1>4. Recorded(d)'
  <2> DEFINE old == history[d]
             new == history'[d]
  <2>1. /\ old \in Seq(Status \X Status) /\ t \in Status \X Status /\ t[1] = status[d] /\ t[2] = to
        /\ new = Append(old, t) /\ status'[d] = to /\ to # "none"
    BY <1>1, <1>2 DEF Life!AllowedTransitions
  <2>2. Recorded(d)
    BY DEF AllLegal
  <2> HIDE DEF t
  <2>3. /\ Len(old) \in Nat /\ Len(new) = Len(old) + 1 /\ new[Len(old) + 1] = t
        /\ \A i \in 1 .. Len(old) : new[i] = old[i]
    BY <2>1
  <2>4. old = << >> <=> Len(old) = 0
    BY <2>1
  <2> HIDE DEF new, old
  <2>5. \A i \in 1 .. Len(new) : new[i] \in Life!AllowedTransitions \cup {<<"none", "queued">>}
    <3>1. \A i \in 1 .. Len(old) : old[i] \in Life!AllowedTransitions \cup {<<"none", "queued">>}
      BY <2>2 DEF Recorded, LegalHistory, old
    <3>2. t \in Life!AllowedTransitions \cup {<<"none", "queued">>}
      BY DEF t
    <3> QED BY <2>3, <3>1, <3>2
  <2>6. Len(old) > 0 => old[1][1] = "none" /\ old[Len(old)][2] = status[d]
    BY <2>2 DEF Recorded, LegalHistory, old
  <2>7. \A i \in 2 .. Len(new) : new[i - 1][2] = new[i][1]
    <3>1. \A i \in 2 .. Len(old) : old[i - 1][2] = old[i][1]
      BY <2>2 DEF Recorded, LegalHistory, old
    <3>2. ASSUME NEW i \in 2 .. Len(new)
          PROVE  new[i - 1][2] = new[i][1]
      <4>1. CASE i <= Len(old)
        <5>1. i \in 2 .. Len(old) /\ i \in 1 .. Len(old) /\ i - 1 \in 1 .. Len(old)
          BY <2>3, <4>1
        <5>2. new[i] = old[i] /\ new[i - 1] = old[i - 1]
          BY <2>3, <5>1
        <5> QED BY <3>1, <5>1, <5>2
      <4>2. CASE i = Len(old) + 1
        <5>1. Len(old) \in 1 .. Len(old) /\ i - 1 = Len(old)
          BY <2>3, <4>2
        <5>2. new[i] = t /\ new[i - 1] = old[Len(old)]
          BY <2>3, <4>2, <5>1
        <5> QED BY <2>1, <2>3, <2>6, <5>1, <5>2
      <4> QED BY <2>3, <4>1, <4>2
    <3> QED BY <3>2
  <2>8. new[1][1] = "none" /\ new[Len(new)][2] = to
    <3>1. CASE Len(old) = 0
      <4>1. status[d] = "none"
        BY <2>2, <2>4, <3>1 DEF Recorded, old
      <4>2. new[1] = t /\ new[Len(new)] = t
        BY <2>3, <3>1
      <4> QED BY <2>1, <4>1, <4>2
    <3>2. CASE Len(old) > 0
      <4>1. new[1] = old[1] /\ new[Len(new)] = t
        BY <2>3, <3>2
      <4> QED BY <2>1, <2>6, <3>2, <4>1
    <3> QED BY <2>3, <3>1, <3>2
  <2>9. new # << >>
    <3>1. Len(new) # 0
      BY <2>3
    <3> QED BY <3>1
  <2> QED BY <2>1, <2>5, <2>7, <2>8, <2>9 DEF Recorded, LegalHistory, new, Life!AllowedTransitions
<1> QED BY <1>3, <1>4 DEF AllLegal

\* A step that writes no transition.
LEMMA LegalRest ==
    ASSUME AllLegal, UNCHANGED <<status, history>>
    PROVE  AllLegal'
BY DEF AllLegal, Recorded, LegalHistory, Life!AllowedTransitions

-----------------------------------------------------------------------------
(* The steps that write *)

\* A step that writes no row, serves no callback and sends none.
LEMMA RowsAlone ==
    ASSUME IInv, ChannelInv, OneCallback, AllLegal, UNCHANGED <<status, ref, history, fate, callbacks, hook>>
    PROVE  OneCallback' /\ AllLegal'
BY CallbacksRest, LegalRest

\* The row of a recipient is created: nobody is about it.
LEMMA SavedPath ==
    ASSUME IInv, ChannelInv, Steady, OneCallback, AllLegal, NEW k \in Dispatch, SaveDelivery(k)
    PROVE  Steady' /\ OneCallback' /\ AllLegal'
<1>1. PICK d \in Unsaved(k) : CreateQueued(d)
  BY DEF SaveDelivery
<1>2. /\ d \in Delivery /\ status[d] = "none" /\ Write(d, "none", "queued")
      /\ UNCHANGED <<ref, job, fate, callbacks, hook>>
  BY <1>1 DEF SaveDelivery, Unsaved, CreateQueued, workerVars, providerVars
<1>3. \A e \in Delivery : status'[e] = status[e] \/ status[e] = "none"
  BY <1>2 DEF Write, IInv, TypeOK, StoreTypeOK
<1>4. Steady'
  BY <1>2, <1>3, SteadyRest
<1>5. OneCallback'
  BY <1>2, <1>3, CallbacksRest
<1>6. AllLegal'
  BY <1>2, LegalWrite DEF Status
<1> QED BY <1>4, <1>5, <1>6

\* A task records how the send ended, on the row it has found queued.
LEMMA RecordedPath ==
    ASSUME IInv, ChannelInv, Steady, OneCallback, AllLegal, NEW w \in Worker, RecordWrite(w), UNCHANGED hook
    PROVE  OneCallback' /\ AllLegal'
<1> DEFINE d == job[w].on
           to == IF job[w].out.to = "sent" THEN "sent" ELSE "failed"
<1>1. /\ d \in Delivery /\ status[d] = "queued" /\ job[w].seen = "queued"
      /\ status \in [Delivery -> Status] /\ ref \in [Delivery -> Ref \cup {NoRef}]
  BY DEF RecordWrite, IInv, JobInv, JobOK, Steady, TaskStatus, TypeOK, StoreTypeOK
<1>2. /\ Write(d, status[d], to)
      /\ (\E r : ref' = [ref EXCEPT ![d] = r]) \/ UNCHANGED ref
      /\ UNCHANGED <<fate, callbacks>>
  BY <1>1 DEF RecordWrite, WriteSent, WriteFailed, providerVars
<1>3. \A e \in Delivery : status[e] = "sent" => status'[e] = "sent" /\ ref'[e] = ref[e]
  BY <1>1, <1>2 DEF Write
<1>4. AllLegal'
  BY <1>1, <1>2, LegalWrite DEF Status, Life!AllowedTransitions
<1> QED BY <1>2, <1>3, <1>4, CallbacksRest

\* The outcome of a delivery that is sent is written: its one confirmation.
LEMMA ConfirmedPath ==
    ASSUME IInv, AllLegal, NEW d \in Delivery, status[d] = "sent", ref[d] # NoRef, NEW why,
           WriteConfirmed(d, fate[ref[d]], why)
    PROVE  AllLegal'
<1>1. fate[ref[d]] \in {"delivered", "failed"}
  BY DEF IInv, TypeOK, StoreTypeOK, WorkerTypeOK, RefInv, OutcomeIsProviders
<1> QED BY <1>1, LegalWrite DEF WriteConfirmed, Status, Life!AllowedTransitions

\* Every step without a second copy keeps the paths.
LEMMA PathKept ==
    ASSUME IInv, ChannelInv, PathInv, [Next]_vars
    PROVE  PathInv'
<1> SUFFICES ASSUME Single' PROVE (Alone /\ Steady /\ OneCallback /\ AllLegal)'
  BY DEF PathInv
<1>1. IInv'
  BY NextInvariant
<1>2. /\ Single /\ UNCHANGED <<redelivered, repeated>>
      /\ ~Redeliver /\ \A r \in Ref : ~RepeatCallback(r)
  <2>1. redelivered \in Nat /\ repeated \in Nat
    BY DEF IInv, TypeOK, WorkerTypeOK
  <2>2. ~Redeliver /\ \A r \in Ref : ~RepeatCallback(r)
    BY <2>1 DEF Redeliver, RepeatCallback, Single
  <2>3. ASSUME NEW w \in Worker, Begin(w) \/ TaskStep(w) \/ Crash(w)
        PROVE  UNCHANGED redelivered
    <3>1. CASE Begin(w) \/ Crash(w)
      BY <3>1 DEF Begin, BeginFanout, BeginDeliver, BeginPoll, Crash
    <3>2. CASE TaskStep(w)
      BY <3>2 DEF TaskStep, FanoutPublish, Claim, CallAccepted, CallTimedOut, CallTransient, CallRejected, AfterCall,
                  CallRefused, RecordRead, RecordWrite, EnqueuePoll, PollAnswered, PollPending, PollError, ConfirmWrite
    <3> QED BY <2>3, <3>1, <3>2
  <2>4. ASSUME WorkerStep
        PROVE  UNCHANGED <<redelivered, repeated>>
    BY <2>2, <2>3, <2>4 DEF WorkerStep, WorkerNext, apiVars, Single
  <2>5. ASSUME NEW k \in Dispatch, SendStep(k) \/ AbortSend(k)
        PROVE  UNCHANGED <<redelivered, repeated>>
    BY <2>5 DEF SendStep, StartSend, SaveDelivery, EnqueueFanout, AbortSend, workerVars
  <2>6. ASSUME NEW h \in Handler, ApplyCallback(h) \/ CrashHook(h) \/ \E r \in Ref : ReceiveCallback(h, r)
        PROVE  UNCHANGED <<redelivered, repeated>>
    BY <2>6 DEF ApplyCallback, CrashHook, ReceiveCallback, workerVars
  <2>7. ASSUME NEW r \in Ref, LoseCallback(r)
        PROVE  UNCHANGED <<redelivered, repeated>>
    BY <2>7 DEF LoseCallback, apiVars
  <2>8. ASSUME UNCHANGED vars
        PROVE  UNCHANGED <<redelivered, repeated>>
    BY <2>8 DEF vars, workerVars, apiVars
  <2>9. UNCHANGED <<redelivered, repeated>>
    BY <2>2, <2>4, <2>5, <2>6, <2>7, <2>8 DEF Next
  <2> QED BY <2>2, <2>9 DEF Single
<1>3. Alone /\ Steady /\ OneCallback /\ AllLegal
  BY <1>2 DEF PathInv
<1>4. Alone'
  BY <1>1, <1>2, <1>3, OnePlaceKept
<1>5. (Steady /\ OneCallback /\ AllLegal)'
  <2>1. ASSUME UNCHANGED <<job, status>>
        PROVE  Steady'
    BY <1>3, <2>1, SteadyRest
  <2>2. ASSUME NEW w \in Worker, WorkerStep, Begin(w) \/ TaskStep(w) \/ Crash(w)
        PROVE  (Steady /\ OneCallback /\ AllLegal)'
    <3>1. Steady'
      BY <1>3, <2>2, SteadyBegin, SteadyStep
    <3>2. UNCHANGED hook
      BY <2>2 DEF WorkerStep, apiVars
    <3>3. CASE Begin(w)
      BY <1>3, <3>1, <3>2, <3>3, RowsAlone DEF Begin, BeginFanout, BeginDeliver, BeginPoll, dbVars, providerVars
    <3>4. CASE FanoutPublish(w) \/ Claim(w) \/ CallRefused(w) \/ RecordRead(w) \/ EnqueuePoll(w)
      BY <1>3, <3>1, <3>2, <3>4, RowsAlone
         DEF FanoutPublish, Claim, ClaimKey, CallRefused, RecordRead, EnqueuePoll, dbVars, providerVars
    <3>5. CASE PollAnswered(w) \/ PollPending(w) \/ PollError(w) \/ Crash(w)
      BY <1>3, <3>1, <3>2, <3>5, RowsAlone DEF PollAnswered, PollPending, PollError, Crash, dbVars, providerVars
    <3>6. CASE CallTransient(w) \/ CallRejected(w)
      BY <1>3, <3>1, <3>2, <3>6, RowsAlone DEF CallTransient, CallRejected, AfterCall, dbVars
    <3>7. CASE CallAccepted(w) \/ CallTimedOut(w)
      <4>1. job[w].pc = "call" /\ ProviderAccepts(<<job[w].on, job[w].count + 1>>) /\ UNCHANGED dbVars
        BY <3>7 DEF CallAccepted, CallTimedOut, AfterCall
      <4>2. OneCallback'
        BY <1>3, <3>2, <4>1, CallbackSent
      <4> QED BY <1>3, <3>1, <4>1, <4>2, LegalRest DEF dbVars
    <3>8. CASE RecordWrite(w)
      <4>1. OneCallback' /\ AllLegal'
        BY <1>3, <3>2, <3>8, RecordedPath
      <4> QED BY <3>1, <4>1
    <3>9. CASE ConfirmWrite(w)
      <4>1. /\ job[w].on \in Polled /\ status[job[w].on] = "sent" /\ job[w].on \in Delivery /\ ref[job[w].on] # NoRef
            /\ WriteConfirmed(job[w].on, fate[ref[job[w].on]], job[w].out.why)
            /\ UNCHANGED <<fate, callbacks>>
        BY <1>3, <3>9 DEF ConfirmWrite, ChannelInv, Steady, TaskStatus, IInv, JobInv, JobOK, providerVars
      <4>2. UNCHANGED ref /\ \A e \in Delivery : e \notin Polled => status'[e] = status[e]
        BY <4>1 DEF WriteConfirmed, Write, IInv, TypeOK, StoreTypeOK
      <4>3. OneCallback'
        BY <1>3, <3>2, <4>1, <4>2, CallbacksRest
      <4>4. AllLegal'
        BY <1>3, <4>1, ConfirmedPath
      <4> QED BY <3>1, <4>3, <4>4
    <3> QED BY <2>2, <3>3, <3>4, <3>5, <3>6, <3>7, <3>8, <3>9 DEF TaskStep
  <2>3. ASSUME NEW k \in Dispatch, StartSend(k) \/ EnqueueFanout(k) \/ AbortSend(k)
        PROVE  (Steady /\ OneCallback /\ AllLegal)'
    <3>1. UNCHANGED <<status, ref, history, fate, callbacks, hook, job>>
      BY <2>3 DEF StartSend, CreateDispatch, EnqueueFanout, AbortSend, dbVars, workerVars, providerVars, queueVars
    <3> QED BY <1>3, <2>1, <3>1, RowsAlone
  <2>4. ASSUME NEW k \in Dispatch, SaveDelivery(k)
        PROVE  (Steady /\ OneCallback /\ AllLegal)'
    BY <1>3, <2>4, SavedPath
  <2>5. ASSUME NEW h \in Handler, ApplyCallback(h)
        PROVE  (Steady /\ OneCallback /\ AllLegal)'
    <3> DEFINE d == hook[h].on
    <3>1. /\ hook[h] # NoHook /\ d \in Delivery /\ ref[d] # NoRef /\ hook[h].to = fate[ref[d]]
          /\ status[d] = "sent" /\ d \notin Polled
      BY <1>3, <2>5 DEF ApplyCallback, ChannelInv, IInv, HookInv, OneCallback
    <3>2. /\ WriteConfirmed(d, fate[ref[d]], "none") /\ hook' = [hook EXCEPT ![h] = NoHook]
          /\ UNCHANGED <<job, fate, callbacks>>
      BY <2>5, <3>1 DEF ApplyCallback, workerVars, queueVars, providerVars
    <3>3. UNCHANGED ref /\ \A e \in Delivery : status'[e] = status[e] \/ e = d
      BY <3>2 DEF WriteConfirmed, Write, IInv, TypeOK, StoreTypeOK
    <3>4. Steady'
      BY <1>3, <3>1, <3>2, <3>3, SteadyRest
    <3>5. OneCallback'
      BY <1>3, <3>1, <3>2, <3>3, CallbackGone
    <3>6. AllLegal'
      BY <1>3, <3>1, <3>2, ConfirmedPath
    <3> QED BY <1>3, <3>2, <3>4, <3>5, <3>6
  <2>6. ASSUME NEW h \in Handler, CrashHook(h)
        PROVE  (Steady /\ OneCallback /\ AllLegal)'
    <3>1. /\ hook[h] # NoHook /\ hook' = [hook EXCEPT ![h] = NoHook]
          /\ UNCHANGED <<status, ref, history, fate, callbacks, job>>
      BY <2>6 DEF CrashHook, dbVars, queueVars, providerVars
    <3>2. OneCallback'
      BY <1>3, <3>1, CallbackGone
    <3> QED BY <1>3, <2>1, <3>1, <3>2, LegalRest
  <2>7. ASSUME NEW h \in Handler, NEW r \in Ref, ReceiveCallback(h, r)
        PROVE  (Steady /\ OneCallback /\ AllLegal)'
    <3>1. UNCHANGED <<status, history, job>>
      BY <2>7 DEF ReceiveCallback, dbVars, queueVars
    <3>2. OneCallback'
      BY <1>3, <2>7, CallbackServed
    <3> QED BY <1>3, <2>1, <3>1, <3>2, LegalRest
  <2>8. ASSUME NEW r \in Ref, LoseCallback(r)
        PROVE  (Steady /\ OneCallback /\ AllLegal)'
    <3>1. /\ callbacks[r] > 0 /\ callbacks' = [callbacks EXCEPT ![r] = @ - 1]
          /\ UNCHANGED <<status, ref, history, fate, hook, job>>
      BY <2>8 DEF LoseCallback, dbVars, queueVars, apiVars
    <3>2. OneCallback'
      BY <1>3, <3>1, CallbackGone
    <3> QED BY <1>3, <2>1, <3>1, <3>2, LegalRest
  <2>9. CASE UNCHANGED vars
    <3>1. UNCHANGED <<status, ref, history, fate, callbacks, hook, job>>
      BY <2>9 DEF vars, dbVars, workerVars, queueVars, providerVars, apiVars
    <3> QED BY <1>3, <2>1, <3>1, RowsAlone
  <2> QED BY <1>2, <2>2, <2>3, <2>4, <2>5, <2>6, <2>7, <2>8, <2>9 DEF Next, WorkerStep, WorkerNext, SendStep
<1> QED BY <1>4, <1>5

\* At first there is nothing anywhere.
LEMMA InitPath == ASSUME Init PROVE PathInv
<1> USE StoreAssumption, WorkerAssumption
<1>1. Alone
  BY DEF Init, WorkerInit, Alone, OnePlace, Place, Found, Idle
<1>2. Steady
  BY DEF Init, WorkerInit, Steady, TaskStatus, Idle
<1>3. OneCallback
  BY DEF Init, WorkerInit, OneCallback
<1>4. AllLegal
  BY DEF Init, StoreInit, AllLegal, Recorded, LegalHistory
<1> QED BY <1>1, <1>2, <1>3, <1>4 DEF PathInv

\* FR-025: as long as nothing is delivered twice, the history of every delivery is a
\* path of ALLOWED_TRANSITIONS (domain/dispatch.py:67-72) that ends at its status, though
\* record_sent, record_failed and confirm write without looking at the row again.
THEOREM HistoriesArePaths == Spec => []HistoryIsAPath
<1>1. Init => ChannelInv /\ PathInv
  BY InitChannel, InitPath
<1>2. IInv /\ ChannelInv /\ PathInv /\ [Next]_vars => ChannelInv' /\ PathInv'
  BY ChannelKept, PathKept
<1>3. PathInv => HistoryIsAPath
  BY DEF PathInv, Single, HistoryIsAPath, AllLegal, Recorded
<1> QED BY <1>1, <1>2, <1>3, Invariance, PTL DEF Spec

\* The whole of the invariant holds.
THEOREM InvariantHolds == Spec => []Inductive
<1> DEFINE Rest == OrderInv /\ ChannelInv /\ ReasonInv /\ StrandInv /\ PathInv
<1>1. Init => Rest
  BY InitOrder, InitChannel, InitStrand, InitPath
<1>2. IInv /\ Rest /\ [Next]_vars => Rest'
  BY OrderKept, ChannelKept, ReasonKept, HandsKept, PathKept
<1>3. IInv /\ Rest => Inductive
  BY DEF Inductive
<1> HIDE DEF Rest
<1> QED BY <1>1, <1>2, <1>3, Invariance, PTL DEF Spec
=============================================================================
