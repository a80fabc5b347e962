------------------------------- MODULE Health -------------------------------
(***************************************************************************)
(* How the service is asked whether it works.  GET /health and GET /readyz *)
(* look at the data store, the broker and the workers of both pools        *)
(* without giving them anything to do (AggregateReadinessService,          *)
(* ReadinessService); the smoke check sends a task of its own to each pool *)
(* and waits for the rows the tasks write (SmokeCheckService).  Several    *)
(* checks and requests run at once, while the subsystems fail, hang and    *)
(* recover.  A subsystem that is down refuses, one that hangs is silent; a *)
(* worker is never sure to do anything, so that one that hangs is no case  *)
(* of its own.                                                             *)
(***************************************************************************)
EXTENDS Naturals

CONSTANTS Check,      \* invocations of the smoke check, one correlation id each
          Aggregate,  \* requests to GET /health
          Ready,      \* requests to GET /readyz
          Scenario,   \* bound: the sets of these that are made in one behaviour
          Timeout,    \* bound: what smoke_timeout_s is, in ticks of a check's clock
          MaxFaults   \* bound: failures of subsystems

Request == Aggregate \cup Ready

ASSUME HealthAssumption == /\ Scenario \subseteq SUBSET (Check \cup Request)
                           /\ Aggregate \cap Ready = {}
                           /\ Timeout \in Nat \ {0} /\ MaxFaults \in Nat

VARIABLES made,    \* the checks and requests of this behaviour
          state,   \* of each subsystem
          queued,  \* pings in the queue of their pool
          running, \* pings a worker is at, acknowledged before it starts on them
          rows,    \* the table liveness_completion
          check,   \* each invocation of the smoke check
          report,  \* each request: its probes' results, and the pools that answered its ping
          inTime,  \* history: the pools whose row was there when a check ran out of time
          wasUp,   \* history: the subsystems that were up at some time during a request
          faults   \* failures so far

work == <<queued, running, rows>>
vars == <<made, state, work, check, report, inTime, wasUp, faults>>

Pool == {"cpu", "io"}
Subsystem == {"data_store", "message_broker"} \cup Pool

Up(s)   == state[s] = "up"
Down(s) == state[s] = "down"

\* Each subsystem's result in a report: a pool is a subsystem of its own.
Asked(r)  == IF r \in Ready THEN {"data_store"} ELSE Subsystem
Result    == UNION { [S -> BOOLEAN] : S \in SUBSET Subsystem }
Open(r)   == report[r].asked /\ ~report[r].done
Missed(r) == Asked(r) \ DOMAIN report[r].result

\* healthy.
Healthy(r) == \A s \in DOMAIN report[r].result : report[r].result[s]

\* completed_pools.
Completed(c) == { p \in Pool : <<c, p>> \in rows }

TypeOK == /\ made \in Scenario
          /\ state \in [Subsystem -> {"up", "down", "hung"}]
          /\ queued \subseteq Check \X Pool
          /\ running \subseteq Check \X Pool
          /\ rows \subseteq Check \X Pool
          /\ check \in [Check -> [pc : Pool \cup {"loop", "poll", "last", "ok", "failed", "error"},
                                  age : 0 .. Timeout, completed : SUBSET Pool]]
          /\ report \in [Request -> [asked : BOOLEAN, done : BOOLEAN, result : Result,
                                     pongs : SUBSET Pool]]
          /\ inTime \in [Check -> SUBSET Pool]
          /\ wasUp \in [Request -> SUBSET Subsystem]
          /\ faults \in 0 .. MaxFaults

Init == /\ made \in Scenario
        /\ state = [s \in Subsystem |-> "up"]
        /\ queued = {} /\ running = {} /\ rows = {}
        /\ check = [c \in Check |-> [pc |-> "cpu", age |-> 0, completed |-> {}]]
        /\ report = [r \in Request |-> [asked |-> FALSE, done |-> FALSE,
                                        result |-> [s \in {} |-> TRUE], pongs |-> {}]]
        /\ inTime = [c \in Check |-> {}]
        /\ wasUp = [r \in Request |-> {}]
        /\ faults = 0

-----------------------------------------------------------------------------
(* The smoke check *)

\* A check goes on to pc, with the pools it will report as completed.
Go(c, pc, pools) ==
    check' = [check EXCEPT ![c] = [pc |-> pc, age |-> @.age, completed |-> pools]]

\* apply_async to cpu, then to io; the second message starts the clock.
Publish(c, p) ==
    /\ c \in made /\ check[c].pc = p
    /\ Up("message_broker")
    /\ queued' = queued \cup {<<c, p>>}
    /\ Go(c, IF p = "cpu" THEN "io" ELSE "loop", {})
    /\ UNCHANGED <<made, state, running, rows, report, inTime, wasUp, faults>>

\* A broker or a data store that refuses is an exception, which ends the check.
Raise(c) ==
    /\ c \in made
    /\ \/ check[c].pc \in Pool /\ Down("message_broker")
       \/ check[c].pc \in {"poll", "last"} /\ Down("data_store")
    /\ Go(c, "error", {})
    /\ UNCHANGED <<made, state, work, report, inTime, wasUp, faults>>

\* Variant: the check waits for its rows however long they take.
LoopUntilCompleted(c) ==
    /\ check[c].pc = "loop"
    /\ Go(c, "poll", {})
    /\ UNCHANGED <<made, state, work, report, inTime, wasUp, faults>>

\* The condition of the loop.
Loop(c) == /\ check[c].pc = "loop"
           /\ Go(c, IF check[c].age < Timeout THEN "poll" ELSE "last", {})
           /\ UNCHANGED <<made, state, work, report, inTime, wasUp, faults>>

\* Variant: the rows of every check count.
AnyCompleted(c) == { p \in Pool : \E x \in Check : <<x, p>> \in rows }

PollAny(c) ==
    /\ check[c].pc = "poll"
    /\ Up("data_store")
    /\ Go(c, IF AnyCompleted(c) = Pool THEN "ok" ELSE "loop", AnyCompleted(c))
    /\ UNCHANGED <<made, state, work, report, inTime, wasUp, faults>>

\* both_completed; a check that has to wait goes back to the loop.
Poll(c) == /\ check[c].pc = "poll"
           /\ Up("data_store")
           /\ \/ Completed(c) = Pool /\ Go(c, "ok", Pool)
              \/ Completed(c) # Pool /\ Go(c, "loop", {})
           /\ UNCHANGED <<made, state, work, report, inTime, wasUp, faults>>

\* The read after the loop names the missing pools, and cannot make the check succeed.
Last(c) == /\ check[c].pc = "last"
           /\ Up("data_store")
           /\ Go(c, "failed", Completed(c))
           /\ UNCHANGED <<made, state, work, report, inTime, wasUp, faults>>

\* The event loop's clock.
Tick(c) == /\ check[c].pc \in {"loop", "poll"}
           /\ check[c].age < Timeout
           /\ check' = [check EXCEPT ![c].age = @ + 1]
           /\ inTime' = IF check[c].age + 1 = Timeout
                        THEN [inTime EXCEPT ![c] = Completed(c)]
                        ELSE inTime
           /\ UNCHANGED <<made, state, work, report, wasUp, faults>>

-----------------------------------------------------------------------------
(* The workers *)

Take(c, p) == /\ <<c, p>> \in queued
              /\ Up(p) /\ Up("message_broker")
              /\ queued' = queued \ {<<c, p>>}
              /\ running' = running \cup {<<c, p>>}
              /\ UNCHANGED <<made, state, rows, check, report, inTime, wasUp, faults>>

\* liveness_ping: the row, once for a check and a pool; a task that fails is not tried again.
Ping(c, p) == /\ <<c, p>> \in running
              /\ Up(p)
              /\ \/ Up("data_store") /\ rows' = rows \cup {<<c, p>>}
                 \/ Down("data_store") /\ rows' = rows
              /\ running' = running \ {<<c, p>>}
              /\ UNCHANGED <<made, state, queued, check, report, inTime, wasUp, faults>>

-----------------------------------------------------------------------------
(* GET /health and GET /readyz *)

\* All the probes are started at once.
Ask(r) == /\ r \in made /\ ~report[r].asked
          /\ report' = [report EXCEPT ![r].asked = TRUE]
          /\ wasUp' = [wasUp EXCEPT ![r] = { s \in Subsystem : Up(s) }]
          /\ UNCHANGED <<made, state, work, check, inTime, faults>>

\* The results of one probe.
Conclude(r, result) ==
    /\ report' = [report EXCEPT ![r].result =
                     [s \in DOMAIN @ \cup DOMAIN result |->
                          IF s \in DOMAIN @ THEN @[s] ELSE result[s]]]
    /\ UNCHANGED <<made, state, work, check, inTime, wasUp, faults>>

\* AsyncDataStoreProbe, CeleryBrokerProbe: whatever is raised is a failure.
Probe(r, s) == /\ Open(r) /\ s \in Missed(r) \ Pool
               /\ state[s] # "hung"
               /\ Conclude(r, [x \in {s} |-> Up(s)])

\* A worker's reply to the control ping.
Pong(r, p) == /\ Open(r) /\ p \in Missed(r) \ report[r].pongs
              /\ Up(p) /\ Up("message_broker")
              /\ report' = [report EXCEPT ![r].pongs = @ \cup {p}]
              /\ UNCHANGED <<made, state, work, check, inTime, wasUp, faults>>

\* Variant: a reply is a reply.
CountPongsOnly(r) ==
    /\ Open(r) /\ Pool \subseteq Missed(r)
    /\ state["message_broker"] # "hung"
    /\ Conclude(r, [p \in Pool |-> report[r].pongs # {} /\ Up("message_broker")])

\* CeleryWorkerProbe: the pools that replied while the ping was open; none when it raised.
CountPongs(r) ==
    /\ Open(r) /\ Pool \subseteq Missed(r)
    /\ state["message_broker"] # "hung"
    /\ Conclude(r, [p \in Pool |-> p \in report[r].pongs /\ Up("message_broker")])

\* Variant: no wait_for around the control ping.
ExpireSingles(r) == /\ r \in Aggregate /\ Open(r)
                    /\ \E s \in Missed(r) \ Pool : Conclude(r, [x \in {s} |-> FALSE])

\* wait_for around each probe; GET /readyz has none.
Expire(r) == /\ r \in Aggregate /\ Open(r)
             /\ \E S \in {{"data_store"}, {"message_broker"}, Pool} :
                   /\ S \subseteq Missed(r)
                   /\ Conclude(r, [s \in S |-> FALSE])

\* gather: the report, once every probe has its results.
Report(r) == /\ Open(r) /\ Missed(r) = {}
             /\ report' = [report EXCEPT ![r].done = TRUE]
             /\ UNCHANGED <<made, state, work, check, inTime, wasUp, faults>>

-----------------------------------------------------------------------------
(* Failures *)

\* What a worker had not acknowledged goes back to its queue, the rest of its pings is
\* gone; a broker that fails may deliver again what a worker is still at.
Fail(s, to) ==
    /\ faults < MaxFaults
    /\ Up(s)
    /\ to = "hung" => s \notin Pool
    /\ faults' = faults + 1
    /\ state' = [state EXCEPT ![s] = to]
    /\ IF to = "hung" \/ s = "data_store"
       THEN UNCHANGED <<queued, running>>
       ELSE LET held == { x \in running : s \in {x[2], "message_broker"} }
            IN /\ \E again \in SUBSET held : queued' = queued \cup again
               /\ running' = IF s = "message_broker" THEN running ELSE running \ held
    /\ UNCHANGED <<made, rows, check, report, inTime, wasUp>>

Recover(s) ==
    /\ ~Up(s)
    /\ state' = [state EXCEPT ![s] = "up"]
    /\ wasUp' = [r \in Request |-> IF Open(r) THEN wasUp[r] \cup {s} ELSE wasUp[r]]
    /\ UNCHANGED <<made, work, check, report, inTime, faults>>

CheckStep(c) == Raise(c) \/ Loop(c) \/ Poll(c) \/ Last(c) \/ \E p \in Pool : Publish(c, p)
Answer(r) == CountPongs(r) \/ Report(r) \/ \E s \in Subsystem : Probe(r, s)

Next == \/ \E c \in Check : \/ CheckStep(c) \/ Tick(c)
                            \/ \E p \in Pool : Take(c, p) \/ Ping(c, p)
        \/ \E r \in Request : \/ Ask(r) \/ Answer(r) \/ Expire(r)
                              \/ \E p \in Pool : Pong(r, p)
        \/ \E s \in Subsystem : Recover(s) \/ \E to \in {"down", "hung"} : Fail(s, to)

Spec == Init /\ [][Next]_vars

\* A check and a request run, their clocks too; workers and subsystems promise nothing.
FairSpec == /\ Spec
            /\ \A c \in Check : WF_vars(CheckStep(c)) /\ WF_vars(Tick(c))
            /\ \A r \in Request : WF_vars(Answer(r)) /\ WF_vars(Expire(r))

-----------------------------------------------------------------------------
(* Properties *)

\* A check that succeeds has had its own ping run by both pools, however many checks run
\* at once, and a pool that a failed check calls missing had no row when the time ran out
\* (SmokeCheckService.run, with the read after the loop).
VerdictTruthful ==
    \A c \in Check : /\ check[c].pc = "ok" => check[c].completed = Completed(c) /\ Completed(c) = Pool
                     /\ check[c].pc = "failed" => inTime[c] \subseteq check[c].completed

\* A report that says healthy was made while each of the subsystems was up at some time
\* of the request, though they are looked at one by one and may fail meanwhile
\* (AggregateReadinessService.report and the probes).
HealthyIsTrue ==
    \A r \in Request : report[r].done /\ Healthy(r) =>
        DOMAIN report[r].result = Asked(r) /\ Asked(r) \subseteq wasUp[r]

\* A smoke check ends, whatever becomes of its pings and of the workers; only a broker or
\* a data store that is silent for ever can hold it (the deadline of SmokeCheckService.run,
\* which bounds the loop and not the calls it makes).
Ended(c) == check[c].pc \in {"ok", "failed", "error"}
Silent(s) == state[s] = "hung"

CheckEnds ==
    []<>(\A c \in Check \cap made : Ended(c) \/ Silent("data_store") \/ Silent("message_broker"))

\* GET /health answers whatever hangs, as each of its probes is bounded; GET /readyz
\* answers unless the data store is silent (wait_for in AggregateReadinessService).
ReportEnds == []<>(\A r \in Request : Open(r) => r \in Ready /\ Silent("data_store"))
=============================================================================
