---------------------------- MODULE HealthProofs ----------------------------
(***************************************************************************)
(* The verdicts of the smoke check and of GET /health are true: for any    *)
(* number of checks and requests, any time limit and any number of         *)
(* failures.  The invariant keeps what a verdict is put together from.     *)
(***************************************************************************)
EXTENDS Health, TLAPS

\* A check's rows stay, those of a success among them.
ChecksInv ==
    \A c \in Check :
        /\ inTime[c] \subseteq Completed(c)
        /\ check[c].pc = "ok" => check[c].completed = Pool /\ Completed(c) = Pool
        /\ check[c].pc = "failed" => inTime[c] \subseteq check[c].completed

\* A good result and a reply come from something that was up during the request.
ReportOK(r) ==
    /\ ~report[r].asked => wasUp[r] = {}
    /\ Open(r) => \A s \in Subsystem : Up(s) => s \in wasUp[r]
    /\ report[r].pongs \subseteq wasUp[r]
    /\ DOMAIN report[r].result \subseteq Asked(r)
    /\ \A s \in DOMAIN report[r].result : report[r].result[s] => s \in wasUp[r]
    /\ report[r].done => Missed(r) = {}

ReportsInv == \A r \in Request : ReportOK(r)

IInv == TypeOK /\ ChecksInv /\ ReportsInv

LEMMA ResultIsFunction ==
    ASSUME NEW f \in Result
    PROVE  DOMAIN f \subseteq Subsystem /\ f \in [DOMAIN f -> BOOLEAN]
<1>1. PICK S \in SUBSET Subsystem : f \in [S -> BOOLEAN]
  BY DEF Result
<1> QED BY <1>1

LEMMA FunctionIsResult ==
    ASSUME NEW S \in SUBSET Subsystem, NEW f \in [S -> BOOLEAN]
    PROVE  f \in Result
BY DEF Result

LEMMA Initially == Init => IInv
<1> SUFFICES ASSUME Init PROVE IInv
  OBVIOUS
<1> DEFINE none == [s \in {} |-> TRUE]
<1>1. none \in Result /\ DOMAIN none = {}
  <2>1. none \in [{} -> BOOLEAN]
    OBVIOUS
  <2> QED BY <2>1, FunctionIsResult
<1> HIDE DEF none
<1>2. report = [r \in Request |-> [asked |-> FALSE, done |-> FALSE, result |-> none, pongs |-> {}]]
  BY DEF Init, none
<1>3. TypeOK
  BY <1>1, <1>2, HealthAssumption DEF Init, TypeOK, Pool
<1>4. ChecksInv
  BY DEF Init, ChecksInv, Completed, Pool
<1>5. ReportsInv
  BY <1>1, <1>2 DEF Init, ReportsInv, ReportOK, Open
<1> QED BY <1>3, <1>4, <1>5 DEF IInv

-----------------------------------------------------------------------------
(* Two halves that meet in the subsystems only *)

LEMMA ChecksGoOn ==
    ASSUME ChecksInv, rows \subseteq rows', UNCHANGED <<check, inTime>>
    PROVE  ChecksInv'
<1> SUFFICES ASSUME NEW c \in Check
             PROVE  /\ inTime[c] \subseteq Completed(c)'
                    /\ check[c].pc = "ok" => check[c].completed = Pool /\ Completed(c)' = Pool
                    /\ check[c].pc = "failed" => inTime[c] \subseteq check[c].completed
  BY DEF ChecksInv
<1>1. Completed(c) \subseteq Completed(c)' /\ Completed(c)' \subseteq Pool
  BY DEF Completed
<1> QED BY <1>1 DEF ChecksInv

LEMMA ReportsGoOn ==
    ASSUME ReportsInv, UNCHANGED <<report, wasUp>>,
           \A s \in Subsystem : Up(s)' => Up(s)
    PROVE  ReportsInv'
BY DEF ReportsInv, ReportOK, Open, Missed, Asked, Up

-----------------------------------------------------------------------------
(* The checks and the workers *)

\* A check that moves on, and is told the rows there are if it ends by itself.
LEMMA CheckMoves ==
    ASSUME IInv, NEW c \in Check,
           NEW pc \in Pool \cup {"loop", "poll", "last", "ok", "failed", "error"},
           NEW found \in SUBSET Pool,
           Go(c, pc, found),
           pc = "ok" => found = Pool /\ Completed(c) = Pool,
           pc = "failed" => found = Completed(c),
           queued' \subseteq Check \X Pool,
           UNCHANGED <<made, state, running, rows, report, inTime, wasUp, faults>>
    PROVE  IInv'
<1> USE DEF IInv, Go
<1>1. check[c].age \in 0 .. Timeout
  BY DEF TypeOK
<1>2. TypeOK'
  BY <1>1 DEF TypeOK
<1>3. \A x \in Check : Completed(x)' = Completed(x)
  BY DEF Completed
<1>4. check'[c] = [pc |-> pc, age |-> check[c].age, completed |-> found]
  BY DEF TypeOK
<1>5. ASSUME NEW x \in Check, x # c PROVE check'[x] = check[x]
  BY <1>5 DEF TypeOK
<1>6. ChecksInv'
  BY <1>3, <1>4, <1>5 DEF ChecksInv
<1>7. ReportsInv'
  BY ReportsGoOn DEF Up
<1> QED BY <1>2, <1>6, <1>7

LEMMA CheckSteps ==
    ASSUME IInv, NEW c \in Check, CheckStep(c) \/ Tick(c)
    PROVE  IInv'
<1> USE DEF IInv, work
<1>1. Completed(c) \subseteq Pool /\ queued \subseteq Check \X Pool
  BY DEF Completed, TypeOK
<1>2. ASSUME NEW p \in Pool, Publish(c, p) PROVE IInv'
  <2>1. queued' \subseteq Check \X Pool
    BY <1>1, <1>2 DEF Publish
  <2>2. PICK pc \in {"io", "loop"} : Go(c, pc, {})
    BY <1>2 DEF Publish
  <2> QED BY <1>2, <2>1, <2>2, CheckMoves DEF Publish, Pool
<1>3. CASE Raise(c)
  BY <1>1, <1>3, CheckMoves DEF Raise
<1>4. CASE Loop(c)
  <2>1. PICK pc \in {"poll", "last"} : Go(c, pc, {})
    BY <1>4 DEF Loop
  <2> QED BY <1>1, <1>4, <2>1, CheckMoves DEF Loop
<1>5. CASE Poll(c)
  <2>1. CASE Completed(c) = Pool /\ Go(c, "ok", Pool)
    BY <1>1, <1>5, <2>1, CheckMoves DEF Poll
  <2>2. CASE Go(c, "loop", {})
    BY <1>1, <1>5, <2>2, CheckMoves DEF Poll
  <2> QED BY <1>5, <2>1, <2>2 DEF Poll
<1>6. CASE Last(c)
  BY <1>1, <1>6, CheckMoves DEF Last
<1>7. CASE Tick(c)
  <2>1. check[c].age + 1 \in 0 .. Timeout
    BY <1>7, HealthAssumption DEF Tick, TypeOK
  <2>2. TypeOK'
    BY <1>1, <1>7, <2>1 DEF Tick, TypeOK
  <2>3. \A x \in Check : Completed(x)' = Completed(x)
    BY <1>7 DEF Tick, Completed
  <2>4. \A x \in Check : check'[x].pc = check[x].pc /\ check'[x].completed = check[x].completed
    BY <1>7 DEF Tick, TypeOK
  <2>5. \A x \in Check : inTime'[x] = inTime[x] \/ (x = c /\ inTime'[x] = Completed(x))
    BY <1>7 DEF Tick, TypeOK
  <2>6. check[c].pc \notin {"ok", "failed"}
    BY <1>7 DEF Tick
  <2>7. ChecksInv'
    BY <2>3, <2>4, <2>5, <2>6 DEF ChecksInv
  <2>8. ReportsInv'
    BY <1>7, ReportsGoOn DEF Tick, Up
  <2> QED BY <2>2, <2>7, <2>8
<1> QED BY <1>2, <1>3, <1>4, <1>5, <1>6, <1>7 DEF CheckStep

LEMMA WorkerSteps ==
    ASSUME IInv, NEW c \in Check, NEW p \in Pool, Take(c, p) \/ Ping(c, p)
    PROVE  IInv'
<1> USE DEF IInv
<1>1. TypeOK'
  BY DEF TypeOK, Take, Ping
<1>2. rows \subseteq rows' /\ UNCHANGED <<state, check, inTime, report, wasUp>>
  BY DEF Take, Ping
<1>3. ReportsInv'
  BY <1>2, ReportsGoOn DEF Up
<1> QED BY <1>1, <1>2, <1>3, ChecksGoOn

-----------------------------------------------------------------------------
(* The requests *)

LEMMA Concluded ==
    ASSUME IInv, NEW r \in Request, Open(r),
           NEW S \in SUBSET Missed(r), NEW result \in [S -> BOOLEAN],
           \A s \in S : result[s] => s \in wasUp[r],
           Conclude(r, result)
    PROVE  IInv'
<1> USE DEF IInv, work
<1> DEFINE old == report[r].result
           new == [s \in DOMAIN old \cup S |-> IF s \in DOMAIN old THEN old[s] ELSE result[s]]
<1>1. /\ old \in Result /\ report[r] \in [asked : BOOLEAN, done : BOOLEAN, result : Result,
                                         pongs : SUBSET Pool]
      /\ S \subseteq Subsystem
  BY DEF TypeOK, Missed, Asked, Subsystem
<1>2. DOMAIN old \subseteq Subsystem /\ old \in [DOMAIN old -> BOOLEAN]
  BY <1>1, ResultIsFunction
<1>3. new \in [DOMAIN old \cup S -> BOOLEAN]
  BY <1>2
<1>4. new \in Result
  BY <1>1, <1>2, <1>3, FunctionIsResult
<1>5. DOMAIN new = DOMAIN old \cup S
  OBVIOUS
<1>6. \A s \in DOMAIN new : new[s] => s \in wasUp[r]
  BY DEF ReportsInv, ReportOK
<1>7. /\ report' = [report EXCEPT ![r].result = new]
      /\ UNCHANGED <<made, state, queued, running, rows, check, inTime, wasUp, faults>>
  BY DEF Conclude
<1> HIDE DEF new
<1>8. TypeOK'
  BY <1>4, <1>7 DEF TypeOK
<1>9. ChecksInv'
  BY <1>7, ChecksGoOn
<1>10. ASSUME NEW x \in Request, x # r PROVE ReportOK(x)'
  <2>1. report'[x] = report[x]
    BY <1>7, <1>10 DEF TypeOK
  <2> QED BY <1>7, <2>1 DEF ReportsInv, ReportOK, Open, Missed, Asked, Up
<1>11. ReportOK(r)'
  <2>1. /\ report'[r].asked = report[r].asked /\ report'[r].done = report[r].done
        /\ report'[r].pongs = report[r].pongs /\ report'[r].result = new
    BY <1>7 DEF TypeOK
  <2>2. DOMAIN new \subseteq Asked(r)
    BY <1>5 DEF Missed, ReportsInv, ReportOK
  <2> QED BY <1>6, <1>7, <2>1, <2>2 DEF ReportsInv, ReportOK, Open, Missed, Asked, Up
<1> QED BY <1>8, <1>9, <1>10, <1>11 DEF ReportsInv

LEMMA RequestSteps ==
    ASSUME IInv, NEW r \in Request,
           Ask(r) \/ Answer(r) \/ Expire(r) \/ \E p \in Pool : Pong(r, p)
    PROVE  IInv'
<1> USE DEF IInv
<1>1. report[r] \in [asked : BOOLEAN, done : BOOLEAN, result : Result, pongs : SUBSET Pool]
  BY DEF TypeOK
<1>2. ReportOK(r) /\ \A x \in Request : ReportOK(x)
  BY DEF ReportsInv
<1>3. CASE Ask(r)
  <2>1. TypeOK' /\ ChecksInv'
    BY <1>1, <1>3, ChecksGoOn DEF Ask, TypeOK, work
  <2>2. ASSUME NEW x \in Request PROVE ReportOK(x)'
    BY <1>1, <1>2, <1>3 DEF Ask, ReportOK, Open, Missed, Asked, Up, TypeOK
  <2> QED BY <2>1, <2>2 DEF ReportsInv
<1>4. ASSUME NEW s \in Subsystem, Probe(r, s) PROVE IInv'
  <2> DEFINE result == [x \in {s} |-> Up(s)]
  <2>1. result \in [{s} -> BOOLEAN] /\ {s} \in SUBSET Missed(r)
    BY <1>4 DEF Probe, Up
  <2>2. \A x \in {s} : result[x] => x \in wasUp[r]
    BY <1>2, <1>4 DEF Probe, ReportOK
  <2>3. Open(r) /\ Conclude(r, result)
    BY <1>4 DEF Probe
  <2> QED BY <2>1, <2>2, <2>3, Concluded
<1>5. CASE CountPongs(r)
  <2> DEFINE result == [p \in Pool |-> p \in report[r].pongs /\ Up("message_broker")]
  <2>1. result \in [Pool -> BOOLEAN] /\ Pool \in SUBSET Missed(r)
    BY <1>5 DEF CountPongs, Up
  <2>2. \A p \in Pool : result[p] => p \in wasUp[r]
    BY <1>2 DEF ReportOK
  <2>3. Open(r) /\ Conclude(r, result)
    BY <1>5 DEF CountPongs
  <2> QED BY <2>1, <2>2, <2>3, Concluded
<1>6. CASE Expire(r)
  <2>1. PICK S \in {{"data_store"}, {"message_broker"}, Pool} :
            S \subseteq Missed(r) /\ Conclude(r, [s \in S |-> FALSE])
    BY <1>6 DEF Expire
  <2> DEFINE result == [s \in S |-> FALSE]
  <2>2. result \in [S -> BOOLEAN] /\ \A s \in S : result[s] => s \in wasUp[r]
    OBVIOUS
  <2>3. Open(r)
    BY <1>6 DEF Expire
  <2> QED BY <2>1, <2>2, <2>3, Concluded
<1>7. CASE Report(r)
  <2>1. TypeOK' /\ ChecksInv'
    BY <1>1, <1>7, ChecksGoOn DEF Report, TypeOK, work
  <2>2. ASSUME NEW x \in Request PROVE ReportOK(x)'
    BY <1>1, <1>2, <1>7 DEF Report, ReportOK, Open, Missed, Asked, Up, TypeOK
  <2> QED BY <2>1, <2>2 DEF ReportsInv
<1>8. ASSUME NEW p \in Pool, Pong(r, p) PROVE IInv'
  <2>1. TypeOK' /\ ChecksInv'
    BY <1>1, <1>8, ChecksGoOn DEF Pong, TypeOK, work
  <2>2. p \in wasUp[r]
    BY <1>2, <1>8 DEF Pong, ReportOK, Subsystem
  <2>3. ASSUME NEW x \in Request PROVE ReportOK(x)'
    BY <1>1, <1>2, <1>8, <2>2 DEF Pong, ReportOK, Open, Missed, Asked, Up, TypeOK
  <2> QED BY <2>1, <2>3 DEF ReportsInv
<1> QED BY <1>3, <1>4, <1>5, <1>6, <1>7, <1>8 DEF Answer

-----------------------------------------------------------------------------
(* The subsystems *)

LEMMA FailStep ==
    ASSUME IInv, NEW s \in Subsystem, NEW to \in {"down", "hung"}, Fail(s, to)
    PROVE  IInv'
<1> USE DEF IInv
<1>1. TypeOK'
  <2>1. faults + 1 \in 0 .. MaxFaults
    BY HealthAssumption DEF Fail, TypeOK
  <2>2. queued' \subseteq Check \X Pool /\ running' \subseteq Check \X Pool
    BY DEF Fail, TypeOK
  <2> QED BY <2>1, <2>2 DEF Fail, TypeOK
<1>2. ChecksInv'
  BY ChecksGoOn DEF Fail
<1>3. \A x \in Subsystem : Up(x)' => Up(x)
  BY DEF Fail, Up, TypeOK
<1>4. ReportsInv'
  BY <1>3, ReportsGoOn DEF Fail
<1> QED BY <1>1, <1>2, <1>4

LEMMA RecoverStep ==
    ASSUME IInv, NEW s \in Subsystem, Recover(s)
    PROVE  IInv'
<1> USE DEF IInv, work
<1>1. TypeOK'
  BY DEF Recover, TypeOK
<1>2. ChecksInv'
  BY ChecksGoOn DEF Recover
<1>3. ASSUME NEW r \in Request PROVE ReportOK(r)'
  BY DEF Recover, ReportsInv, ReportOK, Open, Missed, Asked, Up, TypeOK
<1> QED BY <1>1, <1>2, <1>3 DEF ReportsInv

LEMMA Inductive == IInv /\ [Next]_vars => IInv'
<1> SUFFICES ASSUME IInv, [Next]_vars PROVE IInv'
  OBVIOUS
<1>1. CASE UNCHANGED vars
  BY <1>1 DEF IInv, vars, work, TypeOK, ChecksInv, Completed, ReportsInv, ReportOK, Open, Missed, Asked, Up
<1>2. CASE Next
  BY <1>2, CheckSteps, WorkerSteps, RequestSteps, FailStep, RecoverStep DEF Next
<1> QED BY <1>1, <1>2

-----------------------------------------------------------------------------
(* The theorems *)

THEOREM Invariance == Spec => []IInv
BY Initially, Inductive, PTL DEF Spec

\* The state keeps its types (SmokeCheckService and AggregateGoinessService as modelled).
THEOREM TypesCorrect == Spec => []TypeOK
<1>1. IInv => TypeOK
  BY DEF IInv
<1> QED BY <1>1, Invariance, PTL

\* A smoke check that succeeds ran its own ping in both pools, and one that fails calls no
\* pool missing whose row was there in time.
THEOREM VerdictsAreTrue == Spec => []VerdictTruthful
<1>1. IInv => VerdictTruthful
  BY DEF IInv, ChecksInv, VerdictTruthful
<1> QED BY <1>1, Invariance, PTL

\* A report that says healthy saw every subsystem up during its request.
THEOREM HealthyMeansUp == Spec => []HealthyIsTrue
<1>1. IInv => HealthyIsTrue
  BY DEF IInv, ReportsInv, ReportOK, Missed, Healthy, HealthyIsTrue
<1> QED BY <1>1, Invariance, PTL
=============================================================================
