----------------------------- MODULE Resilience -----------------------------
(***************************************************************************)
(* Retry and circuit breaker around the calls to ONE destination           *)
(* (ResiliencePolicy.run; the registry keeps one breaker per key and       *)
(* process).  The threads of the io pool share the breaker.                *)
(*                                                                         *)
(* The breaker is pybreaker's, outside the repository: its call() holds a  *)
(* lock for as long as the wrapped call runs.  Time passes in ticks; the   *)
(* random wait between attempts is a thread that takes its next step later.*)
(***************************************************************************)
EXTENDS Naturals

CONSTANTS Thread,         \* threads that deliver to the destination
          MaxAttempts,    \* retry_max_attempts
          FailMax,        \* breaker_fail_max
          ResetTimeout,   \* breaker_reset_timeout_s, in ticks
          MaxRuns,        \* bound: deliveries to the destination
          MaxRestarts     \* bound: restarts of the worker process

ASSUME ResilienceAssumption == /\ MaxAttempts \in Nat \ {0}
                               /\ FailMax \in Nat \ {0}
                               /\ ResetTimeout \in Nat \ {0}
                               /\ MaxRuns \in Nat
                               /\ MaxRestarts \in Nat

VARIABLES pc,         \* of each thread: "ready" before a call, "calling" during it
          count,      \* attempts its run has made
          state,      \* of the breaker
          fails,      \* failures the breaker has counted
          timer,      \* ticks until an open breaker lets a trial call through
          streak,     \* system errors since the last other answer (history)
          rest,       \* ticks since the last of them, at most ResetTimeout (history)
          runs,       \* runs started so far
          restarts    \* restarts so far

breakerVars == <<state, fails, timer>>
historyVars == <<streak, rest>>
vars == <<pc, count, breakerVars, historyVars, runs, restarts>>

TypeOK == /\ pc \in [Thread -> {"idle", "ready", "calling", "sent", "failed", "raised"}]
          /\ count \in [Thread -> 0 .. MaxAttempts]
          /\ state \in {"closed", "open", "half_open"}
          /\ fails \in Nat
          /\ timer \in 0 .. ResetTimeout
          /\ streak \in Nat
          /\ rest \in 0 .. ResetTimeout
          /\ runs \in Nat
          /\ restarts \in Nat

Init == /\ pc = [t \in Thread |-> "idle"]
        /\ count = [t \in Thread |-> 0]
        /\ state = "closed" /\ fails = 0 /\ timer = 0
        /\ streak = 0 /\ rest = ResetTimeout
        /\ runs = 0 /\ restarts = 0

Goto(t, label) == pc' = [pc EXCEPT ![t] = label]

-----------------------------------------------------------------------------
(* ResiliencePolicy.run *)

\* deliver_one has claimed its delivery and calls run.
Start(t) ==
    /\ pc[t] = "idle"
    /\ runs < MaxRuns
    /\ runs' = runs + 1
    /\ Goto(t, "ready")
    /\ count' = [count EXCEPT ![t] = 0]
    /\ UNCHANGED <<breakerVars, historyVars, restarts>>

LockFree == \A u \in Thread : pc[u] # "calling"

\* Variant: the breaker does not hold its lock while the call runs.
EnterUnlocked(t) ==
    /\ pc[t] = "ready"
    /\ state = "open" => timer = 0
    /\ state' = IF state = "open" THEN "half_open" ELSE state
    /\ Goto(t, "calling")
    /\ UNCHANGED <<count, fails, timer, historyVars, runs, restarts>>

\* An attempt: the breaker lets the call through, as its trial when it was open
\* and the timeout has elapsed.
Enter(t) ==
    /\ pc[t] = "ready"
    /\ LockFree
    /\ state = "open" => timer = 0
    /\ state' = IF state = "open" THEN "half_open" ELSE state
    /\ Goto(t, "calling")
    /\ UNCHANGED <<count, fails, timer, historyVars, runs, restarts>>

\* Variant: a refused attempt waits for the breaker and is not counted.
RefuseWaits(t) ==
    /\ pc[t] = "ready"
    /\ LockFree
    /\ state = "open" /\ timer > 0
    /\ UNCHANGED vars

\* An attempt while it is open: CircuitBreakerError, which is not retried.
Refuse(t) ==
    /\ pc[t] = "ready"
    /\ LockFree
    /\ state = "open" /\ timer > 0
    /\ Goto(t, "failed")
    /\ UNCHANGED <<count, breakerVars, historyVars, runs, restarts>>

\* Variant: an excluded error leaves the counter and the state as they are.
HealthyForgetful(t, end) ==
    /\ pc[t] = "calling"
    /\ count' = [count EXCEPT ![t] = @ + 1]
    /\ Goto(t, end)
    /\ streak' = 0
    /\ IF end = "failed" THEN UNCHANGED <<state, fails>> ELSE state' = "closed" /\ fails' = 0
    /\ UNCHANGED <<timer, rest, runs, restarts>>

\* The call is accepted, or rejected for good: a PermanentChannelError is
\* excluded from the breaker's failures and counts as an answer.
Healthy(t, end) ==
    /\ pc[t] = "calling"
    /\ count' = [count EXCEPT ![t] = @ + 1]
    /\ Goto(t, end)
    /\ state' = "closed"
    /\ fails' = 0
    /\ streak' = 0
    /\ UNCHANGED <<timer, rest, runs, restarts>>

\* A system error: the breaker counts it, and at the limit, or when this was
\* the trial, it opens and raises CircuitBreakerError in place of the error.
Trips == state = "half_open" \/ fails + 1 >= FailMax

\* Variant: the timeout is not started again by a failed trial.
SystemErrorUntimed(t, end) ==
    /\ pc[t] = "calling"
    /\ count' = [count EXCEPT ![t] = @ + 1]
    /\ fails' = fails + 1
    /\ streak' = IF streak < FailMax THEN streak + 1 ELSE streak
    /\ rest' = 0
    /\ IF Trips
       THEN /\ state' = "open"
            /\ timer' = IF state = "half_open" THEN 0 ELSE ResetTimeout
            /\ Goto(t, "failed")
       ELSE UNCHANGED <<state, timer>> /\ Goto(t, end)
    /\ UNCHANGED <<runs, restarts>>

SystemError(t, end) ==
    /\ pc[t] = "calling"
    /\ count' = [count EXCEPT ![t] = @ + 1]
    /\ fails' = fails + 1
    /\ streak' = IF streak < FailMax THEN streak + 1 ELSE streak
    /\ rest' = 0
    /\ IF Trips THEN state' = "open" /\ timer' = ResetTimeout /\ Goto(t, "failed")
                ELSE UNCHANGED <<state, timer>> /\ Goto(t, end)
    /\ UNCHANGED <<runs, restarts>>

\* Variant: one attempt too many.
TransientOnceMore(t) == SystemError(t, IF count[t] < MaxAttempts THEN "ready" ELSE "failed")

\* 429, 5xx, timeout, no connection: retried until the attempts are used up.
Transient(t) == SystemError(t, IF count[t] + 1 < MaxAttempts THEN "ready" ELSE "failed")

\* Anything else, such as an answer without provider_ref, ends the task.
Unexpected(t) == SystemError(t, "raised")

\* The end is recorded and the thread takes its next task.
Return(t) ==
    /\ pc[t] \in {"sent", "failed", "raised"}
    /\ Goto(t, "idle")
    /\ UNCHANGED <<count, breakerVars, historyVars, runs, restarts>>

-----------------------------------------------------------------------------
\* One second or so passes.
Tick ==
    /\ timer > 0 \/ rest < ResetTimeout
    /\ timer' = IF timer > 0 THEN timer - 1 ELSE 0
    /\ rest'  = IF rest < ResetTimeout THEN rest + 1 ELSE rest
    /\ UNCHANGED <<pc, count, state, fails, streak, runs, restarts>>

\* The worker process is replaced: its threads and its registry are gone.
Restart ==
    /\ restarts < MaxRestarts
    /\ restarts' = restarts + 1
    /\ pc' = [t \in Thread |-> "idle"]
    /\ state' = "closed" /\ fails' = 0 /\ timer' = 0
    /\ streak' = 0 /\ rest' = ResetTimeout
    /\ UNCHANGED <<count, runs>>

Run(t) == \/ Enter(t) \/ Refuse(t)
          \/ Healthy(t, "sent") \/ Healthy(t, "failed")
          \/ Transient(t) \/ Unexpected(t)
          \/ Return(t)

Next == \/ \E t \in Thread : Start(t) \/ Run(t)
        \/ Tick
        \/ Restart

Spec == Init /\ [][Next]_vars

\* A thread keeps executing its run, and every call ends (the client's timeout).
FairSpec == Spec /\ \A t \in Thread : WF_vars(Run(t))

-----------------------------------------------------------------------------
\* The breaker opens after FailMax system errors in a row, whichever threads
\* met them, and only then: a thread whose call ends late neither closes a
\* breaker that others opened nor opens one for a destination that answers.
OpenAfterStreak == state = "closed" <=> streak < FailMax

\* At most one call is under way at a time: a breaker that is tried out lets
\* one trial through and nobody calls past an open one.
OneCall == /\ \A t, u \in Thread : pc[t] = "calling" /\ pc[u] = "calling" => t = u
           /\ (\E t \in Thread : pc[t] = "calling") => state # "open"

\* A destination that is down is left alone for the whole timeout, measured
\* from its last failure and not from the first opening.
LeftAlone ==
    [][\A t \in Thread : pc[t] # "calling" /\ pc'[t] = "calling" /\ streak >= FailMax
                             => rest = ResetTimeout]_vars

\* Retries and breaker together keep the promise of module Attempts.
Result(t) == IF pc[t] \in {"ready", "calling"} THEN "running" ELSE pc[t]
Count(t) == IF pc[t] = "idle" THEN 0 ELSE count[t]
Promise == INSTANCE Attempts WITH result <- [t \in Thread |-> Result(t)],
                                  count <- [t \in Thread |-> Count(t)]
AttemptsSpec == Promise!Spec

\* Every run ends, however many threads share the breaker.
RunEnds == \A t \in Thread : pc[t] = "ready" ~> pc[t] \notin {"ready", "calling"}
=============================================================================
