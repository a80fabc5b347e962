-------------------------- MODULE ResilienceProofs --------------------------
(***************************************************************************)
(* Safety of the breaker and the retries for any number of threads, any    *)
(* limit and any timeout.                                                  *)
(***************************************************************************)
EXTENDS Resilience, TLAPS

\* The inductive invariant: the counter of a closed breaker is the streak, a
\* half-open one has its trial under way, an open one has counted the ticks
\* since the last failure, and a thread that may still call has attempts left.
BreakerInv ==
    /\ TypeOK
    /\ OpenAfterStreak
    /\ OneCall
    /\ streak <= FailMax
    /\ state = "closed" => fails = streak
    /\ state = "half_open" => ~LockFree
    /\ state = "open" => timer + rest = ResetTimeout
    /\ \A t \in Thread : pc[t] \in {"ready", "calling"} => count[t] < MaxAttempts

\* Nothing has been called in the beginning.
LEMMA InitBreaker == Init => BreakerInv
BY ResilienceAssumption DEF Init, BreakerInv, TypeOK, OpenAfterStreak, OneCall

\* A thread between calls changes only its own pc.
LEMMA MoveKeeps ==
    ASSUME BreakerInv, NEW t \in Thread, pc[t] # "calling",
           NEW label \in {"idle", "ready", "failed"}, Goto(t, label),
           count' \in [Thread -> 0 .. MaxAttempts], runs' \in Nat,
           label = "ready" => count'[t] < MaxAttempts,
           \A u \in Thread \ {t} : count'[u] = count[u],
           UNCHANGED <<breakerVars, historyVars, restarts>>
    PROVE  BreakerInv'
<1>1. /\ pc' = [pc EXCEPT ![t] = label]
      /\ UNCHANGED <<state, fails, timer, streak, rest, restarts>>
  BY DEF Goto, breakerVars, historyVars
<1>2. TypeOK'
  BY <1>1 DEF BreakerInv, TypeOK
<1>3. \A u \in Thread : pc'[u] = "calling" <=> pc[u] = "calling"
  BY <1>1 DEF BreakerInv, TypeOK
<1>4. OneCall'
  BY <1>1, <1>3 DEF BreakerInv, OneCall
<1>5. state' = "half_open" => ~LockFree'
  BY <1>1, <1>3 DEF BreakerInv, LockFree
<1>6. \A u \in Thread : pc'[u] \in {"ready", "calling"} => count'[u] < MaxAttempts
  BY <1>1 DEF BreakerInv, TypeOK
<1> QED BY <1>1, <1>2, <1>4, <1>5, <1>6 DEF BreakerInv, OpenAfterStreak

\* A call starts.
LEMMA EnterKeeps ==
    ASSUME BreakerInv, NEW t \in Thread, Enter(t)
    PROVE  BreakerInv'
<1>1. /\ pc' = [pc EXCEPT ![t] = "calling"]
      /\ UNCHANGED <<count, fails, timer, streak, rest, runs, restarts>>
      /\ state' = IF state = "open" THEN "half_open" ELSE state
      /\ \A u \in Thread : pc[u] # "calling"
      /\ pc[t] = "ready"
  BY DEF Enter, Goto, historyVars, LockFree
<1>2. TypeOK'
  BY <1>1 DEF BreakerInv, TypeOK
<1>3. pc'[t] = "calling" /\ \A u \in Thread \ {t} : pc'[u] = pc[u]
  BY <1>1 DEF BreakerInv, TypeOK
<1>4. OneCall'
  BY <1>1, <1>3 DEF OneCall
<1>5. ~LockFree'
  BY <1>3 DEF LockFree
<1>6. \A u \in Thread : pc'[u] \in {"ready", "calling"} => count'[u] < MaxAttempts
  BY <1>1, <1>3 DEF BreakerInv
<1>7. OpenAfterStreak' /\ state' # "open"
  BY <1>1 DEF BreakerInv, OpenAfterStreak, TypeOK
<1> QED BY <1>1, <1>2, <1>4, <1>5, <1>6, <1>7 DEF BreakerInv

\* A call ends: the thread and its counter, and nobody else calls.
LEMMA CallEnds ==
    ASSUME BreakerInv, NEW t \in Thread, pc[t] = "calling",
           NEW label \in {"ready", "sent", "failed", "raised"}, Goto(t, label),
           count' = [count EXCEPT ![t] = @ + 1],
           label = "ready" => count[t] + 1 < MaxAttempts
    PROVE  /\ pc' \in [Thread -> {"idle", "ready", "calling", "sent", "failed", "raised"}]
           /\ count' \in [Thread -> 0 .. MaxAttempts]
           /\ LockFree'
           /\ \A u \in Thread : pc'[u] \in {"ready", "calling"} => count'[u] < MaxAttempts
<1>1. count[t] + 1 \in 0 .. MaxAttempts
  BY ResilienceAssumption DEF BreakerInv, TypeOK
<1>2. pc'[t] = label /\ \A u \in Thread \ {t} : pc'[u] = pc[u]
  BY DEF Goto, BreakerInv, TypeOK
<1>3. count'[t] = count[t] + 1 /\ \A u \in Thread \ {t} : count'[u] = count[u]
  BY DEF BreakerInv, TypeOK
<1>4. LockFree'
  BY <1>2 DEF BreakerInv, OneCall, LockFree
<1>5. \A u \in Thread : pc'[u] \in {"ready", "calling"} => count'[u] < MaxAttempts
  BY <1>2, <1>3 DEF BreakerInv
<1> QED BY <1>1, <1>4, <1>5 DEF Goto, BreakerInv, TypeOK

\* An accepted or rejected send closes the breaker.
LEMMA HealthyKeeps ==
    ASSUME BreakerInv, NEW t \in Thread, NEW end \in {"sent", "failed"}, Healthy(t, end)
    PROVE  BreakerInv'
<1>1. /\ pc[t] = "calling" /\ Goto(t, end) /\ count' = [count EXCEPT ![t] = @ + 1]
      /\ state' = "closed" /\ fails' = 0 /\ streak' = 0
      /\ UNCHANGED <<timer, rest, runs, restarts>>
  BY DEF Healthy
<1>2. /\ pc' \in [Thread -> {"idle", "ready", "calling", "sent", "failed", "raised"}]
      /\ count' \in [Thread -> 0 .. MaxAttempts]
      /\ LockFree'
      /\ \A u \in Thread : pc'[u] \in {"ready", "calling"} => count'[u] < MaxAttempts
  BY <1>1, CallEnds
<1>3. TypeOK'
  BY <1>1, <1>2 DEF BreakerInv, TypeOK
<1>4. OpenAfterStreak' /\ OneCall'
  BY <1>1, <1>2, ResilienceAssumption DEF OpenAfterStreak, OneCall, LockFree
<1> QED BY <1>1, <1>2, <1>3, <1>4, ResilienceAssumption DEF BreakerInv

\* A system error extends the streak, and trips the breaker when it is due.
LEMMA SystemErrorKeeps ==
    ASSUME BreakerInv, NEW t \in Thread, NEW end \in {"ready", "failed", "raised"},
           SystemError(t, end), end = "ready" => count[t] + 1 < MaxAttempts
    PROVE  BreakerInv'
<1> DEFINE label == IF Trips THEN "failed" ELSE end
<1>1. /\ pc[t] = "calling" /\ Goto(t, label) /\ count' = [count EXCEPT ![t] = @ + 1]
      /\ fails' = fails + 1 /\ rest' = 0
      /\ streak' = IF streak < FailMax THEN streak + 1 ELSE streak
      /\ state' = IF Trips THEN "open" ELSE state
      /\ timer' = IF Trips THEN ResetTimeout ELSE timer
      /\ UNCHANGED <<runs, restarts>>
  BY DEF SystemError
<1>2. /\ pc' \in [Thread -> {"idle", "ready", "calling", "sent", "failed", "raised"}]
      /\ count' \in [Thread -> 0 .. MaxAttempts]
      /\ LockFree'
      /\ \A u \in Thread : pc'[u] \in {"ready", "calling"} => count'[u] < MaxAttempts
  BY <1>1, CallEnds
<1>3. state \in {"closed", "half_open"}
  BY <1>1 DEF BreakerInv, OneCall, TypeOK
<1>4. TypeOK'
  BY <1>1, <1>2, ResilienceAssumption DEF BreakerInv, TypeOK
<1>5. OpenAfterStreak' /\ streak' <= FailMax
  BY <1>1, <1>3, ResilienceAssumption DEF BreakerInv, OpenAfterStreak, TypeOK, Trips
<1>6. OneCall'
  BY <1>2 DEF OneCall, LockFree
<1>7. /\ state' = "closed" => fails' = streak'
      /\ state' # "half_open"
      /\ state' = "open" => timer' + rest' = ResetTimeout
  BY <1>1, <1>3, ResilienceAssumption DEF BreakerInv, OpenAfterStreak, TypeOK, Trips
<1> QED BY <1>2, <1>4, <1>5, <1>6, <1>7 DEF BreakerInv

\* Every step keeps the invariant.
LEMMA NextBreaker ==
    ASSUME BreakerInv, [Next]_vars
    PROVE  BreakerInv'
<1>1. ASSUME NEW t \in Thread, Start(t)
      PROVE  BreakerInv'
  <2>1. /\ count' \in [Thread -> 0 .. MaxAttempts] /\ count'[t] = 0 /\ runs' \in Nat
        /\ \A u \in Thread \ {t} : count'[u] = count[u]
    BY <1>1, ResilienceAssumption DEF Start, BreakerInv, TypeOK
  <2> QED BY <1>1, <2>1, ResilienceAssumption, MoveKeeps DEF Start
<1>2. ASSUME NEW t \in Thread, Enter(t)
      PROVE  BreakerInv'
  BY <1>2, EnterKeeps
<1>3. ASSUME NEW t \in Thread, Refuse(t)
      PROVE  BreakerInv'
  BY <1>3, MoveKeeps DEF Refuse, BreakerInv, TypeOK
<1>4. ASSUME NEW t \in Thread, Healthy(t, "sent") \/ Healthy(t, "failed")
      PROVE  BreakerInv'
  BY <1>4, HealthyKeeps
<1>5. ASSUME NEW t \in Thread, Transient(t) \/ Unexpected(t)
      PROVE  BreakerInv'
  BY <1>5, SystemErrorKeeps DEF Transient, Unexpected
<1>6. ASSUME NEW t \in Thread, Return(t)
      PROVE  BreakerInv'
  BY <1>6, MoveKeeps DEF Return, BreakerInv, TypeOK
<1>7. CASE Tick
  <2>1. UNCHANGED <<pc, count, state, fails, streak, runs, restarts>>
    BY <1>7 DEF Tick
  <2>2. TypeOK' /\ (state' = "open" => timer' + rest' = ResetTimeout)
    BY <1>7, ResilienceAssumption DEF Tick, BreakerInv, TypeOK
  <2> QED BY <2>1, <2>2 DEF BreakerInv, OpenAfterStreak, OneCall, LockFree
<1>8. CASE Restart
  BY <1>8, ResilienceAssumption
     DEF Restart, BreakerInv, TypeOK, OpenAfterStreak, OneCall
<1>9. CASE UNCHANGED vars
  BY <1>9 DEF vars, breakerVars, historyVars, BreakerInv, TypeOK, OpenAfterStreak, OneCall,
              LockFree
<1> QED BY <1>1, <1>2, <1>3, <1>4, <1>5, <1>6, <1>7, <1>8, <1>9 DEF Next, Run

\* BreakerInv is an invariant.
THEOREM BreakerInvariance == Spec => []BreakerInv
<1>1. Init => BreakerInv
  BY InitBreaker
<1>2. BreakerInv /\ [Next]_vars => BreakerInv'
  BY NextBreaker
<1> QED BY <1>1, <1>2, PTL DEF Spec

\* The breaker of a destination is open, or being tried out, exactly after
\* FailMax system errors in a row, whichever threads met them.
THEOREM OpensAfterStreak == Spec => []OpenAfterStreak
<1>1. BreakerInv => OpenAfterStreak
  BY DEF BreakerInv
<1> QED BY <1>1, BreakerInvariance, PTL

\* At most one call is under way, and none past an open breaker.
THEOREM OneCallAtATime == Spec => []OneCall
<1>1. BreakerInv => OneCall
  BY DEF BreakerInv
<1> QED BY <1>1, BreakerInvariance, PTL

\* A call for a destination that is down starts a whole timeout after its last
\* failure.
THEOREM RestsWhileDown == Spec => LeftAlone
<1> DEFINE A == \A t \in Thread : pc[t] # "calling" /\ pc'[t] = "calling" /\ streak >= FailMax
                                      => rest = ResetTimeout
<1>1. BreakerInv /\ [Next]_vars => [A]_vars
  <2> SUFFICES ASSUME BreakerInv, Next,
                      NEW t \in Thread, pc[t] # "calling", pc'[t] = "calling",
                      streak >= FailMax
               PROVE  rest = ResetTimeout
    OBVIOUS
  <2>1. Enter(t)
    <3>1. \A u \in Thread : \A label : Goto(u, label) /\ label # "calling" => pc'[t] # "calling"
      BY DEF Goto, BreakerInv, TypeOK
    <3>2. \A u \in Thread : ~(Start(u) \/ Refuse(u) \/ Healthy(u, "sent") \/ Healthy(u, "failed")
                              \/ Return(u))
      BY <3>1 DEF Start, Refuse, Healthy, Return
    <3>3. \A u \in Thread : ~(Transient(u) \/ Unexpected(u))
      BY <3>1 DEF Transient, Unexpected, SystemError
    <3>4. ~Tick /\ ~Restart
      BY DEF Tick, Restart
    <3>5. \A u \in Thread : Enter(u) => u = t
      BY DEF Enter, Goto, BreakerInv, TypeOK
    <3> QED BY <3>2, <3>3, <3>4, <3>5 DEF Next, Run
  <2>2. state = "open" /\ timer = 0
    BY <2>1, ResilienceAssumption DEF Enter, BreakerInv, OpenAfterStreak, TypeOK
  <2> QED BY <2>2 DEF BreakerInv, TypeOK
<1> QED BY <1>1, BreakerInvariance, PTL DEF Spec, LeftAlone

-----------------------------------------------------------------------------
(* The refinement of Attempts *)

\* What Attempts sees of the threads.
Results == [t \in Thread |-> Result(t)]
Counts == [t \in Thread |-> Count(t)]

\* One thread moves: its result, and nobody else's, may change.
LEMMA ResultMoves ==
    ASSUME TypeOK, NEW t \in Thread,
           NEW label \in {"idle", "ready", "calling", "sent", "failed", "raised"}, Goto(t, label),
           NEW n, count' = [count EXCEPT ![t] = n]
    PROVE  /\ Results' = [Results EXCEPT ![t] = IF label \in {"ready", "calling"} THEN "running"
                                                ELSE label]
           /\ Counts' = [Counts EXCEPT ![t] = IF label = "idle" THEN 0 ELSE n]
<1>1. /\ pc'[t] = label /\ \A u \in Thread \ {t} : pc'[u] = pc[u]
      /\ count'[t] = n /\ \A u \in Thread \ {t} : count'[u] = count[u]
  BY DEF Goto, TypeOK
<1>2. Results' = [Results EXCEPT ![t] = IF label \in {"ready", "calling"} THEN "running" ELSE label]
  <2>1. \A u \in Thread : Result(u)' = IF u # t THEN Result(u)
                                     ELSE IF label \in {"ready", "calling"} THEN "running" ELSE label
    BY <1>1 DEF Result
  <2> QED BY <2>1 DEF Results
<1>3. Counts' = [Counts EXCEPT ![t] = IF label = "idle" THEN 0 ELSE n]
  <2>1. \A u \in Thread : Count(u)' = IF u # t THEN Count(u) ELSE IF label = "idle" THEN 0 ELSE n
    BY <1>1 DEF Count
  <2> QED BY <2>1 DEF Counts
<1> QED BY <1>2, <1>3

\* The same, for a step that makes no call.
LEMMA ResultStays ==
    ASSUME TypeOK, NEW t \in Thread, pc[t] # "idle",
           NEW label \in {"ready", "calling", "sent", "failed", "raised"}, Goto(t, label),
           UNCHANGED count
    PROVE  /\ Results' = [Results EXCEPT ![t] = IF label \in {"ready", "calling"} THEN "running"
                                                ELSE label]
           /\ UNCHANGED Counts
<1>1. count' = [count EXCEPT ![t] = count[t]]
  BY DEF TypeOK
<1>2. Counts[t] = count[t] /\ Counts = [u \in Thread |-> Counts[u]]
  BY DEF Counts, Count
<1>3. /\ Results' = [Results EXCEPT ![t] = IF label \in {"ready", "calling"} THEN "running"
                                             ELSE label]
      /\ Counts' = [Counts EXCEPT ![t] = IF label = "idle" THEN 0 ELSE count[t]]
  BY <1>1, ResultMoves
<1>4. Counts' = [Counts EXCEPT ![t] = Counts[t]]
  BY <1>2, <1>3
<1> QED BY <1>2, <1>3, <1>4

\* Every step is a step of Attempts, or leaves results and counts alone.
LEMMA StepsKeepPromise ==
    ASSUME BreakerInv, [Next]_vars
    PROVE  [Promise!Next]_<<Results, Counts>>
<1>0. TypeOK /\ \A t \in Thread : pc[t] \in {"ready", "calling"} => count[t] < MaxAttempts
  BY DEF BreakerInv
<1>1. ASSUME NEW t \in Thread, Start(t)
      PROVE  Promise!Start(t)
  <2>1. Counts[t] = 0 /\ Counts = [u \in Thread |-> Counts[u]]
    BY <1>1 DEF Start, Counts, Count
  <2>2. Results' = [Results EXCEPT ![t] = "running"] /\ Counts' = Counts
    <3>1. /\ Results' = [Results EXCEPT ![t] = "running"]
          /\ Counts' = [Counts EXCEPT ![t] = 0]
      BY <1>0, <1>1, ResultMoves DEF Start
    <3> QED BY <2>1, <3>1
  <2> QED BY <1>1, <2>2 DEF Start, Promise!Start, Results, Result, Counts
<1>2. ASSUME NEW t \in Thread, Enter(t)
      PROVE  UNCHANGED <<Results, Counts>>
  <2>1. /\ Results' = [Results EXCEPT ![t] = "running"] /\ Counts' = Counts
        /\ Results[t] = "running" /\ Results = [u \in Thread |-> Results[u]]
    BY <1>0, <1>2, ResultStays DEF Enter, Results, Result
  <2> QED BY <2>1
<1>3. ASSUME NEW t \in Thread, Refuse(t)
      PROVE  Promise!Refuse(t)
  <2>1. Results' = [Results EXCEPT ![t] = "failed"] /\ Counts' = Counts
    BY <1>0, <1>3, ResultStays DEF Refuse
  <2> QED BY <1>3, <2>1 DEF Refuse, Promise!Refuse, Results, Result, Counts
<1>4. ASSUME NEW t \in Thread, NEW end \in {"ready", "sent", "failed", "raised"},
             pc[t] = "calling", Goto(t, end), count' = [count EXCEPT ![t] = @ + 1],
             end = "ready" => count[t] + 1 < MaxAttempts
      PROVE  Promise!Call(t)
  <2>1. Results[t] = "running" /\ Counts[t] = count[t] /\ Counts[t] < MaxAttempts
    BY <1>0, <1>4 DEF Results, Result, Counts, Count
  <2>2. /\ Results' = [Results EXCEPT ![t] = IF end = "ready" THEN "running" ELSE end]
        /\ Counts' = [Counts EXCEPT ![t] = Counts[t] + 1]
    BY <1>0, <1>4, <2>1, ResultMoves
  <2>3. CASE end = "ready"
    <3>1. UNCHANGED Results
      BY <2>1, <2>2, <2>3 DEF Results
    <3> QED BY <1>4, <2>1, <2>2, <2>3, <3>1 DEF Promise!Call, Results, Counts
  <2>4. CASE end \in {"sent", "failed", "raised"}
    BY <2>1, <2>2, <2>4 DEF Promise!Call, Results, Counts
  <2> QED BY <2>3, <2>4
<1>5. ASSUME NEW t \in Thread, NEW end \in {"sent", "failed"}, Healthy(t, end)
      PROVE  Promise!Call(t)
  BY <1>4, <1>5 DEF Healthy
<1>6. ASSUME NEW t \in Thread, Transient(t) \/ Unexpected(t)
      PROVE  Promise!Call(t)
  <2>1. PICK end \in {"ready", "failed", "raised"} :
            SystemError(t, end) /\ (end = "ready" => count[t] + 1 < MaxAttempts)
    BY <1>6 DEF Transient, Unexpected
  <2>2. CASE Trips
    BY <1>4, <2>1, <2>2 DEF SystemError
  <2>3. CASE ~Trips
    BY <1>4, <2>1, <2>3 DEF SystemError
  <2> QED BY <2>2, <2>3
<1>7. ASSUME NEW t \in Thread, Return(t)
      PROVE  Promise!Leave({t})
  <2>1. count' = [count EXCEPT ![t] = count[t]]
    BY <1>0, <1>7 DEF Return, TypeOK
  <2>2. DOMAIN Results = Thread /\ DOMAIN Counts = Thread
    BY DEF Results, Counts
  <2>3. /\ Results' = [u \in Thread |-> IF u \in {t} THEN "idle" ELSE Results[u]]
        /\ Counts' = [u \in Thread |-> IF u \in {t} THEN 0 ELSE Counts[u]]
    <3>1. /\ Results' = [Results EXCEPT ![t] = "idle"]
          /\ Counts' = [Counts EXCEPT ![t] = 0]
      BY <1>0, <1>7, <2>1, ResultMoves DEF Return
    <3> QED BY <2>2, <3>1
  <2> QED BY <2>3 DEF Promise!Leave, Results, Counts
<1>8. CASE Tick
  BY <1>8 DEF Tick, Results, Result, Counts, Count
<1>9. CASE Restart
  <2>1. Promise!Leave(Thread)
    BY <1>9 DEF Restart, Promise!Leave, Result, Count
  <2> QED BY <2>1 DEF Promise!Next
<1>10. CASE UNCHANGED vars
  BY <1>10 DEF vars, Results, Result, Counts, Count
<1> QED BY <1>1, <1>2, <1>3, <1>5, <1>6, <1>7, <1>8, <1>9, <1>10 DEF Next, Run, Promise!Next

\* ResiliencePolicy.run behind the breaker makes at most MaxAttempts calls per
\* run and ends in one of the ways the pipeline is modelled with.
THEOREM KeepsPromise == Spec => AttemptsSpec
<1>1. Init => Promise!Init
  BY DEF Init, Promise!Init, Result, Count
<1>2. BreakerInv /\ [Next]_vars => [Promise!Next]_<<Results, Counts>>
  BY StepsKeepPromise
<1> QED BY <1>1, <1>2, BreakerInvariance, PTL DEF Spec, AttemptsSpec, Promise!Spec, Results, Counts
=============================================================================
