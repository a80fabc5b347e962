------------------------------ MODULE Attempts ------------------------------
(***************************************************************************)
(* What ResiliencePolicy.run promises its caller: a bounded number of      *)
(* calls, and one of four ends.  Resilience implements it with retries and *)
(* a breaker; Pipeline, which knows of no breaker, implements it with the  *)
(* call steps of its deliver tasks.                                        *)
(***************************************************************************)
EXTENDS Naturals

CONSTANTS Thread, MaxAttempts

VARIABLES result,   \* of the run of each thread
          count     \* calls its run has completed, 0 without a run

Init == /\ result = [t \in Thread |-> "idle"]
        /\ count  = [t \in Thread |-> 0]

Start(t) == /\ result[t] = "idle"
            /\ result' = [result EXCEPT ![t] = "running"]
            /\ UNCHANGED count

\* One more call completes: it ends the run, or leaves at least one more.
Call(t) == /\ result[t] = "running"
           /\ count[t] < MaxAttempts
           /\ count' = [count EXCEPT ![t] = @ + 1]
           /\ \/ \E end \in {"sent", "failed", "raised"} : result' = [result EXCEPT ![t] = end]
              \/ count[t] + 1 < MaxAttempts /\ UNCHANGED result

\* The run ends before another call is made.
Refuse(t) == /\ result[t] = "running"
             /\ result' = [result EXCEPT ![t] = "failed"]
             /\ UNCHANGED count

\* The result has been recorded, or the thread dies and all its process with it.
Leave(gone) == /\ result' = [t \in Thread |-> IF t \in gone THEN "idle" ELSE result[t]]
               /\ count'  = [t \in Thread |-> IF t \in gone THEN 0 ELSE count[t]]

Next == \/ \E t \in Thread : Start(t) \/ Call(t) \/ Refuse(t)
        \/ \E gone \in SUBSET Thread : Leave(gone)

Spec == Init /\ [][Next]_<<result, count>>
=============================================================================
