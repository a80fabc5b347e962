---------------------------- MODULE MCReporting ----------------------------
(***************************************************************************)
(* Reporting for TLC: the processes of the pool are interchangeable.       *)
(***************************************************************************)
EXTENDS Reporting, TLC

ProcSymmetry == Permutations(Proc)

=============================================================================
