---------------------------- MODULE MCAccounts -----------------------------
(***************************************************************************)
(* Accounts for TLC: requests are interchangeable, and so are addresses.   *)
(***************************************************************************)
EXTENDS Accounts, TLC

Symmetry == Permutations(Request) \cup Permutations(Email)

=============================================================================
