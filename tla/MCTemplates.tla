---------------------------- MODULE MCTemplates ----------------------------
(***************************************************************************)
(* Templates for TLC: users, contacts and requests are interchangeable.    *)
(***************************************************************************)
EXTENDS Templates, TLC

Symmetry == Permutations(User) \cup Permutations(Contact) \cup Permutations(Request)

=============================================================================
