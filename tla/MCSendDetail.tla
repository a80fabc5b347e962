---------------------------- MODULE MCSendDetail ----------------------------
(***************************************************************************)
(* SendDetail for TLC: every delivery belongs to one send, K.              *)
(***************************************************************************)
EXTENDS SendDetail

CONSTANT K

SendOf == [d \in Delivery |-> K]
=============================================================================
