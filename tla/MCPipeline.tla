----------------------------- MODULE MCPipeline -----------------------------
(***************************************************************************)
(* Instances of Pipeline for TLC: the recipients D1 and D2 of one dispatch *)
(* or of two.  The configurations choose which of them lack or have a bad  *)
(* address and whether they are sent by SMS.  The invariant that the       *)
(* proofs rest on is checked as well, hence PipelineProofs.                *)
(***************************************************************************)
EXTENDS PipelineProofs, TLC

CONSTANTS K1, K2, D1, D2

OneDispatch  == (D1 :> K1) @@ (D2 :> K1)
TwoDispatches == (D1 :> K1) @@ (D2 :> K2)
OneRecipient == D1 :> K1
=============================================================================
