------------------------------ MODULE MCTrust -------------------------------
(* Small instances of Trust: one certificate verifies, the others do not. *)
EXTENDS Trust, TLC

CONSTANT good

OneGood == [h \in Host |-> {good}]
=============================================================================
