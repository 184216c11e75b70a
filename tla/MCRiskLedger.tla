---------------------------- MODULE MCRiskLedger ----------------------------
(* Small instances of RiskLedger for TLC. *)
EXTENDS RiskLedger, TLC

MCPnls == {-1, 0}

ProcSymmetry == Permutations(Procs)
=============================================================================
