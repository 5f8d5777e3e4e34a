------------------------- MODULE MCComplianceAlerts -------------------------
(* The analyzers, the reporters and the resources are interchangeable.     *)
EXTENDS ComplianceAlerts, TLC

MCVerdicts == {"PASS", "FAIL"}
MCAllVerdicts == {"PASS", "FAIL", "ERROR"}
WorkerSymmetry == Permutations(Analyzers) \cup Permutations(Reporters)
=============================================================================
