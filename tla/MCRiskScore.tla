---------------------------- MODULE MCRiskScore ----------------------------
(* RiskScore with the failures of the policy engine: one of each policy, but *)
(* two of the RDS policy, whose factors depend on its evidence.  Reports go  *)
(* from below to above the scale.                                            *)
EXTENDS RiskScore, PolicyEngine

Reported == -1..12

policyFailures ==
  (policyKeys \X {FALSE}) \cup {<<"aws_rds_instance_not_public_encrypted", TRUE>>}

policyRiskFactors ==
  [failure \in policyFailures |->
     LET given == riskFactors(failure[1], failure[2])
     IN [f \in FactorNames |-> IF f \in DOMAIN given THEN given[f] ELSE 0]]

=============================================================================
