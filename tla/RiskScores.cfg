SPECIFICATION Spec
CONSTANTS
  Failures <- policyFailures
  RiskFactors <- policyRiskFactors
  RawValues <- Reported
INVARIANT TypeOK
PROPERTY ScoreFollowsAsset
