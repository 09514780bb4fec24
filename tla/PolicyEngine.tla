---------------------------- MODULE PolicyEngine ----------------------------
(***************************************************************************)
(* The policy engine: what each built-in policy applies to, when its       *)
(* evaluator passes, and the risk factors, the control and the guidance of *)
(* one that fails.  It keeps no state.                                     *)
(*                                                                         *)
(* What a scanner reports of a resource is a record: the flags that are    *)
(* literally true, the ingress rules, the policy statements, the ages of   *)
(* the access keys in days (0 for a date that cannot be read), whether a   *)
(* variable of the environment has a secret's name, and the number of      *)
(* critical CVEs (0 for anything but a number).                            *)
(***************************************************************************)
EXTENDS Integers, FiniteSets

AwsResourceTypes ==
  {"S3Bucket", "Ec2Instance", "IamUser", "IamRole", "IamPolicy", "SecurityGroup",
   "RdsInstance", "LambdaFunction", "CloudTrailTrail", "EcrRepository",
   "SecretsManagerSecret", "KmsKey"}

(* defaultPolicyDefinitions: every policy applies to one type.               *)
appliesTo ==
  [aws_s3_bucket_public_access_prohibited       |-> "S3Bucket",
   aws_s3_block_public_access_enabled           |-> "S3Bucket",
   aws_security_group_no_world_open_admin_ports |-> "SecurityGroup",
   aws_iam_policy_no_wildcard_admin             |-> "IamPolicy",
   aws_iam_user_no_old_access_keys              |-> "IamUser",
   aws_root_account_mfa_enabled                 |-> "IamUser",
   aws_cloudtrail_enabled                       |-> "CloudTrailTrail",
   aws_rds_instance_not_public_encrypted        |-> "RdsInstance",
   aws_lambda_no_plaintext_secret_env           |-> "LambdaFunction",
   aws_ecr_no_critical_cves                     |-> "EcrRepository",
   aws_kms_key_not_public                       |-> "KmsKey"]

policyKeys == DOMAIN appliesTo

policyAppliesToAsset(key, type) == appliesTo[key] = type

-----------------------------------------------------------------------------
Absent == "absent"   (* a string that is not there                           *)
NoPort == -9         (* a port that is not there                             *)

(* A rule with several ranges is read by the first of cidrIpv4, cidrIpv6 and *)
(* cidr that is there; strings are lower case by then.                       *)
cidrOf(rule) ==
  IF rule.cidrIpv4 # Absent THEN rule.cidrIpv4
  ELSE IF rule.cidrIpv6 # Absent THEN rule.cidrIpv6 ELSE rule.cidr

cidrIsWorldOpen(cidr) == cidr \in {"0.0.0.0/0", "::/0"}

(* A rule with a port missing is about all ports only if it is about all     *)
(* protocols; a missing protocol is taken for tcp.                           *)
portRangeIncludes(rule, port) ==
  /\ rule.protocol \in {Absent, "tcp", "-1", "all"}
  /\ IF NoPort \in {rule.fromPort, rule.toPort} THEN rule.protocol \in {"-1", "all"}
     ELSE rule.fromPort <= port /\ port <= rule.toPort

exposedRules(metadata) ==
  {rule \in metadata.ingressRules :
     cidrIsWorldOpen(cidrOf(rule)) /\ \E port \in {22, 3389} : portRangeIncludes(rule, port)}

wildcardStatements(metadata) ==
  {s \in metadata.statements : s.effect = "allow" /\ "*" \in s.action /\ "*" \in s.resource}

maxAgeDays == 90     (* the policies are stored without parameters           *)

publicFlags == {"aclAllowsPublicRead", "policyAllowsPublicRead", "policyAllowsPublicWrite"}
blockFlags  == {"blockPublicAcls", "ignorePublicAcls", "blockPublicPolicy", "restrictPublicBuckets"}

(* What the policy's evaluator says of a resource of its type.               *)
passes(key, metadata) ==
  LET on == metadata.flags
  IN CASE key = "aws_s3_bucket_public_access_prohibited" -> publicFlags \cap on = {}
       [] key = "aws_s3_block_public_access_enabled" -> blockFlags \subseteq on
       [] key = "aws_security_group_no_world_open_admin_ports" -> exposedRules(metadata) = {}
       [] key = "aws_iam_policy_no_wildcard_admin" -> wildcardStatements(metadata) = {}
       [] key = "aws_iam_user_no_old_access_keys" ->
            \A age \in metadata.accessKeyAges : age <= maxAgeDays
       [] key = "aws_root_account_mfa_enabled" -> "isRootUser" \in on => "mfaEnabled" \in on
       [] key = "aws_cloudtrail_enabled" -> "isLogging" \in on
       [] key = "aws_rds_instance_not_public_encrypted" ->
            "publiclyAccessible" \notin on /\ "storageEncrypted" \in on
       [] key = "aws_lambda_no_plaintext_secret_env" -> ~metadata.secretEnvironment
       [] key = "aws_ecr_no_critical_cves" -> metadata.criticalCves = 0
       [] key = "aws_kms_key_not_public" -> {"publicAccess", "policyAllowsPublic"} \cap on = {}

-----------------------------------------------------------------------------
(* The factors a failing evaluator gives; the others are 0.  exposed is the  *)
(* evidence publiclyAccessible of the RDS evaluator.                         *)
riskFactors(key, exposed) ==
  CASE key = "aws_s3_bucket_public_access_prohibited" ->
         [internetExposure |-> 9, exploitability |-> 6, blastRadius |-> 7, complianceImpact |-> 7]
    [] key = "aws_s3_block_public_access_enabled" ->
         [internetExposure |-> 6, exploitability |-> 5, blastRadius |-> 5, complianceImpact |-> 7]
    [] key = "aws_security_group_no_world_open_admin_ports" ->
         [internetExposure |-> 10, exploitability |-> 8, blastRadius |-> 6, complianceImpact |-> 6]
    [] key = "aws_iam_policy_no_wildcard_admin" ->
         [privilegeLevel |-> 10, exploitability |-> 8, blastRadius |-> 9, complianceImpact |-> 8]
    [] key = "aws_iam_user_no_old_access_keys" ->
         [privilegeLevel |-> 6, exploitability |-> 6, credentialExposure |-> 8, complianceImpact |-> 6]
    [] key = "aws_root_account_mfa_enabled" ->
         [privilegeLevel |-> 10, exploitability |-> 7, blastRadius |-> 10,
          credentialExposure |-> 8, complianceImpact |-> 8]
    [] key = "aws_cloudtrail_enabled" ->
         [exploitability |-> 5, blastRadius |-> 7, complianceImpact |-> 9]
    [] key = "aws_rds_instance_not_public_encrypted" ->
         [internetExposure |-> IF exposed THEN 8 ELSE 2, exploitability |-> IF exposed THEN 7 ELSE 4,
          assetSensitivity |-> 8, complianceImpact |-> 8]
    [] key = "aws_lambda_no_plaintext_secret_env" ->
         [privilegeLevel |-> 5, exploitability |-> 7, credentialExposure |-> 9, complianceImpact |-> 6]
    [] key = "aws_ecr_no_critical_cves" ->
         [exploitability |-> 8, knownCves |-> 10, blastRadius |-> 7, complianceImpact |-> 7]
    [] key = "aws_kms_key_not_public" ->
         [privilegeLevel |-> 8, exploitability |-> 8, assetSensitivity |-> 9, complianceImpact |-> 9]

(* policyComplianceMappings: each policy violates one control.               *)
controlOfPolicy ==
  [aws_s3_bucket_public_access_prohibited       |-> "cis-aws-s3-1",
   aws_s3_block_public_access_enabled           |-> "cis-aws-s3-2",
   aws_security_group_no_world_open_admin_ports |-> "cis-aws-network-1",
   aws_iam_policy_no_wildcard_admin             |-> "cis-aws-iam-1",
   aws_iam_user_no_old_access_keys              |-> "cis-aws-iam-2",
   aws_root_account_mfa_enabled                 |-> "cis-aws-iam-3",
   aws_cloudtrail_enabled                       |-> "cis-aws-logging-1",
   aws_rds_instance_not_public_encrypted        |-> "cis-aws-data-1",
   aws_lambda_no_plaintext_secret_env           |-> "cis-aws-compute-1",
   aws_ecr_no_critical_cves                     |-> "cis-aws-container-1",
   aws_kms_key_not_public                       |-> "cis-aws-kms-1"]

(* The controls of cisAwsFrameworkDefinition.                                *)
cisAwsControls ==
  {"cis-aws-s3-1", "cis-aws-s3-2", "cis-aws-network-1", "cis-aws-iam-1", "cis-aws-iam-2",
   "cis-aws-iam-3", "cis-aws-logging-1", "cis-aws-data-1", "cis-aws-compute-1",
   "cis-aws-container-1", "cis-aws-kms-1"}

(* Mutant of complianceMappingsForPolicy: one policy names a control that    *)
(* the framework does not have.                                              *)
complianceMappingsMisspelt(key) ==
  IF key = "aws_kms_key_not_public" THEN {"cis-aws-kms-2"}
  ELSE IF key \in policyKeys THEN {controlOfPolicy[key]} ELSE {}

(* complianceMappingsForPolicy; a policy of another engine has none.         *)
complianceMappingsForPolicy(key) ==
  IF key \in policyKeys THEN {controlOfPolicy[key]} ELSE {}

=============================================================================
