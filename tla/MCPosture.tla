----------------------------- MODULE MCPosture -----------------------------
(* Posture for two assets, each of an account of its own.  Of each type the  *)
(* reports are those that pass every policy, one per way of failing, and     *)
(* those at the edge between the two.                                        *)
EXTENDS Posture

SplitAccounts == [a \in Assets |-> IF a = "one" THEN "prod" ELSE "test"]

Nothing == [flags |-> {}, ingressRules |-> {}, statements |-> {}, accessKeyAges |-> {},
            secretEnvironment |-> FALSE, criticalCves |-> 0]

Rule(protocol, from, to, v4, v6) ==
  [protocol |-> protocol, fromPort |-> from, toPort |-> to,
   cidrIpv4 |-> v4, cidrIpv6 |-> v6, cidr |-> Absent]

Rules ==
  {Rule("tcp", 22, 22, "0.0.0.0/0", Absent), Rule("-1", NoPort, NoPort, Absent, "::/0"),
   Rule(Absent, 3000, 3388, "0.0.0.0/0", Absent), Rule("tcp", 0, 65535, "10.0.0.0/8", Absent)}

Statement(effect, action, resource) ==
  [effect |-> effect, action |-> action, resource |-> resource]

Flagged(sets) == {[Nothing EXCEPT !.flags = flags] : flags \in sets}

typeReports == [t \in AwsResourceTypes |->
  CASE t = "S3Bucket" ->
         Flagged({blockFlags, blockFlags \cup {"policyAllowsPublicRead"},
                  blockFlags \ {"ignorePublicAcls"}, publicFlags})
    [] t = "SecurityGroup" ->
         {[Nothing EXCEPT !.ingressRules = {rule}] : rule \in Rules}
    [] t = "IamPolicy" ->
         {[Nothing EXCEPT !.statements = s] :
            s \in {{Statement("allow", {"*"}, {"*"}), Statement("deny", {"*"}, {"*"})},
                   {Statement("deny", {"*"}, {"*"})},
                   {Statement("allow", {"*"}, {"bucket"}), Statement("allow", {"read"}, {"*"})}}}
    [] t = "IamUser" ->
         Flagged({{}, {"isRootUser"}, {"isRootUser", "mfaEnabled"}})
           \cup {[Nothing EXCEPT !.accessKeyAges = {0, age}] : age \in {90, 91}}
    [] t = "CloudTrailTrail" -> Flagged({{}, {"isLogging"}})
    [] t = "RdsInstance" ->
         Flagged({{}, {"storageEncrypted"}, {"publiclyAccessible", "storageEncrypted"},
                  {"publiclyAccessible"}})
    [] t = "LambdaFunction" -> {[Nothing EXCEPT !.secretEnvironment = b] : b \in BOOLEAN}
    [] t = "EcrRepository" -> {[Nothing EXCEPT !.criticalCves = n] : n \in {0, 1}}
    [] t = "KmsKey" -> Flagged({{}, {"publicAccess"}, {"policyAllowsPublic"}})
    [] OTHER -> {Nothing}]

(* One asset of any type, and one that holds data or that may grant access   *)
(* to it: assets meet only at such edges.                                    *)
MixedInventories ==
  {i \in [Assets -> AwsResourceTypes] : i["two"] \in {"RdsInstance", "IamPolicy"}}

=============================================================================
