---------------------------- MODULE AttackGraph ----------------------------
(***************************************************************************)
(* The attack graph that rebuildAttackGraph draws from the assets that are *)
(* not deleted and the findings that are not resolved.  A finding is its   *)
(* asset and the key of its policy; labels, properties and the kinds of    *)
(* nodes are left out.  A finding draws no two edges of one kind between   *)
(* the same nodes, so the edge keys never drop one.                        *)
(***************************************************************************)
EXTENDS PolicyEngine

dataAssetTypes == {"S3Bucket", "RdsInstance", "SecretsManagerSecret", "KmsKey"}

(* The synthetic nodes.                                                      *)
internetNode   == "public-internet"
credentialNode == "credential-material"
adminNode      == "aws-account-administration"
SyntheticNodes == {internetNode, credentialNode, adminNode}

EdgeKinds == {"PERMISSION", "NETWORK_EXPOSURE", "CREDENTIAL_EXPOSURE", "DATA_ACCESS"}

Edge(source, target, kind, finding) ==
  [source |-> source, target |-> target, kind |-> kind, finding |-> finding]

FromInternet(finding, kinds) ==
  {Edge(internetNode, finding[1], kind, finding) : kind \in kinds}

(* The edges of one finding of an asset that is a node.  exposed is its      *)
(* evidence publiclyAccessible, data the nodes of assets that hold data.     *)
edgesOf(finding, exposed, data) ==
  LET asset == finding[1]
      key   == finding[2]
  IN CASE key = "aws_s3_bucket_public_access_prohibited" ->
            FromInternet(finding, {"NETWORK_EXPOSURE", "DATA_ACCESS"})
       [] key \in {"aws_s3_block_public_access_enabled",
                   "aws_security_group_no_world_open_admin_ports"} ->
            FromInternet(finding, {"NETWORK_EXPOSURE"})
       [] key = "aws_rds_instance_not_public_encrypted" ->
            FromInternet(finding, IF exposed THEN {"NETWORK_EXPOSURE", "DATA_ACCESS"} ELSE {})
       [] key = "aws_kms_key_not_public" ->
            FromInternet(finding, {"DATA_ACCESS"})
       [] key = "aws_iam_policy_no_wildcard_admin" ->
            {Edge(asset, adminNode, "PERMISSION", finding)}
              \cup {Edge(asset, d, "DATA_ACCESS", finding) : d \in data}
       [] key \in {"aws_iam_user_no_old_access_keys", "aws_root_account_mfa_enabled",
                   "aws_lambda_no_plaintext_secret_env"} ->
            {Edge(asset, credentialNode, "CREDENTIAL_EXPOSURE", finding)}
       [] OTHER -> {}

(* Mutant of graphOf: findings of assets that are gone are drawn, too.       *)
graphOfAll(assets, type, active, exposed) ==
  LET data == {a \in assets : type[a] \in dataAssetTypes}
      edges == UNION {edgesOf(f, f \in exposed, data) : f \in active}
  IN [nodes |-> assets \cup {n \in SyntheticNodes : \E e \in edges : n \in {e.source, e.target}},
      edges |-> edges]

(* Mutant of graphOf: the synthetic nodes are always there.                  *)
graphOfEverySynthetic(assets, type, active, exposed) ==
  LET data == {a \in assets : type[a] \in dataAssetTypes}
  IN [nodes |-> assets \cup SyntheticNodes,
      edges |-> UNION {edgesOf(f, f \in exposed, data) : f \in {g \in active : g[1] \in assets}}]

(* The graph of these assets, of these types, and of the active findings,    *)
(* those with evidence of public access among them; a synthetic node is      *)
(* there if an edge needs it.                                                *)
graphOf(assets, type, active, exposed) ==
  LET data  == {a \in assets : type[a] \in dataAssetTypes}
      drawn == {f \in active : f[1] \in assets}
      edges == UNION {edgesOf(f, f \in exposed, data) : f \in drawn}
  IN [nodes |-> assets \cup {n \in SyntheticNodes : \E e \in edges : n \in {e.source, e.target}},
      edges |-> edges]

=============================================================================
