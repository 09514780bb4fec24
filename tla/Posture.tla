------------------------------ MODULE Posture ------------------------------
(***************************************************************************)
(* The posture of a tenant: what a scan reports of its assets goes through *)
(* the policy engine into findings, compliance mappings and the attack     *)
(* graph, and people triage the findings.  A completion is one step here;  *)
(* ScanCompletion has its interleaving with triage.                        *)
(***************************************************************************)
EXTENDS AttackGraph

CONSTANTS
  Assets,      (* the external ids a scan can report                         *)
  Accounts,
  AccountOf,   (* the account an asset belongs to                            *)
  Inventories, (* the types the assets may have                              *)
  Reports,     (* what a scanner may report of a resource of each type       *)
  NoReport,    (* the metadata of an asset never seen                        *)
  Triages      (* the statuses people give findings                          *)

Active   == {"OPEN", "TRIAGED", "RISK_ACCEPTED"}
Statuses == Active \cup {"RESOLVED"}
None     == "NONE"

ASSUME PostureAssumption ==
  /\ Assets \cap SyntheticNodes = {}
  /\ AccountOf \in [Assets -> Accounts]
  /\ Inventories \subseteq [Assets -> AwsResourceTypes]
  /\ DOMAIN Reports = AwsResourceTypes
  /\ \A t \in AwsResourceTypes : \A r \in Reports[t] :
       /\ r # NoReport
       /\ r.accessKeyAges \subseteq Int
       /\ r.secretEnvironment \in BOOLEAN
  /\ Triages \subseteq Statuses
  /\ IsFiniteSet(Assets)

VARIABLES
  type,    (* Asset.assetType; an external id never changes its type         *)
  asset,   (* whether each asset is present, and the metadata last seen      *)
  finding, (* Finding.status, its evidence of public access and the controls *)
           (* it is mapped to                                                *)
  graph,   (* the nodes and edges of the tenant                              *)
  triaged  (* history: the findings triaged since they were evaluated        *)

vars == <<type, asset, finding, graph, triaged>>

Findings == Assets \X policyKeys

NoFinding == [status |-> None, exposed |-> FALSE, controls |-> {}]

Init ==
  /\ type \in Inventories
  /\ asset = [a \in Assets |-> [present |-> FALSE, metadata |-> NoReport]]
  /\ finding = [f \in Findings |-> NoFinding]
  /\ graph = [nodes |-> {}, edges |-> {}]
  /\ triaged = {}

-----------------------------------------------------------------------------
(* upsertAssetFromResource of what is found, markMissingAssetsDeleted of the *)
(* account's other assets.                                                   *)
Seen(account, found, report) ==
  [a \in Assets |->
     IF AccountOf[a] # account THEN asset[a]
     ELSE IF a \in found THEN [present |-> TRUE, metadata |-> report[a]]
     ELSE [asset[a] EXCEPT !.present = FALSE]]

(* Mutant of Failed: an existing finding keeps its evidence.                 *)
FailedKeepsEvidence(old, key, metadata) ==
  [status   |-> IF old.status \in Active THEN old.status ELSE "OPEN",
   exposed  |-> IF old.status = None THEN "publiclyAccessible" \in metadata.flags ELSE old.exposed,
   controls |-> complianceMappingsForPolicy(key)]

(* Mutant of Failed: the mappings are deleted and not created again.         *)
FailedUnmapped(old, key, metadata) ==
  [status   |-> IF old.status \in Active THEN old.status ELSE "OPEN",
   exposed  |-> "publiclyAccessible" \in metadata.flags,
   controls |-> {}]

(* What persistPolicyEvaluation makes of a finding whose policy failed, and  *)
(* of one whose policy passed.                                               *)
Failed(old, key, metadata) ==
  [status   |-> IF old.status \in Active THEN old.status ELSE "OPEN",
   exposed  |-> "publiclyAccessible" \in metadata.flags,
   controls |-> complianceMappingsForPolicy(key)]

Passed(old) ==
  IF old.status \in Active THEN [old EXCEPT !.status = "RESOLVED"] ELSE old

(* completeJob: a policy that does not apply to an asset is skipped.         *)
Scan(account, found, report) ==
  LET evaluated == {f \in found \X policyKeys : policyAppliesToAsset(f[2], type[f[1]])}
      result == [f \in Findings |->
                   IF f \notin evaluated THEN finding[f]
                   ELSE IF passes(f[2], report[f[1]]) THEN Passed(finding[f])
                   ELSE Failed(finding[f], f[2], report[f[1]])]
      seen == Seen(account, found, report)
  IN /\ asset' = seen
     /\ finding' = result
     /\ graph' = graphOf({a \in Assets : seen[a].present}, type,
                         {f \in Findings : result[f].status \in Active},
                         {f \in Findings : result[f].exposed})
     /\ triaged' = triaged \ evaluated
     /\ UNCHANGED type

(* FindingsService.updateStatus; nothing else follows the status.            *)
Triage(f, status) ==
  /\ finding[f].status # None
  /\ finding' = [finding EXCEPT ![f].status = status]
  /\ triaged' = triaged \cup {f}
  /\ UNCHANGED <<type, asset, graph>>

Next ==
  \/ \E account \in Accounts :
       \E found \in SUBSET {a \in Assets : AccountOf[a] = account} :
         \E report \in [found -> UNION {Reports[t] : t \in AwsResourceTypes}] :
           /\ \A a \in found : report[a] \in Reports[type[a]]
           /\ Scan(account, found, report)
  \/ \E f \in Findings, status \in Triages : Triage(f, status)

Spec == Init /\ [][Next]_vars

-----------------------------------------------------------------------------
(* ComplianceService.listControls: the findings mapped to a control, and how *)
(* many of them are not resolved.                                            *)
mappings(control) == {f \in Findings : control \in finding[f].controls}

(* Mutant of openFindingCount: only findings nobody has triaged are counted. *)
openFindingCountUntriaged(control) ==
  Cardinality({f \in mappings(control) : finding[f].status = "OPEN"})

openFindingCount(control) ==
  Cardinality({f \in mappings(control) : finding[f].status # "RESOLVED"})

TypeOK ==
  /\ type \in [Assets -> AwsResourceTypes]
  /\ \A a \in Assets :
       asset[a].present \in BOOLEAN /\ asset[a].metadata \in Reports[type[a]] \cup {NoReport}
  /\ finding \in [Findings -> [status : Statuses \cup {None}, exposed : BOOLEAN,
                               controls : SUBSET cisAwsControls]]
  /\ graph.nodes \subseteq Assets \cup SyntheticNodes
  /\ \A e \in graph.edges : e.kind \in EdgeKinds
  /\ triaged \subseteq Findings

(* Every edge of the graph joins two of its nodes and belongs to a finding   *)
(* of one of them; its nodes are the assets that are present, and those      *)
(* synthetic nodes that an edge needs (rebuildAttackGraph).                  *)
GraphWellFormed ==
  LET ends == UNION {{e.source, e.target} : e \in graph.edges}
  IN /\ ends \subseteq graph.nodes
     /\ graph.nodes = {a \in Assets : asset[a].present} \cup (ends \cap SyntheticNodes)
     /\ \A e \in graph.edges : e.finding[1] \in {e.source, e.target} /\ e.source # e.target

(* What the reports say, read without the policy engine: the internet gets   *)
(* at the asset; it grants everything; its credentials are in danger.        *)
Reachable(a) ==
  LET m == asset[a].metadata
  IN \/ type[a] = "S3Bucket" /\ (publicFlags \cap m.flags # {} \/ blockFlags \ m.flags # {})
     \/ type[a] = "RdsInstance" /\ "publiclyAccessible" \in m.flags
     \/ type[a] = "KmsKey" /\ {"publicAccess", "policyAllowsPublic"} \cap m.flags # {}
     \/ type[a] = "SecurityGroup" /\ exposedRules(m) # {}

Unrestricted(a) ==
  type[a] = "IamPolicy" /\ wildcardStatements(asset[a].metadata) # {}

Leaking(a) ==
  LET m == asset[a].metadata
  IN \/ type[a] = "LambdaFunction" /\ m.secretEnvironment
     \/ type[a] = "IamUser" /\ \/ \E age \in m.accessKeyAges : age > maxAgeDays
                               \/ "isRootUser" \in m.flags /\ "mfaEnabled" \notin m.flags

(* The paths the graph should have from or to an asset.                      *)
PathsOf(a) ==
  LET data == {d \in Assets : asset[d].present /\ type[d] \in dataAssetTypes}
  IN IF ~asset[a].present THEN {}
     ELSE {p \in {<<internetNode, a>>} : Reachable(a)}
            \cup {p \in {<<a, d>> : d \in data \cup {adminNode}} : Unrestricted(a)}
            \cup {p \in {<<a, credentialNode>>} : Leaking(a)}

(* Whatever was reported, resolved, deleted and found again before, and      *)
(* whichever account was scanned last: the graph shows for an asset the      *)
(* paths that the last report of it implies, and none if it is gone, but for *)
(* assets with findings triaged since they were evaluated.                   *)
PathsTellReports ==
  \A a \in Assets :
    triaged \cap ({a} \X policyKeys) = {} =>
      {<<e.source, e.target>> : e \in {x \in graph.edges : x.finding[1] = a}} = PathsOf(a)

(* A control counts the assets ever seen that violated one of its policies   *)
(* when they were last evaluated, gone or not; triage aside (listControls).  *)
ControlsTellReports ==
  \A key \in policyKeys :
    triaged \cap (Assets \X {key}) = {} =>
      openFindingCount(controlOfPolicy[key]) =
        Cardinality({a \in Assets : /\ asset[a].metadata # NoReport
                                    /\ policyAppliesToAsset(key, type[a])
                                    /\ ~passes(key, asset[a].metadata)})

=============================================================================
