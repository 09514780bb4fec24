--------------------------- MODULE PostureProofs ---------------------------
(***************************************************************************)
(* Proofs about Posture, for every set of assets and accounts and whatever *)
(* the scanners report.                                                    *)
(***************************************************************************)
EXTENDS Posture, FiniteSetTheorems, TLAPS

(* Only policies that apply to an asset have findings of it.                 *)
OnlyApplicable ==
  \A f \in Findings : finding[f].status # None => policyAppliesToAsset(f[2], type[f[1]])

FindingRow ==
  [status : Statuses \cup {None}, exposed : BOOLEAN, controls : SUBSET cisAwsControls]

AnyReport == UNION {Reports[t] : t \in AwsResourceTypes}
AssetRow  == [present : BOOLEAN, metadata : AnyReport \cup {NoReport}]

(* Everything but the graph has its type; a present asset was reported.      *)
RowsTyped ==
  /\ type \in [Assets -> AwsResourceTypes]
  /\ asset \in [Assets -> AssetRow]
  /\ \A a \in Assets :
       /\ asset[a].metadata \in Reports[type[a]] \cup {NoReport}
       /\ asset[a].present => asset[a].metadata # NoReport
  /\ finding \in [Findings -> FindingRow]
  /\ triaged \subseteq Findings
  /\ OnlyApplicable

(* What a scan may be told: found assets of the account, each reported as    *)
(* its type is.                                                              *)
Reported(account, found, report) ==
  /\ found \subseteq {a \in Assets : AccountOf[a] = account}
  /\ report \in [found -> AnyReport]
  /\ \A a \in found : report[a] \in Reports[type[a]]

Evaluated(found) == {f \in found \X policyKeys : policyAppliesToAsset(f[2], type[f[1]])}

Result(found, report) ==
  [f \in Findings |->
     IF f \notin Evaluated(found) THEN finding[f]
     ELSE IF passes(f[2], report[f[1]]) THEN Passed(finding[f])
     ELSE Failed(finding[f], f[2], report[f[1]])]

-----------------------------------------------------------------------------
(* The mappings of a policy are controls of the framework.                   *)
LEMMA MappedControls ==
  ASSUME NEW key \in policyKeys
  PROVE  complianceMappingsForPolicy(key) \subseteq cisAwsControls
<1>1. controlOfPolicy[key] \in cisAwsControls
  BY DEF policyKeys, appliesTo, controlOfPolicy, cisAwsControls
<1>2. QED
  BY <1>1 DEF complianceMappingsForPolicy

(* What a scan and a status update do, in the terms above.                   *)
LEMMA ScanIs ==
  ASSUME NEW account, NEW found, NEW report, Scan(account, found, report)
  PROVE  /\ asset' = Seen(account, found, report)
         /\ finding' = Result(found, report)
         /\ graph' = graphOf({a \in Assets : asset'[a].present}, type,
                             {f \in Findings : finding'[f].status \in Active},
                             {f \in Findings : finding'[f].exposed})
         /\ triaged' = triaged \ Evaluated(found)
         /\ type' = type
BY DEF Scan, Result, Evaluated

LEMMA NextIs ==
  ASSUME [Next]_vars
  PROVE  \/ \E account, found, report :
              Reported(account, found, report) /\ Scan(account, found, report)
         \/ \E f \in Findings, status \in Triages : Triage(f, status)
         \/ UNCHANGED vars
BY DEF Next, Reported, AnyReport

LEMMA RowsInit == Init => RowsTyped
<1> SUFFICES ASSUME Init PROVE RowsTyped
  OBVIOUS
<1>1. type \in [Assets -> AwsResourceTypes]
  BY PostureAssumption DEF Init
<1>2. /\ asset \in [Assets -> AssetRow]
      /\ \A a \in Assets : asset[a].metadata = NoReport /\ ~asset[a].present
  BY DEF Init, AssetRow
<1>3. /\ finding \in [Findings -> FindingRow]
      /\ \A f \in Findings : finding[f].status = None
  BY DEF Init, NoFinding, FindingRow
<1>4. triaged \subseteq Findings
  BY DEF Init
<1>5. QED
  BY <1>1, <1>2, <1>3, <1>4 DEF RowsTyped, OnlyApplicable

LEMMA RowsStep ==
  ASSUME RowsTyped, [Next]_vars
  PROVE  RowsTyped'
<1>1. ASSUME NEW account, NEW found, NEW report,
             Reported(account, found, report), Scan(account, found, report)
      PROVE  RowsTyped'
  <2>0. /\ asset' = Seen(account, found, report)
        /\ finding' = Result(found, report)
        /\ triaged' = triaged \ Evaluated(found)
        /\ type' = type
    BY ScanIs, <1>1
  <2>1. type' \in [Assets -> AwsResourceTypes] /\ type' = type
    BY <2>0 DEF RowsTyped
  <2>2. \A a \in Assets : AccountOf[a] = account /\ a \in found =>
          /\ report[a] \in AnyReport
          /\ report[a] \in Reports[type[a]]
          /\ report[a] # NoReport
    BY <1>1, PostureAssumption DEF Reported, RowsTyped
  <2>3. ASSUME NEW a \in Assets
        PROVE  /\ asset'[a] \in AssetRow
               /\ asset'[a].metadata \in Reports[type'[a]] \cup {NoReport}
               /\ asset'[a].present => asset'[a].metadata # NoReport
    <3>1. CASE AccountOf[a] # account
      <4>1. asset'[a] = asset[a]
        BY <2>0, <3>1 DEF Seen
      <4>2. QED
        BY <2>1, <4>1 DEF RowsTyped
    <3>2. CASE AccountOf[a] = account /\ a \in found
      <4>1. asset'[a] = [present |-> TRUE, metadata |-> report[a]]
        BY <2>0, <3>2 DEF Seen
      <4>2. QED
        BY <2>1, <2>2, <3>2, <4>1 DEF AssetRow
    <3>3. CASE AccountOf[a] = account /\ a \notin found
      <4>1. asset'[a] = [asset[a] EXCEPT !.present = FALSE]
        BY <2>0, <3>3 DEF Seen
      <4>2. asset[a] \in AssetRow
        BY DEF RowsTyped
      <4>3. QED
        BY <2>1, <4>1, <4>2 DEF RowsTyped, AssetRow
    <3>4. QED
      BY <3>1, <3>2, <3>3
  <2>10. asset' \in [Assets -> AssetRow]
    BY <2>0, <2>3 DEF Seen
  <2>4. \A f \in Findings : f \in Evaluated(found) =>
          Failed(finding[f], f[2], report[f[1]]) \in FindingRow
    BY MappedControls DEF RowsTyped, Failed, FindingRow, Findings, Statuses, Active
  <2>5. \A f \in Findings : Passed(finding[f]) \in FindingRow
    BY DEF RowsTyped, Passed, FindingRow, Statuses, Active
  <2>6. finding' \in [Findings -> FindingRow]
    <3>1. ASSUME NEW f \in Findings PROVE finding'[f] \in FindingRow
      <4>1. \/ finding'[f] = finding[f]
            \/ finding'[f] = Passed(finding[f])
            \/ f \in Evaluated(found) /\ finding'[f] = Failed(finding[f], f[2], report[f[1]])
        BY <2>0 DEF Result
      <4>2. finding[f] \in FindingRow
        BY DEF RowsTyped
      <4>3. QED
        BY <2>4, <2>5, <4>1, <4>2
    <3>2. QED
      BY <2>0, <3>1 DEF Result
  <2>7. OnlyApplicable'
    <3> SUFFICES ASSUME NEW f \in Findings, finding'[f].status # None
                 PROVE  policyAppliesToAsset(f[2], type[f[1]])
      BY <2>1 DEF OnlyApplicable
    <3>1. CASE f \in Evaluated(found)
      BY <3>1 DEF Evaluated
    <3>2. CASE f \notin Evaluated(found)
      <4>1. finding'[f] = finding[f]
        BY <2>0, <3>2 DEF Result
      <4>2. QED
        BY <4>1 DEF RowsTyped, OnlyApplicable
    <3>3. QED
      BY <3>1, <3>2
  <2>8. triaged' \subseteq Findings
    BY <2>0 DEF RowsTyped
  <2>9. QED
    BY <2>1, <2>3, <2>10, <2>6, <2>7, <2>8 DEF RowsTyped
<1>2. ASSUME NEW f \in Findings, NEW status \in Triages, Triage(f, status)
      PROVE  RowsTyped'
  <2>1. status \in Statuses
    BY PostureAssumption
  <2>2. finding' \in [Findings -> FindingRow]
    BY <1>2, <2>1 DEF Triage, RowsTyped, FindingRow
  <2>3. \A g \in Findings : finding'[g].status # None => finding[g].status # None
    BY <1>2 DEF Triage, RowsTyped
  <2>4. QED
    BY <1>2, <2>2, <2>3 DEF Triage, RowsTyped, OnlyApplicable
<1>3. CASE UNCHANGED vars
  BY <1>3 DEF vars, RowsTyped, OnlyApplicable
<1>4. QED
  BY <1>1, <1>2, <1>3, NextIs

-----------------------------------------------------------------------------
(* An edge of a finding joins its asset to a synthetic node or, for the      *)
(* wildcard policy, to another asset that holds data.                        *)
LEMMA EdgesJoin ==
  ASSUME NEW f \in Findings, NEW exposed \in BOOLEAN, NEW data \in SUBSET Assets,
         NEW e \in edgesOf(f, exposed, data),
         f[2] = "aws_iam_policy_no_wildcard_admin" => f[1] \notin data
  PROVE  /\ e.finding = f
         /\ e.kind \in EdgeKinds
         /\ e.source = f[1] \/ e.target = f[1]
         /\ e.source \in {f[1]} \cup SyntheticNodes
         /\ e.target \in {f[1]} \cup SyntheticNodes \cup data
         /\ e.source # e.target
<1> DEFINE own == f[1]
           Joins(x) == /\ x.finding = f
                       /\ x.kind \in EdgeKinds
                       /\ x.source = own \/ x.target = own
                       /\ x.source \in {own} \cup SyntheticNodes
                       /\ x.target \in {own} \cup SyntheticNodes \cup data
                       /\ x.source # x.target
<1>0. /\ own \in Assets /\ own \notin SyntheticNodes
      /\ {internetNode, adminNode, credentialNode} = SyntheticNodes
  BY PostureAssumption DEF Findings, SyntheticNodes
<1>1. ASSUME NEW kinds \in SUBSET EdgeKinds, NEW x \in FromInternet(f, kinds)
      PROVE  Joins(x)
  BY <1>0, <1>1 DEF FromInternet, Edge
<1>2. ASSUME NEW target \in SyntheticNodes, NEW kind \in EdgeKinds
      PROVE  Joins(Edge(own, target, kind, f))
  BY <1>0 DEF Edge
<1>3. ASSUME NEW d \in data, own \notin data
      PROVE  Joins(Edge(own, d, "DATA_ACCESS", f))
  BY <1>0, <1>3 DEF Edge, EdgeKinds
<1>4. Joins(e)
  <2>1. \/ \E kinds \in SUBSET EdgeKinds : e \in FromInternet(f, kinds)
        \/ \E target \in SyntheticNodes, kind \in EdgeKinds : e = Edge(own, target, kind, f)
        \/ own \notin data /\ \E d \in data : e = Edge(own, d, "DATA_ACCESS", f)
    <3>1. /\ {"NETWORK_EXPOSURE", "DATA_ACCESS"} \in SUBSET EdgeKinds
          /\ {"NETWORK_EXPOSURE"} \in SUBSET EdgeKinds
          /\ {"DATA_ACCESS"} \in SUBSET EdgeKinds
          /\ {} \in SUBSET EdgeKinds
          /\ "PERMISSION" \in EdgeKinds /\ "CREDENTIAL_EXPOSURE" \in EdgeKinds
      BY DEF EdgeKinds
    <3> HIDE DEF Joins
    <3>2. QED
      BY <1>0, <3>1 DEF edgesOf
  <2>2. QED
    BY <1>1, <1>2, <1>3, <2>1
<1>5. QED
  BY <1>4

Present == {a \in Assets : asset[a].present}
Data    == {a \in Present : type[a] \in dataAssetTypes}

(* A graph with the edges of the active findings of present assets, well     *)
(* formed.                                                                   *)
WellDrawn(g, present, active, exposed, data) ==
  /\ \A e : e \in g.edges <=>
       \E f \in active : f[1] \in present /\ e \in edgesOf(f, f \in exposed, data)
  /\ g.nodes = present \cup
       {n \in SyntheticNodes : \E e \in g.edges : n \in {e.source, e.target}}
  /\ \A e \in g.edges :
       /\ e.finding \in active /\ e.finding[1] \in present
       /\ e \in edgesOf(e.finding, e.finding \in exposed, data)
       /\ e.kind \in EdgeKinds
       /\ e.finding[1] \in {e.source, e.target}
       /\ e.source \in g.nodes /\ e.target \in g.nodes
       /\ e.source # e.target

LEMMA GraphDrawn ==
  ASSUME NEW present \in SUBSET Assets, NEW types, NEW active \in SUBSET Findings,
         NEW exposed, NEW data, data = {a \in present : types[a] \in dataAssetTypes},
         \A f \in active : policyAppliesToAsset(f[2], types[f[1]]),
         NEW g, g = graphOf(present, types, active, exposed)
  PROVE  WellDrawn(g, present, active, exposed, data)
<1>1. /\ \A e : e \in g.edges <=>
           \E f \in active : f[1] \in present /\ e \in edgesOf(f, f \in exposed, data)
      /\ g.nodes = present \cup
           {n \in SyntheticNodes : \E e \in g.edges : n \in {e.source, e.target}}
  BY DEF graphOf
<1>2. ASSUME NEW e \in g.edges
      PROVE  /\ e.finding \in active /\ e.finding[1] \in present
             /\ e \in edgesOf(e.finding, e.finding \in exposed, data)
             /\ e.kind \in EdgeKinds
             /\ e.finding[1] \in {e.source, e.target}
             /\ e.source \in g.nodes /\ e.target \in g.nodes
             /\ e.source # e.target
  <2>1. PICK f \in active : f[1] \in present /\ e \in edgesOf(f, f \in exposed, data)
    BY <1>1
  <2>2. f \in Findings /\ (f \in exposed) \in BOOLEAN /\ data \in SUBSET Assets
    OBVIOUS
  <2>3. f[2] = "aws_iam_policy_no_wildcard_admin" => f[1] \notin data
    <3>1. f[2] = "aws_iam_policy_no_wildcard_admin" => types[f[1]] = "IamPolicy"
      BY <2>1 DEF policyAppliesToAsset, appliesTo
    <3>2. QED
      BY <3>1 DEF dataAssetTypes
  <2>4. /\ e.finding = f
        /\ e.kind \in EdgeKinds
        /\ e.source = f[1] \/ e.target = f[1]
        /\ e.source \in {f[1]} \cup SyntheticNodes
        /\ e.target \in {f[1]} \cup SyntheticNodes \cup data
        /\ e.source # e.target
    <3> DEFINE public == f \in exposed
    <3>1. /\ f \in Findings /\ public \in BOOLEAN /\ data \in SUBSET Assets
          /\ e \in edgesOf(f, public, data)
      BY <2>1, <2>2
    <3> HIDE DEF public
    <3>2. QED
      BY <2>3, <3>1, EdgesJoin
  <2>5. data \subseteq present
    OBVIOUS
  <2>6. e.source \in g.nodes /\ e.target \in g.nodes
    BY <1>1, <2>1, <2>4, <2>5
  <2>7. QED
    BY <2>1, <2>4, <2>6
<1>3. QED
  BY <1>1, <1>2 DEF WellDrawn

(* The graph is well formed, and it shows the active findings of present     *)
(* assets as they were evaluated last, but for those triaged since.          *)
Drawn ==
  /\ \A e \in graph.edges :
       /\ e.finding \in Findings /\ e.finding[1] \in Present
       /\ e.kind \in EdgeKinds
       /\ e \in edgesOf(e.finding, finding[e.finding].exposed, Data)
  /\ \A f \in Findings \ triaged :
       /\ finding[f].status \in Active /\ f[1] \in Present =>
            edgesOf(f, finding[f].exposed, Data) \subseteq graph.edges
       /\ \A e \in graph.edges : e.finding = f => finding[f].status \in Active

LEMMA GraphInit == Init => GraphWellFormed /\ Drawn
BY DEF Init, GraphWellFormed, Drawn, Present, NoFinding, Active, None

LEMMA GraphStep ==
  ASSUME RowsTyped, GraphWellFormed, Drawn, [Next]_vars
  PROVE  GraphWellFormed' /\ Drawn'
<1>a. RowsTyped'
  BY RowsStep
<1>1. ASSUME NEW account, NEW found, NEW report,
             Reported(account, found, report), Scan(account, found, report)
      PROVE  GraphWellFormed' /\ Drawn'
  <2> DEFINE active  == {f \in Findings : finding'[f].status \in Active}
             exposed == {f \in Findings : finding'[f].exposed}
  <2>1. graph' = graphOf(Present', type', active, exposed)
    BY <1>1, ScanIs DEF Present
  <2>2. \A f \in active : policyAppliesToAsset(f[2], type'[f[1]])
    BY <1>a DEF RowsTyped, OnlyApplicable, Active, None
  <2>3. \A f \in Findings : (f \in exposed) = finding'[f].exposed
    BY <1>a DEF RowsTyped, FindingRow
  <2> HIDE DEF exposed
  <2>4. WellDrawn(graph', Present', active, exposed, Data')
    <3>1. /\ Present' \in SUBSET Assets /\ active \in SUBSET Findings
          /\ Data' = {a \in Present' : type'[a] \in dataAssetTypes}
      BY DEF Present, Data
    <3> HIDE DEF active
    <3>2. QED
      BY <2>1, <2>2, <3>1, GraphDrawn
  <2>5. GraphWellFormed'
    BY <2>4 DEF GraphWellFormed, Present, WellDrawn
  <2>6. Drawn'
    BY <2>3, <2>4 DEF Drawn, WellDrawn
  <2>7. QED
    BY <2>5, <2>6
<1>2. ASSUME NEW f \in Findings, NEW status \in Triages, Triage(f, status)
      PROVE  GraphWellFormed' /\ Drawn'
  <2>1. \A g \in Findings :
          /\ finding'[g].exposed = finding[g].exposed
          /\ g # f => finding'[g] = finding[g]
    BY <1>2 DEF Triage, RowsTyped, FindingRow
  <2>2. /\ f \in triaged' /\ triaged \subseteq triaged'
        /\ UNCHANGED <<type, asset, graph>>
    BY <1>2 DEF Triage
  <2>3. QED
    BY <2>1, <2>2 DEF GraphWellFormed, Drawn, Present, Data
<1>3. CASE UNCHANGED vars
  BY <1>3 DEF vars, GraphWellFormed, Drawn, Present, Data
<1>4. QED
  BY <1>1, <1>2, <1>3, NextIs

(* THEOREM 1.  Every variable has its type: findings have a status and the   *)
(* controls of the framework, and edges are of the kinds there are.          *)
THEOREM TypeCorrect == Spec => []TypeOK
<1>1. RowsTyped /\ GraphWellFormed /\ Drawn => TypeOK
  <2> SUFFICES ASSUME RowsTyped, GraphWellFormed, Drawn PROVE TypeOK
    OBVIOUS
  <2>1. graph.nodes \subseteq Assets \cup SyntheticNodes /\ \A e \in graph.edges : e.kind \in EdgeKinds
    BY DEF GraphWellFormed, Drawn
  <2>2. \A a \in Assets : asset[a].present \in BOOLEAN /\ asset[a].metadata \in Reports[type[a]] \cup {NoReport}
    BY DEF RowsTyped, AssetRow
  <2>3. QED
    BY <2>1, <2>2 DEF TypeOK, RowsTyped, FindingRow
<1>2. QED
  BY <1>1, RowsInit, RowsStep, GraphInit, GraphStep, PTL DEF Spec

(* THEOREM 2.  Whatever was scanned, deleted and triaged, the edges of the   *)
(* graph join its nodes, and its nodes are the present assets and the        *)
(* synthetic nodes in use.                                                   *)
THEOREM GraphsAreWellFormed == Spec => []GraphWellFormed
BY RowsInit, RowsStep, GraphInit, GraphStep, PTL DEF Spec

-----------------------------------------------------------------------------
(* A finding not triaged since its asset was evaluated tells the last report *)
(* of the asset.                                                             *)
Told ==
  \A f \in Findings \ triaged : policyAppliesToAsset(f[2], type[f[1]]) =>
    LET metadata == asset[f[1]].metadata
    IN IF metadata = NoReport THEN finding[f].status = None
       ELSE /\ finding[f].status \in Active <=> ~passes(f[2], metadata)
            /\ finding[f].status \in Active =>
                 finding[f].exposed = ("publiclyAccessible" \in metadata.flags)

LEMMA ToldInit == Init => Told
<1> SUFFICES ASSUME Init, NEW f \in Findings
             PROVE  asset[f[1]].metadata = NoReport /\ finding[f].status = None
  BY DEF Told
<1>1. f[1] \in Assets
  BY DEF Findings
<1>2. QED
  BY <1>1 DEF Init, NoFinding

LEMMA ToldStep ==
  ASSUME RowsTyped, Told, [Next]_vars
  PROVE  Told'
<1>1. ASSUME NEW account, NEW found, NEW report,
             Reported(account, found, report), Scan(account, found, report)
      PROVE  Told'
  <2>0. /\ asset' = Seen(account, found, report) /\ finding' = Result(found, report)
        /\ triaged' = triaged \ Evaluated(found) /\ type' = type
    BY <1>1, ScanIs
  <2> SUFFICES ASSUME NEW f \in Findings \ triaged', policyAppliesToAsset(f[2], type[f[1]])
               PROVE  LET metadata == asset'[f[1]].metadata
                      IN IF metadata = NoReport THEN finding'[f].status = None
                         ELSE /\ finding'[f].status \in Active <=> ~passes(f[2], metadata)
                              /\ finding'[f].status \in Active =>
                                   finding'[f].exposed = ("publiclyAccessible" \in metadata.flags)
    BY <2>0 DEF Told
  <2>1. /\ f[1] \in Assets /\ f[2] \in policyKeys /\ f = <<f[1], f[2]>>
        /\ found \subseteq Assets /\ finding[f] \in FindingRow /\ asset[f[1]] \in AssetRow
    BY <1>1 DEF Findings, Reported, RowsTyped
  <2>2. CASE f[1] \in found
    <3>1. f \in Evaluated(found)
      BY <2>1, <2>2 DEF Evaluated
    <3>2. AccountOf[f[1]] = account /\ report[f[1]] # NoReport
      BY <1>1, <2>1, <2>2, PostureAssumption DEF Reported, RowsTyped
    <3>3. asset'[f[1]].metadata = report[f[1]]
      BY <2>0, <2>1, <2>2, <3>2 DEF Seen
    <3>4. CASE passes(f[2], report[f[1]])
      <4>1. finding'[f] = Passed(finding[f])
        BY <2>0, <3>1, <3>4 DEF Result
      <4>2. finding'[f].status \notin Active
        BY <2>1, <4>1 DEF Passed, FindingRow, Active
      <4>3. QED
        BY <3>2, <3>3, <3>4, <4>2
    <3>5. CASE ~passes(f[2], report[f[1]])
      <4>1. finding'[f] = Failed(finding[f], f[2], report[f[1]])
        BY <2>0, <3>1, <3>5 DEF Result
      <4>2. /\ finding'[f].status \in Active
            /\ finding'[f].exposed = ("publiclyAccessible" \in report[f[1]].flags)
        BY <4>1 DEF Failed, Active
      <4>3. QED
        BY <3>2, <3>3, <3>5, <4>2
    <3>6. QED
      BY <3>4, <3>5
  <2>3. CASE f[1] \notin found
    <3>1. f \notin Evaluated(found)
      BY <2>1, <2>3 DEF Evaluated
    <3>2. finding'[f] = finding[f] /\ f \notin triaged
      BY <2>0, <3>1 DEF Result
    <3>3. asset'[f[1]].metadata = asset[f[1]].metadata
      BY <2>0, <2>1, <2>3 DEF Seen, AssetRow
    <3>4. QED
      BY <3>2, <3>3 DEF Told
  <2>4. QED
    BY <2>2, <2>3
<1>2. ASSUME NEW f \in Findings, NEW status \in Triages, Triage(f, status)
      PROVE  Told'
  <2>1. /\ triaged' = triaged \cup {f} /\ UNCHANGED <<type, asset>>
        /\ \A g \in Findings : g # f => finding'[g] = finding[g]
    BY <1>2 DEF Triage, RowsTyped
  <2>2. QED
    BY <2>1 DEF Told
<1>3. CASE UNCHANGED vars
  BY <1>3 DEF vars, Told
<1>4. QED
  BY <1>1, <1>2, <1>3, NextIs

(* The ends of the edges of a finding.                                       *)
EndsOf(a, key, exposed, data) ==
  {<<e.source, e.target>> : e \in edgesOf(<<a, key>>, exposed, data)}

LEMMA Ends ==
  ASSUME NEW a \in Assets, NEW exposed \in BOOLEAN, NEW data
  PROVE  /\ \A key \in {"aws_s3_bucket_public_access_prohibited", "aws_kms_key_not_public",
                        "aws_s3_block_public_access_enabled",
                        "aws_security_group_no_world_open_admin_ports"} :
              EndsOf(a, key, exposed, data) = {<<internetNode, a>>}
         /\ EndsOf(a, "aws_rds_instance_not_public_encrypted", exposed, data) =
              IF exposed THEN {<<internetNode, a>>} ELSE {}
         /\ EndsOf(a, "aws_iam_policy_no_wildcard_admin", exposed, data) =
              {<<a, d>> : d \in data \cup {adminNode}}
         /\ \A key \in {"aws_iam_user_no_old_access_keys", "aws_root_account_mfa_enabled",
                        "aws_lambda_no_plaintext_secret_env"} :
              EndsOf(a, key, exposed, data) = {<<a, credentialNode>>}
         /\ \A key \in {"aws_cloudtrail_enabled", "aws_ecr_no_critical_cves"} :
              EndsOf(a, key, exposed, data) = {}
<1>1. ASSUME NEW f, f[1] = a, NEW kinds
      PROVE  {<<e.source, e.target>> : e \in FromInternet(f, kinds)}
               = IF kinds = {} THEN {} ELSE {<<internetNode, a>>}
  <2>1. \A e \in FromInternet(f, kinds) : e.source = internetNode /\ e.target = a
    BY <1>1 DEF FromInternet, Edge
  <2>2. \A kind \in kinds : Edge(internetNode, a, kind, f) \in FromInternet(f, kinds)
    BY <1>1 DEF FromInternet
  <2>3. kinds = {} => FromInternet(f, kinds) = {}
    BY DEF FromInternet
  <2>4. QED
    BY <2>1, <2>2, <2>3
<1>2. \A key : EndsOf(a, key, exposed, data) =
                 {<<e.source, e.target>> : e \in edgesOf(<<a, key>>, exposed, data)}
  BY DEF EndsOf
<1>3. ASSUME NEW key \in {"aws_s3_bucket_public_access_prohibited", "aws_kms_key_not_public",
                          "aws_s3_block_public_access_enabled",
                          "aws_security_group_no_world_open_admin_ports"}
      PROVE  EndsOf(a, key, exposed, data) = {<<internetNode, a>>}
  <2>1. \E kinds : kinds # {} /\ edgesOf(<<a, key>>, exposed, data) = FromInternet(<<a, key>>, kinds)
    <3>1. /\ {"NETWORK_EXPOSURE", "DATA_ACCESS"} # {} /\ {"NETWORK_EXPOSURE"} # {}
          /\ {"DATA_ACCESS"} # {}
      OBVIOUS
    <3>2. QED
      BY <1>3, <3>1 DEF edgesOf
  <2>2. QED
    BY <1>1, <1>2, <2>1
<1>4. EndsOf(a, "aws_rds_instance_not_public_encrypted", exposed, data) =
        IF exposed THEN {<<internetNode, a>>} ELSE {}
  <2> DEFINE f     == <<a, "aws_rds_instance_not_public_encrypted">>
             kinds == IF exposed THEN {"NETWORK_EXPOSURE", "DATA_ACCESS"} ELSE {}
  <2>1. edgesOf(f, exposed, data) = FromInternet(f, kinds)
    BY DEF edgesOf
  <2>2. f[1] = a /\ (kinds = {} <=> ~exposed)
    OBVIOUS
  <2> HIDE DEF kinds
  <2>3. {<<e.source, e.target>> : e \in FromInternet(f, kinds)}
          = IF kinds = {} THEN {} ELSE {<<internetNode, a>>}
    BY <1>1, <2>2
  <2>4. QED
    BY <1>2, <2>1, <2>2, <2>3
<1>5. EndsOf(a, "aws_iam_policy_no_wildcard_admin", exposed, data) =
        {<<a, d>> : d \in data \cup {adminNode}}
  <2> DEFINE f == <<a, "aws_iam_policy_no_wildcard_admin">>
  <2>1. edgesOf(f, exposed, data) = {Edge(a, adminNode, "PERMISSION", f)}
                                      \cup {Edge(a, d, "DATA_ACCESS", f) : d \in data}
    BY DEF edgesOf
  <2>2. \A target, kind : LET e == Edge(a, target, kind, f) IN e.source = a /\ e.target = target
    BY DEF Edge
  <2>3. QED
    BY <2>1, <2>2 DEF EndsOf
<1>6. ASSUME NEW key \in {"aws_iam_user_no_old_access_keys", "aws_root_account_mfa_enabled",
                          "aws_lambda_no_plaintext_secret_env"}
      PROVE  EndsOf(a, key, exposed, data) = {<<a, credentialNode>>}
  <2>1. edgesOf(<<a, key>>, exposed, data)
          = {Edge(a, credentialNode, "CREDENTIAL_EXPOSURE", <<a, key>>)}
    BY <1>6 DEF edgesOf
  <2>2. LET e == Edge(a, credentialNode, "CREDENTIAL_EXPOSURE", <<a, key>>)
        IN e.source = a /\ e.target = credentialNode
    BY DEF Edge
  <2>3. QED
    BY <2>1, <2>2 DEF EndsOf
<1>7. ASSUME NEW key \in {"aws_cloudtrail_enabled", "aws_ecr_no_critical_cves"}
      PROVE  EndsOf(a, key, exposed, data) = {}
  BY <1>7 DEF EndsOf, edgesOf
<1>8. QED
  BY <1>3, <1>4, <1>5, <1>6, <1>7

(* The pairs of nodes that edges of an asset's findings join.                *)
Joined(a) == {<<e.source, e.target>> : e \in {x \in graph.edges : x.finding[1] = a}}

(* They are the ends of the edges of the policies that its report fails.     *)
LEMMA JoinedIs ==
  ASSUME RowsTyped, Drawn, Told, NEW a \in Assets,
         triaged \cap ({a} \X policyKeys) = {}
  PROVE  /\ ~asset[a].present => Joined(a) = {}
         /\ asset[a].present =>
              \A p : p \in Joined(a) <=>
                \E key \in policyKeys :
                  /\ appliesTo[key] = type[a]
                  /\ ~passes(key, asset[a].metadata)
                  /\ p \in EndsOf(a, key, "publiclyAccessible" \in asset[a].metadata.flags, Data)
<1> DEFINE m == asset[a].metadata
           on == "publiclyAccessible" \in m.flags
<1>1. ~asset[a].present => Joined(a) = {}
  BY DEF Drawn, Joined, Present
<1>2. \A key \in policyKeys : <<a, key>> \in Findings \ triaged
  BY DEF Findings
<1>3. SUFFICES ASSUME asset[a].present, NEW p
               PROVE  p \in Joined(a) <=>
                        \E key \in policyKeys : /\ appliesTo[key] = type[a] /\ ~passes(key, m)
                                                /\ p \in EndsOf(a, key, on, Data)
  BY <1>1
<1>4. m # NoReport /\ a \in Present
  BY <1>3 DEF RowsTyped, Present
<1>5. ASSUME NEW key \in policyKeys, appliesTo[key] = type[a]
      PROVE  LET f == <<a, key>>
             IN /\ finding[f].status \in Active <=> ~passes(key, m)
                /\ finding[f].status \in Active => finding[f].exposed = on
  <2> DEFINE f == <<a, key>>
  <2>1. f \in Findings \ triaged /\ f[1] = a /\ f[2] = key /\ policyAppliesToAsset(key, type[a])
    BY <1>2, <1>5 DEF policyAppliesToAsset
  <2> HIDE DEF f
  <2>2. QED
    BY <1>4, <2>1 DEF Told, f
<1>6. ASSUME p \in Joined(a)
      PROVE  \E key \in policyKeys : /\ appliesTo[key] = type[a] /\ ~passes(key, m)
                                     /\ p \in EndsOf(a, key, on, Data)
  <2>1. PICK e \in graph.edges : e.finding[1] = a /\ p = <<e.source, e.target>>
    BY <1>6 DEF Joined
  <2>2. PICK key \in policyKeys : e.finding = <<a, key>>
    BY <2>1 DEF Drawn, Findings
  <2>3. finding[<<a, key>>].status \in Active
    BY <1>2, <2>1, <2>2 DEF Drawn
  <2>4. appliesTo[key] = type[a]
    <3>1. finding[<<a, key>>].status # None /\ <<a, key>> \in Findings
      BY <1>2, <2>3 DEF Active, None
    <3>2. QED
      BY <3>1 DEF RowsTyped, OnlyApplicable, policyAppliesToAsset
  <2>5. ~passes(key, m) /\ finding[<<a, key>>].exposed = on
    BY <1>5, <2>3, <2>4
  <2>6. e \in edgesOf(<<a, key>>, finding[<<a, key>>].exposed, Data)
    BY <2>1, <2>2 DEF Drawn
  <2>7. p \in EndsOf(a, key, on, Data)
    BY <2>1, <2>5, <2>6 DEF EndsOf
  <2>8. QED
    BY <2>4, <2>5, <2>7
<1>7. ASSUME NEW key \in policyKeys, appliesTo[key] = type[a], ~passes(key, m),
             p \in EndsOf(a, key, on, Data)
      PROVE  p \in Joined(a)
  <2>1. finding[<<a, key>>].status \in Active /\ finding[<<a, key>>].exposed = on
    BY <1>5, <1>7
  <2>2. PICK e \in edgesOf(<<a, key>>, finding[<<a, key>>].exposed, Data) :
               p = <<e.source, e.target>>
    BY <1>7, <2>1 DEF EndsOf
  <2>3. e \in graph.edges
    BY <1>2, <1>4, <2>1, <2>2 DEF Drawn
  <2>4. e.finding = <<a, key>>
    <3> DEFINE f == <<a, key>>
    <3>1. /\ f \in Findings /\ finding[f].exposed \in BOOLEAN /\ Data \in SUBSET Assets
          /\ e \in edgesOf(f, finding[f].exposed, Data)
      BY <1>2, <2>2 DEF RowsTyped, FindingRow, Data, Present
    <3>2. f[2] = "aws_iam_policy_no_wildcard_admin" => f[1] \notin Data
      BY <1>7 DEF appliesTo, Data, dataAssetTypes
    <3> HIDE DEF f
    <3>3. e.finding = f
      BY <3>1, <3>2, EdgesJoin
    <3>4. QED
      BY <3>3 DEF f
  <2>5. QED
    BY <2>2, <2>3, <2>4 DEF Joined
<1>8. QED
  BY <1>6, <1>7

(* Type by type, those are the paths that the report implies.                *)
LEMMA PathsJoined ==
  ASSUME RowsTyped, NEW a \in Assets, asset[a].present, NEW S,
         \A p : p \in S <=>
           \E key \in policyKeys :
             /\ appliesTo[key] = type[a]
             /\ ~passes(key, asset[a].metadata)
             /\ p \in EndsOf(a, key, "publiclyAccessible" \in asset[a].metadata.flags, Data)
  PROVE  S = PathsOf(a)
<1> DEFINE m == asset[a].metadata
           on == "publiclyAccessible" \in m.flags
           Fails(key) == appliesTo[key] = type[a] /\ ~passes(key, m)
<1>0. /\ type[a] \in AwsResourceTypes
      /\ m.accessKeyAges \subseteq Int /\ m.secretEnvironment \in BOOLEAN
  <2>1. type[a] \in AwsResourceTypes /\ m \in Reports[type[a]]
    BY DEF RowsTyped
  <2>2. QED
    BY <2>1, PostureAssumption
<1>1. PathsOf(a) = {p \in {<<internetNode, a>>} : Reachable(a)}
                     \cup {p \in {<<a, d>> : d \in Data \cup {adminNode}} : Unrestricted(a)}
                     \cup {p \in {<<a, credentialNode>>} : Leaking(a)}
  BY DEF PathsOf, Data, Present
<1>2. /\ Reachable(a) <=> \/ Fails("aws_s3_bucket_public_access_prohibited")
                          \/ Fails("aws_s3_block_public_access_enabled")
                          \/ Fails("aws_security_group_no_world_open_admin_ports")
                          \/ Fails("aws_kms_key_not_public")
                          \/ Fails("aws_rds_instance_not_public_encrypted") /\ on
  BY DEF Reachable, passes, appliesTo
<1>3. Unrestricted(a) <=> Fails("aws_iam_policy_no_wildcard_admin")
  BY DEF Unrestricted, passes, appliesTo
<1>4. Leaking(a) <=> \/ Fails("aws_lambda_no_plaintext_secret_env")
                     \/ Fails("aws_iam_user_no_old_access_keys")
                     \/ Fails("aws_root_account_mfa_enabled")
  BY <1>0 DEF Leaking, passes, appliesTo, maxAgeDays
<1>5. policyKeys = {"aws_s3_bucket_public_access_prohibited", "aws_s3_block_public_access_enabled",
                    "aws_security_group_no_world_open_admin_ports", "aws_iam_policy_no_wildcard_admin",
                    "aws_iam_user_no_old_access_keys", "aws_root_account_mfa_enabled",
                    "aws_cloudtrail_enabled", "aws_rds_instance_not_public_encrypted",
                    "aws_lambda_no_plaintext_secret_env", "aws_ecr_no_critical_cves",
                    "aws_kms_key_not_public"}
  BY DEF policyKeys, appliesTo
<1>6. on \in BOOLEAN /\ \A p : p \in S <=> \E key \in policyKeys : Fails(key) /\ p \in EndsOf(a, key, on, Data)
  OBVIOUS
<1> HIDE DEF Fails, on
<1>7. \A p : p \in S <=>
        \/ p = <<internetNode, a>> /\ Reachable(a)
        \/ p \in {<<a, d>> : d \in Data \cup {adminNode}} /\ Unrestricted(a)
        \/ p = <<a, credentialNode>> /\ Leaking(a)
  BY <1>2, <1>3, <1>4, <1>5, <1>6, Ends
<1>8. QED
  BY <1>1, <1>7

(* THEOREM 3.  Whatever was reported, deleted and found again before: the    *)
(* graph shows for an asset the paths that the last report of it implies,    *)
(* and none if it is gone; triage aside.                                     *)
THEOREM PathsAreOfTheLastReport == Spec => []PathsTellReports
<1>1. RowsTyped /\ Drawn /\ Told => PathsTellReports
  <2> SUFFICES ASSUME RowsTyped, Drawn, Told, NEW a \in Assets,
                      triaged \cap ({a} \X policyKeys) = {}
               PROVE  Joined(a) = PathsOf(a)
    BY DEF PathsTellReports, Joined
  <2>1. CASE asset[a].present
    BY <2>1, JoinedIs, PathsJoined
  <2>2. CASE ~asset[a].present
    BY <2>2, JoinedIs DEF PathsOf
  <2>3. QED
    BY <2>1, <2>2
<1>2. QED
  BY <1>1, RowsInit, RowsStep, GraphInit, GraphStep, ToldInit, ToldStep, PTL DEF Spec

-----------------------------------------------------------------------------
(* A finding is mapped to the control of its policy as soon as it is there.  *)
Mapped ==
  \A f \in Findings :
    finding[f].controls = IF finding[f].status = None THEN {} ELSE {controlOfPolicy[f[2]]}

LEMMA MappedInit == Init => Mapped
BY DEF Init, Mapped, NoFinding

LEMMA MappedStep ==
  ASSUME RowsTyped, Mapped, [Next]_vars
  PROVE  Mapped'
<1>1. ASSUME NEW account, NEW found, NEW report,
             Reported(account, found, report), Scan(account, found, report)
      PROVE  Mapped'
  <2> SUFFICES ASSUME NEW f \in Findings
               PROVE  finding'[f].controls =
                        IF finding'[f].status = None THEN {} ELSE {controlOfPolicy[f[2]]}
    BY DEF Mapped
  <2>1. \/ finding'[f] = finding[f]
        \/ finding'[f] = Passed(finding[f])
        \/ finding'[f] = Failed(finding[f], f[2], report[f[1]])
    <3>1. finding' = Result(found, report)
      BY <1>1, ScanIs
    <3>2. QED
      BY <3>1 DEF Result
  <2>2. finding[f] \in FindingRow /\ f[2] \in policyKeys
    BY DEF RowsTyped, Findings
  <2>3. CASE finding'[f] = finding[f]
    BY <2>3 DEF Mapped
  <2>4. CASE finding'[f] = Passed(finding[f])
    BY <2>2, <2>4 DEF Mapped, Passed, FindingRow, Active, None
  <2>5. CASE finding'[f] = Failed(finding[f], f[2], report[f[1]])
    <3>1. finding'[f].status # None
      BY <2>5 DEF Failed, Active, None
    <3>2. finding'[f].controls = complianceMappingsForPolicy(f[2])
      BY <2>5 DEF Failed
    <3>3. QED
      BY <2>2, <3>1, <3>2 DEF complianceMappingsForPolicy
  <2>6. QED
    BY <2>1, <2>3, <2>4, <2>5
<1>2. ASSUME NEW f \in Findings, NEW status \in Triages, Triage(f, status)
      PROVE  Mapped'
  <2>1. status # None
    BY PostureAssumption DEF Statuses, Active, None
  <2>2. \A g \in Findings : /\ finding'[g].controls = finding[g].controls
                            /\ g # f => finding'[g] = finding[g]
    BY <1>2 DEF Triage, RowsTyped, FindingRow
  <2>3. finding'[f].status # None /\ finding[f].status # None
    BY <1>2, <2>1 DEF Triage, RowsTyped, FindingRow
  <2>4. QED
    BY <2>2, <2>3 DEF Mapped
<1>3. CASE UNCHANGED vars
  BY <1>3 DEF vars, Mapped
<1>4. QED
  BY <1>1, <1>2, <1>3, NextIs

(* No two policies have the same control.                                    *)
LEMMA OwnControl ==
  ASSUME NEW key \in policyKeys, NEW other \in policyKeys,
         controlOfPolicy[key] = controlOfPolicy[other]
  PROVE  key = other
BY DEF policyKeys, appliesTo, controlOfPolicy

(* As many pairs of assets and a policy as assets.                           *)
LEMMA PairedWith ==
  ASSUME NEW S \in SUBSET Assets, NEW key
  PROVE  Cardinality({<<a, key>> : a \in S}) = Cardinality(S)
<1> DEFINE T     == {<<a, key>> : a \in S}
           pair  == [a \in S |-> <<a, key>>]
<1>1. IsFiniteSet(S)
  BY PostureAssumption, FS_Subset
<1>2. pair \in Bijection(S, T)
  BY DEF Bijection, Injection, Surjection, IsInjective
<1>3. ExistsBijection(S, T)
  BY <1>2 DEF ExistsBijection
<1>4. QED
  BY <1>1, <1>3, FS_Bijection

(* THEOREM 4.  A control counts the assets ever seen that violated its       *)
(* policy when they were evaluated last; triage aside.                       *)
THEOREM ControlsCountTheLastReports == Spec => []ControlsTellReports
<1>1. RowsTyped /\ Told /\ Mapped => ControlsTellReports
  <2> SUFFICES ASSUME RowsTyped, Told, Mapped, NEW key \in policyKeys,
                      triaged \cap (Assets \X {key}) = {}
               PROVE  openFindingCount(controlOfPolicy[key]) =
                        Cardinality({a \in Assets : /\ asset[a].metadata # NoReport
                                                    /\ policyAppliesToAsset(key, type[a])
                                                    /\ ~passes(key, asset[a].metadata)})
    BY DEF ControlsTellReports
  <2> DEFINE S == {a \in Assets : /\ asset[a].metadata # NoReport
                                  /\ policyAppliesToAsset(key, type[a])
                                  /\ ~passes(key, asset[a].metadata)}
             open == {f \in mappings(controlOfPolicy[key]) : finding[f].status # "RESOLVED"}
  <2>1. \A f \in Findings :
          f \in open <=> f[2] = key /\ finding[f].status \in Active
    <3> SUFFICES ASSUME NEW f \in Findings
                 PROVE  f \in open <=> f[2] = key /\ finding[f].status \in Active
      OBVIOUS
    <3>1. f[2] \in policyKeys /\ finding[f].status \in Active \cup {"RESOLVED", None}
      BY DEF Findings, RowsTyped, FindingRow, Statuses
    <3>2. "RESOLVED" \notin Active /\ None \notin Active /\ None # "RESOLVED"
      BY DEF Active, None
    <3>3. controlOfPolicy[key] \in finding[f].controls <=> finding[f].status # None /\ f[2] = key
      BY <3>1, OwnControl DEF Mapped
    <3>4. QED
      BY <3>1, <3>2, <3>3 DEF mappings
  <2>2. ASSUME NEW a \in Assets
        PROVE  finding[<<a, key>>].status \in Active <=> a \in S
    <3> DEFINE f == <<a, key>>
    <3>1. f \in Findings \ triaged /\ f[1] = a /\ f[2] = key
      BY DEF Findings
    <3> HIDE DEF f
    <3>2. CASE policyAppliesToAsset(key, type[a])
      BY <3>1, <3>2 DEF Told, Active, None, f
    <3>3. CASE ~policyAppliesToAsset(key, type[a])
      BY <3>1, <3>3 DEF RowsTyped, OnlyApplicable, Active, None, f
    <3>4. QED
      BY <3>2, <3>3
  <2>3. open = {<<a, key>> : a \in S}
    <3>1. open \subseteq Findings
      BY DEF mappings
    <3>2. \A a \in Assets : <<a, key>> \in Findings
      BY DEF Findings
    <3>3. \A f \in Findings : f[2] = key => f[1] \in Assets /\ f = <<f[1], key>>
      BY DEF Findings
    <3> HIDE DEF open, S
    <3>4. S \subseteq Assets
      BY DEF S
    <3>5. QED
      BY <2>1, <2>2, <3>1, <3>2, <3>3, <3>4
  <2>4. openFindingCount(controlOfPolicy[key]) = Cardinality(open)
    BY DEF openFindingCount
  <2>5. QED
    BY <2>3, <2>4, PairedWith
<1>2. QED
  BY <1>1, RowsInit, RowsStep, ToldInit, ToldStep, MappedInit, MappedStep, PTL DEF Spec

=============================================================================
