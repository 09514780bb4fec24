------------------------ MODULE ScanCompletionProofs ------------------------
(***************************************************************************)
(* Proofs about ScanCompletion, for every set of assets, policies and      *)
(* accounts, and however many people ask for guidance.                     *)
(***************************************************************************)
EXTENDS ScanCompletion, TLAPS

(* The row of the completion in progress.                                    *)
TxRow ==
  [at : Places, account : SUBSET Accounts, verdict : [Findings -> Verdicts], todo : SUBSET Findings,
   key : SUBSET Findings, seen : Statuses, wrote : SUBSET Findings,
   asset : [Assets -> AssetStates], finding : [Findings -> Finding],
   purged : SUBSET Guidance, graph : Graph,
   overtaken : SUBSET Findings, since : SUBSET Findings]

(* A completion evaluates a finding at most once, and only the finding it is *)
(* about to write has been read; between completions there is nothing.       *)
Shape ==
  /\ tx.todo \cap tx.wrote = {}
  /\ tx.at = "idle" => tx.wrote = {} /\ tx.since = {}
  /\ tx.at # "write" => tx.key = {}
  /\ \A f \in Findings :
       /\ f \in tx.todo \cup tx.wrote => tx.verdict[f] # "skip"
       /\ tx.key = {f} => f \in tx.todo /\ tx.verdict[f] = "fail"
  /\ tx.at = "commit" => tx.todo = {}
  /\ tx.at # "commit" => tx.since = {}

(* What has been evaluated stands as its verdict says, triage aside.         *)
VerdictKept ==
  tx.at # "idle" => \A f \in Findings \ tx.todo :
    /\ tx.verdict[f] = "fail" => f \in tx.wrote /\ tx.finding[f].status \in Active
    /\ tx.verdict[f] = "pass" /\ f \in tx.wrote => tx.finding[f].status = "RESOLVED"
    /\ tx.verdict[f] = "pass" /\ f \notin tx.wrote /\ f \notin since
         => finding[f].status \notin Active

(* A finding read, and not triaged since, is as it was read.                 *)
TriageKept ==
  /\ TriageStands
  /\ \A f \in Findings \ tx.overtaken : tx.key = {f} => tx.seen = finding[f].status

(* Guidance on an evaluation that is outdated, or will be with the commit,   *)
(* is late or will be deleted.                                               *)
LateIfOld(g) == g.old \/ g.finding \in Rewritten => g.late

GuidanceKept ==
  /\ \A g \in ai : g.old => g.late
  /\ \A g \in ai \ tx.purged : LateIfOld(g)
  /\ \A p \in Askers : \A g \in asked[p] : LateIfOld(g)

(* The graph built is true of the rows that the commit will publish.         *)
GraphKept ==
  /\ GraphShowsActive
  /\ tx.at = "commit" =>
       /\ tx.graph.nodes = {a \in Assets : tx.asset[a] = "present"}
       /\ \A f \in Findings \ tx.since :
            f \in tx.graph.findings <=> Visible(f).status \in Active /\ f[1] \in tx.graph.nodes

(* The completion changes assets of its account only.                        *)
AccountKept ==
  tx.at # "idle" => \A a \in Assets : tx.asset[a] # asset[a] => AccountOf[a] \in tx.account

-----------------------------------------------------------------------------
(* The actions, one by one.                                                  *)
LEMMA NextIs ==
  ASSUME [Next]_vars
  PROVE  \/ \E account \in Accounts, found \in SUBSET Assets, verdict \in [Findings -> Verdicts] :
              /\ \A a \in found : AccountOf[a] = account
              /\ Begin(account, found, verdict)
         \/ \E f \in Findings : Pass(f)
         \/ \E f \in Findings : ReadFinding(f)
         \/ \E f \in Findings : WriteFinding(f)
         \/ BuildGraph
         \/ Commit
         \/ Rollback
         \/ \E f \in Findings, status \in Triages : Triage(f, status)
         \/ \E p \in Askers, f \in Explained : AskForGuidance(p, f)
         \/ \E p \in Askers : ProviderAnswers(p)
         \/ \E p \in Askers : ProviderFails(p)
         \/ UNCHANGED vars
BY DEF Next

LEMMA TxTyped ==
  TypeOK <=> /\ asset \in [Assets -> AssetStates]
             /\ finding \in [Findings -> Finding]
             /\ asked \in [Askers -> SUBSET Guidance]
             /\ ai \subseteq Guidance
             /\ graph \in Graph
             /\ since \subseteq Findings
             /\ tx \in TxRow
             /\ tx.at = "write" <=> \E f \in tx.todo : tx.key = {f}
BY DEF TypeOK, TxRow

(* No completion is in progress.                                             *)
LEMMA NoTxTyped ==
  /\ NoTx \in TxRow
  /\ NoTx.at = "idle" /\ NoTx.key = {} /\ NoTx.todo = {} /\ NoTx.wrote = {} /\ NoTx.purged = {}
  /\ NoTx.since = {} /\ NoTx.overtaken = {} /\ NoTx.account = {} /\ \A f \in Findings : NoTx.verdict[f] = "skip"
<1>1. [a \in Assets |-> "unknown"] \in [Assets -> AssetStates]
  BY DEF AssetStates
<1>2. [f \in Findings |-> Absent] \in [Findings -> Finding]
  BY DEF Absent, Finding, Statuses
<1>3. [f \in Findings |-> "skip"] \in [Findings -> Verdicts]
  BY DEF Verdicts
<1>4. NoGraph \in Graph
  BY DEF NoGraph, Graph
<1>5. "idle" \in Places /\ "NONE" \in Statuses
  BY DEF Places, Statuses
<1>6. QED
  BY <1>1, <1>2, <1>3, <1>4, <1>5 DEF NoTx, TxRow

LEMMA InitTyped == Init => TypeOK
<1> SUFFICES ASSUME Init PROVE TypeOK
  OBVIOUS
<1>1. finding \in [Findings -> Finding]
  BY DEF Init, Absent, Finding, Statuses
<1>2. graph \in Graph
  BY DEF Init, NoGraph, Graph
<1>3. tx \in TxRow /\ tx.at # "write" /\ tx.todo = {}
  BY NoTxTyped DEF Init
<1>4. asset \in [Assets -> AssetStates] /\ asked \in [Askers -> SUBSET Guidance]
  BY DEF Init, AssetStates
<1>5. QED
  BY <1>1, <1>2, <1>3, <1>4, TxTyped DEF Init

(* Every action keeps the rows in their types.                               *)
LEMMA TypeStep ==
  ASSUME TypeOK, [Next]_vars
  PROVE  TypeOK'
<1>0. /\ asset \in [Assets -> AssetStates] /\ finding \in [Findings -> Finding]
      /\ asked \in [Askers -> SUBSET Guidance] /\ ai \subseteq Guidance
      /\ graph \in Graph /\ since \subseteq Findings /\ tx \in TxRow
      /\ (tx.at = "write" <=> \E f \in tx.todo : tx.key = {f})
  BY TxTyped
<1>t. SUFFICES /\ asset' \in [Assets -> AssetStates] /\ finding' \in [Findings -> Finding]
               /\ asked' \in [Askers -> SUBSET Guidance] /\ ai' \subseteq Guidance
               /\ graph' \in Graph /\ since' \subseteq Findings /\ tx' \in TxRow
               /\ (tx'.at = "write" <=> \E f \in tx'.todo : tx'.key = {f})
  BY DEF TypeOK, TxRow
<1>v. \A f \in Findings : Visible(f) \in Finding
  BY <1>0 DEF Visible, TxRow
<1>1. ASSUME NEW account \in Accounts, NEW found \in SUBSET Assets,
             NEW verdict \in [Findings -> Verdicts], Begin(account, found, verdict)
      PROVE  /\ tx' \in TxRow /\ tx'.at = "evaluate" /\ tx'.key = {}
             /\ UNCHANGED <<asset, finding, asked, ai, graph, since>>
  <2>1. AssetsAfter(account, found) \in [Assets -> AssetStates]
    BY <1>0 DEF AssetsAfter, AssetStates
  <2>2. "evaluate" \in Places /\ {account} \in SUBSET Accounts
        /\ {f \in Findings : verdict[f] # "skip"} \in SUBSET Findings
    BY DEF Places
  <2>3. QED
    BY <1>1, <2>1, <2>2, NoTxTyped DEF Begin, TxRow
<1>2. ASSUME NEW f \in Findings, Pass(f)
      PROVE  /\ tx' \in TxRow /\ tx'.at = tx.at /\ tx'.key = tx.key /\ tx.at = "evaluate"
             /\ tx'.todo \subseteq tx.todo
             /\ UNCHANGED <<asset, finding, asked, ai, graph, since>>
  <2>1. [status |-> "RESOLVED", resolvedAt |-> TRUE] \in Finding
    BY DEF Finding, Statuses
  <2>2. CASE Visible(f).status \in Active
    BY <1>0, <1>2, <2>1, <2>2 DEF Pass, TxRow
  <2>3. CASE Visible(f).status \notin Active
    BY <1>0, <1>2, <2>3 DEF Pass, TxRow
  <2>4. QED
    BY <2>2, <2>3
<1>3. ASSUME NEW f \in Findings, ReadFinding(f)
      PROVE  /\ tx' \in TxRow /\ tx'.at = "write" /\ tx'.key = {f} /\ f \in tx'.todo
             /\ UNCHANGED <<asset, finding, asked, ai, graph, since>>
  <2>1. "write" \in Places /\ Visible(f).status \in Statuses
    BY <1>v DEF Places, Finding
  <2>2. QED
    BY <1>0, <1>3, <2>1 DEF ReadFinding, TxRow
<1>4. ASSUME NEW f \in Findings, WriteFinding(f)
      PROVE  /\ tx' \in TxRow /\ tx'.at = "evaluate" /\ tx'.key = {}
             /\ asked' \in [Askers -> SUBSET Guidance]
             /\ UNCHANGED <<asset, finding, ai, graph, since>>
  <2>1. Failing(f, tx.seen) \in Finding
    BY <1>0 DEF Failing, Finding, Statuses, TxRow, Active
  <2>2. Purged(f) \in SUBSET Guidance /\ "evaluate" \in Places /\ "NONE" \in Statuses
    BY <1>0 DEF Purged, Places, Statuses
  <2>3. asked' \in [Askers -> SUBSET Guidance]
    <3>1. \A g \in Guidance : [g EXCEPT !.late = @ \/ g.finding = f] \in Guidance
      BY DEF Guidance
    <3>2. QED
      BY <1>0, <1>4, <3>1 DEF WriteFinding
  <2>4. QED
    BY <1>0, <1>4, <2>1, <2>2, <2>3 DEF WriteFinding, TxRow
<1>5. CASE BuildGraph
  <2>1. GraphOf \in Graph /\ "commit" \in Places
    BY DEF GraphOf, Graph, Places
  <2>2. QED
    BY <1>0, <1>5, <2>1 DEF BuildGraph, TxRow
<1>6. CASE Commit
  <2>1. \A g \in Guidance : [g EXCEPT !.old = @ \/ g.finding \in Rewritten] \in Guidance
    BY DEF Guidance
  <2>2. \A gs \in SUBSET Guidance : Outdated(gs) \in SUBSET Guidance
    BY <2>1 DEF Outdated
  <2>3. asked' \in [Askers -> SUBSET Guidance] /\ ai' \subseteq Guidance
    BY <1>0, <1>6, <2>2 DEF Commit
  <2>4. /\ tx.asset \in [Assets -> AssetStates] /\ tx.graph \in Graph
        /\ tx.since \subseteq Findings
    BY <1>0 DEF TxRow
  <2>5. QED
    BY <1>6, <1>v, <2>3, <2>4, NoTxTyped DEF Commit
<1>7. CASE Rollback
  BY <1>0, <1>7, NoTxTyped DEF Rollback
<1>8. ASSUME NEW f \in Findings, NEW status \in Triages, Triage(f, status)
      PROVE  /\ tx' \in TxRow /\ tx'.at = tx.at /\ tx'.key = tx.key /\ tx'.todo = tx.todo
             /\ finding' \in [Findings -> Finding] /\ since' \subseteq Findings
             /\ UNCHANGED <<asset, asked, ai, graph>>
  <2>1. Triaged(f, status) \in Finding
    BY CompletionAssumption DEF Triaged, Finding, Statuses
  <2>2. /\ tx.overtaken \cup {f} \in SUBSET Findings /\ tx.since \cup {f} \in SUBSET Findings
        /\ tx.overtaken \in SUBSET Findings /\ tx.since \in SUBSET Findings
    BY <1>0 DEF TxRow
  <2> DEFINE over == IF LookedAt(f) THEN tx.overtaken \cup {f} ELSE tx.overtaken
             sin  == IF tx.at = "commit" THEN tx.since \cup {f} ELSE tx.since
  <2>3. tx' = [tx EXCEPT !.overtaken = over, !.since = sin]
    BY <1>8 DEF Triage
  <2>4. over \in SUBSET Findings /\ sin \in SUBSET Findings
    BY <2>2
  <2> HIDE DEF over, sin
  <2>5. tx' \in TxRow /\ tx'.at = tx.at /\ tx'.key = tx.key /\ tx'.todo = tx.todo
    BY <1>0, <2>3, <2>4 DEF TxRow
  <2>6. QED
    BY <1>0, <1>8, <2>1, <2>5 DEF Triage
<1>9. ASSUME NEW p \in Askers, NEW f \in Explained, AskForGuidance(p, f)
      PROVE  /\ asked' \in [Askers -> SUBSET Guidance]
             /\ UNCHANGED <<asset, finding, ai, graph, tx, since>>
  <2>1. [finding |-> f, old |-> FALSE, late |-> f \in Rewritten] \in Guidance
    BY DEF Guidance
  <2>2. QED
    BY <1>0, <1>9, <2>1 DEF AskForGuidance
<1>10. ASSUME NEW p \in Askers, ProviderAnswers(p)
       PROVE  /\ asked' \in [Askers -> SUBSET Guidance] /\ ai' \subseteq Guidance
              /\ tx' \in TxRow /\ tx'.at = tx.at /\ tx'.key = tx.key /\ tx'.todo = tx.todo
              /\ UNCHANGED <<asset, finding, graph, since>>
  BY <1>0, <1>10 DEF ProviderAnswers, TxRow
<1>11. ASSUME NEW p \in Askers, ProviderFails(p)
       PROVE  /\ asked' \in [Askers -> SUBSET Guidance]
              /\ UNCHANGED <<asset, finding, ai, graph, tx, since>>
  BY <1>0, <1>11 DEF ProviderFails
<1>12. CASE UNCHANGED vars
  BY <1>0, <1>12 DEF vars
<1>13. QED
  BY <1>0, <1>1, <1>2, <1>3, <1>4, <1>5, <1>6, <1>7, <1>8, <1>9, <1>10, <1>11, <1>12, NextIs
-----------------------------------------------------------------------------
(* What the completion has read and written fits its place.                  *)
LEMMA ShapeStep ==
  ASSUME TypeOK, Shape, [Next]_vars
  PROVE  Shape'
<1>0. tx \in TxRow
  BY TxTyped
<1>1. ASSUME NEW account \in Accounts, NEW found \in SUBSET Assets,
             NEW verdict \in [Findings -> Verdicts],
             \A a \in found : AccountOf[a] = account, Begin(account, found, verdict)
      PROVE  Shape'
  BY <1>1, NoTxTyped DEF Begin, Shape, NoTx
<1>2. ASSUME NEW f \in Findings, Pass(f)
      PROVE  Shape'
  BY <1>0, <1>2 DEF Pass, Shape, TxRow
<1>3. ASSUME NEW f \in Findings, ReadFinding(f)
      PROVE  Shape'
  BY <1>0, <1>3 DEF ReadFinding, Shape, TxRow
<1>4. ASSUME NEW f \in Findings, WriteFinding(f)
      PROVE  Shape'
  BY <1>0, <1>4 DEF WriteFinding, Shape, TxRow
<1>5. CASE BuildGraph
  BY <1>0, <1>5 DEF BuildGraph, Shape, TxRow
<1>6. CASE Commit
  BY <1>6, NoTxTyped DEF Commit, Shape
<1>7. CASE Rollback
  BY <1>7, NoTxTyped DEF Rollback, Shape
<1>8. ASSUME NEW f \in Findings, NEW status \in Triages, Triage(f, status)
      PROVE  Shape'
  BY <1>0, <1>8 DEF Triage, Shape, TxRow
<1>9. ASSUME NEW p \in Askers, NEW f \in Explained, AskForGuidance(p, f)
      PROVE  Shape'
  BY <1>0, <1>9 DEF AskForGuidance, Shape, TxRow
<1>10. ASSUME NEW p \in Askers, ProviderAnswers(p)
       PROVE  Shape'
  BY <1>0, <1>10 DEF ProviderAnswers, Shape, TxRow
<1>11. ASSUME NEW p \in Askers, ProviderFails(p)
       PROVE  Shape'
  BY <1>0, <1>11 DEF ProviderFails, Shape, TxRow
<1>12. CASE UNCHANGED vars
  BY <1>0, <1>12 DEF vars, Shape, TxRow
<1>13. QED
  BY <1>1, <1>2, <1>3, <1>4, <1>5, <1>6, <1>7, <1>8, <1>9, <1>10, <1>11, <1>12, NextIs

(* Verdicts, once evaluated, are kept.                                       *)
LEMMA VerdictStep ==
  ASSUME TypeOK, Shape, VerdictKept, [Next]_vars
  PROVE  VerdictKept'
<1>0. /\ tx \in TxRow /\ finding \in [Findings -> Finding]
      /\ asset \in [Assets -> AssetStates] /\ asked \in [Askers -> SUBSET Guidance]
      /\ ai \subseteq Guidance
  BY TxTyped
<1>1. ASSUME NEW account \in Accounts, NEW found \in SUBSET Assets,
             NEW verdict \in [Findings -> Verdicts],
             \A a \in found : AccountOf[a] = account, Begin(account, found, verdict)
      PROVE  VerdictKept'
  BY <1>0, <1>1 DEF Begin, VerdictKept, TxRow, Shape
<1>2. ASSUME NEW f \in Findings, Pass(f)
      PROVE  VerdictKept'
  <2>1. /\ tx'.verdict = tx.verdict /\ tx'.at = "evaluate" /\ tx.at = "evaluate"
        /\ tx'.todo = tx.todo \ {f} /\ f \in tx.todo /\ f \notin tx.wrote
        /\ tx.verdict[f] = "pass" /\ finding' = finding /\ since' = since
    BY <1>0, <1>2 DEF Pass, TxRow, Shape
  <2>2. CASE Visible(f).status \in Active
    <3>1. /\ tx'.wrote = tx.wrote \cup {f}
          /\ tx'.finding = [tx.finding EXCEPT ![f] = [status |-> "RESOLVED", resolvedAt |-> TRUE]]
      BY <1>0, <1>2, <2>2 DEF Pass, TxRow
    <3>2. tx.finding \in [Findings -> Finding]
      BY <1>0 DEF TxRow
    <3>3. QED
      BY <2>1, <3>1, <3>2 DEF VerdictKept
  <2>3. CASE Visible(f).status \notin Active
    <3>1. tx'.wrote = tx.wrote /\ tx'.finding = tx.finding
      BY <1>0, <1>2, <2>3 DEF Pass, TxRow
    <3>2. finding[f].status \notin Active
      BY <2>1, <2>3 DEF Visible
    <3>3. QED
      BY <2>1, <3>1, <3>2 DEF VerdictKept
  <2>4. QED
    BY <2>2, <2>3
<1>3. ASSUME NEW f \in Findings, ReadFinding(f)
      PROVE  VerdictKept'
  BY <1>0, <1>3 DEF ReadFinding, VerdictKept, TxRow, Shape
<1>4. ASSUME NEW f \in Findings, WriteFinding(f)
      PROVE  VerdictKept'
  <2>1. /\ tx'.verdict = tx.verdict /\ tx.at # "idle" /\ tx'.todo = tx.todo \ {f}
        /\ tx'.wrote = tx.wrote \cup {f} /\ tx'.finding = [tx.finding EXCEPT ![f] = Failing(f, tx.seen)]
        /\ finding' = finding /\ since' = since
    BY <1>0, <1>4 DEF WriteFinding, TxRow
  <2>2. tx.verdict[f] = "fail" /\ tx.finding \in [Findings -> Finding]
    BY <1>0, <1>4 DEF WriteFinding, Shape, TxRow
  <2>3. Failing(f, tx.seen).status \in Active
    BY DEF Failing, Active
  <2>4. QED
    BY <2>1, <2>2, <2>3 DEF VerdictKept
<1>5. CASE BuildGraph
  BY <1>0, <1>5 DEF BuildGraph, VerdictKept, TxRow, Shape
<1>6. CASE Commit
  BY <1>6, NoTxTyped DEF Commit, VerdictKept
<1>7. CASE Rollback
  BY <1>7, NoTxTyped DEF Rollback, VerdictKept
<1>8. ASSUME NEW f \in Findings, NEW status \in Triages, Triage(f, status)
      PROVE  VerdictKept'
  BY <1>0, <1>8 DEF Triage, VerdictKept, TxRow, Shape
<1>9. ASSUME NEW p \in Askers, NEW f \in Explained, AskForGuidance(p, f)
      PROVE  VerdictKept'
  BY <1>0, <1>9 DEF AskForGuidance, VerdictKept, TxRow, Shape
<1>10. ASSUME NEW p \in Askers, ProviderAnswers(p)
       PROVE  VerdictKept'
  BY <1>0, <1>10 DEF ProviderAnswers, VerdictKept, TxRow, Shape
<1>11. ASSUME NEW p \in Askers, ProviderFails(p)
       PROVE  VerdictKept'
  BY <1>0, <1>11 DEF ProviderFails, VerdictKept, TxRow, Shape
<1>12. CASE UNCHANGED vars
  BY <1>0, <1>12 DEF vars, VerdictKept, TxRow, Shape
<1>13. QED
  BY <1>1, <1>2, <1>3, <1>4, <1>5, <1>6, <1>7, <1>8, <1>9, <1>10, <1>11, <1>12, NextIs

(* A finding read is as it was, or overtaken.                                *)
LEMMA TriageStep ==
  ASSUME TypeOK, Shape, TriageKept, [Next]_vars
  PROVE  TriageKept'
<1>0. /\ tx \in TxRow /\ finding \in [Findings -> Finding]
      /\ asset \in [Assets -> AssetStates] /\ asked \in [Askers -> SUBSET Guidance]
      /\ ai \subseteq Guidance
  BY TxTyped
<1>1. ASSUME NEW account \in Accounts, NEW found \in SUBSET Assets,
             NEW verdict \in [Findings -> Verdicts],
             \A a \in found : AccountOf[a] = account, Begin(account, found, verdict)
      PROVE  TriageKept'
  <2>1. tx'.wrote = {} /\ tx'.key = {}
    BY <1>1, NoTxTyped DEF Begin, NoTx
  <2>2. QED
    BY <2>1 DEF TriageKept, TriageStands
<1>2. ASSUME NEW f \in Findings, Pass(f)
      PROVE  TriageKept'
  BY <1>0, <1>2 DEF Pass, TriageKept, TriageStands, TxRow, Shape
<1>3. ASSUME NEW f \in Findings, ReadFinding(f)
      PROVE  TriageKept'
  <2>1. /\ tx'.key = {f} /\ tx'.seen = Visible(f).status /\ f \in tx.todo
        /\ tx'.wrote = tx.wrote /\ tx'.verdict = tx.verdict /\ tx'.finding = tx.finding
        /\ tx'.overtaken = tx.overtaken /\ finding' = finding
    BY <1>0, <1>3 DEF ReadFinding, TxRow
  <2>2. Visible(f) = finding[f]
    BY <2>1 DEF Visible, Shape
  <2>3. QED
    BY <2>1, <2>2 DEF TriageKept, TriageStands
<1>4. ASSUME NEW f \in Findings, WriteFinding(f)
      PROVE  TriageKept'
  <2>1. /\ tx.key = {f} /\ tx'.key = {} /\ tx'.wrote = tx.wrote \cup {f}
        /\ tx'.verdict = tx.verdict /\ tx'.overtaken = tx.overtaken /\ finding' = finding
        /\ tx'.finding = [tx.finding EXCEPT ![f] = Failing(f, tx.seen)]
        /\ tx.finding \in [Findings -> Finding] /\ f \notin tx.wrote
    BY <1>0, <1>4 DEF WriteFinding, TxRow, Shape
  <2>2. f \notin tx.overtaken /\ finding[f].status \in Active
          => Failing(f, tx.seen).status = finding[f].status
    BY <2>1 DEF Failing, TriageKept
  <2>3. QED
    BY <2>1, <2>2 DEF TriageKept, TriageStands
<1>5. CASE BuildGraph
  BY <1>0, <1>5 DEF BuildGraph, TriageKept, TriageStands, TxRow, Shape
<1>6. CASE Commit
  BY <1>6, NoTxTyped DEF Commit, TriageKept, TriageStands
<1>7. CASE Rollback
  BY <1>7, NoTxTyped DEF Rollback, TriageKept, TriageStands
<1>8. ASSUME NEW f \in Findings, NEW status \in Triages, Triage(f, status)
      PROVE  TriageKept'
  <2>1. /\ tx'.wrote = tx.wrote /\ tx'.verdict = tx.verdict /\ tx'.finding = tx.finding
        /\ tx'.key = tx.key /\ tx'.seen = tx.seen
        /\ f \notin tx.wrote /\ tx.wrote \subseteq Findings
        /\ tx'.overtaken = IF LookedAt(f) THEN tx.overtaken \cup {f} ELSE tx.overtaken
        /\ \A g \in Findings : g # f => finding'[g] = finding[g]
    BY <1>0, <1>8 DEF Triage, TxRow
  <2>2. tx.key = {f} => LookedAt(f)
    BY DEF LookedAt
  <2>3. TriageStands'
    BY <2>1 DEF TriageKept, TriageStands
  <2>4. ASSUME NEW g \in Findings, g \notin tx'.overtaken, tx'.key = {g}
        PROVE  tx'.seen = finding'[g].status
    BY <2>1, <2>2, <2>4 DEF TriageKept
  <2>5. QED
    BY <2>3, <2>4 DEF TriageKept
<1>9. ASSUME NEW p \in Askers, NEW f \in Explained, AskForGuidance(p, f)
      PROVE  TriageKept'
  BY <1>0, <1>9 DEF AskForGuidance, TriageKept, TriageStands, TxRow, Shape
<1>10. ASSUME NEW p \in Askers, ProviderAnswers(p)
       PROVE  TriageKept'
  BY <1>0, <1>10 DEF ProviderAnswers, TriageKept, TriageStands, TxRow, Shape
<1>11. ASSUME NEW p \in Askers, ProviderFails(p)
       PROVE  TriageKept'
  BY <1>0, <1>11 DEF ProviderFails, TriageKept, TriageStands, TxRow, Shape
<1>12. CASE UNCHANGED vars
  BY <1>0, <1>12 DEF vars, TriageKept, TriageStands, TxRow, Shape
<1>13. QED
  BY <1>1, <1>2, <1>3, <1>4, <1>5, <1>6, <1>7, <1>8, <1>9, <1>10, <1>11, <1>12, NextIs

(* Guidance is late if it is old.                                            *)
LEMMA GuidanceStep ==
  ASSUME TypeOK, Shape, GuidanceKept, [Next]_vars
  PROVE  GuidanceKept'
<1>0. /\ tx \in TxRow /\ finding \in [Findings -> Finding]
      /\ asset \in [Assets -> AssetStates] /\ asked \in [Askers -> SUBSET Guidance]
      /\ ai \subseteq Guidance
  BY TxTyped
<1>1. ASSUME NEW account \in Accounts, NEW found \in SUBSET Assets,
             NEW verdict \in [Findings -> Verdicts],
             \A a \in found : AccountOf[a] = account, Begin(account, found, verdict)
      PROVE  GuidanceKept'
  <2>1. /\ tx'.wrote = {} /\ tx'.purged = {} /\ ai' = ai /\ asked' = asked /\ tx.wrote = {}
    BY <1>1, NoTxTyped DEF Begin, NoTx, Shape
  <2>2. QED
    BY <2>1 DEF GuidanceKept, LateIfOld, Rewritten
<1>2. ASSUME NEW f \in Findings, Pass(f)
      PROVE  GuidanceKept'
  BY <1>0, <1>2 DEF Pass, GuidanceKept, LateIfOld, Rewritten, TxRow, Shape, Guidance
<1>3. ASSUME NEW f \in Findings, ReadFinding(f)
      PROVE  GuidanceKept'
  BY <1>0, <1>3 DEF ReadFinding, GuidanceKept, LateIfOld, Rewritten, TxRow, Shape, Guidance
<1>4. ASSUME NEW f \in Findings, WriteFinding(f)
      PROVE  GuidanceKept'
  <2>1. /\ tx'.wrote = tx.wrote \cup {f} /\ tx'.verdict = tx.verdict
        /\ tx'.purged = tx.purged \cup {g \in ai : g.finding = f} /\ ai' = ai
    BY <1>0, <1>4 DEF WriteFinding, TxRow, Purged
  <2>2. Rewritten' \subseteq Rewritten \cup {f}
    BY <2>1 DEF Rewritten
  <2>3. \A g \in ai' \ tx'.purged : LateIfOld(g)'
    BY <2>1, <2>2 DEF GuidanceKept, LateIfOld
  <2>4. ASSUME NEW p \in Askers, NEW g \in asked'[p]
        PROVE  LateIfOld(g)'
    <3>1. PICK h \in asked[p] : g = [h EXCEPT !.late = @ \/ h.finding = f]
      BY <1>0, <1>4 DEF WriteFinding
    <3>2. h \in Guidance /\ LateIfOld(h)
      BY <1>0 DEF GuidanceKept
    <3>3. g.finding = h.finding /\ g.old = h.old /\ g.late = (h.late \/ h.finding = f)
      BY <3>1, <3>2 DEF Guidance
    <3>4. QED
      BY <2>2, <3>2, <3>3 DEF LateIfOld
  <2>5. QED
    BY <2>1, <2>3, <2>4 DEF GuidanceKept
<1>5. CASE BuildGraph
  BY <1>0, <1>5 DEF BuildGraph, GuidanceKept, LateIfOld, Rewritten, TxRow, Shape, Guidance
<1>6. CASE Commit
  <2>1. tx'.wrote = {} /\ tx'.purged = {}
    BY <1>6, NoTxTyped DEF Commit
  <2>2. ASSUME NEW gs \in SUBSET Guidance, \A g \in gs : LateIfOld(g), NEW g \in Outdated(gs)
        PROVE  g.old => g.late
    <3>1. PICK h \in gs : g = [h EXCEPT !.old = @ \/ h.finding \in Rewritten]
      BY <2>2 DEF Outdated
    <3>2. g.old = (h.old \/ h.finding \in Rewritten) /\ g.late = h.late
      BY <3>1 DEF Guidance
    <3>3. QED
      BY <2>2, <3>2 DEF LateIfOld
  <2>3. ai' = Outdated(ai \ tx.purged) /\ \A p \in Askers : asked'[p] = Outdated(asked[p])
    BY <1>6 DEF Commit
  <2>4. \A g \in ai' : g.old => g.late
    BY <1>0, <2>2, <2>3 DEF GuidanceKept
  <2>5. \A p \in Askers : \A g \in asked'[p] : g.old => g.late
    BY <1>0, <2>2, <2>3 DEF GuidanceKept
  <2>6. QED
    BY <2>1, <2>4, <2>5 DEF GuidanceKept, LateIfOld, Rewritten
<1>7. CASE Rollback
  <2>1. tx'.wrote = {} /\ tx'.purged = {} /\ ai' = ai /\ asked' = asked
    BY <1>7, NoTxTyped DEF Rollback
  <2>2. QED
    BY <2>1 DEF GuidanceKept, LateIfOld, Rewritten
<1>8. ASSUME NEW f \in Findings, NEW status \in Triages, Triage(f, status)
      PROVE  GuidanceKept'
  BY <1>0, <1>8 DEF Triage, GuidanceKept, LateIfOld, Rewritten, TxRow, Shape, Guidance
<1>9. ASSUME NEW p \in Askers, NEW f \in Explained, AskForGuidance(p, f)
      PROVE  GuidanceKept'
  <2>1. /\ ai' = ai /\ tx' = tx
        /\ asked' = [asked EXCEPT ![p] = {[finding |-> f, old |-> FALSE, late |-> f \in Rewritten]}]
    BY <1>9 DEF AskForGuidance
  <2>2. LateIfOld([finding |-> f, old |-> FALSE, late |-> f \in Rewritten])
    BY DEF LateIfOld
  <2>3. Rewritten' = Rewritten
    BY <2>1 DEF Rewritten
  <2>4. QED
    BY <1>0, <2>1, <2>2, <2>3 DEF GuidanceKept, LateIfOld
<1>10. ASSUME NEW p \in Askers, ProviderAnswers(p)
       PROVE  GuidanceKept'
  BY <1>0, <1>10 DEF ProviderAnswers, GuidanceKept, LateIfOld, Rewritten, TxRow, Shape, Guidance
<1>11. ASSUME NEW p \in Askers, ProviderFails(p)
       PROVE  GuidanceKept'
  BY <1>0, <1>11 DEF ProviderFails, GuidanceKept, LateIfOld, Rewritten, TxRow, Shape, Guidance
<1>12. CASE UNCHANGED vars
  BY <1>0, <1>12 DEF vars, GuidanceKept, LateIfOld, Rewritten, TxRow, Shape, Guidance
<1>13. QED
  BY <1>1, <1>2, <1>3, <1>4, <1>5, <1>6, <1>7, <1>8, <1>9, <1>10, <1>11, <1>12, NextIs

(* The graph is true of its rows.                                            *)
LEMMA GraphStep ==
  ASSUME TypeOK, Shape, GraphKept, [Next]_vars
  PROVE  GraphKept'
<1>0. /\ tx \in TxRow /\ finding \in [Findings -> Finding]
      /\ asset \in [Assets -> AssetStates] /\ asked \in [Askers -> SUBSET Guidance]
      /\ ai \subseteq Guidance
  BY TxTyped
<1>1. ASSUME NEW account \in Accounts, NEW found \in SUBSET Assets,
             NEW verdict \in [Findings -> Verdicts],
             \A a \in found : AccountOf[a] = account, Begin(account, found, verdict)
      PROVE  GraphKept'
  BY <1>0, <1>1 DEF Begin, GraphKept, GraphShowsActive, Visible, TxRow, Shape
<1>2. ASSUME NEW f \in Findings, Pass(f)
      PROVE  GraphKept'
  BY <1>0, <1>2 DEF Pass, GraphKept, GraphShowsActive, Visible, TxRow, Shape
<1>3. ASSUME NEW f \in Findings, ReadFinding(f)
      PROVE  GraphKept'
  BY <1>0, <1>3 DEF ReadFinding, GraphKept, GraphShowsActive, Visible, TxRow, Shape
<1>4. ASSUME NEW f \in Findings, WriteFinding(f)
      PROVE  GraphKept'
  BY <1>0, <1>4 DEF WriteFinding, GraphKept, GraphShowsActive, Visible, TxRow, Shape
<1>5. CASE BuildGraph
  <2>1. /\ tx'.graph = GraphOf /\ tx'.since = {} /\ tx'.asset = tx.asset
        /\ tx'.wrote = tx.wrote /\ tx'.finding = tx.finding
        /\ UNCHANGED <<asset, finding, graph, since>>
    BY <1>0, <1>5 DEF BuildGraph, TxRow, Shape
  <2>2. \A f \in Findings : Visible(f)' = Visible(f)
    BY <2>1 DEF Visible
  <2>3. QED
    BY <2>1, <2>2 DEF GraphKept, GraphShowsActive, GraphOf
<1>6. CASE Commit
  <2>1. /\ asset' = tx.asset /\ graph' = tx.graph /\ since' = tx.since
        /\ finding' = [f \in Findings |-> Visible(f)] /\ tx'.at = "idle"
    BY <1>6, NoTxTyped DEF Commit
  <2>2. tx.at = "commit"
    BY <1>6 DEF Commit
  <2>3. QED
    BY <2>1, <2>2 DEF GraphKept, GraphShowsActive
<1>7. CASE Rollback
  BY <1>7, NoTxTyped DEF Rollback, GraphKept, GraphShowsActive
<1>8. ASSUME NEW f \in Findings, NEW status \in Triages, Triage(f, status)
      PROVE  GraphKept'
  BY <1>0, <1>8 DEF Triage, GraphKept, GraphShowsActive, Visible, TxRow, Shape
<1>9. ASSUME NEW p \in Askers, NEW f \in Explained, AskForGuidance(p, f)
      PROVE  GraphKept'
  BY <1>0, <1>9 DEF AskForGuidance, GraphKept, GraphShowsActive, Visible, TxRow, Shape
<1>10. ASSUME NEW p \in Askers, ProviderAnswers(p)
       PROVE  GraphKept'
  BY <1>0, <1>10 DEF ProviderAnswers, GraphKept, GraphShowsActive, Visible, TxRow, Shape
<1>11. ASSUME NEW p \in Askers, ProviderFails(p)
       PROVE  GraphKept'
  BY <1>0, <1>11 DEF ProviderFails, GraphKept, GraphShowsActive, Visible, TxRow, Shape
<1>12. CASE UNCHANGED vars
  BY <1>0, <1>12 DEF vars, GraphKept, GraphShowsActive, Visible, TxRow, Shape
<1>13. QED
  BY <1>1, <1>2, <1>3, <1>4, <1>5, <1>6, <1>7, <1>8, <1>9, <1>10, <1>11, <1>12, NextIs

(* Assets change only with their account's scan.                             *)
LEMMA AccountStep ==
  ASSUME TypeOK, AccountKept, [Next]_vars
  PROVE  AccountKept'
<1>0. /\ tx \in TxRow /\ finding \in [Findings -> Finding]
      /\ asset \in [Assets -> AssetStates] /\ asked \in [Askers -> SUBSET Guidance]
      /\ ai \subseteq Guidance
  BY TxTyped
<1>1. ASSUME NEW account \in Accounts, NEW found \in SUBSET Assets,
             NEW verdict \in [Findings -> Verdicts],
             \A a \in found : AccountOf[a] = account, Begin(account, found, verdict)
      PROVE  AccountKept'
  <2>1. tx'.asset = AssetsAfter(account, found) /\ tx'.account = {account} /\ asset' = asset
    BY <1>1 DEF Begin, NoTx
  <2>2. QED
    BY <2>1 DEF AccountKept, AssetsAfter
<1>2. ASSUME NEW f \in Findings, Pass(f)
      PROVE  AccountKept'
  BY <1>0, <1>2 DEF Pass, AccountKept, TxRow
<1>3. ASSUME NEW f \in Findings, ReadFinding(f)
      PROVE  AccountKept'
  BY <1>0, <1>3 DEF ReadFinding, AccountKept, TxRow
<1>4. ASSUME NEW f \in Findings, WriteFinding(f)
      PROVE  AccountKept'
  BY <1>0, <1>4 DEF WriteFinding, AccountKept, TxRow
<1>5. CASE BuildGraph
  BY <1>0, <1>5 DEF BuildGraph, AccountKept, TxRow
<1>6. CASE Commit
  BY <1>6, NoTxTyped DEF Commit, AccountKept
<1>7. CASE Rollback
  BY <1>7, NoTxTyped DEF Rollback, AccountKept
<1>8. ASSUME NEW f \in Findings, NEW status \in Triages, Triage(f, status)
      PROVE  AccountKept'
  BY <1>0, <1>8 DEF Triage, AccountKept, TxRow
<1>9. ASSUME NEW p \in Askers, NEW f \in Explained, AskForGuidance(p, f)
      PROVE  AccountKept'
  BY <1>0, <1>9 DEF AskForGuidance, AccountKept, TxRow
<1>10. ASSUME NEW p \in Askers, ProviderAnswers(p)
       PROVE  AccountKept'
  BY <1>0, <1>10 DEF ProviderAnswers, AccountKept, TxRow
<1>11. ASSUME NEW p \in Askers, ProviderFails(p)
       PROVE  AccountKept'
  BY <1>0, <1>11 DEF ProviderFails, AccountKept, TxRow
<1>12. CASE UNCHANGED vars
  BY <1>0, <1>12 DEF vars, AccountKept, TxRow
<1>13. QED
  BY <1>1, <1>2, <1>3, <1>4, <1>5, <1>6, <1>7, <1>8, <1>9, <1>10, <1>11, <1>12, NextIs

-----------------------------------------------------------------------------
Kept == TypeOK /\ Shape /\ VerdictKept /\ TriageKept /\ GuidanceKept /\ GraphKept /\ AccountKept

LEMMA KeptInit == Init => Kept
<1> SUFFICES ASSUME Init PROVE Kept
  OBVIOUS
<1>1. tx.at = "idle" /\ tx.wrote = {} /\ tx.todo = {} /\ tx.key = {} /\ tx.since = {}
  BY NoTxTyped DEF Init
<1>2. /\ ai = {} /\ (\A p \in Askers : asked[p] = {})
      /\ graph.nodes = {} /\ graph.findings = {}
      /\ (\A a \in Assets : asset[a] = "unknown")
      /\ \A f \in Findings : finding[f].status = "NONE"
  BY DEF Init, NoGraph, Absent
<1>3. TypeOK
  BY InitTyped
<1>4. Shape
  BY <1>1 DEF Shape
<1>5. VerdictKept /\ TriageKept /\ AccountKept
  BY <1>1 DEF VerdictKept, TriageKept, TriageStands, AccountKept
<1>6. GuidanceKept
  BY <1>1, <1>2 DEF GuidanceKept, LateIfOld
<1>7. GraphKept
  BY <1>1, <1>2 DEF GraphKept, GraphShowsActive, Active
<1>8. QED
  BY <1>3, <1>4, <1>5, <1>6, <1>7 DEF Kept

LEMMA KeptStep == Kept /\ [Next]_vars => Kept'
BY TypeStep, ShapeStep, VerdictStep, TriageStep, GuidanceStep, GraphStep, AccountStep DEF Kept

LEMMA AlwaysKept == Spec => []Kept
BY KeptInit, KeptStep, PTL DEF Spec

(* THEOREM 1.  Rows have their types: a finding has a date of resolution     *)
(* exactly while it is resolved, however rescans and status updates are      *)
(* interleaved.                                                              *)
THEOREM TypeCorrect == Spec => []TypeOK
<1>1. Kept => TypeOK
  BY DEF Kept
<1>2. QED
  BY <1>1, AlwaysKept, PTL

(* THEOREM 2.  The committed graph shows the active findings of the assets   *)
(* that are there, but for those triaged since it was read.                  *)
THEOREM GraphIsOfItsRows == Spec => []GraphShowsActive
<1>1. Kept => GraphShowsActive
  BY DEF Kept, GraphKept
<1>2. QED
  BY <1>1, AlwaysKept, PTL

(* THEOREM 3.  What a completion is about to publish is what its scan found, *)
(* triage aside.                                                             *)
THEOREM VerdictsStand == Spec => []VerdictStands
<1>1. Kept => VerdictStands
  <2> SUFFICES ASSUME Kept, tx.at = "commit", NEW f \in Findings
               PROVE  /\ tx.verdict[f] = "fail" => Visible(f).status \in Active
                      /\ tx.verdict[f] = "pass" /\ f \in tx.wrote => Visible(f).status = "RESOLVED"
                      /\ tx.verdict[f] = "pass" /\ f \notin since => Visible(f).status \notin Active
    BY DEF VerdictStands
  <2>1. tx.todo = {} /\ tx.at # "idle"
    BY DEF Kept, Shape
  <2>2. VerdictKept
    BY DEF Kept
  <2>3. CASE f \in tx.wrote
    BY <2>1, <2>2, <2>3 DEF VerdictKept, Visible, Active
  <2>4. CASE f \notin tx.wrote
    BY <2>1, <2>2, <2>4 DEF VerdictKept, Visible
  <2>5. QED
    BY <2>3, <2>4
<1>2. QED
  BY <1>1, AlwaysKept, PTL

(* THEOREM 4.  A rescan leaves the triage of a finding that still fails      *)
(* alone, unless the status was updated between its read and its write.      *)
THEOREM TriageStandsUnlessOvertaken == Spec => []TriageStands
<1>1. Kept => TriageStands
  BY DEF Kept, TriageKept
<1>2. QED
  BY <1>1, AlwaysKept, PTL

(* THEOREM 5.  Guidance on an outdated evaluation is guidance that came      *)
(* after the later evaluation had deleted what was there.                    *)
THEOREM OldGuidanceCameLate == Spec => []OldGuidanceIsLate
<1>1. Kept => OldGuidanceIsLate
  BY DEF Kept, GuidanceKept, OldGuidanceIsLate
<1>2. QED
  BY <1>1, AlwaysKept, PTL

(* THEOREM 6.  No step changes an asset of an account other than the one     *)
(* whose scan is being completed.                                            *)
THEOREM ScansKeepToTheirAccount == Spec => OneAccountPerScan
<1>1. Kept /\ [Next]_vars
        => [\A a \in Assets : asset'[a] # asset[a] => AccountOf[a] \in tx.account]_vars
  <2> SUFFICES ASSUME Kept, [Next]_vars
               PROVE  \A a \in Assets : asset'[a] # asset[a] => AccountOf[a] \in tx.account
    OBVIOUS
  <2>1. asset' = asset \/ Commit
    BY NextIs DEF Begin, Pass, ReadFinding, WriteFinding, BuildGraph, Rollback, Triage,
                  AskForGuidance, ProviderAnswers, ProviderFails, vars
  <2>2. CASE Commit
    BY <2>2 DEF Kept, AccountKept, Commit
  <2>3. QED
    BY <2>1, <2>2
<1>2. QED
  BY <1>1, AlwaysKept, PTL DEF Spec, OneAccountPerScan

-----------------------------------------------------------------------------
(* The inductive invariant behind the refinement of AtomicScan.  What the    *)
(* completion has evaluated is what evaluating it now would give, but for    *)
(* the findings that overtook it.                                            *)
AsIfNow ==
  tx.at # "idle" => \A f \in Findings \ (tx.todo \cup tx.overtaken) :
    Visible(f).status = Atomic!Rescanned(finding[f].status, tx.verdict[f])

(* The report it works on: these assets of one account, and verdicts on them.*)
ReportOf(account, found) ==
  /\ tx.account = {account}
  /\ \A a \in found : AccountOf[a] = account
  /\ \A f \in Findings : tx.verdict[f] # "skip" => f[1] \in found
  /\ tx.asset = AssetsAfter(account, found)

Reported ==
  tx.at # "idle" => \E account \in Accounts, found \in SUBSET Assets : ReportOf(account, found)

(* Nothing overtakes a completion that is not in progress; whoever triages a *)
(* finding after it was read for the graph does; edges join nodes.           *)
Overtaking ==
  /\ tx.since \subseteq tx.overtaken
  /\ tx.at = "idle" => /\ tx.overtaken = {} /\ tx.account = {}
                       /\ \A f \in Findings : tx.verdict[f] = "skip"
  /\ tx.at = "commit" => \A f \in tx.graph.findings : f[1] \in tx.graph.nodes

AtOnce == AsIfNow /\ Reported /\ Overtaking

(* The actions that leave what AtOnce speaks of alone.                       *)
LEMMA AtOnceStays ==
  ASSUME AtOnce, UNCHANGED <<asset, finding>>,
         tx'.at = tx.at, tx'.account = tx.account, tx'.verdict = tx.verdict,
         tx'.todo = tx.todo, tx'.wrote = tx.wrote, tx'.asset = tx.asset,
         tx'.finding = tx.finding, tx'.graph = tx.graph,
         tx'.overtaken = tx.overtaken, tx'.since = tx.since
  PROVE  AtOnce'
<1>1. \A f \in Findings : Visible(f)' = Visible(f)
  BY DEF Visible
<1>2. AsIfNow'
  BY <1>1 DEF AtOnce, AsIfNow
<1>3. \A account \in Accounts, found \in SUBSET Assets :
        ReportOf(account, found) => ReportOf(account, found)'
  BY DEF ReportOf, AssetsAfter
<1>4. Reported'
  BY <1>3 DEF AtOnce, Reported
<1>5. Overtaking'
  BY DEF AtOnce, Overtaking
<1>6. QED
  BY <1>2, <1>4, <1>5 DEF AtOnce

(* The report is of the completion: while it goes on, it stays.              *)
LEMMA ReportStays ==
  ASSUME Reported, UNCHANGED asset, tx.at # "idle",
         tx'.account = tx.account, tx'.verdict = tx.verdict, tx'.asset = tx.asset
  PROVE  Reported'
<1>1. \A account \in Accounts, found \in SUBSET Assets :
        ReportOf(account, found) => ReportOf(account, found)'
  BY DEF ReportOf, AssetsAfter
<1>2. QED
  BY <1>1 DEF Reported

LEMMA AtOnceEnds ==
  ASSUME tx' = NoTx
  PROVE  AtOnce'
BY NoTxTyped DEF AtOnce, AsIfNow, Reported, Overtaking

LEMMA AtOnceStep ==
  ASSUME Kept, AtOnce, [Next]_vars
  PROVE  AtOnce'
<1>0. /\ tx \in TxRow /\ finding \in [Findings -> Finding] /\ TypeOK /\ Shape
      /\ asset \in [Assets -> AssetStates]
      /\ VerdictKept /\ TriageKept
  BY TxTyped DEF Kept
<1>r. \A s : Atomic!Rescanned(s, "skip") = s
  BY DEF Atomic!Rescanned
<1>p. \A s : Atomic!Rescanned(s, "pass") = IF s \in Active THEN "RESOLVED" ELSE s
  BY DEF Atomic!Rescanned, Atomic!Active, Active
<1>f. \A s : Atomic!Rescanned(s, "fail") = IF s \in Active THEN s ELSE "OPEN"
  BY DEF Atomic!Rescanned, Atomic!Active, Active
<1>1. ASSUME NEW account \in Accounts, NEW found \in SUBSET Assets,
             NEW verdict \in [Findings -> Verdicts],
             \A a \in found : AccountOf[a] = account, Begin(account, found, verdict)
      PROVE  AtOnce'
  <2>1. /\ tx'.at = "evaluate" /\ tx'.account = {account} /\ tx'.verdict = verdict
        /\ tx'.todo = {f \in Findings : verdict[f] # "skip"} /\ tx'.wrote = {}
        /\ tx'.asset = AssetsAfter(account, found)
        /\ tx'.overtaken = {} /\ tx'.since = {} /\ UNCHANGED <<asset, finding>>
    BY <1>1 DEF Begin, NoTx
  <2>2. AsIfNow'
    BY <1>r, <2>1 DEF AsIfNow, Visible
  <2>3. ReportOf(account, found)'
    BY <1>1, <2>1 DEF Begin, ReportOf, AssetsAfter
  <2>4. QED
    BY <2>1, <2>2, <2>3 DEF AtOnce, Reported, Overtaking
<1>2. ASSUME NEW f \in Findings, Pass(f)
      PROVE  AtOnce'
  <2>1. /\ tx.at = "evaluate" /\ tx'.at = "evaluate" /\ tx'.verdict = tx.verdict
        /\ tx'.todo = tx.todo \ {f} /\ f \in tx.todo /\ f \notin tx.wrote
        /\ tx.verdict[f] = "pass" /\ UNCHANGED <<asset, finding>>
        /\ tx'.account = tx.account /\ tx'.asset = tx.asset
        /\ tx'.overtaken = tx.overtaken /\ tx'.since = tx.since
    BY <1>0, <1>2 DEF Pass, TxRow, Shape
  <2>2. Visible(f) = finding[f]
    BY <2>1 DEF Visible
  <2>3. Visible(f)'.status = Atomic!Rescanned(finding[f].status, "pass")
    <3>1. CASE Visible(f).status \in Active
      <4>1. f \in tx'.wrote /\ tx'.finding[f] = [status |-> "RESOLVED", resolvedAt |-> TRUE]
        BY <1>0, <1>2, <3>1 DEF Pass, TxRow
      <4>2. QED
        BY <1>p, <2>2, <3>1, <4>1 DEF Visible
    <3>2. CASE Visible(f).status \notin Active
      <4>1. tx'.wrote = tx.wrote
        BY <1>0, <1>2, <3>2 DEF Pass, TxRow
      <4>2. QED
        BY <1>p, <2>1, <2>2, <3>2, <4>1 DEF Visible
    <3>3. QED
      BY <3>1, <3>2
  <2>4. \A g \in Findings : g # f => Visible(g)' = Visible(g)
    BY <1>0, <1>2 DEF Pass, Visible, TxRow
  <2>5. AsIfNow'
    BY <2>1, <2>3, <2>4 DEF AtOnce, AsIfNow
  <2>6. QED
    BY <2>1, <2>5, ReportStays DEF AtOnce, Overtaking
<1>3. ASSUME NEW f \in Findings, ReadFinding(f)
      PROVE  AtOnce'
  <2>1. /\ tx.at = "evaluate" /\ tx'.at = "write" /\ tx'.verdict = tx.verdict
        /\ tx'.todo = tx.todo /\ tx'.wrote = tx.wrote /\ tx'.finding = tx.finding
        /\ UNCHANGED <<asset, finding>>
        /\ tx'.account = tx.account /\ tx'.asset = tx.asset
        /\ tx'.overtaken = tx.overtaken /\ tx'.since = tx.since
    BY <1>0, <1>3 DEF ReadFinding, TxRow
  <2>2. AsIfNow'
    BY <2>1 DEF AtOnce, AsIfNow, Visible
  <2>3. QED
    BY <2>1, <2>2, ReportStays DEF AtOnce, Overtaking
<1>4. ASSUME NEW f \in Findings, WriteFinding(f)
      PROVE  AtOnce'
  <2>1. /\ tx.at = "write" /\ tx'.at = "evaluate" /\ tx'.verdict = tx.verdict
        /\ tx.key = {f} /\ tx.verdict[f] = "fail"
        /\ tx'.todo = tx.todo \ {f} /\ f \notin tx.wrote /\ tx'.wrote = tx.wrote \cup {f}
        /\ tx'.finding = [tx.finding EXCEPT ![f] = Failing(f, tx.seen)]
        /\ UNCHANGED <<asset, finding>>
        /\ tx'.account = tx.account /\ tx'.asset = tx.asset
        /\ tx'.overtaken = tx.overtaken /\ tx'.since = tx.since
    BY <1>0, <1>4 DEF WriteFinding, TxRow, Shape
  <2>2. \A g \in Findings : g # f => Visible(g)' = Visible(g)
    BY <1>0, <2>1 DEF Visible, TxRow
  <2>3. Visible(f)' = Failing(f, tx.seen)
    BY <1>0, <2>1 DEF Visible, TxRow
  <2>4. f \notin tx.overtaken
          => Failing(f, tx.seen).status = Atomic!Rescanned(finding[f].status, "fail")
    BY <1>0, <1>f, <2>1 DEF Failing, TriageKept
  <2>5. AsIfNow'
    BY <2>1, <2>2, <2>3, <2>4 DEF AtOnce, AsIfNow
  <2>6. QED
    BY <2>1, <2>5, ReportStays DEF AtOnce, Overtaking
<1>5. CASE BuildGraph
  <2>1. /\ tx.at = "evaluate" /\ tx'.at = "commit" /\ tx'.verdict = tx.verdict
        /\ tx'.todo = tx.todo /\ tx'.wrote = tx.wrote /\ tx'.finding = tx.finding
        /\ tx'.graph = GraphOf /\ UNCHANGED <<asset, finding>>
        /\ tx'.account = tx.account /\ tx'.asset = tx.asset
        /\ tx'.overtaken = tx.overtaken /\ tx'.since = tx.since
    BY <1>0, <1>5 DEF BuildGraph, TxRow
  <2>2. AsIfNow'
    BY <2>1 DEF AtOnce, AsIfNow, Visible
  <2>3. Overtaking'
    BY <2>1 DEF AtOnce, Overtaking, GraphOf
  <2>4. QED
    BY <2>1, <2>2, <2>3, ReportStays DEF AtOnce
<1>6. CASE Commit
  BY <1>6, AtOnceEnds DEF Commit
<1>7. CASE Rollback
  BY <1>7, AtOnceEnds DEF Rollback
<1>8. ASSUME NEW f \in Findings, NEW status \in Triages, Triage(f, status)
      PROVE  AtOnce'
  <2>1. /\ tx'.at = tx.at /\ tx'.account = tx.account /\ tx'.verdict = tx.verdict
        /\ tx'.todo = tx.todo /\ tx'.wrote = tx.wrote /\ tx'.finding = tx.finding
        /\ tx'.asset = tx.asset /\ tx'.graph = tx.graph /\ UNCHANGED asset
        /\ tx'.overtaken = IF LookedAt(f) THEN tx.overtaken \cup {f} ELSE tx.overtaken
        /\ tx'.since = IF tx.at = "commit" THEN tx.since \cup {f} ELSE tx.since
        /\ f \notin tx.wrote /\ \A g \in Findings : g # f => finding'[g] = finding[g]
    BY <1>0, <1>8 DEF Triage, TxRow
  <2>2. Overtaking'
    <3>1. tx.at = "idle" => ~LookedAt(f)
      BY <1>0 DEF AtOnce, Overtaking, LookedAt, Shape
    <3>2. tx.at = "commit" => LookedAt(f)
      BY DEF LookedAt
    <3>3. QED
      BY <2>1, <3>1, <3>2 DEF AtOnce, Overtaking
  <2>3. ASSUME tx.at # "idle", NEW g \in Findings \ (tx.todo \cup tx'.overtaken)
        PROVE  Visible(g)'.status = Atomic!Rescanned(finding'[g].status, tx.verdict[g])
    <3>1. CASE g # f
      <4>1. Visible(g)' = Visible(g) /\ finding'[g] = finding[g] /\ g \notin tx.overtaken
        BY <2>1, <2>3, <3>1 DEF Visible
      <4>2. QED
        BY <2>3, <4>1 DEF AtOnce, AsIfNow
    <3>2. CASE g = f
      <4>1. tx.verdict[f] # "pass" /\ tx.verdict[f] # "fail"
        BY <1>0, <2>1, <2>3, <3>2 DEF LookedAt, VerdictKept
      <4>2. tx.verdict[f] = "skip"
        BY <1>0, <4>1 DEF TxRow, Verdicts
      <4>3. Visible(f)' = finding'[f]
        BY <2>1 DEF Visible
      <4>4. QED
        BY <1>r, <3>2, <4>2, <4>3
    <3>3. QED
      BY <3>1, <3>2
  <2>4. AsIfNow'
    BY <2>1, <2>3 DEF AsIfNow
  <2>5. CASE tx.at # "idle"
    BY <2>1, <2>2, <2>4, <2>5, ReportStays DEF AtOnce
  <2>6. CASE tx.at = "idle"
    BY <2>1, <2>2, <2>4, <2>6 DEF AtOnce, Reported
  <2>7. QED
    BY <2>5, <2>6
<1>9. ASSUME NEW p \in Askers, ProviderAnswers(p)
      PROVE  AtOnce'
  <2>1. /\ tx'.at = tx.at /\ tx'.account = tx.account /\ tx'.verdict = tx.verdict
        /\ tx'.todo = tx.todo /\ tx'.wrote = tx.wrote /\ tx'.asset = tx.asset
        /\ tx'.finding = tx.finding /\ tx'.graph = tx.graph
        /\ tx'.overtaken = tx.overtaken /\ tx'.since = tx.since
        /\ UNCHANGED <<asset, finding>>
    BY <1>0, <1>9 DEF ProviderAnswers, TxRow
  <2>2. QED
    BY <2>1, AtOnceStays
<1>10. CASE UNCHANGED <<asset, finding, tx>>
  BY <1>10, AtOnceStays
<1>11. QED
  BY <1>1, <1>2, <1>3, <1>4, <1>5, <1>6, <1>7, <1>8, <1>9, <1>10, NextIs
     DEF AskForGuidance, ProviderFails, vars

(* A commit is AtomicScan's completion, with the report it began with.       *)
LEMMA CommitCompletes ==
  ASSUME Kept, AtOnce, Commit
  PROVE  Atomic!Next
<1>0. /\ tx \in TxRow /\ finding \in [Findings -> Finding] /\ Shape
      /\ asset \in [Assets -> AssetStates]
      /\ VerdictKept /\ GraphKept /\ tx.at = "commit" /\ tx.todo = {}
  BY TxTyped DEF Kept, Shape, Commit
<1>1. /\ asset' = tx.asset /\ graph' = tx.graph /\ tx' = NoTx
      /\ \A f \in Findings : finding'[f] = Visible(f)
  BY DEF Commit
<1>2. PICK account \in Accounts, found \in SUBSET Assets : ReportOf(account, found)
  BY <1>0 DEF AtOnce, Reported
<1>3. PICK verdict \in [Findings -> Verdicts] : verdict = tx.verdict
  BY <1>0 DEF TxRow
<1>4. PICK over \in SUBSET Findings : over = tx.overtaken
  BY <1>0 DEF TxRow
<1> DEFINE status == [f \in Findings |-> finding[f].status]
<1>5. asset' = [a \in Assets |->
                  IF a \in found THEN "present"
                  ELSE IF AccountOf[a] = account /\ asset[a] = "present" THEN "deleted"
                  ELSE asset[a]]
  <2>1. \A a \in found : AccountOf[a] = account
    BY <1>2 DEF ReportOf
  <2>2. asset' = AssetsAfter(account, found)
    BY <1>1, <1>2 DEF ReportOf
  <2>3. QED
    BY <2>1, <2>2 DEF AssetsAfter
<1>6. \A f \in Findings \ over :
        Visible(f).status = Atomic!Rescanned(finding[f].status, verdict[f])
  BY <1>0, <1>3, <1>4 DEF AtOnce, AsIfNow
<1>7. ASSUME NEW f \in Findings
      PROVE  Visible(f).status \in Atomic!RescannedLate(finding[f].status, verdict[f])
  <2>1. CASE verdict[f] = "fail"
    BY <1>0, <1>3, <2>1 DEF VerdictKept, Visible, Atomic!RescannedLate, Atomic!Active, Active
  <2>2. CASE verdict[f] = "pass"
    BY <1>0, <1>3, <2>2 DEF VerdictKept, Visible, Atomic!RescannedLate
  <2>3. CASE verdict[f] = "skip"
    <3>1. f \notin tx.wrote
      BY <1>0, <1>3, <2>3 DEF Shape
    <3>2. QED
      BY <2>3, <3>1 DEF Visible, Atomic!RescannedLate
  <2>4. QED
    BY <2>1, <2>2, <2>3 DEF Verdicts
<1>8. \A f \in Findings :
        IF f \in over
        THEN Visible(f).status \in Atomic!RescannedLate(finding[f].status, verdict[f])
        ELSE Visible(f).status = Atomic!Rescanned(finding[f].status, verdict[f])
  BY <1>6, <1>7
<1>9. /\ graph'.nodes = {a \in Assets : asset'[a] = "present"}
      /\ \A f \in graph'.findings : f[1] \in graph'.nodes
      /\ \A f \in Findings \ over :
           f[1] \in graph'.nodes => (f \in graph'.findings <=> Visible(f).status \in Active)
  <2>1. tx.since \subseteq over
    BY <1>4 DEF AtOnce, Overtaking
  <2>2. QED
    BY <1>0, <1>1, <2>1 DEF GraphKept, AtOnce, Overtaking
<1>10. tx.account = {account} /\ tx'.account = {} /\ tx'.overtaken = {}
  BY <1>1, <1>2, NoTxTyped DEF ReportOf
<1>11. /\ \A f \in Findings : status[f] = finding[f].status
       /\ \A f \in Findings : status'[f] = Visible(f).status
  BY <1>1
<1>12. Atomic!Complete(account, found, verdict)
  <2>1. /\ \A a \in found : AccountOf[a] = account
        /\ \A f \in Findings : verdict[f] # "skip" => f[1] \in found
    BY <1>2, <1>3 DEF ReportOf
  <2>2. \A f \in Findings :
          IF f \in tx.overtaken
          THEN status'[f] \in Atomic!RescannedLate(status[f], verdict[f])
          ELSE status'[f] = Atomic!Rescanned(status[f], verdict[f])
    BY <1>4, <1>8, <1>11
  <2>3. \A f \in Findings \ tx.overtaken :
          f[1] \in graph'.nodes => (f \in graph'.findings <=> status'[f] \in Active)
    BY <1>4, <1>9, <1>11
  <2>4. Atomic!Findings = Findings /\ Atomic!Active = Active
    BY DEF Atomic!Findings, Findings, Atomic!Active, Active
  <2>5. QED
    BY <1>0, <1>5, <1>9, <1>10, <2>1, <2>2, <2>3, <2>4 DEF Atomic!Complete
<1>13. verdict \in [Atomic!Findings -> Atomic!Verdicts]
  BY DEF Atomic!Findings, Findings, Atomic!Verdicts, Verdicts
<1>14. QED
  BY <1>12, <1>13 DEF Atomic!Next

(* Every step of the transaction and of those around it is a step of         *)
(* AtomicScan, or none.                                                      *)
LEMMA AtomicStep ==
  ASSUME Kept, AtOnce, [Next]_vars
  PROVE  [Atomic!Next]_Atomic!scanVars
<1> USE DEF Atomic!scanVars
<1>0. tx \in TxRow /\ finding \in [Findings -> Finding] /\ Shape
  BY TxTyped DEF Kept
<1>a. ASSUME UNCHANGED <<asset, finding, graph>>, tx'.account = tx.account,
             tx'.overtaken = tx.overtaken
      PROVE  UNCHANGED Atomic!scanVars
  BY <1>a
<1>1. ASSUME NEW account \in Accounts, NEW found \in SUBSET Assets,
             NEW verdict \in [Findings -> Verdicts], Begin(account, found, verdict)
      PROVE  Atomic!Next
  <2>1. /\ tx.account = {} /\ tx'.account = {account} /\ tx'.overtaken = {}
        /\ UNCHANGED <<asset, finding, graph>>
    BY <1>1 DEF Begin, NoTx, AtOnce, Overtaking
  <2>2. Atomic!Start(account)
    BY <2>1 DEF Atomic!Start
  <2>3. QED
    BY <2>2 DEF Atomic!Next
<1>2. ASSUME NEW f \in Findings, Pass(f) \/ ReadFinding(f) \/ WriteFinding(f)
      PROVE  UNCHANGED Atomic!scanVars
  <2>1. /\ UNCHANGED <<asset, finding, graph>> /\ tx'.overtaken = tx.overtaken
        /\ tx'.account = tx.account
    BY <1>0, <1>2 DEF Pass, ReadFinding, WriteFinding, TxRow
  <2>2. QED
    BY <1>a, <2>1
<1>3. CASE BuildGraph
  <2>1. /\ UNCHANGED <<asset, finding, graph>> /\ tx'.overtaken = tx.overtaken
        /\ tx'.account = tx.account
    BY <1>0, <1>3 DEF BuildGraph, TxRow
  <2>2. QED
    BY <1>a, <2>1
<1>4. CASE Commit
  BY <1>4, CommitCompletes
<1>5. CASE Rollback
  <2>1. /\ tx.account # {} /\ tx'.account = {} /\ tx'.overtaken = {}
        /\ UNCHANGED <<asset, finding, graph>>
    BY <1>5, NoTxTyped DEF Rollback, AtOnce, Reported, ReportOf
  <2>2. Atomic!GiveUp
    BY <2>1 DEF Atomic!GiveUp
  <2>3. QED
    BY <2>2 DEF Atomic!Next
<1>6. ASSUME NEW f \in Findings, NEW s \in Triages, Triage(f, s)
      PROVE  Atomic!Next
  <2>1. /\ tx'.account = tx.account /\ UNCHANGED <<asset, graph>>
        /\ tx'.overtaken = IF LookedAt(f) THEN tx.overtaken \cup {f} ELSE tx.overtaken
        /\ finding[f].status # "NONE" /\ finding' = [finding EXCEPT ![f] = Triaged(f, s)]
    BY <1>0, <1>6 DEF Triage, TxRow
  <2>2. LookedAt(f) => tx.account # {}
    BY <1>0 DEF AtOnce, Overtaking, Reported, ReportOf, LookedAt, Shape
  <2>3. [g \in Findings |-> finding[g].status]'
          = [[g \in Findings |-> finding[g].status] EXCEPT ![f] = s]
    BY <1>0, <2>1 DEF Triaged
  <2>4. Atomic!Triage(f, s)
    BY <2>1, <2>2, <2>3 DEF Atomic!Triage
  <2>5. QED
    BY <2>4 DEF Atomic!Next, Atomic!Findings, Findings
<1>7. ASSUME NEW p \in Askers, ProviderAnswers(p)
      PROVE  UNCHANGED Atomic!scanVars
  <2>1. /\ UNCHANGED <<asset, finding, graph>> /\ tx'.overtaken = tx.overtaken
        /\ tx'.account = tx.account
    BY <1>0, <1>7 DEF ProviderAnswers, TxRow
  <2>2. QED
    BY <1>a, <2>1
<1>8. CASE UNCHANGED <<asset, finding, graph, tx>>
  BY <1>8
<1>9. QED
  BY <1>1, <1>2, <1>3, <1>4, <1>5, <1>6, <1>7, <1>8, NextIs
     DEF AskForGuidance, ProviderFails, vars

(* THEOREM 7.  A completion of many statements, interleaved with triage and  *)
(* guidance and possibly rolled back, implements AtomicScan: it is as if it  *)
(* happened at once when it commits, but for the findings triaged after it   *)
(* had looked at them.                                                       *)
THEOREM CompletionIsAtomic == Spec => AtomicSpec
<1>1. Init => AtOnce /\ Atomic!Init
  <2> SUFFICES ASSUME Init PROVE AtOnce /\ Atomic!Init
    OBVIOUS
  <2>1. /\ tx.at = "idle" /\ tx.overtaken = {} /\ tx.account = {} /\ tx.since = {}
        /\ \A f \in Findings : tx.verdict[f] = "skip"
    BY NoTxTyped DEF Init
  <2>2. AtOnce
    BY <2>1 DEF AtOnce, AsIfNow, Reported, Overtaking
  <2>3. [f \in Findings |-> finding[f].status] = [f \in Findings |-> "NONE"]
    BY DEF Init, Absent
  <2>4. QED
    BY <2>1, <2>2, <2>3 DEF Init, Atomic!Init, Atomic!Findings, Findings, NoGraph
<1>2. Kept /\ AtOnce /\ [Next]_vars => Kept' /\ AtOnce' /\ [Atomic!Next]_Atomic!scanVars
  BY KeptStep, AtOnceStep, AtomicStep
<1>3. QED
  BY <1>1, <1>2, KeptInit, PTL DEF Spec, AtomicSpec, Atomic!Spec

=============================================================================
