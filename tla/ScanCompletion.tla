--------------------------- MODULE ScanCompletion ---------------------------
(***************************************************************************)
(* What a completed scan does to the assets, findings, guidance and attack *)
(* graph of a tenant (completeJob), while people triage findings and ask   *)
(* for AI guidance through the API.  The completion is one transaction of  *)
(* many statements under READ COMMITTED: its writes are invisible until it *)
(* commits, it holds the rows it wrote, and each of its statements sees    *)
(* what others have committed by then.  Completions of a tenant queue up   *)
(* at the rows of ensureDefaultPolicies, its second statement, so at most  *)
(* one is in progress after it.                                            *)
(***************************************************************************)
EXTENDS Naturals, FiniteSets

CONSTANTS
  Assets,     (* the external ids a scan can report                          *)
  Policies,   (* the enabled policies                                        *)
  Accounts,   (* the cloud accounts of the tenant                            *)
  AccountOf,  (* the account an asset belongs to                             *)
  CanFail,    (* whether a completion may be rolled back                     *)
  Triages,    (* the statuses people give findings                           *)
  Askers,     (* the requests for AI guidance that can be in flight          *)
  Explained   (* the findings AI guidance is asked for                       *)

ASSUME CompletionAssumption ==
  /\ AccountOf \in [Assets -> Accounts]
  /\ CanFail \in BOOLEAN
  /\ Triages \subseteq {"OPEN", "TRIAGED", "RISK_ACCEPTED", "RESOLVED"}
  /\ Explained \subseteq Assets \X Policies

(* A finding is known by its dedupe key: policy, account and asset.          *)
Findings == Assets \X Policies

Statuses     == {"NONE", "OPEN", "TRIAGED", "RISK_ACCEPTED", "RESOLVED"}
Active       == {"OPEN", "TRIAGED", "RISK_ACCEPTED"}
AssetStates  == {"unknown", "present", "deleted"}
Verdicts     == {"skip", "pass", "fail"}
Graph        == [nodes : SUBSET Assets, findings : SUBSET Findings]

(* A finding's row, or none: it has a resolution date while it is resolved.  *)
Finding == {row \in [status : Statuses, resolvedAt : BOOLEAN] :
              (row.status = "RESOLVED") <=> row.resolvedAt}

(* AI guidance, asked for or written: whether its finding was written again  *)
(* by a completion that committed after it was read, and whether a delete of *)
(* the finding's guidance ran between that reading and the insert.           *)
Guidance == [finding : Explained, old : BOOLEAN, late : BOOLEAN]

VARIABLES
  asset,     (* Asset: never seen, present, or with deletedAt set            *)
  finding,   (* Finding.status, and whether resolvedAt is set                *)
  asked,     (* the AI guidance that the provider is working on              *)
  ai,        (* the AI remediations; the HUMAN one of a finding is replaced  *)
             (* with it                                                      *)
  graph,     (* the assets that are nodes, the findings drawn as edges       *)
  tx,        (* the completion in progress and what it has written so far    *)
  since      (* history: the findings triaged since the committed graph was  *)
             (* read                                                         *)

vars == <<asset, finding, asked, ai, graph, tx, since>>

Absent == [status |-> "NONE", resolvedAt |-> FALSE]
NoGraph == [nodes |-> {}, findings |-> {}]

NoTx == [at |-> "idle", account |-> {}, verdict |-> [f \in Findings |-> "skip"], todo |-> {},
         key |-> {}, seen |-> "NONE", wrote |-> {},
         asset |-> [a \in Assets |-> "unknown"],
         finding |-> [f \in Findings |-> Absent],
         purged |-> {}, graph |-> NoGraph,
         overtaken |-> {}, since |-> {}]

(* What a statement of the completion sees of a finding.                     *)
Visible(f) == IF f \in tx.wrote THEN tx.finding[f] ELSE finding[f]

Init ==
  /\ asset = [a \in Assets |-> "unknown"]
  /\ finding = [f \in Findings |-> Absent]
  /\ asked = [p \in Askers |-> {}]
  /\ ai = {}
  /\ graph = NoGraph
  /\ tx = NoTx
  /\ since = {}

-----------------------------------------------------------------------------
(* Mutant of AssetsAfter: assets of other accounts are missing, too.         *)
AssetsAfterTenantWide(account, found) ==
  [a \in Assets |->
     IF a \in found THEN "present"
     ELSE IF asset[a] = "present" THEN "deleted" ELSE asset[a]]

(* upsertAssetFromResource for what the scan found of the account, then      *)
(* markMissingAssetsDeleted for what it did not.                             *)
AssetsAfter(account, found) ==
  [a \in Assets |->
     IF AccountOf[a] # account THEN asset[a]
     ELSE IF a \in found THEN "present"
     ELSE IF asset[a] = "present" THEN "deleted" ELSE asset[a]]

(* The scan of an account reports the assets found, and what its evaluators  *)
(* say of each; a policy that does not apply is skipped.  Nobody else writes *)
(* assets, so their statements are one step.                                 *)
Begin(account, found, verdict) ==
  /\ tx.at = "idle"
  /\ \A f \in Findings : f[1] \notin found => verdict[f] = "skip"
  /\ tx' = [NoTx EXCEPT
              !.at = "evaluate",
              !.account = {account},
              !.verdict = verdict,
              !.todo = {f \in Findings : verdict[f] # "skip"},
              !.asset = AssetsAfter(account, found)]
  /\ UNCHANGED <<asset, finding, asked, ai, graph, since>>

(* Mutant of Pass: only open findings are resolved.                          *)
PassOpenOnly(f) ==
  /\ tx.at = "evaluate" /\ f \in tx.todo /\ tx.verdict[f] = "pass"
  /\ tx' = IF Visible(f).status = "OPEN"
           THEN [tx EXCEPT !.todo = @ \ {f}, !.wrote = @ \cup {f},
                           !.finding[f] = [status |-> "RESOLVED", resolvedAt |-> TRUE]]
           ELSE [tx EXCEPT !.todo = @ \ {f}]
  /\ UNCHANGED <<asset, finding, asked, ai, graph, since>>

(* A policy passed: the asset's findings of it that are not resolved are.    *)
(* The order of the evaluations is left open: the scanner orders the assets. *)
Pass(f) ==
  /\ tx.at = "evaluate" /\ f \in tx.todo /\ tx.verdict[f] = "pass"
  /\ tx' = IF Visible(f).status \in Active
           THEN [tx EXCEPT !.todo = @ \ {f}, !.wrote = @ \cup {f},
                           !.finding[f] = [status |-> "RESOLVED", resolvedAt |-> TRUE]]
           ELSE [tx EXCEPT !.todo = @ \ {f}]
  /\ UNCHANGED <<asset, finding, asked, ai, graph, since>>

(* A policy failed: its finding is read by its dedupe key, without a lock.   *)
ReadFinding(f) ==
  /\ tx.at = "evaluate" /\ f \in tx.todo /\ tx.verdict[f] = "fail"
  /\ tx' = [tx EXCEPT !.at = "write", !.key = {f}, !.seen = Visible(f).status]
  /\ UNCHANGED <<asset, finding, asked, ai, graph, since>>

(* Mutants of Failing: resolvedAt is kept, or the finding is opened again    *)
(* whatever it was.                                                          *)
FailingKeepsDate(f, seen) ==
  [status |-> IF seen \in Active THEN seen ELSE "OPEN",
   resolvedAt |-> Visible(f).resolvedAt]

FailingReopened(f, seen) == [status |-> "OPEN", resolvedAt |-> FALSE]

(* What a failing policy makes of a finding it has seen with this status.    *)
Failing(f, seen) ==
  [status |-> IF seen \in Active THEN seen ELSE "OPEN", resolvedAt |-> FALSE]

(* Mutant of Purged: only HUMAN guidance is deleted.                         *)
PurgedHuman(f) == {}

(* persistRemediationForFinding deletes all guidance of the finding that it  *)
(* sees, and creates its own.                                                *)
Purged(f) == {g \in ai : g.finding = f}

(* The finding is created or updated, and its score, result, compliance      *)
(* mappings and remediations are replaced.                                   *)
WriteFinding(f) ==
  /\ tx.at = "write" /\ tx.key = {f}
  /\ tx' = [tx EXCEPT !.at = "evaluate", !.todo = @ \ {f}, !.key = {},
                      !.seen = "NONE", !.wrote = @ \cup {f},
                      !.finding[f] = Failing(f, tx.seen),
                      !.purged = @ \cup Purged(f)]
  /\ asked' = [p \in Askers |-> {[g EXCEPT !.late = @ \/ g.finding = f] : g \in asked[p]}]
  /\ UNCHANGED <<asset, finding, ai, graph, since>>

(* rebuildAttackGraph: a node for each asset not deleted, and the active     *)
(* findings of such assets, which edges are drawn from.                      *)
GraphOf ==
  LET nodes == {a \in Assets : tx.asset[a] = "present"}
  IN [nodes |-> nodes,
      findings |-> {f \in Findings : f[1] \in nodes /\ Visible(f).status \in Active}]

(* Mutant of BuildGraph: the graph is rebuilt before the policies are        *)
(* evaluated.                                                                *)
BuildGraphFirst ==
  /\ tx.at = "evaluate" /\ tx.todo = {}
  /\ tx' = [tx EXCEPT !.at = "commit",
              !.graph = [nodes |-> GraphOf.nodes,
                         findings |-> {f \in Findings : f[1] \in GraphOf.nodes
                                          /\ finding[f].status \in Active}]]
  /\ UNCHANGED <<asset, finding, asked, ai, graph, since>>

(* After the last evaluation.                                                *)
BuildGraph ==
  /\ tx.at = "evaluate" /\ tx.todo = {}
  /\ tx' = [tx EXCEPT !.at = "commit", !.graph = GraphOf]
  /\ UNCHANGED <<asset, finding, asked, ai, graph, since>>

(* The findings that the completion wrote as failing, and guidance on them.  *)
Rewritten == {f \in tx.wrote : tx.verdict[f] = "fail"}
Outdated(guidance) == {[g EXCEPT !.old = @ \/ g.finding \in Rewritten] : g \in guidance}

(* The scan event and the account's status are written, and the whole        *)
(* completion becomes visible.                                               *)
Commit ==
  /\ tx.at = "commit"
  /\ asset' = tx.asset
  /\ finding' = [f \in Findings |-> Visible(f)]
  /\ asked' = [p \in Askers |-> Outdated(asked[p])]
  /\ ai' = Outdated(ai \ tx.purged)
  /\ graph' = tx.graph
  /\ since' = tx.since
  /\ tx' = NoTx

(* A statement throws, the transaction's time is up or the worker dies.      *)
Rollback ==
  /\ CanFail
  /\ tx.at # "idle"
  /\ tx' = NoTx
  /\ UNCHANGED <<asset, finding, asked, ai, graph, since>>

-----------------------------------------------------------------------------
(* Mutant of Triaged: the status mapping has no case for an accepted risk.   *)
TriagedUnmapped(f, status) ==
  [status |-> IF status = "RISK_ACCEPTED" THEN "undefined" ELSE status,
   resolvedAt |-> status = "RESOLVED"]

(* What a status update makes of a finding.                                  *)
Triaged(f, status) == [status |-> status, resolvedAt |-> status = "RESOLVED"]

(* The completion has looked at a finding: it has read it by its key, has    *)
(* evaluated its policy as passed, or has read it for the graph.             *)
LookedAt(f) ==
  \/ tx.key = {f}
  \/ tx.verdict[f] = "pass" /\ f \notin tx.todo
  \/ tx.at = "commit"

(* FindingsService.updateStatus, one statement: it waits for a completion    *)
(* that has written the finding.                                             *)
Triage(f, status) ==
  /\ finding[f].status # "NONE"
  /\ f \notin tx.wrote
  /\ finding' = [finding EXCEPT ![f] = Triaged(f, status)]
  /\ since' = since \cup {f}
  /\ tx' = [tx EXCEPT
              !.overtaken = IF LookedAt(f) THEN @ \cup {f} ELSE @,
              !.since = IF tx.at = "commit" THEN @ \cup {f} ELSE @]
  /\ UNCHANGED <<asset, asked, ai, graph>>

(* generateForFinding reads the finding and calls the provider.              *)
AskForGuidance(p, f) ==
  /\ asked[p] = {}
  /\ finding[f].status # "NONE"
  /\ asked' = [asked EXCEPT
                 ![p] = {[finding |-> f, old |-> FALSE, late |-> f \in Rewritten]}]
  /\ UNCHANGED <<asset, finding, ai, graph, tx, since>>

(* The provider answers, and createAiGuidance inserts a row; one inserted    *)
(* after the completion deleted the finding's guidance survives it.          *)
ProviderAnswers(p) ==
  /\ asked[p] # {}
  /\ ai' = ai \cup asked[p]
  /\ asked' = [asked EXCEPT ![p] = {}]
  /\ tx' = [tx EXCEPT !.purged = @ \ asked[p]]
  /\ UNCHANGED <<asset, finding, graph, since>>

(* The provider throws.                                                      *)
ProviderFails(p) ==
  /\ asked[p] # {}
  /\ asked' = [asked EXCEPT ![p] = {}]
  /\ UNCHANGED <<asset, finding, ai, graph, tx, since>>

Next ==
  \/ \E account \in Accounts, found \in SUBSET Assets, verdict \in [Findings -> Verdicts] :
       /\ \A a \in found : AccountOf[a] = account
       /\ Begin(account, found, verdict)
  \/ \E f \in Findings : Pass(f) \/ ReadFinding(f) \/ WriteFinding(f)
  \/ BuildGraph
  \/ Commit
  \/ Rollback
  \/ \E f \in Findings, status \in Triages : Triage(f, status)
  \/ \E p \in Askers : \/ \E f \in Explained : AskForGuidance(p, f)
                       \/ ProviderAnswers(p)
                       \/ ProviderFails(p)

Spec == Init /\ [][Next]_vars

-----------------------------------------------------------------------------
Places == {"idle", "evaluate", "write", "commit"}

(* Rows are of their types; those of findings, committed or not, have a date *)
(* of resolution exactly while they are resolved, whichever of a rescan and  *)
(* a status update wrote last, and on whatever they had read                 *)
(* (persistPolicyEvaluation, updateStatusForTenant).                         *)
TypeOK ==
  /\ asset \in [Assets -> AssetStates]
  /\ finding \in [Findings -> Finding]
  /\ asked \in [Askers -> SUBSET Guidance]
  /\ ai \subseteq Guidance
  /\ graph \in Graph
  /\ since \subseteq Findings
  /\ tx \in [at : Places, account : SUBSET Accounts, verdict : [Findings -> Verdicts], todo : SUBSET Findings,
             key : SUBSET Findings, seen : Statuses, wrote : SUBSET Findings,
             asset : [Assets -> AssetStates], finding : [Findings -> Finding],
             purged : SUBSET Guidance, graph : Graph,
             overtaken : SUBSET Findings, since : SUBSET Findings]
  /\ tx.at = "write" <=> \E f \in tx.todo : tx.key = {f}

(* The committed graph shows exactly the active findings of assets that are  *)
(* not deleted, but for those somebody triaged since it was read: triage     *)
(* does not redraw it (rebuildAttackGraph).                                  *)
GraphShowsActive ==
  /\ graph.nodes = {a \in Assets : asset[a] = "present"}
  /\ \A f \in Findings \ since :
       f \in graph.findings <=> finding[f].status \in Active /\ f[1] \in graph.nodes

(* A completion about to commit says what its scan said, of every finding    *)
(* nobody triaged after it was evaluated.                                    *)
VerdictStands ==
  tx.at = "commit" => \A f \in Findings :
    /\ tx.verdict[f] = "fail" => Visible(f).status \in Active
    /\ tx.verdict[f] = "pass" /\ f \in tx.wrote => Visible(f).status = "RESOLVED"
    /\ tx.verdict[f] = "pass" /\ f \notin since => Visible(f).status \notin Active

(* A policy that still fails leaves the triage of its finding alone, unless  *)
(* the status was updated between the completion's read and its write.       *)
TriageStands ==
  \A f \in tx.wrote \ tx.overtaken :
    tx.verdict[f] = "fail" /\ finding[f].status \in Active
      => tx.finding[f].status = finding[f].status

(* AI guidance on an earlier evaluation of its finding was added after the   *)
(* later one had deleted the finding's guidance; what had been there before  *)
(* is gone, unless the completion was rolled back with its delete            *)
(* (persistRemediationForFinding, generateForFinding).                       *)
OldGuidanceIsLate == \A g \in ai : g.old => g.late

(* The assets a completion changes all belong to the account that was        *)
(* scanned: another account's assets are not missing from it                 *)
(* (upsertAssetFromResource, markMissingAssetsDeleted).                      *)
OneAccountPerScan ==
  [][\A a \in Assets : asset'[a] # asset[a] => AccountOf[a] \in tx.account]_vars

(* A completion under READ COMMITTED implements AtomicScan: it is as if it   *)
(* happened at once when it commits, but for the findings triaged after it   *)
(* had looked at them (completeJob).                                         *)
Atomic == INSTANCE AtomicScan
            WITH status  <- [f \in Findings |-> finding[f].status],
                 scanned <- tx.account,
                 raced   <- tx.overtaken
AtomicSpec == Atomic!Spec

=============================================================================
