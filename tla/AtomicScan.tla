----------------------------- MODULE AtomicScan -----------------------------
(***************************************************************************)
(* What the completion of a scan promises those who read and triage the    *)
(* findings of a tenant: it happens at once or not at all, on the findings *)
(* as they are at that moment.  Only the findings that somebody triaged    *)
(* after the completion had looked at them may end up otherwise, and those *)
(* not anyhow.                                                             *)
(***************************************************************************)
CONSTANTS Assets, Policies, Accounts, AccountOf, Triages

VARIABLES
  asset,    (* never seen, present or deleted                                *)
  status,   (* the status of each finding, NONE if there is none             *)
  graph,    (* the assets that are nodes, the findings drawn as edges        *)
  scanned,  (* the account whose scan is being completed, if any             *)
  raced     (* the findings triaged after it had looked at them              *)

scanVars == <<asset, status, graph, scanned, raced>>

Findings == Assets \X Policies
Active   == {"OPEN", "TRIAGED", "RISK_ACCEPTED"}
Verdicts == {"skip", "pass", "fail"}

Init ==
  /\ asset = [a \in Assets |-> "unknown"]
  /\ status = [f \in Findings |-> "NONE"]
  /\ graph = [nodes |-> {}, findings |-> {}]
  /\ scanned = {}
  /\ raced = {}

Start(account) ==
  /\ scanned = {}
  /\ scanned' = {account}
  /\ raced' = {}
  /\ UNCHANGED <<asset, status, graph>>

GiveUp ==
  /\ scanned # {}
  /\ scanned' = {}
  /\ raced' = {}
  /\ UNCHANGED <<asset, status, graph>>

Triage(f, s) ==
  /\ status[f] # "NONE"
  /\ status' = [status EXCEPT ![f] = s]
  /\ \/ UNCHANGED raced
     \/ scanned # {} /\ raced' = raced \cup {f}
  /\ UNCHANGED <<asset, graph, scanned>>

(* What a scan makes of a finding, by the verdict on its asset.              *)
Rescanned(s, verdict) ==
  CASE verdict = "fail" -> IF s \in Active THEN s ELSE "OPEN"
    [] verdict = "pass" -> IF s \in Active THEN "RESOLVED" ELSE s
    [] OTHER -> s

(* What it may make of one that was triaged meanwhile.                       *)
RescannedLate(s, verdict) ==
  CASE verdict = "fail" -> Active
    [] verdict = "pass" -> {s, "RESOLVED"}
    [] OTHER -> {s}

(* The scan of an account found these assets of it, and nothing else there.  *)
Complete(account, found, verdict) ==
  /\ scanned = {account}
  /\ \A a \in found : AccountOf[a] = account
  /\ \A f \in Findings : verdict[f] # "skip" => f[1] \in found
  /\ asset' = [a \in Assets |->
                 IF a \in found THEN "present"
                 ELSE IF AccountOf[a] = account /\ asset[a] = "present" THEN "deleted"
                 ELSE asset[a]]
  /\ \A f \in Findings :
       IF f \in raced THEN status'[f] \in RescannedLate(status[f], verdict[f])
       ELSE status'[f] = Rescanned(status[f], verdict[f])
  /\ graph'.nodes = {a \in Assets : asset'[a] = "present"}
  /\ \A f \in graph'.findings : f[1] \in graph'.nodes
  /\ \A f \in Findings \ raced :
       f[1] \in graph'.nodes => (f \in graph'.findings <=> status'[f] \in Active)
  /\ scanned' = {}
  /\ raced' = {}

Next ==
  \/ \E account \in Accounts : Start(account)
  \/ GiveUp
  \/ \E f \in Findings, s \in Triages : Triage(f, s)
  \/ \E account \in Accounts, found \in SUBSET Assets, verdict \in [Findings -> Verdicts] :
       Complete(account, found, verdict)

Spec == Init /\ [][Next]_scanVars

=============================================================================
