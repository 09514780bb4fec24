---------------------------- MODULE JobLifecycle ----------------------------
(***************************************************************************)
(* What the scan queue promises, whatever workers do: a job is queued once, *)
(* claimed once, run by one runner at a time, ended by the runner that      *)
(* claimed it, and never changed after its end.  A runner may be lost; the  *)
(* code has no lease, so the job is then left running.                      *)
(***************************************************************************)
CONSTANTS Jobs, Runners, NoRunner

VARIABLES status, runner

lifecycleVars == <<status, runner>>

Init ==
  /\ status = [j \in Jobs |-> "NONE"]
  /\ runner = [j \in Jobs |-> NoRunner]

Create(j) ==
  /\ status[j] = "NONE"
  /\ status' = [status EXCEPT ![j] = "QUEUED"]
  /\ UNCHANGED runner

(* A free runner takes a queued job.                                         *)
Claim(j, r) ==
  /\ status[j] = "QUEUED"
  /\ \A k \in Jobs : runner[k] # r
  /\ status' = [status EXCEPT ![j] = "RUNNING"]
  /\ runner' = [runner EXCEPT ![j] = r]

(* The claim is stored but its runner never learns of it.                    *)
ClaimUnheard(j) ==
  /\ status[j] = "QUEUED"
  /\ status' = [status EXCEPT ![j] = "RUNNING"]
  /\ UNCHANGED runner

End(j, outcome) ==
  /\ status[j] = "RUNNING"
  /\ runner[j] # NoRunner
  /\ status' = [status EXCEPT ![j] = outcome]
  /\ runner' = [runner EXCEPT ![j] = NoRunner]

(* Runners die, each with the job it holds.                                  *)
Abandon(S) ==
  /\ runner' = [j \in Jobs |-> IF j \in S THEN NoRunner ELSE runner[j]]
  /\ UNCHANGED status

Next ==
  \/ \E j \in Jobs :
       \/ Create(j)
       \/ \E r \in Runners : Claim(j, r)
       \/ ClaimUnheard(j)
       \/ \E outcome \in {"SUCCEEDED", "FAILED"} : End(j, outcome)
  \/ \E S \in SUBSET Jobs : Abandon(S)

Spec == Init /\ [][Next]_lifecycleVars

=============================================================================
