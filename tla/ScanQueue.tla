----------------------------- MODULE ScanQueue -----------------------------
(***************************************************************************)
(* The queue of scan jobs, which is the ScanJob table: ScanJobsService     *)
(* enqueues, and the polling workers claim, scan, and complete or fail.    *)
(* A transaction of the repository is one step: it locks the row of its    *)
(* job with its first write, so another writer of that job waits for the   *)
(* commit and evaluates its guard on what it finds.  The candidate of a     *)
(* claim is read without a lock, so finding and claiming are two steps.    *)
(***************************************************************************)
EXTENDS Naturals, Sequences, FiniteSets

CONSTANTS
  Jobs,      (* the jobs that can be created, a bound of the model           *)
  Accounts,  (* the onboarded cloud accounts                                 *)
  Times,     (* the values of createdAt, a bound of the model                *)
  Workers,   (* the worker processes                                         *)
  Slots,     (* the processNextJob invocations a worker could have at once   *)
  NoJob, NoAccount, NoCall,
  CanFail,   (* whether queries throw, acknowledgements get lost and workers *)
             (* crash                                                        *)
  Hanging    (* the workers whose scanner may never answer                   *)

ASSUME QueueAssumption ==
  /\ NoJob \notin Jobs
  /\ NoAccount \notin Accounts
  /\ Times \subseteq Nat
  /\ NoCall \notin Workers \X Slots
  /\ CanFail \in BOOLEAN
  /\ Hanging \subseteq Workers

Calls == Workers \X Slots

VARIABLES
  status,     (* ScanJob.status                                              *)
  target,     (* ScanJob.cloudAccountId                                      *)
  createdAt,  (* ScanJob.createdAt                                           *)
  account,    (* CloudAccount.status and lastScanError                       *)
  processing, (* WorkerService.processing                                    *)
  call,       (* where each invocation of processNextJob is, and its job     *)
  created,    (* history: the jobs in the order their rows were committed    *)
  runner,     (* history: the invocation that claimed and still has a job    *)
  mishap,     (* history: the jobs a failure separated from their runner     *)
  lastEnded   (* history: the job of each account that ended last            *)

jobVars  == <<status, target, createdAt, created, account>>
histVars == <<runner, mishap, lastEnded>>
vars     == <<status, target, createdAt, created, account, processing, call,
              runner, mishap, lastEnded>>

JobStatuses == {"NONE", "QUEUED", "RUNNING", "SUCCEEDED", "FAILED"}
Places      == {"idle", "find", "claim", "scan", "complete", "fail"}

Idle == [at |-> "idle", job |-> NoJob]

(* Job i is older than j, and its row was there first.                       *)
Before(i, j) ==
  /\ createdAt[i] < createdAt[j]
  /\ \E m, n \in 1..Len(created) : m < n /\ created[m] = i /\ created[n] = j

Queued    == {j \in Jobs : status[j] = "QUEUED"}

(* Mutant of Oldest: the read has no order.                                  *)
AnyQueued(j) == j \in Queued

(* Of several that are equally old, any may come first.                      *)
Oldest(j) == j \in Queued /\ \A i \in Queued : createdAt[j] <= createdAt[i]

-----------------------------------------------------------------------------
Init ==
  /\ status = [j \in Jobs |-> "NONE"]
  /\ target = [j \in Jobs |-> NoAccount]
  /\ createdAt = [j \in Jobs |-> 0]
  /\ created = <<>>
  /\ account = [a \in Accounts |-> [status |-> "PENDING", error |-> FALSE]]
  /\ processing = [w \in Workers |-> FALSE]
  /\ call = [c \in Calls |-> Idle]
  /\ runner = [j \in Jobs |-> NoCall]
  /\ mishap = {}
  /\ lastEnded = [a \in Accounts |-> NoJob]

(* ScanJobsService.create for an account of the tenant.  Nothing stops a     *)
(* second job for an account that has one queued or running.  The step is    *)
(* the commit of the insert: createdAt was drawn before it, so it may be     *)
(* older than that of a row which is there already, or the same.             *)
CreateJob(j, a, time) ==
  /\ status[j] = "NONE"
  /\ status' = [status EXCEPT ![j] = "QUEUED"]
  /\ target' = [target EXCEPT ![j] = a]
  /\ createdAt' = [createdAt EXCEPT ![j] = time]
  /\ created' = Append(created, j)
  /\ UNCHANGED <<account, processing, call, histVars>>

(* The timer fires; an invocation that finds processing set returns at once. *)
Tick(c) ==
  /\ ~processing[c[1]]
  /\ call[c].at = "idle"
  /\ processing' = [processing EXCEPT ![c[1]] = TRUE]
  /\ call' = [call EXCEPT ![c].at = "find"]
  /\ UNCHANGED <<jobVars, histVars>>

(* Mutant of Return: the flag is not reset.                                  *)
ReturnKeepingFlag(c) ==
  /\ call' = [call EXCEPT ![c] = Idle]
  /\ UNCHANGED processing

(* The invocation returns or throws: finally resets processing.              *)
Return(c) ==
  /\ call' = [call EXCEPT ![c] = Idle]
  /\ processing' = [processing EXCEPT ![c[1]] = FALSE]

(* The read of claimNextJob.                                                 *)
FindJob(c, j) ==
  /\ call[c].at = "find"
  /\ Oldest(j)
  /\ call' = [call EXCEPT ![c] = [at |-> "claim", job |-> j]]
  /\ UNCHANGED <<jobVars, processing, histVars>>

(* Mutant of FindNothing: the empty answer is not tested.                    *)
FindNothingClaims(c) ==
  /\ call[c].at = "find"
  /\ Queued = {}
  /\ call' = [call EXCEPT ![c].at = "claim"]
  /\ UNCHANGED <<jobVars, processing, histVars>>

FindNothing(c) ==
  /\ call[c].at = "find"
  /\ Queued = {}
  /\ Return(c)
  /\ UNCHANGED <<jobVars, histVars>>

(* Mutants of Claim: an update by id alone, and a claim that answers null.   *)
ClaimUnguarded(c) ==
  /\ call[c].at = "claim"
  /\ status' = [status EXCEPT ![call[c].job] = "RUNNING"]
  /\ runner' = [runner EXCEPT ![call[c].job] = c]
  /\ call' = [call EXCEPT ![c].at = "scan"]
  /\ UNCHANGED <<target, createdAt, created, account, processing, mishap, lastEnded>>

ClaimAnsweringNull(c) ==
  /\ call[c].at = "claim"
  /\ status' = [status EXCEPT ![call[c].job] = IF @ = "QUEUED" THEN "RUNNING" ELSE @]
  /\ Return(c)
  /\ UNCHANGED <<target, createdAt, created, account, histVars>>

(* The guarded update of claimNextJob: no row changed means that another     *)
(* worker has the job, and the poll ends with nothing.                       *)
Claim(c) ==
  LET j == call[c].job
  IN /\ call[c].at = "claim"
     /\ \/ /\ status[j] = "QUEUED"
           /\ status' = [status EXCEPT ![j] = "RUNNING"]
           /\ runner' = [runner EXCEPT ![j] = c]
           /\ call' = [call EXCEPT ![c].at = "scan"]
           /\ UNCHANGED processing
        \/ /\ status[j] # "QUEUED"
           /\ Return(c)
           /\ UNCHANGED <<status, runner>>
     /\ UNCHANGED <<target, createdAt, created, account, mishap, lastEnded>>

(* Mutant of Scan: a scanner error is not caught.                            *)
ScanUncaught(c) ==
  /\ call[c].at = "scan"
  /\ \/ call' = [call EXCEPT ![c].at = "complete"] /\ UNCHANGED processing
     \/ Return(c)
  /\ UNCHANGED <<jobVars, histVars>>

(* AwsReadOnlyScanner.scan answers or throws.                                *)
Scan(c) ==
  /\ call[c].at = "scan"
  /\ \E next \in {"complete", "fail"} : call' = [call EXCEPT ![c].at = next]
  /\ UNCHANGED <<jobVars, processing, histVars>>

(* Mutant of EndJob: the account hears of successes only.                    *)
EndJobOnSuccess(j, outcome, accountAfter) ==
  /\ status' = [status EXCEPT ![j] = outcome]
  /\ account' = [account EXCEPT ![target[j]] =
                   IF outcome = "SUCCEEDED" THEN accountAfter ELSE @]
  /\ runner' = [runner EXCEPT ![j] = NoCall]
  /\ lastEnded' = [lastEnded EXCEPT ![target[j]] = j]
  /\ UNCHANGED <<target, createdAt, created, mishap>>

(* What the transactions of completeJob and failJob write when their guard   *)
(* on RUNNING holds.                                                         *)
EndJob(j, outcome, accountAfter) ==
  /\ status' = [status EXCEPT ![j] = outcome]
  /\ account' = [account EXCEPT ![target[j]] = accountAfter]
  /\ runner' = [runner EXCEPT ![j] = NoCall]
  /\ lastEnded' = [lastEnded EXCEPT ![target[j]] = j]
  /\ UNCHANGED <<target, createdAt, created, mishap>>

(* completeJob: throws when the job is not running, which leads to failJob.  *)
Complete(c) ==
  LET j == call[c].job
  IN /\ call[c].at = "complete"
     /\ \/ /\ status[j] = "RUNNING"
           /\ EndJob(j, "SUCCEEDED", [status |-> "ACTIVE", error |-> FALSE])
           /\ Return(c)
        \/ /\ status[j] # "RUNNING"
           /\ call' = [call EXCEPT ![c].at = "fail"]
           /\ UNCHANGED <<jobVars, processing, histVars>>

(* Mutant of FailJob: an update by id alone.                                 *)
FailJobUnguarded(c) ==
  /\ call[c].at = "fail"
  /\ Return(c)
  /\ EndJob(call[c].job, "FAILED", [status |-> "ERROR", error |-> TRUE])

(* failJob: returns silently when the job is not running.                    *)
FailJob(c) ==
  LET j == call[c].job
  IN /\ call[c].at = "fail"
     /\ Return(c)
     /\ \/ /\ status[j] = "RUNNING"
           /\ EndJob(j, "FAILED", [status |-> "ERROR", error |-> TRUE])
        \/ /\ status[j] # "RUNNING"
           /\ UNCHANGED <<jobVars, histVars>>

-----------------------------------------------------------------------------
(* Failures.  A transaction that throws has rolled back, or has committed    *)
(* without its caller hearing of it.                                         *)

(* claimNextJob throws: the poll's catch only logs.  After an unheard commit *)
(* the job is running and nobody runs it.                                    *)
ClaimThrows(c) ==
  LET j == call[c].job
  IN /\ CanFail
     /\ call[c].at \in {"find", "claim"}
     /\ Return(c)
     /\ \/ UNCHANGED <<status, mishap>>
        \/ /\ call[c].at = "claim" /\ status[j] = "QUEUED"
           /\ status' = [status EXCEPT ![j] = "RUNNING"]
           /\ mishap' = mishap \cup {j}
     /\ UNCHANGED <<target, createdAt, created, account, runner, lastEnded>>

(* completeJob throws: runClaimedJob's catch goes on to failJob.             *)
CompleteThrows(c) ==
  LET j == call[c].job
  IN /\ CanFail
     /\ call[c].at = "complete"
     /\ call' = [call EXCEPT ![c].at = "fail"]
     /\ UNCHANGED processing
     /\ \/ UNCHANGED <<jobVars, histVars>>
        \/ /\ status[j] = "RUNNING"
           /\ EndJob(j, "SUCCEEDED", [status |-> "ACTIVE", error |-> FALSE])

(* failJob throws: the poll's catch only logs, and nobody returns to the job.*)
FailJobThrows(c) ==
  LET j == call[c].job
  IN /\ CanFail
     /\ call[c].at = "fail"
     /\ Return(c)
     /\ \/ /\ runner' = [i \in Jobs |-> IF runner[i] = c THEN NoCall ELSE runner[i]]
           /\ mishap' = mishap \cup {j}
           /\ UNCHANGED <<jobVars, lastEnded>>
        \/ /\ status[j] = "RUNNING"
           /\ EndJob(j, "FAILED", [status |-> "ERROR", error |-> TRUE])

(* A worker dies and starts again: its flag and invocations are gone, the    *)
(* table is not.                                                             *)
Crash(w) ==
  LET dead == {c \in Calls : c[1] = w}
      held == {j \in Jobs : runner[j] \in dead}
  IN /\ CanFail
     /\ processing' = [processing EXCEPT ![w] = FALSE]
     /\ call' = [c \in Calls |-> IF c \in dead THEN Idle ELSE call[c]]
     /\ runner' = [j \in Jobs |-> IF j \in held THEN NoCall ELSE runner[j]]
     /\ mishap' = mishap \cup held
     /\ UNCHANGED <<jobVars, lastEnded>>

-----------------------------------------------------------------------------
(* What an invocation does on its own once it has started.                   *)
Step(c) ==
  \/ \E j \in Jobs : FindJob(c, j)
  \/ FindNothing(c)
  \/ Claim(c)
  \/ Scan(c)
  \/ Complete(c)
  \/ FailJob(c)

Throws(c) == ClaimThrows(c) \/ CompleteThrows(c) \/ FailJobThrows(c)

(* What happens when nothing fails.                                          *)
Regular ==
  \/ \E j \in Jobs, a \in Accounts, time \in Times : CreateJob(j, a, time)
  \/ \E c \in Calls : Tick(c) \/ Step(c)

Next ==
  \/ Regular
  \/ \E c \in Calls : Throws(c)
  \/ \E w \in Workers : Crash(w)

Spec == Init /\ [][Next]_vars

(* The timer of every worker keeps firing, and an invocation whose query has *)
(* returned goes on.  A scanner's call has no deadline of its own: only that *)
(* of the workers that do not hang is sure to answer or throw.  Nothing      *)
(* makes anybody request a scan.                                             *)
Proceed(c) == call[c].at # "scan" /\ Step(c)

FairSpec ==
  /\ Spec
  /\ \A w \in Workers : WF_vars(\E s \in Slots : Tick(<<w, s>>))
  /\ \A c \in Calls : WF_vars(Proceed(c))
  /\ \A c \in {d \in Calls : d[1] \notin Hanging} : WF_vars(Scan(c))

-----------------------------------------------------------------------------
Working == {"scan", "complete", "fail"}

AccountStates == [status : {"PENDING", "ACTIVE", "ERROR"}, error : BOOLEAN]

TypeOK ==
  /\ status \in [Jobs -> JobStatuses]
  /\ target \in [Jobs -> Accounts \cup {NoAccount}]
  /\ createdAt \in [Jobs -> Times \cup {0}]
  /\ created \in Seq(Jobs)
  /\ account \in [Accounts -> AccountStates]
  /\ processing \in [Workers -> BOOLEAN]
  /\ call \in [Calls -> [at : Places, job : Jobs \cup {NoJob}]]
  /\ runner \in [Jobs -> Calls \cup {NoCall}]
  /\ mishap \subseteq Jobs
  /\ lastEnded \in [Accounts -> Jobs \cup {NoJob}]
  /\ \A c \in Calls : (call[c].job # NoJob) <=> (call[c].at \in Working \cup {"claim"})

(* However claims race, no two invocations, of one worker or of several, run *)
(* the same job (the guarded update of claimNextJob).                        *)
OneRunner ==
  \A c, d \in Calls :
    /\ c # d
    /\ call[c].at \in Working
    /\ call[d].at \in Working
    => call[c].job # call[d].job

(* A job that has a runner is running, and its runner is at work on it: no   *)
(* path through processNextJob leaves a claimed job behind.                  *)
RunnerAtWork ==
  \A j \in Jobs : runner[j] # NoCall =>
    /\ status[j] = "RUNNING"
    /\ call[runner[j]].at \in Working
    /\ call[runner[j]].job = j

(* The processing flag is up exactly while the worker has an invocation past *)
(* its test, and it never has two (processNextJob and its finally).          *)
ProcessingGuards ==
  \A w \in Workers :
    LET busy == {c \in Calls : c[1] = w /\ call[c].at # "idle"}
    IN /\ processing[w] <=> busy # {}
       /\ Cardinality(busy) <= 1

(* A job left running by nobody was separated from its runner by a failure:  *)
(* a crash, an unheard claim, or a failJob that threw.                       *)
OrphanHasCause ==
  \A j \in Jobs : status[j] = "RUNNING" /\ runner[j] = NoCall => j \in mishap

(* A running job has a runner that is at work on it, unless a failure took   *)
(* it away.                                                                  *)
RunningHasRunner == RunnerAtWork /\ OrphanHasCause

(* The account tells how its last ended job ended, also when jobs of one     *)
(* account run at the same time (completeJob and failJob).                   *)
AccountTellsLastEnd ==
  \A a \in Accounts : lastEnded[a] # NoJob =>
    \/ /\ status[lastEnded[a]] = "SUCCEEDED"
       /\ account[a] = [status |-> "ACTIVE", error |-> FALSE]
    \/ /\ status[lastEnded[a]] = "FAILED"
       /\ account[a] = [status |-> "ERROR", error |-> TRUE]

(* No job is claimed while an older one waits that was in the table before   *)
(* it, although candidates are read before they are claimed: what a claim    *)
(* passes over came later, or is of the same instant (claimNextJob).         *)
OldestFirst ==
  [][\A i, j \in Jobs :
       /\ status[j] = "QUEUED" /\ status'[j] = "RUNNING"
       /\ status[i] = "QUEUED"
       => ~Before(i, j)]_vars

(* The queue implements JobLifecycle.                                        *)
Lifecycle == INSTANCE JobLifecycle WITH Runners <- Calls, NoRunner <- NoCall
LifecycleSpec == Lifecycle!Spec

(* The scan of this invocation need not ever answer.                         *)
Hung(c) == c[1] \in Hanging /\ call[c].at = "scan"

(* Once failures cease, every queued job is claimed and ends, except those   *)
(* that a failure separated from their runner, and those whose own scan      *)
(* hangs: the jobs behind them are for the other workers (processNextJob).   *)
EveryJobEnds ==
  <>[][Regular]_vars =>
    \A j \in Jobs :
      status[j] = "QUEUED" ~>
        \/ status[j] \in {"SUCCEEDED", "FAILED"} \/ j \in mishap
        \/ \E c \in Calls : Hung(c) /\ call[c].job = j

(* Whatever fails, a worker always comes back to polling, unless its scanner *)
(* hangs: then the flag stays up and it claims nothing more.                 *)
PollingGoesOn ==
  \A w \in Workers :
    processing[w] ~> ~processing[w] \/ \E s \in Slots : Hung(<<w, s>>)

=============================================================================
