-------------------------- MODULE ScanQueueProofs --------------------------
(***************************************************************************)
(* Proofs about ScanQueue, for every set of jobs, accounts, workers and    *)
(* slots, with and without failures.                                       *)
(***************************************************************************)
EXTENDS ScanQueue, FiniteSetTheorems, TLAPS

CallState == [at : Places, job : Jobs \cup {NoJob}]

Holding == Working \cup {"claim"}

(* A created job names its account, and the list of creations holds created  *)
(* jobs only.                                                                *)
CreatedHaveTarget == \A j \in Jobs : status[j] # "NONE" => target[j] \in Accounts

ListedAreCreated == \A n \in 1..Len(created) : status[created[n]] # "NONE"

(* An invocation that holds a job holds one that was created.                *)
HeldAreCreated ==
  \A c \in Calls : call[c].at \in Holding => status[call[c].job] # "NONE"

(* The inductive invariant of type correctness.                              *)
Typed ==
  /\ TypeOK
  /\ CreatedHaveTarget
  /\ ListedAreCreated
  /\ HeldAreCreated

USE DEF Places, Working, Holding, CallState, JobStatuses

-----------------------------------------------------------------------------
(* The two ways an invocation changes: it goes on with its job, or returns.  *)
LEMMA CallGoesOn ==
  ASSUME TypeOK, NEW c \in Calls, NEW place \in Places,
         call' = [call EXCEPT ![c].at = place]
  PROVE  /\ call' \in [Calls -> CallState]
         /\ call'[c].at = place
         /\ call'[c].job = call[c].job
         /\ \A d \in Calls : d # c => call'[d] = call[d]
BY DEF TypeOK

LEMMA CallReturns ==
  ASSUME TypeOK, NEW c \in Calls, Return(c)
  PROVE  /\ call' \in [Calls -> CallState]
         /\ call'[c] = Idle
         /\ Idle.at = "idle" /\ Idle.job = NoJob
         /\ \A d \in Calls : d # c => call'[d] = call[d]
BY DEF TypeOK, Return, Idle

(* An invocation that holds a job holds a member of Jobs.                    *)
LEMMA HeldJob ==
  ASSUME Typed, NEW c \in Calls, call[c].at \in Holding
  PROVE  /\ call[c].job \in Jobs
         /\ status[call[c].job] # "NONE"
         /\ target[call[c].job] \in Accounts
<1>1. call[c].job \in Jobs
  BY DEF Typed, TypeOK
<1>2. status[call[c].job] # "NONE"
  BY DEF Typed, HeldAreCreated
<1>3. QED
  BY <1>1, <1>2 DEF Typed, CreatedHaveTarget

-----------------------------------------------------------------------------
LEMMA TypedInit == Init => Typed
<1> SUFFICES ASSUME Init PROVE Typed
  OBVIOUS
<1>1. TypeOK
  BY DEF Init, TypeOK, Idle, AccountStates
<1>2. CreatedHaveTarget /\ ListedAreCreated /\ HeldAreCreated
  BY DEF Init, CreatedHaveTarget, ListedAreCreated, HeldAreCreated, Idle
<1>3. QED
  BY <1>1, <1>2 DEF Typed

(* The part of type correctness that is about the invocations.               *)
CallsTyped ==
  /\ call \in [Calls -> CallState]
  /\ \A c \in Calls : (call[c].job # NoJob) <=> (call[c].at \in Holding)

LEMMA CallsTypedStep ==
  ASSUME Typed, [Next]_vars
  PROVE  CallsTyped'
<1> USE DEF CallsTyped
<1>a. TypeOK
  BY DEF Typed
<1>b. CallsTyped
  BY <1>a DEF TypeOK
<1>c. ASSUME NEW c \in Calls, Return(c) PROVE CallsTyped'
  BY <1>a, <1>b, <1>c, CallReturns
<1>d. ASSUME NEW c \in Calls, NEW place \in Places, call[c].at \in Holding <=> place \in Holding,
             call' = [call EXCEPT ![c].at = place]
      PROVE  CallsTyped'
  BY <1>a, <1>b, <1>d, CallGoesOn
<1>e. ASSUME UNCHANGED call PROVE CallsTyped'
  BY <1>b, <1>e
<1>1. ASSUME NEW c \in Calls, Tick(c) PROVE CallsTyped'
  BY <1>1, <1>d DEF Tick
<1>2. ASSUME NEW c \in Calls, NEW j \in Jobs, FindJob(c, j) PROVE CallsTyped'
  <2>1. j # NoJob
    BY QueueAssumption
  <2>2. QED
    BY <1>2, <1>b, <2>1 DEF FindJob
<1>3. ASSUME NEW c \in Calls, Claim(c) PROVE CallsTyped'
  BY <1>3, <1>c, <1>d DEF Claim
<1>4. ASSUME NEW c \in Calls, Scan(c) PROVE CallsTyped'
  BY <1>4, <1>d DEF Scan
<1>5. ASSUME NEW c \in Calls, Complete(c) PROVE CallsTyped'
  BY <1>5, <1>c, <1>d DEF Complete
<1>6. ASSUME NEW c \in Calls, CompleteThrows(c) PROVE CallsTyped'
  BY <1>6, <1>d DEF CompleteThrows
<1>7. ASSUME NEW w \in Workers, Crash(w) PROVE CallsTyped'
  BY <1>7, <1>b DEF Crash, Idle
<1>8. QED
  BY <1>c, <1>e, <1>1, <1>2, <1>3, <1>4, <1>5, <1>6, <1>7
     DEF Next, Regular, Step, Throws, vars, jobVars, CreateJob, FindNothing, FailJob,
         ClaimThrows, FailJobThrows

-----------------------------------------------------------------------------
Ended == {"SUCCEEDED", "FAILED"}

(* A status never goes back, and never changes after the end of the job.     *)
Onward ==
  \A j \in Jobs :
    /\ status[j] # "NONE" => status'[j] # "NONE"
    /\ status[j] \notin {"NONE", "QUEUED"} => status'[j] # "QUEUED"
    /\ status[j] \in Ended => status'[j] = status[j]

LEMMA StatusSteps ==
  ASSUME Typed, [Next]_vars
  PROVE  Onward /\ status' \in [Jobs -> JobStatuses]
<1> USE DEF Onward, Ended
<1>a. status \in [Jobs -> JobStatuses]
  BY DEF Typed, TypeOK
<1>b. ASSUME NEW j \in Jobs, status[j] \notin Ended, NEW new \in {"RUNNING", "SUCCEEDED", "FAILED"},
             status' = [status EXCEPT ![j] = new]
      PROVE  Onward /\ status' \in [Jobs -> JobStatuses]
  BY <1>a, <1>b
<1>c. ASSUME UNCHANGED status
      PROVE  Onward /\ status' \in [Jobs -> JobStatuses]
  BY <1>a, <1>c
<1>1. ASSUME NEW j \in Jobs, NEW a \in Accounts, NEW time \in Times, CreateJob(j, a, time)
      PROVE  Onward /\ status' \in [Jobs -> JobStatuses]
  BY <1>a, <1>1 DEF CreateJob
<1>2. ASSUME NEW c \in Calls, Claim(c)
      PROVE  Onward /\ status' \in [Jobs -> JobStatuses]
  BY <1>2, <1>b, <1>c, HeldJob DEF Claim
<1>3. ASSUME NEW c \in Calls, Complete(c) \/ CompleteThrows(c)
      PROVE  Onward /\ status' \in [Jobs -> JobStatuses]
  BY <1>3, <1>b, <1>c, HeldJob DEF Complete, CompleteThrows, EndJob, jobVars
<1>4. ASSUME NEW c \in Calls, FailJob(c) \/ FailJobThrows(c)
      PROVE  Onward /\ status' \in [Jobs -> JobStatuses]
  BY <1>4, <1>b, <1>c, HeldJob DEF FailJob, FailJobThrows, EndJob, jobVars
<1>5. ASSUME NEW c \in Calls, ClaimThrows(c)
      PROVE  Onward /\ status' \in [Jobs -> JobStatuses]
  BY <1>5, <1>b, <1>c, HeldJob DEF ClaimThrows
<1>6. QED
  BY <1>c, <1>1, <1>2, <1>3, <1>4, <1>5
     DEF Next, Regular, Step, Throws, vars, jobVars, Tick, FindJob, FindNothing, Scan, Crash

(* Jobs are created one at a time, each for an account.                      *)
LEMMA CreationSteps ==
  ASSUME Typed, [Next]_vars
  PROVE  \/ UNCHANGED <<target, createdAt, created>> /\ \A j \in Jobs : status[j] = "NONE" => status'[j] = "NONE"
         \/ \E j \in Jobs, a \in Accounts, time \in Times : CreateJob(j, a, time)
<1>a. status \in [Jobs -> JobStatuses]
  BY DEF Typed, TypeOK
<1>1. ASSUME NEW j \in Jobs, status[j] # "NONE", NEW new, status' = [status EXCEPT ![j] = new]
      PROVE  \A i \in Jobs : status[i] = "NONE" => status'[i] = "NONE"
  BY <1>a, <1>1
<1>2. ASSUME NEW c \in Calls, Claim(c) \/ ClaimThrows(c)
      PROVE  UNCHANGED <<target, createdAt, created>> /\ \A j \in Jobs : status[j] = "NONE" => status'[j] = "NONE"
  BY <1>1, <1>2, HeldJob DEF Claim, ClaimThrows
<1>3. ASSUME NEW c \in Calls, call[c].at \in Holding, NEW outcome, NEW after,
             EndJob(call[c].job, outcome, after)
      PROVE  UNCHANGED <<target, createdAt, created>> /\ \A j \in Jobs : status[j] = "NONE" => status'[j] = "NONE"
  BY <1>1, <1>3, HeldJob DEF EndJob
<1>5. ASSUME UNCHANGED jobVars
      PROVE  UNCHANGED <<target, createdAt, created>> /\ \A j \in Jobs : status[j] = "NONE" => status'[j] = "NONE"
  BY <1>5 DEF jobVars
<1>6. ASSUME NEW c \in Calls, Complete(c) \/ CompleteThrows(c) \/ FailJob(c) \/ FailJobThrows(c)
      PROVE  UNCHANGED <<target, createdAt, created>> /\ \A j \in Jobs : status[j] = "NONE" => status'[j] = "NONE"
  BY <1>3, <1>5, <1>6 DEF Complete, CompleteThrows, FailJob, FailJobThrows
<1>4. QED
  BY <1>2, <1>5, <1>6 DEF Next, Regular, Step, Throws, vars, jobVars, Tick, FindJob, FindNothing, Scan, Crash

(* The part that is about the accounts, the flags and the history.           *)
OthersTyped ==
  /\ account \in [Accounts -> AccountStates]
  /\ processing \in [Workers -> BOOLEAN]
  /\ runner \in [Jobs -> Calls \cup {NoCall}]
  /\ mishap \subseteq Jobs
  /\ lastEnded \in [Accounts -> Jobs \cup {NoJob}]

LEMMA OthersTypedStep ==
  ASSUME Typed, [Next]_vars
  PROVE  OthersTyped'
<1>a. OthersTyped
  BY DEF Typed, TypeOK, OthersTyped
<1> USE DEF OthersTyped, histVars, jobVars
<1>b. \A c \in Calls : c[1] \in Workers
  BY DEF Calls
<1>c. ASSUME NEW c \in Calls, Return(c) PROVE processing' \in [Workers -> BOOLEAN]
  BY <1>a, <1>b, <1>c DEF Return
<1>d. ASSUME NEW c \in Calls, call[c].at \in Holding, NEW outcome, NEW after \in AccountStates,
             EndJob(call[c].job, outcome, after)
      PROVE  /\ account' \in [Accounts -> AccountStates]
             /\ runner' \in [Jobs -> Calls \cup {NoCall}]
             /\ mishap' \subseteq Jobs
             /\ lastEnded' \in [Accounts -> Jobs \cup {NoJob}]
  BY <1>a, <1>d, HeldJob DEF EndJob
<1>e. [status |-> "ACTIVE", error |-> FALSE] \in AccountStates
      /\ [status |-> "ERROR", error |-> TRUE] \in AccountStates
  BY DEF AccountStates
<1>1. ASSUME NEW c \in Calls, Tick(c) PROVE OthersTyped'
  BY <1>a, <1>b, <1>1 DEF Tick
<1>2. ASSUME NEW c \in Calls, Claim(c) PROVE OthersTyped'
  <2>1. processing' \in [Workers -> BOOLEAN]
    BY <1>a, <1>c, <1>2 DEF Claim
  <2>2. runner' \in [Jobs -> Calls \cup {NoCall}]
    BY <1>a, <1>2, HeldJob DEF Claim
  <2>3. QED
    BY <1>a, <1>2, <2>1, <2>2 DEF Claim
<1>3. ASSUME NEW c \in Calls, Complete(c) PROVE OthersTyped'
  BY <1>a, <1>c, <1>d, <1>e, <1>3 DEF Complete
<1>4. ASSUME NEW c \in Calls, FailJob(c) PROVE OthersTyped'
  BY <1>a, <1>c, <1>d, <1>e, <1>4 DEF FailJob
<1>5. ASSUME NEW c \in Calls, ClaimThrows(c) PROVE OthersTyped'
  BY <1>a, <1>c, <1>5, HeldJob DEF ClaimThrows
<1>6. ASSUME NEW c \in Calls, CompleteThrows(c) PROVE OthersTyped'
  BY <1>a, <1>d, <1>e, <1>6 DEF CompleteThrows
<1>7. ASSUME NEW c \in Calls, FailJobThrows(c) PROVE OthersTyped'
  BY <1>a, <1>c, <1>d, <1>e, <1>7, HeldJob DEF FailJobThrows
<1>8. ASSUME NEW w \in Workers, Crash(w) PROVE OthersTyped'
  BY <1>a, <1>8 DEF Crash
<1>9. QED
  BY <1>a, <1>c, <1>1, <1>2, <1>3, <1>4, <1>5, <1>6, <1>7, <1>8
     DEF Next, Regular, Step, Throws, vars, CreateJob, FindJob, FindNothing, Scan

(* A job in hand was in hand before, and a candidate was a candidate, unless *)
(* the invocation has just read it.                                          *)
KeepsJob(c) ==
  /\ call[c].at \in Holding
  /\ call'[c].job = call[c].job
  /\ call'[c].at = "claim" => call[c].at = "claim"

LEMMA HoldingSteps ==
  ASSUME Typed, [Next]_vars, NEW c \in Calls, call'[c].at \in Holding
  PROVE  KeepsJob(c) \/ \E j \in Jobs : FindJob(c, j)
<1> USE DEF KeepsJob
<1>a. TypeOK
  BY DEF Typed
<1>1. ASSUME NEW d \in Calls, Return(d) PROVE KeepsJob(c)
  BY <1>a, <1>1, CallReturns
<1>2. ASSUME NEW d \in Calls, NEW place \in Places \ {"claim"},
             place \in Holding => call[d].at \in Holding,
             call' = [call EXCEPT ![d].at = place]
      PROVE  KeepsJob(c)
  BY <1>a, <1>2, CallGoesOn
<1>3. ASSUME UNCHANGED call PROVE KeepsJob(c)
  BY <1>3
<1>4. ASSUME NEW d \in Calls, NEW j \in Jobs, FindJob(d, j), c # d PROVE KeepsJob(c)
  BY <1>a, <1>4 DEF FindJob, TypeOK
<1>5. ASSUME NEW d \in Calls, Tick(d) PROVE KeepsJob(c)
  BY <1>2, <1>5 DEF Tick
<1>6. ASSUME NEW d \in Calls, Claim(d) \/ Scan(d) \/ Complete(d) \/ CompleteThrows(d)
      PROVE  KeepsJob(c)
  BY <1>1, <1>2, <1>6 DEF Claim, Scan, Complete, CompleteThrows
<1>7. ASSUME NEW w \in Workers, Crash(w) PROVE KeepsJob(c)
  BY <1>7 DEF Crash, Idle
<1>8. QED
  BY <1>1, <1>3, <1>4, <1>5, <1>6, <1>7
     DEF Next, Regular, Step, Throws, vars, jobVars, CreateJob, FindNothing, FailJob,
         ClaimThrows, FailJobThrows

LEMMA TypedStep == Typed /\ [Next]_vars => Typed'
<1> SUFFICES ASSUME Typed, [Next]_vars PROVE Typed'
  OBVIOUS
<1>a. TypeOK
  BY DEF Typed
<1>b. Onward /\ status' \in [Jobs -> JobStatuses]
  BY StatusSteps
<1>c. CallsTyped'
  BY CallsTypedStep
<1>1. /\ target' \in [Jobs -> Accounts \cup {NoAccount}]
      /\ createdAt' \in [Jobs -> Times \cup {0}]
      /\ created' \in Seq(Jobs)
      /\ CreatedHaveTarget'
      /\ ListedAreCreated'
  <2> USE DEF CreatedHaveTarget, ListedAreCreated
  <2>1. CASE UNCHANGED <<target, createdAt, created>> /\ \A j \in Jobs : status[j] = "NONE" => status'[j] = "NONE"
    BY <1>a, <1>b, <2>1 DEF TypeOK, Onward, Typed
  <2>2. ASSUME NEW j \in Jobs, NEW a \in Accounts, NEW time \in Times, CreateJob(j, a, time)
        PROVE  /\ target' \in [Jobs -> Accounts \cup {NoAccount}]
               /\ createdAt' \in [Jobs -> Times \cup {0}]
               /\ created' \in Seq(Jobs)
               /\ CreatedHaveTarget'
               /\ ListedAreCreated'
    BY <1>a, <2>2 DEF TypeOK, CreateJob, Typed
  <2>3. QED
    BY <2>1, <2>2, CreationSteps
<1>2. HeldAreCreated'
  <2> SUFFICES ASSUME NEW c \in Calls, call'[c].at \in Holding
               PROVE  status'[call'[c].job] # "NONE"
    BY DEF HeldAreCreated
  <2>1. CASE KeepsJob(c)
    BY <2>1, <1>b, HeldJob DEF Onward, KeepsJob
  <2>2. ASSUME NEW d \in Calls, NEW j \in Jobs, FindJob(d, j), c = d
        PROVE  status'[call'[c].job] # "NONE"
    BY <1>a, <2>2 DEF FindJob, Oldest, Queued, TypeOK, jobVars
  <2>3. QED
    BY <2>1, <2>2, HoldingSteps
<1>3. OthersTyped'
  BY OthersTypedStep
<1>4. QED
  BY <1>b, <1>c, <1>1, <1>2, <1>3 DEF Typed, TypeOK, CallsTyped, OthersTyped

(* THEOREM 1.  Every variable has its type in every reachable state.         *)
THEOREM TypeCorrect == Spec => []TypeOK
<1>1. Typed => TypeOK
  BY DEF Typed
<1>2. QED
  BY <1>1, TypedInit, TypedStep, PTL DEF Spec

-----------------------------------------------------------------------------
(* An invocation past its claim runs its job, unless the job has ended: an   *)
(* unheard completeJob leaves its caller at work on an ended job.            *)
RunsOrEnded ==
  \A c \in Calls : call[c].at \in Working =>
    runner[call[c].job] = c \/ status[call[c].job] \in Ended

(* The inductive invariant about runners.                                    *)
RunnersInv ==
  /\ RunnerAtWork
  /\ RunsOrEnded
  /\ OneRunner
  /\ OrphanHasCause

LEMMA RunnersInit == Init => RunnersInv
BY DEF Init, RunnersInv, RunnerAtWork, RunsOrEnded, OneRunner, OrphanHasCause, Idle

(* An invocation moves without touching the table.                           *)
LEMMA RunnersMove ==
  ASSUME Typed, RunnersInv, NEW c \in Calls,
         UNCHANGED <<status, runner, mishap>>,
         call' \in [Calls -> CallState],
         \A d \in Calls : d # c => call'[d] = call[d],
         \/ call'[c].at \in Working /\ call[c].at \in Working /\ call'[c].job = call[c].job
         \/ call'[c].at \notin Working /\ call[c].at \notin Working
         \/ call'[c].at \notin Working /\ \A j \in Jobs : runner[j] # c
  PROVE  RunnersInv'
<1> USE DEF RunnersInv, Typed, TypeOK
<1>1. RunnerAtWork'
  BY QueueAssumption DEF RunnerAtWork
<1>2. RunsOrEnded'
  BY DEF RunsOrEnded
<1>3. OneRunner'
  BY DEF OneRunner
<1>4. OrphanHasCause'
  BY DEF OrphanHasCause
<1>5. QED
  BY <1>1, <1>2, <1>3, <1>4

(* Only the runner of a running job is at work on it.                        *)
LEMMA RunnerOfRunning ==
  ASSUME Typed, RunnersInv, NEW c \in Calls, call[c].at \in Working
  PROVE  /\ call[c].job \in Jobs
         /\ status[call[c].job] = "RUNNING" <=> runner[call[c].job] = c
         /\ status[call[c].job] # "QUEUED"
         /\ \A j \in Jobs : runner[j] = c => j = call[c].job
<1>0. c # NoCall
  BY QueueAssumption DEF Calls
<1>1. call[c].job \in Jobs
  BY HeldJob
<1>2. QED
  BY <1>0, <1>1 DEF RunnersInv, RunnerAtWork, RunsOrEnded, Ended

(* The runner of a job ends it, and goes on or returns.                      *)
LEMMA RunnersEnd ==
  ASSUME Typed, RunnersInv, NEW c \in Calls, call[c].at \in Working,
         NEW outcome \in Ended, NEW after,
         status[call[c].job] = "RUNNING",
         EndJob(call[c].job, outcome, after),
         call' \in [Calls -> CallState],
         \A d \in Calls : d # c => call'[d] = call[d],
         call'[c].at \in Working => call'[c].job = call[c].job
  PROVE  RunnersInv'
<1> DEFINE j == call[c].job
<1>1. j \in Jobs /\ runner[j] = c /\ \A i \in Jobs : runner[i] = c => i = j
  BY RunnerOfRunning
<1>2. /\ \A i \in Jobs : i # j => status'[i] = status[i] /\ runner'[i] = runner[i]
      /\ status'[j] = outcome /\ runner'[j] = NoCall /\ mishap' = mishap
  BY <1>1 DEF EndJob, Typed, TypeOK
<1>3. \A d \in Calls : call[d].at \in Working => call[d].job \in Jobs
  BY HeldJob
<1> HIDE DEF j
<1>4. \A d \in Calls : call[d].at \in Working /\ d # c => call[d].job # j
  BY DEF j, RunnersInv, OneRunner
<1> USE DEF RunnersInv, Typed, TypeOK
<1>5. RunnerAtWork'
  BY <1>1, <1>2 DEF RunnerAtWork
<1>6. RunsOrEnded'
  <2>1. call'[c].at \in Working => call'[c].job = j
    BY DEF j
  <2>2. QED
    BY <1>1, <1>2, <1>3, <1>4, <2>1 DEF RunsOrEnded, Ended
<1>7. OneRunner'
  <2>1. OneRunner
    BY DEF RunnersInv
  <2>2. call'[c].at \in Working => call'[c].job = j
    BY DEF j
  <2> HIDE DEF RunnersInv, Typed, TypeOK
  <2>3. QED
    BY <1>4, <2>1, <2>2 DEF OneRunner
<1>8. OrphanHasCause'
  BY <1>1, <1>2 DEF OrphanHasCause, Ended
<1>9. QED
  BY <1>5, <1>6, <1>7, <1>8

LEMMA RunnersClaim ==
  ASSUME Typed, RunnersInv, NEW c \in Calls, Claim(c)
  PROVE  RunnersInv'
<1> DEFINE j == call[c].job
<1>a. c # NoCall
  BY QueueAssumption DEF Calls
<1>1. j \in Jobs /\ TypeOK
  BY HeldJob DEF Claim, Typed
<1>2. CASE status[j] = "QUEUED"
  <2>1. /\ \A i \in Jobs : i # j => status'[i] = status[i] /\ runner'[i] = runner[i]
        /\ status'[j] = "RUNNING" /\ runner'[j] = c /\ mishap' = mishap
        /\ call[c].at = "claim"
    BY <1>1, <1>2 DEF Claim, TypeOK
  <2>2. /\ call'[c].at = "scan" /\ call'[c].job = j
        /\ \A d \in Calls : d # c => call'[d] = call[d]
    BY <1>1, <1>2, CallGoesOn DEF Claim
  <2>3. \A d \in Calls : call[d].at \in Working => call[d].job # j /\ call[d].job \in Jobs
    BY <1>2, RunnerOfRunning
  <2> HIDE DEF j
  <2> USE DEF RunnersInv, TypeOK
  <2>4. RunnerAtWork'
    BY <1>a, <1>1, <2>1, <2>2 DEF RunnerAtWork
  <2>5. RunsOrEnded'
    BY <1>1, <2>1, <2>2, <2>3 DEF RunsOrEnded
  <2>6. OneRunner'
    <3>1. OneRunner
      BY DEF RunnersInv
    <3> HIDE DEF RunnersInv, TypeOK
    <3>2. QED
      BY <2>2, <2>3, <3>1 DEF OneRunner
  <2>7. OrphanHasCause'
    BY <1>a, <1>1, <2>1 DEF OrphanHasCause
  <2>8. QED
    BY <2>4, <2>5, <2>6, <2>7
<1>3. CASE status[j] # "QUEUED"
  <2>1. UNCHANGED <<status, runner, mishap>> /\ Return(c) /\ call[c].at = "claim"
    BY <1>3 DEF Claim
  <2>2. QED
    BY <1>1, <2>1, CallReturns, RunnersMove
<1>4. QED
  BY <1>2, <1>3

LEMMA RunnersFailJobThrows ==
  ASSUME Typed, RunnersInv, NEW c \in Calls, FailJobThrows(c)
  PROVE  RunnersInv'
<1>1. TypeOK /\ c # NoCall /\ call[c].at \in Working
  BY QueueAssumption DEF Typed, FailJobThrows, Calls
<1>2. /\ call' \in [Calls -> CallState] /\ call'[c].at = "idle"
      /\ \A d \in Calls : d # c => call'[d] = call[d]
  BY <1>1, CallReturns DEF FailJobThrows
<1>3. CASE status[call[c].job] = "RUNNING" /\ EndJob(call[c].job, "FAILED", [status |-> "ERROR", error |-> TRUE])
  BY <1>1, <1>2, <1>3, RunnersEnd DEF Ended
<1>4. CASE /\ runner' = [i \in Jobs |-> IF runner[i] = c THEN NoCall ELSE runner[i]]
           /\ mishap' = mishap \cup {call[c].job}
           /\ UNCHANGED status
  <2>1. call[c].job \in Jobs /\ \A j \in Jobs : runner[j] = c => j = call[c].job
    BY <1>1, RunnerOfRunning
  <2> USE DEF RunnersInv, TypeOK
  <2>2. RunnerAtWork'
    BY <1>1, <1>2, <1>4, <2>1 DEF RunnerAtWork
  <2>3. RunsOrEnded'
    <3>1. \A d \in Calls : call[d].at \in Working => call[d].job \in Jobs
      BY HeldJob
    <3>2. QED
      BY <1>1, <1>2, <1>4, <3>1 DEF RunsOrEnded
  <2>4. OneRunner'
    BY <1>1, <1>2 DEF OneRunner
  <2>5. OrphanHasCause'
    BY <1>1, <1>4, <2>1 DEF OrphanHasCause
  <2>6. QED
    BY <2>2, <2>3, <2>4, <2>5
<1>5. QED
  BY <1>3, <1>4 DEF FailJobThrows, jobVars

LEMMA RunnersCrash ==
  ASSUME Typed, RunnersInv, NEW w \in Workers, Crash(w)
  PROVE  RunnersInv'
<1> DEFINE dead == {c \in Calls : c[1] = w}
           held == {j \in Jobs : runner[j] \in dead}
<1>1. /\ \A c \in Calls : call'[c] = IF c \in dead THEN Idle ELSE call[c]
      /\ \A j \in Jobs : runner'[j] = IF j \in held THEN NoCall ELSE runner[j]
      /\ mishap' = mishap \cup held
      /\ status' = status
  BY DEF Crash, jobVars
<1>2. Idle.at = "idle"
  BY DEF Idle
<1>3. \A d \in Calls : call[d].at \in Working => call[d].job \in Jobs
  BY HeldJob
<1>4. \A j \in Jobs : j \in held <=> runner[j] \in dead
  OBVIOUS
<1>5. TypeOK /\ dead \subseteq Calls
  BY DEF Typed
<1> HIDE DEF dead, held
<1> USE DEF RunnersInv, TypeOK
<1>6. RunnerAtWork'
  BY <1>1, <1>2, <1>4, <1>5 DEF RunnerAtWork
<1>7. RunsOrEnded'
  BY <1>1, <1>2, <1>3, <1>4, <1>5 DEF RunsOrEnded
<1>8. OneRunner'
  BY <1>1, <1>2 DEF OneRunner
<1>9. OrphanHasCause'
  BY <1>1, <1>4, <1>5 DEF OrphanHasCause
<1>10. QED
  BY <1>6, <1>7, <1>8, <1>9

LEMMA RunnersStep ==
  ASSUME Typed, RunnersInv, [Next]_vars
  PROVE  RunnersInv'
<1>a. TypeOK
  BY DEF Typed
<1>b. \A c \in Calls, j \in Jobs : runner[j] = c => call[c].at \in Working
  BY QueueAssumption DEF RunnersInv, RunnerAtWork, Calls
<1>c. ASSUME NEW c \in Calls, UNCHANGED <<status, runner, mishap>>, Return(c),
             call[c].at \notin Working \/ \A j \in Jobs : runner[j] # c
      PROVE  RunnersInv'
  BY <1>a, <1>c, CallReturns, RunnersMove
<1>d. ASSUME NEW c \in Calls, NEW place \in Places, UNCHANGED <<status, runner, mishap>>,
             call[c].at \in Working <=> place \in Working,
             call' = [call EXCEPT ![c].at = place]
      PROVE  RunnersInv'
  BY <1>a, <1>d, CallGoesOn, RunnersMove
<1>e. ASSUME UNCHANGED <<status, runner, mishap, call>> PROVE RunnersInv'
  BY <1>e DEF RunnersInv, RunnerAtWork, RunsOrEnded, OneRunner, OrphanHasCause
<1> USE DEF jobVars, histVars
<1>1. ASSUME NEW j \in Jobs, NEW a \in Accounts, NEW time \in Times, CreateJob(j, a, time) PROVE RunnersInv'
  <2>1. /\ status[j] = "NONE" /\ status'[j] = "QUEUED"
        /\ \A i \in Jobs : i # j => status'[i] = status[i]
        /\ UNCHANGED <<runner, mishap, call>>
    BY <1>a, <1>1 DEF CreateJob, TypeOK
  <2>2. \A c \in Calls : call[c].at \in Working => call[c].job \in Jobs /\ call[c].job # j
    BY <2>1, HeldJob
  <2>3. QED
    BY <2>1, <2>2 DEF RunnersInv, RunnerAtWork, RunsOrEnded, OneRunner, OrphanHasCause
<1>2. ASSUME NEW c \in Calls, Tick(c) PROVE RunnersInv'
  BY <1>2, <1>d DEF Tick
<1>3. ASSUME NEW c \in Calls, NEW j \in Jobs, FindJob(c, j) PROVE RunnersInv'
  <2>1. /\ call' \in [Calls -> CallState]
        /\ call'[c].at = "claim" /\ call[c].at = "find"
        /\ \A d \in Calls : d # c => call'[d] = call[d]
    BY <1>a, <1>3 DEF FindJob, TypeOK
  <2>2. QED
    BY <1>3, <2>1, RunnersMove DEF FindJob
<1>4. ASSUME NEW c \in Calls, Scan(c) PROVE RunnersInv'
  BY <1>4, <1>d DEF Scan
<1>5. ASSUME NEW c \in Calls, Complete(c) \/ CompleteThrows(c) PROVE RunnersInv'
  <2>1. call[c].at = "complete"
    BY <1>5 DEF Complete, CompleteThrows
  <2>2. CASE /\ status[call[c].job] = "RUNNING"
             /\ EndJob(call[c].job, "SUCCEEDED", [status |-> "ACTIVE", error |-> FALSE])
    <3>1. Return(c) \/ call' = [call EXCEPT ![c].at = "fail"]
      BY <1>5 DEF Complete, CompleteThrows
    <3>2. /\ call' \in [Calls -> CallState]
          /\ \A d \in Calls : d # c => call'[d] = call[d]
          /\ call'[c].at \in Working => call'[c].job = call[c].job
      BY <1>a, <3>1, CallReturns, CallGoesOn
    <3>3. QED
      BY <2>1, <2>2, <3>2, RunnersEnd DEF Ended
  <2>3. CASE call' = [call EXCEPT ![c].at = "fail"] /\ UNCHANGED <<jobVars, histVars>>
    BY <2>1, <2>3, <1>d
  <2>4. QED
    BY <1>5, <2>2, <2>3 DEF Complete, CompleteThrows
<1>6. ASSUME NEW c \in Calls, FailJob(c) PROVE RunnersInv'
  <2>1. call[c].at = "fail" /\ Return(c)
    BY <1>6 DEF FailJob
  <2>2. CASE /\ status[call[c].job] = "RUNNING"
             /\ EndJob(call[c].job, "FAILED", [status |-> "ERROR", error |-> TRUE])
    BY <1>a, <2>1, <2>2, CallReturns, RunnersEnd DEF Ended
  <2>3. CASE status[call[c].job] # "RUNNING" /\ UNCHANGED <<jobVars, histVars>>
    BY <2>1, <2>3, <1>c, RunnerOfRunning
  <2>4. QED
    BY <1>6, <2>2, <2>3 DEF FailJob
<1>7. ASSUME NEW c \in Calls, ClaimThrows(c) PROVE RunnersInv'
  <2>1. call[c].at \notin Working /\ Return(c) /\ UNCHANGED runner
    BY <1>7 DEF ClaimThrows
  <2>2. CASE UNCHANGED <<status, mishap>>
    BY <2>1, <2>2, <1>c
  <2>3. CASE /\ call[c].at = "claim" /\ status[call[c].job] = "QUEUED"
             /\ status' = [status EXCEPT ![call[c].job] = "RUNNING"]
             /\ mishap' = mishap \cup {call[c].job}
    <3> DEFINE j == call[c].job
    <3>1. /\ j \in Jobs /\ status[j] = "QUEUED" /\ status'[j] = "RUNNING"
          /\ \A i \in Jobs : i # j => status'[i] = status[i]
          /\ mishap' = mishap \cup {j}
      BY <1>a, <2>3, HeldJob DEF TypeOK
    <3>2. \A d \in Calls : call[d].at \in Working => call[d].job \in Jobs /\ call[d].job # j
      BY <2>3, RunnerOfRunning
    <3>3. /\ call'[c].at = "idle"
          /\ \A d \in Calls : d # c => call'[d] = call[d]
      BY <1>a, <2>1, CallReturns
    <3> HIDE DEF j
    <3>4. \A i \in Jobs : runner[i] # c
      BY <1>b, <2>1
    <3> USE DEF RunnersInv, TypeOK
    <3>5. RunnerAtWork'
      BY <1>a, <2>1, <3>1, <3>3, <3>4 DEF RunnerAtWork
    <3>6. RunsOrEnded'
      BY <2>1, <3>1, <3>2, <3>3 DEF RunsOrEnded
    <3>7. OneRunner'
      BY <2>1, <3>3 DEF OneRunner
    <3>8. OrphanHasCause'
      BY <2>1, <3>1 DEF OrphanHasCause
    <3>9. QED
      BY <3>5, <3>6, <3>7, <3>8
  <2>4. QED
    BY <1>7, <2>2, <2>3 DEF ClaimThrows
<1>8. QED
  BY <1>c, <1>e, <1>1, <1>2, <1>3, <1>4, <1>5, <1>6, <1>7,
     RunnersClaim, RunnersFailJobThrows, RunnersCrash
     DEF Next, Regular, Step, Throws, vars, FindNothing

(* THEOREM 2.  However claims race and whatever fails, no two invocations    *)
(* run the same job.                                                         *)
THEOREM NoJobRunsTwice == Spec => []OneRunner
<1>1. Init => Typed /\ RunnersInv
  BY TypedInit, RunnersInit
<1>2. Typed /\ RunnersInv /\ [Next]_vars => (Typed /\ RunnersInv)'
  BY TypedStep, RunnersStep
<1>3. RunnersInv => OneRunner
  BY DEF RunnersInv
<1>4. QED
  BY <1>1, <1>2, <1>3, PTL DEF Spec

(* THEOREM 3.  A job that has a runner is running, its runner is at work on  *)
(* it, and a running job without one was separated from it by a failure.     *)
THEOREM RunningJobsAreAccountedFor == Spec => []RunningHasRunner
<1>1. Init => Typed /\ RunnersInv
  BY TypedInit, RunnersInit
<1>2. Typed /\ RunnersInv /\ [Next]_vars => (Typed /\ RunnersInv)'
  BY TypedStep, RunnersStep
<1>3. RunnersInv => RunningHasRunner
  BY DEF RunnersInv, RunningHasRunner
<1>4. QED
  BY <1>1, <1>2, <1>3, PTL DEF Spec

-----------------------------------------------------------------------------
Busy(c) == call[c].at # "idle"

(* ProcessingGuards without counting: the flag is up with a busy invocation, *)
(* and a worker's busy invocations are one.                                  *)
FlagsInv ==
  /\ \A c \in Calls : Busy(c) => processing[c[1]]
  /\ \A w \in Workers : processing[w] => \E c \in Calls : c[1] = w /\ Busy(c)
  /\ \A c, d \in Calls : c[1] = d[1] /\ Busy(c) /\ Busy(d) => c = d

LEMMA FlagsInit == Init => FlagsInv
BY DEF Init, FlagsInv, Busy, Idle, Calls

LEMMA FlagsCount == FlagsInv => ProcessingGuards
<1> SUFFICES ASSUME FlagsInv, NEW w \in Workers
             PROVE  LET busy == {c \in Calls : c[1] = w /\ call[c].at # "idle"}
                    IN (processing[w] <=> busy # {}) /\ Cardinality(busy) <= 1
  BY DEF ProcessingGuards
<1> DEFINE busy == {c \in Calls : c[1] = w /\ call[c].at # "idle"}
<1>1. \A c \in busy : processing[w] /\ \A d \in busy : c = d
  BY DEF FlagsInv, Busy
<1>2. processing[w] => busy # {}
  BY DEF FlagsInv, Busy
<1>3. Cardinality(busy) <= 1
  <2> HIDE DEF busy
  <2>1. CASE busy = {}
    BY <2>1, FS_EmptySet
  <2>2. CASE busy # {}
    <3>1. PICK c : c \in busy
      BY <2>2
    <3>2. busy = {c}
      BY <1>1, <3>1
    <3>3. Cardinality({c}) = 1
      BY FS_Singleton
    <3>4. QED
      BY <3>2, <3>3
  <2>3. QED
    BY <2>1, <2>2
<1>4. QED
  BY <1>1, <1>2, <1>3

LEMMA FlagsStep ==
  ASSUME Typed, FlagsInv, [Next]_vars
  PROVE  FlagsInv'
<1>a. TypeOK
  BY DEF Typed
<1>b. \A c \in Calls : c[1] \in Workers
  BY DEF Calls
<1>c. ASSUME NEW c \in Calls, Busy(c), Return(c) PROVE FlagsInv'
  <2>1. /\ ~Busy(c)'
        /\ \A d \in Calls : d # c => Busy(d)' = Busy(d)
    BY <1>a, <1>c, CallReturns DEF Busy
  <2>2. /\ ~processing'[c[1]]
        /\ \A w \in Workers : w # c[1] => processing'[w] = processing[w]
    BY <1>a, <1>b, <1>c DEF Return, TypeOK
  <2>3. QED
    BY <1>b, <1>c, <2>1, <2>2 DEF FlagsInv
<1>d. ASSUME NEW c \in Calls, NEW place \in Places, UNCHANGED processing,
             Busy(c), place # "idle", call' = [call EXCEPT ![c].at = place]
      PROVE  FlagsInv'
  <2>1. \A d \in Calls : Busy(d)' = Busy(d)
    BY <1>a, <1>d, CallGoesOn DEF Busy
  <2>2. QED
    BY <1>d, <2>1 DEF FlagsInv
<1>e. ASSUME UNCHANGED <<processing, call>> PROVE FlagsInv'
  BY <1>e DEF FlagsInv, Busy
<1> USE DEF jobVars, histVars
<1>1. ASSUME NEW c \in Calls, Tick(c) PROVE FlagsInv'
  <2>1. /\ Busy(c)'
        /\ \A d \in Calls : d # c => Busy(d)' = Busy(d)
    BY <1>a, <1>1, CallGoesOn DEF Busy, Tick
  <2>2. /\ ~processing[c[1]] /\ processing'[c[1]]
        /\ \A w \in Workers : w # c[1] => processing'[w] = processing[w]
    BY <1>a, <1>b, <1>1 DEF Tick, TypeOK
  <2>3. QED
    BY <1>b, <2>1, <2>2 DEF FlagsInv
<1>2. ASSUME NEW c \in Calls, NEW j \in Jobs, FindJob(c, j) PROVE FlagsInv'
  <2>1. \A d \in Calls : Busy(d)' = Busy(d)
    BY <1>a, <1>2 DEF FindJob, TypeOK, Busy
  <2>2. QED
    BY <1>2, <2>1 DEF FlagsInv, FindJob
<1>3. ASSUME NEW c \in Calls, Claim(c) PROVE FlagsInv'
  BY <1>3, <1>c, <1>d DEF Claim, Busy
<1>4. ASSUME NEW c \in Calls, Scan(c) PROVE FlagsInv'
  BY <1>4, <1>d DEF Scan, Busy
<1>5. ASSUME NEW c \in Calls, Complete(c) PROVE FlagsInv'
  BY <1>5, <1>c, <1>d DEF Complete, Busy
<1>6. ASSUME NEW c \in Calls, CompleteThrows(c) PROVE FlagsInv'
  BY <1>6, <1>d DEF CompleteThrows, Busy
<1>7. ASSUME NEW w \in Workers, Crash(w) PROVE FlagsInv'
  <2>1. /\ \A c \in Calls : c[1] = w => ~Busy(c)'
        /\ \A c \in Calls : c[1] # w => Busy(c)' = Busy(c)
    BY <1>7 DEF Crash, Busy, Idle
  <2>2. /\ ~processing'[w]
        /\ \A v \in Workers : v # w => processing'[v] = processing[v]
    BY <1>a, <1>7 DEF Crash, TypeOK
  <2>3. QED
    BY <1>b, <2>1, <2>2 DEF FlagsInv
<1>8. ASSUME NEW c \in Calls, FindNothing(c) \/ FailJob(c) \/ ClaimThrows(c) \/ FailJobThrows(c)
      PROVE  FlagsInv'
  BY <1>8, <1>c DEF FindNothing, FailJob, ClaimThrows, FailJobThrows, Busy
<1>9. QED
  BY <1>e, <1>1, <1>2, <1>3, <1>4, <1>5, <1>6, <1>7, <1>8
     DEF Next, Regular, Step, Throws, vars, CreateJob

(* THEOREM 4.  A worker never has two invocations past the flag, and the     *)
(* flag is up exactly while it has one.                                      *)
THEOREM OneInvocationPerWorker == Spec => []ProcessingGuards
<1>1. Init => Typed /\ FlagsInv
  BY TypedInit, FlagsInit
<1>2. Typed /\ FlagsInv /\ [Next]_vars => (Typed /\ FlagsInv)'
  BY TypedStep, FlagsStep
<1>3. QED
  BY <1>1, <1>2, FlagsCount, PTL DEF Spec

-----------------------------------------------------------------------------
LEMMA AccountStep ==
  ASSUME Typed, AccountTellsLastEnd, [Next]_vars
  PROVE  AccountTellsLastEnd'
<1> USE DEF jobVars, histVars
<1>a. TypeOK /\ Onward
  BY StatusSteps DEF Typed
<1>b. ASSUME UNCHANGED <<account, lastEnded>> PROVE AccountTellsLastEnd'
  BY <1>a, <1>b DEF AccountTellsLastEnd, TypeOK, Onward, Ended
<1>c. ASSUME NEW c \in Calls, call[c].at \in Working, NEW outcome, NEW after,
             EndJob(call[c].job, outcome, after),
             \/ outcome = "SUCCEEDED" /\ after = [status |-> "ACTIVE", error |-> FALSE]
             \/ outcome = "FAILED" /\ after = [status |-> "ERROR", error |-> TRUE]
      PROVE  AccountTellsLastEnd'
  <2> DEFINE j == call[c].job
  <2>1. j \in Jobs /\ target[j] \in Accounts /\ j # NoJob
    BY <1>c, HeldJob, QueueAssumption
  <2>2. /\ status'[j] = outcome
        /\ account'[target[j]] = after /\ lastEnded'[target[j]] = j
        /\ \A a \in Accounts : a # target[j] =>
             account'[a] = account[a] /\ lastEnded'[a] = lastEnded[a]
    BY <1>a, <1>c, <2>1 DEF EndJob, TypeOK
  <2> HIDE DEF j
  <2>3. SUFFICES ASSUME NEW a \in Accounts, lastEnded'[a] # NoJob
                 PROVE  \/ /\ status'[lastEnded'[a]] = "SUCCEEDED"
                           /\ account'[a] = [status |-> "ACTIVE", error |-> FALSE]
                        \/ /\ status'[lastEnded'[a]] = "FAILED"
                           /\ account'[a] = [status |-> "ERROR", error |-> TRUE]
    BY DEF AccountTellsLastEnd
  <2>4. CASE a = target[j]
    BY <1>c, <2>2, <2>4
  <2>5. CASE a # target[j]
    <3>1. lastEnded[a] \in Jobs /\ lastEnded[a] # NoJob
      BY <1>a, <2>2, <2>3, <2>5 DEF TypeOK
    <3>2. status'[lastEnded[a]] = status[lastEnded[a]]
      BY <1>a, <3>1 DEF AccountTellsLastEnd, Onward, Ended
    <3>3. QED
      BY <2>2, <2>5, <3>1, <3>2 DEF AccountTellsLastEnd
  <2>6. QED
    BY <2>4, <2>5
<1>1. ASSUME NEW c \in Calls, Complete(c) \/ CompleteThrows(c) PROVE AccountTellsLastEnd'
  BY <1>1, <1>b, <1>c DEF Complete, CompleteThrows
<1>2. ASSUME NEW c \in Calls, FailJob(c) \/ FailJobThrows(c) PROVE AccountTellsLastEnd'
  BY <1>2, <1>b, <1>c DEF FailJob, FailJobThrows
<1>3. QED
  BY <1>b, <1>1, <1>2
     DEF Next, Regular, Step, Throws, vars, CreateJob, Tick, FindJob, FindNothing, Claim, Scan,
         ClaimThrows, Crash

(* THEOREM 5.  An account tells how its last ended job ended.                *)
THEOREM AccountsTellLastEnd == Spec => []AccountTellsLastEnd
<1>1. Init => AccountTellsLastEnd
  BY DEF Init, AccountTellsLastEnd
<1>2. Typed /\ AccountTellsLastEnd /\ [Next]_vars => (Typed /\ AccountTellsLastEnd)'
  BY TypedStep, AccountStep
<1>3. QED
  BY <1>1, <1>2, TypedInit, PTL DEF Spec

-----------------------------------------------------------------------------
(* No queued job was in the table before a candidate that was read and is    *)
(* older: what is created meanwhile comes after the candidate, and no job    *)
(* returns to the queue.                                                     *)
CandidatesAreOldest ==
  \A c \in Calls : call[c].at = "claim" =>
    \A i \in Jobs : status[i] = "QUEUED" => ~Before(i, call[c].job)

(* A new job comes after those that were created, whatever its createdAt.    *)
LEMMA OrderIsKept ==
  ASSUME Typed, [Next]_vars, NEW i \in Jobs, NEW k \in Jobs, status[k] # "NONE", Before(i, k)'
  PROVE  Before(i, k) /\ status[i] # "NONE"
<1>a. created \in Seq(Jobs) /\ ListedAreCreated
  BY DEF Typed, TypeOK
<1>1. PICK m \in 1..Len(created'), n \in 1..Len(created') :
        m < n /\ created'[m] = i /\ created'[n] = k
  BY DEF Before
<1>2. createdAt'[i] < createdAt'[k]
  BY DEF Before
<1>3. CASE UNCHANGED <<createdAt, created>>
  BY <1>a, <1>1, <1>2, <1>3 DEF Before, ListedAreCreated
<1>4. ASSUME NEW j \in Jobs, NEW a \in Accounts, NEW time \in Times, CreateJob(j, a, time)
      PROVE  Before(i, k) /\ status[i] # "NONE"
  <2>1. /\ Len(created') = Len(created) + 1 /\ created'[Len(created) + 1] = j /\ j # k
        /\ \A p \in 1..Len(created) : created'[p] = created[p]
        /\ status[j] = "NONE"
    BY <1>a, <1>4 DEF CreateJob
  <2>2. m \in 1..Len(created) /\ n \in 1..Len(created)
    BY <1>a, <1>1, <2>1
  <2>3. created[m] = i /\ created[n] = k /\ status[i] # "NONE"
    BY <1>a, <1>1, <2>1, <2>2 DEF ListedAreCreated
  <2>4. createdAt'[i] = createdAt[i] /\ createdAt'[k] = createdAt[k]
    BY <1>4, <2>1, <2>3 DEF CreateJob, Typed, TypeOK
  <2>5. QED
    BY <1>1, <1>2, <2>2, <2>3, <2>4 DEF Before
<1>5. QED
  BY <1>3, <1>4, CreationSteps

LEMMA CandidatesStep ==
  ASSUME Typed, CandidatesAreOldest, [Next]_vars
  PROVE  CandidatesAreOldest'
<1>a. TypeOK /\ Onward
  BY StatusSteps DEF Typed
<1>b. call' \in [Calls -> CallState]
  BY CallsTypedStep DEF CallsTyped
<1> SUFFICES ASSUME NEW c \in Calls, call'[c].at = "claim",
                    NEW i \in Jobs, status'[i] = "QUEUED",
                    NEW k \in Jobs, k = call'[c].job, Before(i, k)'
             PROVE  FALSE
  <2>1. \A c \in Calls : call'[c].at = "claim" => call'[c].job \in Jobs
    BY CallsTypedStep DEF CallsTyped
  <2>2. QED
    BY <2>1 DEF CandidatesAreOldest, Before
<1>1. CASE KeepsJob(c)
  <2>1. k = call[c].job /\ status[k] # "NONE" /\ call[c].at = "claim"
    BY <1>1, HeldJob DEF KeepsJob
  <2>2. Before(i, k) /\ status[i] # "NONE"
    BY <2>1, OrderIsKept
  <2>3. status[i] = "QUEUED"
    BY <1>a, <2>2 DEF Onward, TypeOK
  <2>4. QED
    BY <2>1, <2>2, <2>3 DEF CandidatesAreOldest
<1>2. ASSUME NEW j \in Jobs, FindJob(c, j) PROVE FALSE
  <2>1. k = j /\ UNCHANGED <<status, createdAt, created>>
    BY <1>a, <1>2 DEF FindJob, TypeOK, jobVars
  <2>2. createdAt[i] < createdAt[j] /\ status[i] = "QUEUED"
    BY <2>1 DEF Before
  <2>3. createdAt[j] <= createdAt[i]
    <3>1. i \in Queued
      BY <2>2 DEF Queued
    <3>2. Oldest(j)
      BY <1>2 DEF FindJob
    <3>3. QED
      BY <3>1, <3>2 DEF Oldest
  <2>4. createdAt[i] \in Nat /\ createdAt[j] \in Nat
    <3>1. createdAt \in [Jobs -> Times \cup {0}] /\ i \in Jobs /\ j \in Jobs
      BY <1>a, <1>2 DEF TypeOK
    <3>2. Times \cup {0} \subseteq Nat
      BY QueueAssumption
    <3>3. QED
      BY <3>1, <3>2
  <2>5. QED
    BY <2>2, <2>3, <2>4
<1>3. QED
  BY <1>1, <1>2, HoldingSteps

(* A step claims no job while an older one is queued that was there first.   *)
ClaimsTheOldest ==
  \A i, j \in Jobs :
    /\ status[j] = "QUEUED" /\ status'[j] = "RUNNING"
    /\ status[i] = "QUEUED"
    => ~Before(i, j)

LEMMA ClaimStep ==
  ASSUME Typed, CandidatesAreOldest, [Next]_vars
  PROVE  ClaimsTheOldest
<1> SUFFICES ASSUME NEW i \in Jobs, NEW j \in Jobs, status[i] = "QUEUED",
                    status[j] = "QUEUED", status'[j] = "RUNNING"
             PROVE  ~Before(i, j)
  BY DEF ClaimsTheOldest
<1>a. TypeOK
  BY DEF Typed
<1>1. ASSUME NEW c \in Calls, Claim(c) \/ ClaimThrows(c) PROVE ~Before(i, j)
  <2>1. call[c].at = "claim" /\ call[c].job = j
    BY <1>a, <1>1, HeldJob DEF Claim, ClaimThrows, TypeOK
  <2>2. QED
    BY <2>1 DEF CandidatesAreOldest
<1>2. ASSUME NEW c \in Calls, NEW outcome \in Ended, NEW after, call[c].at \in Holding,
             EndJob(call[c].job, outcome, after)
      PROVE  FALSE
  BY <1>a, <1>2, HeldJob DEF EndJob, TypeOK, Ended
<1>3. ASSUME NEW k \in Jobs, NEW a \in Accounts, NEW time \in Times, CreateJob(k, a, time) PROVE FALSE
  BY <1>a, <1>3 DEF CreateJob, TypeOK
<1>4. UNCHANGED status => FALSE
  OBVIOUS
<1>5. ASSUME NEW c \in Calls, Complete(c) \/ CompleteThrows(c) \/ FailJob(c) \/ FailJobThrows(c)
      PROVE  FALSE
  BY <1>2, <1>4, <1>5 DEF Complete, CompleteThrows, FailJob, FailJobThrows, jobVars, Ended
<1>6. QED
  BY <1>1, <1>3, <1>4, <1>5
     DEF Next, Regular, Step, Throws, vars, jobVars, Tick, FindJob, FindNothing, Scan, Crash

(* THEOREM 6.  No job is claimed while an older one waits that was in the    *)
(* table before it.                                                          *)
THEOREM QueueOrder == Spec => OldestFirst
<1>1. Init => CandidatesAreOldest
  BY DEF Init, CandidatesAreOldest, Idle
<1>2. Typed /\ CandidatesAreOldest /\ [Next]_vars => (Typed /\ CandidatesAreOldest)'
  BY TypedStep, CandidatesStep
<1>3. Typed /\ CandidatesAreOldest /\ [Next]_vars => ClaimsTheOldest
  BY ClaimStep
<1>4. QED
  BY <1>1, <1>2, <1>3, TypedInit, PTL DEF Spec, OldestFirst, ClaimsTheOldest

-----------------------------------------------------------------------------
(* Every step of the queue is a step of JobLifecycle, or none.               *)
LEMMA LifecycleStep ==
  ASSUME Typed, RunnersInv, [Next]_vars
  PROVE  [Lifecycle!Next]_Lifecycle!lifecycleVars
<1> USE DEF Lifecycle!lifecycleVars, jobVars, histVars
<1>a. TypeOK
  BY DEF Typed
<1>b. ASSUME NEW j \in Jobs, Lifecycle!Create(j) PROVE Lifecycle!Next
  BY <1>b DEF Lifecycle!Next
<1>c. ASSUME NEW j \in Jobs, NEW c \in Calls, Lifecycle!Claim(j, c) PROVE Lifecycle!Next
  BY <1>c DEF Lifecycle!Next
<1>d. ASSUME NEW j \in Jobs, Lifecycle!ClaimUnheard(j) PROVE Lifecycle!Next
  BY <1>d DEF Lifecycle!Next
<1>e. ASSUME NEW S \in SUBSET Jobs, Lifecycle!Abandon(S) PROVE Lifecycle!Next
  BY <1>e DEF Lifecycle!Next
<1>f. ASSUME NEW c \in Calls, call[c].at \in Working, NEW outcome \in Ended, NEW after,
             status[call[c].job] = "RUNNING", EndJob(call[c].job, outcome, after)
      PROVE  Lifecycle!Next
  <2>1. runner[call[c].job] # NoCall /\ call[c].job \in Jobs
    BY <1>f, RunnerOfRunning, QueueAssumption DEF Calls
  <2>2. Lifecycle!End(call[c].job, outcome)
    BY <1>f, <2>1 DEF EndJob, Lifecycle!End
  <2>3. QED
    BY <2>1, <2>2 DEF Lifecycle!Next, Ended
<1>1. ASSUME NEW j \in Jobs, NEW a \in Accounts, NEW time \in Times, CreateJob(j, a, time) PROVE Lifecycle!Next
  BY <1>1, <1>b DEF CreateJob, Lifecycle!Create
<1>2. ASSUME NEW c \in Calls, Claim(c)
      PROVE  [Lifecycle!Next]_Lifecycle!lifecycleVars
  <2>1. call[c].job \in Jobs
    BY <1>2, HeldJob DEF Claim
  <2>2. \A k \in Jobs : runner[k] # c
    BY <1>2, QueueAssumption DEF Claim, RunnersInv, RunnerAtWork, Calls
  <2>3. CASE status[call[c].job] = "QUEUED"
    BY <1>2, <1>c, <2>1, <2>2, <2>3 DEF Claim, Lifecycle!Claim
  <2>4. CASE status[call[c].job] # "QUEUED"
    BY <1>2, <2>4 DEF Claim
  <2>5. QED
    BY <2>3, <2>4
<1>3. ASSUME NEW c \in Calls, Complete(c) \/ CompleteThrows(c) \/ FailJob(c)
      PROVE  [Lifecycle!Next]_Lifecycle!lifecycleVars
  BY <1>3, <1>f DEF Complete, CompleteThrows, FailJob, Ended
<1>4. ASSUME NEW c \in Calls, FailJobThrows(c)
      PROVE  [Lifecycle!Next]_Lifecycle!lifecycleVars
  <2> DEFINE S == {j \in Jobs : runner[j] = c}
  <2>1. CASE /\ runner' = [i \in Jobs |-> IF runner[i] = c THEN NoCall ELSE runner[i]]
             /\ UNCHANGED status
    <3>1. Lifecycle!Abandon(S)
      BY <2>1 DEF Lifecycle!Abandon
    <3>2. QED
      BY <1>e, <3>1
  <2>2. QED
    BY <1>4, <1>f, <2>1 DEF FailJobThrows, Ended
<1>5. ASSUME NEW c \in Calls, ClaimThrows(c)
      PROVE  [Lifecycle!Next]_Lifecycle!lifecycleVars
  BY <1>5, <1>d, HeldJob DEF ClaimThrows, Lifecycle!ClaimUnheard
<1>6. ASSUME NEW w \in Workers, Crash(w)
      PROVE  [Lifecycle!Next]_Lifecycle!lifecycleVars
  <2> DEFINE S == {j \in Jobs : runner[j] \in {c \in Calls : c[1] = w}}
  <2>1. Lifecycle!Abandon(S)
    BY <1>6 DEF Crash, Lifecycle!Abandon
  <2>2. QED
    BY <1>e, <2>1
<1>7. QED
  BY <1>1, <1>2, <1>3, <1>4, <1>5, <1>6
     DEF Next, Regular, Step, Throws, vars, Tick, FindJob, FindNothing, Scan

(* THEOREM 7.  The polling workers on a shared table implement JobLifecycle: *)
(* a job is claimed once, ended once, by the runner that claimed it.         *)
THEOREM QueueImplementsLifecycle == Spec => LifecycleSpec
<1>1. Init => Typed /\ RunnersInv /\ Lifecycle!Init
  BY TypedInit, RunnersInit DEF Init, Lifecycle!Init
<1>2. Typed /\ RunnersInv /\ [Next]_vars => (Typed /\ RunnersInv)'
  BY TypedStep, RunnersStep
<1>3. Typed /\ RunnersInv /\ [Next]_vars => [Lifecycle!Next]_Lifecycle!lifecycleVars
  BY LifecycleStep
<1>4. QED
  BY <1>1, <1>2, <1>3, PTL DEF Spec, LifecycleSpec, Lifecycle!Spec

=============================================================================
