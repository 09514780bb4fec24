# CloudGuardX: TLA+ verification

TLA+ models of the CloudGuardX API, scan worker, policy and risk engines and web
dashboard, the TLC runs that check them, and TLAPS proofs about them.

    tlc -config RefreshSafety.cfg MCRefreshTokens.tla     # model-check a run
    tlapm RefreshTokensProofs.tla                         # check the proofs

`PROJECT.json` lists components, runs, mutants, the definition-to-source map,
findings, hazards and theorems.

The repository holds the program twice. `apps/api`, `apps/worker` and `packages` are the
same at the root and under `src/cloudguardx/`; the models cite the root copy. The web
app is not: the one under `src/cloudguardx/apps/web` signs in, connects accounts and
updates findings, the one at the root is an older copy without those, so `Dashboard`
models the newer one.

## The system

| Component | State | Operations | What makes it correct |
|---|---|---|---|
| Sessions (`apps/api/src/auth`) | `RefreshToken` rows: status, used, revoked, reuse and expiry dates, family, parent | login, refresh, logout | a family is one chain with at most one usable token; revocation is final and has a cause; reuse is detected and audited |
| Scan jobs (`apps/api/src/scanner`, `apps/worker`) | `ScanJob` rows, each worker's `processing` flag | create, poll, claim, scan, complete, fail | one runner per job; every job ends; only failures orphan one |
| Scan completion (`scanner-worker.repository.ts`) | assets, findings, scores, mappings, remediations, attack graph | one transaction per completed scan | a scan's verdict stands, triage survives rescans, the graph matches the findings |
| Triage (`apps/api/src/findings`) | `Finding.status`, `resolvedAt` | update status | date and status agree |
| Policy engine (`packages/policy-engine`) | none | eleven evaluators, control mappings | verdicts follow the report |
| Attack graph (`rebuildAttackGraph`) | nodes and edges of a tenant | redrawn by every completion | it shows the paths the last reports imply |
| Risk engine (`packages/risk-engine`) | none | score and severity of factors | on the scale, monotone, banded |
| Compliance (`apps/api/src/compliance`) | frameworks, controls, mappings | list with counts | a control counts its violations once |
| AI remediation (`apps/api/src/remediations`) | `Remediation` rows | generate | outdated guidance goes with a rescan |
| Memberships and guard (`memberships`, `common/auth`, `common/rbac`) | memberships, roles | invite, guard every request | a request acts with the role it has |
| Registration (`users`, `tenants`) | users, tenants, roles | register, create tenant | unique email and slug, no user without a tenant |
| Cloud accounts (`cloud-accounts`) | `CloudAccount` rows | onboard, list | one row per AWS account of a tenant |
| Web dashboard (`cloudguardx/apps/web`) | the React state of `App` | sign in and out, load, filter, open, update, connect | it shows a user who waits what the API holds; nothing loads for good |
| Audit log | append-only rows | record | no entry without its effect |

The API and the workers share no memory: they meet in PostgreSQL. The API enqueues a
job (`ScanJob` QUEUED); a worker's timer polls, claims with a guarded update, calls
the scanner, and writes the whole result in one transaction, while the API lets
people triage the findings that the transaction reads and writes. Prisma runs every
transaction under READ COMMITTED, so the hard behaviour is what a statement saw and
what had changed by the time of the next one: `await`s between a read and a guarded
write, row locks, lost answers, crashed workers, transactions rolled back by
Prisma's time limit. The dashboard calls the API without cancelling or numbering its
calls, so there the hard behaviour is the order of answers.

## Modules

**RefreshTokens** (sessions) and **SessionLifecycle** (what they promise). A handler is a request slot `req[r]` that moves through
its `await`s. `StartRefresh` is `findByHash` and the tests on the row it returned;
`CheckMembership` the lookup between that stale read and `rotate`; `Consume` the
guarded update of `rotate` and `CommitRotation` its child and commit; `SnapshotFamily`
and `RevokeFamily` the start and the end of the family update of `revokeFamily` and
`markReuseAndRevokeFamily`; `Respond` the audit record and the answer. `Locked(t)`,
derived from the requests in progress, is the row lock a rotation holds between its
update and its commit. A blocked update waits and evaluates its guard again on the row
it then finds, as PostgreSQL does, but visits only rows that were committed when it
started: that is why the family update has two steps. `Fail` is any query that throws,
or a process that dies. A revocation takes all rows of its snapshot in one step, where
PostgreSQL locks them one by one: that two revocations wait for each other cannot be
expressed, and would end as a `Fail` of the one the database turns down.
Registration's first pair comes from the same `issueTokenPair` as login's.
SessionLifecycle has a session opened once, held by one token at a time, handed over by
the one that holds it to a fresh one, and closed for good, be it that it was revoked or
that its token expired; `Session` in RefreshTokens is the mapping, in which a family is a
session and its holder the one row that is still usable.

**ScanQueue** (job queue and worker loop) and **JobLifecycle** (what it promises). An
invocation of `processNextJob` is a call of a worker; `Slots` gives each worker more of
them than the flag admits. Finding a candidate and claiming it are two steps.
`CreateJob` is the commit of the insert: its `createdAt` (`@default(now())` in the
schema) was drawn before, so it is any of `Times`, older than that of a row which is
there already or the same, and of jobs that are equally old a worker may find any
(`Oldest`). `created` is history, the order of the commits. A
transaction that ends a job is one step: it locks the job's row first and the account's
row last. Failures are a claim, a completion or a failure report that throws, each
either rolled back or committed unheard, and a worker that dies. The scanner call has no
timeout: the workers in `Hanging` may never hear from it, which keeps their flag set.
`JobLifecycle` has a job created, claimed by one runner, ended once, or abandoned;
`Lifecycle` in ScanQueue is the refinement mapping.

**ScanCompletion** (the transaction of `completeJob` against triage and AI guidance) and
**AtomicScan** (what it promises).
`tx` holds what the transaction has written; `tx.wrote` are the finding rows it has
locked. The steps are the statements that another actor can come between: a passing
evaluation (`Pass`), the unlocked read of a failing one's finding (`ReadFinding`), its
write with mappings and remediations (`WriteFinding`), the read for the graph
(`BuildGraph`), `Commit`, and `Rollback` at any point. Completions queue up at the rows
`ensureDefaultPolicies` upserts, so one is in progress at a time (the framework's and
its controls' rows are global: completions of other tenants wait there, too). The order
of evaluations is left open. The guard on the job's status is ScanQueue's `Complete`;
what a policy says is an input, and the graph is abstracted to the assets that are nodes
and the findings edges are drawn from: both are Posture's matter. `AskForGuidance` reads
a finding and calls the provider; `ProviderAnswers` writes what it answers, whatever has
become of the finding, and `Purged` is what a completion deletes of it. In AtomicScan a
completion of an account's scan happens at once, to the assets and findings as they are, or
not at all; the exception are the findings that were triaged after the transaction had
looked at them (`LookedAt`, collected in the history variable `tx.overtaken`), which may
end up as if the triage had not been. `Atomic` in ScanCompletion is the mapping.

**PolicyEngine** (the eleven evaluators), **AttackGraph** (`edgesOf`, `graphOf`) and
**Posture** (a tenant's assets, findings, mappings and graph). A completion is one step
of Posture: `Seen` are the assets upserted and marked deleted, `Failed` and `Passed`
what becomes of a finding, `graphOf` the graph redrawn from all that is active. A report
is a resource's metadata as far as an evaluator looks at it: the flags that are set,
ingress rules, policy statements, ages of keys. `openFindingCount` is what
`listControls` answers. The invariants compare graph and counts with what the last
reports say, read without the engine.

**RiskScore** (risk engine and its use by the worker). Scores are in tenths, so the
arithmetic is exact: with whole factors a score has one decimal at most. `FindingFactors` is
the merge of a policy's factors with the asset's, `boundedInteger` the clamp on what a
scanner reports. The table of policies is a CONSTANT; `MCRiskScore` takes it from
`PolicyEngine!riskFactors`.

**Tenancy** (users, tenants, memberships). A request slot moves from `await` to `await`:
registration creates its user (`CreateUser`), searches a slug (`TrySlug`, one turn of the
loop a step), creates the tenant with its owner (`CreateTenant`), records, looks its
membership up (`CheckMember`) and issues the tokens (`Issue`); tenant creation,
invitation and login go through the parts they share. `StartCreate` and `StartInvite`
are the guards, which read the principal's row once. `EmailFree` and `Taken` are the
unique indexes. A transaction is one step, and so is the upsert of `inviteMember`. A
write whose answer is lost is that write followed by `Fail`. `SlugsOf` lists the slugs a
name can end up with; it is empty for a name without latin letters or digits.
`session` holds the pairs of tenant and user with an access token; what becomes of the
tokens is RefreshTokens' matter. `founder` and `lost` are history. Statuses of users and
tenants are never changed by the code, so expiry apart a token stays as good as its row.

**Dashboard** (the web app, and the API as far as it answers it). `page` is the state of
`App`, `calls` the calls made, each with the arguments its closure captured, `server`
what the API holds. A user's action is the handler with the effects that React runs
after it; `Serve...`, `LookUpAccount` and `CreateAccount` are what the API does with a
call, and `Take...` what its answer does to the page, whenever it arrives. A call may be
refused or lost with its effect done or not. Onboarding an account is two steps under
its unique index, so that somebody else may come between (`ConnectElsewhere`). One
filter stands for both. The three requests of a posture load are answered at one
moment, and a call that is lost before the API has it is not carried out later; nothing
that is modelled relates findings to accounts, and what was not confirmed is in
`foreign` either way. `hasty`, `late` and `foreign` are history: they say when a stale
page is the user's own hurry, a late answer, or somebody else's doing. `late` tells two
cases: an answer to a call made before the page was opened is "passing" if the page's
own answer is still to come, and "lasting" if it came first.

**MC\*** modules hold what a configuration cannot write: symmetry sets, function
constants. Operators described as a mutant are the plausible bugs the runs are tested
against; no specification uses them. **\*Proofs** modules hold the theorems.

## Runs

| Run | Instance | Shows |
|---|---|---|
| refresh_safety | 3 tokens, 1 family, 2 requests, failures | rotation under races: `OneUsablePerFamily`, `LinearChain`, `AuditAfterEffect`, `OnlyOvertakenSurvive`; RefreshTokens implements SessionLifecycle |
| refresh_race | 3 tokens, 1 family, 2 requests | **violated**: `RevocationIsComplete` |
| refresh_liveness | 2 tokens, 2 families, 2 requests, no failures | `EveryRequestEnds`, `ReuseIsAudited`; a revocation stays in its family: `RevokedHasCause` |
| queue_safety | 3 jobs, 2 accounts, 2 workers of 2 slots, failures | `OneRunner`, `RunningHasRunner`, `AccountTellsLastEnd`, `OldestFirst`; ScanQueue implements JobLifecycle |
| queue_liveness | 3 jobs, 1 account, 2 workers of which one may hang, failures | `EveryJobEnds` once failures cease, `PollingGoesOn` |
| completion_safety | 2 assets of 2 accounts, 1 policy, rollbacks, 1 request for guidance | `GraphShowsActive`, `VerdictStands`, `TriageStands`, `OldGuidanceIsLate`; ScanCompletion implements AtomicScan |
| posture | 2 assets in 2 accounts, each pair of types that can meet, 11 policies | `GraphWellFormed`, `PathsTellReports`, `ControlsTellReports` |
| tenancy_safety | 2 users, 2 tenants, 3 names, 2 requests, failures | `OwnersFounded`, `OnlyFoundersAct`, `StrandedHasCause`, `LostStayOut`, `SuffixesDense` |
| risk_scores | 12 policy failures, reports -1..12 | `ScoreFollowsAsset` |
| risk_bands | the same | **violated**: `InformationalBelowTen` |
| dashboard_safety | 2 findings of 2 statuses, 1 account, 3 calls, failures | `OneUpdateAtATime`, `DetailIsOfPage`, `PatientSeesTruth`, `LoadingHasCall` |
| dashboard_filter | 2 findings, no account, 2 calls, no failures | **violated**: `FilterHolds` |

Each passing safety run also checks its module's `TypeOK`. In ScanCompletion it says that
a finding has a date of resolution exactly while it is resolved.

Why the bounds are enough. Three tokens are a login and two rotations, so a retry, a
stale token and its grandchild coexist; two requests are a race of any two handlers,
and the locks and guards compare two at a time. Two workers race for one claim; a
third job lets the queue refill while two run; two slots show what the flag prevents.
A finding is overtaken while another is being written; a second account shows what a scan
must not touch. Posture's reports of a type are those that pass, one for each way to
fail, and those at an edge (a key of 90 days and one of 91, ports that just miss);
assets meet only where one of them is a data store or grants access to it, so the second
one is of such a type. -1..12 goes past both ends of the factor scale. Two users invite,
overwrite and race with each other, for an address, a slug or a suffix. One name's
second slug is another's first, and one name has no slug. Three calls are what opening
the app on a page, or an update and a load that overtake each other, take; each initial
state is either a fresh start or an app that has been open for a while, so that all
three are free for what the user does next.

Bounds of the models: `Tokens`, `Jobs`, `Times` (two values, so that jobs are older,
younger and equally old, in either order of commit), `Tenants`, the listed slugs (more than there are
tenants), the counter `presented` (up to 2), and `MaxCalls`; a rotation starts only while
a row is left for its child, a tenant's creation only while an id is left (`Room`), a
user's action only while its calls are left (`Makes`).

Deadlock is checked in every run but the two of Dashboard, whose calls run out: a reset
poll, an unknown token, a status update, a rescan or a registration with a used address
is always possible.

Fairness. `RefreshTokens!FairSpec`: Node resumes a handler whose query has returned;
starting a request, failing and expiring are not fair. `ScanQueue!FairSpec`: each
worker's timer keeps firing and an invocation goes on; creating jobs and failing are
not fair, nor is the answer of the scanner to a worker in `Hanging`. `EveryJobEnds` is
about the jobs that no failure or hanging scan keeps for itself, and `PollingGoesOn`
about workers that do not hang: nothing in the code frees one that does.

### What the Tenancy run shows

An invitation leaves the membership INVITED and nothing in the code accepts it, so only
founders ever act in a tenant. An owner who invites its own address loses the tenant:
the upsert overwrites its row. A registration that loses the race for its slug, asks for
a name without latin letters or digits, or fails between its transactions leaves a user
who can neither register again nor log in (`StrandedHasCause`, `LostStayOut`).

### What the violated runs show

*refresh_race.* A refresh rotates token t1 to t2. Between the start of a logout's family
update and its end the rotation commits; the update waits for t1's row, marks t1
REVOKED, and never visits t2, which stays ACTIVE. Logout answers `{ revoked: true }`
and t2 still refreshes. The same happens when the family is revoked for reuse.
`OnlyOvertakenSurvive` shows that nothing else survives a revocation.

*risk_bands.* A public bucket with sensitivity and criticality 2 scores 39.5. The bands
are 10..39 and 40..69, both inclusive, so 39.5 is in none and `severityForScore` falls
back to informational; `docs/risk-scoring.md` has informational for 0-9.

*dashboard_filter.* Refresh on the findings page loads the posture, whose answer replaces
the filtered list by the whole one; the effect that loads the filtered list depends on
the filter and the route only, so the filter chosen above the list is not applied.

### What else the models say

These follow from the code as modelled and contradict nothing the repository states:

- A graph shows nothing of an asset that is gone, but its findings stay open and
  controls go on counting them (`ControlsTellReports` counts assets "ever seen").
- Two jobs of one account may complete in the other order: nothing compares scan times.
- A status update between a completion's read and its write of the finding is
  overwritten (`TriageStands` has that exception, `tx.overtaken`).
- A detail, or the answer to an update, that was asked for before a finding's page was
  opened and arrives after the page's own answer stays on that page (`DetailIsOfPage`
  has that exception, `late = "lasting"`); one that arrives earlier is shown only until
  the page's own answer. An update that is sent meanwhile is for the finding of the
  route, not for the one shown.
- Answers for two filters may arrive in the other order, and the list is then that of
  the filter chosen before.
- A change whose answer is lost is shown only by the next load.
- A scan that reports nothing marks every asset of its account deleted.
- A job may be claimed before one that is older by `createdAt` but was committed later
  than the worker's read (`OldestFirst` is about jobs that were there first).
- A logout that is answered after a new login ends the new session on the page.
- An account that the posture load already lists is listed twice when the answer to its
  onboarding arrives after it; hence `PatientSeesTruth` is about users who wait.
- The client's text for a refused token is the one for a wrong password, so
  `handleSessionExpired` is never reached.

## Proofs

All proofs hold for every value of the constants that satisfies the module's named
ASSUME: markers such as `NoToken` are not members of the sets they mark (nor the mark of
an opened page), times are natural numbers, the listed
slugs of a name are distinct, a report has the fields evaluators read, the assets are
finitely many (so that controls can count them), and a dashboard makes two calls at
least (it does when it mounts). Every safety property of the passing runs is
proved, and so are the refinements of SessionLifecycle, JobLifecycle and AtomicScan.

**RefreshTokensProofs**. `TypeCorrect` is proved from `Typed`, which adds to the types
that requests work on stored rows. `DeadTokensStayDead` follows from `Typed` step by
step. `Rotation` is the inductive invariant behind `RotationsHoldTheirRow`,
`OneUsableTokenPerFamily` and `RotationIsLinear`: one usable token per family is kept by a
rotation only if the token it consumes is the usable one, which is what the row lock
says; the lock is of use only if a row is consumed by one rotation; and a chain stays
linear only if a parent is already marked used. Three invariants rest on these:

- `Recording`: what a request at `respond` is about to record has happened to the rows
  (`Effect`), because only refreshes exchange tokens and no other place has an answer
  ready (`InCourse`). Theorem: `AuditFollowsEffect`.
- `Revoking`: a family update in progress will visit every token that is still usable,
  unless a rotation overtook it (`Covers`). A family without a usable token gets none
  (`DeadFamilies`), since rows come only from a login into an unused family or from
  a rotation of a usable token (`Inserts`). Theorem: `OnlyOvertakenTokensSurvive`.
- `Caused`: who works on a token presented it, two requests that do presented it twice
  (`PresentedTwice`), and a token spent while a request works on it was spent by
  another; so whoever goes on to revoke has a cause. Theorem: `RevocationsHaveCause`.

`TokensImplementSessions` rests on these: `OneUsablePerFamily` makes the holder of a
session unique (`HoldersAreUnique`), a rotation hands over from the very row it holds,
and the snapshot of a family update is of one family, so that it closes one session or
finds it closed (`RevocationCloses`). A token that loses the session never gets it back:
only a fresh one can.

**ScanQueueProofs**, with and without failures and hanging scanners. The argument is in
layers, each inductive under the ones before it: `Typed` (theorem `TypeCorrect`);
`RunnersInv`, in which `RunsOrEnded` says that an invocation past its claim is the runner
of its job or the job has ended, which makes `OneRunner` inductive (`NoJobRunsTwice`,
`RunningJobsAreAccountedFor`); `FlagsInv` (`OneInvocationPerWorker`);
`AccountTellsLastEnd` (`AccountsTellLastEnd`); `CandidatesAreOldest`, which carries the
order of the read over to the claim for all jobs that were in the table before the
candidate, because a job committed later goes behind it in `created` whatever its
`createdAt` (`QueueOrder`); and `LifecycleStep`, which maps each
step to one of JobLifecycle, or to none (`QueueImplementsLifecycle`).

**ScanCompletionProofs**. The inductive invariant `Kept` is `TypeOK` with `Shape` (what
each place of the transaction says of its variables) and one part for each promise:
`VerdictKept` says of every evaluated finding what the transaction sees of it,
`TriageKept` that the status a completion read is still the committed one unless the
finding is in `overtaken`, `GuidanceKept` that guidance which will be outdated by the
commit is either purged or late, `GraphKept` that the graph read is that of the rows
about to be committed, `AccountKept` that assets differ from the committed ones only in
the account scanned. Theorems: `TypeCorrect`, `VerdictsStand`, `TriageStandsUnlessOvertaken`,
`OldGuidanceCameLate`, `GraphIsOfItsRows`, `ScansKeepToTheirAccount`.

`CompletionIsAtomic` needs `AtOnce` on top: `AsIfNow` says that a finding the transaction
is done with looks to it as a completion would leave it that began only now, unless it is
in `overtaken` (for those, `VerdictKept` bounds the outcome); `Reported` keeps the report
it began with, which nothing else remembers by the time of the commit; `Overtaking` says
that findings triaged after the read for the graph are in `overtaken`. `CommitCompletes` then reads AtomicScan's `Complete` off these, and every
step before the commit changes nothing that AtomicScan speaks of.

**PostureProofs**. `RowsTyped` gives the types; `Drawn` that the graph is the one drawn
from the rows, triage aside; `Told` that a finding's status, evidence and mappings are
those its asset's last report implies; `Mapped` that a failing finding has its control.
`PathsAreOfTheLastReport` then compares `edgesOf` with `PathsOf` policy by policy, and
`ControlsCountTheLastReports` maps the findings of a control to their assets, one to one,
because each control belongs to one policy. Also: `TypeCorrect`, `GraphsAreWellFormed`.

**TenancyProofs**. `Typed` adds to the types what a request holds at each of its places
(`WellFormed`). `Founding` is the invariant behind `OwnersAreFounders` and
`ActorsAreFounders`: `OnlyFoundersAct` is kept by a write only because the request that
makes it already stands for the founder (`RequestsOfFounders`), which the guard provides
because an active member is the owner and the owner the founder; and a new tenant has no
founder before (`UnfoundedUntilCreated`). `OneMoves` sums a step up for addresses and
slugs in five ways; on it rest `Registering` (a lost user is no founder and is not being
registered, and one that is being registered is so by one request; theorems
`StrandedUsersHaveCause`, `LostUsersStayOut`) and `Dense` (a request has passed over
used slugs only, and slugs stay in use; theorem `SlugsAreDense`). `TenantsGainNobody`
follows from `Typed` step by step.

**RiskScoreProofs**, for any table of policies on the scale and any integers reported.
`ScoreIsSum` reduces the engine to the weighted sum (the clamps change nothing on the
scale), `WeightedOrdered` and `WeightedOnScale` are the arithmetic, and
`FindingFactorsType` and `FindingFactorsOrdered` say that the asset only raises
factors, in order. Theorems: `ScoreTypeCorrect`, `PolicyFloor`, `ScoreMonotone`,
`SeverityBands`.

**DashboardProofs**. `Typed` adds to the types that a call in the air has the arguments
its kind needs and an answer of its shape. `Busy` counts: a page is updating exactly while
one update is in the air, and whatever it shows as loading has a call (theorems
`UpdatesOneAtATime`, `NothingLoadsForGood`); updates are counted through the functions
that end and add calls (`FlightEnds`, `FlightServed`). `Current` says that the detail
and update calls made since the page was opened are of its finding, and `OfPage` that
what is selected is of the page unless an older answer came late: as long as the page
still waits for its own (`Awaited`, which only that answer ends), or after it
(`DetailsAreOfThePage`).

**DashboardPatienceProofs**. While nobody is `hasty` at most two calls are in the air, the
posture and what a page loads besides (`Companions`); each of them is about the page
shown, and if it is answered, with what the API still holds (`Fits`); so what the page
shows is what the API holds (`Truth`), but for changes whose answer is on its way
(`Applied`) and for what is in `foreign`. Theorem: `PatientUsersSeeTheTruth`.

Theorems that state more than a run checks: `RotationsHoldTheirRow` (what the row lock of
a rotation is for), `DeadTokensStayDead`, `OneInvocationPerWorker`,
`ScansKeepToTheirAccount`, `PolicyFloor` (an asset's report never lowers a policy's
score), `SeverityBands` (a severity is that of its band, except for the scores between two
bands that risk_bands is about) and `TenantsGainNobody` (a tenant that is there never
gains an active member).

Only model-checked: the liveness properties, because fairness and ENABLED are out of the
prover's reach.

## Not modelled

- The AWS scanner is a mock with fixed answers; its answer or error is an input.
- Of AI remediation the texts: the sanitizer of what the provider is told and the
  validator of what it answers work on single strings. So do DTO validation, parsing of
  role ARNs, encryption, password hashing, JWT signing and the configuration.
- The read-only services (assets, attack paths, overview, audit listing) keep no state;
  `listControls` is modelled because its counts depend on what scans leave behind.
- Titles, descriptions, labels, guidance texts, scan events and stored policy results,
  which nothing reads back. `CANCELED` is a job status no code writes.
- Of the audit log the entries of findings, scans, remediations and cloud accounts: each
  is one insert after its operation, and what a lost one means is modelled for sessions.
- The seed is development data that no other code depends on.
- The older web app at the root: its loads and its update are those of the newer one.

## Ways on

Scan times, if the code comes to compare them; a
composition of ScanQueue and ScanCompletion, in which the guard on the job's status ends
a completion that was overtaken by its own job's failure report.
