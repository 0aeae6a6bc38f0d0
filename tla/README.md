# Verification of the Intel4Ops core platform

TLA+ models of the parts of `intel4ops-core-platform` in which concurrent
requests, worker processes, background tasks and crashes decide whether the
system is correct: the agent job queue, the AC-002 release chain and the
simulation batches that feed it, the verified-value ledger, canonical mapping
with its worker and its reviews, the runs of an analysis case, and decisions
with the actions they lead to.  TLC checks small instances; TLAPS proves every
safety property, every action property and both refinements that the runs check,
for every value of the constants.

Paths below are relative to the repository root (`app/...`, `docs/...`).

## 1. The system and its components

The platform is a FastAPI service over PostgreSQL (SQLAlchemy sessions, READ
COMMITTED, no retry of failed transactions), a JSON artifact store that is not
part of any transaction, in-process background tasks, and two kinds of worker
process.  API processes run side by side, so any two requests may overlap at
every statement.

| Component | State | Operations | Talks to |
|---|---|---|---|
| Agent job queue (`app/services/agent_job_service.py`, `agent_routing_service.py`, `app/api/agent_job_routes.py`) | `agent_jobs`, `agent_job_events`, `agent-jobs/<id>/*.json` | create, claim, heartbeat, stale sweep, result, failure, owner decision | local workers over HTTP; release chain and batches (same table) |
| Local Worker Bridge (`local_worker/agent_worker.py`) | one claim at a time, a heartbeat thread | poll, infer, report | queue, LM Studio |
| Simulation batch controller (`app/validation_program/batch_controller.py`, `wave_coordinator.py`, `simulation_controller_routes.py`) with ground truth validation | batches, items, registered truth, validated runs | stage, prepare, run, score, classify misses, hand off | analysis cases, queue, release chain |
| AC-002 release chain (`app/validation_program/`: handoff, dispatch, Codex execution, retest, release authorization, merge, promotion) | batches and items, one Codex `agent_jobs` row, eleven JSON artifacts | twelve handlers in six services | owner, executors, queue sweep |
| Recovery ledger (`app/services/recovery_ledger_service.py`) | executions, measurements, verifications, ledger entries, audit events | transitions, measurement, submission, review, verification, adjustment, reversal | finance users |
| Canonical mapping execution (`app/services/canonical_mapping_service.py`, `app/workers/mapping_execution.py`) | `mapping_runs` with lease and heartbeat, results, evidence | submit, execute, retry, fail, claim, heartbeat, recover, complete | mapping worker, Operational Memory |
| Canonical mapping governance and review (same service) | template versions, field mappings, record results, exceptions, match candidates, reviews, entities | create, edit and move a version; map records; review; decide | mapping runs, reviewers |
| Analysis cases (`app/services/analysis_case_orchestration_service.py`, `analysis_case_service.py`, `app/api/analysis_case_routes.py`) | case, datasets, runs, stage events, decisions, findings, entity links | register, start, execute stage by stage, poll | trust, mapping, packs, findings |
| Actions (`app/services/action_service.py`, `app/engines/action_engine.py`) | action rows with events, dependencies, resources, evidence, outcomes | create, transition, assign, add, record outcome | decisions |
| Decision intelligence (`app/services/decision_intelligence_service.py`) | problem versions, scenarios, executions, recommendations, approvals, outcome links | publish, add, validate, execute, recommend, decide, convert | solver, actions |
| Ingestion and source systems | batches, datasets, versions, counts | transitions, version creation, reconciliation | – |
| Analytic services, knowledge and packs, findings, tenancy, commercial, reporting, storage | rows written by one request at a time | see `PROJECT.json` | – |

`PROJECT.json` lists every component, with a reason for each that is not
modelled, and the hazards of the code line by line.

### What is hard here, and what makes each part correct

- **Queue.** `claim_next`, `heartbeat` and `recover_stale` lock their row or
  test it in one UPDATE; the others read with a plain SELECT and write by
  primary key later.  A worker that lost its lease is not told to stop.  Correct
  means: a running job can always be recovered, gated work is never leased,
  history accounts for every execution, work is bounded, settled jobs stay
  settled and every claimable job settles.
- **Chain.** Every handler checks artifacts and rows without a lock, writes one
  artifact, then commits rows.  Either half may be lost or overwritten.  Correct
  means custody: nothing is released, merged, authorized or deployed out of
  turn, and a retest that nobody can complete has a lost start behind it.
- **Ledger.** Only `verify` and `reversal` lock a row; the rest rests on unique
  keys.  Correct means value is approved and posted once by someone other than
  the submitter, entries are numbered without gaps and never rewritten, and
  reversals never exceed what was posted.
- **Mapping execution.** A lease is taken under a lock and given up only by a
  compare-and-set; `fail` and `retry` ignore it, and recovery happens only when a
  worker starts.  Correct means the results of a run are written once, by the
  holder of its lease, and no run stays queued or stranded.
- **Mapping governance.** No handler locks.  Correct means a run uses only what
  was approved and published, entities are merged only by a decision, and what
  could not be resolved is on record until somebody closes it.
- **Analysis cases.** A background task commits stage by stage and dies with the
  process.  Correct means no dataset is dropped without the status telling, and
  what was published was ready, trusted and linked.
- **Actions and decisions.** `ActionService` locks nothing, decisions lock their
  recommendation.  Correct means work and realized value were authorised, the
  trail explains the status, and one authority becomes one action.
- **Batches.** A request commits many times and nothing locks.  Correct means
  hidden truth leaves only after the freeze and is compared only with runs of its
  own case.

## 2. Modules

| Module | Role |
|---|---|
| `AgentJobs`, `AgentJobs_proofs` | queue, routes and worker processes; `QueueSafety`, `RunningStaysRecoverable`, `ExecutionsAreBounded`, `SettledFinal` |
| `ReleaseCustody` | abstract specification of the chain: five growing sets |
| `ReleaseChain`, `ReleaseChain_proofs` | the chain for one batch; instantiates `ReleaseCustody`; `DeploymentsAreBacked`, `RetestsAreSound`, `RetestStrandingNeedsLoss`, `ChainKeepsCustody` |
| `RecoveryLedger`, `RecoveryLedger_proofs` | executions, measurements, finance decisions and ledger of one organization; `LedgerIsInOrder`, `NobodyReviewsOwn`, `ValueIsVerifiedOnce`, `ReversalsNeverExceed`, `LedgerImmutable` |
| `RunCustody` | abstract specification of mapping execution: handed out once, written once, retried once |
| `MappingRuns`, `MappingRuns_proofs` | the mapping queue, its worker processes and its clients; instantiates `RunCustody`; `RunTableIsSound`, `NoRunHasTwoWorkers`, `EvidenceHasCompletion`, `CommittedRunStaysFinal`, `QueueImplementsCustody` |
| `MappingGovernance`, `MappingGovernance_proofs` | template versions, mapped records, entities and reviews; `UsedVersionPassedGates`, `NothingIsAutoMerged`, `ReviewsAreSound`, `NoRecordIsHidden` |
| `AnalysisCases`, `AnalysisCases_proofs` | the runs of one case; `RunsPublishWhatTheyDecided`, `EndedRunsTellLoss`, `FindingsHaveTrust`, `FindingsAreLinkedAtOnce`, `CaseOutcomeIsARuns` |
| `ActionWork` | operational actions |
| `Decisions`, `Decisions_proofs` | from a problem version to an action; extends `ActionWork`; `WorkNeedsApproval`, `TrailIsComplete`, `RealizedValueWasEarned`, `SolvingWasGated`, `GoverningApprovalIsCurrent`, `OneActionPerRecommendation`, `ComposedActionsAreSound` |
| `SimulationBatches`, `SimulationBatches_proofs` | batches up to the handoff to the owner; `TruthIsIsolated`, `ReviewsAreBacked`, `StrandingNeedsLoss` |
| `MC<module>`, `<module>_*.cfg` | instances for TLC |

Definitions named `X_Suffix` (`Claimed_NoHeartbeat`, `Post_Upsert`, ...) are
mutants: plausible wrong versions of the definition `X` that the listed property
must reject.  No specification uses them.

### The common shape

A request that locks what it reads is one step.  Any other request is a *read*
step that checks its conditions and remembers in a record what it saw, and a
later *commit* step that writes the columns the session found changed onto the
row as it is by then.  Between the two anything may happen, and the request may
be lost.  Writing an artifact is a step of its own between them, and is never
rolled back.

### AgentJobs

`job` is the table (request, status, `retry_count`, lease, heartbeat, approval),
`retried` counts the RETRIED events, `resultFile` is `result.json`, `grant`
remembers which job each lease was given on, `worker` the worker processes,
and `creating`, `handler`, `deciding` the requests past their checks.

| Code | Actions |
|---|---|
| `create_job` | `CreateRead`, `CreateCommit`, `CreateAbort` |
| `POST /claim` = `recover_stale` then `claim_next`, two transactions | `RecoverStale`, `ClaimNext`, `ClaimNothing` |
| `heartbeat`, passing of time | `Heartbeat`, `Expire` |
| `submit_result` | `ResultRead`, `ResultWrite`, `ResultCommit`, `ResultMalformed`; refused: `ResultRefused` |
| `submit_failure` | `FailureRead`, `FailureCommit`; refused: `FailureLeaseLost` |
| crashes and lost answers | `HandlerAbort`, `GatewayError`, `WorkerDrop` |
| `apply_owner_decision` | `DecideRead`, `DecideCommit` |

`heartbeat_at` is abstracted to null, fresh or stale; lease identifiers are
numbered in the order they are granted, so that "the last lease" can be said;
`EvaluateWorkerResult` is the complete decision table over confidences on both
sides of each threshold.  `claim_next` does not filter by organization while
the route looks the job up under the credential's own, so a worker of another
organization can take a lease it then loses: the model has that behaviour and
`ClaimableSettles` holds in spite of it.

### ReleaseChain

One batch with its items, the Codex jobs, and the artifacts of each job and
environment.  `call` holds the requests in flight, each with what it will write
and which columns its session will flush.  The history variables `verified`,
`released`, `merged`, `approved` and `deployed` record what the artifacts have
ever said; they are the variables of `ReleaseCustody`, and `KeepsCustody` is the
refinement.

Each service method is one read action (`PrepareHandoff`, `RejectHandoff`,
`ApproveHandoff`, `StartCodex`, `CompleteCodex`, `StartRetest`,
`CompleteRetest`, `AuthorizeRelease`, `StartMerge`, `CompleteMerge`,
`AuthorizeDeployment`, `StartDeployment`, `CompleteDeployment`), each artifact
one `Write...` action, and `Commit` and `Abort` end a request.  The answer
to retest start, which alone carries the lease, is a step after the commit
(`AnswerRetest`), and is lost when the request is aborted in between; `lease` says
what became of the lease of the manifest on file.  `RecoverStale`
is the queue's sweep, which also finds Codex jobs since nothing refreshes their
heartbeat.

Abstractions: a head commit stands for branch, commit and pull request together;
completions with a lease other than the manifest's are refused without effect
and left out; the batch starts with its classification jobs accepted.  The
retest decision is computed by `RetestDecision` over totals that meet each
comparison in each direction.

### RecoveryLedger

One organization.  `exec`, `measurement`, `verification`, `ledger` and `audit`
are the tables, rows identified by idempotency key where that key is unique.
`Post` and `Audited` carry the unique constraints; `MeasurementLocked` and
`EntryLocked` are the two FOR UPDATE locks, and a commit that would update or
reference a locked row waits.  Each operation is a read action and a `Commit...`
action; `Abort` is a failed constraint, a deadlock victim or a crash.

`verify` reads the measurement and the ledger in one step: the measurement is
locked in between, and the entry number it computed is checked by the unique
constraint when it commits.

### MappingRuns

`runs` is the table, `results` and `evidence` what completed executions wrote,
`worker` the processes with the lease each holds, `client` the requests past
their reads.

| Code | Actions |
|---|---|
| `submit`, `execute`, `retry`, `fail` | `SubmitRead`/`SubmitCommit`, `SubmitRead`/`ExecuteCommit`, `RetryRead`/`RetryCommit`, `FailRead`/`FailCommit` |
| `claim_next`, `claim_run` | `ClaimNext`, `ClaimRun` |
| `HeartbeatPump`, passing of time | `Heartbeat`, `Expire` |
| worker start = `recover_stale` | `Start` |
| `execute_claimed` | `BeginExecute`, `FinishExecute`, `ExecuteRaises` |
| `fail_claimed`, evidence after the commit | `FailClaimed`, `RegisterEvidence` |
| database errors, death | `DatabaseError`, `Crash` |

Mapping happens inside the transaction that ends with the compare-and-set on
the lease, so its rows appear all at once; which fields yield evidence is free.
`RunCustody` has phases, holder, written results and retries only.  Leases stand
for the worker they were granted to.

### MappingGovernance

Versions move through the lifecycle table with reads and commits apart, and may
be edited by a request that read them as drafts.  A run sees committed
entities and those it inserted, maps its records one by one (`MapRecord`, with
the outcomes `_map_record` can reach) and commits all rows at once.  Entities are
model values; `EntityOf` says which records describe the same one.  A review or
a candidate decision is a read and a commit.

### AnalysisCases

`run_case` creates a run and hands it to a background task in the same process.
Each action of a task is one stage that commits: datasets one by one
(`ReloadFails`, `TrustAndMap`), interpretation, relinking of entities (`Unlink`,
`Relink`), evaluation of capabilities, packs, rules, `Attach`, `Finish`.  What a
dataset contains is the choice of what each stage makes of it.  A row of `run` has
two history fields: the datasets the task listed when it began, and the status
execute ended the run with.  `Lost` is the
death of the process; `Expire` passes the stale limit, also for a live task;
`PollRead` and `PollCommit` are the client's status request, which alone
interrupts a stale run.

### ActionWork and Decisions

An action is a row with its child rows; a transition remembers the status it
read.  `Decisions` extends `ActionWork`: its `Next` has the work on actions as
well, and `ConvertToAction` inserts an action that is approved from the start.
Executions are numbered in the order of their commit.  A validation writes only
the columns that differ from what it had read (`Flushed`), so two overlapping ones
may leave a status of one and a verdict of the other.

### SimulationBatches

Routes stage one simulation per batch, so a batch has one item.  `request` holds
the requests in progress with the step they are at; each commit of the code is
one action, and `Lost` ends a request anywhere.  `truth` is the case a simulation's
truth is registered for and whether the truth itself is uploaded (two commits),
`ran` the case of each run, `validated` the runs compared with a simulation's truth.
`run_batch` loads its item again after its first commit, and its last one writes
state and run for every outcome, as far as they differ from what was loaded
(`Changed`, `Outcome`): a request that fails late overwrites an item another
request froze.  A validation that raises after its flush leaves its row pending,
and the last commit writes it.  Jobs are identified by batch, truth family and the
request that created them, so that two overlapping classifications show.  Cases
and runs are numbered in the order of their creation.

## 3. Runs

Deadlock is checked in the queue and chain runs.  The others say
`CHECK_DEADLOCK FALSE`: keys, rows or runs are finite, and the system may really
stop when they are used up.

| Run | Instance | Shows |
|---|---|---|
| `agent_queue` | 1 job of risk R0 or R2, 2 workers of different organizations, retry limit 1, 4 leases | all queue properties incl. liveness |
| `chain_deploy` | 2 items, 1 job, 2 heads, 1 merge commit, both environments, 1 request at a time | whole chain with crashes: `DeployedIsBacked` |
| `chain_race` | 1 item, 1 job, 2 heads, 1 merge commit, no environment, 2 requests at a time | `RetestIsSound`, `RetestStrandsOnlyByLoss` and the refinement `KeepsCustody` under races |
| `ledger_verify` | 1 case, 1 measurement, 2 users, 3 keys, unit amount, 2 requests at a time | verification, segregation, numbering, reversals, immutability |
| `mapping_queue` | 2 runs, 2 keys, 2 workers, 2 clients, 1 field, 1 fault, recovery of 1 row at a time | run table, leases, evidence, the refinement `ImplementsCustody` |
| `mapping_live` | 2 runs, 2 keys, 2 workers, 1 client, 1 fault | `QueuedIsTaken`, `StrandedIsRecovered` |
| `mapping_review` | 1 version, 1 field, 2 users, 2 runs of one record each for one entity, 2 entities there before | governance, merging, exceptions |
| `cases_pipeline` | 1 user, 2 datasets of 2 domains, 3 rules, failures at every stage, 1 run | publication, trust, status, findings |
| `cases_overlap` | 2 users, 1 dataset, no rules, no failures, 2 runs | case status and liveness under overlap, death and staleness |
| `actions_race` | 2 users (1 admin), 1 action and 1 it may depend on, 6 events, 2 child rows | authorisation, trail, realized value |
| `decisions_authority` | 2 users, 2 inputs (1 sound), 1 recommendation, 2 actions, 2 decisions, 2 links | gate, authority, conversion |
| `batches_requests` | 1 simulation, 2 batches, 2 requests, 1 truth family, 2 cases, 2 runs | freeze, own truth, review, stranding |

A property named `...IsSound`, `...AreSound` or `...IsBacked` is a
conjunction of named parts and of the module's type invariant; each part has its
own definition and comment.

### Bounds, and why they are enough

- *Leases.* `ExecutionsBounded` says an agent job is executed fewer than
  `2^(RetryLimit+1)` times: 3 at retry limit 1, with 4 leases available; so
  `MaxLease` never keeps a claim from happening, which liveness needs.
  `ExecutionsAreBounded` proves the bound for every limit.  In `MappingRuns` a
  run is claimed at most once, so leases equal runs.
- *Retry limit.* The code's literal is 3.  At 1 a job can be retried, have its
  count set back by a late failure, and be given up.  The theorems hold for any
  limit.
- *Two requests at a time* is what a lost update or a check-then-act race needs.
- *Two heads* allow a result to be overwritten by another candidate; two
  environments allow an authorization to be taken for the wrong one.
- *Three keys* let two reversals of one posting exist; with unit amounts a
  reversal takes the whole remaining value, so partial ones are not explored;
  `ReversalsNeverExceed` covers them.
- *Two mapping runs* are a run and its retry, or two runs behind each other in
  the queue.  `RecoverLimit` is 1 in `mapping_queue`, where a restart may leave a
  stale run behind; in `mapping_live` it covers all runs, so that recovery a few
  at a time is explored for safety and not for liveness.
- *Six events* take an action through its whole life once with one detour; two
  decisions let an approval be withdrawn or repeated.
- *Two batches, one simulation* is the race of two stage requests.
- *Symmetry* is used where every property is a safety property; the runs with
  liveness use none.

### Fairness

- `AgentJobs` (`ClaimableSettles`): each worker goes on polling (`run` loops and
  catches exceptions) and ends its inference (the HTTP client has a time limit);
  the server ends each request, by commit or abort; and time passes for a
  running job that no living worker attends.
- `MappingRuns` (`QueuedIsTaken`, `StrandedIsRecovered`): each worker process
  keeps taking steps, and one that is down is started again by its supervisor.
  Crashes and database errors are bounded (`MaxFaults`), since a system that
  always crashes settles nothing.  `StrandedIsRecovered` is claimed only of runs
  that are stale while a worker is down: nobody looks for stale runs otherwise.
- `AnalysisCases` (`RunSettles`): a live task goes on to its next stage, time
  passes, requests end, and some client polls a run it sees running (the
  frontend polls until the run settles).

No fairness is assumed of owner or finance decisions, successful commits, or
workers and tasks surviving.

## 4. Proofs

Each `X_proofs` extends `X` and proves `Spec => []Inv` from one strengthened
invariant: it holds initially, every action keeps it (one lemma or step per
action), and it implies `Inv`.  Each strengthened invariant was checked with TLC
on the run's instance before it was proved.

The theorems hold for any constants that satisfy the modules' assumptions, which
are no stronger than the code:

| module | assumed of the constants |
| --- | --- |
| `AgentJobs` | `OrgOf` gives every worker an organization; there is a request, and each has an organization and a known risk class; 0 is not a job id; `RetryLimit` and `MaxLease` are naturals |
| `ReleaseChain` | a batch has at least one item; null differs from every id; `RetryLimit` is a natural |
| `RecoveryLedger` | `CaseOf` maps measurements to cases; amounts are positive (`Field(gt=0)`); null differs from users and verifications; decisions are those of a review |
| `MappingRuns` | `MaxRuns` and `MaxFaults` are naturals; the recovery scan takes at least one run |
| `MappingGovernance` | runs have inputs, and different ones; an input's entity is an entity, "no entity" is not one; `Seeded` are entities; decisions and verdicts are those of the API |
| `AnalysisCases` | `Rules` is a sequence of rules; the maintenance pack is not one; what a rule needs trusted it needs; `MaxRuns` is a natural |
| `ActionWork`, `Decisions` | admins are users; other work items are not actions; sound inputs are inputs; "none" and "source" are not recommendations; bounds are naturals |
| `SimulationBatches` | `MaxCases` is a natural |

**AgentJobs.**  No property is inductive: a commit writes from what its handler
read earlier.  `IInv` adds `LeaseBook` (unused leases have no job, a lease on a
row was granted on that row, a worker holds a granted lease), `SubmissionsSound`
(a submission's lease was granted, the retry count it read is within the events
recorded since, a submission that has written left a file) and `CreatesSound` (a
create in flight concerns a row that does not exist).  `QueueSafety` covers
`RowsAreSound` and `RunningStaysRecoverable` the lease and heartbeat of a running
job; `SettledFinal` uses the same invariant: each action that changes the status
of a settled job needs a submission in flight on it.  `QueueSafety` needs in
addition `Accounted`: the leases granted on a job, one by one, are accounted
for by its history or by its present lease (`HistoryCoversExecutions`).

`ExecutionsAreBounded` is about a counter that is set *back*: a late failure
report writes `retry_count` from what it read, so executions are not bounded by
`RetryLimit`.  The argument places each execution of a job at a node of its own in
a binary tree: a nonempty subset `t` of `0..RetryLimit`, whose largest member is
the retry count it ran with.  A sweep leads to the child `Swept(t, n)`, a failure
report to `Reported(t, n)`; each execution is swept or reported, or both if the report
read before the sweep.  `TreeInv` says that executions have nodes (`Explained`),
that the nodes to which the next sweep and each pending report lead are free, and that each
execution reports failure at most once (`ReportsOnce`).  There are fewer than
`2^(RetryLimit+1)` nonempty subsets, so there are fewer executions.

**ReleaseChain.**  Artifacts can be overwritten, so `IInv` speaks of what they
*ever* said: the history sets are ordered (`Ordered`), every artifact on file is
in its history (`Backed`), and every request in flight is entitled to what it is
about to write (`SoundCall`): facts that cannot be taken back, because
the histories only grow.  This gives `DeploymentsAreBacked` and `RetestsAreSound`.
`ChainKeepsCustody` is the refinement: under the invariant every step is a step
of `ReleaseCustody` or leaves its variables unchanged.  `RetestStrandingNeedsLoss`
follows the manifest of each job: one that is on file with a lease still to be
returned has its start in flight (`Attended`), whichever starts overlap, so that
when none is left the lease arrived or was lost.

**RecoveryLedger.**  `NobodyReviewsOwn` needs that a measurement is submitted
once; nothing locks it, and only the unique key of the audit event stops a
second submission, so `AuditInv` relates audit keys to measurement states.
`ValueIsVerifiedOnce` relates the lock to the requests in flight (`LockInv`) and approvals
to postings (`ApprovedInv`, `ApprovedOnce`, `LinkInv`); `LedgerIsInOrder` is
`NumberedInv` (sequence numbers are exactly `1..n`) and `DoneInv`; `CallsSound` is what
each request saw that still holds.  `LedgerImmutable` needs the same invariant.
`ReversalsNeverExceed` adds `ValueInv`: the sum a reversal read under the entry's lock
is still the sum when it posts.  Sums are `SumFunctionOnSet` of the community
modules, defined by recursion over a set; the module proves that it unfolds and is
additive by taking a minimal counterexample among the subsets of a finite
set, which needs no induction theorem with an operator parameter.

**MappingRuns.**  `IInv` is `TableSound` (types, keys and retry lines),
`ResultsSound`, `RequestsSound` and `WorkersSound` (what a worker believes of its
run still holds, or the run was failed under it).  `QueueImplementsCustody` maps
the holder of a run to its lease while it is `running`; each step is a step of
`RunCustody` or a stutter.

**MappingGovernance.**  Versions are edited while transitions are in flight, so
`VersionsSound` rests on what is never taken back: field mappings and stamps are
only added, hence a transition that read a version that had `Passed` a gate
still finds it so (`MayReach`).  `RecordSound` does the same for exceptions and
candidates, `CommitSound` and `MappedSound` say that nothing of a run is visible
before its commit, and `ReviewSound` that a review in flight still finds what it
was opened on.

**AnalysisCases.**  A run is one row and one background task.  `RunSound` is the
relation between the two: `OutcomeSound` (statuses and failures), `LossSound` (every dataset listed is
still to do, assessed or lost; an outcome only of a task that is over),
`PublishingSound` (decision, evaluation and findings of each rule up to the one
the task is at) and `LinkingSound` (what is linked when).  Requests touch a row only to
create it or to declare it interrupted.  `CaseOutcomeIsARuns` needs no more than
the conjunct `CaseShowsARun` itself beside `RunSound`.

**ActionWork and Decisions.**  A commit writes a status that was allowed from the
one read, which may be long gone.  The argument is that rows only gain in what
matters (`Grows`: events, the completed and verified flags and evidence are never
taken back), so whatever entitled a request to its write when it read
(`RequestSound`) still does when it commits; `RowSound` says what a row of each
status has been through (`Authorised`, `Reached`).  A required approval and the
trail thus survive every race, although terminal statuses do not (section 5).
The first three theorems are about actions created by requests (`ActionSpec`);
`ComposedActionsAreSound` says the same of `Spec`, where conversions create
approved actions too.  `DInv` adds `ScenarioSound` and the gate of each execution, and
`RecommendationSound`: decisions, governing approval, conversion, and the action
that came of it.

**SimulationBatches.**  What was staged, frozen, validated and classified is
never undone (`Grows`), though an item's state and run are overwritten; so
`Evidence` for a batch's state survives requests that read
before others committed.  `Attended` says that a batch that is half imported or
running has a request in flight on it, or one on it was lost;
`JobsAreAfterFreeze` that misses were sent only of a frozen item.

**Only model-checked.**  The four liveness properties (`ClaimableSettles`,
`QueuedIsTaken`, `StrandedIsRecovered`, `RunSettles`): the provers have neither
fairness nor `ENABLED`.  Every other property of a run has a theorem.


## 5. Behaviours no run checks

Seen while modelling, present in the models, and checked by no run:

- Two overlapping approvals of a handoff create two Codex jobs; two overlapping
  release decisions overwrite each other; a crash between the authorization file
  and the commit leaves an approval whose batch is not complete; a late Codex
  completion can overwrite `result.json` of a succeeded job.  Custody holds in
  all these cases.
- A batch with a scored or blocked item cannot enter retest, since start wants
  every item in remediation review.  A late `prepare` commit moves items back.
  One environment's deployment clears the paused status another left.
- Retest start commits the items and then returns the lease.  A crash or a lost
  answer in between, or a start lost between its manifest and its commit while
  another one commits, leaves the batch in retest with nobody holding the lease
  of the manifest on file; start refuses to redo it, since it wants items in
  remediation review (`autonomous_verification_retest.py:147-153`, `:201-207`).
  `RetestStrandsOnlyByLoss` says that nothing else does.
- An owner-gated agent job is never queued: the decision changes only the
  approval column.
- A reversal of a reversal subtracts again: it always posts `-amount`.  The bound
  of each entry holds, the net value of a case may go below zero.
- A measurement sent back as `needs_information` has no operation that takes it
  further; the verified amount is not compared with the realized one; a closed
  case still takes entries.
- Two overlapping requests may both start a run of a case, since `start_run`
  looks for a RUNNING run and not for a CREATED one.
- A run whose heartbeat is stale is declared interrupted although its task is
  alive; the task then ends it with another status.
- The evaluation of readiness counts a trust assessment that ended in error as
  resolved; `PublishedOnTrust` holds because the publisher looks at the
  assessment again.
- A solved scenario had a gate that passed for some sound input; not all that was
  solved was validated (see the table).  Two validations from stale reads may
  leave a ready scenario with a blocked verdict; the gate asks for both.
- A mandatory dependency of an action is never resolved by any operation: it
  blocks completion for good.
- A crash while misses are classified leaves jobs whose items do not say so, and two overlapping classifications may both create a family's job.
- A `run_batch` request that fails late overwrites the state and the run of an item
  that an overlapping one froze and scored (`batch_controller.py:275`, `:289`): the
  item is blocked, still frozen, and names no run or one that was not validated.
  `TruthAfterFreeze` therefore asks that some run of the simulation was
  validated, and not the one the item names.

Where a document, a comment or a message says otherwise than the code does:

| Code | Says | Does |
|---|---|---|
| `agent_job_service.py:308` | "same lease-ownership-checked UPDATE for every terminal write" (lines 6-8) | `submit_result` and `submit_failure` check with a plain SELECT; a submission checked before a sweep and a new claim overwrites the new holder's outcome |
| `agent_job_service.py:146` | 'Guards duplicate job creation from a retried "create job" call' (`app/models/agent_jobs.py:228`) | lookup, then insert, without a unique constraint |
| `deployment_authorization_controlled_promotion.py:277` | "Authorization is bound to the exact AC-002G merge commit SHA." (`docs/ac002h-deployment-authorization-controlled-promotion.md:17`) | after a second merge completion a promotion started for the old commit completes with the new one |
| `recovery_ledger_service.py:655` | "Approval and the first ledger entry are committed in one transaction" (`docs/recovery-ledger.md:23`) | a verification whose key an adjustment used is approved without an entry |
| `recovery_ledger_service.py:353` | "Measurement is not awaiting finance review" | a review that read the measurement as submitted overwrites a verification made meanwhile |
| `canonical_mapping_service.py:620` | "Published content is immutable." (`docs/wp-2-05-canonical-mapping-framework.md`) | a field added by a request that read a draft lands in a version published meanwhile |
| `canonical_mapping_service.py:732` | draft → candidate → validated → approved → published → deprecated → retired (`docs/wp-2-05-canonical-mapping-framework.md`) | two transitions that read one status commit one after the other; the later may move the version back |
| `analysis_case_orchestration_service.py:1466` | "the case ends partial/failed rather than completed if anything failed or needs review" (lines 1467-1470) | a failed additive stage leaves run and case completed; so does a trust assessment that comes back with status failed (`trust_service.py:186-187`, `analysis_case_orchestration_service.py:1539`), which is not an exception |
| `batch_controller.py:283` | "Never silently marked TERMINAL or SCORED" (lines 284-287) | a validation that raised after its flush leaves its row to `run_batch`'s last commit; the next request on the simulation finds it, counts it as already scored and marks its item scored without a score |
| `action_service.py:208` | "Rejected, verified, and cancelled are terminal." (`docs/predictive-action-orchestration/lifecycle.md:18`) | a transition that read the status before leaves it again |
| `decision_intelligence_service.py:402` | "Scenario validation is a hard gate" (`docs/wp-2-14b-decision-intelligence-optimization.md:20-23`) | an input added between the validation's read and its commit is solved without having been validated |

The models contain these behaviours; the properties above are those that hold
in spite of them.

## 6. Not modelled

Within modelled components: `create_case` and `update_case` of the ledger
(nothing modelled reads a case's status), realized-value arithmetic, evidence
links of the ledger (the schema wants at least one), read endpoints, cost
telemetry; the ontology registry, crosswalks, schema discovery and suggestions
of canonical mapping, which only determine a field mapping's value; archive and
semantic approval of a case, and the arithmetic of its rules; plan steps and
feedback of actions; sensitivity analysis and the finding workspace.
`build_decision_package` and `pause_for_safety` have no caller outside tests.

Ingestion and source systems, certification, invitations and memberships are
small synchronous state machines and candidates for further modules.  Analytic
services, the knowledge packs, reports, schemas and migrations are most of the
repository's lines and have no protocol state; their arithmetic is over decimals
and datasets that TLC cannot enumerate.

## 7. Plan

1. `Ingestion` with source-system status: counts on a batch equal the sum over
   its versions, closed batches take no versions.
2. `ReleaseChain` started from the states `SimulationBatches` leaves, in place of
   its present `Init`.
3. Certification leases and waivers, invitations and memberships.
4. Proofs: each new module with the invariant its requests in flight need;
   `ReleaseChain`'s theorems again from the wider `Init` of 2.
