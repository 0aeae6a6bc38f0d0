----------------------------- MODULE AgentJobs -----------------------------
(***************************************************************************)
(* The agent job queue of app/services/agent_job_service.py, the HTTP      *)
(* routes in front of it and the Local Worker Bridge that polls it.        *)
(*                                                                         *)
(* The database runs READ COMMITTED.  A handler that locks its row (FOR    *)
(* UPDATE) or tests it inside one UPDATE is one step.  create_job,         *)
(* submit_result, submit_failure and apply_owner_decision read with a      *)
(* plain SELECT and flush the columns they changed by primary key when     *)
(* they commit, so each is a Read step that remembers what it saw and a    *)
(* later Commit step that writes it, whatever the row has become.          *)
(***************************************************************************)
EXTENDS Naturals, FiniteSets

CONSTANTS
    Jobs,        \* primary keys of agent_jobs rows
    Workers,     \* Local Worker Bridge processes, one credential each
    Orgs,        \* organizations
    OrgOf,       \* the organization a worker's credential belongs to
    Requests,    \* the create_job payloads clients send
    NoKey,       \* client_idempotency_key IS NULL
    RetryLimit,  \* the literal 3 of recover_stale and submit_failure
    MaxLease     \* bound: lease identifiers (uuid4) available to claims

RiskClasses == {"R0", "R1", "R2", "R3"}

ASSUME WorkersAssumption == OrgOf \in [Workers -> Orgs]
ASSUME RequestsAssumption ==
    /\ Requests # {}
    /\ \A r \in Requests : r.org \in Orgs /\ r.risk \in RiskClasses
ASSUME JobsAssumption == 0 \notin Jobs
ASSUME BoundsAssumption == RetryLimit \in Nat /\ MaxLease \in Nat

Leases == 1..MaxLease
NoLease == 0

\* AgentWorkerCredential.allowed_risk_classes, as create_worker_credential
\* issues it.
AllowedRiskClasses == {"R0", "R1"}

Terminal == {"succeeded", "failed", "timed_out"}
Settled == Terminal \cup {"escalated"}
Statuses == Settled \cup {"absent", "queued", "running", "owner_review_required"}
Approvals == {"not_required", "pending", "approved", "rejected"}

VARIABLES
    job,        \* the agent_jobs table
    retried,    \* RETRIED rows of agent_job_events, per job
    resultFile, \* agent-jobs/<id>/result.json: the lease that wrote it last
    grant,      \* the job each lease was granted on
    nextLease,  \* the next unused lease identifier
    worker,     \* the worker processes
    creating,   \* create_job calls past their idempotency check
    handler,    \* submit_result and submit_failure calls past their check
    deciding    \* owner decisions past their check

vars == <<job, retried, resultFile, grant, nextLease, worker, creating, handler, deciding>>

\* An agent_jobs row.  hb abstracts heartbeat_at to what the sweep tells
\* apart; by is the lease whose submission filled in the outcome columns.
Row == [req : Requests, status : Statuses, retry : 0..RetryLimit,
        lease : Leases \cup {NoLease}, hb : {"null", "fresh", "stale"},
        approval : Approvals, by : Leases \cup {NoLease}]

\* What a worker process is doing: claiming (the /claim request, between
\* its two transactions), inferring, waiting on /result or /failure, or
\* holding a result the backend refused.
Stages == {"idle", "claiming", "inferring", "result", "refused", "failure"}

\* An in-flight submission: the lease it was checked against, the
\* retry_count and approval it read, whether result.json is written.
Handler == [lease : Leases, kind : {"result", "failure"}, retry : 0..RetryLimit,
            approval : Approvals, retryable : BOOLEAN, wrote : BOOLEAN]

\* The database's column types and check constraints.
TypeOK ==
    /\ job \in [Jobs -> Row]
    /\ retried \in [Jobs -> Nat]
    /\ resultFile \in [Jobs -> Leases \cup {NoLease}]
    /\ nextLease \in 1..(MaxLease + 1)
    /\ grant \in [Leases -> Jobs \cup {NoLease}]
    /\ worker \in [Workers -> [stage : Stages, lease : Leases \cup {NoLease}]]
    /\ creating \subseteq (Jobs \X Requests)
    /\ handler \subseteq Handler
    /\ deciding \subseteq (Jobs \X BOOLEAN)

Absent(r) == [req |-> r, status |-> "absent", retry |-> 0, lease |-> NoLease,
              hb |-> "null", approval |-> "not_required", by |-> NoLease]

Idle == [stage |-> "idle", lease |-> NoLease]

Init ==
    /\ job = [j \in Jobs |-> Absent(CHOOSE r \in Requests : TRUE)]
    /\ retried = [j \in Jobs |-> 0]
    /\ resultFile = [j \in Jobs |-> NoLease]
    /\ grant = [l \in Leases |-> NoLease]
    /\ nextLease = 1
    /\ worker = [w \in Workers |-> Idle]
    /\ creating = {}
    /\ handler = {}
    /\ deciding = {}

-----------------------------------------------------------------------------
(* agent_routing_service.py: the two routing decisions.                    *)

OwnerGateRequired_R3Only(risk) == risk = "R3"

\* route: whether the owner gate stands before any work.
OwnerGateRequired(risk) == risk \in {"R2", "R3"}

\* evaluate_worker_result: accept, escalate, or escalate to the owner.
EvaluateWorkerResult(risk, confidence, flagged, escalate) ==
    CASE risk = "R0" /\ ~escalate /\ confidence >= 90 -> "accept"
      [] risk = "R0" /\ (escalate \/ confidence < 90) -> "escalate"
      [] risk = "R1" /\ (escalate \/ confidence < 70) -> "owner_gate"
      [] risk = "R1" /\ ~escalate /\ confidence >= 70
                     /\ (confidence < 90 \/ flagged)  -> "escalate"
      [] risk = "R1" /\ ~escalate /\ confidence >= 90 /\ ~flagged -> "accept"
      [] OTHER -> "owner_gate"

\* Confidence values on both sides of each threshold.
Confidences == {0, 69, 70, 89, 90, 100}

\* The decisions some structured result leads to.
Decisions(risk) ==
    {EvaluateWorkerResult(risk, confidence, flagged, escalate) :
        confidence \in Confidences, flagged \in BOOLEAN, escalate \in BOOLEAN}

-----------------------------------------------------------------------------
(* create_job                                                              *)

\* The idempotency check: a SELECT that sees only committed rows.
CreateRead(j, r) ==
    /\ job[j].status = "absent"
    /\ \A c \in creating : c[1] # j
    /\ r.key # NoKey =>
         ~ \E k \in Jobs : /\ job[k].status # "absent"
                           /\ job[k].req.org = r.org
                           /\ job[k].req.key = r.key
    /\ creating' = creating \cup {<<j, r>>}
    /\ UNCHANGED <<job, retried, resultFile, grant, nextLease, worker, handler, deciding>>

CreateCommit(j, r) ==
    /\ <<j, r>> \in creating
    /\ creating' = creating \ {<<j, r>>}
    /\ job' = [job EXCEPT ![j] =
         [Absent(r) EXCEPT
            !.status   = IF OwnerGateRequired(r.risk) THEN "owner_review_required" ELSE "queued",
            !.approval = IF OwnerGateRequired(r.risk) THEN "pending" ELSE "not_required"]]
    /\ UNCHANGED <<retried, resultFile, grant, nextLease, worker, handler, deciding>>

\* The API process dies, or the flush fails, before the commit.
CreateAbort(j, r) ==
    /\ <<j, r>> \in creating
    /\ creating' = creating \ {<<j, r>>}
    /\ UNCHANGED <<job, retried, resultFile, grant, nextLease, worker, handler, deciding>>

-----------------------------------------------------------------------------
(* POST /claim: recover_stale, then claim_next, each its own transaction.  *)

Stale_AnyStatus(j) == job[j].hb = "stale"
Stale_OnlyRetryable(j) ==
    job[j].status = "running" /\ job[j].hb = "stale" /\ job[j].retry < RetryLimit

Stale(j) == job[j].status = "running" /\ job[j].hb = "stale"

\* A job whose lease has gone stale: queued again, or timed out.
Recovered(row) ==
    [row EXCEPT !.lease  = NoLease,
                !.hb     = "null",
                !.status = IF row.retry < RetryLimit THEN "queued" ELSE "timed_out",
                !.retry  = IF row.retry < RetryLimit THEN row.retry + 1 ELSE row.retry]

\* recover_stale, over every organization's jobs.
RecoverStale(w) ==
    /\ worker[w].stage = "idle"
    /\ worker' = [worker EXCEPT ![w].stage = "claiming"]
    /\ job' = [j \in Jobs |-> IF Stale(j) THEN Recovered(job[j]) ELSE job[j]]
    /\ retried' = [j \in Jobs |-> IF Stale(j) /\ job[j].retry < RetryLimit
                                  THEN retried[j] + 1 ELSE retried[j]]
    /\ UNCHANGED <<resultFile, grant, nextLease, creating, handler, deciding>>

Claimable(j) == job[j].status = "queued" /\ job[j].req.risk \in AllowedRiskClasses

Claimed_NoHeartbeat(row, l) == [row EXCEPT !.status = "running", !.lease = l]

\* The row claim_next picks is locked and updated in one transaction.
\* SKIP LOCKED passes over a row another transaction holds, so any eligible
\* row may be the one.
Claimed(row, l) == [row EXCEPT !.status = "running", !.lease = l, !.hb = "fresh"]

\* claim_next does not look at the organization; the route then looks the
\* job up under the credential's organization, and a miss is a 404 to the
\* worker after the claim has committed.
ClaimNext(w, j) ==
    /\ worker[w].stage = "claiming"
    /\ Claimable(j)
    /\ nextLease <= MaxLease
    /\ job' = [job EXCEPT ![j] = Claimed(job[j], nextLease)]
    /\ grant' = [grant EXCEPT ![nextLease] = j]
    /\ nextLease' = nextLease + 1
    /\ worker' = [worker EXCEPT ![w] =
         IF job[j].req.org = OrgOf[w]
         THEN [stage |-> "inferring", lease |-> nextLease] ELSE Idle]
    /\ UNCHANGED <<retried, resultFile, creating, handler, deciding>>

ClaimNothing(w) ==
    /\ worker[w].stage = "claiming"
    /\ \A j \in Jobs : ~Claimable(j)
    /\ worker' = [worker EXCEPT ![w] = Idle]
    /\ UNCHANGED <<job, retried, resultFile, grant, nextLease, creating, handler, deciding>>

-----------------------------------------------------------------------------
(* Heartbeats and time.                                                    *)

Holds(w) == worker[w].stage \notin {"idle", "claiming"}

\* The condition every lease-guarded statement tests.
OwnsLease(j, l) == job[j].status = "running" /\ job[j].lease = l

\* heartbeat: one UPDATE guarded by status and lease.  The pump only logs
\* a refusal, so a worker that lost its lease goes on working.
Heartbeat(w) ==
    /\ Holds(w)
    /\ LET j == grant[worker[w].lease] IN
         /\ OwnsLease(j, worker[w].lease)
         /\ job' = [job EXCEPT ![j].hb = "fresh"]
    /\ UNCHANGED <<retried, resultFile, grant, nextLease, worker, creating, handler, deciding>>

\* The stale threshold passes with no heartbeat arriving.
Expire(j) ==
    /\ job[j].status = "running"
    /\ job[j].hb = "fresh"
    /\ job' = [job EXCEPT ![j].hb = "stale"]
    /\ UNCHANGED <<retried, resultFile, grant, nextLease, worker, creating, handler, deciding>>

-----------------------------------------------------------------------------
(* submit_result                                                           *)

\* The worker posts its result and the handler finds its lease in place.
ResultRead(w) ==
    LET l == worker[w].lease
        j == grant[l]
    IN /\ worker[w].stage = "inferring"
       /\ OwnsLease(j, l)
       /\ handler' = handler \cup {[lease |-> l, kind |-> "result", retry |-> job[j].retry,
                                    approval |-> job[j].approval, retryable |-> FALSE,
                                    wrote |-> FALSE]}
       /\ worker' = [worker EXCEPT ![w].stage = "result"]
       /\ UNCHANGED <<job, retried, resultFile, grant, nextLease, creating, deciding>>

\* AgentJobLeaseLost (409) or a result the schema refuses (422): process_one
\* turns the RuntimeError into a failure report.
ResultRefused(w) ==
    /\ worker[w].stage = "inferring"
    /\ worker' = [worker EXCEPT ![w].stage = "refused"]
    /\ UNCHANGED <<job, retried, resultFile, grant, nextLease, creating, handler, deciding>>

\* _write_json(result.json), before and outside the transaction.
ResultWrite(h) ==
    /\ h.kind = "result"
    /\ ~h.wrote
    /\ handler' = (handler \ {h}) \cup {[h EXCEPT !.wrote = TRUE]}
    /\ resultFile' = [resultFile EXCEPT ![grant[h.lease]] = h.lease]
    /\ UNCHANGED <<job, retried, grant, nextLease, worker, creating, deciding>>

\* The worker waiting on lease l's request, if any, gets its answer.
Answer(l, kind, answer) ==
    [w \in Workers |-> IF worker[w].lease = l /\ worker[w].stage = kind
                       THEN answer ELSE worker[w]]

\* The columns submit_result sets, over the row as it now is.  The session
\* writes only what differs from the row it read, so an approval that was
\* pending then is not written again.
WithResult(row, h, decision) ==
    [row EXCEPT !.lease    = NoLease,
                !.status   = IF decision = "accept" THEN "succeeded" ELSE "escalated",
                !.approval = IF decision = "owner_gate" /\ h.approval # "pending"
                             THEN "pending" ELSE row.approval,
                !.by       = h.lease]

ResultCommit(h, decision) ==
    LET j == grant[h.lease]
    IN /\ h.kind = "result"
       /\ h.wrote
       /\ job' = [job EXCEPT ![j] = WithResult(job[j], h, decision)]
       /\ handler' = handler \ {h}
       /\ worker' = Answer(h.lease, "result", Idle)
       /\ UNCHANGED <<retried, resultFile, grant, nextLease, creating, deciding>>

\* Output the service's own validation refuses: failed, no result file.
\* The /result route validates first, so this needs a caller inside the
\* application.
ResultMalformed(h) ==
    LET j == grant[h.lease]
    IN /\ h.kind = "result"
       /\ ~h.wrote
       /\ job' = [job EXCEPT ![j] = [job[j] EXCEPT !.lease = NoLease, !.status = "failed",
                                                   !.by = h.lease]]
       /\ handler' = handler \ {h}
       /\ worker' = Answer(h.lease, "result", Idle)
       /\ UNCHANGED <<retried, resultFile, grant, nextLease, creating, deciding>>

-----------------------------------------------------------------------------
(* submit_failure                                                          *)

\* Unusable model output, LM Studio down, or a refused result.
FailureRead(w, retryable) ==
    LET l == worker[w].lease
        j == grant[l]
    IN /\ worker[w].stage \in {"inferring", "refused"}
       /\ OwnsLease(j, l)
       /\ handler' = handler \cup {[lease |-> l, kind |-> "failure", retry |-> job[j].retry,
                                    approval |-> job[j].approval, retryable |-> retryable,
                                    wrote |-> FALSE]}
       /\ worker' = [worker EXCEPT ![w].stage = "failure"]
       /\ UNCHANGED <<job, retried, resultFile, grant, nextLease, creating, deciding>>

\* AgentJobLeaseLost: run() logs the exception and polls again.
FailureLeaseLost(w) ==
    /\ worker[w].stage \in {"inferring", "refused"}
    /\ ~OwnsLease(grant[worker[w].lease], worker[w].lease)
    /\ worker' = [worker EXCEPT ![w] = Idle]
    /\ UNCHANGED <<job, retried, resultFile, grant, nextLease, creating, handler, deciding>>

Retries(h) == h.retryable /\ h.retry < RetryLimit

WithFailure_NotCounted(row, h) ==
    IF Retries(h)
    THEN [row EXCEPT !.lease = NoLease, !.status = "queued", !.hb = "null"]
    ELSE [row EXCEPT !.lease = NoLease, !.status = "failed", !.by = h.lease]

\* The columns submit_failure sets: retry_count is the value read plus one.
WithFailure(row, h) ==
    IF Retries(h)
    THEN [row EXCEPT !.lease = NoLease, !.status = "queued", !.retry = h.retry + 1,
                     !.hb = "null"]
    ELSE [row EXCEPT !.lease = NoLease, !.status = "failed", !.by = h.lease]

FailureCommit(h) ==
    LET j == grant[h.lease]
    IN /\ h.kind = "failure"
       /\ job' = [job EXCEPT ![j] = WithFailure(job[j], h)]
       /\ retried' = IF Retries(h) THEN [retried EXCEPT ![j] = @ + 1] ELSE retried
       /\ handler' = handler \ {h}
       /\ worker' = Answer(h.lease, "failure", Idle)
       /\ UNCHANGED <<resultFile, grant, nextLease, creating, deciding>>

-----------------------------------------------------------------------------
(* Failures around a submission.                                           *)

\* The API process dies or the commit fails: rolled back, the file stays.
\* A 5xx on /result makes the worker report a failure.
HandlerAbort(h) ==
    /\ handler' = handler \ {h}
    /\ worker' = Answer(h.lease, h.kind,
         IF h.kind = "result" THEN [stage |-> "refused", lease |-> h.lease] ELSE Idle)
    /\ UNCHANGED <<job, retried, resultFile, grant, nextLease, creating, deciding>>

\* The request ends for the worker (a gateway error) while the handler still
\* runs on the server.
GatewayError(w) ==
    /\ worker[w].stage = "result"
    /\ worker' = [worker EXCEPT ![w].stage = "refused"]
    /\ UNCHANGED <<job, retried, resultFile, grant, nextLease, creating, handler, deciding>>

\* The worker process stops, or an exception other than RuntimeError (a
\* socket timeout) reaches run(): the claim is forgotten.
WorkerDrop(w) ==
    /\ Holds(w)
    /\ worker' = [worker EXCEPT ![w] = Idle]
    /\ UNCHANGED <<job, retried, resultFile, grant, nextLease, creating, handler, deciding>>

-----------------------------------------------------------------------------
(* apply_owner_decision                                                    *)

DecideRead(j, approve) ==
    /\ job[j].approval = "pending"
    /\ deciding' = deciding \cup {<<j, approve>>}
    /\ deciding' # deciding
    /\ UNCHANGED <<job, retried, resultFile, grant, nextLease, worker, creating, handler>>

DecideCommit(j, approve) ==
    /\ <<j, approve>> \in deciding
    /\ deciding' = deciding \ {<<j, approve>>}
    /\ job' = [job EXCEPT ![j].approval = IF approve THEN "approved" ELSE "rejected"]
    /\ UNCHANGED <<retried, resultFile, grant, nextLease, worker, creating, handler>>

-----------------------------------------------------------------------------

Create(j, r) == CreateRead(j, r) \/ CreateCommit(j, r) \/ CreateAbort(j, r)

Poll(w) == RecoverStale(w) \/ ClaimNothing(w) \/ \E j \in Jobs : ClaimNext(w, j)

Submit(w) ==
    \/ ResultRead(w)
    \/ ResultRefused(w)
    \/ \E retryable \in BOOLEAN : FailureRead(w, retryable)
    \/ FailureLeaseLost(w)

Commit(h) ==
    \/ ResultWrite(h)
    \/ \E decision \in Decisions(job[grant[h.lease]].req.risk) : ResultCommit(h, decision)
    \/ ResultMalformed(h)
    \/ FailureCommit(h)

Decide(j) == \E approve \in BOOLEAN : DecideRead(j, approve) \/ DecideCommit(j, approve)

Next ==
    \/ \E j \in Jobs, r \in Requests : Create(j, r)
    \/ \E w \in Workers : Poll(w) \/ Heartbeat(w) \/ Submit(w) \/ GatewayError(w) \/ WorkerDrop(w)
    \/ \E h \in handler : Commit(h) \/ HandlerAbort(h)
    \/ \E j \in Jobs : Expire(j) \/ Decide(j)

\* The lease of job j is held by a worker process that is still alive.
Attended(j) == \E w \in Workers : Holds(w) /\ worker[w].lease = job[j].lease

\* Worker processes poll in a loop and inference has a time limit; the
\* server ends every request; heartbeats stop with the worker.
Fairness ==
    /\ \A w \in Workers : WF_vars(Poll(w)) /\ WF_vars(Submit(w))
    /\ WF_vars(\E h \in handler : Commit(h) \/ HandlerAbort(h))
    /\ \A j \in Jobs : WF_vars(~Attended(j) /\ Expire(j))

Spec == Init /\ [][Next]_vars /\ Fairness

-----------------------------------------------------------------------------
(* Properties                                                              *)

Executions(j) == Cardinality({l \in Leases : grant[l] = j})

\* A running job always carries a lease that was granted on it and a
\* heartbeat time: recover_stale, which skips rows whose heartbeat_at is
\* NULL, can always get hold of it, whatever late submissions overwrite.
RunningIsRecoverable ==
    \A j \in Jobs : job[j].status = "running" =>
        job[j].lease # NoLease /\ grant[job[j].lease] = j /\ job[j].hb # "null"

\* An R2 or R3 job stays in owner review: no interleaving of claims, sweeps,
\* retries and owner decisions ever leases it to a local worker.
GatedNeverRuns ==
    \A j \in Jobs : job[j].req.risk \notin AllowedRiskClasses =>
        /\ job[j].status \in {"absent", "owner_review_required"}
        /\ \A l \in Leases : grant[l] # j

\* The event history accounts for every execution: each lease after a job's
\* first is preceded by a RETRIED event of its own.
HistoryCoversExecutions ==
    \A j \in Jobs : Executions(j) <= retried[j] + 1

\* retry_count never runs ahead of the RETRIED events, although a late
\* submit_failure writes the value it read plus one over a newer value.
RetryCountWithinHistory ==
    \A j \in Jobs : job[j].retry <= retried[j]

\* A job is executed a bounded number of times even when late failure
\* reports set retry_count back: every lease queues the job again at most
\* twice, once by the sweep and once by its own late report.
ExecutionsBounded ==
    \A j \in Jobs : Executions(j) < 2 ^ (RetryLimit + 1)

\* The result_ref of a job that was answered points to a file that exists:
\* submit_result writes the artifact before it commits the row.
ResultRefResolves ==
    \A j \in Jobs : job[j].status \in {"succeeded", "escalated"} => resultFile[j] # NoLease

\* Once a job is settled and no submission of an earlier lease is still in
\* flight, its status never changes again: no sweep, claim or new submission
\* touches it.
SettledIsFinal ==
    [][\A j \in Jobs :
         /\ job[j].status \in Settled
         /\ \A h \in handler : grant[h.lease] # j
         => job'[j].status = job[j].status]_vars

\* Every job a worker may claim is settled in the end, whichever workers die,
\* lose heartbeats or answer another organization's claim.
ClaimableSettles ==
    \A j \in Jobs : Claimable(j) ~> job[j].status \in Settled

\* The rows tell the truth: the history covers the retry count and every
\* execution, what a row refers to exists, and no gated job was ever leased.
RowsAreSound ==
    /\ TypeOK
    /\ RetryCountWithinHistory /\ HistoryCoversExecutions
    /\ ResultRefResolves
    /\ GatedNeverRuns
=============================================================================
