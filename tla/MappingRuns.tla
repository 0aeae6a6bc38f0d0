---------------------------- MODULE MappingRuns ----------------------------
(***************************************************************************)
(* The execution queue of canonical mapping: MappingExecutionService of    *)
(* app/services/canonical_mapping_service.py and the worker process of     *)
(* app/workers/mapping_execution.py.                                       *)
(*                                                                         *)
(* claim_next, claim_run and recover_stale lock their rows; heartbeat, the *)
(* end of execute_claimed and fail_claimed are one conditional UPDATE:     *)
(* each is one step.  submit, execute, retry and fail read with a plain    *)
(* SELECT and write at their commit: a Read step and a later Commit step.  *)
(* What a worker maps is part of its transaction and nobody sees it before *)
(* the commit at the end of execute_claimed.                               *)
(***************************************************************************)
EXTENDS Naturals, FiniteSets

CONSTANTS
    MaxRuns,       \* bound: mapping_runs rows, numbered in created_at order
    Keys,          \* idempotency keys the clients use
    Fingerprints,  \* request fingerprints of the payloads they send
    Workers,       \* worker processes
    Clients,       \* API requests in flight
    Fields,        \* field mappings of the template version
    RecoverLimit,  \* the limit argument of recover_stale
    MaxFaults      \* bound: crashes and database errors of the workers

ASSUME BoundsAssumption ==
    /\ MaxRuns \in Nat /\ MaxFaults \in Nat
    /\ RecoverLimit \in Nat \ {0}

Runs == 1..MaxRuns
Leases == 1..MaxRuns
NoRun == 0
NoLease == 0

Active == {"queued", "running"}
Complete == {"completed", "partially_completed"}
Statuses == Active \cup Complete \cup {"failed", "absent"}

VARIABLES
    runs,       \* the mapping_runs table
    results,    \* the runs with committed record results
    evidence,   \* the fields whose mapping evidence was recorded, per run
    nextLease,  \* the next unused execution_lease_id
    worker,     \* the worker processes
    client,     \* the API requests, past their reads
    faults

vars == <<runs, results, evidence, nextLease, worker, client, faults>>

\* A mapping_runs row; beat abstracts heartbeat_at to what recover_stale
\* tells apart.
Row == [status : Statuses, key : Keys \cup {"none"}, fp : Fingerprints \cup {"none"},
        lease : Leases \cup {NoLease}, beat : {"null", "fresh", "stale"},
        retryable : BOOLEAN, retryOf : Runs \cup {NoRun}, root : Runs \cup {NoRun},
        attempt : 1..MaxRuns]

Stages == {"down", "idle", "claimed", "mapping", "evidence", "failing"}

Request == [op : {"idle"}]
    \cup [op : {"submit", "execute"}, key : Keys, fp : Fingerprints]
    \cup [op : {"retry"}, run : Runs, key : Keys]
    \cup [op : {"fail"}, run : Runs, retryable : BOOLEAN]

\* The tables, the worker processes and the requests hold what their
\* columns and call frames can hold.
TypeOK ==
    /\ runs \in [Runs -> Row]
    /\ results \in [Runs -> {"none"} \cup Complete]
    /\ evidence \in [Runs -> SUBSET Fields]
    /\ nextLease \in 1..(MaxRuns + 1)
    /\ worker \in [Workers -> [stage : Stages, run : Runs \cup {NoRun},
                               lease : Leases \cup {NoLease}, pump : BOOLEAN]]
    /\ client \in [Clients -> Request]
    /\ faults \in 0..MaxFaults

Absent == [status |-> "absent", key |-> "none", fp |-> "none", lease |-> NoLease,
           beat |-> "null", retryable |-> FALSE, retryOf |-> NoRun, root |-> NoRun,
           attempt |-> 1]

Process(stage) == [stage |-> stage, run |-> NoRun, lease |-> NoLease, pump |-> FALSE]

Idle == [op |-> "idle"]

Init ==
    /\ runs = [r \in Runs |-> Absent]
    /\ results = [r \in Runs |-> "none"]
    /\ evidence = [r \in Runs |-> {}]
    /\ nextLease = 1
    /\ worker = [w \in Workers |-> Process("down")]
    /\ client = [c \in Clients |-> Idle]
    /\ faults = 0

Existing == {r \in Runs : runs[r].status # "absent"}
KeyUsed(k) == \E r \in Existing : runs[r].key = k
HasRetry(r) == \E q \in Existing : runs[q].retryOf = r

\* The next primary key: rows are inserted in created_at order.
NextRun == Cardinality(Existing) + 1

-----------------------------------------------------------------------------
(* The API: submit, execute, retry and fail.                               *)

\* submit, and the synchronous execute: the key is unused and the payload
\* valid.  A key in use is answered without a write.
SubmitRead(c, op, k, p) ==
    /\ client[c] = Idle
    /\ NextRun \in Runs
    /\ ~KeyUsed(k)
    /\ client' = [client EXCEPT ![c] = [op |-> op, key |-> k, fp |-> p]]
    /\ UNCHANGED <<runs, results, evidence, nextLease, worker, faults>>

SubmitCommit_NoUniqueKey(c) ==
    /\ client[c].op = "submit"
    /\ NextRun \in Runs
    /\ client' = [client EXCEPT ![c] = Idle]
    /\ runs' = [runs EXCEPT ![NextRun] =
                    [Absent EXCEPT !.status = "queued", !.key = client[c].key,
                                   !.fp = client[c].fp, !.root = NextRun]]
    /\ UNCHANGED <<results, evidence, nextLease, worker, faults>>

\* The insert of submit.  uq_mapping_run_idempotency_key turns the second
\* insert of a key into the concurrent run, or into a conflict.
SubmitCommit(c) ==
    /\ client[c].op = "submit"
    /\ client' = [client EXCEPT ![c] = Idle]
    /\ \/ /\ ~KeyUsed(client[c].key)
          /\ NextRun \in Runs
          /\ runs' = [runs EXCEPT ![NextRun] =
                         [Absent EXCEPT !.status = "queued", !.key = client[c].key,
                                        !.fp = client[c].fp, !.root = NextRun]]
       \/ KeyUsed(client[c].key) /\ UNCHANGED runs
    /\ UNCHANGED <<results, evidence, nextLease, worker, faults>>

\* execute: the run is inserted, mapped and finished in one transaction,
\* before anyone sees it, and has no root_run_id; the evidence of a
\* completed run follows in the same call.
ExecuteCommit(c) ==
    /\ client[c].op = "execute"
    /\ client' = [client EXCEPT ![c] = Idle]
    /\ \/ /\ ~KeyUsed(client[c].key)
          /\ NextRun \in Runs
          /\ \E outcome \in Complete, S \in SUBSET Fields :
               /\ runs' = [runs EXCEPT ![NextRun] =
                              [Absent EXCEPT !.status = outcome, !.key = client[c].key,
                                             !.fp = client[c].fp]]
               /\ results' = [results EXCEPT ![NextRun] = outcome]
               /\ S # {} => outcome = "completed"
               /\ evidence' = [evidence EXCEPT ![NextRun] = S]
       \/ KeyUsed(client[c].key) /\ UNCHANGED <<runs, results, evidence>>
    /\ UNCHANGED <<nextLease, worker, faults>>

\* retry: the predecessor failed retryably and the key is unused.
RetryRead(c, r, k) ==
    /\ client[c] = Idle
    /\ ~KeyUsed(k)
    /\ runs[r].status = "failed"
    /\ runs[r].retryable
    /\ client' = [client EXCEPT ![c] = [op |-> "retry", run |-> r, key |-> k]]
    /\ UNCHANGED <<runs, results, evidence, nextLease, worker, faults>>

\* The columns a retry copies from its predecessor.
Child(r, k) ==
    [Absent EXCEPT !.status = "queued", !.key = k, !.fp = runs[r].fp, !.retryOf = r,
                   !.root = IF runs[r].root = NoRun THEN r ELSE runs[r].root,
                   !.attempt = runs[r].attempt + 1]

\* The insert of retry, under the unique keys on idempotency_key and on
\* retry_of_run_id: a second one is answered with the sibling or a 409.
RetryCommit(c) ==
    /\ client[c].op = "retry"
    /\ client' = [client EXCEPT ![c] = Idle]
    /\ LET refused == KeyUsed(client[c].key) \/ HasRetry(client[c].run)
       IN  \/ /\ ~refused
              /\ NextRun \in Runs
              /\ runs' = [runs EXCEPT ![NextRun] = Child(client[c].run, client[c].key)]
           \/ refused /\ UNCHANGED runs
    /\ UNCHANGED <<results, evidence, nextLease, worker, faults>>

\* fail: _transition accepts the status this SELECT saw.
FailRead(c, r, retryable) ==
    /\ client[c] = Idle
    /\ runs[r].status \in Active
    /\ client' = [client EXCEPT ![c] = [op |-> "fail", run |-> r, retryable |-> retryable]]
    /\ UNCHANGED <<runs, results, evidence, nextLease, worker, faults>>

\* The flush of fail, by primary key: the lease columns are left alone.
FailCommit(c) ==
    /\ client[c].op = "fail"
    /\ runs' = [runs EXCEPT ![client[c].run].status = "failed",
                            ![client[c].run].retryable = client[c].retryable]
    /\ client' = [client EXCEPT ![c] = Idle]
    /\ UNCHANGED <<results, evidence, nextLease, worker, faults>>

-----------------------------------------------------------------------------
(* Claims, heartbeats and recovery.                                        *)

\* _claim_values: the columns a claim sets.
ClaimValues(r, w, pump) ==
    /\ nextLease \in Leases
    /\ nextLease' = nextLease + 1
    /\ runs' = [runs EXCEPT ![r].status = "running", ![r].lease = nextLease,
                            ![r].beat = "fresh"]
    /\ worker' = [worker EXCEPT ![w] = [stage |-> "claimed", run |-> r,
                                        lease |-> nextLease, pump |-> pump]]
    /\ UNCHANGED <<results, evidence, client, faults>>

ClaimNext_HeadOfLine(w) ==
    /\ worker[w].stage = "idle"
    /\ \E r \in Runs :
         /\ runs[r].status = "queued"
         /\ \A q \in 1..(r - 1) : runs[q].status \notin Active
         /\ ClaimValues(r, w, TRUE)

\* claim_next: the oldest queued run; process_one then starts its
\* HeartbeatPump.
ClaimNext(w) ==
    /\ worker[w].stage = "idle"
    /\ \E r \in Runs :
         /\ runs[r].status = "queued"
         /\ \A q \in 1..(r - 1) : runs[q].status # "queued"
         /\ ClaimValues(r, w, TRUE)

\* claim_run, as claim_and_execute calls it: any queued run, and nobody
\* beats for it.
ClaimRun(w) ==
    /\ worker[w].stage = "idle"
    /\ \E r \in Runs : runs[r].status = "queued" /\ ClaimValues(r, w, FALSE)

\* The condition of every conditional UPDATE: the run is still the claim's.
Holds(w) ==
    /\ worker[w].run # NoRun
    /\ runs[worker[w].run].status = "running"
    /\ runs[worker[w].run].lease = worker[w].lease

\* One beat of HeartbeatPump; the loop ends at the first refusal.  Nothing
\* reads lease_lost, so the execution goes on.
Heartbeat(w) ==
    /\ worker[w].pump
    /\ \/ /\ Holds(w)
          /\ runs' = [runs EXCEPT ![worker[w].run].beat = "fresh"]
          /\ UNCHANGED worker
       \/ /\ ~Holds(w)
          /\ worker' = [worker EXCEPT ![w].pump = FALSE]
          /\ UNCHANGED runs
    /\ UNCHANGED <<results, evidence, nextLease, client, faults>>

\* The stale threshold passes without a beat.
Expire(r) ==
    /\ runs[r].status = "running"
    /\ runs[r].beat = "fresh"
    /\ runs' = [runs EXCEPT ![r].beat = "stale"]
    /\ UNCHANGED <<results, evidence, nextLease, worker, client, faults>>

Stale == {r \in Runs : runs[r].status = "running" /\ runs[r].beat = "stale"}

Recovered_Requeued(row) == [row EXCEPT !.status = "queued", !.lease = NoLease]

\* The columns recover_stale sets on a run it takes from its worker.
Recovered(row) == [row EXCEPT !.status = "failed", !.retryable = TRUE, !.lease = NoLease]

-----------------------------------------------------------------------------
(* The worker: main, run, process_one, execute_claimed, fail_claimed.      *)

Start_NoRecovery(w) ==
    /\ worker[w].stage = "down"
    /\ worker' = [worker EXCEPT ![w] = Process("idle")]
    /\ UNCHANGED <<runs, results, evidence, nextLease, client, faults>>

\* main and the head of run(): recover_stale once, before the loop.  At
\* most RecoverLimit stale runs fail, and may be retried.
Start(w) ==
    /\ worker[w].stage = "down"
    /\ worker' = [worker EXCEPT ![w] = Process("idle")]
    /\ \E S \in SUBSET Stale :
         /\ Cardinality(S) = RecoverLimit \/ (S = Stale /\ Cardinality(S) < RecoverLimit)
         /\ runs' = [r \in Runs |-> IF r \in S THEN Recovered(runs[r]) ELSE runs[r]]
    /\ UNCHANGED <<results, evidence, nextLease, client, faults>>

\* The first SELECT of execute_claimed; without the lease it raises
\* MappingExecutionLeaseLost, which process_one logs.
BeginExecute(w) ==
    /\ worker[w].stage = "claimed"
    /\ worker' = [worker EXCEPT ![w] = IF Holds(w) THEN [@ EXCEPT !.stage = "mapping"]
                                       ELSE Process("idle")]
    /\ UNCHANGED <<runs, results, evidence, nextLease, client, faults>>

FinishExecute_NoLease(w, outcome) ==
    /\ worker[w].stage = "mapping"
    /\ runs' = [runs EXCEPT ![worker[w].run].status = outcome,
                            ![worker[w].run].lease = NoLease]
    /\ results' = [results EXCEPT ![worker[w].run] = outcome]
    /\ worker' = [worker EXCEPT ![w] = IF outcome = "completed"
                                       THEN [@ EXCEPT !.stage = "evidence"]
                                       ELSE Process("idle")]
    /\ UNCHANGED <<evidence, nextLease, client, faults>>

FinishExecute_PartialEvidence(w, outcome) ==
    /\ worker[w].stage = "mapping"
    /\ \/ /\ Holds(w)
          /\ runs' = [runs EXCEPT ![worker[w].run].status = outcome,
                                  ![worker[w].run].lease = NoLease]
          /\ results' = [results EXCEPT ![worker[w].run] = outcome]
          /\ worker' = [worker EXCEPT ![w].stage = "evidence"]
       \/ /\ ~Holds(w)
          /\ worker' = [worker EXCEPT ![w] = Process("idle")]
          /\ UNCHANGED <<runs, results>>
    /\ UNCHANGED <<evidence, nextLease, client, faults>>

\* The end of execute_claimed: results and final status in one commit if
\* the lease is still held, else everything is rolled back.
FinishExecute(w, outcome) ==
    /\ worker[w].stage = "mapping"
    /\ \/ /\ Holds(w)
          /\ runs' = [runs EXCEPT ![worker[w].run].status = outcome,
                                  ![worker[w].run].lease = NoLease]
          /\ results' = [results EXCEPT ![worker[w].run] = outcome]
          /\ worker' = [worker EXCEPT ![w] = IF outcome = "completed"
                                             THEN [@ EXCEPT !.stage = "evidence"]
                                             ELSE Process("idle")]
       \/ /\ ~Holds(w)
          /\ worker' = [worker EXCEPT ![w] = Process("idle")]
          /\ UNCHANGED <<runs, results>>
    /\ UNCHANGED <<evidence, nextLease, client, faults>>

\* An exception while mapping, or in the reads after the final commit: the
\* handlers of execute_claimed roll back and call fail_claimed.
ExecuteRaises(w) ==
    /\ worker[w].stage \in {"mapping", "evidence"}
    /\ worker' = [worker EXCEPT ![w].stage = "failing"]
    /\ UNCHANGED <<runs, results, evidence, nextLease, client, faults>>

FailClaimed_NoStatusCheck(w) ==
    /\ worker[w].stage = "failing"
    /\ worker' = [worker EXCEPT ![w] = Process("idle")]
    /\ runs' = [runs EXCEPT ![worker[w].run].status = "failed",
                            ![worker[w].run].retryable = FALSE,
                            ![worker[w].run].lease = NoLease]
    /\ UNCHANGED <<results, evidence, nextLease, client, faults>>

\* fail_claimed: never retryable; refused when the lease is gone, which it
\* is after the final commit.
FailClaimed(w) ==
    /\ worker[w].stage = "failing"
    /\ worker' = [worker EXCEPT ![w] = Process("idle")]
    /\ \/ /\ Holds(w)
          /\ runs' = [runs EXCEPT ![worker[w].run].status = "failed",
                                  ![worker[w].run].retryable = FALSE,
                                  ![worker[w].run].lease = NoLease]
       \/ ~Holds(w) /\ UNCHANGED runs
    /\ UNCHANGED <<results, evidence, nextLease, client, faults>>

\* _register_field_mapping_evidence: one commit per field, each skipped
\* when it raises or was derived from memory; whatever got recorded stays.
RegisterEvidence(w) ==
    /\ worker[w].stage = "evidence"
    /\ \E S \in SUBSET Fields : evidence' = [evidence EXCEPT ![worker[w].run] = S]
    /\ worker' = [worker EXCEPT ![w] = Process("idle")]
    /\ UNCHANGED <<runs, results, nextLease, client, faults>>

\* A database error in the first reads of execute_claimed or inside
\* fail_claimed reaches run(), which goes on polling: the run keeps its
\* lease and nobody beats for it.
DatabaseError(w) ==
    /\ faults < MaxFaults
    /\ worker[w].stage \in {"claimed", "failing"}
    /\ worker' = [worker EXCEPT ![w] = Process("idle")]
    /\ faults' = faults + 1
    /\ UNCHANGED <<runs, results, evidence, nextLease, client>>

\* The process dies, or any other exception leaves run().
Crash(w) ==
    /\ faults < MaxFaults
    /\ worker[w].stage # "down"
    /\ worker' = [worker EXCEPT ![w] = Process("down")]
    /\ faults' = faults + 1
    /\ UNCHANGED <<runs, results, evidence, nextLease, client>>

-----------------------------------------------------------------------------

WorkerStep(w) ==
    \/ Start(w) \/ ClaimNext(w) \/ BeginExecute(w)
    \/ \E outcome \in Complete : FinishExecute(w, outcome)
    \/ ExecuteRaises(w) \/ FailClaimed(w) \/ RegisterEvidence(w)

ClientStep(c) ==
    \/ \E op \in {"submit", "execute"}, k \in Keys, p \in Fingerprints :
          SubmitRead(c, op, k, p)
    \/ \E r \in Runs, k \in Keys : RetryRead(c, r, k)
    \/ \E r \in Runs, b \in BOOLEAN : FailRead(c, r, b)
    \/ SubmitCommit(c) \/ ExecuteCommit(c) \/ RetryCommit(c) \/ FailCommit(c)

Next ==
    \/ \E w \in Workers : WorkerStep(w) \/ ClaimRun(w) \/ Heartbeat(w)
                          \/ DatabaseError(w) \/ Crash(w)
    \/ \E c \in Clients : ClientStep(c)
    \/ \E r \in Runs : Expire(r)

\* A worker process that is down is started again by its supervisor and a
\* live one goes through its loop; clients, beats and faults are free.
Fairness == \A w \in Workers : WF_vars(WorkerStep(w))

Spec == Init /\ [][Next]_vars /\ Fairness

-----------------------------------------------------------------------------
(* Properties.                                                             *)

\* Two submissions, synchronous executions or retries that raced past the
\* lookup of their key never both leave a run: one idempotency key is one
\* run, and the run carries the fingerprint it was created with.
KeyNamesOneRun == \A r, q \in Existing : runs[r].key = runs[q].key => r = q

\* Retries form one line per request: a run has at most one retry, attempts
\* count up by one from the root, every run but the last has failed.
RetryChainIsLinear ==
    \A r \in Existing :
      /\ runs[r].retryOf = NoRun => runs[r].attempt = 1
      /\ runs[r].retryOf # NoRun =>
           LET p == runs[r].retryOf
           IN  /\ p < r
               /\ runs[p].status = "failed"
               /\ runs[r].attempt = runs[p].attempt + 1
               /\ runs[r].root = IF runs[p].root = NoRun THEN p ELSE runs[p].root
      /\ \A q \in Existing : runs[q].retryOf = runs[r].retryOf /\ q # r
                               => runs[r].retryOf = NoRun

\* A worker that is still mapping a run it lost can only have lost it to a
\* failure: no other worker is executing it and nobody has completed it.
LostOnlyToFailure ==
    \A w \in Workers :
      worker[w].stage \in {"claimed", "mapping"} =>
        /\ Holds(w) \/ runs[worker[w].run].status = "failed"
        /\ \A v \in Workers \ {w} : worker[v].run # worker[w].run

\* Evidence for Operational Memory comes only from a run whose completion
\* was committed, also when an execution is lost, fails or is retried.
EvidenceIsFromCompletion ==
    \A r \in Runs : evidence[r] # {} => results[r] = "completed"

\* "A failure here must never roll back or otherwise affect the already
\* persisted MappingRun": once results are committed no worker step, late
\* beat, recovery or failed evidence changes the run; only a fail() that
\* read it while it was active can.
CommittedRunIsFinal ==
    [][\A r \in Runs : results[r] # "none" =>
         /\ results'[r] = results[r]
         /\ \/ runs'[r] = runs[r]
            \/ \E c \in Clients : client[c].op = "fail" /\ client[c].run = r
                                  /\ client'[c] = Idle]_vars

Phase(r) ==
    CASE runs[r].status \in Complete -> "done"
      [] runs[r].status = "running" -> "held"
      [] OTHER -> runs[r].status

\* The claims' leases stand for the workers they were granted to.
Custody == INSTANCE RunCustody WITH
    Runs <- Runs,
    Workers <- Leases,
    NoWorker <- NoLease,
    NoRun <- NoRun,
    phase <- [r \in Runs |-> Phase(r)],
    holder <- [r \in Runs |-> IF runs[r].status = "running" THEN runs[r].lease ELSE NoLease],
    written <- {r \in Runs : results[r] # "none"},
    parent <- [r \in Runs |-> runs[r].retryOf]

\* The queue with its leases, crashes and races implements RunCustody.
ImplementsCustody == Custody!Spec

\* A queued run is eventually claimed or failed, whatever crashes.
QueuedIsTaken == \A r \in Runs : runs[r].status = "queued" ~> runs[r].status # "queued"

\* A run whose heartbeat is stale and that nobody executes is failed by the
\* recovery of a worker that starts from then on (one that started earlier
\* never looks again).
StrandedIsRecovered ==
    \A r \in Runs :
      /\ r \in Stale
      /\ \A w \in Workers : worker[w].run # r
      /\ \E w \in Workers : worker[w].stage = "down"
      ~> runs[r].status # "running"

\* The run table is in order: a key names one run, and retries form a line.
RunsAreSound == TypeOK /\ KeyNamesOneRun /\ RetryChainIsLinear
=============================================================================
