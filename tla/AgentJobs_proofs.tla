-------------------------- MODULE AgentJobs_proofs --------------------------
(***************************************************************************)
(* Proofs about the agent job queue for any number of jobs, workers and    *)
(* leases and any retry limit.                                             *)
(***************************************************************************)
EXTENDS AgentJobs, FiniteSetTheorems, TLAPS

\* Leases are granted once, in order, and whoever carries one (a row, a
\* worker, a submission in flight) carries a granted one.
LeaseBook ==
    /\ \A l \in Leases : l < nextLease => grant[l] \in Jobs
    /\ \A l \in Leases : l >= nextLease => grant[l] = NoLease
    /\ \A l \in Leases : l < nextLease => job[grant[l]].status # "absent"
    /\ \A j \in Jobs : job[j].lease < nextLease
    /\ \A h \in handler : h.lease < nextLease
    /\ \A w \in Workers : worker[w].lease < nextLease
    /\ \A w \in Workers : Holds(w) => worker[w].lease # NoLease

\* A submission in flight read a retry_count the history covers, and the
\* result file it wrote stays.
SubmissionsSound ==
    \A h \in handler :
        /\ h.retry <= retried[grant[h.lease]]
        /\ h.kind = "result" /\ h.wrote => resultFile[grant[h.lease]] # NoLease

\* A create in flight still has its row to itself.
CreatesSound ==
    /\ \A c \in creating : job[c[1]].status = "absent"
    /\ \A c, d \in creating : c[1] = d[1] => c = d

\* The inductive invariant.
IInv ==
    /\ TypeOK
    /\ LeaseBook
    /\ SubmissionsSound
    /\ CreatesSound
    /\ RunningIsRecoverable
    /\ GatedNeverRuns
    /\ RetryCountWithinHistory
    /\ ResultRefResolves

USE RequestsAssumption, JobsAssumption, BoundsAssumption, WorkersAssumption

\* What the sweep does to a row.
LEMMA RecoveredRow ==
    ASSUME NEW row \in Row
    PROVE  /\ Recovered(row) \in Row
           /\ Recovered(row).req = row.req
           /\ Recovered(row).status \in {"queued", "timed_out"}
           /\ Recovered(row).lease = NoLease
           /\ row.retry < RetryLimit => Recovered(row).retry = row.retry + 1
           /\ ~(row.retry < RetryLimit) => Recovered(row).retry = row.retry
  <1> DEFINE n == IF row.retry < RetryLimit THEN row.retry + 1 ELSE row.retry
             st == IF row.retry < RetryLimit THEN "queued" ELSE "timed_out"
  <1>1. n \in 0..RetryLimit /\ st \in {"queued", "timed_out"}
    BY DEF Row
  <1>2. Recovered(row) = [row EXCEPT !.lease = NoLease, !.hb = "null", !.status = st, !.retry = n]
    BY DEF Recovered
  <1>3. /\ row.retry < RetryLimit => n = row.retry + 1
        /\ ~(row.retry < RetryLimit) => n = row.retry
    OBVIOUS
  <1> HIDE DEF n, st
  <1>4. QED
    BY <1>1, <1>2, <1>3 DEF Row, Statuses, Settled, Terminal, NoLease

\* What a claim does to a row.
LEMMA ClaimedRow ==
    ASSUME NEW row \in Row, NEW l \in Leases
    PROVE  /\ Claimed(row, l) \in Row
           /\ Claimed(row, l).req = row.req
           /\ Claimed(row, l).status = "running"
           /\ Claimed(row, l).lease = l
           /\ Claimed(row, l).hb = "fresh"
           /\ Claimed(row, l).retry = row.retry
  BY DEF Claimed, Row, Statuses, Settled, Terminal

\* What a committed result does to a row.
LEMMA WithResultRow ==
    ASSUME NEW row \in Row, NEW h \in Handler, NEW d
    PROVE  /\ WithResult(row, h, d) \in Row
           /\ WithResult(row, h, d).req = row.req
           /\ WithResult(row, h, d).status \in {"succeeded", "escalated"}
           /\ WithResult(row, h, d).lease = NoLease
           /\ WithResult(row, h, d).retry = row.retry
  BY DEF WithResult, Row, Handler, Statuses, Settled, Terminal, Approvals, NoLease

\* What a committed failure report does to a row.
LEMMA WithFailureRow ==
    ASSUME NEW row \in Row, NEW h \in Handler
    PROVE  /\ WithFailure(row, h) \in Row
           /\ WithFailure(row, h).req = row.req
           /\ WithFailure(row, h).status \in {"queued", "failed"}
           /\ WithFailure(row, h).lease = NoLease
           /\ Retries(h) => WithFailure(row, h).retry = h.retry + 1
           /\ ~Retries(h) => WithFailure(row, h).retry = row.retry
  <1> DEFINE n == h.retry + 1
  <1>1. CASE Retries(h)
    <2>1. n \in 0..RetryLimit
      BY <1>1 DEF Retries, Handler
    <2>2. WithFailure(row, h) = [row EXCEPT !.lease = NoLease, !.status = "queued", !.retry = n,
                                            !.hb = "null"]
      BY <1>1 DEF WithFailure
    <2> HIDE DEF n
    <2>3. /\ WithFailure(row, h) \in Row
          /\ WithFailure(row, h).req = row.req
          /\ WithFailure(row, h).status = "queued"
          /\ WithFailure(row, h).lease = NoLease
          /\ WithFailure(row, h).retry = n
      BY <2>1, <2>2 DEF Row, Statuses, NoLease
    <2>4. QED
      BY <1>1, <2>3 DEF n
  <1>2. CASE ~Retries(h)
    BY <1>2 DEF WithFailure, Row, Handler, Statuses, Settled, Terminal, NoLease
  <1>3. QED
    BY <1>1, <1>2

\* The initial state satisfies the inductive invariant.
LEMMA InitIInv == Init => IInv
  <1> SUFFICES ASSUME Init PROVE IInv
    OBVIOUS
  <1>1. (CHOOSE r \in Requests : TRUE) \in Requests
    OBVIOUS
  <1>2. Absent(CHOOSE r \in Requests : TRUE) \in Row
    BY <1>1 DEF Absent, Row, Statuses, Approvals, NoLease
  <1>3. TypeOK
    BY <1>2 DEF Init, TypeOK, Idle, Stages, Leases, NoLease
  <1>4. QED
    BY <1>3 DEF Init, IInv, LeaseBook, SubmissionsSound, CreatesSound, RunningIsRecoverable,
       GatedNeverRuns, RetryCountWithinHistory, ResultRefResolves, Absent, Idle, Holds, Leases,
       NoLease

\* Creating a job preserves the invariant.
LEMMA CreateIInv ==
    ASSUME IInv, NEW j \in Jobs, NEW r \in Requests, Create(j, r)
    PROVE  IInv'
  <1> USE DEF IInv
  <1>1. CASE CreateRead(j, r)
    BY <1>1 DEF CreateRead, TypeOK, LeaseBook, SubmissionsSound, CreatesSound, Holds,
       RunningIsRecoverable, GatedNeverRuns, RetryCountWithinHistory, ResultRefResolves
  <1>2. CASE CreateCommit(j, r)
    <2> DEFINE gated == OwnerGateRequired(r.risk)
               st == IF gated THEN "owner_review_required" ELSE "queued"
               ap == IF gated THEN "pending" ELSE "not_required"
    <2>1. /\ job' = [job EXCEPT ![j] = [Absent(r) EXCEPT !.status = st, !.approval = ap]]
          /\ job[j].status = "absent"
      BY <1>2 DEF CreateCommit, CreatesSound
    <2>2. /\ st \in {"queued", "owner_review_required"}
          /\ ap \in {"pending", "not_required"}
          /\ r.risk \notin AllowedRiskClasses => st = "owner_review_required"
      BY DEF OwnerGateRequired, AllowedRiskClasses, RiskClasses
    <2> HIDE DEF st, ap, gated
    <2>3. /\ job'[j] \in Row /\ job'[j].req = r /\ job'[j].retry = 0
          /\ job'[j].status = st /\ job'[j].lease = NoLease
      <3>1. job'[j] = [Absent(r) EXCEPT !.status = st, !.approval = ap]
        BY <2>1 DEF TypeOK
      <3>2. job'[j] = [req |-> r, status |-> st, retry |-> 0, lease |-> NoLease, hb |-> "null",
                       approval |-> ap, by |-> NoLease]
        BY <3>1 DEF Absent
      <3>3. QED
        BY <2>2, <3>2 DEF Row, Statuses, Approvals, NoLease
    <2>4. \A k \in Jobs \ {j} : job'[k] = job[k]
      BY <2>1 DEF TypeOK
    <2>5. TypeOK'
      BY <1>2, <2>1, <2>3 DEF CreateCommit, TypeOK
    <2>6. LeaseBook'
      BY <1>2, <2>2, <2>3, <2>4 DEF CreateCommit, LeaseBook, TypeOK, Holds, NoLease, Leases
    <2>7. SubmissionsSound' /\ CreatesSound'
      BY <1>2, <2>1, <2>4 DEF CreateCommit, CreatesSound, SubmissionsSound, TypeOK
    <2>8. RunningIsRecoverable' /\ RetryCountWithinHistory' /\ ResultRefResolves'
      BY <1>2, <2>2, <2>3, <2>4 DEF CreateCommit, TypeOK, RunningIsRecoverable,
         RetryCountWithinHistory, ResultRefResolves
    <2>9. \A l \in Leases : grant[l] # j
      BY <2>1 DEF LeaseBook, TypeOK, Leases, NoLease
    <2>10. GatedNeverRuns'
      BY <1>2, <2>2, <2>3, <2>4, <2>9 DEF CreateCommit, GatedNeverRuns
    <2>11. QED
      BY <2>5, <2>6, <2>7, <2>8, <2>10
  <1>3. CASE CreateAbort(j, r)
    BY <1>3 DEF CreateAbort, TypeOK, LeaseBook, SubmissionsSound, CreatesSound, Holds,
       RunningIsRecoverable, GatedNeverRuns, RetryCountWithinHistory, ResultRefResolves
  <1>4. QED
    BY <1>1, <1>2, <1>3 DEF Create

\* The sweep and the claim preserve the invariant.
LEMMA PollIInv ==
    ASSUME IInv, NEW w \in Workers, Poll(w)
    PROVE  IInv'
  <1> USE DEF IInv
  <1>1. CASE RecoverStale(w)
    <2>1. \A k \in Jobs : Stale(k) =>
            /\ job'[k] \in Row /\ job'[k].req = job[k].req
            /\ job'[k].status \in {"queued", "timed_out"} /\ job'[k].lease = NoLease
      BY <1>1, RecoveredRow DEF RecoverStale, TypeOK
    <2>2. \A k \in Jobs : ~Stale(k) => job'[k] = job[k]
      BY <1>1 DEF RecoverStale
    <2>3. \A k \in Jobs : retried'[k] \in Nat /\ retried'[k] >= retried[k]
      BY <1>1 DEF RecoverStale, TypeOK
    <2>4. \A k \in Jobs : job'[k].retry <= retried'[k]
      <3> TAKE k \in Jobs
      <3>1. job[k] \in Row /\ job[k].retry <= retried[k] /\ job[k].retry \in Nat /\ retried[k] \in Nat
        BY DEF TypeOK, Row, RetryCountWithinHistory
      <3>2. CASE Stale(k) /\ job[k].retry < RetryLimit
        <4>1. job'[k].retry = job[k].retry + 1 /\ retried'[k] = retried[k] + 1
          BY <1>1, <3>1, <3>2, RecoveredRow DEF RecoverStale
        <4>2. QED
          BY <3>1, <4>1
      <3>3. CASE Stale(k) /\ ~(job[k].retry < RetryLimit)
        <4>1. job'[k].retry = job[k].retry /\ retried'[k] = retried[k]
          BY <1>1, <3>1, <3>3, RecoveredRow DEF RecoverStale
        <4>2. QED
          BY <3>1, <4>1
      <3>4. CASE ~Stale(k)
        BY <1>1, <2>2, <3>1, <3>4 DEF RecoverStale
      <3>5. QED
        BY <3>2, <3>3, <3>4
    <2>5. TypeOK'
      <3>1. job' \in [Jobs -> Row]
        BY <1>1, <2>1, <2>2 DEF RecoverStale, TypeOK
      <3>2. QED
        BY <1>1, <2>3, <3>1 DEF RecoverStale, TypeOK, Stages
    <2>6. LeaseBook'
      <3>1. \A k \in Jobs : job'[k].lease < nextLease'
        BY <1>1, <2>1, <2>2 DEF RecoverStale, LeaseBook, TypeOK, NoLease
      <3>2. \A v \in Workers : worker'[v].lease = worker[v].lease /\ (Holds(v)' => Holds(v))
        BY <1>1 DEF RecoverStale, TypeOK, Holds
      <3>3. \A l \in Leases : l < nextLease => job'[grant[l]].status # "absent"
        BY <2>1, <2>2 DEF LeaseBook
      <3>4. QED
        BY <1>1, <3>1, <3>2, <3>3 DEF RecoverStale, LeaseBook
    <2>7. SubmissionsSound'
      BY <1>1, <2>3 DEF RecoverStale, SubmissionsSound, LeaseBook, TypeOK, Handler, Leases
    <2>8. CreatesSound'
      BY <1>1, <2>2 DEF RecoverStale, CreatesSound, TypeOK, Stale
    <2>9. RunningIsRecoverable' /\ ResultRefResolves'
      BY <1>1, <2>1, <2>2 DEF RecoverStale, RunningIsRecoverable, ResultRefResolves
    <2>10. GatedNeverRuns'
      BY <1>1, <2>1, <2>2 DEF RecoverStale, GatedNeverRuns, Stale
    <2>11. QED
      BY <2>4, <2>5, <2>6, <2>7, <2>8, <2>9, <2>10 DEF RetryCountWithinHistory
  <1>2. CASE ClaimNothing(w)
    <2>1. TypeOK'
      BY <1>2 DEF ClaimNothing, TypeOK, Idle, Stages, NoLease
    <2>2. LeaseBook'
      BY <1>2 DEF ClaimNothing, LeaseBook, TypeOK, Idle, Holds, NoLease
    <2>3. QED
      BY <1>2, <2>1, <2>2 DEF ClaimNothing, SubmissionsSound, CreatesSound,
         RunningIsRecoverable, GatedNeverRuns, RetryCountWithinHistory, ResultRefResolves
  <1>3. ASSUME NEW j \in Jobs, ClaimNext(w, j)
        PROVE  IInv'
    <2>1. /\ nextLease \in Leases /\ nextLease' = nextLease + 1 /\ nextLease \in Nat
          /\ grant[nextLease] = NoLease
      BY <1>3 DEF ClaimNext, TypeOK, LeaseBook, Leases
    <2>2. /\ job'[j] \in Row /\ job'[j].req = job[j].req /\ job'[j].status = "running"
          /\ job'[j].lease = nextLease /\ job'[j].hb = "fresh" /\ job'[j].retry = job[j].retry
      BY <1>3, <2>1, ClaimedRow DEF ClaimNext, TypeOK
    <2>3. \A k \in Jobs \ {j} : job'[k] = job[k]
      BY <1>3 DEF ClaimNext, TypeOK
    <2>4. grant'[nextLease] = j /\ \A l \in Leases \ {nextLease} : grant'[l] = grant[l]
      BY <1>3, <2>1 DEF ClaimNext, TypeOK
    <2>5. /\ worker'[w] \in [stage : Stages, lease : Leases \cup {NoLease}]
          /\ worker'[w].lease \in {nextLease, NoLease}
          /\ worker'[w].lease = NoLease => worker'[w].stage = "idle"
      BY <1>3, <2>1 DEF ClaimNext, TypeOK, Idle, Stages, NoLease, Leases
    <2>6. \A v \in Workers \ {w} : worker'[v] = worker[v]
      BY <1>3 DEF ClaimNext, TypeOK
    <2>7. TypeOK'
      <3>1. job' \in [Jobs -> Row] /\ worker' \in [Workers -> [stage : Stages, lease : Leases \cup {NoLease}]]
        BY <1>3, <2>2, <2>5 DEF ClaimNext, TypeOK
      <3>2. grant' \in [Leases -> Jobs \cup {NoLease}] /\ nextLease' \in 1..(MaxLease + 1)
        BY <1>3, <2>1 DEF ClaimNext, TypeOK, Leases
      <3>3. QED
        BY <1>3, <3>1, <3>2 DEF ClaimNext, TypeOK
    <2>8. LeaseBook'
      <3>1. \A l \in Leases : l < nextLease' => grant'[l] \in Jobs /\ job'[grant'[l]].status # "absent"
        <4> TAKE l \in Leases
        <4>1. CASE l = nextLease
          BY <2>2, <2>4, <4>1
        <4>2. CASE l # nextLease
          <5>1. l < nextLease' => l < nextLease
            BY <2>1, <4>2 DEF Leases
          <5>2. grant'[l] = grant[l]
            BY <2>4, <4>2
          <5>3. QED
            BY <2>2, <2>3, <5>1, <5>2 DEF LeaseBook
        <4>3. QED
          BY <4>1, <4>2
      <3>2. \A l \in Leases : l >= nextLease' => grant'[l] = NoLease
        <4> TAKE l \in Leases
        <4>1. l >= nextLease' => l >= nextLease /\ l # nextLease
          BY <2>1 DEF Leases
        <4>2. QED
          BY <2>4, <4>1 DEF LeaseBook
      <3>3. \A k \in Jobs : job'[k].lease < nextLease'
        <4> TAKE k \in Jobs
        <4>1. job[k].lease \in Nat /\ job[k].lease < nextLease
          BY DEF LeaseBook, TypeOK, Row, Leases, NoLease
        <4>2. job'[k].lease = nextLease \/ job'[k].lease = job[k].lease
          BY <2>2, <2>3
        <4>3. QED
          BY <2>1, <4>1, <4>2
      <3>4. \A h \in handler' : h.lease < nextLease'
        BY <1>3, <2>1 DEF ClaimNext, LeaseBook, TypeOK, Handler, Leases
      <3>5. \A v \in Workers : worker'[v].lease < nextLease'
        <4> TAKE v \in Workers
        <4>1. worker[v].lease \in Nat /\ worker[v].lease < nextLease
          BY DEF LeaseBook, TypeOK, Leases, NoLease
        <4>2. worker'[v].lease \in {nextLease, NoLease, worker[v].lease}
          BY <2>5, <2>6
        <4>3. QED
          BY <2>1, <4>1, <4>2 DEF NoLease
      <3>6. \A v \in Workers : Holds(v)' => worker'[v].lease # NoLease
        BY <2>5, <2>6 DEF LeaseBook, Holds
      <3>7. QED
        BY <3>1, <3>2, <3>3, <3>4, <3>5, <3>6 DEF LeaseBook
    <2>9. SubmissionsSound'
      BY <1>3, <2>1, <2>4 DEF ClaimNext, SubmissionsSound, LeaseBook, TypeOK, Handler, Leases
    <2>10. CreatesSound'
      BY <1>3, <2>3 DEF ClaimNext, CreatesSound, Claimable, TypeOK
    <2>11. RunningIsRecoverable'
      BY <2>1, <2>2, <2>3, <2>4 DEF RunningIsRecoverable, LeaseBook, TypeOK, Row, NoLease, Leases
    <2>12. GatedNeverRuns'
      BY <1>3, <2>1, <2>2, <2>3, <2>4 DEF ClaimNext, GatedNeverRuns, Claimable, TypeOK
    <2>13. RetryCountWithinHistory' /\ ResultRefResolves'
      BY <1>3, <2>2, <2>3 DEF ClaimNext, RetryCountWithinHistory, ResultRefResolves
    <2>14. QED
      BY <2>7, <2>8, <2>9, <2>10, <2>11, <2>12, <2>13
  <1>4. QED
    BY <1>1, <1>2, <1>3 DEF Poll

\* The part of the invariant that is about worker processes.
WorkersSound ==
    /\ worker \in [Workers -> [stage : Stages, lease : Leases \cup {NoLease}]]
    /\ \A w \in Workers : worker[w].lease < nextLease
    /\ \A w \in Workers : Holds(w) => worker[w].lease # NoLease

\* Answering a request leaves the workers sound.
LEMMA AnswerSound ==
    ASSUME IInv, NEW l \in Leases, NEW kind, NEW answer, l < nextLease, nextLease' = nextLease,
           answer \in {Idle, [stage |-> "refused", lease |-> l]},
           worker' = Answer(l, kind, answer)
    PROVE  WorkersSound'
  <1>1. \A w \in Workers : worker'[w] \in {answer, worker[w]}
    BY DEF Answer
  <1>2. answer \in [stage : Stages, lease : Leases \cup {NoLease}]
    BY DEF Idle, Stages
  <1>3. answer.lease < nextLease /\ (answer.lease = NoLease => answer.stage = "idle")
    BY DEF IInv, TypeOK, Idle, NoLease, Leases
  <1>4. worker' \in [Workers -> [stage : Stages, lease : Leases \cup {NoLease}]]
    BY <1>1, <1>2 DEF IInv, TypeOK, Answer
  <1>5. QED
    BY <1>1, <1>3, <1>4 DEF IInv, LeaseBook, WorkersSound, Holds

\* A step that changes one existing row, and perhaps ends a submission,
\* preserves the invariant if the new row is sound.
LEMMA RowUpdate ==
    ASSUME IInv, NEW j \in Jobs, job' \in [Jobs -> Row],
           \A k \in Jobs \ {j} : job'[k] = job[k],
           job[j].status # "absent", job'[j].status # "absent",
           job'[j].req = job[j].req,
           job'[j].lease \in {NoLease, job[j].lease},
           job'[j].status = job[j].status \/ \E l \in Leases : grant[l] = j,
           job'[j].status = "running" =>
               job[j].status = "running" /\ job'[j].lease = job[j].lease /\ job'[j].hb # "null",
           retried' \in [Jobs -> Nat],
           \A k \in Jobs : retried'[k] >= retried[k],
           job'[j].retry <= retried'[j],
           job'[j].status \in {"succeeded", "escalated"} => resultFile[j] # NoLease,
           UNCHANGED <<resultFile, grant, nextLease, creating>>,
           handler' \subseteq handler, deciding' \subseteq Jobs \X BOOLEAN,
           WorkersSound'
    PROVE  IInv'
  <1> USE DEF IInv
  <1>1. TypeOK'
    BY DEF TypeOK, WorkersSound
  <1>2. LeaseBook'
    <2>1. \A k \in Jobs : job'[k].lease < nextLease
      BY DEF LeaseBook, TypeOK, NoLease
    <2>2. \A l \in Leases : l < nextLease => job'[grant[l]].status # "absent"
      BY DEF LeaseBook
    <2>3. QED
      BY <2>1, <2>2 DEF LeaseBook, WorkersSound
  <1>3. SubmissionsSound'
    BY DEF SubmissionsSound, LeaseBook, TypeOK, Handler, Leases
  <1>4. CreatesSound'
    BY DEF CreatesSound, TypeOK
  <1>5. RunningIsRecoverable' /\ ResultRefResolves'
    BY DEF RunningIsRecoverable, ResultRefResolves
  <1>6. GatedNeverRuns'
    BY DEF GatedNeverRuns
  <1>7. RetryCountWithinHistory'
    <2> SUFFICES ASSUME NEW k \in Jobs PROVE job'[k].retry <= retried'[k]
      BY DEF RetryCountWithinHistory
    <2>1. CASE k = j
      BY <2>1
    <2>2. CASE k # j
      <3>1. job'[k] = job[k] /\ job[k].retry \in Nat /\ retried[k] \in Nat /\ retried'[k] \in Nat
        BY <2>2 DEF TypeOK, Row
      <3>2. QED
        BY <3>1 DEF RetryCountWithinHistory
    <2>3. QED
      BY <2>1, <2>2
  <1>8. QED
    BY <1>1, <1>2, <1>3, <1>4, <1>5, <1>6, <1>7

\* The invariant is about these variables only through the workers.
LEMMA WorkerStep ==
    ASSUME IInv, WorkersSound',
           UNCHANGED <<job, retried, resultFile, grant, nextLease, creating, handler, deciding>>
    PROVE  IInv'
  <1>1. TypeOK' /\ LeaseBook'
    BY DEF IInv, TypeOK, LeaseBook, WorkersSound
  <1>2. QED
    BY <1>1 DEF IInv, SubmissionsSound, CreatesSound, RunningIsRecoverable, GatedNeverRuns,
       RetryCountWithinHistory, ResultRefResolves

\* A step that only opens a submission preserves the invariant.
LEMMA OpenSubmission ==
    ASSUME IInv, WorkersSound', NEW l \in Leases, l < nextLease, OwnsLease(grant[l], l),
           NEW h \in Handler, h.lease = l, h.retry = job[grant[l]].retry, ~h.wrote,
           handler' = handler \cup {h},
           UNCHANGED <<job, retried, resultFile, grant, nextLease, creating, deciding>>
    PROVE  IInv'
  <1>1. TypeOK'
    BY DEF IInv, TypeOK, WorkersSound
  <1>2. LeaseBook'
    BY DEF IInv, LeaseBook, WorkersSound
  <1>3. SubmissionsSound'
    BY DEF IInv, LeaseBook, SubmissionsSound, RetryCountWithinHistory
  <1>4. QED
    BY <1>1, <1>2, <1>3 DEF IInv, CreatesSound, RunningIsRecoverable, GatedNeverRuns,
       RetryCountWithinHistory, ResultRefResolves

\* A worker that holds a lease holds a granted one.
LEMMA HeldLease ==
    ASSUME IInv, NEW w \in Workers, Holds(w)
    PROVE  /\ worker[w].lease \in Leases /\ worker[w].lease < nextLease
           /\ grant[worker[w].lease] \in Jobs
           /\ job[grant[worker[w].lease]].status # "absent"
  <1>1. worker[w].lease \in Leases /\ worker[w].lease < nextLease
    BY DEF IInv, TypeOK, LeaseBook
  <1>2. QED
    BY <1>1 DEF IInv, LeaseBook

\* Moving one worker to another stage of the same lease, or to idle, keeps
\* the workers sound.
LEMMA StageSound ==
    ASSUME IInv, NEW w \in Workers, Holds(w), NEW new, nextLease' = nextLease,
           \/ new = Idle
           \/ \E st \in {"result", "refused", "failure"} : new = [worker[w] EXCEPT !.stage = st],
           worker' = [worker EXCEPT ![w] = new]
    PROVE  WorkersSound'
  <1>1. new \in [stage : Stages, lease : Leases \cup {NoLease}]
    BY DEF IInv, TypeOK, Idle, Stages
  <1>2. new.lease \in {NoLease, worker[w].lease} /\ (new.lease = NoLease => new.stage = "idle")
    <2>1. CASE new = Idle
      BY <2>1 DEF Idle
    <2>2. CASE \E st \in {"result", "refused", "failure"} : new = [worker[w] EXCEPT !.stage = st]
      BY <2>2, HeldLease DEF IInv, TypeOK, Leases, NoLease
    <2>3. QED
      BY <2>1, <2>2
  <1>3. nextLease > NoLease
    BY DEF IInv, TypeOK, NoLease
  <1>4. worker' \in [Workers -> [stage : Stages, lease : Leases \cup {NoLease}]]
        /\ \A v \in Workers : worker'[v] = IF v = w THEN new ELSE worker[v]
    BY <1>1 DEF IInv, TypeOK
  <1>5. \A v \in Workers : worker'[v].lease < nextLease /\ (Holds(v)' => worker'[v].lease # NoLease)
    BY <1>2, <1>3, <1>4 DEF IInv, LeaseBook, Holds
  <1>6. QED
    BY <1>4, <1>5 DEF WorkersSound

\* Posting a result or a failure preserves the invariant.
LEMMA SubmitIInv ==
    ASSUME IInv, NEW w \in Workers, Submit(w)
    PROVE  IInv'
  <1> DEFINE l == worker[w].lease
             j == grant[l]
  <1>1. CASE ResultRead(w)
    <2>1. Holds(w) /\ OwnsLease(j, l)
      BY <1>1 DEF ResultRead, Holds
    <2>2. WorkersSound'
      BY <1>1, <2>1, StageSound DEF ResultRead
    <2> DEFINE h == [lease |-> l, kind |-> "result", retry |-> job[j].retry,
                     approval |-> job[j].approval, retryable |-> FALSE, wrote |-> FALSE]
    <2>3. h \in Handler
      BY <2>1, HeldLease DEF Handler, IInv, TypeOK, Row
    <2>4. handler' = handler \cup {h}
      BY <1>1 DEF ResultRead
    <2>5. QED
      BY <1>1, <2>1, <2>2, <2>3, <2>4, HeldLease, OpenSubmission DEF ResultRead
  <1>2. CASE ResultRefused(w)
    <2>1. Holds(w)
      BY <1>2 DEF ResultRefused, Holds
    <2>2. WorkersSound'
      BY <1>2, <2>1, StageSound DEF ResultRefused
    <2>3. QED
      BY <1>2, <2>2, WorkerStep DEF ResultRefused
  <1>3. ASSUME NEW retryable \in BOOLEAN, FailureRead(w, retryable)
        PROVE  IInv'
    <2>1. Holds(w) /\ OwnsLease(j, l)
      BY <1>3 DEF FailureRead, Holds
    <2>2. WorkersSound'
      BY <1>3, <2>1, StageSound DEF FailureRead
    <2> DEFINE h == [lease |-> l, kind |-> "failure", retry |-> job[j].retry,
                     approval |-> job[j].approval, retryable |-> retryable, wrote |-> FALSE]
    <2>3. h \in Handler
      BY <2>1, HeldLease DEF Handler, IInv, TypeOK, Row
    <2>4. handler' = handler \cup {h}
      BY <1>3 DEF FailureRead
    <2>5. QED
      BY <1>3, <2>1, <2>2, <2>3, <2>4, HeldLease, OpenSubmission DEF FailureRead
  <1>4. CASE FailureLeaseLost(w)
    <2>1. Holds(w)
      BY <1>4 DEF FailureLeaseLost, Holds
    <2>2. WorkersSound'
      BY <1>4, <2>1, StageSound DEF FailureLeaseLost
    <2>3. QED
      BY <1>4, <2>2, WorkerStep DEF FailureLeaseLost
  <1>5. QED
    BY <1>1, <1>2, <1>3, <1>4 DEF Submit

\* A submission in flight is against a granted lease of an existing job.
LEMMA OpenLease ==
    ASSUME IInv, NEW h \in handler
    PROVE  /\ h \in Handler /\ h.lease \in Leases /\ h.lease < nextLease
           /\ grant[h.lease] \in Jobs /\ job[grant[h.lease]] \in Row
           /\ job[grant[h.lease]].status # "absent"
           /\ job[grant[h.lease]].retry \in Nat /\ retried[grant[h.lease]] \in Nat
           /\ job[grant[h.lease]].retry <= retried[grant[h.lease]]
  <1>1. h \in Handler /\ h.lease \in Leases /\ h.lease < nextLease
    BY DEF IInv, TypeOK, Handler, LeaseBook
  <1>2. grant[h.lease] \in Jobs /\ job[grant[h.lease]].status # "absent"
    BY <1>1 DEF IInv, LeaseBook
  <1>3. QED
    BY <1>1, <1>2 DEF IInv, TypeOK, Row, RetryCountWithinHistory

\* Committing a submission preserves the invariant.
LEMMA CommitIInv ==
    ASSUME IInv, NEW h \in handler, Commit(h)
    PROVE  IInv'
  <1> DEFINE j == grant[h.lease]
  <1>1. CASE ResultWrite(h)
    <2> DEFINE g == [h EXCEPT !.wrote = TRUE]
    <2>1. /\ g \in Handler /\ g.lease = h.lease /\ g.retry = h.retry
          /\ handler' = (handler \ {h}) \cup {g}
          /\ resultFile' = [resultFile EXCEPT ![j] = h.lease]
      BY <1>1, OpenLease DEF ResultWrite, Handler
    <2> HIDE DEF g
    <2>2. h.lease # NoLease
      BY OpenLease DEF Leases, NoLease
    <2>3. /\ resultFile' \in [Jobs -> Leases \cup {NoLease}]
          /\ \A k \in Jobs : resultFile[k] # NoLease => resultFile'[k] # NoLease
          /\ resultFile'[j] # NoLease
      BY <2>1, <2>2, OpenLease DEF IInv, TypeOK
    <2>4. TypeOK'
      BY <1>1, <2>1, <2>3 DEF ResultWrite, IInv, TypeOK
    <2>5. LeaseBook'
      BY <1>1, <2>1 DEF ResultWrite, IInv, LeaseBook, Holds
    <2>6. SubmissionsSound'
      <3>1. \A i \in handler : grant[i.lease] \in Jobs
        BY OpenLease
      <3>2. grant' = grant /\ retried' = retried
        BY <1>1 DEF ResultWrite
      <3>3. \A i \in handler : /\ i.retry <= retried[grant[i.lease]]
                               /\ i.kind = "result" /\ i.wrote => resultFile[grant[i.lease]] # NoLease
        BY DEF IInv, SubmissionsSound
      <3>4. \A i \in handler : i.kind = "result" /\ i.wrote => resultFile'[grant[i.lease]] # NoLease
        <4> TAKE i \in handler
        <4>1. grant[i.lease] \in Jobs
          BY <3>1
        <4>2. resultFile[grant[i.lease]] # NoLease => resultFile'[grant[i.lease]] # NoLease
          BY <2>3, <4>1
        <4>3. QED
          BY <3>3, <4>2
      <3>5. g.retry <= retried[grant[g.lease]] /\ resultFile'[grant[g.lease]] # NoLease
        <4>1. h.retry <= retried[j]
          BY <3>3
        <4>2. g.retry = h.retry /\ grant[g.lease] = j
          BY <2>1
        <4>3. h.retry \in Nat /\ retried[j] \in Nat
          BY OpenLease DEF Handler
        <4>4. g.retry <= retried[grant[g.lease]]
          BY <4>1, <4>2, <4>3
        <4>5. resultFile'[grant[g.lease]] # NoLease
          BY <2>3, <4>2
        <4>6. QED
          BY <4>4, <4>5
      <3>6. QED
        BY <2>1, <3>2, <3>3, <3>4, <3>5 DEF SubmissionsSound
    <2>7. QED
      BY <1>1, <2>3, <2>4, <2>5, <2>6 DEF ResultWrite, IInv, CreatesSound, RunningIsRecoverable,
         GatedNeverRuns, RetryCountWithinHistory, ResultRefResolves
  <1>2. ASSUME NEW d, ResultCommit(h, d)
        PROVE  IInv'
    <2>1. /\ job' = [job EXCEPT ![j] = WithResult(job[j], h, d)]
          /\ resultFile[j] # NoLease
      BY <1>2 DEF ResultCommit, IInv, SubmissionsSound
    <2>2. /\ job' \in [Jobs -> Row] /\ job'[j] = WithResult(job[j], h, d)
          /\ \A k \in Jobs \ {j} : job'[k] = job[k]
      BY <2>1, OpenLease, WithResultRow DEF IInv, TypeOK
    <2>3. WorkersSound'
      BY <1>2, OpenLease, AnswerSound DEF ResultCommit
    <2>4. QED
      BY <1>2, <2>1, <2>2, <2>3, OpenLease, WithResultRow, RowUpdate DEF ResultCommit, IInv, TypeOK
  <1>3. CASE ResultMalformed(h)
    <2>1. /\ job' = [job EXCEPT ![j] = [job[j] EXCEPT !.lease = NoLease, !.status = "failed",
                                                      !.by = h.lease]]
      BY <1>3 DEF ResultMalformed
    <2>2. /\ job' \in [Jobs -> Row] /\ job'[j].req = job[j].req /\ job'[j].lease = NoLease
          /\ job'[j].status = "failed" /\ job'[j].retry = job[j].retry
          /\ \A k \in Jobs \ {j} : job'[k] = job[k]
      BY <2>1, OpenLease DEF IInv, TypeOK, Row, Statuses, Settled, Terminal
    <2>3. WorkersSound'
      BY <1>3, OpenLease, AnswerSound DEF ResultMalformed
    <2>4. QED
      BY <1>3, <2>2, <2>3, OpenLease, RowUpdate DEF ResultMalformed, IInv, TypeOK
  <1>4. CASE FailureCommit(h)
    <2>1. /\ job' = [job EXCEPT ![j] = WithFailure(job[j], h)]
          /\ retried' = IF Retries(h) THEN [retried EXCEPT ![j] = retried[j] + 1] ELSE retried
      BY <1>4 DEF FailureCommit
    <2>2. /\ job' \in [Jobs -> Row] /\ job'[j] = WithFailure(job[j], h)
          /\ \A k \in Jobs \ {j} : job'[k] = job[k]
      BY <2>1, OpenLease, WithFailureRow DEF IInv, TypeOK
    <2>3. retried' \in [Jobs -> Nat] /\ \A k \in Jobs : retried'[k] >= retried[k]
      BY <2>1, OpenLease DEF IInv, TypeOK
    <2>4. job'[j].retry <= retried'[j]
      <3>1. h.retry \in Nat /\ h.retry <= retried[j]
        BY OpenLease DEF IInv, SubmissionsSound, Handler
      <3>2. CASE Retries(h)
        <4>1. job'[j].retry = h.retry + 1 /\ retried'[j] = retried[j] + 1
          BY <2>1, <2>2, <3>2, OpenLease, WithFailureRow DEF IInv, TypeOK
        <4>2. QED
          BY <3>1, <4>1, OpenLease
      <3>3. CASE ~Retries(h)
        BY <2>1, <2>2, <3>3, OpenLease, WithFailureRow
      <3>4. QED
        BY <3>2, <3>3
    <2>5. WorkersSound'
      BY <1>4, OpenLease, AnswerSound DEF FailureCommit
    <2>6. QED
      <3>1. /\ j \in Jobs /\ job[j].status # "absent"
            /\ job'[j].req = job[j].req /\ job'[j].lease = NoLease
            /\ job'[j].status \in {"queued", "failed"}
            /\ \E l \in Leases : grant[l] = j
        BY <2>2, OpenLease, WithFailureRow
      <3>2. UNCHANGED <<resultFile, grant, nextLease, creating>> /\ handler' \subseteq handler
            /\ deciding' \subseteq Jobs \X BOOLEAN
        BY <1>4 DEF FailureCommit, IInv, TypeOK
      <3> HIDE DEF j
      <3>3. QED
        BY <2>2, <2>3, <2>4, <2>5, <3>1, <3>2, RowUpdate
  <1>5. QED
    BY <1>1, <1>2, <1>3, <1>4 DEF Commit

\* A submission that is rolled back, and a worker that loses its request or
\* its process, preserve the invariant.
LEMMA FaultIInv ==
    ASSUME IInv, \/ \E h \in handler : HandlerAbort(h)
                 \/ \E w \in Workers : GatewayError(w) \/ WorkerDrop(w)
    PROVE  IInv'
  <1>1. ASSUME NEW h \in handler, HandlerAbort(h)
        PROVE  IInv'
    <2>1. WorkersSound'
      BY <1>1, OpenLease, AnswerSound DEF HandlerAbort
    <2>2. TypeOK' /\ LeaseBook' /\ SubmissionsSound'
      BY <1>1, <2>1 DEF HandlerAbort, IInv, TypeOK, LeaseBook, SubmissionsSound, WorkersSound
    <2>3. QED
      BY <1>1, <2>2 DEF HandlerAbort, IInv, CreatesSound, RunningIsRecoverable, GatedNeverRuns,
         RetryCountWithinHistory, ResultRefResolves
  <1>2. ASSUME NEW w \in Workers, GatewayError(w)
        PROVE  IInv'
    <2>1. WorkersSound'
      BY <1>2, StageSound DEF GatewayError, Holds
    <2>2. QED
      BY <1>2, <2>1, WorkerStep DEF GatewayError
  <1>3. ASSUME NEW w \in Workers, WorkerDrop(w)
        PROVE  IInv'
    <2>1. WorkersSound'
      BY <1>3, StageSound DEF WorkerDrop
    <2>2. QED
      BY <1>3, <2>1, WorkerStep DEF WorkerDrop
  <1>4. QED
    BY <1>1, <1>2, <1>3

\* Heartbeats, the passing of time and owner decisions preserve the
\* invariant.
LEMMA TouchIInv ==
    ASSUME IInv, \/ \E w \in Workers : Heartbeat(w)
                 \/ \E j \in Jobs : Expire(j) \/ Decide(j)
    PROVE  IInv'
  <1>1. ASSUME NEW j \in Jobs, NEW hb \in {"fresh", "stale"}, job[j].status = "running",
               job' = [job EXCEPT ![j].hb = hb],
               UNCHANGED <<retried, resultFile, grant, nextLease, worker, creating, handler, deciding>>
        PROVE  IInv'
    <2>1. /\ job' \in [Jobs -> Row] /\ job'[j].hb = hb /\ job'[j].status = job[j].status
          /\ job'[j].req = job[j].req /\ job'[j].lease = job[j].lease
          /\ job'[j].retry = job[j].retry /\ \A k \in Jobs \ {j} : job'[k] = job[k]
      <3>1. job \in [Jobs -> Row] /\ job[j] \in Row
        BY DEF IInv, TypeOK
      <3>2. job'[j] = [job[j] EXCEPT !.hb = hb] /\ \A k \in Jobs \ {j} : job'[k] = job[k]
        BY <1>1, <3>1
      <3>3. [job[j] EXCEPT !.hb = hb] \in Row
        BY <3>1 DEF Row
      <3>4. job' \in [Jobs -> Row]
        BY <1>1, <3>1, <3>3
      <3>5. QED
        BY <3>1, <3>2, <3>4 DEF Row
    <2>2. WorkersSound'
      BY <1>1 DEF IInv, TypeOK, LeaseBook, WorkersSound, Holds
    <2>3. job'[j].retry <= retried'[j]
      BY <1>1, <2>1 DEF IInv, RetryCountWithinHistory
    <2>4. QED
      BY <1>1, <2>1, <2>2, <2>3, RowUpdate DEF IInv, TypeOK
  <1>2. ASSUME NEW w \in Workers, Heartbeat(w)
        PROVE  IInv'
    BY <1>1, <1>2, HeldLease DEF Heartbeat, OwnsLease
  <1>3. ASSUME NEW j \in Jobs, Expire(j)
        PROVE  IInv'
    BY <1>1, <1>3 DEF Expire
  <1>4. ASSUME NEW j \in Jobs, NEW approve \in BOOLEAN, DecideRead(j, approve)
        PROVE  IInv'
    <2>1. TypeOK' /\ LeaseBook'
      BY <1>4 DEF DecideRead, IInv, TypeOK, LeaseBook, Holds
    <2>2. QED
      BY <1>4, <2>1 DEF DecideRead, IInv, SubmissionsSound, CreatesSound, RunningIsRecoverable,
         GatedNeverRuns, RetryCountWithinHistory, ResultRefResolves
  <1>5. ASSUME NEW j \in Jobs, NEW approve \in BOOLEAN, DecideCommit(j, approve)
        PROVE  IInv'
    <2>1. /\ job' \in [Jobs -> Row]
          /\ \A k \in Jobs : /\ job'[k].status = job[k].status /\ job'[k].lease = job[k].lease
                            /\ job'[k].req = job[k].req /\ job'[k].retry = job[k].retry
                            /\ job'[k].hb = job[k].hb
      BY <1>5 DEF DecideCommit, IInv, TypeOK, Row, Approvals
    <2>2. TypeOK'
      BY <1>5, <2>1 DEF DecideCommit, IInv, TypeOK
    <2>3. LeaseBook'
      BY <1>5, <2>1 DEF DecideCommit, IInv, LeaseBook, Holds
    <2>4. CreatesSound'
      BY <1>5, <2>1 DEF DecideCommit, IInv, TypeOK, CreatesSound
    <2>5. QED
      BY <1>5, <2>1, <2>2, <2>3, <2>4 DEF DecideCommit, IInv, SubmissionsSound,
         RunningIsRecoverable, GatedNeverRuns, RetryCountWithinHistory, ResultRefResolves
  <1>6. QED
    BY <1>2, <1>3, <1>4, <1>5 DEF Decide

\* Every step of the queue preserves the inductive invariant.
LEMMA NextIInv == IInv /\ [Next]_vars => IInv'
  <1> SUFFICES ASSUME IInv, [Next]_vars PROVE IInv'
    OBVIOUS
  <1>1. CASE Next
    BY <1>1, CreateIInv, PollIInv, SubmitIInv, CommitIInv, FaultIInv, TouchIInv DEF Next
  <1>2. CASE UNCHANGED vars
    BY <1>2 DEF vars, IInv, TypeOK, LeaseBook, SubmissionsSound, CreatesSound, Holds,
       RunningIsRecoverable, GatedNeverRuns, RetryCountWithinHistory, ResultRefResolves
  <1>3. QED
    BY <1>1, <1>2

\* The leases granted so far, per job, against the RETRIED events: a job that
\* waits in the queue has an event for each of its executions.
Accounted ==
    \A j \in Jobs :
      Executions(j) <= retried[j] + (IF job[j].status = "queued" THEN 0 ELSE 1)

\* A job has finitely many executions.
LEMMA ExecutionsType ==
    \A j \in Jobs : Executions(j) \in Nat /\ IsFiniteSet({l \in Leases : grant[l] = j})
  <1> TAKE j \in Jobs
  <1>1. IsFiniteSet(Leases)
    BY FS_Interval DEF Leases
  <1>2. IsFiniteSet({l \in Leases : grant[l] = j})
    BY <1>1, FS_Subset
  <1>3. QED
    BY <1>2, FS_CardinalityType DEF Executions

\* A step that grants no lease keeps the account when whatever it puts in
\* the queue again has a new RETRIED event, or was never executed.
LEMMA AccountKept ==
    ASSUME IInv, Accounted, grant' = grant,
           \A j \in Jobs :
             /\ retried'[j] \in Nat /\ retried'[j] >= retried[j]
             /\ job'[j].status = "queued" =>
                  \/ job[j].status = "queued"
                  \/ retried'[j] >= retried[j] + 1
                  \/ job[j].status = "absent"
    PROVE  Accounted'
  <1> SUFFICES ASSUME NEW j \in Jobs
               PROVE  Executions(j) <= retried'[j] + (IF job'[j].status = "queued" THEN 0 ELSE 1)
    BY DEF Accounted, Executions
  <1>1. Executions(j) \in Nat /\ retried[j] \in Nat
    BY ExecutionsType DEF IInv, TypeOK
  <1>2. job[j].status = "absent" => Executions(j) = 0
    <2> SUFFICES ASSUME job[j].status = "absent" PROVE Executions(j) = 0
      OBVIOUS
    <2>1. \A l \in Leases : grant[l] # j
      BY DEF IInv, LeaseBook, TypeOK, Leases, NoLease
    <2>2. {l \in Leases : grant[l] = j} = {}
      BY <2>1
    <2>3. QED
      BY <2>2, FS_EmptySet DEF Executions
  <1>3. QED
    BY <1>1, <1>2 DEF Accounted

\* The claim takes a job from the queue and adds one execution to it.
LEMMA ClaimAccounted ==
    ASSUME IInv, Accounted, NEW w \in Workers, NEW j \in Jobs, ClaimNext(w, j)
    PROVE  Accounted'
  <1> SUFFICES ASSUME NEW k \in Jobs
               PROVE  Cardinality({l \in Leases : grant'[l] = k})
                        <= retried[k] + (IF job'[k].status = "queued" THEN 0 ELSE 1)
    BY DEF Accounted, Executions, ClaimNext
  <1> DEFINE mine == {l \in Leases : grant[l] = k}
  <1>1. /\ nextLease \in Leases /\ grant[nextLease] = NoLease /\ NoLease # j /\ NoLease # k
        /\ grant' = [grant EXCEPT ![nextLease] = j]
    BY DEF ClaimNext, IInv, TypeOK, LeaseBook, Leases, NoLease
  <1>2. Executions(k) \in Nat /\ retried[k] \in Nat /\ IsFiniteSet(mine) /\ Executions(k) = Cardinality(mine)
    BY ExecutionsType DEF IInv, TypeOK, Executions
  <1>3. CASE k = j
    <2>1. {l \in Leases : grant'[l] = k} = mine \cup {nextLease} /\ nextLease \notin mine
      BY <1>1, <1>3 DEF IInv, TypeOK
    <2>2. Cardinality(mine \cup {nextLease}) = Cardinality(mine) + 1
      <3> HIDE DEF mine
      <3>1. QED
        BY <1>2, <2>1, FS_AddElement
    <2>3. job[k].status = "queued" /\ job'[k].status = "running"
      BY <1>3, ClaimedRow, <1>1 DEF ClaimNext, Claimable, IInv, TypeOK
    <2>4. Executions(k) <= retried[k]
      BY <2>3, <1>2 DEF Accounted
    <2>5. Cardinality({l \in Leases : grant'[l] = k}) = Executions(k) + 1
      BY ONLY <1>2, <2>1, <2>2
    <2> HIDE DEF mine
    <2>6. QED
      BY <1>2, <2>3, <2>4, <2>5
  <1>4. CASE k # j
    <2>1. {l \in Leases : grant'[l] = k} = mine /\ job'[k] = job[k]
      BY <1>1, <1>4 DEF IInv, TypeOK, ClaimNext
    <2>2. QED
      BY <1>2, <2>1 DEF Accounted
  <1>5. QED
    BY <1>3, <1>4

\* Every step of the queue keeps the account of executions.
LEMMA NextAccounted ==
    ASSUME IInv, Accounted, [Next]_vars
    PROVE  Accounted'
  <1>1. ASSUME NEW j \in Jobs, NEW r \in Requests, Create(j, r)
        PROVE  Accounted'
    <2>1. \A k \in Jobs : job'[k] = job[k] \/ job[k].status = "absent"
      BY <1>1 DEF Create, CreateRead, CreateCommit, CreateAbort, IInv, TypeOK, CreatesSound
    <2>2. retried' = retried /\ grant' = grant
      BY <1>1 DEF Create, CreateRead, CreateCommit, CreateAbort
    <2>3. QED
      BY <2>1, <2>2, AccountKept DEF IInv, TypeOK
  <1>2. ASSUME NEW w \in Workers, RecoverStale(w)
        PROVE  Accounted'
    <2>1. \A k \in Jobs : job[k] \in Row /\ retried[k] \in Nat
      BY DEF IInv, TypeOK
    <2>2. \A k \in Jobs : job'[k].status = "queued" =>
            job[k].status = "queued" \/ (Stale(k) /\ job[k].retry < RetryLimit)
      BY <1>2, <2>1 DEF RecoverStale, Recovered, Row
    <2>3. grant' = grant /\ \A k \in Jobs : retried'[k] = IF Stale(k) /\ job[k].retry < RetryLimit
                                  THEN retried[k] + 1 ELSE retried[k]
      BY <1>2 DEF RecoverStale
    <2>4. QED
      BY <2>1, <2>2, <2>3, AccountKept
  <1>3. ASSUME NEW h \in handler, FailureCommit(h)
        PROVE  Accounted'
    <2> DEFINE j == grant[h.lease]
    <2>1. h \in Handler /\ j \in Jobs /\ job[j] \in Row
      BY DEF IInv, TypeOK, LeaseBook, Handler
    <2>2. /\ job'[j] = WithFailure(job[j], h)
          /\ \A k \in Jobs \ {j} : job'[k] = job[k]
          /\ grant' = grant
          /\ \A k \in Jobs : retried'[k] = IF Retries(h) /\ k = j THEN retried[k] + 1 ELSE retried[k]
      BY <1>3, <2>1 DEF FailureCommit, IInv, TypeOK
    <2>3. job'[j].status = "queued" => Retries(h)
      BY <2>1, <2>2 DEF WithFailure, Row
    <2> HIDE DEF j
    <2>4. \A k \in Jobs : retried[k] \in Nat
      BY DEF IInv, TypeOK
    <2>5. QED
      BY <2>1, <2>2, <2>3, <2>4, AccountKept
  <1>4. ASSUME NEW h \in handler, ResultWrite(h) \/ ResultMalformed(h) \/ HandlerAbort(h)
        PROVE  Accounted'
    <2>1. \A k \in Jobs : job'[k].status # "queued" \/ job'[k] = job[k]
      <3>1. CASE ResultMalformed(h)
        <4>1. grant[h.lease] \in Jobs /\ job[grant[h.lease]] \in Row
          BY DEF IInv, TypeOK, LeaseBook, Handler
        <4>2. \A row \in Row : [row EXCEPT !.lease = NoLease, !.status = "failed",
                                           !.by = h.lease].status = "failed"
          BY DEF Row
        <4>3. job' = [job EXCEPT ![grant[h.lease]] =
                        [job[grant[h.lease]] EXCEPT !.lease = NoLease, !.status = "failed",
                                                    !.by = h.lease]]
          BY <3>1 DEF ResultMalformed
        <4>4. QED
          BY <4>1, <4>2, <4>3 DEF IInv, TypeOK
      <3>2. CASE ResultWrite(h) \/ HandlerAbort(h)
        BY <3>2 DEF ResultWrite, HandlerAbort
      <3>3. QED
        BY <1>4, <3>1, <3>2
    <2>2. retried' = retried /\ grant' = grant
      BY <1>4 DEF ResultWrite, ResultMalformed, HandlerAbort
    <2>3. QED
      BY <2>1, <2>2, AccountKept DEF IInv, TypeOK
  <1>5. ASSUME NEW h \in handler, NEW decision, ResultCommit(h, decision)
        PROVE  Accounted'
    <2>1. \A k \in Jobs : job'[k].status # "queued" \/ job'[k] = job[k]
      BY <1>5, WithResultRow DEF ResultCommit, IInv, TypeOK, LeaseBook, Handler
    <2>2. retried' = retried /\ grant' = grant
      BY <1>5 DEF ResultCommit
    <2>3. QED
      BY <2>1, <2>2, AccountKept DEF IInv, TypeOK
  <1>6. ASSUME NEW w \in Workers, ClaimNothing(w) \/ Heartbeat(w) \/ Submit(w) \/ GatewayError(w) \/ WorkerDrop(w)
        PROVE  Accounted'
    <2>1. \A k \in Jobs : job'[k].status = job[k].status
      <3>1. CASE Heartbeat(w)
        BY <3>1, HeldLease DEF Heartbeat, IInv, TypeOK, Row
      <3>2. CASE ~Heartbeat(w)
        BY <1>6, <3>2 DEF ClaimNothing, Submit, ResultRead, ResultRefused, FailureRead,
           FailureLeaseLost, GatewayError, WorkerDrop
      <3>3. QED
        BY <3>1, <3>2
    <2>2. retried' = retried /\ grant' = grant
      BY <1>6 DEF ClaimNothing, Heartbeat, Submit, ResultRead, ResultRefused, FailureRead,
         FailureLeaseLost, GatewayError, WorkerDrop
    <2>3. QED
      BY <2>1, <2>2, AccountKept DEF IInv, TypeOK
  <1>7. ASSUME NEW j \in Jobs, Expire(j) \/ Decide(j)
        PROVE  Accounted'
    <2>1. \A k \in Jobs : job'[k].status = job[k].status
      <3>1. CASE Expire(j)
        BY <3>1 DEF Expire, IInv, TypeOK, Row
      <3>2. CASE Decide(j)
        BY <3>2 DEF Decide, DecideRead, DecideCommit, IInv, TypeOK, Row
      <3>3. QED
        BY <1>7, <3>1, <3>2
    <2>2. retried' = retried /\ grant' = grant
      BY <1>7 DEF Expire, Decide, DecideRead, DecideCommit
    <2>3. QED
      BY <2>1, <2>2, AccountKept DEF IInv, TypeOK
  <1>8. CASE UNCHANGED vars
    BY <1>8, AccountKept DEF vars, IInv, TypeOK
  <1>9. QED
    BY <1>1, <1>2, <1>3, <1>4, <1>5, <1>6, <1>7, <1>8, ClaimAccounted DEF Next, Poll, Commit

\* At first no lease is granted.
LEMMA InitAccounted == Init => Accounted
  <1> SUFFICES ASSUME Init, NEW j \in Jobs
               PROVE  Executions(j) <= retried[j] + (IF job[j].status = "queued" THEN 0 ELSE 1)
    BY DEF Accounted
  <1>1. {l \in Leases : grant[l] = j} = {}
    BY DEF Init, NoLease
  <1>2. Cardinality({}) = 0
    BY FS_EmptySet
  <1>3. Executions(j) = 0
    BY <1>1, <1>2 DEF Executions
  <1>4. QED
    BY <1>3 DEF Init

\* The rows of the queue for any number of jobs, workers and organizations
\* and any retry limit, whatever late submissions do: owner-gated jobs never
\* run, the history covers retry_count and every execution, and an answered
\* job has its result file.
THEOREM QueueSafety == Spec => []RowsAreSound
  <1>1. IInv /\ Accounted => RowsAreSound
    <2> SUFFICES ASSUME IInv, Accounted, NEW j \in Jobs PROVE Executions(j) <= retried[j] + 1
      BY DEF IInv, RowsAreSound, HistoryCoversExecutions
    <2>1. Executions(j) \in Nat /\ retried[j] \in Nat
      BY ExecutionsType DEF IInv, TypeOK
    <2>2. QED
      BY <2>1 DEF Accounted
  <1>2. IInv /\ Accounted /\ [Next]_vars => Accounted'
    BY NextAccounted
  <1>3. QED
    BY InitIInv, NextIInv, InitAccounted, <1>1, <1>2, PTL DEF Spec

\* recover_stale can get hold of every running job, for any number of jobs
\* and workers: no late submission leaves one without lease or heartbeat.
THEOREM RunningStaysRecoverable == Spec => []RunningIsRecoverable
  <1>1. IInv => RunningIsRecoverable
    BY DEF IInv
  <1>2. QED
    BY InitIInv, NextIInv, <1>1, PTL DEF Spec

\* A settled job with no submission in flight keeps its status in every step.
LEMMA NextSettled ==
    ASSUME IInv, [Next]_vars, NEW j \in Jobs, job[j].status \in Settled,
           \A h \in handler : grant[h.lease] # j
    PROVE  job'[j].status = job[j].status
  <1> USE DEF Settled, Terminal
  <1>1. ASSUME NEW k \in Jobs, NEW r \in Requests, Create(k, r)
        PROVE  job'[j].status = job[j].status
    BY <1>1 DEF IInv, TypeOK, CreatesSound, Create, CreateRead, CreateCommit, CreateAbort
  <1>2. ASSUME NEW w \in Workers, Poll(w)
        PROVE  job'[j].status = job[j].status
    BY <1>2 DEF IInv, TypeOK, Poll, RecoverStale, Stale, ClaimNothing, ClaimNext, Claimable
  <1>3. ASSUME NEW w \in Workers, Heartbeat(w)
        PROVE  job'[j].status = job[j].status
    <2>1. Holds(w) /\ grant[worker[w].lease] \in Jobs
      BY <1>3, HeldLease DEF Heartbeat
    <2>2. grant[worker[w].lease] # j /\ job' = [job EXCEPT ![grant[worker[w].lease]].hb = "fresh"]
      BY <1>3 DEF Heartbeat, OwnsLease
    <2>3. QED
      BY <2>1, <2>2 DEF IInv, TypeOK
  <1>4. ASSUME NEW h \in handler, Commit(h)
        PROVE  job'[j].status = job[j].status
    BY <1>4 DEF IInv, TypeOK, Commit, ResultWrite, ResultCommit, ResultMalformed, FailureCommit
  <1>5. ASSUME NEW k \in Jobs, Expire(k) \/ Decide(k)
        PROVE  job'[j].status = job[j].status
    <2>1. CASE Expire(k)
      BY <2>1 DEF IInv, TypeOK, Expire
    <2>2. ASSUME NEW approve \in BOOLEAN, DecideRead(k, approve)
          PROVE  job'[j].status = job[j].status
      BY <2>2 DEF DecideRead
    <2>3. ASSUME NEW approve \in BOOLEAN, DecideCommit(k, approve)
          PROVE  job'[j].status = job[j].status
      <3>1. \E a : job' = [job EXCEPT ![k].approval = a]
        BY <2>3 DEF DecideCommit
      <3>2. job \in [Jobs -> Row]
        BY DEF IInv, TypeOK
      <3>3. QED
        BY <3>1, <3>2 DEF Row
    <2>4. QED
      BY <1>5, <2>1, <2>2, <2>3 DEF Decide
  <1>6. ASSUME NEW w \in Workers, Submit(w) \/ GatewayError(w) \/ WorkerDrop(w)
        PROVE  job'[j].status = job[j].status
    BY <1>6 DEF Submit, ResultRead, ResultRefused, FailureRead, FailureLeaseLost, GatewayError,
       WorkerDrop
  <1>7. ASSUME NEW h \in handler, HandlerAbort(h)
        PROVE  job'[j].status = job[j].status
    BY <1>7 DEF HandlerAbort
  <1>8. CASE UNCHANGED vars
    BY <1>8 DEF vars
  <1>9. QED
    BY <1>1, <1>2, <1>3, <1>4, <1>5, <1>6, <1>7, <1>8 DEF Next

\* No step after the last late submission changes a settled job: the only
\* writes that can are those of submit_result and submit_failure calls that
\* had passed their lease check before.
THEOREM SettledFinal == Spec => SettledIsFinal
  <1>1. IInv /\ [Next]_vars =>
          [\A j \in Jobs :
             /\ job[j].status \in Settled
             /\ \A h \in handler : grant[h.lease] # j
             => job'[j].status = job[j].status]_vars
    BY NextSettled
  <1>2. QED
    BY InitIInv, NextIInv, <1>1, PTL DEF Spec, SettledIsFinal


-----------------------------------------------------------------------------
(* How often a job is executed.                                            *)

\* The executions of a job form a tree in which each has at most two children:
\* the one after the sweep took its lease and the one its own late failure report
\* led to.  The nodes are the nonempty subsets of 0..RetryLimit, a node at level
\* n, the retry_count its execution started with, being one whose largest element
\* is n.
Level(t, n) == n \in t /\ t \subseteq 0..n

\* The two children of a node at level n, and the node that one at level n is under.
Swept(t, n) == (t \ {n}) \cup {n + 1}
Reported(t, n) == t \cup {n + 1}
Parent(t, n) == (t \ {n}) \cup {n - 1}

\* A node at level n whose place in the tree is reached through executions G.
Placed(f, G, t, n) == Level(t, n) /\ (n # 0 => \E x \in G : f[x] = Parent(t, n))

\* f gives each lease in G its node and leaves the ones still to be used free: the
\* children of a running execution, the child each failure report in F leads to,
\* and the node of the next execution when the job is queued.
Tree(f, G, F, row) ==
    /\ \A x, y \in G : f[x] = f[y] => x = y
    /\ \A x \in G : \E n \in 0..RetryLimit : Placed(f, G, f[x], n)
    /\ \A h \in F : /\ h.lease \in G /\ Level(f[h.lease], h.retry)
                    /\ \A x \in G : f[x] # Reported(f[h.lease], h.retry)
    /\ row.status = "running" =>
         /\ row.lease \in G /\ Level(f[row.lease], row.retry)
         /\ \A x \in G : /\ f[x] # Swept(f[row.lease], row.retry)
                         /\ f[x] # Reported(f[row.lease], row.retry)
    /\ row.status = "queued" =>
         \E t \in SUBSET (0..RetryLimit) :
             /\ Placed(f, G, t, row.retry)
             /\ \A x \in G : f[x] # t
             /\ \A h \in F : t # Reported(f[h.lease], h.retry)

Granted(j) == {l \in Leases : grant[l] = j}
Reports(j) == {h \in handler : h.kind = "failure" /\ grant[h.lease] = j}

Explained(j) ==
    \E f \in [Leases -> SUBSET (0..RetryLimit)] : Tree(f, Granted(j), Reports(j), job[j])

\* A lease is held by one worker, which reports at most one failure on it.
ReportsOnce ==
    /\ \A v, w \in Workers : worker[v].lease = worker[w].lease /\ worker[v].lease # NoLease => v = w
    /\ \A g, h \in handler : g.kind = "failure" /\ h.kind = "failure" /\ g.lease = h.lease => g = h
    /\ \A h \in handler, w \in Workers :
         h.kind = "failure" /\ worker[w].lease = h.lease =>
             worker[w].stage \notin {"inferring", "result", "refused"}

TreeInv == ReportsOnce /\ \A j \in Jobs : Explained(j)

\* A node is at one level.
LEMMA OneLevel ==
    ASSUME NEW t, NEW m \in Nat, NEW n \in Nat, Level(t, m), Level(t, n)
    PROVE  m = n
  <1>1. m \in 0..n /\ n \in 0..m
    BY DEF Level
  <1>2. QED
    BY <1>1

\* The children of a node are two nodes one level below it.
LEMMA Children ==
    ASSUME NEW t, NEW n \in Nat, Level(t, n)
    PROVE  /\ Level(Swept(t, n), n + 1) /\ Parent(Swept(t, n), n + 1) = t
           /\ Level(Reported(t, n), n + 1) /\ Parent(Reported(t, n), n + 1) = t
           /\ n \notin Swept(t, n) /\ n \in Reported(t, n)
           /\ t # Swept(t, n) /\ t # Reported(t, n)
  <1>1. n \in t /\ n + 1 \notin t /\ n # n + 1 /\ (n + 1) - 1 = n
    BY DEF Level
  <1>2. t \subseteq 0..(n + 1) /\ n + 1 \in 0..(n + 1)
    BY DEF Level
  <1>3. Level(Swept(t, n), n + 1) /\ Level(Reported(t, n), n + 1)
    BY <1>2 DEF Level, Swept, Reported
  <1>4. Parent(Swept(t, n), n + 1) = t /\ Parent(Reported(t, n), n + 1) = t
    BY <1>1 DEF Parent, Swept, Reported
  <1>5. n \notin Swept(t, n) /\ n \in Reported(t, n) /\ t # Swept(t, n) /\ t # Reported(t, n)
    BY <1>1 DEF Swept, Reported
  <1>6. QED
    BY <1>3, <1>4, <1>5

\* Two reports lead to one node only from one node.
LEMMA ReportedApart ==
    ASSUME NEW s, NEW t, NEW m \in Nat, NEW n \in Nat, Level(s, m), Level(t, n),
           Reported(s, m) = Reported(t, n)
    PROVE  s = t
  <1>1. Level(Reported(s, m), m + 1) /\ Level(Reported(t, n), n + 1)
    BY Children
  <1>2. m + 1 = n + 1
    BY <1>1, OneLevel
  <1>3. m = n
    BY <1>2
  <1>4. Parent(Reported(s, m), m + 1) = s /\ Parent(Reported(t, n), n + 1) = t
    BY Children
  <1>5. QED
    BY <1>3, <1>4

\* A node that no execution has got has no child that one has got.
LEMMA NoChildWithoutParent ==
    ASSUME NEW f, NEW G, \A x \in G : \E n \in 0..RetryLimit : Placed(f, G, f[x], n),
           NEW t, NEW n \in Nat, Level(t, n), \A x \in G : f[x] # t,
           NEW y \in G
    PROVE  f[y] # Swept(t, n) /\ f[y] # Reported(t, n)
  <1>1. SUFFICES ASSUME NEW s, s = f[y], Level(s, n + 1), Parent(s, n + 1) = t
                 PROVE  FALSE
    BY Children
  <1>2. PICK k \in 0..RetryLimit : Placed(f, G, f[y], k)
    OBVIOUS
  <1>3. k \in Nat /\ n + 1 \in Nat /\ n + 1 # 0 /\ Level(s, k)
    BY <1>1, <1>2 DEF Placed
  <1>4. k = n + 1
    BY <1>1, <1>3, OneLevel
  <1>5. \E x \in G : f[x] = Parent(s, n + 1)
    BY <1>1, <1>2, <1>3, <1>4 DEF Placed
  <1>6. QED
    BY <1>1, <1>5

\* A row that neither waits nor runs, or one that stays as it is, needs no more
\* nodes, and fewer reports need fewer.
LEMMA TreeShrinks ==
    ASSUME NEW f, NEW G, NEW F, NEW E, E \subseteq F, NEW row, NEW new, Tree(f, G, F, row),
           \/ new.status \notin {"queued", "running"}
           \/ /\ new.status = row.status /\ new.lease = row.lease /\ new.retry = row.retry
    PROVE  Tree(f, G, E, new)
  BY DEF Tree

\* A job that is created waits for its first execution.
LEMMA TreeStarts ==
    ASSUME NEW f, NEW row, row.status = "queued", row.retry = 0
    PROVE  Tree(f, {}, {}, row)
  <1>1. {0} \in SUBSET (0..RetryLimit) /\ Placed(f, {}, {0}, 0)
    BY DEF Placed, Level
  <1>2. QED
    BY <1>1 DEF Tree

\* The sweep puts a running job in the queue: its next execution is the child that
\* the sweep leads to.
LEMMA TreeSwept ==
    ASSUME NEW f, NEW G, NEW F, F \subseteq Handler, NEW row \in Row, NEW new,
           Tree(f, G, F, row), row.status = "running", row.retry < RetryLimit,
           new.status = "queued", new.retry = row.retry + 1
    PROVE  Tree(f, G, F, new)
  <1>1. PICK n, l : n = row.retry /\ l = row.lease
    OBVIOUS
  <1>2. n \in Nat /\ n + 1 \in 0..RetryLimit
    BY <1>1 DEF Row
  <1>3. l \in G /\ Level(f[l], n) /\ \A x \in G : f[x] # Swept(f[l], n)
    BY <1>1 DEF Tree
  <1>4. PICK t : t = Swept(f[l], n)
    OBVIOUS
  <1>5. Level(t, n + 1) /\ Parent(t, n + 1) = f[l] /\ n \notin t
    BY <1>2, <1>3, <1>4, Children
  <1>6. Placed(f, G, t, n + 1)
    BY <1>3, <1>5 DEF Placed
  <1>7. t \in SUBSET (0..RetryLimit)
    BY <1>2, <1>5 DEF Level
  <1>8. ASSUME NEW h \in F PROVE t # Reported(f[h.lease], h.retry)
    <2>1. SUFFICES ASSUME t = Reported(f[h.lease], h.retry) PROVE FALSE
      OBVIOUS
    <2>2. h.retry \in Nat /\ Level(f[h.lease], h.retry)
      BY DEF Tree, Handler
    <2>3. Level(t, h.retry + 1) /\ h.retry \in t
      BY <2>1, <2>2, Children
    <2>4. h.retry + 1 = n + 1
      BY <1>2, <1>5, <2>2, <2>3, OneLevel
    <2>5. h.retry = n
      BY <1>2, <2>2, <2>4
    <2>6. QED
      BY <1>5, <2>3, <2>5
  <1>9. \A x \in G : f[x] # t
    BY <1>3, <1>4
  <1>10. new.status = "queued" /\ new.retry = n + 1
    BY <1>1
  <1>11. \E u \in SUBSET (0..RetryLimit) : /\ Placed(f, G, u, new.retry)
                                           /\ \A x \in G : f[x] # u
                                           /\ \A h \in F : u # Reported(f[h.lease], h.retry)
    BY <1>6, <1>7, <1>8, <1>9, <1>10
  <1>12. QED
    BY <1>10, <1>11 DEF Tree

\* A failure report on a running lease keeps the child it will lead to free.
LEMMA TreeReports ==
    ASSUME NEW f, NEW G, NEW F, NEW h, NEW row, Tree(f, G, F, row),
           row.status = "running", h.lease = row.lease, h.retry = row.retry
    PROVE  Tree(f, G, F \cup {h}, row)
  BY DEF Tree

\* A late failure report queues the job again, whatever the row has become: the
\* next execution is the child kept free for it.
LEMMA TreeRequeued ==
    ASSUME NEW f \in [Leases -> SUBSET (0..RetryLimit)], NEW G, NEW F, F \subseteq Handler,
           NEW h \in F, \A g \in F : g.lease = h.lease => g = h,
           NEW row, NEW new, Tree(f, G, F, row), h.retry < RetryLimit,
           new.status = "queued", new.retry = h.retry + 1
    PROVE  Tree(f, G, F \ {h}, new)
  <1>1. PICK n, l : n = h.retry /\ l = h.lease
    OBVIOUS
  <1>2. n \in Nat /\ n + 1 \in 0..RetryLimit
    BY <1>1 DEF Handler
  <1>3. l \in G /\ Level(f[l], n) /\ \A x \in G : f[x] # Reported(f[l], n)
    BY <1>1 DEF Tree
  <1>4. PICK t : t = Reported(f[l], n)
    OBVIOUS
  <1>5. Level(t, n + 1) /\ Parent(t, n + 1) = f[l]
    BY <1>2, <1>3, <1>4, Children
  <1>6. Placed(f, G, t, n + 1)
    BY <1>3, <1>5 DEF Placed
  <1>7. t \in SUBSET (0..RetryLimit)
    BY <1>2, <1>5 DEF Level
  <1>8. ASSUME NEW g \in F \ {h} PROVE t # Reported(f[g.lease], g.retry)
    <2>1. SUFFICES ASSUME t = Reported(f[g.lease], g.retry) PROVE FALSE
      OBVIOUS
    <2>2. g.lease \in G /\ g.retry \in Nat /\ Level(f[g.lease], g.retry)
      BY DEF Tree, Handler
    <2>3. f[g.lease] = f[l]
      BY <1>2, <1>3, <1>4, <2>1, <2>2, ReportedApart
    <2>4. g.lease = l
      BY <1>3, <2>2, <2>3 DEF Tree
    <2>5. QED
      BY <1>1, <2>4
  <1>9. \A x \in G : f[x] # t
    BY <1>3, <1>4
  <1>10. new.status = "queued" /\ new.retry = n + 1
    BY <1>1
  <1>11. \E u \in SUBSET (0..RetryLimit) :
            /\ Placed(f, G, u, new.retry)
            /\ \A x \in G : f[x] # u
            /\ \A g \in F \ {h} : u # Reported(f[g.lease], g.retry)
    BY <1>6, <1>7, <1>8, <1>9, <1>10
  <1>12. QED
    BY <1>10, <1>11 DEF Tree

\* A claim gives the new lease the node that was free for it.
LEMMA TreeClaimed ==
    ASSUME NEW f \in [Leases -> SUBSET (0..RetryLimit)], NEW G, NEW F, F \subseteq Handler,
           NEW l \in Leases \ G, NEW row \in Row, NEW new, Tree(f, G, F, row),
           row.status = "queued",
           new.status = "running", new.lease = l, new.retry = row.retry
    PROVE  \E e \in [Leases -> SUBSET (0..RetryLimit)] : Tree(e, G \cup {l}, F, new)
  <1>1. PICK n : n = row.retry
    OBVIOUS
  <1>2. n \in 0..RetryLimit /\ n \in Nat
    BY <1>1 DEF Row
  <1>3. PICK t \in SUBSET (0..RetryLimit) :
          /\ Placed(f, G, t, n)
          /\ \A x \in G : f[x] # t
          /\ \A h \in F : t # Reported(f[h.lease], h.retry)
    BY <1>1 DEF Tree
  <1>4. PICK e : e = [f EXCEPT ![l] = t]
    OBVIOUS
  <1>5. /\ e \in [Leases -> SUBSET (0..RetryLimit)]
        /\ e[l] = t /\ \A x \in G : e[x] = f[x]
    BY <1>4
  <1>6. Level(t, n)
    BY <1>3 DEF Placed
  <1>7. \A x, y \in G \cup {l} : e[x] = e[y] => x = y
    BY <1>3, <1>5 DEF Tree
  <1>8. \A s, k : Placed(f, G, s, k) => Placed(e, G \cup {l}, s, k)
    BY <1>5 DEF Placed
  <1>9. \A x \in G \cup {l} : \E k \in 0..RetryLimit : Placed(e, G \cup {l}, e[x], k)
    <2>1. ASSUME NEW x \in G PROVE \E k \in 0..RetryLimit : Placed(e, G \cup {l}, e[x], k)
      <3>1. PICK k \in 0..RetryLimit : Placed(f, G, f[x], k)
        BY DEF Tree
      <3>2. QED
        BY <3>1, <1>5, <1>8
    <2>2. Placed(e, G \cup {l}, e[l], n)
      BY <1>3, <1>5, <1>8
    <2>3. QED
      BY <2>1, <2>2, <1>2
  <1>10. ASSUME NEW h \in F
         PROVE  /\ h.lease \in G \cup {l} /\ Level(e[h.lease], h.retry)
                /\ \A x \in G \cup {l} : e[x] # Reported(e[h.lease], h.retry)
    <2>1. /\ h.lease \in G /\ Level(f[h.lease], h.retry)
          /\ \A x \in G : f[x] # Reported(f[h.lease], h.retry)
      BY DEF Tree
    <2>2. QED
      BY <2>1, <1>3, <1>5
  <1>11. ASSUME NEW x \in G \cup {l} PROVE e[x] # Swept(t, n) /\ e[x] # Reported(t, n)
    <2>1. CASE x = l
      BY <2>1, <1>2, <1>5, <1>6, Children
    <2>2. CASE x \in G
      <3>1. \A y \in G : \E k \in 0..RetryLimit : Placed(f, G, f[y], k)
        BY DEF Tree
      <3>2. f[x] # Swept(t, n) /\ f[x] # Reported(t, n)
        BY <3>1, <2>2, <1>2, <1>3, <1>6, NoChildWithoutParent
      <3>3. QED
        BY <3>2, <2>2, <1>5
    <2>3. QED
      BY <2>1, <2>2
  <1>12. new.status = "running" /\ new.lease = l /\ new.retry = n
    BY <1>1
  <1>13. Tree(e, G \cup {l}, F, new)
    BY <1>5, <1>6, <1>7, <1>9, <1>10, <1>11, <1>12 DEF Tree
  <1>14. QED
    BY <1>5, <1>13

\* There are fewer than 2 ^ (RetryLimit + 1) nodes.
LEMMA TreeIsBounded ==
    ASSUME NEW f \in [Leases -> SUBSET (0..RetryLimit)], NEW G, G \subseteq Leases,
           NEW F, NEW row, Tree(f, G, F, row)
    PROVE  Cardinality(G) < 2 ^ (RetryLimit + 1)
  <1> DEFINE S == SUBSET (0..RetryLimit)
  <1>1. IsFiniteSet(0..RetryLimit) /\ Cardinality(0..RetryLimit) = RetryLimit + 1
    BY FS_Interval
  <1>2. IsFiniteSet(S) /\ Cardinality(S) = 2 ^ (RetryLimit + 1)
    BY <1>1, FS_SUBSET
  <1>3. {} \in S
    OBVIOUS
  <1> HIDE DEF S
  <1>4. /\ IsFiniteSet(S \ {{}}) /\ Cardinality(S \ {{}}) = Cardinality(S) - 1
        /\ Cardinality(S) \in Nat
    BY <1>2, <1>3, FS_RemoveElement, FS_CardinalityType
  <1>5. PICK e : e = [x \in G |-> f[x]]
    OBVIOUS
  <1>6. \A x \in G : f[x] \in S /\ f[x] # {}
    BY DEF Tree, Placed, Level, S
  <1>7. e \in Injection(G, S \ {{}})
    <2>1. e \in [G -> S \ {{}}]
      BY <1>5, <1>6
    <2>2. \A x, y \in G : e[x] = e[y] => x = y
      BY <1>5 DEF Tree
    <2>3. QED
      BY <2>1, <2>2 DEF Injection, IsInjective
  <1>8. IsFiniteSet(G) /\ Cardinality(G) <= Cardinality(S \ {{}})
    BY <1>4, <1>7, FS_Injection
  <1>9. Cardinality(G) \in Nat
    BY <1>8, FS_CardinalityType
  <1>10. Cardinality(G) < Cardinality(S)
    BY <1>4, <1>8, <1>9
  <1>11. QED
    BY <1>2, <1>10

\* A step that grants nothing and takes no failure report in keeps every job's
\* tree when the rows it changes neither wait nor run afterwards.
LEMMA QuietKeepsTree ==
    ASSUME NEW j \in Jobs, Explained(j), grant' = grant,
           \A h \in handler' : h.kind = "failure" => h \in handler,
           \/ job'[j].status \notin {"queued", "running"}
           \/ /\ job'[j].status = job[j].status /\ job'[j].lease = job[j].lease
              /\ job'[j].retry = job[j].retry
    PROVE  Explained(j)'
  <1>1. PICK f \in [Leases -> SUBSET (0..RetryLimit)] : Tree(f, Granted(j), Reports(j), job[j])
    BY DEF Explained
  <1>2. PICK G, F, E, row, new : /\ G = Granted(j) /\ F = Reports(j) /\ E = Reports(j)'
                                 /\ row = job[j] /\ new = job'[j]
    OBVIOUS
  <1>3. Granted(j)' = G /\ E \subseteq F
    BY <1>2 DEF Granted, Reports
  <1>4. Tree(f, G, E, new)
    BY <1>1, <1>2, <1>3, TreeShrinks
  <1>5. Tree(f, Granted(j)', Reports(j)', job'[j])
    BY <1>2, <1>3, <1>4
  <1>6. QED
    BY <1>5 DEF Explained

\* create_job: nothing was granted on the row before.
LEMMA CreateKeepsTree ==
    ASSUME IInv, TreeInv, NEW j \in Jobs, NEW r \in Requests, Create(j, r), NEW k \in Jobs
    PROVE  Explained(k)'
  <1>1. CASE job'[k] = job[k]
    BY <1>1, QuietKeepsTree DEF TreeInv, Create, CreateRead, CreateCommit, CreateAbort
  <1>2. CASE job'[k] # job[k]
    <2>1. /\ CreateCommit(j, r) /\ k = j /\ job[j].status = "absent"
      BY <1>2 DEF Create, CreateRead, CreateCommit, CreateAbort, IInv, TypeOK, CreatesSound
    <2>2. job'[j].status # "queued" => job'[j].status \notin {"queued", "running"}
      BY <2>1 DEF CreateCommit, IInv, TypeOK, Absent
    <2>3. CASE job'[j].status # "queued"
      BY <2>1, <2>2, <2>3, QuietKeepsTree DEF TreeInv, CreateCommit
    <2>4. CASE job'[j].status = "queued"
      <3>1. job'[j].retry = 0
        BY <2>1 DEF CreateCommit, IInv, TypeOK, Absent
      <3>2. \A l \in Leases : grant[l] # j
        BY <2>1 DEF IInv, LeaseBook, TypeOK, Leases, NoLease
      <3>3. Granted(j) = {} /\ Reports(j) = {}
        BY <3>2 DEF Granted, Reports, IInv, TypeOK, Handler
      <3>4. Granted(j)' = {} /\ Reports(j)' = {}
        BY <3>3, <2>1 DEF CreateCommit, Granted, Reports
      <3>5. PICK f : f = [l \in Leases |-> {}]
        OBVIOUS
      <3>6. PICK new : new = job'[j]
        OBVIOUS
      <3>7. f \in [Leases -> SUBSET (0..RetryLimit)] /\ Tree(f, {}, {}, new)
        BY <2>4, <3>1, <3>5, <3>6, TreeStarts
      <3>8. Tree(f, Granted(j)', Reports(j)', job'[j])
        BY <3>4, <3>6, <3>7
      <3>9. QED
        BY <2>1, <3>7, <3>8 DEF Explained
    <2>5. QED
      BY <2>3, <2>4
  <1>3. QED
    BY <1>1, <1>2

\* recover_stale, over every row.
LEMMA SweepKeepsTree ==
    ASSUME IInv, TreeInv, NEW w \in Workers, RecoverStale(w), NEW j \in Jobs
    PROVE  Explained(j)'
  <1>1. job[j] \in Row /\ job'[j] = IF Stale(j) THEN Recovered(job[j]) ELSE job[j]
    BY DEF IInv, TypeOK, RecoverStale
  <1>2. grant' = grant /\ handler' = handler
    BY DEF RecoverStale
  <1>3. CASE ~Stale(j)
    BY <1>1, <1>2, <1>3, QuietKeepsTree DEF TreeInv
  <1>4. CASE Stale(j) /\ ~(job[j].retry < RetryLimit)
    <2>1. job'[j].status = "timed_out"
      BY <1>1, <1>4 DEF Recovered, Row
    <2>2. QED
      BY <2>1, <1>2, QuietKeepsTree DEF TreeInv
  <1>5. CASE Stale(j) /\ job[j].retry < RetryLimit
    <2>1. PICK row, new : row = job[j] /\ new = job'[j]
      OBVIOUS
    <2>2. new.status = "queued" /\ new.retry = row.retry + 1 /\ row.status = "running"
      BY <2>1, <1>1, <1>5 DEF Recovered, Row, Stale
    <2>3. PICK f \in [Leases -> SUBSET (0..RetryLimit)] : Tree(f, Granted(j), Reports(j), job[j])
      BY DEF TreeInv, Explained
    <2>4. PICK G, F : G = Granted(j) /\ F = Reports(j)
      OBVIOUS
    <2>5. G = Granted(j)' /\ F = Reports(j)' /\ F \subseteq Handler
      BY <2>4, <1>2 DEF Granted, Reports, IInv, TypeOK
    <2>6. Tree(f, G, F, new)
      BY <2>1, <2>2, <2>3, <2>4, <2>5, <1>1, <1>5, TreeSwept
    <2>7. Tree(f, Granted(j)', Reports(j)', job'[j])
      BY <2>1, <2>5, <2>6
    <2>8. QED
      BY <2>7 DEF Explained
  <1>6. QED
    BY <1>3, <1>4, <1>5

\* claim_next: one more execution of one job.
LEMMA ClaimKeepsTree ==
    ASSUME IInv, TreeInv, NEW w \in Workers, NEW k \in Jobs, ClaimNext(w, k), NEW j \in Jobs
    PROVE  Explained(j)'
  <1>1. PICK l : l = nextLease
    OBVIOUS
  <1>2. /\ l \in Leases /\ grant[l] = NoLease /\ NoLease \notin Jobs
        /\ grant' = [grant EXCEPT ![l] = k] /\ handler' = handler
        /\ job' = [job EXCEPT ![k] = Claimed(job[k], l)]
    BY <1>1 DEF ClaimNext, IInv, TypeOK, LeaseBook, Leases, NoLease
  <1>3. \A h \in handler : h.lease \in Leases /\ h.lease # l /\ h \in Handler
    BY <1>1, <1>2 DEF IInv, TypeOK, LeaseBook, Handler, Leases
  <1>4. Reports(j)' = Reports(j)
    BY <1>2, <1>3 DEF Reports, IInv, TypeOK
  <1>5. PICK f \in [Leases -> SUBSET (0..RetryLimit)] : Tree(f, Granted(j), Reports(j), job[j])
    BY DEF TreeInv, Explained
  <1>6. CASE j # k
    <2>1. Granted(j)' = Granted(j) /\ job'[j] = job[j]
      BY <1>2, <1>6 DEF Granted, IInv, TypeOK
    <2>2. Tree(f, Granted(j)', Reports(j)', job'[j])
      BY <1>4, <1>5, <2>1
    <2>3. QED
      BY <2>2 DEF Explained
  <1>7. CASE j = k
    <2>1. Granted(j)' = Granted(j) \cup {l} /\ l \notin Granted(j)
      BY <1>2, <1>7 DEF Granted, IInv, TypeOK
    <2>2. PICK G, F, row, new : G = Granted(j) /\ F = Reports(j) /\ row = job[j] /\ new = job'[j]
      OBVIOUS
    <2>3. row \in Row /\ F \subseteq Handler /\ l \in Leases \ G
      BY <1>2, <2>1, <2>2 DEF IInv, TypeOK, Reports
    <2>4. new = Claimed(row, l)
      BY <1>2, <1>7, <2>2 DEF IInv, TypeOK
    <2>5. new.status = "running" /\ new.lease = l /\ new.retry = row.retry
      BY <2>3, <2>4, ClaimedRow
    <2>6. row.status = "queued"
      BY <1>7, <2>2 DEF ClaimNext, Claimable
    <2>7. PICK e \in [Leases -> SUBSET (0..RetryLimit)] : Tree(e, G \cup {l}, F, new)
      BY <1>5, <2>2, <2>3, <2>5, <2>6, TreeClaimed
    <2>8. Tree(e, Granted(j)', Reports(j)', job'[j])
      BY <1>4, <2>1, <2>2, <2>7
    <2>9. QED
      BY <2>8 DEF Explained
  <1>8. QED
    BY <1>6, <1>7

\* submit_failure, up to its commit.
LEMMA FailureReadKeepsTree ==
    ASSUME IInv, TreeInv, NEW w \in Workers, NEW b \in BOOLEAN, FailureRead(w, b), NEW j \in Jobs
    PROVE  Explained(j)'
  <1>1. PICK l : l = worker[w].lease
    OBVIOUS
  <1>2. PICK k : k = grant[l]
    OBVIOUS
  <1>3. PICK h : h = [lease |-> l, kind |-> "failure", retry |-> job[k].retry,
                      approval |-> job[k].approval, retryable |-> b, wrote |-> FALSE]
    OBVIOUS
  <1>4. /\ handler' = handler \cup {h} /\ grant' = grant /\ job' = job
        /\ job[k].status = "running" /\ job[k].lease = l
    BY <1>1, <1>2, <1>3 DEF FailureRead, OwnsLease
  <1>5. h.lease = l /\ h.retry = job[k].retry /\ h.kind = "failure"
    BY <1>3
  <1>6. PICK f \in [Leases -> SUBSET (0..RetryLimit)] : Tree(f, Granted(j), Reports(j), job[j])
    BY DEF TreeInv, Explained
  <1>7. CASE j # k
    <2>1. Reports(j)' = Reports(j) /\ Granted(j)' = Granted(j)
      BY <1>2, <1>4, <1>5, <1>7 DEF Reports, Granted
    <2>2. Tree(f, Granted(j)', Reports(j)', job'[j])
      BY <1>4, <1>6, <2>1
    <2>3. QED
      BY <2>2 DEF Explained
  <1>8. CASE j = k
    <2>1. Reports(j)' = Reports(j) \cup {h} /\ Granted(j)' = Granted(j)
      BY <1>2, <1>4, <1>5, <1>8 DEF Reports, Granted
    <2>2. PICK G, F, row : G = Granted(j) /\ F = Reports(j) /\ row = job[j]
      OBVIOUS
    <2>3. Tree(f, G, F \cup {h}, row)
      BY <1>4, <1>5, <1>6, <1>8, <2>2, TreeReports
    <2>4. Tree(f, Granted(j)', Reports(j)', job'[j])
      BY <1>4, <2>1, <2>2, <2>3
    <2>5. QED
      BY <2>4 DEF Explained
  <1>9. QED
    BY <1>7, <1>8

\* submit_failure, at its commit.
LEMMA FailureCommitKeepsTree ==
    ASSUME IInv, TreeInv, NEW h \in handler, FailureCommit(h), NEW j \in Jobs
    PROVE  Explained(j)'
  <1>1. PICK k : k = grant[h.lease]
    OBVIOUS
  <1>2. h \in Handler /\ k \in Jobs /\ job[k] \in Row /\ h.kind = "failure"
    BY <1>1 DEF IInv, TypeOK, LeaseBook, Handler, FailureCommit
  <1>3. /\ handler' = handler \ {h} /\ grant' = grant
        /\ job' = [job EXCEPT ![k] = WithFailure(job[k], h)]
    BY <1>1 DEF FailureCommit
  <1>4. CASE j # k
    <2>1. job'[j] = job[j]
      BY <1>3, <1>4
    <2>2. QED
      BY <1>3, <2>1, QuietKeepsTree DEF TreeInv
  <1>5. CASE j = k /\ ~Retries(h)
    <2>1. job'[j].status = "failed"
      BY <1>2, <1>3, <1>5 DEF IInv, TypeOK, WithFailure, Row
    <2>2. QED
      BY <1>3, <2>1, QuietKeepsTree DEF TreeInv
  <1>6. CASE j = k /\ Retries(h)
    <2>1. job'[j] = WithFailure(job[j], h)
      BY <1>2, <1>3, <1>6 DEF IInv, TypeOK
    <2>2. PICK G, F, row, new : G = Granted(j) /\ F = Reports(j) /\ row = job[j] /\ new = job'[j]
      OBVIOUS
    <2>3. new.status = "queued" /\ new.retry = h.retry + 1
      <3>1. new.status \in {"queued", "failed"} /\ new.retry = h.retry + 1
        BY <1>2, <1>6, <2>1, <2>2, WithFailureRow
      <3>2. new.status # "failed"
        BY <1>2, <1>6, <2>1, <2>2 DEF WithFailure, Row
      <3>3. QED
        BY <3>1, <3>2
    <2>4. h \in F /\ F \subseteq Handler /\ h.retry < RetryLimit
      BY <1>1, <1>2, <1>6, <2>2 DEF Reports, Retries, IInv, TypeOK
    <2>5. \A g \in F : g.lease = h.lease => g = h
      BY <1>2, <2>2 DEF Reports, TreeInv, ReportsOnce
    <2>6. PICK f \in [Leases -> SUBSET (0..RetryLimit)] : Tree(f, Granted(j), Reports(j), job[j])
      BY DEF TreeInv, Explained
    <2>7. Tree(f, G, F \ {h}, new)
      BY <2>2, <2>3, <2>4, <2>5, <2>6, TreeRequeued
    <2>8. Granted(j)' = G /\ Reports(j)' = F \ {h}
      BY <1>3, <2>2 DEF Granted, Reports
    <2>9. Tree(f, Granted(j)', Reports(j)', job'[j])
      BY <2>2, <2>7, <2>8
    <2>10. QED
      BY <2>9 DEF Explained
  <1>7. QED
    BY <1>4, <1>5, <1>6

\* The stages in which a worker may still report a failure.
Reporting == {"inferring", "result", "refused"}

\* A step that takes no failure report in keeps reports apart when no worker gets
\* a lease or comes back to a stage in which it may report.
LEMMA QuietReportsOnce ==
    ASSUME IInv, ReportsOnce,
           \A h \in handler' : h.kind = "failure" => h \in handler,
           \A w \in Workers : \/ worker'[w].lease = NoLease
                              \/ /\ worker'[w].lease = worker[w].lease
                                 /\ worker'[w].stage \in Reporting => worker[w].stage \in Reporting
    PROVE  ReportsOnce'
  <1>1. \A v, w \in Workers :
          worker'[v].lease = worker'[w].lease /\ worker'[v].lease # NoLease => v = w
    BY DEF ReportsOnce
  <1>2. \A g, h \in handler' :
          g.kind = "failure" /\ h.kind = "failure" /\ g.lease = h.lease => g = h
    BY DEF ReportsOnce
  <1>3. ASSUME NEW h \in handler', NEW w \in Workers, h.kind = "failure", worker'[w].lease = h.lease
        PROVE  worker'[w].stage \notin Reporting
    <2>1. h \in handler /\ h.lease # NoLease
      BY <1>3 DEF IInv, TypeOK, Handler, Leases, NoLease
    <2>2. worker[w].stage \notin Reporting
      BY <1>3, <2>1 DEF ReportsOnce, Reporting
    <2>3. QED
      BY <1>3, <2>1, <2>2
  <1>4. QED
    BY <1>1, <1>2, <1>3 DEF ReportsOnce, Reporting

\* claim_next: nobody has the new lease yet.
LEMMA ClaimReportsOnce ==
    ASSUME IInv, ReportsOnce, NEW w \in Workers, NEW k \in Jobs, ClaimNext(w, k)
    PROVE  ReportsOnce'
  <1>1. PICK l : l = nextLease
    OBVIOUS
  <1>2. /\ l \in Leases /\ handler' = handler
        /\ worker' = [worker EXCEPT ![w] = IF job[k].req.org = OrgOf[w]
                                           THEN [stage |-> "inferring", lease |-> l] ELSE Idle]
    BY <1>1 DEF ClaimNext, Leases, IInv, TypeOK
  <1>3. \A v \in Workers : worker[v].lease # l /\ \A h \in handler : h.lease # l
    BY <1>1 DEF IInv, LeaseBook, TypeOK, Handler, Leases, NoLease
  <1>4. CASE job[k].req.org = OrgOf[w]
    <2>1. \A v \in Workers : worker'[v] = IF v = w THEN [stage |-> "inferring", lease |-> l]
                                                   ELSE worker[v]
      BY <1>2, <1>4 DEF IInv, TypeOK
    <2>2. QED
      BY <2>1, <1>2, <1>3 DEF ReportsOnce
  <1>5. CASE job[k].req.org # OrgOf[w]
    <2>1. \A v \in Workers : worker'[v] = IF v = w THEN Idle ELSE worker[v]
      BY <1>2, <1>5 DEF IInv, TypeOK
    <2>2. \A v \in Workers : worker'[v].lease = NoLease \/ worker'[v] = worker[v]
      BY <2>1 DEF Idle
    <2>3. QED
      BY <2>2, <1>2, QuietReportsOnce
  <1>6. QED
    BY <1>4, <1>5

\* submit_failure: its worker waits for the answer from then on.
LEMMA FailureReadReportsOnce ==
    ASSUME IInv, ReportsOnce, NEW w \in Workers, NEW b \in BOOLEAN, FailureRead(w, b)
    PROVE  ReportsOnce'
  <1>1. PICK l : l = worker[w].lease
    OBVIOUS
  <1>2. PICK h : h = [lease |-> l, kind |-> "failure", retry |-> job[grant[l]].retry,
                      approval |-> job[grant[l]].approval, retryable |-> b, wrote |-> FALSE]
    OBVIOUS
  <1>3. /\ handler' = handler \cup {h} /\ worker[w].stage \in {"inferring", "refused"}
        /\ worker' = [worker EXCEPT ![w].stage = "failure"]
    BY <1>1, <1>2 DEF FailureRead
  <1>4. l # NoLease
    BY <1>1, <1>3 DEF IInv, LeaseBook, Holds
  <1>5. /\ \A v \in Workers : worker'[v].lease = worker[v].lease
        /\ \A v \in Workers : worker'[v].stage = IF v = w THEN "failure" ELSE worker[v].stage
    BY <1>3 DEF IInv, TypeOK
  <1>6. h.lease = l /\ \A g \in handler : g.kind = "failure" => g.lease # l
    BY <1>1, <1>2, <1>3 DEF ReportsOnce
  <1>7. \A v \in Workers : worker[v].lease = l => v = w
    BY <1>1, <1>4 DEF ReportsOnce
  <1>8. QED
    BY <1>3, <1>5, <1>6, <1>7 DEF ReportsOnce

\* Every step of the queue keeps the trees.
LEMMA NextTree ==
    ASSUME IInv, TreeInv, [Next]_vars
    PROVE  TreeInv'
  <1> DEFINE Trees == \A j \in Jobs : Explained(j)
  <1> SUFFICES ReportsOnce' /\ Trees'
    BY DEF TreeInv
  <1>0. ReportsOnce /\ Trees
    BY DEF TreeInv
  <1>a. ASSUME grant' = grant,
               \A h \in handler' : h.kind = "failure" => h \in handler,
               \A j \in Jobs : \/ job'[j].status \notin {"queued", "running"}
                               \/ /\ job'[j].status = job[j].status /\ job'[j].lease = job[j].lease
                                  /\ job'[j].retry = job[j].retry
        PROVE  Trees'
    BY <1>a, <1>0, QuietKeepsTree
  <1>b. ASSUME handler' = handler, worker' = worker
        PROVE  ReportsOnce'
    BY <1>b, <1>0 DEF ReportsOnce
  <1> HIDE DEF Trees
  <1>1. ASSUME NEW j \in Jobs, NEW r \in Requests, Create(j, r)
        PROVE  ReportsOnce' /\ Trees'
    <2>1. handler' = handler /\ worker' = worker
      BY <1>1 DEF Create, CreateRead, CreateCommit, CreateAbort
    <2>2. QED
      BY <2>1, <1>1, <1>b, CreateKeepsTree DEF Trees
  <1>2. ASSUME NEW w \in Workers, RecoverStale(w)
        PROVE  ReportsOnce' /\ Trees'
    <2>1. /\ handler' = handler
          /\ \A v \in Workers : /\ worker'[v].lease = worker[v].lease
                                /\ worker'[v].stage \in {worker[v].stage, "claiming"}
      BY <1>2 DEF RecoverStale, IInv, TypeOK
    <2>2. ReportsOnce'
      BY <2>1, <1>0, QuietReportsOnce DEF Reporting
    <2>3. QED
      BY <2>2, <1>2, SweepKeepsTree DEF Trees
  <1>3. ASSUME NEW w \in Workers, NEW k \in Jobs, ClaimNext(w, k)
        PROVE  ReportsOnce' /\ Trees'
    BY <1>0, <1>3, ClaimKeepsTree, ClaimReportsOnce DEF Trees
  <1>4. ASSUME NEW w \in Workers, NEW b \in BOOLEAN, FailureRead(w, b)
        PROVE  ReportsOnce' /\ Trees'
    BY <1>0, <1>4, FailureReadKeepsTree, FailureReadReportsOnce DEF Trees
  <1>5. ASSUME NEW w \in Workers,
               ClaimNothing(w) \/ ResultRead(w) \/ ResultRefused(w) \/ FailureLeaseLost(w)
               \/ GatewayError(w) \/ WorkerDrop(w)
        PROVE  ReportsOnce' /\ Trees'
    <2>1. /\ grant' = grant /\ job' = job
          /\ \A h \in handler' : h.kind = "failure" => h \in handler
      BY <1>5 DEF ClaimNothing, ResultRead, ResultRefused, FailureLeaseLost, GatewayError, WorkerDrop
    <2>2. \A v \in Workers : \/ worker'[v].lease = NoLease
                             \/ /\ worker'[v].lease = worker[v].lease
                                /\ worker'[v].stage \in Reporting => worker[v].stage \in Reporting
      BY <1>5 DEF ClaimNothing, ResultRead, ResultRefused, FailureLeaseLost, GatewayError,
         WorkerDrop, IInv, TypeOK, Idle, Reporting
    <2>3. QED
      BY <2>1, <2>2, <1>0, <1>a, QuietReportsOnce
  <1>6. ASSUME NEW h \in handler, FailureCommit(h)
        PROVE  ReportsOnce' /\ Trees'
    <2>1. /\ \A g \in handler' : g.kind = "failure" => g \in handler
          /\ worker' = Answer(h.lease, "failure", Idle)
      BY <1>6 DEF FailureCommit
    <2>2. \A v \in Workers : worker'[v].lease = NoLease \/ worker'[v] = worker[v]
      BY <2>1 DEF Answer, Idle
    <2>3. ReportsOnce'
      BY <2>1, <2>2, <1>0, QuietReportsOnce
    <2>4. QED
      BY <2>3, <1>6, FailureCommitKeepsTree DEF Trees
  <1>7. ASSUME NEW h \in handler, ResultWrite(h) \/ HandlerAbort(h)
        PROVE  ReportsOnce' /\ Trees'
    <2>1. /\ grant' = grant /\ job' = job
          /\ \A g \in handler' : g.kind = "failure" => g \in handler
      BY <1>7 DEF ResultWrite, HandlerAbort, IInv, TypeOK, Handler
    <2>2. CASE ResultWrite(h)
      BY <2>1, <2>2, <1>0, <1>a, QuietReportsOnce DEF ResultWrite
    <2>3. CASE HandlerAbort(h)
      <3>1. \A v \in Workers : \/ worker'[v].lease = NoLease
                               \/ worker'[v] = worker[v]
                               \/ worker'[v].lease = worker[v].lease /\ worker[v].stage = "result"
        BY <2>3 DEF HandlerAbort, Answer, Idle
      <3>2. QED
        BY <2>1, <3>1, <1>0, <1>a, QuietReportsOnce DEF Reporting
    <2>4. QED
      BY <1>7, <2>2, <2>3
  <1>8. ASSUME NEW h \in handler, NEW d, ResultCommit(h, d) \/ ResultMalformed(h)
        PROVE  ReportsOnce' /\ Trees'
    <2>1. /\ grant' = grant /\ handler' = handler \ {h}
          /\ worker' = Answer(h.lease, "result", Idle)
      BY <1>8 DEF ResultCommit, ResultMalformed
    <2>2. \A v \in Workers : worker'[v].lease = NoLease \/ worker'[v] = worker[v]
      BY <2>1 DEF Answer, Idle
    <2>3. PICK k : k = grant[h.lease]
      OBVIOUS
    <2>4. h \in Handler /\ k \in Jobs /\ job[k] \in Row
      BY <2>3 DEF IInv, TypeOK, LeaseBook, Handler
    <2>5. job'[k].status \in {"succeeded", "escalated", "failed"} /\ \A j \in Jobs \ {k} : job'[j] = job[j]
      <3>1. CASE ResultCommit(h, d)
        BY <3>1, <2>3, <2>4, WithResultRow DEF ResultCommit, IInv, TypeOK
      <3>2. CASE ResultMalformed(h)
        <4>1. job' = [job EXCEPT ![k] = [job[k] EXCEPT !.lease = NoLease, !.status = "failed",
                                                       !.by = h.lease]]
          BY <3>2, <2>3 DEF ResultMalformed
        <4>2. [job[k] EXCEPT !.lease = NoLease, !.status = "failed", !.by = h.lease].status = "failed"
          BY <2>4 DEF Row
        <4>3. QED
          BY <4>1, <4>2, <2>4 DEF IInv, TypeOK
      <3>3. QED
        BY <1>8, <3>1, <3>2
    <2>6. ReportsOnce'
      BY <2>1, <2>2, <1>0, QuietReportsOnce
    <2>7. QED
      BY <2>1, <2>5, <2>6, <1>a
  <1>9. ASSUME NEW w \in Workers, Heartbeat(w)
        PROVE  ReportsOnce' /\ Trees'
    <2>1. handler' = handler /\ worker' = worker /\ grant' = grant
      BY <1>9 DEF Heartbeat
    <2>2. \A j \in Jobs : /\ job'[j].status = job[j].status /\ job'[j].lease = job[j].lease
                          /\ job'[j].retry = job[j].retry
      BY <1>9, HeldLease DEF Heartbeat, IInv, TypeOK, Row
    <2>3. QED
      BY <2>1, <2>2, <1>a, <1>b
  <1>10. ASSUME NEW k \in Jobs, Expire(k) \/ Decide(k)
         PROVE  ReportsOnce' /\ Trees'
    <2>1. handler' = handler /\ worker' = worker /\ grant' = grant
      BY <1>10 DEF Expire, Decide, DecideRead, DecideCommit
    <2>2. \A j \in Jobs : /\ job'[j].status = job[j].status /\ job'[j].lease = job[j].lease
                          /\ job'[j].retry = job[j].retry
      <3>1. CASE Expire(k)
        BY <3>1 DEF Expire, IInv, TypeOK, Row
      <3>2. CASE Decide(k)
        <4>1. PICK a : job' = job \/ job' = [job EXCEPT ![k].approval = a]
          BY <3>2 DEF Decide, DecideRead, DecideCommit
        <4>2. QED
          BY <4>1 DEF IInv, TypeOK, Row
      <3>3. QED
        BY <1>10, <3>1, <3>2
    <2>3. QED
      BY <2>1, <2>2, <1>a, <1>b
  <1>11. CASE UNCHANGED vars
    BY <1>11, <1>a, <1>b DEF vars
  <1>12. QED
    BY <1>1, <1>2, <1>3, <1>4, <1>5, <1>6, <1>7, <1>8, <1>9, <1>10, <1>11
       DEF Next, Poll, Submit, Commit

\* At first there is nothing to explain.
LEMMA InitTree == Init => TreeInv
  <1> SUFFICES ASSUME Init PROVE TreeInv
    OBVIOUS
  <1>1. ReportsOnce
    BY DEF Init, ReportsOnce, Idle
  <1>2. ASSUME NEW j \in Jobs PROVE Explained(j)
    <2>1. Granted(j) = {} /\ Reports(j) = {} /\ job[j].status = "absent"
      BY DEF Init, Granted, Reports, NoLease, Absent
    <2>2. PICK f : f = [l \in Leases |-> {}]
      OBVIOUS
    <2>3. f \in [Leases -> SUBSET (0..RetryLimit)] /\ Tree(f, Granted(j), Reports(j), job[j])
      BY <2>1, <2>2 DEF Tree
    <2>4. QED
      BY <2>3 DEF Explained
  <1>3. QED
    BY <1>1, <1>2 DEF TreeInv

\* A job is executed a bounded number of times, for any retry limit and any number
\* of workers (recover_stale and submit_failure), although a late failure report
\* sets retry_count back to the value it read plus one: each execution has room for
\* two more, one level of the retry limit further down.
THEOREM ExecutionsAreBounded == Spec => []ExecutionsBounded
  <1>1. TreeInv => ExecutionsBounded
    <2> SUFFICES ASSUME TreeInv, NEW j \in Jobs PROVE Executions(j) < 2 ^ (RetryLimit + 1)
      BY DEF ExecutionsBounded
    <2>1. PICK f \in [Leases -> SUBSET (0..RetryLimit)] : Tree(f, Granted(j), Reports(j), job[j])
      BY DEF TreeInv, Explained
    <2>2. Granted(j) \subseteq Leases
      BY DEF Granted
    <2>3. Cardinality(Granted(j)) < 2 ^ (RetryLimit + 1)
      BY <2>1, <2>2, TreeIsBounded
    <2>4. QED
      BY <2>3 DEF Executions, Granted
  <1>2. QED
    BY <1>1, InitIInv, NextIInv, InitTree, NextTree, PTL DEF Spec
=============================================================================
