------------------------- MODULE MappingRuns_proofs -------------------------
(***************************************************************************)
(* Proofs about the execution queue of canonical mapping for any number of *)
(* runs, keys, workers, requests, crashes and lost leases: its invariants, *)
(* what a step may not do to a committed run, and that the queue           *)
(* implements RunCustody.                                                  *)
(***************************************************************************)
EXTENDS MappingRuns, FiniteSetTheorems, TLAPS

-----------------------------------------------------------------------------
(* The inductive invariant.                                                *)

\* Rows are inserted in order and number their attempts along the way.
TableSound ==
    /\ \E n \in 0..MaxRuns : Existing = 1..n
    /\ \A r \in Runs : runs[r].status = "absent" => runs[r] = Absent
    /\ \A r \in Existing : runs[r].attempt <= r
    /\ KeyNamesOneRun
    /\ RetryChainIsLinear

\* Results are those of a run that was executed, and evidence follows them.
ResultsSound ==
    \A r \in Runs :
      /\ results[r] # "none" => runs[r].status \in Complete \cup {"failed"}
      /\ evidence[r] # {} => results[r] = "completed"

\* A request in flight acts on a run that exists; a failed one stays failed.
RequestsSound ==
    \A c \in Clients :
      /\ client[c].op = "fail" => runs[client[c].run].status # "absent"
      /\ client[c].op = "retry" => runs[client[c].run].status = "failed"

\* A worker past its claim has a run that was handed to nobody else: it
\* still holds the lease, or the run failed under it.
WorkersSound ==
    \A w \in Workers :
      /\ worker[w].stage \in {"down", "idle"} => worker[w] = Process(worker[w].stage)
      /\ worker[w].stage \notin {"down", "idle"} =>
           /\ worker[w].run # NoRun
           /\ runs[worker[w].run].status \notin {"queued", "absent"}
           /\ \A v \in Workers \ {w} : worker[v].run # worker[w].run
      /\ worker[w].stage \in {"claimed", "mapping"} =>
           Holds(w) \/ runs[worker[w].run].status = "failed"
      /\ worker[w].stage = "evidence" => results[worker[w].run] = "completed"

IInv ==
    /\ TypeOK
    /\ TableSound
    /\ ResultsSound
    /\ RequestsSound
    /\ WorkersSound

-----------------------------------------------------------------------------
(* The run table.                                                          *)

\* The next row is a new one: every run before it exists and none after it.
LEMMA NextRunIsNew ==
    ASSUME TypeOK, TableSound
    PROVE  /\ NextRun \in Nat
           /\ Existing = {r \in Runs : r < NextRun}
           /\ NextRun \in Runs => runs[NextRun] = Absent
  <1>1. PICK n \in 0..MaxRuns : Existing = 1..n
    BY DEF TableSound
  <1>2. n \in Nat /\ NextRun = n + 1
    <2>1. n \in Nat /\ 1 \in Int
      BY <1>1, BoundsAssumption
    <2>2. Cardinality(1..n) = IF 1 > n THEN 0 ELSE n - 1 + 1
      BY <2>1, FS_Interval
    <2>3. QED
      BY <1>1, <2>1, <2>2 DEF NextRun
  <1>3. NextRun \in Runs => NextRun \notin Existing
    BY <1>1, <1>2
  <1>4. QED
    BY <1>1, <1>2, <1>3, BoundsAssumption DEF Runs, Existing, TableSound

\* A step that keeps every run's identity and lets no failed run recover
\* keeps the table in order.
LEMMA TableKept ==
    ASSUME TypeOK, TableSound,
           \A r \in Runs :
             /\ runs'[r].key = runs[r].key /\ runs'[r].retryOf = runs[r].retryOf
             /\ runs'[r].root = runs[r].root /\ runs'[r].attempt = runs[r].attempt
             /\ runs[r].status = "failed" => runs'[r].status = "failed"
             /\ runs[r].status = "absent" => runs'[r] = runs[r]
             /\ runs'[r].status = "absent" => runs[r].status = "absent"
    PROVE  TableSound'
  <1>1. Existing' = Existing
    BY DEF Existing, TypeOK
  <1>2. \A r \in Runs : runs'[r].status = "absent" => runs'[r] = Absent
    BY DEF TableSound
  <1>3. KeyNamesOneRun'
    BY <1>1 DEF TableSound, KeyNamesOneRun, Existing
  <1>4. \A r \in Existing : runs[r].retryOf # NoRun => runs[r].retryOf \in Runs
    BY DEF TypeOK, Row, Existing
  <1>5. RetryChainIsLinear'
    BY <1>1, <1>4 DEF TableSound, RetryChainIsLinear, Existing
  <1>6. \A r \in Existing' : runs'[r].attempt <= r
    BY <1>1 DEF TableSound, Existing
  <1>7. QED
    BY <1>1, <1>2, <1>3, <1>5, <1>6 DEF TableSound

\* A new row with a key of its own, for a new request or as the only retry
\* of a failed run, keeps the table in order.
LEMMA TableGrows ==
    ASSUME TypeOK, TableSound, NEW row \in Row, NextRun \in Runs,
           runs' = [runs EXCEPT ![NextRun] = row],
           row.status # "absent", ~KeyUsed(row.key),
           \/ row.retryOf = NoRun /\ row.attempt = 1
           \/ /\ row.retryOf \in Runs
              /\ runs[row.retryOf].status = "failed"
              /\ ~HasRetry(row.retryOf)
              /\ row.attempt = runs[row.retryOf].attempt + 1
              /\ row.root = IF runs[row.retryOf].root = NoRun THEN row.retryOf
                            ELSE runs[row.retryOf].root
    PROVE  TableSound'
  <1> DEFINE n == NextRun
  <1>1. n \in Nat /\ Existing = {r \in Runs : r < n} /\ runs[n] = Absent
    BY NextRunIsNew
  <1>2. runs'[n] = row /\ \A r \in Runs \ {n} : runs'[r] = runs[r]
    BY DEF TypeOK
  <1>3. n \in Runs
    OBVIOUS
  <1> HIDE DEF n
  <1>4. Existing' = Existing \cup {n}
    BY <1>1, <1>2, <1>3 DEF Existing, Absent
  <1>5. \E m \in 0..MaxRuns : Existing' = 1..m
    <2>1. n \in 0..MaxRuns /\ Existing' = 1..n
      BY <1>1, <1>3, <1>4, BoundsAssumption DEF Runs
    <2>2. QED
      BY <2>1
  <1>6. \A r \in Runs : runs'[r].status = "absent" => runs'[r] = Absent
    BY <1>2, <1>3 DEF TableSound
  <1>7. \A r \in Existing : runs'[r] = runs[r] /\ r < n /\ r \in Runs /\ r # n
    BY <1>1, <1>2 DEF Runs
  <1>8. KeyNamesOneRun'
    BY <1>2, <1>4, <1>7 DEF TableSound, KeyNamesOneRun, KeyUsed
  <1>9. \A r \in Runs : runs[r].retryOf # NoRun => runs[r].retryOf \in Runs
    BY DEF TypeOK, Row
  <1>10. \A r \in Runs : runs[r].status = "failed" => r \in Existing
    BY DEF Existing
  <1>11. ASSUME NEW r \in Existing
         PROVE  /\ runs'[r].retryOf = NoRun => runs'[r].attempt = 1
                /\ runs'[r].retryOf # NoRun =>
                     LET p == runs'[r].retryOf
                     IN  /\ p < r
                         /\ runs'[p].status = "failed"
                         /\ runs'[r].attempt = runs'[p].attempt + 1
                         /\ runs'[r].root = IF runs'[p].root = NoRun THEN p ELSE runs'[p].root
                /\ \A q \in Existing' : runs'[q].retryOf = runs'[r].retryOf /\ q # r
                                          => runs'[r].retryOf = NoRun
    <2>1. /\ runs[r].retryOf = NoRun => runs[r].attempt = 1
          /\ runs[r].retryOf # NoRun =>
               LET p == runs[r].retryOf
               IN  /\ p < r
                   /\ runs[p].status = "failed"
                   /\ runs[r].attempt = runs[p].attempt + 1
                   /\ runs[r].root = IF runs[p].root = NoRun THEN p ELSE runs[p].root
          /\ \A q \in Existing : runs[q].retryOf = runs[r].retryOf /\ q # r
                                   => runs[r].retryOf = NoRun
      BY DEF TableSound, RetryChainIsLinear
    <2>2. runs'[r] = runs[r]
      BY <1>7
    <2>3. runs[r].retryOf # NoRun => runs'[runs[r].retryOf] = runs[runs[r].retryOf]
      BY <1>7, <1>9, <1>10, <2>1
    <2>4. row.retryOf = runs[r].retryOf => runs[r].retryOf = NoRun
      BY <1>7 DEF HasRetry
    <2>5. QED
      BY <1>2, <1>4, <1>7, <2>1, <2>2, <2>3, <2>4
  <1>12. /\ row.retryOf = NoRun => row.attempt = 1
         /\ row.retryOf # NoRun =>
              LET p == row.retryOf
              IN  /\ p < n
                  /\ runs'[p].status = "failed"
                  /\ row.attempt = runs'[p].attempt + 1
                  /\ row.root = IF runs'[p].root = NoRun THEN p ELSE runs'[p].root
         /\ \A q \in Existing' : runs'[q].retryOf = row.retryOf /\ q # n
                                   => row.retryOf = NoRun
    BY <1>1, <1>2, <1>4, <1>7, <1>10 DEF HasRetry, NoRun, Runs
  <1>13. RetryChainIsLinear'
    <2> HIDE DEF HasRetry
    <2>1. \A r \in Existing' : r \in Existing \/ (r = n /\ runs'[r] = row)
      BY <1>2, <1>4
    <2>2. QED
      BY <1>11, <1>12, <2>1 DEF RetryChainIsLinear
  <1>14. \A r \in Existing' : runs'[r].attempt <= r
    <2>1. CASE row.retryOf = NoRun
      BY <1>1, <1>2, <1>3, <1>4, <1>7, <1>12, <2>1 DEF TableSound, Runs
    <2>2. CASE row.retryOf # NoRun
      <3>1. row.retryOf \in Existing /\ row.retryOf < n /\ row.retryOf \in Nat
        BY <1>1, <1>10, <2>2 DEF NoRun, Runs
      <3>2. runs[row.retryOf].attempt <= row.retryOf /\ runs[row.retryOf].attempt \in Nat
        BY <3>1 DEF TableSound, TypeOK, Row, Existing
      <3>3. row.attempt = runs[row.retryOf].attempt + 1
        BY <2>2
      <3>4. row.attempt <= n
        BY <1>1, <3>1, <3>2, <3>3
      <3>5. QED
        BY <1>2, <1>4, <1>7, <3>4 DEF TableSound
    <2>3. QED
      BY <2>1, <2>2
  <1>15. QED
    BY <1>5, <1>6, <1>8, <1>13, <1>14 DEF TableSound

-----------------------------------------------------------------------------
(* The steps of the API.                                                   *)

\* What a request in flight carries.
LEMMA RequestTypes ==
    ASSUME TypeOK, NEW c \in Clients
    PROVE  /\ client[c] \in Request /\ Idle \in Request /\ Idle.op = "idle"
           /\ client[c].op \in {"submit", "execute"} =>
                client[c].key \in Keys /\ client[c].fp \in Fingerprints
           /\ client[c].op = "retry" => client[c].run \in Runs /\ client[c].key \in Keys
           /\ client[c].op = "fail" => client[c].run \in Runs /\ client[c].retryable \in BOOLEAN
  BY DEF TypeOK, Request, Idle

\* The answer of a request leaves the other requests sound, as long as
\* failed runs stay failed and no run disappears.
LEMMA RequestsKept ==
    ASSUME IInv,
           client' = client \/ \E c \in Clients : client' = [client EXCEPT ![c] = Idle],
           \A r \in Runs : /\ runs[r].status = "failed" => runs'[r].status = "failed"
                           /\ runs'[r].status = "absent" => runs[r].status = "absent"
    PROVE  client' \in [Clients -> Request] /\ RequestsSound'
  <1>1. client' \in [Clients -> Request]
        /\ \A d \in Clients : client'[d] = client[d] \/ client'[d].op = "idle"
    BY RequestTypes DEF IInv, TypeOK
  <1>2. QED
    BY <1>1, RequestTypes DEF IInv, RequestsSound

\* Workers do not care for a step that leaves them, the leases and the
\* results alone and puts nothing back into the queue.
LEMMA WorkersKept ==
    ASSUME IInv, worker' = worker,
           \A r \in Runs :
             /\ \/ runs'[r].status = runs[r].status
                \/ runs'[r].status = "failed"
                \/ runs[r].status = "absent"
             /\ runs'[r].lease = runs[r].lease \/ runs'[r].status = "failed" \/ runs[r].status = "absent"
             /\ results'[r] = results[r] \/ runs[r].status = "absent"
    PROVE  WorkersSound'
  <1>1. \A w \in Workers :
          /\ worker[w].run \in Runs \cup {NoRun} /\ worker[w].stage \in Stages
          /\ worker[w].run # NoRun => worker[w].run \in Runs
    BY DEF IInv, TypeOK
  <1> SUFFICES ASSUME NEW w \in Workers
               PROVE  /\ worker[w].stage \in {"down", "idle"} => worker[w] = Process(worker[w].stage)
                      /\ worker[w].stage \notin {"down", "idle"} =>
                           /\ worker[w].run # NoRun
                           /\ runs'[worker[w].run].status \notin {"queued", "absent"}
                           /\ \A v \in Workers \ {w} : worker[v].run # worker[w].run
                      /\ worker[w].stage \in {"claimed", "mapping"} =>
                           Holds(w)' \/ runs'[worker[w].run].status = "failed"
                      /\ worker[w].stage = "evidence" => results'[worker[w].run] = "completed"
    BY DEF WorkersSound
  <1>2. CASE worker[w].stage \in {"down", "idle"}
    BY <1>2 DEF IInv, WorkersSound
  <1>3. CASE worker[w].stage \notin {"down", "idle"}
    <2> DEFINE r == worker[w].run
    <2>1. /\ r \in Runs /\ runs[r].status \notin {"queued", "absent"}
          /\ \A v \in Workers \ {w} : worker[v].run # r
          /\ worker[w].stage \in {"claimed", "mapping"} => Holds(w) \/ runs[r].status = "failed"
          /\ worker[w].stage = "evidence" => results[r] = "completed"
      BY <1>1, <1>3 DEF IInv, WorkersSound
    <2>2. Holds(w) => Holds(w)' \/ runs'[r].status = "failed"
      BY <2>1 DEF Holds
    <2>3. /\ runs'[r].status = runs[r].status \/ runs'[r].status = "failed"
          /\ results'[r] = results[r]
      BY <2>1
    <2> HIDE DEF r
    <2>4. /\ runs'[r].status \notin {"queued", "absent"}
          /\ worker[w].stage \in {"claimed", "mapping"} => Holds(w)' \/ runs'[r].status = "failed"
          /\ worker[w].stage = "evidence" => results'[r] = "completed"
      BY <2>1, <2>2, <2>3
    <2>5. QED
      BY <1>3, <2>1, <2>4 DEF r, NoRun, Runs
  <1>4. QED
    BY <1>2, <1>3

\* The rows that submit, execute and retry insert.
SubmittedRow(n, k, p) ==
    [Absent EXCEPT !.status = "queued", !.key = k, !.fp = p, !.root = n]
ExecutedRow(k, p, outcome) == [Absent EXCEPT !.status = outcome, !.key = k, !.fp = p]

\* Both are rows, queued or complete, of a first attempt with that key.
LEMMA NewRows ==
    ASSUME NEW n \in Runs, NEW k \in Keys, NEW p \in Fingerprints
    PROVE  /\ /\ SubmittedRow(n, k, p) \in Row /\ SubmittedRow(n, k, p).status = "queued"
              /\ SubmittedRow(n, k, p).key = k /\ SubmittedRow(n, k, p).retryOf = NoRun
              /\ SubmittedRow(n, k, p).attempt = 1
           /\ \A outcome \in Complete :
                /\ ExecutedRow(k, p, outcome) \in Row /\ ExecutedRow(k, p, outcome).status = outcome
                /\ ExecutedRow(k, p, outcome).key = k /\ ExecutedRow(k, p, outcome).retryOf = NoRun
                /\ ExecutedRow(k, p, outcome).attempt = 1
  <1>1. 1 \in 1..MaxRuns
    BY BoundsAssumption DEF Runs
  <1>2. QED
    BY <1>1 DEF SubmittedRow, ExecutedRow, Row, Absent, Statuses, Active, Complete

\* The row of a retry is queued under its parent and counts one attempt more.
LEMMA RetryRow ==
    ASSUME TypeOK, NEW r \in Runs, NEW k \in Keys, runs[r].attempt + 1 \in 1..MaxRuns
    PROVE  /\ Child(r, k) \in Row /\ Child(r, k).status = "queued" /\ Child(r, k).key = k
           /\ Child(r, k).retryOf = r /\ Child(r, k).attempt = runs[r].attempt + 1
           /\ Child(r, k).root = IF runs[r].root = NoRun THEN r ELSE runs[r].root
  <1>1. runs[r] \in Row
    BY DEF TypeOK
  <1>2. runs[r].fp \in Fingerprints \cup {"none"} /\ runs[r].root \in Runs \cup {NoRun}
    BY <1>1 DEF Row
  <1> DEFINE root == IF runs[r].root = NoRun THEN r ELSE runs[r].root
  <1>3. root \in Runs \cup {NoRun}
    BY <1>2
  <1>4. Child(r, k) = [Absent EXCEPT !.status = "queued", !.key = k, !.fp = runs[r].fp,
                                     !.retryOf = r, !.root = root,
                                     !.attempt = runs[r].attempt + 1]
    BY DEF Child
  <1> HIDE DEF root
  <1>5. Child(r, k) = [status |-> "queued", key |-> k, fp |-> runs[r].fp, lease |-> NoLease,
                       beat |-> "null", retryable |-> FALSE, retryOf |-> r, root |-> root,
                       attempt |-> runs[r].attempt + 1]
    BY <1>4 DEF Absent
  <1>6. QED
    BY <1>2, <1>3, <1>5 DEF Row, Statuses, Active, root

\* Inserting a run, queued or already executed, keeps the invariant.
LEMMA InsertIInv ==
    ASSUME IInv, NEW c \in Clients, NEW row \in Row, NextRun \in Runs,
           NEW out \in {"none"} \cup Complete, NEW S \in SUBSET Fields,
           runs' = [runs EXCEPT ![NextRun] = row],
           results' = [results EXCEPT ![NextRun] = out],
           evidence' = [evidence EXCEPT ![NextRun] = S],
           client' = [client EXCEPT ![c] = Idle],
           UNCHANGED <<nextLease, worker, faults>>,
           row.status \in {"queued"} \cup Complete, ~KeyUsed(row.key),
           out # "none" => row.status \in Complete,
           S # {} => out = "completed",
           \/ row.retryOf = NoRun /\ row.attempt = 1
           \/ /\ row.retryOf \in Runs
              /\ runs[row.retryOf].status = "failed"
              /\ ~HasRetry(row.retryOf)
              /\ row.attempt = runs[row.retryOf].attempt + 1
              /\ row.root = IF runs[row.retryOf].root = NoRun THEN row.retryOf
                            ELSE runs[row.retryOf].root
    PROVE  IInv'
  <1>1. TypeOK /\ TableSound
    BY DEF IInv
  <1>2. TableSound'
    BY <1>1, TableGrows DEF Complete
  <1>3. runs[NextRun].status = "absent"
    BY <1>1, NextRunIsNew DEF Absent
  <1> DEFINE n == NextRun
  <1>4. /\ runs'[n] = row /\ \A r \in Runs \ {n} : runs'[r] = runs[r]
        /\ results'[n] = out /\ \A r \in Runs \ {n} : results'[r] = results[r]
        /\ evidence'[n] = S /\ \A r \in Runs \ {n} : evidence'[r] = evidence[r]
        /\ runs' \in [Runs -> Row] /\ results' \in [Runs -> {"none"} \cup Complete]
        /\ evidence' \in [Runs -> SUBSET Fields]
    BY <1>1 DEF TypeOK
  <1>5. n \in Runs /\ runs[n].status = "absent"
    BY <1>3
  <1> HIDE DEF n
  <1>6. client' \in [Clients -> Request] /\ RequestsSound'
    BY <1>4, <1>5, RequestsKept
  <1>7. TypeOK'
    BY <1>1, <1>4, <1>6 DEF TypeOK
  <1>8. ResultsSound'
    BY <1>4 DEF IInv, ResultsSound
  <1>9. WorkersSound'
    <2>1. \A r \in Runs :
             /\ \/ runs'[r].status = runs[r].status
                \/ runs'[r].status = "failed"
                \/ runs[r].status = "absent"
             /\ runs'[r].lease = runs[r].lease \/ runs'[r].status = "failed" \/ runs[r].status = "absent"
             /\ results'[r] = results[r] \/ runs[r].status = "absent"
      BY <1>4, <1>5
    <2>2. QED
      BY <2>1, WorkersKept
  <1>10. QED
    BY <1>2, <1>6, <1>7, <1>8, <1>9 DEF IInv

\* The reads and commits of submit, execute, retry and fail.
LEMMA ClientIInv ==
    ASSUME IInv, NEW c \in Clients, ClientStep(c)
    PROVE  IInv'
  <1>1. TypeOK /\ Idle \in Request /\ Idle.op = "idle"
    BY RequestTypes DEF IInv
  <1>2. ASSUME NEW q \in Request, client' = [client EXCEPT ![c] = q],
               UNCHANGED <<runs, results, evidence, nextLease, worker, faults>>,
               q.op = "fail" => runs[q.run].status # "absent",
               q.op = "retry" => runs[q.run].status = "failed"
        PROVE  IInv'
    <2>1. TypeOK' /\ RequestsSound'
      BY <1>1, <1>2 DEF IInv, TypeOK, RequestsSound
    <2>2. QED
      BY <1>2, <2>1 DEF IInv, TableSound, KeyNamesOneRun, RetryChainIsLinear, Existing,
         ResultsSound, WorkersSound, Holds
  <1>3. ASSUME NEW op \in {"submit", "execute"}, NEW k \in Keys, NEW p \in Fingerprints,
               SubmitRead(c, op, k, p)
        PROVE  IInv'
    <2> DEFINE q == [op |-> op, key |-> k, fp |-> p]
    <2>1. q \in Request /\ q.op \notin {"fail", "retry"}
      BY DEF Request
    <2> HIDE DEF q
    <2>2. client' = [client EXCEPT ![c] = q]
          /\ UNCHANGED <<runs, results, evidence, nextLease, worker, faults>>
      BY <1>3 DEF SubmitRead, q
    <2>3. QED
      BY <1>2, <2>1, <2>2
  <1>4. ASSUME NEW r \in Runs, NEW k \in Keys, RetryRead(c, r, k)
        PROVE  IInv'
    <2> DEFINE q == [op |-> "retry", run |-> r, key |-> k]
    <2>1. q \in Request /\ q.op = "retry" /\ q.run = r
      BY DEF Request
    <2> HIDE DEF q
    <2>2. /\ client' = [client EXCEPT ![c] = q] /\ runs[r].status = "failed"
          /\ UNCHANGED <<runs, results, evidence, nextLease, worker, faults>>
      BY <1>4 DEF RetryRead, q
    <2>3. QED
      BY <1>2, <2>1, <2>2
  <1>5. ASSUME NEW r \in Runs, NEW b \in BOOLEAN, FailRead(c, r, b)
        PROVE  IInv'
    <2> DEFINE q == [op |-> "fail", run |-> r, retryable |-> b]
    <2>1. q \in Request /\ q.op = "fail" /\ q.run = r
      BY DEF Request
    <2> HIDE DEF q
    <2>2. /\ client' = [client EXCEPT ![c] = q] /\ runs[r].status # "absent"
          /\ UNCHANGED <<runs, results, evidence, nextLease, worker, faults>>
      BY <1>5 DEF FailRead, q, Active
    <2>3. QED
      BY <1>2, <2>1, <2>2
  <1>6. ASSUME client' = [client EXCEPT ![c] = Idle],
               UNCHANGED <<runs, results, evidence, nextLease, worker, faults>>
        PROVE  IInv'
    BY <1>1, <1>2, <1>6
  <1>7. NextRun \in Runs => results[NextRun] = "none" /\ evidence[NextRun] = {}
                            /\ NextRun \in 1..MaxRuns
    BY NextRunIsNew, <1>1 DEF IInv, ResultsSound, Absent, Complete, Runs
  <1>8. CASE SubmitCommit(c)
    <2>1. CASE KeyUsed(client[c].key) /\ UNCHANGED runs
      BY <1>6, <1>8, <2>1 DEF SubmitCommit
    <2>2. CASE ~(KeyUsed(client[c].key) /\ UNCHANGED runs)
      <3> DEFINE row == SubmittedRow(NextRun, client[c].key, client[c].fp)
      <3>1. /\ NextRun \in Runs /\ ~KeyUsed(client[c].key)
            /\ runs' = [runs EXCEPT ![NextRun] = row]
            /\ client' = [client EXCEPT ![c] = Idle]
            /\ UNCHANGED <<results, evidence, nextLease, worker, faults>>
        BY <1>8, <2>2 DEF SubmitCommit, SubmittedRow
      <3>2. /\ row \in Row /\ row.status = "queued" /\ row.key = client[c].key
            /\ row.retryOf = NoRun /\ row.attempt = 1
        <4>1. client[c].key \in Keys /\ client[c].fp \in Fingerprints
          BY <1>1, <1>8, RequestTypes DEF SubmitCommit
        <4>2. QED
          BY <3>1, <4>1, NewRows
      <3>3. /\ results' = [results EXCEPT ![NextRun] = "none"]
            /\ evidence' = [evidence EXCEPT ![NextRun] = {}]
        BY <1>1, <1>7, <3>1 DEF TypeOK
      <3> HIDE DEF row
      <3>4. QED
        BY <3>1, <3>2, <3>3, InsertIInv
    <2>3. QED
      BY <2>1, <2>2
  <1>9. CASE ExecuteCommit(c)
    <2>1. CASE KeyUsed(client[c].key) /\ UNCHANGED <<runs, results, evidence>>
      BY <1>6, <1>9, <2>1 DEF ExecuteCommit
    <2>2. CASE ~(KeyUsed(client[c].key) /\ UNCHANGED <<runs, results, evidence>>)
      <3>1. PICK outcome \in Complete, S \in SUBSET Fields :
              /\ NextRun \in Runs /\ ~KeyUsed(client[c].key)
              /\ runs' = [runs EXCEPT ![NextRun] =
                              [Absent EXCEPT !.status = outcome, !.key = client[c].key,
                                             !.fp = client[c].fp]]
              /\ results' = [results EXCEPT ![NextRun] = outcome]
              /\ S # {} => outcome = "completed"
              /\ evidence' = [evidence EXCEPT ![NextRun] = S]
        BY <1>9, <2>2 DEF ExecuteCommit
      <3> DEFINE row == ExecutedRow(client[c].key, client[c].fp, outcome)
      <3>2. /\ row \in Row /\ row.status = outcome /\ row.key = client[c].key
            /\ row.retryOf = NoRun /\ row.attempt = 1
        <4>1. client[c].key \in Keys /\ client[c].fp \in Fingerprints
          BY <1>1, <1>9, RequestTypes DEF ExecuteCommit
        <4>2. QED
          BY <3>1, <4>1, NewRows
      <3>3. /\ client' = [client EXCEPT ![c] = Idle]
            /\ UNCHANGED <<nextLease, worker, faults>>
            /\ runs' = [runs EXCEPT ![NextRun] = row]
        BY <1>9, <3>1 DEF ExecuteCommit, ExecutedRow
      <3> HIDE DEF row
      <3>4. QED
        BY <3>1, <3>2, <3>3, InsertIInv
    <2>3. QED
      BY <2>1, <2>2
  <1>10. CASE RetryCommit(c)
    <2> DEFINE r == client[c].run
               k == client[c].key
    <2>1. CASE UNCHANGED runs
      BY <1>6, <1>10, <2>1 DEF RetryCommit
    <2>2. CASE ~UNCHANGED runs
      <3>1. /\ NextRun \in Runs /\ ~KeyUsed(k) /\ ~HasRetry(r)
            /\ runs' = [runs EXCEPT ![NextRun] = Child(r, k)]
            /\ client' = [client EXCEPT ![c] = Idle]
            /\ UNCHANGED <<results, evidence, nextLease, worker, faults>>
        BY <1>10, <2>2 DEF RetryCommit
      <3>2. r \in Runs /\ k \in Keys /\ runs[r].status = "failed" /\ r \in Existing
        BY <1>1, <1>10, RequestTypes DEF RetryCommit, IInv, RequestsSound, Existing
      <3>3. runs[r] \in Row /\ runs[r].attempt <= r /\ r < NextRun /\ NextRun \in 1..MaxRuns
        BY <1>1, <3>1, <3>2, NextRunIsNew DEF TypeOK, IInv, TableSound, Runs
      <3>4. runs[r].attempt + 1 \in 1..MaxRuns
        <4>1. runs[r].attempt \in 1..MaxRuns /\ NextRun \in Nat /\ r \in Nat
          BY <1>1, <3>2, <3>3, NextRunIsNew DEF Row, Runs, IInv
        <4> HIDE DEF r
        <4>2. runs[r].attempt < NextRun /\ NextRun \in 1..MaxRuns
          BY <3>3, <4>1
        <4>3. QED
          BY <4>1, <4>2, BoundsAssumption
      <3>5. /\ Child(r, k) \in Row /\ Child(r, k).status = "queued" /\ Child(r, k).key = k
            /\ Child(r, k).retryOf = r /\ Child(r, k).attempt = runs[r].attempt + 1
            /\ Child(r, k).root = IF runs[r].root = NoRun THEN r ELSE runs[r].root
        <4> HIDE DEF r, k
        <4>1. QED
          BY <1>1, <3>2, <3>4, RetryRow
      <3>6. /\ results' = [results EXCEPT ![NextRun] = "none"]
            /\ evidence' = [evidence EXCEPT ![NextRun] = {}]
        BY <1>1, <1>7, <3>1 DEF TypeOK
      <3> DEFINE row == Child(r, k)
      <3>7. /\ row \in Row /\ row.status = "queued" /\ ~KeyUsed(row.key)
            /\ row.retryOf \in Runs /\ runs[row.retryOf].status = "failed"
            /\ ~HasRetry(row.retryOf)
            /\ row.attempt = runs[row.retryOf].attempt + 1
            /\ row.root = IF runs[row.retryOf].root = NoRun THEN row.retryOf
                          ELSE runs[row.retryOf].root
            /\ runs' = [runs EXCEPT ![NextRun] = row]
        BY <3>1, <3>2, <3>5
      <3> HIDE DEF row
      <3>8. QED
        BY <3>1, <3>6, <3>7, InsertIInv
    <2>3. QED
      BY <2>1, <2>2
  <1>11. CASE FailCommit(c)
    <2> DEFINE r == client[c].run
    <2>1. r \in Runs /\ runs[r].status # "absent" /\ client[c].retryable \in BOOLEAN
      BY <1>1, <1>11, RequestTypes DEF FailCommit, IInv, RequestsSound
    <2>2. /\ runs' = [runs EXCEPT ![r] = [runs[r] EXCEPT !.status = "failed",
                                                       !.retryable = client[c].retryable]]
          /\ runs[r] \in Row
      BY <1>1, <1>11, <2>1 DEF FailCommit, TypeOK
    <2>3. /\ runs' \in [Runs -> Row] /\ runs'[r].status = "failed"
          /\ runs'[r].key = runs[r].key /\ runs'[r].retryOf = runs[r].retryOf
          /\ runs'[r].root = runs[r].root /\ runs'[r].attempt = runs[r].attempt
          /\ \A q \in Runs \ {r} : runs'[q] = runs[q]
      <3>1. [runs[r] EXCEPT !.status = "failed", !.retryable = client[c].retryable] \in Row
        BY <2>1, <2>2 DEF Row, Statuses
      <3> HIDE DEF r
      <3>2. QED
        BY <1>1, <2>1, <2>2, <3>1 DEF TypeOK, Row
    <2>4. client' = [client EXCEPT ![c] = Idle]
          /\ UNCHANGED <<results, evidence, nextLease, worker, faults>>
      BY <1>11 DEF FailCommit
    <2> HIDE DEF r
    <2>5. TableSound'
      <3>1. TypeOK /\ TableSound
        BY DEF IInv
      <3>2. QED
        BY <2>1, <2>3, <3>1, TableKept
    <2>6. client' \in [Clients -> Request] /\ RequestsSound'
      BY <2>1, <2>3, <2>4, RequestsKept
    <2>7. TypeOK'
      BY <1>1, <2>3, <2>4, <2>6 DEF TypeOK
    <2>8. ResultsSound'
      BY <2>3, <2>4 DEF IInv, ResultsSound
    <2>9. WorkersSound'
      BY <2>3, <2>4, WorkersKept
    <2>10. QED
      BY <2>5, <2>6, <2>7, <2>8, <2>9 DEF IInv
  <1>12. QED
    BY <1>3, <1>4, <1>5, <1>8, <1>9, <1>10, <1>11 DEF ClientStep

-----------------------------------------------------------------------------
(* The steps of the workers.                                               *)

\* What a worker process is: past its claim it has a run.
LEMMA WorkerTypes ==
    ASSUME IInv, NEW w \in Workers
    PROVE  /\ worker[w].stage \in Stages /\ worker[w].run \in Runs \cup {NoRun}
           /\ worker[w].lease \in Leases \cup {NoLease} /\ worker[w].pump \in BOOLEAN
           /\ worker[w].stage \notin {"down", "idle"} => worker[w].run \in Runs
           /\ worker[w].stage \in {"down", "idle"} => worker[w].run = NoRun /\ ~worker[w].pump
           /\ Holds(w) => worker[w].run \in Runs /\ runs[worker[w].run].status = "running"
  <1>1. /\ worker[w].stage \in Stages /\ worker[w].run \in Runs \cup {NoRun}
        /\ worker[w].lease \in Leases \cup {NoLease} /\ worker[w].pump \in BOOLEAN
    BY DEF IInv, TypeOK
  <1>2. worker[w].stage \in {"down", "idle"} => worker[w].run = NoRun /\ ~worker[w].pump
    <2>1. worker[w].stage \in {"down", "idle"} => worker[w] = Process(worker[w].stage)
      BY DEF IInv, WorkersSound
    <2>2. \A s : Process(s).run = NoRun /\ Process(s).pump = FALSE
      BY DEF Process
    <2>3. QED
      BY <2>1, <2>2
  <1>3. QED
    BY <1>1, <1>2 DEF IInv, WorkersSound, Holds

\* A worker that goes idle or down, or on with its own run, disturbs no
\* other worker: the run it changes was handed to nobody else.
LEMMA WorkerMoves ==
    ASSUME IInv, NEW w \in Workers, NEW p,
           worker' = [worker EXCEPT ![w] = p],
           \/ p \in {Process("down"), Process("idle")}
           \/ /\ worker[w].stage \notin {"down", "idle"}
              /\ p.run = worker[w].run /\ p.lease = worker[w].lease
              /\ p.stage \notin {"down", "idle"}
              /\ p.stage \in {"claimed", "mapping"} => worker[w].stage \in {"claimed", "mapping"}
              /\ p.stage = "evidence" => results'[p.run] = "completed",
           \A r \in Runs :
             \/ /\ runs'[r].status = runs[r].status /\ runs'[r].lease = runs[r].lease
                /\ results'[r] = results[r]
             \/ runs'[r].status = "failed" /\ results'[r] = results[r]
             \/ /\ r = worker[w].run /\ worker[w].stage \notin {"down", "idle"}
                /\ runs'[r].status \notin {"queued", "absent"}
                /\ p.stage \notin {"claimed", "mapping"}
    PROVE  WorkersSound'
  <1>1. \A v \in Workers : worker'[v] = IF v = w THEN p ELSE worker[v]
    BY DEF IInv, TypeOK
  <1>2. worker'[w].run \in {NoRun, worker[w].run}
    BY <1>1 DEF Process
  <1> SUFFICES ASSUME NEW v \in Workers
               PROVE  /\ worker'[v].stage \in {"down", "idle"} => worker'[v] = Process(worker'[v].stage)
                      /\ worker'[v].stage \notin {"down", "idle"} =>
                           /\ worker'[v].run # NoRun
                           /\ runs'[worker'[v].run].status \notin {"queued", "absent"}
                           /\ \A u \in Workers \ {v} : worker'[u].run # worker'[v].run
                      /\ worker'[v].stage \in {"claimed", "mapping"} =>
                           Holds(v)' \/ runs'[worker'[v].run].status = "failed"
                      /\ worker'[v].stage = "evidence" => results'[worker'[v].run] = "completed"
    BY DEF WorkersSound
  <1>3. CASE worker'[v].stage \in {"down", "idle"}
    <2>1. worker'[v] = Process(worker'[v].stage)
      <3>1. Process("down").stage = "down" /\ Process("idle").stage = "idle"
        BY DEF Process
      <3>2. CASE v = w
        BY <1>1, <1>3, <3>1, <3>2
      <3>3. CASE v # w
        BY <1>1, <1>3, <3>3 DEF IInv, WorkersSound
      <3>4. QED
        BY <3>2, <3>3
    <2>2. QED
      BY <1>3, <2>1
  <1>4. CASE worker'[v].stage \notin {"down", "idle"}
    <2> DEFINE r == worker[v].run
    <2>1. /\ worker[v].stage \notin {"down", "idle"}
          /\ worker'[v].run = r /\ worker'[v].lease = worker[v].lease
          /\ worker'[v].stage \in {"claimed", "mapping"} => worker[v].stage \in {"claimed", "mapping"}
      BY <1>1, <1>4 DEF Process
    <2>2. /\ r \in Runs /\ runs[r].status \notin {"queued", "absent"} /\ r # NoRun
          /\ \A u \in Workers \ {v} : worker[u].run # r
          /\ worker[v].stage \in {"claimed", "mapping"} => Holds(v) \/ runs[r].status = "failed"
          /\ worker[v].stage = "evidence" => results[r] = "completed"
      BY <2>1, WorkerTypes DEF IInv, WorkersSound
    <2>3. \A u \in Workers \ {v} : worker'[u].run # r
      BY <1>1, <1>2, <2>2
    <2>4. \/ /\ runs'[r].status = runs[r].status /\ runs'[r].lease = runs[r].lease
             /\ results'[r] = results[r]
          \/ runs'[r].status = "failed" /\ results'[r] = results[r]
          \/ /\ v = w
             /\ runs'[r].status \notin {"queued", "absent"}
             /\ p.stage \notin {"claimed", "mapping"}
      BY <2>2
    <2>5. Holds(v) => \/ Holds(v)' \/ runs'[r].status = "failed"
                      \/ v = w /\ p.stage \notin {"claimed", "mapping"}
      BY <2>1, <2>2, <2>4 DEF Holds
    <2> HIDE DEF r
    <2>6. worker'[v].stage \in {"claimed", "mapping"} => Holds(v)' \/ runs'[r].status = "failed"
      BY <1>1, <2>1, <2>2, <2>4, <2>5
    <2>7. worker'[v].stage = "evidence" => results'[r] = "completed"
      <3>1. CASE v = w
        <4>1. worker'[v] = p /\ p.run = r
          BY <1>1, <2>1, <3>1
        <4>2. QED
          BY <4>1, <1>4 DEF Process
      <3>2. CASE v # w
        BY <1>1, <2>2, <2>4, <3>2
      <3>3. QED
        BY <3>1, <3>2
    <2>8. QED
      BY <1>4, <2>1, <2>2, <2>3, <2>4, <2>6, <2>7
  <1>5. QED
    BY <1>3, <1>4

\* The queued run a claim takes was in nobody's hands.
LEMMA ClaimIInv ==
    ASSUME IInv, NEW w \in Workers, NEW r \in Runs, NEW pump \in BOOLEAN,
           worker[w].stage = "idle", runs[r].status = "queued", ClaimValues(r, w, pump)
    PROVE  IInv'
  <1> DEFINE p == [stage |-> "claimed", run |-> r, lease |-> nextLease, pump |-> pump]
  <1>1. TypeOK /\ TableSound
    BY DEF IInv
  <1>2. /\ runs[r] \in Row /\ nextLease \in Leases
        /\ runs' = [runs EXCEPT ![r] = [runs[r] EXCEPT !.status = "running", !.lease = nextLease,
                                                     !.beat = "fresh"]]
        /\ worker' = [worker EXCEPT ![w] = p] /\ nextLease' = nextLease + 1
        /\ UNCHANGED <<results, evidence, client, faults>>
    BY <1>1 DEF ClaimValues, TypeOK
  <1>3. /\ runs' \in [Runs -> Row] /\ runs'[r].status = "running" /\ runs'[r].lease = nextLease
        /\ runs'[r].key = runs[r].key /\ runs'[r].retryOf = runs[r].retryOf
        /\ runs'[r].root = runs[r].root /\ runs'[r].attempt = runs[r].attempt
        /\ \A q \in Runs \ {r} : runs'[q] = runs[q]
    <2>1. [runs[r] EXCEPT !.status = "running", !.lease = nextLease, !.beat = "fresh"] \in Row
      BY <1>2 DEF Row, Statuses, Active
    <2>2. QED
      BY <1>1, <1>2, <2>1 DEF TypeOK, Row
  <1>4. TableSound'
    BY <1>1, <1>3, TableKept
  <1>5. p \in [stage : Stages, run : Runs \cup {NoRun}, lease : Leases \cup {NoLease}, pump : BOOLEAN]
        /\ p.stage = "claimed" /\ p.run = r /\ p.lease = nextLease
    BY <1>2 DEF Stages
  <1> HIDE DEF p
  <1>6. TypeOK'
    BY <1>1, <1>2, <1>3, <1>5, BoundsAssumption DEF TypeOK, Leases
  <1>7. ResultsSound'
    BY <1>2, <1>3 DEF IInv, ResultsSound, Complete
  <1>8. RequestsSound'
    BY <1>2, <1>3, RequestTypes, <1>1 DEF IInv, RequestsSound
  <1>9. \A v \in Workers : worker[v].run # r
    <2> SUFFICES ASSUME NEW v \in Workers, worker[v].run = r PROVE FALSE
      OBVIOUS
    <2>1. r # NoRun
      BY DEF Runs, NoRun
    <2>2. QED
      BY <2>1, WorkerTypes DEF IInv, WorkersSound
  <1>10. WorkersSound'
    <2>1. \A v \in Workers : worker'[v] = IF v = w THEN p ELSE worker[v]
      BY <1>1, <1>2 DEF TypeOK
    <2>2. Holds(w)' /\ r # NoRun
      BY <1>3, <1>5, <2>1 DEF Holds, Runs, NoRun
    <2>3. ASSUME NEW v \in Workers \ {w}
          PROVE  /\ worker[v].stage \in {"down", "idle"} => worker[v] = Process(worker[v].stage)
                 /\ worker[v].stage \notin {"down", "idle"} =>
                      /\ worker[v].run # NoRun
                      /\ runs'[worker[v].run].status \notin {"queued", "absent"}
                      /\ \A u \in Workers \ {v} : worker'[u].run # worker[v].run
                 /\ worker[v].stage \in {"claimed", "mapping"} =>
                      Holds(v)' \/ runs'[worker[v].run].status = "failed"
                 /\ worker[v].stage = "evidence" => results'[worker[v].run] = "completed"
      <3>1. worker[v].stage \notin {"down", "idle"} => runs'[worker[v].run] = runs[worker[v].run]
        BY <1>3, <1>9, WorkerTypes
      <3>2. worker[v].stage \notin {"down", "idle"} => (Holds(v) => Holds(v)')
        BY <2>1, <3>1 DEF Holds
      <3>3. results' = results
        BY <1>2
      <3>4. \A u \in Workers \ {v} : worker[u].run = worker'[u].run \/ worker'[u].run = r
        BY <1>5, <2>1
      <3>5. /\ worker[v].stage \in {"down", "idle"} => worker[v] = Process(worker[v].stage)
            /\ worker[v].stage \notin {"down", "idle"} =>
                 /\ worker[v].run # NoRun
                 /\ runs[worker[v].run].status \notin {"queued", "absent"}
                 /\ \A u \in Workers \ {v} : worker[u].run # worker[v].run
            /\ worker[v].stage \in {"claimed", "mapping"} =>
                 Holds(v) \/ runs[worker[v].run].status = "failed"
            /\ worker[v].stage = "evidence" => results[worker[v].run] = "completed"
        BY DEF IInv, WorkersSound
      <3>6. QED
        BY <1>9, <3>1, <3>2, <3>3, <3>4, <3>5
    <2>4. /\ worker'[w].stage = "claimed" /\ worker'[w].run = r
          /\ runs'[r].status = "running" /\ \A u \in Workers \ {w} : worker'[u].run # r
      BY <1>3, <1>5, <1>9, <2>1
    <2>5. \A v \in Workers \ {w} : worker'[v] = worker[v]
      BY <2>1
    <2>6. ASSUME NEW v \in Workers
          PROVE  /\ worker'[v].stage \in {"down", "idle"} => worker'[v] = Process(worker'[v].stage)
                 /\ worker'[v].stage \notin {"down", "idle"} =>
                      /\ worker'[v].run # NoRun
                      /\ runs'[worker'[v].run].status \notin {"queued", "absent"}
                      /\ \A u \in Workers \ {v} : worker'[u].run # worker'[v].run
                 /\ worker'[v].stage \in {"claimed", "mapping"} =>
                      Holds(v)' \/ runs'[worker'[v].run].status = "failed"
                 /\ worker'[v].stage = "evidence" => results'[worker'[v].run] = "completed"
      <3>1. CASE v = w
        BY <2>2, <2>4, <3>1
      <3>2. CASE v # w
        BY <2>3, <2>5, <3>2
      <3>3. QED
        BY <3>1, <3>2
    <2>7. QED
      BY <2>6 DEF WorkersSound
  <1>11. QED
    BY <1>4, <1>6, <1>7, <1>8, <1>10 DEF IInv

\* What changes between two states of one row: the status of an active run,
\* its lease, its beat and whether it may be retried.
SameRun(old, new) ==
    /\ new.key = old.key /\ new.retryOf = old.retryOf
    /\ new.root = old.root /\ new.attempt = old.attempt
    /\ old.status = "failed" => new.status = "failed"
    /\ old.status = "absent" => new = old
    /\ new.status = "absent" => old.status = "absent"

\* A worker step that keeps every run's identity keeps the invariant when
\* results and workers stay sound.
LEMMA RunsIInv ==
    ASSUME IInv, runs' \in [Runs -> Row],
           \A r \in Runs : SameRun(runs[r], runs'[r]),
           results' \in [Runs -> {"none"} \cup Complete],
           evidence' \in [Runs -> SUBSET Fields],
           ResultsSound', WorkersSound',
           worker' \in [Workers -> [stage : Stages, run : Runs \cup {NoRun},
                                    lease : Leases \cup {NoLease}, pump : BOOLEAN]],
           faults' \in 0..MaxFaults, UNCHANGED <<nextLease, client>>
    PROVE  IInv'
  <1>1. TypeOK /\ TableSound
    BY DEF IInv
  <1>2. TableSound'
    BY <1>1, TableKept DEF SameRun
  <1>3. RequestsSound'
    BY <1>1, RequestTypes DEF IInv, RequestsSound, SameRun
  <1>4. TypeOK'
    BY <1>1 DEF TypeOK
  <1>5. QED
    BY <1>2, <1>3, <1>4 DEF IInv

\* A worker that moves without writing keeps the invariant.
LEMMA MoveIInv ==
    ASSUME IInv, NEW w \in Workers,
           NEW p \in [stage : Stages, run : Runs \cup {NoRun},
                      lease : Leases \cup {NoLease}, pump : BOOLEAN],
           worker' = [worker EXCEPT ![w] = p],
           \/ p \in {Process("down"), Process("idle")}
           \/ /\ worker[w].stage \notin {"down", "idle"}
              /\ p.run = worker[w].run /\ p.lease = worker[w].lease
              /\ p.stage \notin {"down", "idle"}
              /\ p.stage \in {"claimed", "mapping"} => worker[w].stage \in {"claimed", "mapping"}
              /\ p.stage = "evidence" => worker[w].stage = "evidence",
           faults' \in 0..MaxFaults,
           UNCHANGED <<runs, results, evidence, nextLease, client>>
    PROVE  IInv'
  <1>1. p.stage = "evidence" /\ worker[w].stage = "evidence" /\ p.run = worker[w].run
          => results'[p.run] = "completed"
    BY DEF IInv, WorkersSound
  <1>2. Process("down").stage = "down" /\ Process("idle").stage = "idle"
    BY DEF Process
  <1>3. WorkersSound'
    BY <1>1, WorkerMoves
  <1>4. worker' \in [Workers -> [stage : Stages, run : Runs \cup {NoRun},
                                 lease : Leases \cup {NoLease}, pump : BOOLEAN]]
    BY DEF IInv, TypeOK
  <1>5. ResultsSound'
    BY DEF IInv, ResultsSound
  <1>6. \A r \in Runs : SameRun(runs[r], runs'[r])
    BY DEF SameRun
  <1>7. /\ runs' \in [Runs -> Row] /\ results' \in [Runs -> {"none"} \cup Complete]
        /\ evidence' \in [Runs -> SUBSET Fields]
    BY DEF IInv, TypeOK
  <1>8. QED
    BY <1>3, <1>4, <1>5, <1>6, <1>7, RunsIInv

\* A conditional UPDATE of the run the worker still holds, or of any running
\* run by the clock: status and lease may change, the identity does not.
LEMMA UpdateIInv ==
    ASSUME IInv, NEW r \in Runs, runs[r].status = "running",
           NEW status \in {"running", "failed"} \cup Complete, NEW row \in Row,
           row.status = status, SameRun(runs[r], row),
           runs' = [runs EXCEPT ![r] = row],
           results' = IF status \in Complete THEN [results EXCEPT ![r] = status] ELSE results,
           evidence' = evidence, faults' = faults, UNCHANGED <<nextLease, client>>,
           worker' \in [Workers -> [stage : Stages, run : Runs \cup {NoRun},
                                    lease : Leases \cup {NoLease}, pump : BOOLEAN]],
           WorkersSound'
    PROVE  IInv'
  <1>1. /\ runs \in [Runs -> Row] /\ results \in [Runs -> {"none"} \cup Complete]
        /\ evidence \in [Runs -> SUBSET Fields] /\ faults \in 0..MaxFaults
    BY DEF IInv, TypeOK
  <1>2. /\ runs' \in [Runs -> Row] /\ runs'[r] = row /\ \A q \in Runs \ {r} : runs'[q] = runs[q]
    BY <1>1
  <1>3. /\ results' \in [Runs -> {"none"} \cup Complete]
        /\ \A q \in Runs \ {r} : results'[q] = results[q]
        /\ results'[r] = IF status \in Complete THEN status ELSE results[r]
    BY <1>1
  <1>4. results[r] = "none" /\ evidence[r] = {}
    BY DEF IInv, ResultsSound, Complete
  <1>5. ResultsSound'
    BY <1>2, <1>3, <1>4 DEF IInv, ResultsSound
  <1>6. \A q \in Runs : SameRun(runs[q], runs'[q])
    BY <1>2 DEF SameRun
  <1>7. QED
    BY <1>1, <1>2, <1>3, <1>5, <1>6, RunsIInv

\* A process that waits has no run; one that fails keeps its run.
LEMMA ProcessTypes ==
    ASSUME IInv, NEW w \in Workers
    PROVE  LET Processes == [stage : Stages, run : Runs \cup {NoRun},
                             lease : Leases \cup {NoLease}, pump : BOOLEAN]
           IN  /\ worker[w] \in Processes /\ worker \in [Workers -> Processes]
               /\ Process("down") \in Processes /\ Process("idle") \in Processes
               /\ \A s \in Stages : /\ [worker[w] EXCEPT !.stage = s] \in Processes
                                    /\ [worker[w] EXCEPT !.stage = s].stage = s
                                    /\ [worker[w] EXCEPT !.stage = s].run = worker[w].run
                                    /\ [worker[w] EXCEPT !.stage = s].lease = worker[w].lease
  BY DEF IInv, TypeOK, Process, Stages

\* The recovery at the start of a worker process fails stale runs.
LEMMA StartIInv ==
    ASSUME IInv, NEW w \in Workers, Start(w)
    PROVE  IInv'
  <1>1. PICK S \in SUBSET Stale :
          runs' = [r \in Runs |-> IF r \in S THEN Recovered(runs[r]) ELSE runs[r]]
    BY DEF Start
  <1>2. /\ worker' = [worker EXCEPT ![w] = Process("idle")]
        /\ UNCHANGED <<results, evidence, nextLease, client, faults>>
    BY DEF Start
  <1>3. \A r \in Runs : /\ r \in S => runs[r].status = "running" /\ runs'[r] = Recovered(runs[r])
                        /\ r \notin S => runs'[r] = runs[r]
                        /\ runs[r] \in Row
    BY <1>1 DEF Stale, IInv, TypeOK
  <1>4. \A row \in Row : /\ Recovered(row) \in Row /\ Recovered(row).status = "failed"
                         /\ row.status = "running" => SameRun(row, Recovered(row))
    BY DEF Row, Recovered, Statuses, Active, SameRun, NoLease
  <1>5. runs' \in [Runs -> Row] /\ \A r \in Runs : SameRun(runs[r], runs'[r])
    BY <1>1, <1>3, <1>4 DEF SameRun
  <1>6. \A r \in Runs : runs'[r] = runs[r] \/ (runs[r].status = "running" /\ runs'[r].status = "failed")
    BY <1>3, <1>4
  <1>7. WorkersSound'
    BY <1>2, <1>6, WorkerMoves
  <1>8. ResultsSound'
    BY <1>2, <1>6 DEF IInv, ResultsSound
  <1>9. worker' \in [Workers -> [stage : Stages, run : Runs \cup {NoRun},
                                 lease : Leases \cup {NoLease}, pump : BOOLEAN]]
    BY <1>2, ProcessTypes
  <1>10. QED
    BY <1>2, <1>5, <1>7, <1>8, <1>9, RunsIInv DEF IInv, TypeOK

\* The end of an execution, if the lease is still held.
LEMMA FinishIInv ==
    ASSUME IInv, NEW w \in Workers, NEW outcome \in Complete, FinishExecute(w, outcome)
    PROVE  IInv'
  <1> DEFINE r == worker[w].run
  <1>1. CASE ~Holds(w)
    BY <1>1, MoveIInv, ProcessTypes DEF FinishExecute, IInv, TypeOK
  <1>2. CASE Holds(w)
    <2>1. r \in Runs /\ runs[r].status = "running" /\ runs[r] \in Row /\ worker[w].stage = "mapping"
      BY <1>2, WorkerTypes DEF FinishExecute, IInv, TypeOK
    <2> DEFINE row == [runs[r] EXCEPT !.status = outcome, !.lease = NoLease]
               p == IF outcome = "completed" THEN [worker[w] EXCEPT !.stage = "evidence"]
                    ELSE Process("idle")
    <2>2. /\ runs' = [runs EXCEPT ![r] = row] /\ results' = [results EXCEPT ![r] = outcome]
          /\ worker' = [worker EXCEPT ![w] = p]
          /\ UNCHANGED <<evidence, nextLease, client, faults>>
      BY <1>2, <2>1 DEF FinishExecute, IInv, TypeOK
    <2>3. row \in Row /\ row.status = outcome /\ SameRun(runs[r], row)
      <3> HIDE DEF r
      <3>1. QED
        BY <2>1 DEF Row, Statuses, Active, Complete, SameRun, NoLease
    <2>4. /\ p \in [stage : Stages, run : Runs \cup {NoRun},
                    lease : Leases \cup {NoLease}, pump : BOOLEAN]
          /\ p = Process("idle") \/ (p.stage = "evidence" /\ outcome = "completed"
                                     /\ p.run = worker[w].run /\ p.lease = worker[w].lease)
      BY ProcessTypes DEF Stages
    <2> HIDE DEF row, p
    <2>5. /\ runs'[r] = row /\ \A q \in Runs \ {r} : runs'[q] = runs[q]
          /\ results'[r] = outcome /\ \A q \in Runs \ {r} : results'[q] = results[q]
      BY <2>1, <2>2 DEF IInv, TypeOK
    <2>6. WorkersSound'
      <3>1. \A q \in Runs :
              \/ /\ runs'[q].status = runs[q].status /\ runs'[q].lease = runs[q].lease
                 /\ results'[q] = results[q]
              \/ /\ q = worker[w].run /\ worker[w].stage \notin {"down", "idle"}
                 /\ runs'[q].status \notin {"queued", "absent"}
                 /\ p.stage \notin {"claimed", "mapping"}
        BY <2>1, <2>3, <2>4, <2>5 DEF Process, Complete
      <3>2. \/ p \in {Process("down"), Process("idle")}
            \/ /\ worker[w].stage \notin {"down", "idle"}
               /\ p.run = worker[w].run /\ p.lease = worker[w].lease
               /\ p.stage \notin {"down", "idle"}
               /\ p.stage \in {"claimed", "mapping"} => worker[w].stage \in {"claimed", "mapping"}
               /\ p.stage = "evidence" => results'[p.run] = "completed"
        BY <2>1, <2>4, <2>5
      <3>3. QED
        BY <2>2, <3>1, <3>2, WorkerMoves
    <2>7. worker' \in [Workers -> [stage : Stages, run : Runs \cup {NoRun},
                                   lease : Leases \cup {NoLease}, pump : BOOLEAN]]
      BY <2>2, <2>4, ProcessTypes
    <2> HIDE DEF r
    <2>8. QED
      BY <2>1, <2>2, <2>3, <2>6, <2>7, UpdateIInv
  <1>3. QED
    BY <1>1, <1>2

\* A worker that gives up its run keeps the invariant, whether it records
\* the failure or has lost the lease.
LEMMA FailClaimedIInv ==
    ASSUME IInv, NEW w \in Workers, FailClaimed(w)
    PROVE  IInv'
  <1> DEFINE r == worker[w].run
  <1>1. CASE UNCHANGED runs
    BY <1>1, MoveIInv, ProcessTypes DEF FailClaimed, IInv, TypeOK
  <1>2. CASE ~UNCHANGED runs
    <2>1. Holds(w) /\ r \in Runs /\ runs[r].status = "running" /\ runs[r] \in Row
      BY <1>2, WorkerTypes DEF FailClaimed, IInv, TypeOK
    <2> DEFINE row == [runs[r] EXCEPT !.status = "failed", !.retryable = FALSE, !.lease = NoLease]
    <2>2. /\ runs' = [runs EXCEPT ![r] = row]
          /\ worker' = [worker EXCEPT ![w] = Process("idle")]
          /\ UNCHANGED <<results, evidence, nextLease, client, faults>>
      BY <1>2, <2>1 DEF FailClaimed, IInv, TypeOK
    <2>3. row \in Row /\ row.status = "failed" /\ SameRun(runs[r], row)
      <3> HIDE DEF r
      <3>1. QED
        BY <2>1 DEF Row, Statuses, SameRun, NoLease
    <2> HIDE DEF row
    <2>4. /\ runs'[r] = row /\ \A q \in Runs \ {r} : runs'[q] = runs[q]
      BY <2>1, <2>2 DEF IInv, TypeOK
    <2>5. WorkersSound'
      BY <2>2, <2>3, <2>4, WorkerMoves
    <2>6. worker' \in [Workers -> [stage : Stages, run : Runs \cup {NoRun},
                                   lease : Leases \cup {NoLease}, pump : BOOLEAN]]
      BY <2>2, ProcessTypes
    <2> HIDE DEF r
    <2>7. QED
      BY <2>1, <2>2, <2>3, <2>5, <2>6, UpdateIInv DEF Complete
  <1>3. QED
    BY <1>1, <1>2

\* A beat keeps the invariant, accepted or refused, and so does the clock.
LEMMA BeatIInv ==
    ASSUME IInv, \/ \E w \in Workers : Heartbeat(w)
                 \/ \E r \in Runs : Expire(r)
    PROVE  IInv'
  <1>1. ASSUME NEW r \in Runs, NEW beat \in {"fresh", "stale"}, runs[r].status = "running",
               runs' = [runs EXCEPT ![r] = [runs[r] EXCEPT !.beat = beat]],
               UNCHANGED <<results, evidence, nextLease, worker, client, faults>>
        PROVE  IInv'
    <2> DEFINE row == [runs[r] EXCEPT !.beat = beat]
    <2>1. runs[r] \in Row
      BY DEF IInv, TypeOK
    <2>2. row \in Row /\ row.status = "running" /\ SameRun(runs[r], row) /\ row.lease = runs[r].lease
      BY <1>1, <2>1 DEF Row, SameRun
    <2>3. runs' = [runs EXCEPT ![r] = row]
      BY <1>1
    <2> HIDE DEF row
    <2>4. /\ runs'[r] = row /\ \A q \in Runs \ {r} : runs'[q] = runs[q]
      BY <2>3 DEF IInv, TypeOK
    <2>5. WorkersSound'
      BY <1>1, <2>2, <2>4, WorkersKept
    <2>6. QED
      BY <1>1, <2>2, <2>3, <2>5, UpdateIInv, ProcessTypes DEF Complete, IInv, TypeOK
  <1>2. ASSUME NEW w \in Workers, Heartbeat(w)
        PROVE  IInv'
    <2>1. CASE Holds(w)
      <3>1. worker[w].run \in Runs /\ runs[worker[w].run].status = "running"
        BY <2>1, WorkerTypes
      <3>2. /\ runs' = [runs EXCEPT ![worker[w].run] = [runs[worker[w].run] EXCEPT !.beat = "fresh"]]
            /\ UNCHANGED <<results, evidence, nextLease, worker, client, faults>>
        BY <1>2, <2>1, <3>1 DEF Heartbeat, IInv, TypeOK
      <3>3. QED
        BY <1>1, <3>1, <3>2
    <2>2. CASE ~Holds(w)
      <3> DEFINE p == [worker[w] EXCEPT !.pump = FALSE]
      <3>1. /\ worker' = [worker EXCEPT ![w] = p]
            /\ UNCHANGED <<runs, results, evidence, nextLease, client, faults>>
        BY <1>2, <2>2 DEF Heartbeat, IInv, TypeOK
      <3>2. /\ p \in [stage : Stages, run : Runs \cup {NoRun},
                      lease : Leases \cup {NoLease}, pump : BOOLEAN]
            /\ p.stage = worker[w].stage /\ p.run = worker[w].run /\ p.lease = worker[w].lease
        BY DEF IInv, TypeOK
      <3>3. worker[w].stage \notin {"down", "idle"}
        BY <1>2, WorkerTypes DEF Heartbeat
      <3> HIDE DEF p
      <3>4. QED
        BY <3>1, <3>2, <3>3, MoveIInv DEF IInv, TypeOK
    <2>3. QED
      BY <2>1, <2>2
  <1>3. ASSUME NEW r \in Runs, Expire(r)
        PROVE  IInv'
    <2>1. runs' = [runs EXCEPT ![r] = [runs[r] EXCEPT !.beat = "stale"]]
      BY <1>3 DEF Expire, IInv, TypeOK
    <2>2. QED
      BY <1>1, <1>3, <2>1 DEF Expire
  <1>4. QED
    BY <1>2, <1>3

\* Every step of a worker process, and the faults that befall it.
LEMMA WorkerIInv ==
    ASSUME IInv, NEW w \in Workers,
           WorkerStep(w) \/ ClaimRun(w) \/ DatabaseError(w) \/ Crash(w)
    PROVE  IInv'
  <1>1. faults \in 0..MaxFaults /\ (faults < MaxFaults => faults + 1 \in 0..MaxFaults)
    BY BoundsAssumption DEF IInv, TypeOK
  <1>2. CASE ClaimNext(w) \/ ClaimRun(w)
    BY <1>2, ClaimIInv DEF ClaimNext, ClaimRun
  <1>3. CASE BeginExecute(w)
    <2>1. worker[w].stage = "claimed"
      BY <1>3 DEF BeginExecute
    <2>2. CASE Holds(w)
      <3> DEFINE p == [worker[w] EXCEPT !.stage = "mapping"]
      <3>1. worker' = [worker EXCEPT ![w] = p]
        BY <1>3, <2>2, ProcessTypes DEF BeginExecute
      <3>2. p \in [stage : Stages, run : Runs \cup {NoRun},
                 lease : Leases \cup {NoLease}, pump : BOOLEAN]
            /\ p.stage = "mapping" /\ p.run = worker[w].run /\ p.lease = worker[w].lease
        BY ProcessTypes DEF Stages
      <3>3. /\ worker' = [worker EXCEPT ![w] = p]
            /\ UNCHANGED <<runs, results, evidence, nextLease, client, faults>>
            /\ worker[w].stage \in {"claimed"}
        BY <1>3, <3>1 DEF BeginExecute
      <3> HIDE DEF p
      <3>4. QED
        BY <1>1, <3>2, <3>3, MoveIInv
    <2>3. CASE ~Holds(w)
      BY <1>1, <1>3, <2>3, ProcessTypes, MoveIInv DEF BeginExecute
    <2>4. QED
      BY <2>2, <2>3
  <1>4. CASE ExecuteRaises(w)
    <2> DEFINE p == [worker[w] EXCEPT !.stage = "failing"]
    <2>1. worker' = [worker EXCEPT ![w] = p]
      BY <1>4, ProcessTypes DEF ExecuteRaises
    <2>2. p \in [stage : Stages, run : Runs \cup {NoRun},
               lease : Leases \cup {NoLease}, pump : BOOLEAN]
          /\ p.stage = "failing" /\ p.run = worker[w].run /\ p.lease = worker[w].lease
      BY ProcessTypes DEF Stages
    <2>3. /\ worker' = [worker EXCEPT ![w] = p]
          /\ UNCHANGED <<runs, results, evidence, nextLease, client, faults>>
          /\ worker[w].stage \in {"mapping", "evidence"}
      BY <1>4, <2>1 DEF ExecuteRaises
    <2> HIDE DEF p
    <2>4. QED
      BY <1>1, <2>2, <2>3, MoveIInv
  <1>5. CASE RegisterEvidence(w)
    <2>1. PICK S \in SUBSET Fields : evidence' = [evidence EXCEPT ![worker[w].run] = S]
      BY <1>5 DEF RegisterEvidence
    <2>2. /\ worker' = [worker EXCEPT ![w] = Process("idle")]
          /\ UNCHANGED <<runs, results, nextLease, client, faults>>
      BY <1>5 DEF RegisterEvidence
    <2>3. worker[w].run \in Runs /\ results[worker[w].run] = "completed"
      BY <1>5, WorkerTypes DEF RegisterEvidence, IInv, WorkersSound
    <2>4. evidence' \in [Runs -> SUBSET Fields] /\ ResultsSound'
      BY <2>1, <2>2, <2>3 DEF IInv, TypeOK, ResultsSound
    <2>5. WorkersSound'
      BY <2>2, WorkerMoves
    <2>6. \A r \in Runs : SameRun(runs[r], runs'[r])
      BY <2>2 DEF SameRun
    <2>7. worker' \in [Workers -> [stage : Stages, run : Runs \cup {NoRun},
                                   lease : Leases \cup {NoLease}, pump : BOOLEAN]]
      BY <2>2, ProcessTypes
    <2>8. /\ runs' \in [Runs -> Row] /\ results' \in [Runs -> {"none"} \cup Complete]
          /\ faults' \in 0..MaxFaults
      BY <2>2 DEF IInv, TypeOK
    <2>9. QED
      BY <2>2, <2>4, <2>5, <2>6, <2>7, <2>8, RunsIInv
  <1>6. CASE DatabaseError(w)
    BY <1>1, <1>6, ProcessTypes, MoveIInv DEF DatabaseError
  <1>7. CASE Crash(w)
    BY <1>1, <1>7, ProcessTypes, MoveIInv DEF Crash
  <1>8. QED
    BY <1>2, <1>3, <1>4, <1>5, <1>6, <1>7, StartIInv, FinishIInv, FailClaimedIInv DEF WorkerStep

\* At first there are no runs and every worker is down.
LEMMA InitIInv == Init => IInv
  <1> SUFFICES ASSUME Init PROVE IInv
    OBVIOUS
  <1>1. TypeOK
    <2>1. runs \in [Runs -> Row]
      <3>1. Runs # {} => 1 \in 1..MaxRuns
        BY BoundsAssumption DEF Runs
      <3>2. QED
        BY <3>1 DEF Init, Absent, Row, Statuses
    <2>2. QED
      BY <2>1, BoundsAssumption DEF Init, TypeOK, Process, Idle, Request, Stages
  <1>2. Existing = {} /\ {} = 1..0 /\ 0 \in 0..MaxRuns
    BY BoundsAssumption DEF Init, Existing, Absent
  <1>3. TableSound
    <2>1. \E n \in 0..MaxRuns : Existing = 1..n
      BY <1>2
    <2>2. QED
      BY <1>2, <2>1 DEF Init, TableSound, KeyNamesOneRun, RetryChainIsLinear
  <1>4. ResultsSound /\ RequestsSound /\ WorkersSound
    BY DEF Init, ResultsSound, RequestsSound, WorkersSound, Idle, Process
  <1>5. QED
    BY <1>1, <1>3, <1>4 DEF IInv

\* Every step of the queue preserves the inductive invariant.
LEMMA NextIInv == IInv /\ [Next]_vars => IInv'
  <1> SUFFICES ASSUME IInv, [Next]_vars PROVE IInv'
    OBVIOUS
  <1>1. CASE UNCHANGED vars
    BY <1>1 DEF vars, IInv, TypeOK, TableSound, KeyNamesOneRun, RetryChainIsLinear, Existing,
       ResultsSound, RequestsSound, WorkersSound, Holds
  <1>2. QED
    BY <1>1, ClientIInv, WorkerIInv, BeatIInv DEF Next

\* For any number of runs, keys, requests and workers and any crash, one
\* idempotency key is one run, and the retries of a run form one line of
\* failed attempts, however submissions, executions and retries overlap.
THEOREM RunTableIsSound == Spec => []RunsAreSound
  <1>1. IInv => RunsAreSound
    BY DEF IInv, TableSound, RunsAreSound
  <1>2. QED
    BY <1>1, InitIInv, NextIInv, PTL DEF Spec

\* A worker that maps a run it lost lost it to a failure, for any number of
\* workers, beats, recoveries and crashes.
THEOREM NoRunHasTwoWorkers == Spec => []LostOnlyToFailure
  <1>1. IInv => LostOnlyToFailure
    <2> SUFFICES ASSUME IInv, NEW w \in Workers, worker[w].stage \in {"claimed", "mapping"}
                 PROVE  /\ Holds(w) \/ runs[worker[w].run].status = "failed"
                        /\ \A v \in Workers \ {w} : worker[v].run # worker[w].run
      BY DEF LostOnlyToFailure
    <2>1. QED
      BY DEF IInv, WorkersSound
  <1>2. QED
    BY <1>1, InitIInv, NextIInv, PTL DEF Spec

\* Evidence comes from committed completions only.
THEOREM EvidenceHasCompletion == Spec => []EvidenceIsFromCompletion
  <1>1. IInv => EvidenceIsFromCompletion
    BY DEF IInv, ResultsSound, EvidenceIsFromCompletion
  <1>2. QED
    BY <1>1, InitIInv, NextIInv, PTL DEF Spec

-----------------------------------------------------------------------------
(* A committed run is final.                                               *)

\* A run with results is neither waiting nor running nor new.
LEMMA CommittedRow ==
    ASSUME IInv, NEW r \in Runs, results[r] # "none"
    PROVE  runs[r].status \notin {"queued", "running", "absent"}
           /\ (NextRun \in Runs => NextRun # r)
  <1>1. runs[r].status \notin {"queued", "running", "absent"}
    BY DEF IInv, ResultsSound, Complete
  <1>2. NextRun \in Runs => runs[NextRun].status = "absent"
    BY NextRunIsNew DEF IInv, Absent
  <1>3. QED
    BY <1>1, <1>2

\* No step but the commit of a fail() touches a run with results.
LEMMA StepIsFinal ==
    ASSUME IInv, [Next]_vars, NEW r \in Runs, results[r] # "none"
    PROVE  /\ results'[r] = results[r]
           /\ \/ runs'[r] = runs[r]
              \/ \E c \in Clients : client[c].op = "fail" /\ client[c].run = r
                                    /\ client'[c] = Idle
  <1>1. /\ runs[r].status \notin {"queued", "running", "absent"}
        /\ NextRun \in Runs => NextRun # r
    BY CommittedRow
  <1>2. runs \in [Runs -> Row] /\ results \in [Runs -> {"none"} \cup Complete]
        /\ client \in [Clients -> Request]
    BY DEF IInv, TypeOK
  <1>3. ASSUME NEW c \in Clients, ClientStep(c)
        PROVE  /\ results'[r] = results[r]
               /\ \/ runs'[r] = runs[r]
                  \/ client[c].op = "fail" /\ client[c].run = r /\ client'[c] = Idle
    <2>1. CASE SubmitCommit(c) \/ ExecuteCommit(c) \/ RetryCommit(c)
      BY <1>1, <1>2, <2>1 DEF SubmitCommit, ExecuteCommit, RetryCommit
    <2>2. CASE FailCommit(c)
      <3>1. client'[c] = Idle /\ results' = results /\ client[c].op = "fail"
        BY <1>2, <2>2 DEF FailCommit
      <3>2. r # client[c].run => runs'[r] = runs[r]
        BY <1>2, <2>2 DEF FailCommit
      <3>3. QED
        BY <3>1, <3>2
    <2>3. QED
      BY <1>3, <2>1, <2>2 DEF ClientStep, SubmitRead, RetryRead, FailRead
  <1>4. ASSUME NEW w \in Workers,
               WorkerStep(w) \/ ClaimRun(w) \/ Heartbeat(w) \/ DatabaseError(w) \/ Crash(w)
        PROVE  results'[r] = results[r] /\ runs'[r] = runs[r]
    <2>1. Holds(w) => worker[w].run # r
      BY <1>1 DEF Holds
    <2>2. CASE Start(w)
      BY <1>1, <2>2 DEF Start, Stale
    <2>3. CASE ClaimNext(w) \/ ClaimRun(w)
      BY <1>1, <1>2, <2>3 DEF ClaimNext, ClaimRun, ClaimValues
    <2>4. ASSUME NEW outcome \in Complete, FinishExecute(w, outcome)
          PROVE  results'[r] = results[r] /\ runs'[r] = runs[r]
      BY <1>2, <2>1, <2>4 DEF FinishExecute
    <2>5. CASE FailClaimed(w)
      BY <1>2, <2>1, <2>5 DEF FailClaimed
    <2>6. CASE Heartbeat(w)
      BY <1>2, <2>1, <2>6 DEF Heartbeat
    <2>7. CASE BeginExecute(w) \/ ExecuteRaises(w) \/ RegisterEvidence(w) \/ DatabaseError(w) \/ Crash(w)
      BY <2>7 DEF BeginExecute, ExecuteRaises, RegisterEvidence, DatabaseError, Crash
    <2>8. QED
      BY <1>4, <2>2, <2>3, <2>4, <2>5, <2>6, <2>7 DEF WorkerStep
  <1>5. ASSUME NEW q \in Runs, Expire(q)
        PROVE  results'[r] = results[r] /\ runs'[r] = runs[r]
    BY <1>1, <1>2, <1>5 DEF Expire
  <1>6. CASE UNCHANGED vars
    BY <1>6 DEF vars
  <1>7. QED
    BY <1>3, <1>4, <1>5, <1>6 DEF Next

\* Once results are committed, no execution, late beat, recovery, retry or
\* failed evidence changes the run; only a fail() that read it earlier can.
THEOREM CommittedRunStaysFinal == Spec => CommittedRunIsFinal
  <1>1. IInv /\ [Next]_vars =>
          [\A r \in Runs : results[r] # "none" =>
             /\ results'[r] = results[r]
             /\ \/ runs'[r] = runs[r]
                \/ \E c \in Clients : client[c].op = "fail" /\ client[c].run = r
                                      /\ client'[c] = Idle]_vars
    BY StepIsFinal
  <1>2. QED
    BY <1>1, InitIInv, NextIInv, PTL DEF Spec, CommittedRunIsFinal

-----------------------------------------------------------------------------
(* The queue implements RunCustody.                                        *)

\* What the abstract specification sees of the tables.
Holder(r) == IF runs[r].status = "running" THEN runs[r].lease ELSE NoLease
phases == [r \in Runs |-> Phase(r)]
holders == [r \in Runs |-> Holder(r)]
outputs == {r \in Runs : results[r] # "none"}
parents == [r \in Runs |-> runs[r].retryOf]

\* The phase of a row by its status.
LEMMA PhaseOfStatus ==
    ASSUME NEW r \in Runs, runs[r].status \in Statuses
    PROVE  /\ runs[r].status \in Complete <=> Phase(r) = "done"
           /\ runs[r].status = "running" <=> Phase(r) = "held"
           /\ \A s \in {"queued", "failed", "absent"} : runs[r].status = s <=> Phase(r) = s
  BY DEF Phase, Statuses, Active, Complete

\* A step that changes the custody of one run only.
LEMMA OneRunView ==
    ASSUME NEW n \in Runs,
           \A r \in Runs \ {n} : /\ runs'[r].status = runs[r].status
                                 /\ runs'[r].lease = runs[r].lease
                                 /\ runs'[r].retryOf = runs[r].retryOf
                                 /\ results'[r] = results[r]
    PROVE  /\ phases' = [phases EXCEPT ![n] = Phase(n)']
           /\ holders' = [holders EXCEPT ![n] = Holder(n)']
           /\ outputs' = IF results'[n] # "none" THEN outputs \cup {n} ELSE outputs \ {n}
           /\ parents' = [parents EXCEPT ![n] = runs'[n].retryOf]
  <1>1. \A r \in Runs \ {n} : Phase(r)' = Phase(r) /\ Holder(r)' = Holder(r)
    BY DEF Phase, Holder
  <1>2. QED
    BY <1>1 DEF phases, holders, outputs, parents

\* A step that leaves statuses, leases and results alone is a stutter.
LEMMA SameView ==
    ASSUME \A r \in Runs : /\ runs'[r].status = runs[r].status
                           /\ runs'[r].lease = runs[r].lease
                           /\ runs'[r].retryOf = runs[r].retryOf
                           /\ results'[r] = results[r]
    PROVE  UNCHANGED <<phases, holders, outputs, parents>>
  <1>1. \A r \in Runs : Phase(r)' = Phase(r) /\ Holder(r)' = Holder(r)
    BY DEF Phase, Holder
  <1>2. QED
    BY <1>1 DEF phases, holders, outputs, parents

\* Types of the view and of the rows it is taken from.
LEMMA ViewTypes ==
    ASSUME IInv, NEW r \in Runs
    PROVE  /\ runs[r] \in Row /\ runs[r].status \in Statuses
           /\ phases[r] = Phase(r) /\ holders[r] = Holder(r)
           /\ r \in outputs <=> results[r] # "none"
           /\ parents[r] = runs[r].retryOf
           /\ runs[r].status \in Active \cup {"absent"} => results[r] = "none"
  BY DEF IInv, TypeOK, Row, phases, holders, outputs, parents, ResultsSound, Active, Complete

\* The steps of the abstract specification, in terms of the view.
LEMMA ViewSteps ==
    ASSUME NEW r \in Runs
    PROVE  /\ /\ phases[r] = "absent" /\ phases' = [phases EXCEPT ![r] = "queued"]
              /\ UNCHANGED <<holders, outputs, parents>>
              => Custody!Request(r)
           /\ /\ phases[r] = "absent" /\ phases' = [phases EXCEPT ![r] = "done"]
              /\ outputs' = outputs \cup {r} /\ UNCHANGED <<holders, parents>>
              => Custody!RequestDone(r)
           /\ \A p \in Runs :
                /\ phases[r] = "absent" /\ phases[p] = "failed"
                /\ \A q \in Runs : parents[q] # p
                /\ phases' = [phases EXCEPT ![r] = "queued"]
                /\ parents' = [parents EXCEPT ![r] = p]
                /\ UNCHANGED <<holders, outputs>>
                => Custody!Retry(r, p)
           /\ \A l \in Leases :
                /\ phases[r] = "queued" /\ phases' = [phases EXCEPT ![r] = "held"]
                /\ holders' = [holders EXCEPT ![r] = l] /\ UNCHANGED <<outputs, parents>>
                => Custody!Hand(r, l)
           /\ /\ phases[r] = "held" /\ r \notin outputs
              /\ phases' = [phases EXCEPT ![r] = "done"]
              /\ holders' = [holders EXCEPT ![r] = NoLease]
              /\ outputs' = outputs \cup {r} /\ UNCHANGED parents
              => Custody!Write(r)
           /\ /\ phases[r] = "done" /\ phases' = [phases EXCEPT ![r] = "failed"]
              /\ UNCHANGED <<holders, outputs, parents>>
              => Custody!Overrule(r)
  <1>1. /\ phases[r] = "absent" /\ phases' = [phases EXCEPT ![r] = "queued"]
        /\ UNCHANGED <<holders, outputs, parents>>
        => Custody!Request(r)
    BY DEF Custody!Request, phases, holders, outputs, parents, Holder
  <1>2. /\ phases[r] = "absent" /\ phases' = [phases EXCEPT ![r] = "done"]
        /\ outputs' = outputs \cup {r} /\ UNCHANGED <<holders, parents>>
        => Custody!RequestDone(r)
    BY DEF Custody!RequestDone, phases, holders, outputs, parents, Holder
  <1>3. ASSUME NEW p \in Runs, phases[r] = "absent", phases[p] = "failed",
               \A q \in Runs : parents[q] # p,
               phases' = [phases EXCEPT ![r] = "queued"],
               parents' = [parents EXCEPT ![r] = p],
               UNCHANGED <<holders, outputs>>
        PROVE  Custody!Retry(r, p)
    BY <1>3 DEF Custody!Retry, phases, holders, outputs, parents, Holder
  <1>4. ASSUME NEW l \in Leases, phases[r] = "queued", phases' = [phases EXCEPT ![r] = "held"],
               holders' = [holders EXCEPT ![r] = l], UNCHANGED <<outputs, parents>>
        PROVE  Custody!Hand(r, l)
    BY <1>4 DEF Custody!Hand, phases, holders, outputs, parents, Holder
  <1>5. /\ phases[r] = "held" /\ r \notin outputs
        /\ phases' = [phases EXCEPT ![r] = "done"]
        /\ holders' = [holders EXCEPT ![r] = NoLease]
        /\ outputs' = outputs \cup {r} /\ UNCHANGED parents
        => Custody!Write(r)
    BY DEF Custody!Write, phases, holders, outputs, parents, Holder
  <1>6. /\ phases[r] = "done" /\ phases' = [phases EXCEPT ![r] = "failed"]
        /\ UNCHANGED <<holders, outputs, parents>>
        => Custody!Overrule(r)
    BY DEF Custody!Overrule, phases, holders, outputs, parents, Holder
  <1>7. QED
    BY <1>1, <1>2, <1>3, <1>4, <1>5, <1>6

\* Failing a set of runs that are queued or held is the abstract failure.
LEMMA FailView ==
    ASSUME NEW S \in SUBSET Runs, S # {}, \A r \in S : phases[r] \in {"queued", "held"},
           phases' = [r \in Runs |-> IF r \in S THEN "failed" ELSE phases[r]],
           holders' = [r \in Runs |-> IF r \in S THEN NoLease ELSE holders[r]],
           UNCHANGED <<outputs, parents>>
    PROVE  Custody!Fail(S)
  BY DEF Custody!Fail, phases, holders, outputs, parents, Holder

\* Inserts and the commit of fail() are requests, retries, failures and
\* overrulings of the abstract specification.
LEMMA ClientKeepsCustody ==
    ASSUME IInv, NEW c \in Clients, ClientStep(c)
    PROVE  Custody!Next \/ UNCHANGED <<phases, holders, outputs, parents>>
  <1>1. TypeOK /\ TableSound
    BY DEF IInv
  <1>2. ASSUME NEW n \in Runs, n = NextRun
        PROVE  /\ phases[n] = "absent" /\ runs[n] = Absent
               /\ holders[n] = NoLease /\ n \notin outputs /\ parents[n] = NoRun
    <2>1. runs[n] = Absent
      BY <1>1, <1>2, NextRunIsNew
    <2>2. runs[n].status = "absent" /\ runs[n].retryOf = NoRun
      BY <2>1 DEF Absent
    <2>3. Phase(n) = "absent" /\ Holder(n) = NoLease
      BY <2>2 DEF Phase, Complete, Holder
    <2>4. QED
      BY <2>1, <2>2, <2>3, ViewTypes
  <1>3. ASSUME NEW n \in Runs, n = NextRun, NEW row, runs' = [runs EXCEPT ![n] = row],
               \A r \in Runs \ {n} : results'[r] = results[r],
               row.status # "running"
        PROVE  /\ phases' = [phases EXCEPT ![n] = Phase(n)'] /\ holders' = holders
               /\ outputs' = IF results'[n] # "none" THEN outputs \cup {n} ELSE outputs
               /\ parents' = [parents EXCEPT ![n] = row.retryOf] /\ runs'[n] = row
    <2>1. runs'[n] = row /\ \A r \in Runs \ {n} : runs'[r] = runs[r]
      BY <1>1, <1>3 DEF TypeOK
    <2>2. Holder(n)' = NoLease
      BY <1>3, <2>1 DEF Holder
    <2>3. /\ phases' = [phases EXCEPT ![n] = Phase(n)']
          /\ holders' = [holders EXCEPT ![n] = Holder(n)']
          /\ outputs' = IF results'[n] # "none" THEN outputs \cup {n} ELSE outputs \ {n}
          /\ parents' = [parents EXCEPT ![n] = row.retryOf]
      BY <1>3, <2>1, OneRunView
    <2>4. holders[n] = NoLease /\ n \notin outputs
      BY <1>2, <1>3
    <2>5. QED
      BY <2>1, <2>2, <2>3, <2>4 DEF holders
  <1>4. CASE SubmitCommit(c) /\ ~UNCHANGED runs
    <2>1. PICK n \in Runs : n = NextRun
      BY <1>4 DEF SubmitCommit
    <2> DEFINE row == SubmittedRow(n, client[c].key, client[c].fp)
    <2>2. runs' = [runs EXCEPT ![n] = row] /\ results' = results
      BY <1>4, <2>1 DEF SubmitCommit, SubmittedRow
    <2>3. row.status = "queued" /\ row.retryOf = NoRun
      BY DEF SubmittedRow, Absent
    <2> HIDE DEF row
    <2>4. /\ phases' = [phases EXCEPT ![n] = Phase(n)'] /\ holders' = holders
          /\ outputs' = IF results'[n] # "none" THEN outputs \cup {n} ELSE outputs
          /\ parents' = [parents EXCEPT ![n] = NoRun] /\ runs'[n] = row
      BY <1>3, <2>1, <2>2, <2>3
    <2>5. phases[n] = "absent" /\ n \notin outputs /\ parents[n] = NoRun
      BY <1>2, <2>1
    <2>6. outputs' = outputs /\ parents' = parents
      BY <2>2, <2>4, <2>5, ViewTypes DEF parents
    <2>7. Phase(n)' = "queued"
      BY <2>3, <2>4 DEF Phase, Complete
    <2>8. Custody!Request(n)
      BY <2>4, <2>5, <2>6, <2>7, ViewSteps
    <2>9. QED
      BY <2>8 DEF Custody!Next
  <1>5. CASE ExecuteCommit(c) /\ ~UNCHANGED <<runs, results, evidence>>
    <2>1. PICK n \in Runs, outcome \in Complete :
            /\ n = NextRun
            /\ runs' = [runs EXCEPT ![n] = ExecutedRow(client[c].key, client[c].fp, outcome)]
            /\ results' = [results EXCEPT ![n] = outcome]
      BY <1>5 DEF ExecuteCommit, ExecutedRow
    <2> DEFINE row == ExecutedRow(client[c].key, client[c].fp, outcome)
    <2>2. row.status = outcome /\ row.retryOf = NoRun
      BY DEF ExecutedRow, Absent
    <2>3. results'[n] = outcome /\ outcome # "none" /\ outcome # "running"
          /\ \A r \in Runs \ {n} : results'[r] = results[r]
      BY <1>1, <2>1 DEF TypeOK, Complete
    <2>4. runs' = [runs EXCEPT ![n] = row]
      BY <2>1
    <2> HIDE DEF row
    <2>5. /\ phases' = [phases EXCEPT ![n] = Phase(n)'] /\ holders' = holders
          /\ outputs' = outputs \cup {n} /\ parents' = [parents EXCEPT ![n] = NoRun]
          /\ runs'[n] = row
      BY <1>3, <2>1, <2>2, <2>3, <2>4
    <2>6. phases[n] = "absent" /\ parents[n] = NoRun
      BY <1>2, <2>1
    <2>7. Phase(n)' = "done" /\ parents' = parents
      <3>1. Phase(n)' = "done"
        BY <2>1, <2>2, <2>5 DEF Phase, Complete
      <3>2. parents' = parents
        BY <2>5, <2>6 DEF parents
      <3>3. QED
        BY <3>1, <3>2
    <2>8. Custody!RequestDone(n)
      BY <2>5, <2>6, <2>7, ViewSteps
    <2>9. QED
      BY <2>8 DEF Custody!Next
  <1>6. CASE RetryCommit(c) /\ ~UNCHANGED runs
    <2>1. PICK n \in Runs : n = NextRun
      BY <1>6 DEF RetryCommit
    <2>2. PICK p \in Runs : p = client[c].run /\ runs[p].status = "failed"
      BY <1>1, <1>6, RequestTypes DEF RetryCommit, IInv, RequestsSound
    <2>3. PICK row : row = Child(p, client[c].key)
      OBVIOUS
    <2>4. /\ runs' = [runs EXCEPT ![n] = row] /\ results' = results /\ ~HasRetry(p)
      BY <1>6, <2>1, <2>2, <2>3 DEF RetryCommit
    <2>5. row.status = "queued" /\ row.retryOf = p
      BY <2>3 DEF Child, Absent
    <2>6. \A q \in Runs : parents[q] # p
      <3> SUFFICES ASSUME NEW q \in Runs PROVE parents[q] # p
        OBVIOUS
      <3>1. CASE q \in Existing
        BY <2>4, <3>1 DEF HasRetry, parents
      <3>2. CASE q \notin Existing
        BY <1>1, <2>2, <3>2 DEF TableSound, Existing, Absent, parents, Runs, NoRun
      <3>3. QED
        BY <3>1, <3>2
    <2>7. /\ phases' = [phases EXCEPT ![n] = Phase(n)'] /\ holders' = holders
          /\ outputs' = IF results'[n] # "none" THEN outputs \cup {n} ELSE outputs
          /\ parents' = [parents EXCEPT ![n] = p] /\ runs'[n] = row
      <3>1. \A r \in Runs \ {n} : results'[r] = results[r]
        BY <2>4
      <3>2. /\ phases' = [phases EXCEPT ![n] = Phase(n)'] /\ holders' = holders
            /\ outputs' = IF results'[n] # "none" THEN outputs \cup {n} ELSE outputs
            /\ parents' = [parents EXCEPT ![n] = row.retryOf] /\ runs'[n] = row
        <4>1. runs' = [runs EXCEPT ![n] = row] /\ row.status # "running"
          BY <2>4, <2>5
        <4>2. QED
          BY <1>3, <2>1, <3>1, <4>1
      <3>3. QED
        BY <2>5, <3>2
    <2>8. phases[n] = "absent" /\ n \notin outputs
      BY <1>2, <2>1
    <2>9. outputs' = outputs
      BY <2>4, <2>7, <2>8, ViewTypes
    <2>10. Phase(n)' = "queued" /\ phases[p] = "failed"
      BY <2>2, <2>5, <2>7 DEF Phase, Complete, phases
    <2>11. Custody!Retry(n, p)
      BY <2>6, <2>7, <2>8, <2>9, <2>10, ViewSteps
    <2>12. QED
      BY <2>11 DEF Custody!Next
  <1>7. CASE FailCommit(c)
    <2>1. PICK r \in Runs : r = client[c].run /\ runs[r].status # "absent" /\ results' = results
      BY <1>1, <1>7, RequestTypes DEF FailCommit, IInv, RequestsSound
    <2>2. /\ runs'[r].status = "failed" /\ runs'[r].retryOf = runs[r].retryOf
          /\ runs'[r].lease = runs[r].lease
          /\ \A q \in Runs \ {r} : runs'[q] = runs[q]
      BY <1>1, <1>7, <2>1 DEF FailCommit, TypeOK, Row
    <2>3. Phase(r)' = "failed" /\ Holder(r)' = NoLease
      BY <2>2 DEF Phase, Complete, Holder
    <2>4. /\ phases' = [phases EXCEPT ![r] = "failed"]
          /\ holders' = [holders EXCEPT ![r] = NoLease]
          /\ outputs' = IF results'[r] # "none" THEN outputs \cup {r} ELSE outputs \ {r}
          /\ parents' = [parents EXCEPT ![r] = runs'[r].retryOf]
      BY <2>1, <2>2, <2>3, OneRunView
    <2>5. outputs' = outputs /\ parents' = parents
      BY <2>1, <2>2, <2>4, ViewTypes DEF parents
    <2>6. CASE runs[r].status \in {"queued", "running"}
      <3>1. phases[r] \in {"queued", "held"}
        BY <2>6 DEF Phase, Complete, phases
      <3>2. /\ phases' = [q \in Runs |-> IF q \in {r} THEN "failed" ELSE phases[q]]
            /\ holders' = [q \in Runs |-> IF q \in {r} THEN NoLease ELSE holders[q]]
        BY <2>4 DEF phases, holders
      <3>3. Custody!Fail({r})
        BY <2>5, <3>1, <3>2, FailView
      <3>4. QED
        BY <3>3 DEF Custody!Next
    <2>7. CASE runs[r].status \in Complete
      <3>1. Phase(r) = "done" /\ Holder(r) = NoLease
        BY <2>7 DEF Phase, Holder, Complete
      <3>2. holders' = holders
        BY <2>1, <2>4, <3>1 DEF holders
      <3>3. Custody!Overrule(r)
        BY <2>4, <2>5, <3>1, <3>2, ViewSteps, ViewTypes
      <3>4. QED
        BY <3>3 DEF Custody!Next
    <2>8. CASE runs[r].status = "failed"
      BY <2>1, <2>2, <2>8, SameView
    <2>9. QED
      BY <2>1, <2>6, <2>7, <2>8, ViewTypes DEF Statuses, Active
  <1>8. CASE UNCHANGED <<runs, results>>
    BY <1>8, SameView
  <1>9. QED
    BY <1>4, <1>5, <1>6, <1>7, <1>8
       DEF ClientStep, SubmitRead, RetryRead, FailRead, SubmitCommit, ExecuteCommit, RetryCommit

\* Claims hand a run over, finishing writes, failing and recovery fail.
LEMMA WorkerKeepsCustody ==
    ASSUME IInv, NEW w \in Workers,
           WorkerStep(w) \/ ClaimRun(w) \/ Heartbeat(w) \/ DatabaseError(w) \/ Crash(w)
    PROVE  Custody!Next \/ UNCHANGED <<phases, holders, outputs, parents>>
  <1>1. runs \in [Runs -> Row] /\ results \in [Runs -> {"none"} \cup Complete]
    BY DEF IInv, TypeOK
  <1>2. ASSUME NEW r \in Runs, NEW pump, runs[r].status = "queued", ClaimValues(r, w, pump)
        PROVE  Custody!Next
    <2>0. PICK l \in Leases : l = nextLease
      BY <1>2 DEF ClaimValues
    <2>1. /\ runs'[r].status = "running" /\ runs'[r].lease = l
          /\ runs'[r].retryOf = runs[r].retryOf /\ results' = results
          /\ \A q \in Runs \ {r} : runs'[q] = runs[q]
      BY <1>1, <1>2, <2>0 DEF ClaimValues, Row
    <2>2. Phase(r) = "queued" /\ Phase(r)' = "held" /\ Holder(r)' = l
      BY <1>2, <2>1 DEF Phase, Holder, Complete
    <2>3. /\ phases' = [phases EXCEPT ![r] = "held"]
          /\ holders' = [holders EXCEPT ![r] = l]
          /\ outputs' = IF results'[r] # "none" THEN outputs \cup {r} ELSE outputs \ {r}
          /\ parents' = [parents EXCEPT ![r] = runs'[r].retryOf]
      BY <2>1, <2>2, OneRunView
    <2>4. outputs' = outputs /\ parents' = parents
      BY <1>2, <2>1, <2>3, ViewTypes DEF parents, Active
    <2>5. phases[r] = "queued"
      BY <2>2, ViewTypes
    <2>6. Custody!Hand(r, l)
      BY <2>3, <2>4, <2>5, ViewSteps
    <2>7. QED
      BY <2>6 DEF Custody!Next
  <1>3. CASE Start(w)
    <2>1. PICK S \in SUBSET Stale :
            runs' = [r \in Runs |-> IF r \in S THEN Recovered(runs[r]) ELSE runs[r]]
      BY <1>3 DEF Start
    <2>2. \A r \in Runs :
            /\ r \in S => /\ runs[r].status = "running" /\ runs'[r].status = "failed"
                          /\ runs'[r].retryOf = runs[r].retryOf
            /\ r \notin S => runs'[r] = runs[r]
      BY <1>1, <2>1 DEF Stale, Recovered, Row
    <2>3. \A r \in Runs : /\ r \in S => Phase(r) = "held" /\ Phase(r)' = "failed" /\ Holder(r)' = NoLease
                          /\ r \notin S => Phase(r)' = Phase(r) /\ Holder(r)' = Holder(r)
      BY <2>2 DEF Phase, Holder, Complete
    <2>4. /\ phases' = [r \in Runs |-> IF r \in S THEN "failed" ELSE phases[r]]
          /\ holders' = [r \in Runs |-> IF r \in S THEN NoLease ELSE holders[r]]
          /\ parents' = parents /\ outputs' = outputs
      BY <1>3, <2>2, <2>3 DEF Start, phases, holders, parents, outputs
    <2>5. CASE S = {}
      BY <2>4, <2>5 DEF phases, holders
    <2>6. CASE S # {}
      <3>1. S \subseteq Runs /\ \A r \in S : phases[r] \in {"queued", "held"}
        BY <2>3 DEF phases, Stale
      <3>2. Custody!Fail(S)
        BY <2>4, <2>6, <3>1, FailView
      <3>3. QED
        BY <3>1, <3>2 DEF Custody!Next
    <2>7. QED
      BY <2>5, <2>6
  <1>4. ASSUME NEW outcome \in Complete, FinishExecute(w, outcome), Holds(w)
        PROVE  Custody!Next
    <2>1. PICK r \in Runs : r = worker[w].run /\ runs[r].status = "running"
      BY <1>4, WorkerTypes
    <2>2. /\ runs'[r].status = outcome /\ runs'[r].retryOf = runs[r].retryOf
          /\ \A q \in Runs \ {r} : runs'[q] = runs[q] /\ results'[q] = results[q]
          /\ results'[r] = outcome
      BY <1>1, <1>4, <2>1 DEF FinishExecute, Row
    <2>3. Phase(r) = "held" /\ Phase(r)' = "done" /\ Holder(r)' = NoLease /\ outcome # "none"
      BY <2>1, <2>2 DEF Phase, Holder, Complete
    <2>4. /\ phases' = [phases EXCEPT ![r] = "done"]
          /\ holders' = [holders EXCEPT ![r] = NoLease]
          /\ outputs' = outputs \cup {r}
          /\ parents' = [parents EXCEPT ![r] = runs'[r].retryOf]
      BY <2>1, <2>2, <2>3, OneRunView
    <2>5. parents' = parents /\ r \notin outputs
      BY <2>1, <2>2, <2>4, ViewTypes DEF parents, Active
    <2>6. Custody!Write(r)
      BY <2>3, <2>4, <2>5, ViewSteps, ViewTypes
    <2>7. QED
      BY <2>1, <2>6 DEF Custody!Next
  <1>5. CASE FailClaimed(w) /\ Holds(w)
    <2>1. PICK r \in Runs : r = worker[w].run /\ runs[r].status = "running"
      BY <1>5, WorkerTypes
    <2>2. /\ runs'[r].status = "failed" /\ runs'[r].retryOf = runs[r].retryOf
          /\ \A q \in Runs \ {r} : runs'[q] = runs[q]
          /\ results' = results
      BY <1>1, <1>5, <2>1 DEF FailClaimed, Row
    <2>3. Phase(r) = "held" /\ Phase(r)' = "failed" /\ Holder(r)' = NoLease
      BY <2>1, <2>2 DEF Phase, Holder, Complete
    <2>4. /\ phases' = [phases EXCEPT ![r] = "failed"]
          /\ holders' = [holders EXCEPT ![r] = NoLease]
          /\ outputs' = IF results'[r] # "none" THEN outputs \cup {r} ELSE outputs \ {r}
          /\ parents' = [parents EXCEPT ![r] = runs'[r].retryOf]
      BY <2>1, <2>2, <2>3, OneRunView
    <2>5. outputs' = outputs /\ parents' = parents
      BY <2>1, <2>2, <2>4, ViewTypes DEF parents
    <2>6. /\ phases' = [q \in Runs |-> IF q \in {r} THEN "failed" ELSE phases[q]]
          /\ holders' = [q \in Runs |-> IF q \in {r} THEN NoLease ELSE holders[q]]
      BY <2>4 DEF phases, holders
    <2>7. Custody!Fail({r})
      BY <2>3, <2>5, <2>6, FailView, ViewTypes
    <2>8. QED
      BY <2>7 DEF Custody!Next
  <1>6. CASE Heartbeat(w)
    <2>1. \A q \in Runs : /\ runs'[q].status = runs[q].status /\ runs'[q].lease = runs[q].lease
                          /\ runs'[q].retryOf = runs[q].retryOf
      BY <1>1, <1>6, WorkerTypes DEF Heartbeat, Row
    <2>2. QED
      BY <1>6, <2>1, SameView DEF Heartbeat
  <1>7. CASE UNCHANGED <<runs, results>>
    BY <1>7, SameView
  <1>8. QED
    BY <1>2, <1>3, <1>4, <1>5, <1>6, <1>7
       DEF WorkerStep, ClaimNext, ClaimRun, BeginExecute, FinishExecute, ExecuteRaises, FailClaimed,
           RegisterEvidence, DatabaseError, Crash

\* Leases, heartbeats, crashes, recoveries and overlapping requests never
\* show in the custody of a run: it is handed over once, its results are
\* written once, and it is retried once and only after it failed.
THEOREM QueueImplementsCustody == Spec => ImplementsCustody
  <1>1. Init => Custody!Init
    BY DEF Init, Custody!Init, Phase, Absent, Complete
  <1>2. IInv /\ [Next]_vars => [Custody!Next]_Custody!vars
    <2> SUFFICES ASSUME IInv, [Next]_vars
                 PROVE  Custody!Next \/ UNCHANGED <<phases, holders, outputs, parents>>
      BY DEF Custody!vars, phases, holders, outputs, parents, Holder
    <2>1. ASSUME NEW r \in Runs, Expire(r)
          PROVE  UNCHANGED <<phases, holders, outputs, parents>>
      <3>1. \A q \in Runs : /\ runs'[q].status = runs[q].status /\ runs'[q].lease = runs[q].lease
                            /\ runs'[q].retryOf = runs[q].retryOf
        BY <2>1 DEF Expire, IInv, TypeOK, Row
      <3>2. QED
        BY <2>1, <3>1, SameView DEF Expire
    <2>2. CASE UNCHANGED vars
      BY <2>2, SameView DEF vars
    <2>3. QED
      BY <2>1, <2>2, ClientKeepsCustody, WorkerKeepsCustody DEF Next
  <1>3. QED
    BY <1>1, <1>2, InitIInv, NextIInv, PTL DEF Spec, ImplementsCustody, Custody!Spec
=============================================================================
