--------------------------- MODULE RecoveryLedger ---------------------------
(***************************************************************************)
(* The recovery execution and verified-value ledger of one organization    *)
(* (app/services/recovery_ledger_service.py, app/models/recovery_ledger.py *)
(* and app/api/recovery_ledger_routes.py).                                 *)
(*                                                                         *)
(* The database runs READ COMMITTED.  A request reads and checks in one    *)
(* step and flushes and commits in a later one.  verify keeps its          *)
(* measurement, and reversal its ledger entry, locked in between (SELECT   *)
(* FOR UPDATE); every other request holds nothing, and its commit is held  *)
(* back only by what is unique in the tables and by those row locks.       *)
(*                                                                         *)
(* Idempotency keys are unique per organization in                         *)
(* recovery_finance_verifications and verified_value_ledger_entries, so a  *)
(* key stands for the row that has it.                                     *)
(***************************************************************************)
EXTENDS Integers, FiniteSets, FiniteSetsExt

CONSTANTS
    Cases,        \* recovery cases, each with one execution
    Measurements, \* value measurements, by idempotency key
    CaseOf,       \* the case of the execution a measurement belongs to
    Users,        \* actors of submissions and finance reviews
    Keys,         \* bound: idempotency keys clients send
    Amounts,      \* amounts clients send (Field(gt=0))
    Decisions,    \* finance_review decisions clients send
    Handlers,     \* bound: requests in flight at once
    None

ASSUME CaseOfAssumption == CaseOf \in [Measurements -> Cases]
ASSUME AmountsAssumption == Amounts \subseteq Nat \ {0}

ReviewDecisions == {"needs_information", "rejected"}

Verification == [m : Measurements, decision : {"approved"} \cup ReviewDecisions,
                 amount : Nat, reviewer : Users]

ASSUME DecisionsAssumption == Decisions \subseteq ReviewDecisions
ASSUME NoneAssumption == None \notin Users \cup Verification

VARIABLES
    exec,         \* recovery_executions: status, and whether completed_at is set
    measurement,  \* recovery_value_measurements: status and submitted_by_user_id
    verification, \* recovery_finance_verifications, by key
    ledger,       \* verified_value_ledger_entries, by key
    audit,        \* unique keys of recovery_audit_events
    call          \* requests in flight

tables == <<exec, measurement, verification, ledger, audit>>
vars == <<tables, call>>

ExecStatuses == {"none", "planned", "in_progress", "awaiting_measurement", "measured"}
MeasurementStatuses == {"absent", "draft", "submitted", "needs_information",
                        "rejected", "verified"}

EntryTypes == {"verified_recovery", "adjustment_positive", "adjustment_negative", "reversal"}

\* A ledger entry: of is the entry it adjusts or reverses.
Entry == [case : Cases, seq : Nat \ {0}, type : EntryTypes, amount : Int \ {0},
          m : Measurements, of : Keys \cup {None}]

AuditKeys == ({"submit"} \X Measurements) \cup ({"review", "verify", "adjust", "reverse"} \X Keys)

\* A request past its checks: what it read and what it will write.
Call == [op : {"idle", "start", "complete", "measure", "submit", "review",
               "verify", "adjust", "reverse"},
         case : Cases \cup {None}, m : Measurements \cup {None},
         user : Users \cup {None}, key : Keys \cup {None},
         of : Keys \cup {None}, amount : Nat,
         to : ReviewDecisions \cup {"none"},
         dirty : BOOLEAN,             \* measure: execution.status has to change
         entry : Entry \cup {None}]   \* the new ledger entry; None: prior entry found

Idle == [op |-> "idle", case |-> None, m |-> None, user |-> None, key |-> None,
         of |-> None, amount |-> 0, to |-> "none", dirty |-> FALSE, entry |-> None]

\* Column types, and the check constraint that no amount is zero.
TypeOK ==
    /\ exec \in [Cases -> [status : ExecStatuses, done : BOOLEAN]]
    /\ measurement \in [Measurements -> [status : MeasurementStatuses, by : Users \cup {None}]]
    /\ verification \in [Keys -> Verification \cup {None}]
    /\ ledger \in [Keys -> Entry \cup {None}]
    /\ audit \subseteq AuditKeys
    /\ call \in [Handlers -> Call]

\* Cases opened on an approved baseline, nothing executed yet.
Init ==
    /\ exec = [c \in Cases |-> [status |-> "none", done |-> FALSE]]
    /\ measurement = [m \in Measurements |-> [status |-> "absent", by |-> None]]
    /\ verification = [k \in Keys |-> None]
    /\ ledger = [k \in Keys |-> None]
    /\ audit = {}
    /\ call = [h \in Handlers |-> Idle]

-----------------------------------------------------------------------------
(* What requests read.                                                     *)

Posted == {k \in Keys : ledger[k] # None}

PostedIn(c) == {k \in Posted : ledger[k].case = c}

Sequences(c) == {ledger[k].seq : k \in PostedIn(c)}

\* max(entry_sequence), or 0, plus one.
NextSequence(c) == IF Sequences(c) = {} THEN 1 ELSE Max(Sequences(c)) + 1

Abs(n) == IF n < 0 THEN -n ELSE n

Reversals(k) == {r \in Posted : ledger[r].type = "reversal" /\ ledger[r].of = k}

\* The sum of the reversals of an entry, without its sign.
ReversedTotal(k) == Abs(SumFunctionOnSet([r \in Posted |-> ledger[r].amount], Reversals(k)))

\* _ledger_entry: an entry with this key already there is returned as it is.
LedgerEntry(c, k, type, amount, m, of) ==
    IF ledger[k] # None
    THEN None
    ELSE [case |-> c, seq |-> NextSequence(c), type |-> type, amount |-> amount,
          m |-> m, of |-> of]

\* _require_separate_reviewer
SeparateReviewer(m, u) == measurement[m].by # u

\* Rows locked by a request in flight.
MeasurementLocked(m) == \E h \in Handlers : call[h].op = "verify" /\ call[h].m = m
EntryLocked(k) == \E h \in Handlers : call[h].op = "reverse" /\ call[h].of = k

-----------------------------------------------------------------------------
(* Requests: reads and checks.                                             *)

Receive(h, c) ==
    /\ call[h] = Idle
    /\ call' = [call EXCEPT ![h] = c]
    /\ UNCHANGED tables

\* create_execution for an approved action, by its idempotency key.
CreateExecution(c) ==
    /\ exec[c].status = "none"
    /\ exec' = [exec EXCEPT ![c].status = "planned"]
    /\ UNCHANGED <<measurement, verification, ledger, audit, call>>

\* transition_execution
StartExecution(h, c) ==
    /\ exec[c].status = "planned"
    /\ Receive(h, [Idle EXCEPT !.op = "start", !.case = c])

CompleteExecution(h, c) ==
    /\ exec[c].status = "in_progress"
    /\ Receive(h, [Idle EXCEPT !.op = "complete", !.case = c])

\* create_measurement.  The schema wants evidence, so the evidence count
\* submit_measurement tests is never zero.
CreateMeasurement(h, m) ==
    /\ measurement[m].status = "absent"
    /\ exec[CaseOf[m]].status \in {"awaiting_measurement", "measured"}
    /\ Receive(h, [Idle EXCEPT !.op = "measure", !.m = m, !.case = CaseOf[m],
                               !.dirty = (exec[CaseOf[m]].status # "measured")])

SubmitMeasurement(h, m, u) ==
    /\ measurement[m].status = "draft"
    /\ Receive(h, [Idle EXCEPT !.op = "submit", !.m = m, !.user = u])

\* finance_review: no lock.
FinanceReview(h, m, u, k, decision) ==
    /\ SeparateReviewer(m, u)
    /\ measurement[m].status = "submitted"
    /\ Receive(h, [Idle EXCEPT !.op = "review", !.m = m, !.user = u, !.key = k,
                               !.to = decision])

Verify_Again(h, m, u, k, amount) ==
    /\ ~MeasurementLocked(m)
    /\ SeparateReviewer(m, u)
    /\ verification[k] = None
    /\ measurement[m].status \in {"submitted", "verified"}
    /\ Receive(h, [Idle EXCEPT !.op = "verify", !.m = m, !.user = u, !.key = k,
                               !.amount = amount,
                               !.entry = LedgerEntry(CaseOf[m], k, "verified_recovery",
                                                     amount, m, None)])

\* verify, with the measurement locked from here to the commit.  With a
\* verification of that key on file it answers with that one's ledger entry,
\* or fails on the unique key: nothing changes.
Verify(h, m, u, k, amount) ==
    /\ ~MeasurementLocked(m)
    /\ SeparateReviewer(m, u)
    /\ verification[k] = None
    /\ measurement[m].status = "submitted"
    /\ Receive(h, [Idle EXCEPT !.op = "verify", !.m = m, !.user = u, !.key = k,
                               !.amount = amount,
                               !.entry = LedgerEntry(CaseOf[m], k, "verified_recovery",
                                                     amount, m, None)])

Adjustment(h, original, k, amount, type) ==
    LET e == ledger[original] IN
    /\ original \in Posted
    /\ Receive(h, [Idle EXCEPT !.op = "adjust", !.key = k, !.of = original,
                               !.entry = LedgerEntry(e.case, k, type,
                                 IF type = "adjustment_positive" THEN amount ELSE -amount,
                                 e.m, original)])

Reversal_WholeAmount(h, original, k, amount) ==
    LET e == ledger[original] IN
    /\ original \in Posted
    /\ ~EntryLocked(original)
    /\ amount <= Abs(e.amount)
    /\ Receive(h, [Idle EXCEPT !.op = "reverse", !.key = k, !.of = original,
                               !.entry = LedgerEntry(e.case, k, "reversal", -amount,
                                                     e.m, original)])

\* reversal.  The lock makes the remaining value it checks stay true until
\* it commits.
Reversal(h, original, k, amount) ==
    LET e == ledger[original] IN
    /\ original \in Posted
    /\ ~EntryLocked(original)
    /\ amount <= Abs(e.amount) - ReversedTotal(original)
    /\ Receive(h, [Idle EXCEPT !.op = "reverse", !.key = k, !.of = original,
                               !.entry = LedgerEntry(e.case, k, "reversal", -amount,
                                                     e.m, original)])

-----------------------------------------------------------------------------
(* Requests: flush and commit, if every constraint allows it.              *)

Answered(h) == call' = [call EXCEPT ![h] = Idle]

\* The audit event is new: (organization_id, idempotency_key) is unique.
Audited(event) == event \notin audit /\ audit' = audit \cup {event}

CommitTransition(h) ==
    LET c == call[h] IN
    /\ c.op \in {"start", "complete"}
    /\ exec' = [exec EXCEPT ![c.case] =
         IF c.op = "start" THEN [@ EXCEPT !.status = "in_progress"]
                           ELSE [status |-> "awaiting_measurement", done |-> TRUE]]
    /\ Answered(h)
    /\ UNCHANGED <<measurement, verification, ledger, audit>>

CommitMeasurement(h) ==
    LET c == call[h] IN
    /\ c.op = "measure"
    /\ measurement[c.m].status = "absent"
    /\ measurement' = [measurement EXCEPT ![c.m].status = "draft"]
    /\ exec' = IF c.dirty THEN [exec EXCEPT ![c.case].status = "measured"] ELSE exec
    /\ Answered(h)
    /\ UNCHANGED <<verification, ledger, audit>>

CommitSubmission_NoAudit(h) ==
    LET c == call[h] IN
    /\ c.op = "submit"
    /\ ~MeasurementLocked(c.m)
    /\ measurement' = [measurement EXCEPT ![c.m] = [status |-> "submitted", by |-> c.user]]
    /\ Answered(h)
    /\ UNCHANGED <<exec, verification, ledger, audit>>

CommitSubmission(h) ==
    LET c == call[h] IN
    /\ c.op = "submit"
    /\ ~MeasurementLocked(c.m)
    /\ Audited(<<"submit", c.m>>)
    /\ measurement' = [measurement EXCEPT ![c.m] = [status |-> "submitted", by |-> c.user]]
    /\ Answered(h)
    /\ UNCHANGED <<exec, verification, ledger>>

CommitReview(h) ==
    LET c == call[h] IN
    /\ c.op = "review"
    /\ ~MeasurementLocked(c.m)
    /\ verification[c.key] = None
    /\ verification' = [verification EXCEPT ![c.key] =
         [m |-> c.m, decision |-> c.to, amount |-> 0, reviewer |-> c.user]]
    /\ measurement' = [measurement EXCEPT ![c.m].status = c.to]
    /\ Audited(<<"review", c.key>>)
    /\ Answered(h)
    /\ UNCHANGED <<exec, ledger>>

Post_Upsert(k, e) ==
    \/ e = None /\ UNCHANGED ledger
    \/ /\ e # None
       /\ \A l \in PostedIn(e.case) \ {k} : ledger[l].seq # e.seq
       /\ ledger' = [ledger EXCEPT ![k] = e]

Post_AnySequence(k, e) ==
    \/ e = None /\ UNCHANGED ledger
    \/ /\ e # None
       /\ ledger[k] = None
       /\ ledger' = [ledger EXCEPT ![k] = e]

\* The insert of _ledger_entry: the key is unique in the organization and
\* the sequence number in the case.
Post(k, e) ==
    \/ e = None /\ UNCHANGED ledger
    \/ /\ e # None
       /\ ledger[k] = None
       /\ e.seq \notin Sequences(e.case)
       /\ ledger' = [ledger EXCEPT ![k] = e]

\* The approval, its ledger entry and the status, in one transaction.  The
\* amount of an entry found under the key is not compared with the request.
CommitVerification(h) ==
    LET c == call[h] IN
    /\ c.op = "verify"
    /\ verification[c.key] = None
    /\ verification' = [verification EXCEPT ![c.key] =
         [m |-> c.m, decision |-> "approved", amount |-> c.amount, reviewer |-> c.user]]
    /\ Post(c.key, c.entry)
    /\ measurement' = [measurement EXCEPT ![c.m].status = "verified"]
    /\ Audited(<<"verify", c.key>>)
    /\ Answered(h)
    /\ UNCHANGED exec

\* Adjustments and reversals; the foreign key of an adjustment waits for a
\* reversal that has the same entry locked.
CommitMutation(h) ==
    LET c == call[h] IN
    /\ c.op \in {"adjust", "reverse"}
    /\ (c.op = "adjust" /\ c.entry # None) => ~EntryLocked(c.of)
    /\ Post(c.key, c.entry)
    /\ Audited(<<c.op, c.key>>)
    /\ Answered(h)
    /\ UNCHANGED <<exec, measurement, verification>>

\* A constraint fails, PostgreSQL breaks a deadlock, or the process dies.
Abort(h) ==
    /\ call[h] # Idle
    /\ Answered(h)
    /\ UNCHANGED tables

Operations(h) ==
    \/ \E c \in Cases : StartExecution(h, c) \/ CompleteExecution(h, c)
    \/ \E m \in Measurements :
         \/ CreateMeasurement(h, m)
         \/ \E u \in Users :
              \/ SubmitMeasurement(h, m, u)
              \/ \E k \in Keys :
                   \/ \E decision \in Decisions : FinanceReview(h, m, u, k, decision)
                   \/ \E amount \in Amounts : Verify(h, m, u, k, amount)

Corrections(h) ==
    \E original, k \in Keys, amount \in Amounts :
        \/ \E type \in {"adjustment_positive", "adjustment_negative"} :
             Adjustment(h, original, k, amount, type)
        \/ Reversal(h, original, k, amount)

Commit(h) ==
    \/ CommitTransition(h) \/ CommitMeasurement(h) \/ CommitSubmission(h)
    \/ CommitReview(h) \/ CommitVerification(h) \/ CommitMutation(h)

Next ==
    \/ \E c \in Cases : CreateExecution(c)
    \/ \E h \in Handlers : Operations(h) \/ Corrections(h) \/ Commit(h) \/ Abort(h)

Spec == Init /\ [][Next]_vars

-----------------------------------------------------------------------------
(* Properties.                                                             *)

\* The entries of a case are numbered 1, 2, 3, ... with no gap and no number
\* twice, although every request computes max + 1 with nothing locked.
SequenceIsContiguous ==
    \A c \in Cases :
        /\ \A n \in Sequences(c) : 1..n \subseteq Sequences(c)
        /\ \A k, l \in PostedIn(c) : ledger[k].seq = ledger[l].seq => k = l

\* The reversals of an entry never sum to more than the entry: concurrent
\* reversals cannot both use up the same remaining value.
ReversalsBounded ==
    \A k \in Posted :
        SumFunctionOnSet([r \in Posted |-> Abs(ledger[r].amount)], Reversals(k))
            <= Abs(ledger[k].amount)

\* Nobody decides on a measurement that carries their own submission, even
\* when two submissions of it race a verification.
DutiesSegregated ==
    \A k \in Keys : verification[k] # None =>
        verification[k].reviewer # measurement[verification[k].m].by

Approved(k) == verification[k] # None /\ verification[k].decision = "approved"
PostsValue(k) == k \in Posted /\ ledger[k].type = "verified_recovery"

\* A measurement's value is approved at most once and posted at most once,
\* however many verifications and retries of it overlap.
VerifiedOnce ==
    \A k, l \in Keys :
        /\ Approved(k) /\ Approved(l) /\ verification[k].m = verification[l].m => k = l
        /\ PostsValue(k) /\ PostsValue(l) /\ ledger[k].m = ledger[l].m => k = l

\* No measurement precedes the completion of its execution, even when
\* transitions that read an older status commit late.
MeasuredAfterCompletion ==
    \A m \in Measurements : measurement[m].status # "absent" => exec[CaseOf[m]].done

\* "posted history is never rewritten": no later request, also one that
\* reuses the key, changes or removes a posted entry.
PostedIsImmutable ==
    [][\A k \in Posted : ledger'[k] = ledger[k]]_vars

\* The ledger is in order: entries are numbered without a gap, and no
\* measurement precedes the completion of its execution.
LedgerIsSound == TypeOK /\ SequenceIsContiguous /\ MeasuredAfterCompletion
=============================================================================
