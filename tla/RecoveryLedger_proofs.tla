------------------------ MODULE RecoveryLedger_proofs ------------------------
(***************************************************************************)
(* RecoveryLedger keeps its books straight for any number of cases,        *)
(* measurements, users, keys and overlapping requests.                     *)
(***************************************************************************)
EXTENDS RecoveryLedger, FiniteSetTheorems, WellFoundedInduction, TLAPS

-----------------------------------------------------------------------------
(* The inductive invariant.                                                *)

\* The parameters a request of each kind carries.
WellFormed(c) ==
    /\ c.op \in {"start", "complete"} => c.case \in Cases
    /\ c.op = "measure" => c.m \in Measurements /\ c.case = CaseOf[c.m]
    /\ c.op = "submit" => c.m \in Measurements /\ c.user \in Users
    /\ c.op = "review" => /\ c.m \in Measurements /\ c.user \in Users
                          /\ c.key \in Keys /\ c.to \in ReviewDecisions
    /\ c.op = "verify" => /\ c.m \in Measurements /\ c.user \in Users /\ c.key \in Keys
                          /\ c.entry # None => /\ c.entry.type = "verified_recovery"
                                               /\ c.entry.m = c.m
    /\ c.op \in {"adjust", "reverse"} =>
         /\ c.key \in Keys
         /\ c.entry # None => c.entry.type # "verified_recovery"

Numbered(S, n) == n \in Nat => 1..n \subseteq S

\* What a request saw that no later step can take back.
SoundMeasure(c) ==
    /\ c.op = "measure" => exec[c.case].done = TRUE
    /\ c.op \in {"submit", "review", "verify"} => exec[CaseOf[c.m]].done = TRUE
SoundReviewer(c) ==
    c.op \in {"review", "verify"} =>
        /\ <<"submit", c.m>> \in audit
        /\ c.user # measurement[c.m].by
SoundVerify(c) ==
    c.op = "verify" => \A k \in Keys : Approved(k) => verification[k].m # c.m
SoundEntry(c) ==
    (c.op \in {"verify", "adjust", "reverse"} /\ c.entry # None) =>
        Numbered(Sequences(c.entry.case), c.entry.seq - 1)

\* completed_at goes with the statuses that let a measurement in.
DoneInv ==
    \A c \in Cases : exec[c].status \in {"awaiting_measurement", "measured"} =>
        exec[c].done = TRUE

\* The audit key of a submission marks every measurement past draft.
AuditInv ==
    /\ \A m \in Measurements :
         measurement[m].status \notin {"absent", "draft"} => <<"submit", m>> \in audit
    /\ \A k \in Keys : verification[k] # None => <<"submit", verification[k].m>> \in audit

ApprovedInv ==
    \A k \in Keys : Approved(k) =>
        measurement[verification[k].m].status \notin {"absent", "draft", "submitted"}

ApprovedOnce ==
    \A k, l \in Keys :
        Approved(k) /\ Approved(l) /\ verification[k].m = verification[l].m => k = l

\* A verified_recovery entry belongs to the approval with its key.
LinkInv ==
    \A k \in Keys : PostsValue(k) => Approved(k) /\ verification[k].m = ledger[k].m

LockInv ==
    \A g, h \in Handlers :
        call[g].op = "verify" /\ call[h].op = "verify" /\ call[g].m = call[h].m => g = h

NumberedInv ==
    \A c \in Cases :
        /\ \E n \in Nat : Sequences(c) = 1..n
        /\ \A k, l \in PostedIn(c) : ledger[k].seq = ledger[l].seq => k = l

CallsSound ==
    \A h \in Handlers : /\ WellFormed(call[h])
                        /\ SoundMeasure(call[h])
                        /\ SoundReviewer(call[h])
                        /\ SoundVerify(call[h])
                        /\ SoundEntry(call[h])

IInv ==
    /\ TypeOK
    /\ DoneInv
    /\ MeasuredAfterCompletion
    /\ AuditInv
    /\ DutiesSegregated
    /\ ApprovedInv
    /\ ApprovedOnce
    /\ LinkInv
    /\ NumberedInv
    /\ LockInv
    /\ CallsSound

-----------------------------------------------------------------------------
(* Lemmas.                                                                 *)

\* An idle handler carries no obligation.
LEMMA IdleSound ==
    /\ Idle \in Call
    /\ WellFormed(Idle)
    /\ SoundMeasure(Idle) /\ SoundReviewer(Idle) /\ SoundVerify(Idle) /\ SoundEntry(Idle)
BY DEF Idle, Call, WellFormed, SoundMeasure, SoundReviewer, SoundVerify, SoundEntry

\* The largest element of 1..n.
LEMMA MaxOfRange ==
    ASSUME NEW n \in Nat, n # 0
    PROVE  Max(1..n) = n
<1>1. n \in 1..n /\ \A y \in 1..n : n >= y
  OBVIOUS
<1>2. \A x \in 1..n : (\A y \in 1..n : x >= y) => x = n
  <2>1. SUFFICES ASSUME NEW x \in 1..n, \A y \in 1..n : x >= y
                 PROVE  x = n
    OBVIOUS
  <2>2. x >= n /\ x <= n
    BY <1>1, <2>1
  <2> QED
    BY <2>2
<1> QED
  BY <1>1, <1>2 DEF Max

\* max + 1 is a positive number whose predecessors are all posted.
LEMMA NextSequenceFollows ==
    ASSUME NumberedInv, NEW c \in Cases
    PROVE  /\ NextSequence(c) \in Nat \ {0}
           /\ Numbered(Sequences(c), NextSequence(c) - 1)
<1>1. PICK n \in Nat : Sequences(c) = 1..n
  BY DEF NumberedInv
<1>2. CASE n = 0
  <2>1. Sequences(c) = {}
    BY <1>1, <1>2
  <2>2. NextSequence(c) = 1
    BY <2>1 DEF NextSequence
  <2> QED
    BY <2>2 DEF Numbered
<1>3. CASE n # 0
  <2>1. Sequences(c) # {} /\ 1 \in Sequences(c)
    BY <1>1, <1>3
  <2>2. Max(Sequences(c)) = n
    BY <1>1, <1>3, MaxOfRange
  <2>3. NextSequence(c) = n + 1
    BY <2>1, <2>2 DEF NextSequence
  <2>4. NextSequence(c) - 1 = n
    BY <2>3
  <2> QED
    BY <2>3, <2>4, <1>1 DEF Numbered
<1> QED
  BY <1>2, <1>3

\* The entry a request prepares is well typed and numbered after what it saw.
LEMMA LedgerEntrySound ==
    ASSUME NumberedInv, NEW c \in Cases, NEW k \in Keys, NEW type \in EntryTypes,
           NEW amount \in Int \ {0}, NEW m \in Measurements, NEW of \in Keys \cup {None}
    PROVE  LET e == LedgerEntry(c, k, type, amount, m, of) IN
           /\ e \in Entry \cup {None}
           /\ e # None => /\ e.type = type /\ e.m = m /\ e.case = c
                          /\ Numbered(Sequences(e.case), e.seq - 1)
<1>1. NextSequence(c) \in Nat \ {0} /\ Numbered(Sequences(c), NextSequence(c) - 1)
  BY NextSequenceFollows
<1> DEFINE n == NextSequence(c)
<1>2. n \in Nat \ {0} /\ Numbered(Sequences(c), n - 1)
  BY <1>1
<1>3. LedgerEntry(c, k, type, amount, m, of) =
        IF ledger[k] # None THEN None
        ELSE [case |-> c, seq |-> n, type |-> type, amount |-> amount, m |-> m, of |-> of]
  BY DEF LedgerEntry
<1> HIDE DEF n
<1> QED
  BY <1>2, <1>3 DEF Entry

\* A step that only takes a request in keeps the invariant.
LEMMA ReceiveKeeps ==
    ASSUME IInv, NEW h \in Handlers, NEW c \in Call, Receive(h, c), WellFormed(c),
           SoundMeasure(c), SoundReviewer(c), SoundVerify(c), SoundEntry(c),
           c.op = "verify" => ~MeasurementLocked(c.m)
    PROVE  IInv'
<1>1. /\ call' = [call EXCEPT ![h] = c]
      /\ UNCHANGED <<exec, measurement, verification, ledger, audit>>
  BY DEF Receive, tables
<1>2. call \in [Handlers -> Call]
  BY DEF IInv, TypeOK
<1>3. \A g \in Handlers : call'[g] = IF g = h THEN c ELSE call[g]
  BY <1>1, <1>2
<1>4. TypeOK'
  BY <1>1, <1>2 DEF IInv, TypeOK
<1>5. /\ DoneInv' /\ MeasuredAfterCompletion' /\ AuditInv' /\ DutiesSegregated'
      /\ ApprovedInv' /\ ApprovedOnce' /\ LinkInv' /\ NumberedInv'
  BY <1>1 DEF IInv, DoneInv, MeasuredAfterCompletion, AuditInv, DutiesSegregated, ApprovedInv,
       ApprovedOnce, LinkInv, NumberedInv, Approved, PostsValue, PostedIn, Posted, Sequences
<1>6. LockInv'
  BY <1>3 DEF IInv, LockInv, MeasurementLocked
<1>7. CallsSound'
  <2>1. SUFFICES ASSUME NEW g \in Handlers
                 PROVE  /\ WellFormed(call'[g]) /\ SoundMeasure(call[g])'
                        /\ SoundReviewer(call[g])' /\ SoundVerify(call[g])'
                        /\ SoundEntry(call[g])'
    BY DEF CallsSound, WellFormed
  <2>2. CASE g = h
    BY <2>2, <1>1, <1>3 DEF SoundMeasure, SoundReviewer, SoundVerify, SoundEntry,
         Approved, Sequences, PostedIn, Posted, Numbered
  <2>3. CASE g # h
    <3>1. call'[g] = call[g]
      BY <2>3, <1>3
    <3> QED
      BY <3>1, <1>1 DEF IInv, CallsSound, SoundMeasure, SoundReviewer, SoundVerify,
           SoundEntry, Approved, Sequences, PostedIn, Posted, Numbered
  <2> QED
    BY <2>2, <2>3
<1> QED
  BY <1>4, <1>5, <1>6, <1>7 DEF IInv

\* A step that answers one request keeps the others sound if it takes back
\* nothing they rely on.
LEMMA AnsweredKeeps ==
    ASSUME IInv, NEW h \in Handlers, Answered(h),
           \A c \in Cases : exec[c].done = TRUE => exec'[c].done = TRUE,
           audit \subseteq audit',
           \A g \in Handlers : call[g].op \in {"review", "verify"} =>
               measurement'[call[g].m].by = measurement[call[g].m].by,
           \A g \in Handlers : (g # h /\ call[g].op = "verify") =>
               \A k \in Keys : Approved(k)' => verification'[k].m # call[g].m,
           \A c \in Cases : Sequences(c) \subseteq Sequences(c)'
    PROVE  call' \in [Handlers -> Call] /\ LockInv' /\ CallsSound'
<1>1. call \in [Handlers -> Call]
  BY DEF IInv, TypeOK
<1>2. \A g \in Handlers : call'[g] = IF g = h THEN Idle ELSE call[g]
  BY <1>1 DEF Answered
<1>3. call' \in [Handlers -> Call]
  BY <1>1, IdleSound DEF Answered
<1>4. LockInv'
  BY <1>2 DEF IInv, LockInv, Idle
<1>5. CallsSound'
  <2>1. SUFFICES ASSUME NEW g \in Handlers
                 PROVE  /\ WellFormed(call'[g]) /\ SoundMeasure(call[g])'
                        /\ SoundReviewer(call[g])' /\ SoundVerify(call[g])'
                        /\ SoundEntry(call[g])'
    BY DEF CallsSound, WellFormed
  <2>2. CASE g = h
    <3>1. call'[g] = Idle
      BY <1>2, <2>2
    <3> QED
      BY <3>1 DEF Idle, WellFormed, SoundMeasure, SoundReviewer, SoundVerify, SoundEntry
  <2>3. CASE g # h
    <3>1. call'[g] = call[g] /\ call[g] \in Call
      BY <1>1, <1>2, <2>3
    <3>2. /\ WellFormed(call[g]) /\ SoundMeasure(call[g]) /\ SoundReviewer(call[g])
          /\ SoundVerify(call[g]) /\ SoundEntry(call[g])
      BY DEF IInv, CallsSound
    <3>3. SoundMeasure(call[g])'
      <4>1. /\ call[g].op = "measure" => call[g].case \in Cases
            /\ call[g].op \in {"submit", "review", "verify"} => CaseOf[call[g].m] \in Cases
        BY <3>2, CaseOfAssumption DEF WellFormed
      <4> QED
        BY <3>1, <3>2, <4>1 DEF SoundMeasure
    <3>4. SoundReviewer(call[g])'
      BY <3>1, <3>2 DEF SoundReviewer
    <3>5. SoundVerify(call[g])'
      BY <3>1, <2>3 DEF SoundVerify
    <3>6. SoundEntry(call[g])'
      <4>1. call[g].entry # None => call[g].entry \in Entry
        BY <3>1 DEF Call
      <4>2. call[g].entry # None => call[g].entry.case \in Cases
        BY <4>1 DEF Entry
      <4> QED
        BY <3>1, <3>2, <4>2 DEF SoundEntry, Numbered
    <3> QED
      BY <3>1, <3>2, <3>3, <3>4, <3>5, <3>6
  <2> QED
    BY <2>2, <2>3
<1> QED
  BY <1>3, <1>4, <1>5

\* Posting keeps the numbering, and touches nothing that was posted.
LEMMA PostKeeps ==
    ASSUME IInv, NEW k \in Keys, NEW e \in Entry \cup {None},
           e # None => Numbered(Sequences(e.case), e.seq - 1), Post(k, e)
    PROVE  /\ ledger' \in [Keys -> Entry \cup {None}]
           /\ NumberedInv'
           /\ \A c \in Cases : Sequences(c) \subseteq Sequences(c)'
           /\ \A l \in Posted : ledger'[l] = ledger[l]
           /\ \A l \in Keys : ledger'[l] # ledger[l] => l = k /\ e # None /\ ledger'[l] = e
<1>0. ledger \in [Keys -> Entry \cup {None}] /\ NumberedInv
  BY DEF IInv, TypeOK
<1>1. CASE e = None /\ UNCHANGED ledger
  <2>1. /\ \A c \in Cases : PostedIn(c)' = PostedIn(c)
        /\ \A c \in Cases : Sequences(c)' = Sequences(c)
    BY <1>1 DEF Sequences, PostedIn, Posted
  <2>2. NumberedInv'
    BY <2>1, <1>0, <1>1 DEF NumberedInv
  <2> QED
    BY <2>1, <2>2, <1>0, <1>1
<1>2. CASE /\ e # None /\ ledger[k] = None /\ e.seq \notin Sequences(e.case)
           /\ ledger' = [ledger EXCEPT ![k] = e]
  <2>1. e \in Entry /\ e.case \in Cases /\ e.seq \in Nat \ {0}
    BY <1>2 DEF Entry
  <2>2. ledger' \in [Keys -> Entry \cup {None}]
    BY <1>0, <1>2
  <2>3. \A l \in Keys : ledger'[l] = IF l = k THEN e ELSE ledger[l]
    BY <1>0, <1>2
  <2>4. \A c \in Cases : PostedIn(c)' = IF c = e.case THEN PostedIn(c) \cup {k} ELSE PostedIn(c)
    BY <2>3, <1>2 DEF PostedIn, Posted
  <2>5. \A c \in Cases : k \notin PostedIn(c)
    BY <1>2 DEF PostedIn, Posted
  <2>6. \A c \in Cases : PostedIn(c) \subseteq Keys
    BY DEF PostedIn, Posted
  <2>7. \A c \in Cases : \A l \in PostedIn(c) : ledger'[l] = ledger[l]
    BY <2>3, <2>5, <2>6
  <2>8. \A c \in Cases :
          Sequences(c)' = IF c = e.case THEN Sequences(c) \cup {e.seq} ELSE Sequences(c)
    <3>1. SUFFICES ASSUME NEW c \in Cases
                   PROVE  Sequences(c)' = IF c = e.case THEN Sequences(c) \cup {e.seq}
                                                        ELSE Sequences(c)
      OBVIOUS
    <3>2. \A l \in PostedIn(c) : ledger'[l].seq = ledger[l].seq
      BY <2>7
    <3>3. ledger'[k].seq = e.seq
      BY <2>3
    <3>4. CASE c = e.case
      BY <3>2, <3>3, <3>4, <2>4 DEF Sequences
    <3>5. CASE c # e.case
      BY <3>2, <3>5, <2>4 DEF Sequences
    <3> QED
      BY <3>4, <3>5
  <2>9. NumberedInv'
    <3>1. SUFFICES ASSUME NEW c \in Cases
                   PROVE  /\ (\E n \in Nat : Sequences(c) = 1..n)'
                          /\ (\A l, m \in PostedIn(c) : ledger[l].seq = ledger[m].seq => l = m)'
      BY DEF NumberedInv
    <3>2. PICK n \in Nat : Sequences(c) = 1..n
      BY <1>0 DEF NumberedInv
    <3>3. \A l, m \in PostedIn(c) : ledger[l].seq = ledger[m].seq => l = m
      BY <1>0 DEF NumberedInv
    <3>4. CASE c = e.case
      <4>1. 1..(e.seq - 1) \subseteq 1..n
        BY <3>2, <3>4, <2>1, <1>2 DEF Numbered
      <4>2. e.seq \notin 1..n
        BY <3>2, <3>4, <1>2
      <4>3. e.seq = n + 1
        <5>1. e.seq > n
          BY <4>2, <2>1
        <5>2. CASE e.seq = 1
          BY <5>1, <5>2
        <5>3. CASE e.seq # 1
          <6>1. e.seq - 1 \in 1..(e.seq - 1)
            BY <5>3, <2>1
          <6>2. e.seq - 1 <= n
            BY <6>1, <4>1
          <6> QED
            BY <6>2, <5>1, <2>1
        <5> QED
          BY <5>2, <5>3
      <4>4. Sequences(c)' = 1..(n + 1)
        <5>1. Sequences(c)' = (1..n) \cup {n + 1}
          BY <4>3, <3>2, <3>4, <2>8
        <5>2. (1..n) \cup {n + 1} = 1..(n + 1)
          BY <3>2
        <5> QED
          BY <5>1, <5>2
      <4>5. \A l \in PostedIn(c) : ledger[l].seq # e.seq
        BY <1>2, <3>4 DEF Sequences
      <4>6. \A l, m \in PostedIn(c)' : ledger'[l].seq = ledger'[m].seq => l = m
        BY <4>5, <3>3, <3>4, <2>3, <2>4, <2>7
      <4> QED
        BY <4>4, <4>6
    <3>5. CASE c # e.case
      BY <3>2, <3>3, <3>5, <2>4, <2>7, <2>8
    <3> QED
      BY <3>4, <3>5
  <2> QED
    BY <2>2, <2>3, <2>8, <2>9, <1>2 DEF Posted
<1> QED
  BY <1>1, <1>2 DEF Post

-----------------------------------------------------------------------------
(* Reads.                                                                  *)

\* transition_execution, up to its commit.
LEMMA TransitionReadKeeps ==
    ASSUME IInv, NEW h \in Handlers, NEW c \in Cases,
           StartExecution(h, c) \/ CompleteExecution(h, c)
    PROVE  IInv'
<1> DEFINE r(op) == [Idle EXCEPT !.op = op, !.case = c]
<1>1. ASSUME NEW op \in {"start", "complete"}
      PROVE  /\ r(op) \in Call /\ WellFormed(r(op)) /\ r(op).op # "verify"
             /\ SoundMeasure(r(op)) /\ SoundReviewer(r(op))
             /\ SoundVerify(r(op)) /\ SoundEntry(r(op))
  BY DEF Idle, Call, WellFormed, SoundMeasure, SoundReviewer, SoundVerify, SoundEntry
<1>2. \E op \in {"start", "complete"} : Receive(h, r(op))
  BY DEF StartExecution, CompleteExecution
<1> HIDE DEF r
<1> QED
  BY <1>1, <1>2, ReceiveKeeps

\* create_measurement, up to its commit: the status it reads goes with completed_at.
LEMMA MeasurementReadKeeps ==
    ASSUME IInv, NEW h \in Handlers, NEW m \in Measurements, CreateMeasurement(h, m)
    PROVE  IInv'
<1> DEFINE d == (exec[CaseOf[m]].status # "measured")
           r == [Idle EXCEPT !.op = "measure", !.m = m, !.case = CaseOf[m], !.dirty = d]
<1>1. CaseOf[m] \in Cases /\ exec[CaseOf[m]].done = TRUE
  BY CaseOfAssumption DEF IInv, DoneInv, CreateMeasurement
<1>2. Receive(h, r) /\ d \in BOOLEAN
  BY DEF CreateMeasurement
<1> HIDE DEF d
<1>3. /\ r \in Call /\ WellFormed(r) /\ r.op # "verify"
      /\ SoundMeasure(r) /\ SoundReviewer(r) /\ SoundVerify(r) /\ SoundEntry(r)
  BY <1>1, <1>2 DEF Idle, Call, WellFormed, SoundMeasure, SoundReviewer, SoundVerify, SoundEntry
<1> HIDE DEF r
<1> QED
  BY <1>2, <1>3, ReceiveKeeps

\* submit_measurement, up to its commit.
LEMMA SubmissionReadKeeps ==
    ASSUME IInv, NEW h \in Handlers, NEW m \in Measurements, NEW u \in Users,
           SubmitMeasurement(h, m, u)
    PROVE  IInv'
<1> DEFINE r == [Idle EXCEPT !.op = "submit", !.m = m, !.user = u]
<1>0. exec[CaseOf[m]].done = TRUE
  BY CaseOfAssumption DEF IInv, TypeOK, MeasuredAfterCompletion, SubmitMeasurement
<1>1. /\ r \in Call /\ WellFormed(r) /\ r.op # "verify"
      /\ SoundMeasure(r) /\ SoundReviewer(r) /\ SoundVerify(r) /\ SoundEntry(r)
  BY <1>0 DEF Idle, Call, WellFormed, SoundMeasure, SoundReviewer, SoundVerify, SoundEntry
<1>2. Receive(h, r)
  BY DEF SubmitMeasurement
<1> HIDE DEF r
<1> QED
  BY <1>1, <1>2, ReceiveKeeps

\* finance_review, up to its commit: who submitted is settled once it is submitted.
LEMMA ReviewReadKeeps ==
    ASSUME IInv, NEW h \in Handlers, NEW m \in Measurements, NEW u \in Users,
           NEW k \in Keys, NEW decision \in Decisions, FinanceReview(h, m, u, k, decision)
    PROVE  IInv'
<1> DEFINE r == [Idle EXCEPT !.op = "review", !.m = m, !.user = u, !.key = k, !.to = decision]
<1>0. exec[CaseOf[m]].done = TRUE
  BY CaseOfAssumption DEF IInv, TypeOK, MeasuredAfterCompletion, FinanceReview
<1>1. <<"submit", m>> \in audit /\ u # measurement[m].by
  BY DEF IInv, AuditInv, FinanceReview, SeparateReviewer
<1>2. decision \in ReviewDecisions
  BY DecisionsAssumption
<1>3. /\ r \in Call /\ WellFormed(r) /\ r.op # "verify"
      /\ SoundMeasure(r) /\ SoundReviewer(r) /\ SoundVerify(r) /\ SoundEntry(r)
  BY <1>0, <1>1, <1>2 DEF Idle, Call, WellFormed, SoundMeasure, SoundReviewer, SoundVerify,
       SoundEntry
<1>4. Receive(h, r)
  BY DEF FinanceReview
<1> HIDE DEF r
<1> QED
  BY <1>3, <1>4, ReceiveKeeps

\* verify, up to its commit: a submitted measurement has no approval.
LEMMA VerifyReadKeeps ==
    ASSUME IInv, NEW h \in Handlers, NEW m \in Measurements, NEW u \in Users,
           NEW k \in Keys, NEW amount \in Amounts, Verify(h, m, u, k, amount)
    PROVE  IInv'
<1> DEFINE e == LedgerEntry(CaseOf[m], k, "verified_recovery", amount, m, None)
           r == [Idle EXCEPT !.op = "verify", !.m = m, !.user = u, !.key = k,
                             !.amount = amount, !.entry = e]
<1>0. exec[CaseOf[m]].done = TRUE
  BY CaseOfAssumption DEF IInv, TypeOK, MeasuredAfterCompletion, Verify
<1>1. <<"submit", m>> \in audit /\ u # measurement[m].by /\ ~MeasurementLocked(m)
  BY DEF IInv, AuditInv, Verify, SeparateReviewer
<1>2. \A l \in Keys : Approved(l) => verification[l].m # m
  BY DEF IInv, ApprovedInv, Verify
<1>3. amount \in Nat /\ amount \in Int \ {0} /\ CaseOf[m] \in Cases
  BY AmountsAssumption, CaseOfAssumption
<1>4. NumberedInv
  BY DEF IInv
<1>5. /\ e \in Entry \cup {None}
      /\ e # None => /\ e.type = "verified_recovery" /\ e.m = m
                     /\ Numbered(Sequences(e.case), e.seq - 1)
  BY <1>3, <1>4, LedgerEntrySound DEF EntryTypes
<1>6. Receive(h, r)
  BY DEF Verify
<1> HIDE DEF e
<1>7. r \in Call /\ WellFormed(r) /\ r.m = m
  BY <1>3, <1>5 DEF Idle, Call, WellFormed
<1>8. SoundMeasure(r) /\ SoundReviewer(r) /\ SoundVerify(r)
  BY <1>0, <1>1, <1>2 DEF Idle, SoundMeasure, SoundReviewer, SoundVerify
<1>9. SoundEntry(r)
  BY <1>5 DEF Idle, SoundEntry
<1> HIDE DEF r
<1> QED
  BY <1>1, <1>6, <1>7, <1>8, <1>9, ReceiveKeeps

\* An adjustment or a reversal carries an entry that is not a verified one.
LEMMA CorrectionReadKeeps ==
    ASSUME IInv, NEW h \in Handlers, NEW original \in Posted, NEW k \in Keys,
           NEW amount \in Int \ {0}, NEW op \in {"adjust", "reverse"},
           NEW type \in EntryTypes \ {"verified_recovery"},
           Receive(h, [Idle EXCEPT !.op = op, !.key = k, !.of = original,
                         !.entry = LedgerEntry(ledger[original].case, k, type, amount,
                                               ledger[original].m, original)])
    PROVE  IInv'
<1> DEFINE o == ledger[original]
           e == LedgerEntry(o.case, k, type, amount, o.m, original)
           r == [Idle EXCEPT !.op = op, !.key = k, !.of = original, !.entry = e]
<1>1. original \in Keys /\ o \in Entry
  BY DEF Posted, IInv, TypeOK
<1>2. o.case \in Cases /\ o.m \in Measurements
  BY <1>1 DEF Entry
<1>3. NumberedInv
  BY DEF IInv
<1>4. /\ e \in Entry \cup {None}
      /\ e # None => e.type = type /\ Numbered(Sequences(e.case), e.seq - 1)
  BY <1>1, <1>2, <1>3, LedgerEntrySound
<1>5. Receive(h, r)
  OBVIOUS
<1> HIDE DEF e
<1>6. r \in Call /\ WellFormed(r) /\ r.op # "verify"
  BY <1>1, <1>4 DEF Idle, Call, WellFormed
<1>7. SoundMeasure(r) /\ SoundReviewer(r) /\ SoundVerify(r)
  BY DEF Idle, SoundMeasure, SoundReviewer, SoundVerify
<1>8. SoundEntry(r)
  BY <1>4 DEF Idle, SoundEntry
<1> HIDE DEF r
<1> QED
  BY <1>5, <1>6, <1>7, <1>8, ReceiveKeeps

\* adjustment and reversal, up to their commits.
LEMMA CorrectionsKeep ==
    ASSUME IInv, NEW h \in Handlers, Corrections(h)
    PROVE  IInv'
<1>1. PICK original \in Keys, k \in Keys, amount \in Amounts :
        \/ \E type \in {"adjustment_positive", "adjustment_negative"} :
             Adjustment(h, original, k, amount, type)
        \/ Reversal(h, original, k, amount)
  BY DEF Corrections
<1>2. amount \in Int \ {0} /\ -amount \in Int \ {0}
  BY AmountsAssumption
<1>3. CASE \E type \in {"adjustment_positive", "adjustment_negative"} :
             Adjustment(h, original, k, amount, type)
  <2>1. PICK type \in {"adjustment_positive", "adjustment_negative"} :
          Adjustment(h, original, k, amount, type)
    BY <1>3
  <2> DEFINE a == IF type = "adjustment_positive" THEN amount ELSE -amount
  <2>2. a \in Int \ {0}
    BY <1>2
  <2>3. /\ original \in Posted
        /\ Receive(h, [Idle EXCEPT !.op = "adjust", !.key = k, !.of = original,
                         !.entry = LedgerEntry(ledger[original].case, k, type, a,
                                               ledger[original].m, original)])
    BY <2>1 DEF Adjustment
  <2>4. type \in EntryTypes \ {"verified_recovery"}
    BY DEF EntryTypes
  <2> HIDE DEF a
  <2> QED
    BY <2>2, <2>3, <2>4, CorrectionReadKeeps
<1>4. CASE Reversal(h, original, k, amount)
  <2> DEFINE a == -amount
  <2>1. /\ original \in Posted
        /\ Receive(h, [Idle EXCEPT !.op = "reverse", !.key = k, !.of = original,
                         !.entry = LedgerEntry(ledger[original].case, k, "reversal", a,
                                               ledger[original].m, original)])
    BY <1>4 DEF Reversal
  <2>2. "reversal" \in EntryTypes \ {"verified_recovery"} /\ a \in Int \ {0}
    BY <1>2 DEF EntryTypes
  <2> HIDE DEF a
  <2> QED
    BY <2>1, <2>2, CorrectionReadKeeps
<1> QED
  BY <1>1, <1>3, <1>4

-----------------------------------------------------------------------------
(* Commits.                                                                *)

\* create_execution.
LEMMA CreateExecutionKeeps ==
    ASSUME IInv, NEW c \in Cases, CreateExecution(c)
    PROVE  IInv'
<1>1. exec \in [Cases -> [status : ExecStatuses, done : BOOLEAN]]
  BY DEF IInv, TypeOK
<1>2. /\ exec[c].status = "none"
      /\ exec' = [exec EXCEPT ![c].status = "planned"]
      /\ UNCHANGED <<measurement, verification, ledger, audit, call>>
  BY DEF CreateExecution
<1>3. \A d \in Cases : /\ exec'[d].done = exec[d].done
                       /\ exec'[d].status = IF d = c THEN "planned" ELSE exec[d].status
  BY <1>1, <1>2
<1>4. TypeOK'
  BY <1>1, <1>2 DEF IInv, TypeOK, ExecStatuses
<1>5. DoneInv' /\ MeasuredAfterCompletion'
  BY <1>2, <1>3, CaseOfAssumption DEF IInv, DoneInv, MeasuredAfterCompletion
<1>6. /\ AuditInv' /\ DutiesSegregated' /\ ApprovedInv' /\ ApprovedOnce'
      /\ LinkInv' /\ NumberedInv' /\ LockInv'
  <2>1. AuditInv' /\ DutiesSegregated' /\ ApprovedInv' /\ ApprovedOnce'
    BY <1>2 DEF IInv, AuditInv, DutiesSegregated, ApprovedInv, ApprovedOnce, Approved
  <2>2. LinkInv' /\ NumberedInv'
    BY <1>2 DEF IInv, LinkInv, NumberedInv, Approved, PostsValue, PostedIn, Posted, Sequences
  <2>3. LockInv'
    BY <1>2 DEF IInv, LockInv
  <2> QED
    BY <2>1, <2>2, <2>3
<1>7. CallsSound'
  <2>1. SUFFICES ASSUME NEW g \in Handlers
                 PROVE  /\ WellFormed(call[g])' /\ SoundMeasure(call[g])'
                        /\ SoundReviewer(call[g])' /\ SoundVerify(call[g])'
                        /\ SoundEntry(call[g])'
    BY DEF CallsSound
  <2>2. /\ WellFormed(call[g]) /\ SoundMeasure(call[g]) /\ SoundReviewer(call[g])
        /\ SoundVerify(call[g]) /\ SoundEntry(call[g])
    BY DEF IInv, CallsSound
  <2>3. SoundMeasure(call[g])'
    <3>1. /\ call[g].op = "measure" => call[g].case \in Cases
          /\ call[g].op \in {"submit", "review", "verify"} => CaseOf[call[g].m] \in Cases
      BY <2>2, CaseOfAssumption DEF WellFormed
    <3> QED
      BY <1>2, <1>3, <2>2, <3>1 DEF SoundMeasure
  <2>4. /\ WellFormed(call[g])' /\ SoundReviewer(call[g])' /\ SoundVerify(call[g])'
        /\ SoundEntry(call[g])'
    BY <1>2, <2>2 DEF WellFormed, SoundReviewer, SoundVerify, SoundEntry, Approved,
         Sequences, PostedIn, Posted, Numbered
  <2> QED
    BY <2>3, <2>4
<1> QED
  BY <1>4, <1>5, <1>6, <1>7 DEF IInv

\* A transition never takes completed_at back, however late it commits.
LEMMA CommitTransitionKeeps ==
    ASSUME IInv, NEW h \in Handlers, CommitTransition(h)
    PROVE  IInv'
<1>1. exec \in [Cases -> [status : ExecStatuses, done : BOOLEAN]]
  BY DEF IInv, TypeOK
<1> DEFINE c == call[h].case
           v == IF call[h].op = "start" THEN [exec[c] EXCEPT !.status = "in_progress"]
                ELSE [status |-> "awaiting_measurement", done |-> TRUE]
<1>2. c \in Cases
  BY DEF IInv, CallsSound, WellFormed, CommitTransition
<1>3. /\ exec' = [exec EXCEPT ![c] = v]
      /\ Answered(h)
      /\ UNCHANGED <<measurement, verification, ledger, audit>>
  BY DEF CommitTransition
<1>4. v \in [status : ExecStatuses, done : BOOLEAN]
  BY <1>1, <1>2 DEF ExecStatuses
<1>5. /\ exec[c].done = TRUE => v.done = TRUE
      /\ v.status \in {"awaiting_measurement", "measured"} => v.done = TRUE
  BY <1>1, <1>2
<1> HIDE DEF v
<1>6. \A d \in Cases : exec'[d] = IF d = c THEN v ELSE exec[d]
  BY <1>1, <1>2, <1>3
<1>7. \A d \in Cases : exec[d].done = TRUE => exec'[d].done = TRUE
  BY <1>5, <1>6
<1>8. call' \in [Handlers -> Call] /\ LockInv' /\ CallsSound'
  <2>1. \A g \in Handlers : (g # h /\ call[g].op = "verify") =>
          \A k \in Keys : Approved(k)' => verification'[k].m # call[g].m
    BY <1>3 DEF IInv, CallsSound, SoundVerify, Approved
  <2>2. \A d \in Cases : Sequences(d) \subseteq Sequences(d)'
    BY <1>3 DEF Sequences, PostedIn, Posted
  <2> QED
    BY <1>3, <1>7, <2>1, <2>2, AnsweredKeeps
<1>9. TypeOK'
  BY <1>1, <1>2, <1>3, <1>4, <1>8 DEF IInv, TypeOK
<1>10. DoneInv'
  BY <1>5, <1>6 DEF IInv, DoneInv
<1>11. MeasuredAfterCompletion'
  <2>1. \A m \in Measurements : CaseOf[m] \in Cases
    BY CaseOfAssumption
  <2>2. \A d \in Cases : exec[d].done \in BOOLEAN /\ exec'[d].done \in BOOLEAN
    BY <1>1, <1>4, <1>6
  <2> QED
    BY <1>3, <1>7, <2>1, <2>2 DEF IInv, MeasuredAfterCompletion
<1>12. /\ AuditInv' /\ DutiesSegregated' /\ ApprovedInv' /\ ApprovedOnce'
       /\ LinkInv' /\ NumberedInv'
  BY <1>3 DEF IInv, AuditInv, DutiesSegregated, ApprovedInv, ApprovedOnce, LinkInv,
       NumberedInv, Approved, PostsValue, PostedIn, Posted, Sequences
<1> QED
  BY <1>8, <1>9, <1>10, <1>11, <1>12 DEF IInv

\* A new draft belongs to a completed execution and has no decision.
LEMMA CommitMeasurementKeeps ==
    ASSUME IInv, NEW h \in Handlers, CommitMeasurement(h)
    PROVE  IInv'
<1>1. /\ exec \in [Cases -> [status : ExecStatuses, done : BOOLEAN]]
      /\ measurement \in [Measurements -> [status : MeasurementStatuses, by : Users \cup {None}]]
  BY DEF IInv, TypeOK
<1> DEFINE m == call[h].m
           c == call[h].case
<1>2. m \in Measurements /\ c = CaseOf[m] /\ c \in Cases /\ exec[c].done = TRUE
  BY CaseOfAssumption DEF IInv, CallsSound, WellFormed, SoundMeasure, CommitMeasurement
<1>3. /\ measurement[m].status = "absent"
      /\ measurement' = [measurement EXCEPT ![m].status = "draft"]
      /\ exec' = IF call[h].dirty THEN [exec EXCEPT ![c].status = "measured"] ELSE exec
      /\ Answered(h)
      /\ UNCHANGED <<verification, ledger, audit>>
  BY DEF CommitMeasurement
<1> HIDE DEF m, c
<1>4. \A d \in Cases : exec[d].done = TRUE => exec'[d].done = TRUE
  BY <1>1, <1>2, <1>3
<1>0. \A d \in Cases : exec'[d].status = exec[d].status \/ d = c
  BY <1>1, <1>2, <1>3
<1>5. \A n \in Measurements :
        /\ measurement'[n].by = measurement[n].by
        /\ measurement'[n].status = IF n = m THEN "draft" ELSE measurement[n].status
  BY <1>1, <1>2, <1>3
<1>6. call' \in [Handlers -> Call] /\ LockInv' /\ CallsSound'
  <2>1. \A g \in Handlers : (g # h /\ call[g].op = "verify") =>
          \A k \in Keys : Approved(k)' => verification'[k].m # call[g].m
    BY <1>3 DEF IInv, CallsSound, SoundVerify, Approved
  <2>2. \A d \in Cases : Sequences(d) \subseteq Sequences(d)'
    BY <1>3 DEF Sequences, PostedIn, Posted
  <2>3. \A g \in Handlers : call[g].op \in {"review", "verify"} =>
          measurement'[call[g].m].by = measurement[call[g].m].by
    BY <1>5 DEF IInv, CallsSound, WellFormed
  <2> QED
    BY <1>3, <1>4, <2>1, <2>2, <2>3, AnsweredKeeps
<1>7. TypeOK'
  <2>1. exec' \in [Cases -> [status : ExecStatuses, done : BOOLEAN]]
    BY <1>1, <1>2, <1>3 DEF ExecStatuses
  <2>2. measurement' \in [Measurements -> [status : MeasurementStatuses, by : Users \cup {None}]]
    BY <1>1, <1>2, <1>3 DEF MeasurementStatuses
  <2> QED
    BY <1>3, <1>6, <2>1, <2>2 DEF IInv, TypeOK
<1>8. DoneInv'
  <2>1. exec'[c].done = TRUE
    BY <1>2, <1>4
  <2> QED
    BY <2>1, <1>0, <1>4 DEF IInv, DoneInv
<1>9. MeasuredAfterCompletion'
  <2>1. \A n \in Measurements : CaseOf[n] \in Cases
    BY CaseOfAssumption
  <2>2. \A n \in Measurements : measurement[n].status # "absent" => exec[CaseOf[n]].done = TRUE
    BY <1>1, <2>1 DEF IInv, MeasuredAfterCompletion
  <2>3. \A n \in Measurements : measurement'[n].status # "absent" => exec'[CaseOf[n]].done = TRUE
    BY <1>2, <1>4, <1>5, <2>1, <2>2
  <2> QED
    BY <2>3 DEF MeasuredAfterCompletion
<1>10. AuditInv'
  BY <1>3, <1>5 DEF IInv, AuditInv
<1>11. \A k \in Keys : verification[k] # None => verification[k].m \in Measurements
  BY DEF IInv, TypeOK, Verification
<1>12. DutiesSegregated'
  BY <1>3, <1>5, <1>11 DEF IInv, DutiesSegregated
<1>13. ApprovedInv'
  BY <1>3, <1>5, <1>11 DEF IInv, ApprovedInv, Approved
<1>14. ApprovedOnce' /\ LinkInv' /\ NumberedInv'
  BY <1>3 DEF IInv, ApprovedOnce, LinkInv, NumberedInv, Approved, PostsValue, PostedIn,
       Posted, Sequences
<1> QED
  BY <1>6, <1>7, <1>8, <1>9, <1>10, <1>12, <1>13, <1>14 DEF IInv

\* A lost request leaves the tables as they are.
LEMMA AbortKeeps ==
    ASSUME IInv, NEW h \in Handlers, Abort(h)
    PROVE  IInv'
<1>1. Answered(h) /\ UNCHANGED <<exec, measurement, verification, ledger, audit>>
  BY DEF Abort, tables
<1>2. call' \in [Handlers -> Call] /\ LockInv' /\ CallsSound'
  <2>1. \A g \in Handlers : (g # h /\ call[g].op = "verify") =>
          \A k \in Keys : Approved(k)' => verification'[k].m # call[g].m
    BY <1>1 DEF IInv, CallsSound, SoundVerify, Approved
  <2>2. \A d \in Cases : Sequences(d) \subseteq Sequences(d)'
    BY <1>1 DEF Sequences, PostedIn, Posted
  <2> QED
    BY <1>1, <2>1, <2>2, AnsweredKeeps
<1>3. TypeOK'
  BY <1>1, <1>2 DEF IInv, TypeOK
<1>4. /\ DoneInv' /\ MeasuredAfterCompletion' /\ AuditInv' /\ DutiesSegregated'
      /\ ApprovedInv' /\ ApprovedOnce' /\ LinkInv' /\ NumberedInv'
  BY <1>1 DEF IInv, DoneInv, MeasuredAfterCompletion, AuditInv, DutiesSegregated, ApprovedInv,
       ApprovedOnce, LinkInv, NumberedInv, Approved, PostsValue, PostedIn, Posted, Sequences
<1> QED
  BY <1>2, <1>3, <1>4 DEF IInv

\* The audit key makes the submission the first: nobody can have decided on
\* the measurement, nor be deciding on it.
LEMMA CommitSubmissionKeeps ==
    ASSUME IInv, NEW h \in Handlers, CommitSubmission(h)
    PROVE  IInv'
<1>1. measurement \in [Measurements -> [status : MeasurementStatuses, by : Users \cup {None}]]
  BY DEF IInv, TypeOK
<1> DEFINE m == call[h].m
           u == call[h].user
<1>2. m \in Measurements /\ u \in Users
  BY DEF IInv, CallsSound, WellFormed, CommitSubmission
<1>3. /\ <<"submit", m>> \notin audit
      /\ audit' = audit \cup {<<"submit", m>>}
      /\ measurement' = [measurement EXCEPT ![m] = [status |-> "submitted", by |-> u]]
      /\ Answered(h)
      /\ UNCHANGED <<exec, verification, ledger>>
  BY DEF CommitSubmission, Audited
<1> HIDE DEF m, u
<1>4. /\ \A n \in Measurements : n # m => measurement'[n] = measurement[n]
      /\ measurement'[m].status = "submitted"
  BY <1>1, <1>2, <1>3
<1>5. \A k \in Keys : verification[k] # None =>
        verification[k].m \in Measurements /\ verification[k].m # m
  BY <1>3 DEF IInv, TypeOK, Verification, AuditInv
<1>6. call' \in [Handlers -> Call] /\ LockInv' /\ CallsSound'
  <2>1. \A g \in Handlers : (g # h /\ call[g].op = "verify") =>
          \A k \in Keys : Approved(k)' => verification'[k].m # call[g].m
    BY <1>3 DEF IInv, CallsSound, SoundVerify, Approved
  <2>2. \A d \in Cases : Sequences(d) \subseteq Sequences(d)'
    BY <1>3 DEF Sequences, PostedIn, Posted
  <2>3. \A g \in Handlers : call[g].op \in {"review", "verify"} =>
          call[g].m \in Measurements /\ call[g].m # m
    BY <1>3 DEF IInv, CallsSound, WellFormed, SoundReviewer
  <2>4. \A g \in Handlers : call[g].op \in {"review", "verify"} =>
          measurement'[call[g].m].by = measurement[call[g].m].by
    BY <1>4, <2>3
  <2> QED
    BY <1>3, <2>1, <2>2, <2>4, AnsweredKeeps
<1>7. TypeOK'
  <2>1. measurement' \in [Measurements -> [status : MeasurementStatuses, by : Users \cup {None}]]
    BY <1>1, <1>2, <1>3 DEF MeasurementStatuses
  <2>2. audit' \subseteq AuditKeys
    BY <1>2, <1>3 DEF IInv, TypeOK, AuditKeys
  <2> QED
    BY <1>3, <1>6, <2>1, <2>2 DEF IInv, TypeOK
<1>8. DoneInv'
  BY <1>3 DEF IInv, DoneInv
<1>9. MeasuredAfterCompletion'
  <2>1. exec[CaseOf[m]].done = TRUE
    BY DEF IInv, CallsSound, SoundMeasure, CommitSubmission, m
  <2> QED
    BY <1>3, <1>4, <2>1 DEF IInv, MeasuredAfterCompletion
<1>10. AuditInv'
  BY <1>3, <1>4, <1>5 DEF IInv, AuditInv
<1>11. DutiesSegregated'
  BY <1>3, <1>4, <1>5 DEF IInv, DutiesSegregated
<1>12. ApprovedInv'
  BY <1>3, <1>4, <1>5 DEF IInv, ApprovedInv, Approved
<1>13. ApprovedOnce' /\ LinkInv' /\ NumberedInv'
  BY <1>3 DEF IInv, ApprovedOnce, LinkInv, NumberedInv, Approved, PostsValue, PostedIn,
       Posted, Sequences
<1> QED
  BY <1>6, <1>7, <1>8, <1>9, <1>10, <1>11, <1>12, <1>13 DEF IInv

\* A review cannot displace an approval: its row is new, and the status it
\* sets is not one that lets a measurement be verified again.
LEMMA CommitReviewKeeps ==
    ASSUME IInv, NEW h \in Handlers, CommitReview(h)
    PROVE  IInv'
<1>1. /\ measurement \in [Measurements -> [status : MeasurementStatuses, by : Users \cup {None}]]
      /\ verification \in [Keys -> Verification \cup {None}]
  BY DEF IInv, TypeOK
<1> DEFINE m == call[h].m
           u == call[h].user
           k == call[h].key
           to == call[h].to
           v == [m |-> m, decision |-> to, amount |-> 0, reviewer |-> u]
<1>2. /\ m \in Measurements /\ u \in Users /\ k \in Keys /\ to \in ReviewDecisions
      /\ <<"submit", m>> \in audit /\ u # measurement[m].by
  BY DEF IInv, CallsSound, WellFormed, SoundReviewer, CommitReview
<1>3. /\ verification[k] = None
      /\ verification' = [verification EXCEPT ![k] = v]
      /\ measurement' = [measurement EXCEPT ![m].status = to]
      /\ audit' = audit \cup {<<"review", k>>}
      /\ Answered(h)
      /\ UNCHANGED <<exec, ledger>>
  BY DEF CommitReview, Audited
<1> HIDE DEF m, u, k, to
<1>4. v \in Verification /\ v # None /\ v.m = m /\ v.reviewer = u /\ v.decision # "approved"
  BY <1>2, NoneAssumption DEF Verification, ReviewDecisions
<1> HIDE DEF v
<1>5. \A l \in Keys : verification'[l] = IF l = k THEN v ELSE verification[l]
  BY <1>1, <1>2, <1>3
<1>6. \A n \in Measurements :
        /\ measurement'[n].by = measurement[n].by
        /\ measurement'[n].status = IF n = m THEN to ELSE measurement[n].status
  BY <1>1, <1>2, <1>3
<1>7. \A l \in Keys : verification[l] # None => verification[l].m \in Measurements
  BY <1>1 DEF Verification
<1>8. \A l \in Keys : /\ Approved(l)' => Approved(l)
                      /\ Approved(l) => l # k
  BY <1>3, <1>4, <1>5 DEF Approved
<1>9. call' \in [Handlers -> Call] /\ LockInv' /\ CallsSound'
  <2>1. \A g \in Handlers : (g # h /\ call[g].op = "verify") =>
          \A l \in Keys : Approved(l)' => verification'[l].m # call[g].m
    BY <1>5, <1>8 DEF IInv, CallsSound, SoundVerify, Approved
  <2>2. \A d \in Cases : Sequences(d) \subseteq Sequences(d)'
    BY <1>3 DEF Sequences, PostedIn, Posted
  <2>3. \A g \in Handlers : call[g].op \in {"review", "verify"} =>
          measurement'[call[g].m].by = measurement[call[g].m].by
    BY <1>6 DEF IInv, CallsSound, WellFormed
  <2> QED
    BY <1>3, <2>1, <2>2, <2>3, AnsweredKeeps
<1>10. TypeOK'
  <2>1. measurement' \in [Measurements -> [status : MeasurementStatuses, by : Users \cup {None}]]
    BY <1>1, <1>2, <1>3 DEF MeasurementStatuses, ReviewDecisions
  <2>2. verification' \in [Keys -> Verification \cup {None}]
    BY <1>1, <1>2, <1>3, <1>4
  <2>3. audit' \subseteq AuditKeys
    BY <1>2, <1>3 DEF IInv, TypeOK, AuditKeys
  <2> QED
    BY <1>3, <1>9, <2>1, <2>2, <2>3 DEF IInv, TypeOK
<1>11. DoneInv'
  BY <1>3 DEF IInv, DoneInv
<1>12. MeasuredAfterCompletion'
  <2>1. exec[CaseOf[m]].done = TRUE
    BY DEF IInv, CallsSound, SoundMeasure, CommitReview, m
  <2> QED
    BY <1>3, <1>6, <2>1 DEF IInv, MeasuredAfterCompletion
<1>13. AuditInv'
  BY <1>2, <1>3, <1>4, <1>5, <1>6 DEF IInv, AuditInv
<1>14. DutiesSegregated'
  BY <1>2, <1>4, <1>5, <1>6, <1>7 DEF IInv, DutiesSegregated
<1>15. ApprovedInv'
  <2>1. to \notin {"absent", "draft", "submitted"}
    BY <1>2 DEF ReviewDecisions
  <2>2. \A l \in Keys : Approved(l) => verification[l].m \in Measurements
    BY <1>7 DEF Approved
  <2>3. SUFFICES ASSUME NEW l \in Keys, Approved(l)'
                 PROVE  measurement'[verification'[l].m].status \notin
                          {"absent", "draft", "submitted"}
    BY DEF ApprovedInv
  <2>4. Approved(l) /\ verification'[l] = verification[l]
    BY <2>3, <1>5, <1>8
  <2> QED
    BY <2>1, <2>2, <2>4, <1>6 DEF IInv, ApprovedInv
<1>16. ApprovedOnce'
  BY <1>5, <1>8 DEF IInv, ApprovedOnce, Approved
<1>17. LinkInv'
  <2>1. SUFFICES ASSUME NEW l \in Keys, PostsValue(l)'
                 PROVE  Approved(l)' /\ verification'[l].m = ledger'[l].m
    BY DEF LinkInv
  <2>2. PostsValue(l)
    BY <2>1, <1>3 DEF PostsValue, Posted
  <2>3. Approved(l) /\ verification[l].m = ledger[l].m /\ l # k
    BY <2>2, <1>8 DEF IInv, LinkInv
  <2> QED
    BY <2>3, <1>3, <1>5 DEF Approved
<1>18. NumberedInv'
  BY <1>3 DEF IInv, NumberedInv, PostedIn, Posted, Sequences
<1> QED
  BY <1>9, <1>10, <1>11, <1>12, <1>13, <1>14, <1>15, <1>16, <1>17, <1>18 DEF IInv

\* The lock makes this the only verification of its measurement in flight,
\* and the status it read means that there was none before.
LEMMA CommitVerificationKeeps ==
    ASSUME IInv, NEW h \in Handlers, CommitVerification(h)
    PROVE  IInv'
<1>1. /\ measurement \in [Measurements -> [status : MeasurementStatuses, by : Users \cup {None}]]
      /\ verification \in [Keys -> Verification \cup {None}]
      /\ ledger \in [Keys -> Entry \cup {None}]
  BY DEF IInv, TypeOK
<1> DEFINE m == call[h].m
           u == call[h].user
           k == call[h].key
           a == call[h].amount
           e == call[h].entry
           v == [m |-> m, decision |-> "approved", amount |-> a, reviewer |-> u]
<1>2. /\ m \in Measurements /\ u \in Users /\ k \in Keys
      /\ e # None => e.type = "verified_recovery" /\ e.m = m
      /\ <<"submit", m>> \in audit /\ u # measurement[m].by
  BY DEF IInv, CallsSound, WellFormed, SoundReviewer, CommitVerification
<1>3. a \in Nat /\ e \in Entry \cup {None}
  BY DEF IInv, TypeOK, Call
<1>4. /\ \A l \in Keys : Approved(l) => verification[l].m # m
      /\ e # None => Numbered(Sequences(e.case), e.seq - 1)
      /\ exec[CaseOf[m]].done = TRUE
  BY DEF IInv, CallsSound, SoundMeasure, SoundVerify, SoundEntry, CommitVerification
<1>5. /\ verification[k] = None
      /\ verification' = [verification EXCEPT ![k] = v]
      /\ Post(k, e)
      /\ measurement' = [measurement EXCEPT ![m].status = "verified"]
      /\ audit' = audit \cup {<<"verify", k>>}
      /\ Answered(h)
      /\ UNCHANGED exec
  BY DEF CommitVerification, Audited
<1>6. \A g \in Handlers : (g # h /\ call[g].op = "verify") => call[g].m # m
  BY DEF IInv, LockInv, CommitVerification
<1> HIDE DEF m, u, k, a, e
<1>7. v \in Verification /\ v # None /\ v.m = m /\ v.reviewer = u /\ v.decision = "approved"
  BY <1>2, <1>3, NoneAssumption DEF Verification
<1> HIDE DEF v
<1>8. \A l \in Keys : verification'[l] = IF l = k THEN v ELSE verification[l]
  BY <1>1, <1>2, <1>5
<1>9. \A n \in Measurements :
        /\ measurement'[n].by = measurement[n].by
        /\ measurement'[n].status = IF n = m THEN "verified" ELSE measurement[n].status
  BY <1>1, <1>2, <1>5
<1>10. \A l \in Keys : verification[l] # None => verification[l].m \in Measurements
  BY <1>1 DEF Verification
<1>11. /\ ~Approved(k)
       /\ \A l \in Keys : l # k => (Approved(l)' <=> Approved(l))
       /\ \A l \in Keys : l = k => Approved(l)'
  BY <1>2, <1>5, <1>7, <1>8 DEF Approved
<1>12. /\ ledger' \in [Keys -> Entry \cup {None}]
       /\ NumberedInv'
       /\ \A c \in Cases : Sequences(c) \subseteq Sequences(c)'
       /\ \A l \in Posted : ledger'[l] = ledger[l]
       /\ \A l \in Keys : ledger'[l] # ledger[l] => l = k /\ e # None /\ ledger'[l] = e
  BY <1>2, <1>3, <1>4, <1>5, PostKeeps
<1>13. call' \in [Handlers -> Call] /\ LockInv' /\ CallsSound'
  <2>1. \A g \in Handlers : (g # h /\ call[g].op = "verify") =>
          \A l \in Keys : Approved(l)' => verification'[l].m # call[g].m
    <3>1. SUFFICES ASSUME NEW g \in Handlers, g # h, call[g].op = "verify",
                          NEW l \in Keys, Approved(l)'
                   PROVE  verification'[l].m # call[g].m
      OBVIOUS
    <3>2. CASE l = k
      BY <3>1, <3>2, <1>6, <1>7, <1>8
    <3>3. CASE l # k
      BY <3>1, <3>3, <1>8, <1>11 DEF IInv, CallsSound, SoundVerify
    <3> QED
      BY <3>2, <3>3
  <2>2. \A g \in Handlers : call[g].op \in {"review", "verify"} =>
          measurement'[call[g].m].by = measurement[call[g].m].by
    BY <1>9 DEF IInv, CallsSound, WellFormed
  <2> QED
    BY <1>5, <1>12, <2>1, <2>2, AnsweredKeeps
<1>14. TypeOK'
  <2>1. measurement' \in [Measurements -> [status : MeasurementStatuses, by : Users \cup {None}]]
    BY <1>1, <1>2, <1>5 DEF MeasurementStatuses
  <2>2. verification' \in [Keys -> Verification \cup {None}]
    BY <1>1, <1>2, <1>5, <1>7
  <2>3. audit' \subseteq AuditKeys
    BY <1>2, <1>5 DEF IInv, TypeOK, AuditKeys
  <2> QED
    BY <1>5, <1>12, <1>13, <2>1, <2>2, <2>3 DEF IInv, TypeOK
<1>15. DoneInv'
  BY <1>5 DEF IInv, DoneInv
<1>16. MeasuredAfterCompletion'
  BY <1>4, <1>5, <1>9 DEF IInv, MeasuredAfterCompletion
<1>17. AuditInv'
  BY <1>2, <1>5, <1>7, <1>8, <1>9 DEF IInv, AuditInv
<1>18. DutiesSegregated'
  BY <1>2, <1>7, <1>8, <1>9, <1>10 DEF IInv, DutiesSegregated
<1>19. ApprovedInv'
  <2>1. \A l \in Keys : Approved(l) => verification[l].m \in Measurements
    BY <1>10 DEF Approved
  <2> QED
    BY <2>1, <1>2, <1>7, <1>8, <1>9, <1>11 DEF IInv, ApprovedInv
<1>20. ApprovedOnce'
  BY <1>4, <1>7, <1>8, <1>11 DEF IInv, ApprovedOnce
<1>21. LinkInv'
  <2>1. SUFFICES ASSUME NEW l \in Keys, PostsValue(l)'
                 PROVE  Approved(l)' /\ verification'[l].m = ledger'[l].m
    BY DEF LinkInv
  <2>2. CASE ledger'[l] = ledger[l]
    <3>1. PostsValue(l)
      BY <2>1, <2>2 DEF PostsValue, Posted
    <3>2. Approved(l) /\ verification[l].m = ledger[l].m
      BY <3>1 DEF IInv, LinkInv
    <3>3. l # k
      BY <3>2, <1>11
    <3> QED
      BY <3>2, <3>3, <2>2, <1>8, <1>11
  <2>3. CASE ledger'[l] # ledger[l]
    BY <2>3, <1>2, <1>7, <1>8, <1>11, <1>12
  <2> QED
    BY <2>2, <2>3
<1> QED
  BY <1>12, <1>13, <1>14, <1>15, <1>16, <1>17, <1>18, <1>19, <1>20, <1>21 DEF IInv

\* A correction posts an entry that is no measurement's verified value.
LEMMA CommitMutationKeeps ==
    ASSUME IInv, NEW h \in Handlers, CommitMutation(h)
    PROVE  IInv'
<1> DEFINE k == call[h].key
           e == call[h].entry
           o == call[h].op
<1>1. k \in Keys /\ o \in {"adjust", "reverse"} /\ (e # None => e.type # "verified_recovery")
  BY DEF IInv, CallsSound, WellFormed, CommitMutation
<1>2. e \in Entry \cup {None}
  BY DEF IInv, TypeOK, Call
<1>3. e # None => Numbered(Sequences(e.case), e.seq - 1)
  BY DEF IInv, CallsSound, SoundEntry, CommitMutation
<1>4. /\ Post(k, e)
      /\ audit' = audit \cup {<<o, k>>}
      /\ Answered(h)
      /\ UNCHANGED <<exec, measurement, verification>>
  BY DEF CommitMutation, Audited
<1> HIDE DEF k, e, o
<1>5. /\ ledger' \in [Keys -> Entry \cup {None}]
      /\ NumberedInv'
      /\ \A c \in Cases : Sequences(c) \subseteq Sequences(c)'
      /\ \A l \in Posted : ledger'[l] = ledger[l]
      /\ \A l \in Keys : ledger'[l] # ledger[l] => l = k /\ e # None /\ ledger'[l] = e
  BY <1>1, <1>2, <1>3, <1>4, PostKeeps
<1>6. call' \in [Handlers -> Call] /\ LockInv' /\ CallsSound'
  <2>1. \A g \in Handlers : (g # h /\ call[g].op = "verify") =>
          \A l \in Keys : Approved(l)' => verification'[l].m # call[g].m
    BY <1>4 DEF IInv, CallsSound, SoundVerify, Approved
  <2> QED
    BY <1>4, <1>5, <2>1, AnsweredKeeps
<1>7. TypeOK'
  <2>1. audit' \subseteq AuditKeys
    BY <1>1, <1>4 DEF IInv, TypeOK, AuditKeys
  <2> QED
    BY <1>4, <1>5, <1>6, <2>1 DEF IInv, TypeOK
<1>8. /\ DoneInv' /\ MeasuredAfterCompletion' /\ AuditInv' /\ DutiesSegregated'
      /\ ApprovedInv' /\ ApprovedOnce'
  BY <1>4 DEF IInv, DoneInv, MeasuredAfterCompletion, AuditInv, DutiesSegregated, ApprovedInv,
       ApprovedOnce, Approved
<1>9. LinkInv'
  <2>1. SUFFICES ASSUME NEW l \in Keys, PostsValue(l)'
                 PROVE  Approved(l)' /\ verification'[l].m = ledger'[l].m
    BY DEF LinkInv
  <2>2. ledger'[l] = ledger[l]
    BY <2>1, <1>1, <1>5 DEF PostsValue
  <2>3. PostsValue(l)
    BY <2>1, <2>2 DEF PostsValue, Posted
  <2>4. Approved(l) /\ verification[l].m = ledger[l].m
    BY <2>3 DEF IInv, LinkInv
  <2> QED
    BY <2>2, <2>4, <1>4 DEF Approved
<1> QED
  BY <1>5, <1>6, <1>7, <1>8, <1>9 DEF IInv

-----------------------------------------------------------------------------
(* The theorems.                                                           *)

\* The invariant holds initially.
LEMMA InitHolds == Init => IInv
<1> SUFFICES ASSUME Init PROVE IInv
  OBVIOUS
<1>1. TypeOK
  BY IdleSound DEF Init, TypeOK, ExecStatuses, MeasurementStatuses
<1>2. /\ \A k \in Keys : ~Approved(k) /\ ~PostsValue(k)
      /\ \A c \in Cases : PostedIn(c) = {} /\ Sequences(c) = {}
  BY DEF Init, Approved, PostsValue, Posted, PostedIn, Sequences
<1>3. DoneInv /\ MeasuredAfterCompletion /\ AuditInv /\ DutiesSegregated
  BY DEF Init, DoneInv, MeasuredAfterCompletion, AuditInv, DutiesSegregated
<1>4. ApprovedInv /\ ApprovedOnce /\ LinkInv
  BY <1>2 DEF ApprovedInv, ApprovedOnce, LinkInv
<1>5. NumberedInv
  <2>1. 0 \in Nat /\ 1..0 = {}
    OBVIOUS
  <2> QED
    BY <1>2, <2>1 DEF NumberedInv
<1>6. LockInv
  BY DEF Init, Idle, LockInv
<1>7. CallsSound
  BY IdleSound DEF Init, CallsSound
<1> QED
  BY <1>1, <1>3, <1>4, <1>5, <1>6, <1>7 DEF IInv

\* Every step keeps the invariant.
LEMMA StepKeeps == IInv /\ [Next]_vars => IInv'
<1> SUFFICES ASSUME IInv, [Next]_vars PROVE IInv'
  OBVIOUS
<1>1. ASSUME NEW c \in Cases, CreateExecution(c) PROVE IInv'
  BY <1>1, CreateExecutionKeeps
<1>2. ASSUME NEW h \in Handlers, Operations(h) PROVE IInv'
  BY <1>2, TransitionReadKeeps, MeasurementReadKeeps, SubmissionReadKeeps, ReviewReadKeeps,
     VerifyReadKeeps DEF Operations
<1>3. ASSUME NEW h \in Handlers, Corrections(h) PROVE IInv'
  BY <1>3, CorrectionsKeep
<1>4. ASSUME NEW h \in Handlers, Commit(h) PROVE IInv'
  BY <1>4, CommitTransitionKeeps, CommitMeasurementKeeps, CommitSubmissionKeeps,
     CommitReviewKeeps, CommitVerificationKeeps, CommitMutationKeeps DEF Commit
<1>5. ASSUME NEW h \in Handlers, Abort(h) PROVE IInv'
  BY <1>5, AbortKeeps
<1>6. CASE UNCHANGED vars
  <2>1. UNCHANGED <<exec, measurement, verification, ledger, audit, call>>
    BY <1>6 DEF vars, tables
  <2>2. TypeOK' /\ DoneInv' /\ MeasuredAfterCompletion' /\ LockInv'
    BY <2>1 DEF IInv, TypeOK, DoneInv, MeasuredAfterCompletion, LockInv
  <2>3. AuditInv' /\ DutiesSegregated' /\ ApprovedInv' /\ ApprovedOnce'
    BY <2>1 DEF IInv, AuditInv, DutiesSegregated, ApprovedInv, ApprovedOnce, Approved
  <2>4. LinkInv' /\ NumberedInv'
    BY <2>1 DEF IInv, LinkInv, NumberedInv, Approved, PostsValue, PostedIn, Posted, Sequences
  <2>5. CallsSound'
    BY <2>1 DEF IInv, CallsSound, WellFormed, SoundMeasure, SoundReviewer, SoundVerify,
         SoundEntry, Approved, Sequences, PostedIn, Posted, Numbered
  <2> QED
    BY <2>2, <2>3, <2>4, <2>5 DEF IInv
<1> QED
  BY <1>1, <1>2, <1>3, <1>4, <1>5, <1>6 DEF Next

\* The invariant implies the properties the runs check.
LEMMA InvariantImplies ==
    IInv => /\ SequenceIsContiguous /\ DutiesSegregated
            /\ VerifiedOnce /\ MeasuredAfterCompletion
<1> SUFFICES ASSUME IInv
             PROVE  /\ SequenceIsContiguous /\ DutiesSegregated
                    /\ VerifiedOnce /\ MeasuredAfterCompletion
  OBVIOUS
<1>1. SequenceIsContiguous
  <2>1. SUFFICES ASSUME NEW c \in Cases
                 PROVE  /\ \A n \in Sequences(c) : 1..n \subseteq Sequences(c)
                        /\ \A k, l \in PostedIn(c) : ledger[k].seq = ledger[l].seq => k = l
    BY DEF SequenceIsContiguous
  <2>2. PICK p \in Nat : Sequences(c) = 1..p
    BY DEF IInv, NumberedInv
  <2>3. \A n \in 1..p : 1..n \subseteq 1..p
    BY <2>2
  <2> QED
    BY <2>2, <2>3 DEF IInv, NumberedInv
<1>2. VerifiedOnce
  BY DEF IInv, VerifiedOnce, ApprovedOnce, LinkInv
<1> QED
  BY <1>1, <1>2 DEF IInv

\* For any number of cases, measurements, users, keys and overlapping
\* requests: the ledger of a case is numbered without gap or repetition
\* (_ledger_entry computes max + 1 with nothing locked), and nothing is
\* measured before its execution is complete (create_measurement).
THEOREM LedgerIsInOrder == Spec => []LedgerIsSound
<1>1. IInv => LedgerIsSound
  BY InvariantImplies DEF IInv, LedgerIsSound
<1> QED
  BY <1>1, InitHolds, StepKeeps, PTL DEF Spec

\* Nobody decides on their own submission (_require_separate_reviewer), also
\* when another submission races the finance review or the verification.
THEOREM NobodyReviewsOwn == Spec => []DutiesSegregated
<1>1. IInv => DutiesSegregated
  BY DEF IInv
<1> QED
  BY <1>1, InitHolds, StepKeeps, PTL DEF Spec

\* A measurement's value is approved and posted at most once (verify),
\* whatever keys its verifications and their retries use.
THEOREM ValueIsVerifiedOnce == Spec => []VerifiedOnce
<1>1. IInv => VerifiedOnce
  BY InvariantImplies
<1> QED
  BY <1>1, InitHolds, StepKeeps, PTL DEF Spec

\* A posted entry is not touched by a step that keeps the ledger or posts.
LEMMA StepKeepsPosted ==
    ASSUME IInv, [Next]_vars
    PROVE  \A k \in Posted : ledger'[k] = ledger[k]
<1>1. SUFFICES ASSUME NEW j \in Posted
               PROVE  ledger'[j] = ledger[j]
  OBVIOUS
<1>2. ASSUME NEW k, NEW e, Post(k, e) PROVE ledger'[j] = ledger[j]
  <2>1. ledger \in [Keys -> Entry \cup {None}] /\ j \in Keys /\ ledger[j] # None
    BY DEF IInv, TypeOK, Posted
  <2> QED
    BY <1>2, <2>1 DEF Post
<1>3. ASSUME NEW h \in Handlers, Commit(h) PROVE ledger'[j] = ledger[j]
  <2>1. CASE UNCHANGED ledger
    BY <2>1
  <2>2. CASE Post(call[h].key, call[h].entry)
    BY <2>2, <1>2
  <2> QED
    BY <1>3, <2>1, <2>2 DEF Commit, CommitTransition, CommitMeasurement, CommitSubmission,
         CommitReview, CommitVerification, CommitMutation
<1>4. ASSUME NEW h \in Handlers, Operations(h) \/ Corrections(h) \/ Abort(h)
      PROVE  UNCHANGED ledger
  BY <1>4 DEF Operations, Corrections, Abort, StartExecution, CompleteExecution,
     CreateMeasurement, SubmitMeasurement, FinanceReview, Verify, Adjustment, Reversal,
     Receive, tables
<1>5. ASSUME NEW c \in Cases, CreateExecution(c) PROVE UNCHANGED ledger
  BY <1>5 DEF CreateExecution
<1>6. CASE UNCHANGED vars
  BY <1>6 DEF vars, tables
<1> QED
  BY <1>3, <1>4, <1>5, <1>6 DEF Next

\* "posted history is never rewritten": no interleaving of requests changes
\* or removes an entry of the ledger once it is committed.
THEOREM LedgerImmutable == Spec => PostedIsImmutable
<1>1. IInv /\ [Next]_vars => [\A k \in Posted : ledger'[k] = ledger[k]]_vars
  BY StepKeepsPosted
<1> QED
  BY <1>1, InitHolds, StepKeeps, PTL DEF Spec, PostedIsImmutable

-----------------------------------------------------------------------------
(* Sums over finite sets.                                                 *)

\* A family of finite sets has one that contains no other of them: what takes the
\* place of induction on the size of a set below.
LEMMA MinimalSet ==
    ASSUME NEW S, NEW F, F \subseteq FiniteSubsetsOf(S), F # {}
    PROVE  \E T \in F : \A U \in F : U \subseteq T => U = T
<1>1. \E x \in F : \A y \in F : <<y, x>> \notin StrictSubsetOrdering(S)
  BY FS_StrictSubsetOrderingWellFounded, WFMin
<1> QED
  BY <1>1 DEF StrictSubsetOrdering, FiniteSubsetsOf

\* The element that the sum takes out first.
Some(s) == CHOOSE x \in s : TRUE

\* g sums f over the subsets of S, taking one element out after the other.
Sums(g, f, S) == g = [s \in SUBSET S |-> IF s = {} THEN 0 ELSE f[Some(s)] + g[s \ {Some(s)}]]

\* Taking that element out leaves a smaller finite set.
LEMMA Rest ==
    ASSUME NEW S, IsFiniteSet(S), S # {}
    PROVE  Some(S) \in S /\ IsFiniteSet(S \ {Some(S)}) /\ S \ {Some(S)} # S
<1>1. Some(S) \in S
  BY DEF Some
<1> QED
  BY <1>1, FS_RemoveElement

\* Two such functions agree where both are defined.
LEMMA SumsUnique ==
    ASSUME NEW f, NEW S, NEW T, NEW g, NEW h, Sums(g, f, S), Sums(h, f, T),
           NEW U, U \subseteq S, U \subseteq T, IsFiniteSet(U)
    PROVE  g[U] = h[U]
<1> DEFINE Bad == {V \in FiniteSubsetsOf(U) : g[V] # h[V]}
<1>1. SUFFICES Bad = {}
  BY DEF FiniteSubsetsOf
<1>2. SUFFICES ASSUME Bad # {} PROVE FALSE
  OBVIOUS
<1>3. PICK V \in Bad : \A W \in Bad : W \subseteq V => W = V
  <2>1. Bad \subseteq FiniteSubsetsOf(U)
    OBVIOUS
  <2> HIDE DEF Bad
  <2> QED
    BY <1>2, <2>1, MinimalSet
<1>4. V \subseteq U /\ IsFiniteSet(V) /\ g[V] # h[V]
  BY DEF FiniteSubsetsOf
<1>5. /\ g[V] = IF V = {} THEN 0 ELSE f[Some(V)] + g[V \ {Some(V)}]
      /\ h[V] = IF V = {} THEN 0 ELSE f[Some(V)] + h[V \ {Some(V)}]
  BY <1>4 DEF Sums
<1>6. V # {}
  BY <1>4, <1>5
<1>7. V \ {Some(V)} \in FiniteSubsetsOf(U) /\ V \ {Some(V)} # V
  BY <1>4, <1>6, Rest DEF FiniteSubsetsOf
<1>8. g[V \ {Some(V)}] = h[V \ {Some(V)}]
  BY <1>3, <1>7
<1> QED
  BY <1>4, <1>5, <1>6, <1>8

\* There is one: were T the least set without, the functions of its subsets would
\* make one for T.
LEMMA SumsExists ==
    ASSUME NEW f, NEW S, IsFiniteSet(S)
    PROVE  \E g : Sums(g, f, S)
<1> DEFINE Bad == {T \in FiniteSubsetsOf(S) : ~ \E g : Sums(g, f, T)}
<1>1. SUFFICES Bad = {}
  BY DEF FiniteSubsetsOf
<1>2. SUFFICES ASSUME Bad # {} PROVE FALSE
  OBVIOUS
<1>3. PICK T \in Bad : \A U \in Bad : U \subseteq T => U = T
  <2>1. Bad \subseteq FiniteSubsetsOf(S)
    OBVIOUS
  <2> HIDE DEF Bad
  <2> QED
    BY <1>2, <2>1, MinimalSet
<1>4. T \in FiniteSubsetsOf(S) /\ (~ \E g : Sums(g, f, T)) /\ T \subseteq S /\ IsFiniteSet(T)
  BY DEF FiniteSubsetsOf
<1> DEFINE part(U) == CHOOSE g : Sums(g, f, U)
           h == [s \in SUBSET T |-> IF s = {} THEN 0
                     ELSE f[Some(s)] + part(s \ {Some(s)})[s \ {Some(s)}]]
<1>5. ASSUME NEW U, U \subseteq T, U # T PROVE Sums(part(U), f, U)
  <2>1. U \in FiniteSubsetsOf(S)
    BY <1>4, <1>5, FS_Subset DEF FiniteSubsetsOf
  <2>2. \E g : Sums(g, f, U)
    BY <1>3, <1>5, <2>1
  <2> HIDE DEF Bad
  <2> QED
    BY <2>2
<1> HIDE DEF Bad, part
<1>6. ASSUME NEW s \in SUBSET T, s # {}
      PROVE  h[s \ {Some(s)}] = part(s \ {Some(s)})[s \ {Some(s)}]
  <2>1. PICK u : u = s \ {Some(s)}
    OBVIOUS
  <2>2. Some(s) \in s /\ IsFiniteSet(s)
    BY <1>4, <1>6, FS_Subset DEF Some
  <2>3. u \subseteq T /\ u # T /\ IsFiniteSet(u)
    BY <1>6, <2>1, <2>2, FS_Subset
  <2>4. Sums(part(u), f, u)
    BY <1>5, <2>3
  <2>5. part(u)[u] = IF u = {} THEN 0 ELSE f[Some(u)] + part(u)[u \ {Some(u)}]
    BY <2>4 DEF Sums
  <2>6. h[u] = IF u = {} THEN 0 ELSE f[Some(u)] + part(u \ {Some(u)})[u \ {Some(u)}]
    BY <2>3
  <2>7. CASE u = {}
    BY <2>1, <2>5, <2>6, <2>7
  <2>8. CASE u # {}
    <3>1. PICK v : v = u \ {Some(u)}
      OBVIOUS
    <3>2. v \subseteq u /\ v \subseteq T /\ v # T /\ IsFiniteSet(v)
      BY <2>3, <3>1, FS_Subset
    <3>3. Sums(part(v), f, v)
      BY <1>5, <3>2
    <3>4. part(u)[v] = part(v)[v]
      BY <2>4, <3>2, <3>3, SumsUnique
    <3> QED
      BY <2>1, <2>5, <2>6, <2>8, <3>1, <3>4
  <2> QED
    BY <2>7, <2>8
<1>7. Sums(h, f, T)
  BY <1>6 DEF Sums
<1> QED
  BY <1>4, <1>7

\* So SumFunctionOnSet, which the community modules define by recursion, unfolds.
LEMMA SumStep ==
    ASSUME NEW f, NEW S, IsFiniteSet(S)
    PROVE  /\ S = {} => SumFunctionOnSet(f, S) = 0
           /\ S # {} => SumFunctionOnSet(f, S) = f[Some(S)] + SumFunctionOnSet(f, S \ {Some(S)})
<1> DEFINE sums(T) == CHOOSE g : Sums(g, f, T)
<1>1. ASSUME NEW T PROVE SumFunctionOnSet(f, T) = sums(T)[T]
  BY Zenon DEF SumFunctionOnSet, FoldFunctionOnSet, MapThenFoldSet, Sums, Some
<1>2. ASSUME NEW T, IsFiniteSet(T) PROVE Sums(sums(T), f, T)
  BY <1>2, SumsExists
<1> HIDE DEF sums
<1>3. sums(S)[S] = IF S = {} THEN 0 ELSE f[Some(S)] + sums(S)[S \ {Some(S)}]
  <2>1. Sums(sums(S), f, S)
    BY <1>2
  <2> QED
    BY <2>1 DEF Sums
<1>4. CASE S # {}
  <2>1. PICK T : T = S \ {Some(S)}
    OBVIOUS
  <2>2. T \subseteq S /\ IsFiniteSet(T)
    BY <2>1, FS_Subset
  <2>3. sums(S)[T] = sums(T)[T]
    BY <1>2, <2>2, SumsUnique
  <2> QED
    BY <1>1, <1>3, <1>4, <2>1, <2>3
<1> QED
  BY <1>1, <1>3, <1>4

\* A finite sum of integers is one.
LEMMA SumIsInt ==
    ASSUME NEW f, NEW S, IsFiniteSet(S), \A x \in S : f[x] \in Int
    PROVE  SumFunctionOnSet(f, S) \in Int
<1> DEFINE Bad == {T \in FiniteSubsetsOf(S) : SumFunctionOnSet(f, T) \notin Int}
<1>1. SUFFICES Bad = {}
  BY DEF FiniteSubsetsOf
<1>2. SUFFICES ASSUME Bad # {} PROVE FALSE
  OBVIOUS
<1>3. PICK T \in Bad : \A U \in Bad : U \subseteq T => U = T
  <2>1. Bad \subseteq FiniteSubsetsOf(S)
    OBVIOUS
  <2> HIDE DEF Bad
  <2> QED
    BY <1>2, <2>1, MinimalSet
<1>4. T \subseteq S /\ IsFiniteSet(T) /\ SumFunctionOnSet(f, T) \notin Int
  BY DEF FiniteSubsetsOf
<1>5. T # {}
  <2>1. SumFunctionOnSet(f, {}) = 0
    BY FS_EmptySet, SumStep
  <2> QED
    BY <1>4, <2>1
<1>6. PICK c, U : c = Some(T) /\ U = T \ {c}
  OBVIOUS
<1>7. c \in T /\ U \in FiniteSubsetsOf(S) /\ U # T /\ U \subseteq T
  BY <1>4, <1>5, <1>6, Rest DEF FiniteSubsetsOf
<1>8. SumFunctionOnSet(f, U) \in Int
  BY <1>3, <1>7
<1>9. SumFunctionOnSet(f, T) = f[c] + SumFunctionOnSet(f, U)
  BY <1>4, <1>5, <1>6, SumStep
<1>10. f[c] \in Int
  BY <1>4, <1>7
<1> QED
  BY <1>4, <1>8, <1>9, <1>10

\* Any element of the set may be the one that is taken out.
LEMMA SumRemove ==
    ASSUME NEW f, NEW S, IsFiniteSet(S), \A x \in S : f[x] \in Int, NEW a \in S
    PROVE  SumFunctionOnSet(f, S) = f[a] + SumFunctionOnSet(f, S \ {a})
<1> DEFINE Bad == {T \in FiniteSubsetsOf(S) :
               \E x \in T : SumFunctionOnSet(f, T) # f[x] + SumFunctionOnSet(f, T \ {x})}
<1>1. SUFFICES Bad = {}
  <2>1. S \in FiniteSubsetsOf(S)
    BY DEF FiniteSubsetsOf
  <2> QED
    BY <2>1
<1>2. SUFFICES ASSUME Bad # {} PROVE FALSE
  OBVIOUS
<1>3. PICK T \in Bad : \A U \in Bad : U \subseteq T => U = T
  <2>1. Bad \subseteq FiniteSubsetsOf(S)
    OBVIOUS
  <2> HIDE DEF Bad
  <2> QED
    BY <1>2, <2>1, MinimalSet
<1>4. T \subseteq S /\ IsFiniteSet(T)
  BY DEF FiniteSubsetsOf
<1>5. PICK x \in T : SumFunctionOnSet(f, T) # f[x] + SumFunctionOnSet(f, T \ {x})
  OBVIOUS
<1>6. PICK c, U, V, W : c = Some(T) /\ U = T \ {c} /\ V = T \ {x} /\ W = U \ {x}
  OBVIOUS
<1>7. c \in T /\ c # x
  <2>1. c \in T
    BY <1>4, <1>5, <1>6, Rest
  <2>2. c # x
    BY <1>4, <1>5, <1>6, SumStep
  <2> QED
    BY <2>1, <2>2
<1>8. /\ U \in FiniteSubsetsOf(S) /\ U # T /\ U \subseteq T /\ x \in U
      /\ V \in FiniteSubsetsOf(S) /\ V # T /\ V \subseteq T /\ c \in V
      /\ W = V \ {c} /\ W = U \ {x}
  BY <1>4, <1>6, <1>7, FS_RemoveElement DEF FiniteSubsetsOf
<1>9. SumFunctionOnSet(f, T) = f[c] + SumFunctionOnSet(f, U)
  BY <1>4, <1>5, <1>6, SumStep
<1>10. SumFunctionOnSet(f, U) = f[x] + SumFunctionOnSet(f, W)
  BY <1>3, <1>8
<1>11. SumFunctionOnSet(f, V) = f[c] + SumFunctionOnSet(f, W)
  BY <1>3, <1>8
<1>12. f[c] \in Int /\ f[x] \in Int /\ SumFunctionOnSet(f, W) \in Int
  <2>1. W \subseteq S /\ IsFiniteSet(W)
    BY <1>4, <1>6, FS_Subset
  <2> QED
    BY <1>4, <1>7, <2>1, SumIsInt
<1> QED
  BY <1>5, <1>6, <1>9, <1>10, <1>11, <1>12

\* Two sums that agree, or are opposite, term by term.
LEMMA SumScaled ==
    ASSUME NEW f, NEW g, NEW z \in {1, -1}, NEW S, IsFiniteSet(S),
           \A x \in S : f[x] \in Int /\ g[x] = z * f[x]
    PROVE  SumFunctionOnSet(g, S) = z * SumFunctionOnSet(f, S)
<1> DEFINE Bad == {T \in FiniteSubsetsOf(S) :
                     SumFunctionOnSet(g, T) # z * SumFunctionOnSet(f, T)}
<1>1. SUFFICES Bad = {}
  BY DEF FiniteSubsetsOf
<1>2. SUFFICES ASSUME Bad # {} PROVE FALSE
  OBVIOUS
<1>3. PICK T \in Bad : \A U \in Bad : U \subseteq T => U = T
  <2>1. Bad \subseteq FiniteSubsetsOf(S)
    OBVIOUS
  <2> HIDE DEF Bad
  <2> QED
    BY <1>2, <2>1, MinimalSet
<1>4. T \subseteq S /\ IsFiniteSet(T) /\ SumFunctionOnSet(g, T) # z * SumFunctionOnSet(f, T)
  BY DEF FiniteSubsetsOf
<1>5. T # {}
  <2>1. SumFunctionOnSet(f, {}) = 0 /\ SumFunctionOnSet(g, {}) = 0
    BY FS_EmptySet, SumStep
  <2>2. z * 0 = 0
    OBVIOUS
  <2> QED
    BY <1>4, <2>1, <2>2
<1>6. PICK c, U : c = Some(T) /\ U = T \ {c}
  OBVIOUS
<1>7. c \in T /\ U \in FiniteSubsetsOf(S) /\ U # T /\ U \subseteq T
  BY <1>4, <1>5, <1>6, Rest DEF FiniteSubsetsOf
<1>8. SumFunctionOnSet(g, U) = z * SumFunctionOnSet(f, U)
  BY <1>3, <1>7
<1>9. /\ SumFunctionOnSet(f, T) = f[c] + SumFunctionOnSet(f, U)
      /\ SumFunctionOnSet(g, T) = g[c] + SumFunctionOnSet(g, U)
  BY <1>4, <1>5, <1>6, SumStep
<1>10. f[c] \in Int /\ g[c] = z * f[c]
  BY <1>4, <1>7
<1>11. SumFunctionOnSet(f, U) \in Int
  <2>1. U \subseteq S /\ IsFiniteSet(U)
    BY <1>4, <1>7, FS_Subset
  <2> QED
    BY <2>1, SumIsInt
<1>12. CASE z = 1
  BY <1>4, <1>8, <1>9, <1>10, <1>11, <1>12
<1>13. CASE z = -1
  BY <1>4, <1>8, <1>9, <1>10, <1>11, <1>13
<1> QED
  BY <1>12, <1>13
-----------------------------------------------------------------------------
(* What is left of an entry.                                               *)

Sizes == [r \in Posted |-> Abs(ledger[r].amount)]

\* What the reversals of an entry have used up of it.
Spent(k) == SumFunctionOnSet(Sizes, Reversals(k))

\* The remaining value that a reversal in flight saw still covers it.
SoundReversal(c) ==
    /\ c.op = "reverse" =>
         /\ c.of \in Posted
         /\ c.entry # None =>
              /\ c.entry.type = "reversal" /\ c.entry.of = c.of /\ c.entry.amount < 0
              /\ Spent(c.of) - c.entry.amount <= Abs(ledger[c.of].amount)
    /\ c.op # "reverse" /\ c.entry # None => c.entry.type # "reversal"

\* A reversal is negative and of a posted entry.
ReversalsPosted ==
    \A k \in Posted : ledger[k].type = "reversal" => ledger[k].of \in Posted /\ ledger[k].amount < 0

\* One reversal of an entry at a time: it has the entry locked.
ReversalLock ==
    \A g, h \in Handlers :
        call[g].op = "reverse" /\ call[h].op = "reverse" /\ call[g].of = call[h].of => g = h

ValueInv ==
    /\ IsFiniteSet(Posted)
    /\ ReversalsPosted
    /\ ReversalLock
    /\ \A h \in Handlers : SoundReversal(call[h])
    /\ ReversalsBounded

\* An amount without its sign.
LEMMA AbsBounds == \A n \in Int : Abs(n) \in Nat /\ Abs(n) >= n /\ (n < 0 => Abs(n) = -n)
BY DEF Abs

\* Reversals of an entry are posted, and their sizes are numbers.
LEMMA ReversalsFinite ==
    ASSUME TypeOK, IsFiniteSet(Posted), NEW k
    PROVE  /\ IsFiniteSet(Reversals(k))
           /\ \A r \in Reversals(k) : Sizes[r] = Abs(ledger[r].amount) /\ Sizes[r] \in Int
           /\ Spent(k) \in Int
<1>1. Reversals(k) \subseteq Posted
  BY DEF Reversals
<1>2. IsFiniteSet(Reversals(k))
  BY <1>1, FS_Subset
<1>3. ASSUME NEW r \in Posted PROVE ledger[r].amount \in Int
  BY DEF TypeOK, Posted, Entry
<1>4. \A r \in Reversals(k) : Sizes[r] = Abs(ledger[r].amount) /\ Sizes[r] \in Int
  BY <1>1, <1>3, AbsBounds DEF Sizes
<1>5. Spent(k) \in Int
  BY <1>2, <1>4, SumIsInt DEF Spent
<1> QED
  BY <1>2, <1>4, <1>5

\* The total that _reversed_total reads is no less than what is spent.
LEMMA TotalCoversSpent ==
    ASSUME TypeOK, IsFiniteSet(Posted), ReversalsPosted, NEW k
    PROVE  ReversedTotal(k) \in Int /\ Spent(k) <= ReversedTotal(k)
<1>1. PICK a : a = [r \in Posted |-> ledger[r].amount]
  OBVIOUS
<1>2. ASSUME NEW r \in Reversals(k) PROVE Sizes[r] \in Int /\ a[r] = -1 * Sizes[r]
  <2>1. r \in Posted /\ ledger[r].type = "reversal"
    BY DEF Reversals
  <2>2. ledger[r].amount \in Int /\ ledger[r].amount < 0
    BY <2>1 DEF ReversalsPosted, TypeOK, Posted, Entry
  <2>3. Sizes[r] = - ledger[r].amount
    BY <2>1, <2>2, AbsBounds DEF Sizes
  <2> QED
    BY <1>1, <2>1, <2>2, <2>3
<1>3. SumFunctionOnSet(a, Reversals(k)) = -1 * Spent(k)
  BY <1>2, ReversalsFinite, SumScaled DEF Spent
<1>4. Spent(k) \in Int
  BY ReversalsFinite
<1>5. ReversedTotal(k) = Abs(-1 * Spent(k))
  BY <1>1, <1>3 DEF ReversedTotal
<1> HIDE DEF Spent
<1> QED
  BY <1>4, <1>5 DEF Abs

\* What a posted entry changes in what is spent.
LEMMA PostSpends ==
    ASSUME TypeOK, IsFiniteSet(Posted), ReversalsPosted, NEW k \in Keys, NEW e \in Entry,
           e # None, ledger[k] = None, ledger' = [ledger EXCEPT ![k] = e],
           e.type = "reversal" => e.of \in Posted
    PROVE  /\ Posted' = Posted \cup {k} /\ k \notin Posted /\ IsFiniteSet(Posted')
           /\ ledger'[k] = e /\ \A x \in Posted : ledger'[x] = ledger[x]
           /\ Spent(k)' = 0
           /\ \A x \in Posted : Spent(x)' = IF e.type = "reversal" /\ e.of = x
                                            THEN Spent(x) + Abs(e.amount) ELSE Spent(x)
<1>2. \A l \in Keys : ledger'[l] = IF l = k THEN e ELSE ledger[l]
  BY DEF TypeOK
<1>3. /\ Posted' = Posted \cup {k} /\ k \notin Posted
      /\ ledger'[k] = e /\ \A x \in Posted : ledger'[x] = ledger[x]
  BY <1>2 DEF Posted
<1>4. IsFiniteSet(Posted')
  BY <1>3, FS_AddElement
<1>5. \A x : Reversals(x)' = IF e.type = "reversal" /\ e.of = x THEN Reversals(x) \cup {k}
                                                               ELSE Reversals(x)
  BY <1>3 DEF Reversals
<1>6. Reversals(k)' = {}
  <2>1. Reversals(k) = {}
    BY <1>3 DEF Reversals, ReversalsPosted
  <2>2. ~(e.type = "reversal" /\ e.of = k)
    BY <1>3
  <2> QED
    BY <1>5, <2>1, <2>2
<1>7. Spent(k)' = 0
  <2>1. Spent(k)' = SumFunctionOnSet(Sizes', {})
    BY <1>6 DEF Spent
  <2> QED
    BY <2>1, FS_EmptySet, SumStep
<1>8. ASSUME NEW x \in Posted
      PROVE  Spent(x)' = IF e.type = "reversal" /\ e.of = x THEN Spent(x) + Abs(e.amount)
                                                            ELSE Spent(x)
  <2>1. PICK s, t, R : s = Sizes /\ t = Sizes' /\ R = Reversals(x)
    OBVIOUS
  <2>2. R \subseteq Posted /\ k \notin R
    BY <2>1, <1>3 DEF Reversals
  <2>3. ASSUME NEW r \in R PROVE s[r] \in Int /\ t[r] = 1 * s[r]
    <3>1. s[r] \in Int /\ s[r] = Abs(ledger[r].amount)
      BY <2>1, ReversalsFinite
    <3>2. t[r] = Abs(ledger'[r].amount)
      BY <2>1, <2>2, <1>3 DEF Sizes, Abs
    <3>3. ledger'[r] = ledger[r]
      BY <2>2, <1>3
    <3> QED
      BY <3>1, <3>2, <3>3
  <2>4. IsFiniteSet(R)
    BY <2>1, ReversalsFinite
  <2>5. SumFunctionOnSet(t, R) = 1 * SumFunctionOnSet(s, R) /\ SumFunctionOnSet(s, R) \in Int
    BY <2>3, <2>4, SumScaled, SumIsInt
  <2>6. SumFunctionOnSet(t, R) = Spent(x)
    BY <2>1, <2>5 DEF Spent
  <2>7. CASE e.type = "reversal" /\ e.of = x
    <3>1. Reversals(x)' = R \cup {k}
      BY <2>1, <2>7, <1>5
    <3>2. t[k] = Abs(e.amount) /\ t[k] \in Int
      <4>1. t[k] = Abs(ledger'[k].amount)
        BY <2>1, <1>3 DEF Sizes, Abs
      <4>2. e.amount \in Int
        BY DEF Entry
      <4> QED
        BY <4>1, <4>2, <1>3, AbsBounds
    <3>3. \A r \in R \cup {k} : t[r] \in Int
      BY <2>3, <3>2
    <3>4. IsFiniteSet(R \cup {k}) /\ (R \cup {k}) \ {k} = R
      BY <2>2, <2>4, FS_AddElement
    <3>5. SumFunctionOnSet(t, R \cup {k}) = t[k] + SumFunctionOnSet(t, R)
      BY <3>3, <3>4, SumRemove
    <3>6. Spent(x)' = SumFunctionOnSet(t, R \cup {k})
      BY <2>1, <3>1 DEF Spent
    <3>7. Spent(x) \in Int
      BY ReversalsFinite
    <3> HIDE DEF Spent
    <3> QED
      BY <2>6, <2>7, <3>2, <3>5, <3>6, <3>7
  <2>8. CASE ~(e.type = "reversal" /\ e.of = x)
    <3>1. Reversals(x)' = R
      BY <2>1, <2>8, <1>5
    <3>2. Spent(x)' = SumFunctionOnSet(t, R)
      BY <2>1, <3>1 DEF Spent
    <3> QED
      BY <3>2, <2>6, <2>8
  <2> QED
    BY <2>7, <2>8
<1> QED
  BY <1>3, <1>4, <1>7, <1>8

\* What is spent, and what is sound, looks at the ledger only.
LEMMA SameLedger ==
    ASSUME UNCHANGED ledger
    PROVE  /\ Posted' = Posted /\ \A k : Spent(k)' = Spent(k)
           /\ ReversalsBounded => ReversalsBounded'
           /\ ReversalsPosted => ReversalsPosted'
           /\ \A c : SoundReversal(c) => SoundReversal(c)'
<1>1. Posted' = Posted /\ \A k : Spent(k)' = Spent(k) /\ Reversals(k)' = Reversals(k)
  BY DEF Posted, Spent, Sizes, Reversals, Abs
<1>2. ReversalsBounded => ReversalsBounded'
  BY <1>1 DEF ReversalsBounded, Abs
<1>3. ReversalsPosted => ReversalsPosted'
  BY <1>1 DEF ReversalsPosted
<1>4. \A c : SoundReversal(c) => SoundReversal(c)'
  BY <1>1 DEF SoundReversal, Abs
<1> QED
  BY <1>1, <1>2, <1>3, <1>4

\* A request comes in: a reversal only when no other has its entry locked.
LEMMA ReceiveKeepsValue ==
    ASSUME IInv, ValueInv, NEW h \in Handlers, NEW c, Receive(h, c), SoundReversal(c),
           c.op = "reverse" => ~EntryLocked(c.of)
    PROVE  ValueInv'
<1>1. UNCHANGED ledger /\ \A g \in Handlers : call'[g] = IF g = h THEN c ELSE call[g]
  BY DEF IInv, TypeOK, Receive, tables
<1>2. ReversalLock'
  BY <1>1 DEF ValueInv, ReversalLock, EntryLocked
<1>3. ASSUME NEW g \in Handlers PROVE SoundReversal(call[g])'
  <2>1. PICK d : d = call'[g]
    OBVIOUS
  <2>2. SoundReversal(d)
    BY <2>1, <1>1 DEF ValueInv
  <2>3. SoundReversal(d)'
    BY <2>2, <1>1, SameLedger
  <2> QED
    BY <2>1, <2>3 DEF SoundReversal
<1> QED
  BY <1>1, <1>2, <1>3, SameLedger DEF ValueInv

\* A request is answered, and its entry posted or the ledger left as it is: the
\* lock has kept what a reversal saw true until here.
LEMMA AnswerKeepsValue ==
    ASSUME IInv, ValueInv, NEW h \in Handlers, Answered(h),
           \/ UNCHANGED ledger
           \/ /\ call[h].op \in {"verify", "adjust", "reverse"}
              /\ Post(call[h].key, call[h].entry)
    PROVE  ValueInv'
<1>1. \A g \in Handlers : call'[g] = IF g = h THEN Idle ELSE call[g]
  BY DEF IInv, TypeOK, Answered
<1>2. ReversalLock'
  BY <1>1 DEF ValueInv, ReversalLock, Idle
<1>3. ASSUME NEW d, NEW g \in Handlers, d = IF g = h THEN Idle ELSE call[g], SoundReversal(d)'
      PROVE  SoundReversal(call[g])'
  BY <1>1, <1>3 DEF SoundReversal
<1>4. SoundReversal(Idle)'
  BY DEF SoundReversal, Idle
<1>5. CASE UNCHANGED ledger
  <2>1. ASSUME NEW g \in Handlers PROVE SoundReversal(call[g])'
    <3>1. PICK d : d = IF g = h THEN Idle ELSE call[g]
      OBVIOUS
    <3>2. SoundReversal(d)'
      BY <3>1, <1>4, <1>5, SameLedger DEF ValueInv
    <3> QED
      BY <3>1, <3>2, <1>3
  <2> QED
    BY <2>1, <1>2, <1>5, SameLedger DEF ValueInv
<1>6. CASE /\ call[h].op \in {"verify", "adjust", "reverse"}
           /\ Post(call[h].key, call[h].entry)
           /\ call[h].entry # None
  <2>1. PICK k, e, o, x : k = call[h].key /\ e = call[h].entry /\ o = call[h].op /\ x = call[h].of
    OBVIOUS
  <2>2. k \in Keys /\ e \in Entry /\ e # None /\ e.amount \in Int
    BY <2>1, <1>6 DEF IInv, TypeOK, CallsSound, WellFormed, Call, Entry
  <2>3. ledger[k] = None /\ ledger' = [ledger EXCEPT ![k] = e]
    BY <2>1, <2>2, <1>6 DEF Post
  <2>4. /\ o = "reverse" => /\ x \in Posted /\ e.type = "reversal" /\ e.of = x /\ e.amount < 0
                            /\ Spent(x) - e.amount <= Abs(ledger[x].amount)
        /\ o # "reverse" => e.type # "reversal"
    BY <2>1, <2>2 DEF ValueInv, SoundReversal
  <2>5. /\ Posted' = Posted \cup {k} /\ k \notin Posted /\ IsFiniteSet(Posted')
        /\ ledger'[k] = e /\ \A y \in Posted : ledger'[y] = ledger[y]
        /\ Spent(k)' = 0
        /\ \A y \in Posted : Spent(y)' = IF e.type = "reversal" /\ e.of = y
                                         THEN Spent(y) + Abs(e.amount) ELSE Spent(y)
    BY <2>2, <2>3, <2>4, PostSpends DEF IInv, ValueInv
  <2>6. ReversalsPosted'
    BY <2>4, <2>5 DEF ValueInv, ReversalsPosted
  <2>7. ReversalsBounded'
    <3>1. \A y \in Posted : Spent(y) \in Int /\ Spent(y) <= Abs(ledger[y].amount)
      BY ReversalsFinite DEF IInv, ValueInv, ReversalsBounded, Spent, Sizes
    <3>2. \A y \in Posted : Abs(ledger'[y].amount) = Abs(ledger[y].amount)
      BY <2>5
    <3>3. ASSUME NEW y \in Posted PROVE Spent(y)' <= Abs(ledger'[y].amount)
      <4>1. CASE e.type = "reversal" /\ e.of = y
        <5>1. o = "reverse" /\ x = y /\ Spent(y)' = Spent(y) + Abs(e.amount)
          BY <2>4, <2>5, <4>1
        <5>2. Abs(e.amount) = - e.amount
          BY <2>2, <2>4, <5>1, AbsBounds
        <5>3. Spent(y)' = Spent(y) - e.amount
          BY <5>1, <5>2, <2>2, <3>1
        <5> QED
          BY <5>1, <5>3, <2>4, <3>2
      <4>2. CASE ~(e.type = "reversal" /\ e.of = y)
        BY <4>2, <2>5, <3>1, <3>2
      <4> QED
        BY <4>1, <4>2
    <3>4. Spent(k)' <= Abs(ledger'[k].amount)
      BY <2>2, <2>5, AbsBounds
    <3>5. \A y \in Posted' : Spent(y)' <= Abs(ledger'[y].amount)
      BY <2>5, <3>3, <3>4
    <3> QED
      BY <3>5 DEF ReversalsBounded, Spent, Sizes, Abs
  <2>8. ASSUME NEW g \in Handlers PROVE SoundReversal(call[g])'
    <3>1. PICK d : d = IF g = h THEN Idle ELSE call[g]
      OBVIOUS
    <3>2. CASE g = h
      BY <3>1, <3>2, <1>3, <1>4
    <3>3. CASE g # h
      <4>1. d = call[g] /\ SoundReversal(d)
        BY <3>1, <3>3 DEF ValueInv
      <4>2. d.op = "reverse" =>
              /\ d.of \in Posted' /\ Spent(d.of)' = Spent(d.of)
              /\ Abs(ledger'[d.of].amount) = Abs(ledger[d.of].amount)
        <5>1. SUFFICES ASSUME d.op = "reverse"
                       PROVE  /\ d.of \in Posted' /\ Spent(d.of)' = Spent(d.of)
                              /\ Abs(ledger'[d.of].amount) = Abs(ledger[d.of].amount)
          OBVIOUS
        <5>2. d.of \in Posted
          BY <4>1, <5>1 DEF SoundReversal
        <5>3. ~(e.type = "reversal" /\ e.of = d.of)
          BY <2>1, <2>4, <3>3, <4>1, <5>1 DEF ValueInv, ReversalLock
        <5> QED
          BY <5>2, <5>3, <2>5
      <4>3. SoundReversal(d)'
        BY <4>1, <4>2 DEF SoundReversal, Abs
      <4> QED
        BY <3>1, <4>3, <1>3
    <3> QED
      BY <3>2, <3>3
  <2> QED
    BY <2>5, <2>6, <2>7, <2>8, <1>2 DEF ValueInv
<1>7. CASE call[h].entry = None /\ Post(call[h].key, call[h].entry)
  BY <1>5, <1>7 DEF Post
<1> QED
  BY <1>5, <1>6, <1>7

\* The requests that read something other than what remains of an entry.
LEMMA OperationsKeepValue ==
    ASSUME IInv, ValueInv, NEW h \in Handlers, Operations(h)
    PROVE  ValueInv'
<1>1. ASSUME NEW c, Receive(h, c), c.op # "reverse",
             c.entry # None => c.entry.type # "reversal"
      PROVE  ValueInv'
  BY <1>1, ReceiveKeepsValue DEF SoundReversal
<1>2. CASE \E c \in Cases : StartExecution(h, c) \/ CompleteExecution(h, c)
  <2>1. PICK c \in Cases, op \in {"start", "complete"} :
          Receive(h, [Idle EXCEPT !.op = op, !.case = c])
    BY <1>2, Zenon DEF StartExecution, CompleteExecution
  <2> DEFINE r == [Idle EXCEPT !.op = op, !.case = c]
  <2>2. Receive(h, r)
    BY <2>1
  <2>3. r.op # "reverse" /\ r.entry = None
    BY DEF Idle
  <2> HIDE DEF r
  <2> QED
    BY <2>2, <2>3, <1>1
<1>3. CASE \E m \in Measurements : CreateMeasurement(h, m)
  <2>1. PICK m \in Measurements : CreateMeasurement(h, m)
    BY <1>3
  <2> DEFINE r == [Idle EXCEPT !.op = "measure", !.m = m, !.case = CaseOf[m],
                               !.dirty = (exec[CaseOf[m]].status # "measured")]
  <2>2. Receive(h, r)
    BY <2>1 DEF CreateMeasurement
  <2>3. r.op # "reverse" /\ r.entry = None
    BY DEF Idle
  <2> HIDE DEF r
  <2> QED
    BY <2>2, <2>3, <1>1
<1>4. CASE \E m \in Measurements, u \in Users : SubmitMeasurement(h, m, u)
  <2>1. PICK m \in Measurements, u \in Users :
          Receive(h, [Idle EXCEPT !.op = "submit", !.m = m, !.user = u])
    BY <1>4, Zenon DEF SubmitMeasurement
  <2> DEFINE r == [Idle EXCEPT !.op = "submit", !.m = m, !.user = u]
  <2>2. Receive(h, r)
    BY <2>1
  <2>3. r.op # "reverse" /\ r.entry = None
    BY DEF Idle
  <2> HIDE DEF r
  <2> QED
    BY <2>2, <2>3, <1>1
<1>5. CASE \E m \in Measurements, u \in Users, k \in Keys, decision \in Decisions :
             FinanceReview(h, m, u, k, decision)
  <2>1. PICK m \in Measurements, u \in Users, k \in Keys, decision \in Decisions :
          Receive(h, [Idle EXCEPT !.op = "review", !.m = m, !.user = u, !.key = k, !.to = decision])
    BY <1>5, Zenon DEF FinanceReview
  <2> DEFINE r == [Idle EXCEPT !.op = "review", !.m = m, !.user = u, !.key = k, !.to = decision]
  <2>2. Receive(h, r)
    BY <2>1
  <2>3. r.op # "reverse" /\ r.entry = None
    BY DEF Idle
  <2> HIDE DEF r
  <2> QED
    BY <2>2, <2>3, <1>1
<1>6. CASE \E m \in Measurements, u \in Users, k \in Keys, amount \in Amounts :
             Verify(h, m, u, k, amount)
  <2>1. PICK m \in Measurements, u \in Users, k \in Keys, amount \in Amounts :
          Verify(h, m, u, k, amount)
    BY <1>6
  <2>2. PICK e : e = LedgerEntry(CaseOf[m], k, "verified_recovery", amount, m, None)
    OBVIOUS
  <2> DEFINE r == [Idle EXCEPT !.op = "verify", !.m = m, !.user = u, !.key = k,
                               !.amount = amount, !.entry = e]
  <2>3. Receive(h, r)
    BY <2>1, <2>2 DEF Verify
  <2>4. e # None => e.type # "reversal"
    BY <2>2 DEF LedgerEntry
  <2>5. r.op # "reverse" /\ r.entry = e
    BY DEF Idle
  <2> HIDE DEF r
  <2> QED
    BY <2>3, <2>4, <2>5, <1>1
<1> QED
  BY <1>2, <1>3, <1>4, <1>5, <1>6 DEF Operations

\* reversal, up to its commit: the lock is free, and the amount within what remains.
LEMMA ReversalKeepsValue ==
    ASSUME IInv, ValueInv, NEW h \in Handlers, NEW original \in Keys, NEW k \in Keys,
           NEW amount \in Amounts, Reversal(h, original, k, amount)
    PROVE  ValueInv'
<1>1. PICK e : e = LedgerEntry(ledger[original].case, k, "reversal", -amount,
                               ledger[original].m, original)
  OBVIOUS
<1> DEFINE r == [Idle EXCEPT !.op = "reverse", !.key = k, !.of = original, !.entry = e]
<1>2. /\ Receive(h, r) /\ original \in Posted /\ ~EntryLocked(original)
      /\ amount <= Abs(ledger[original].amount) - ReversedTotal(original)
  BY <1>1 DEF Reversal
<1>3. amount \in Nat \ {0}
  BY AmountsAssumption
<1>4. ledger[original].amount \in Int
  BY <1>2 DEF IInv, TypeOK, Posted, Entry
<1>5. Spent(original) \in Int /\ ReversedTotal(original) \in Int
      /\ Spent(original) <= ReversedTotal(original) /\ Abs(ledger[original].amount) \in Int
  BY <1>4, ReversalsFinite, TotalCoversSpent, AbsBounds DEF IInv, ValueInv
<1>6. Spent(original) + amount <= Abs(ledger[original].amount)
  BY <1>2, <1>3, <1>5
<1>7. e # None => e.type = "reversal" /\ e.of = original /\ e.amount = -amount
  BY <1>1 DEF LedgerEntry
<1>8. e # None => e.amount < 0 /\ Spent(original) - e.amount <= Abs(ledger[original].amount)
  BY <1>3, <1>5, <1>6, <1>7
<1>9. r.op = "reverse" /\ r.of = original /\ r.entry = e
  BY DEF Idle
<1> HIDE DEF r
<1>10. SoundReversal(r)
  BY <1>2, <1>7, <1>8, <1>9 DEF SoundReversal
<1> QED
  BY <1>2, <1>9, <1>10, ReceiveKeepsValue

\* adjustment and reversal, up to their commits.
LEMMA CorrectionsKeepValue ==
    ASSUME IInv, ValueInv, NEW h \in Handlers, Corrections(h)
    PROVE  ValueInv'
<1>1. ASSUME NEW original \in Keys, NEW k \in Keys, NEW amount \in Amounts,
             NEW type \in {"adjustment_positive", "adjustment_negative"},
             Adjustment(h, original, k, amount, type)
      PROVE  ValueInv'
  <2>1. PICK a : a = IF type = "adjustment_positive" THEN amount ELSE -amount
    OBVIOUS
  <2>2. PICK e : e = LedgerEntry(ledger[original].case, k, type, a, ledger[original].m, original)
    OBVIOUS
  <2> DEFINE r == [Idle EXCEPT !.op = "adjust", !.key = k, !.of = original, !.entry = e]
  <2>3. Receive(h, r)
    BY <1>1, <2>1, <2>2 DEF Adjustment
  <2>4. e # None => e.type # "reversal"
    BY <2>2 DEF LedgerEntry
  <2>5. r.op # "reverse" /\ r.entry = e
    BY DEF Idle
  <2> HIDE DEF r
  <2>6. SoundReversal(r)
    BY <2>4, <2>5 DEF SoundReversal
  <2> QED
    BY <2>3, <2>5, <2>6, ReceiveKeepsValue
<1> QED
  BY <1>1, ReversalKeepsValue DEF Corrections

\* Every step keeps the invariant about what is spent.
LEMMA StepKeepsValue == IInv /\ ValueInv /\ [Next]_vars => ValueInv'
<1> SUFFICES ASSUME IInv, ValueInv, [Next]_vars PROVE ValueInv'
  OBVIOUS
<1>1. ASSUME NEW h \in Handlers, Commit(h) PROVE ValueInv'
  <2>1. /\ Answered(h)
        /\ \/ UNCHANGED ledger
           \/ /\ call[h].op \in {"verify", "adjust", "reverse"}
              /\ Post(call[h].key, call[h].entry)
    BY <1>1 DEF Commit, CommitTransition, CommitMeasurement, CommitSubmission,
         CommitReview, CommitVerification, CommitMutation
  <2> QED
    BY <2>1, AnswerKeepsValue
<1>2. ASSUME NEW h \in Handlers, Abort(h) PROVE ValueInv'
  BY <1>2, AnswerKeepsValue DEF Abort, tables
<1>3. CASE UNCHANGED <<ledger, call>>
  <2>1. \A h \in Handlers : SoundReversal(call[h])'
    <3>1. ASSUME NEW h \in Handlers PROVE SoundReversal(call[h])'
      <4>1. PICK d : d = call[h]
        OBVIOUS
      <4>2. SoundReversal(d)'
        BY <4>1, <1>3, SameLedger DEF ValueInv
      <4> QED
        BY <4>1, <4>2, <1>3 DEF SoundReversal
    <3> QED
      BY <3>1
  <2>2. ReversalLock'
    BY <1>3 DEF ValueInv, ReversalLock
  <2> QED
    BY <2>1, <2>2, <1>3, SameLedger DEF ValueInv
<1>4. ASSUME NEW c \in Cases, CreateExecution(c) PROVE ValueInv'
  BY <1>3, <1>4 DEF CreateExecution
<1>5. CASE UNCHANGED vars
  BY <1>3, <1>5 DEF vars, tables
<1> QED
  BY <1>1, <1>2, <1>4, <1>5, OperationsKeepValue, CorrectionsKeepValue DEF Next

\* Nothing is posted and nothing in flight.
LEMMA InitValue == Init => ValueInv
<1> SUFFICES ASSUME Init PROVE ValueInv
  OBVIOUS
<1>1. Posted = {} /\ IsFiniteSet(Posted)
  BY FS_EmptySet DEF Init, Posted
<1>2. ReversalLock /\ \A h \in Handlers : SoundReversal(call[h])
  BY DEF Init, Idle, ReversalLock, SoundReversal
<1> QED
  BY <1>1, <1>2 DEF ValueInv, ReversalsPosted, ReversalsBounded

\* The reversals of an entry never sum to more than the entry (reversal), for any
\* amounts and any number of reversals that overlap: each sums what is reversed
\* with the entry locked, and keeps the lock until its own entry is posted.
THEOREM ReversalsNeverExceed == Spec => []ReversalsBounded
<1>1. ValueInv => ReversalsBounded
  BY DEF ValueInv
<1> QED
  BY <1>1, InitHolds, StepKeeps, InitValue, StepKeepsValue, PTL DEF Spec
=============================================================================
