---------------------- MODULE MappingGovernance_proofs ----------------------
(***************************************************************************)
(* Proofs about the governance of canonical mappings, for any number of    *)
(* template versions, field mappings, users, runs, raw records and         *)
(* entities.                                                               *)
(*                                                                         *)
(* No handler locks a row, so a status or an exception is stale when it is *)
(* written.  The proofs rest on what is never taken back: field mappings   *)
(* and stamps of a version are only added, a record that has an exception  *)
(* or a candidate keeps having one, and nothing of a run is visible before *)
(* the commit at its end.                                                  *)
(***************************************************************************)
EXTENDS MappingGovernance, TLAPS

-----------------------------------------------------------------------------
(* The inductive invariant.                                                *)

VersionRows == [status : Lifecycle, content : SUBSET Fields,
                stamps : SUBSET {"validated", "approved", "published"}]
RunRows == [stage : {"none", "mapping", "completed", "partially_completed", "failed"},
            version : Versions \cup {"none"},
            mapped : [Records -> Result],
            rivals : [Records -> SUBSET Entities],
            new : SUBSET Entities]
CandidateStatuses == {"none", "candidate", "accepted", "rejected", "superseded"}

Types ==
    /\ version \in [Versions -> VersionRows]
    /\ request \in [Users -> Requests]
    /\ run \in [Runs -> RunRows]
    /\ entities \subseteq Entities
    /\ result \in [Records -> Result]
    /\ candidate \in [Records -> [Entities -> CandidateStatuses]]
    /\ exception \in [Records -> {"none", "open", "under_review", "resolved", "wont_fix"}]
    /\ reviews \in [Records -> SUBSET Decisions]

\* The gates behind a status, as the row of a version has them on record.
FromPublished == {"published", "deprecated", "retired"}
FromApproved == {"approved"} \cup FromPublished
FromValidated == {"validated"} \cup FromApproved

Passed(row, status) ==
    /\ status \in FromValidated => row.content # {} /\ "validated" \in row.stamps
    /\ status \in FromApproved => "approved" \in row.stamps
    /\ status \in FromPublished => "published" \in row.stamps

\* Those that a transition relies on.
MayReach(row, to) ==
    /\ to \in FromValidated => row.content # {}
    /\ to \in FromApproved => "validated" \in row.stamps
    /\ to \in FromPublished => "approved" \in row.stamps
    /\ to \in {"deprecated", "retired"} => "published" \in row.stamps

VersionsSound ==
    /\ \A v \in Versions : Passed(version[v], version[v].status)
    /\ \A u \in Users : request[u].op = "step" =>
         MayReach(version[request[u].v], request[u].to)
    /\ \A r \in Runs : run[r].version # "none" =>
         Passed(version[run[r].version], "published")

\* What a run made of a record, and has not committed.
MappedSound(r) ==
    \A rec \in Records :
      LET res == run[r].mapped[rec]
      IN  /\ res.primary = (res.status = "mapped")
          /\ res.status # "human_confirmed"
          /\ run[r].rivals[rec] # {} => res.status = "ambiguous" /\ rec \in InputsOf[r]

\* Nothing of a run is visible before its commit, then nothing is hidden.
CommitSound(r) ==
    \A rec \in InputsOf[r] :
      /\ run[r].stage \in {"none", "mapping", "failed"} =>
           result[rec] = NoResult /\ exception[rec] = "none"
      /\ run[r].stage = "completed" => result[rec].primary /\ exception[rec] = "none"
      /\ run[r].stage = "partially_completed" => result[rec].primary \/ exception[rec] # "none"

RecordSound(rec) ==
    /\ \A e \in Entities : candidate[rec][e] # "none" => exception[rec] # "none"
    /\ \A e \in Entities : candidate[rec][e] # "none" /\ result[rec].primary =>
         result[rec].status = "human_confirmed"
    /\ result[rec].status = "human_confirmed" =>
         /\ result[rec].primary
         /\ result[rec].target \in Entities
         /\ candidate[rec][result[rec].target] # "none"
         /\ \A e \in Entities : candidate[rec][e] # "candidate"

\* A reviewer decides on what is there.
ReviewSound(q) ==
    /\ q.op = "review" => exception[q.rec] # "none"
    /\ q.op = "decide" => candidate[q.rec][q.e] # "none"

IInv ==
    /\ Types
    /\ VersionsSound
    /\ \A r \in Runs : MappedSound(r) /\ CommitSound(r)
    /\ \A rec \in Records : RecordSound(rec)
    /\ \A u \in Users : ReviewSound(request[u])
    /\ ClosedExceptionHasReason

-----------------------------------------------------------------------------
(* What no step takes back.                                                *)

\* What a version has passed, or may reach, it does with more on record too.
LEMMA GatesGrow ==
    ASSUME NEW row \in VersionRows, NEW more \in VersionRows,
           row.content \subseteq more.content, row.stamps \subseteq more.stamps,
           NEW status
    PROVE  /\ Passed(row, status) => Passed(more, status)
           /\ MayReach(row, status) => MayReach(more, status)
  BY DEF Passed, MayReach

\* Steps that add to versions, request a sound transition, or submit a run
\* under a published version.
LEMMA VersionsKeep ==
    ASSUME IInv, version' \in [Versions -> VersionRows],
           \A v \in Versions : /\ version[v].content \subseteq version'[v].content
                               /\ version[v].stamps \subseteq version'[v].stamps
                               /\ \/ version'[v] = version[v]
                                  \/ Passed(version'[v], version'[v].status),
           \/ UNCHANGED request
           \/ \E u \in Users, q \in Requests :
                /\ request' = [request EXCEPT ![u] = q]
                /\ q.op = "step" => MayReach(version[q.v], q.to),
           \A r \in Runs : \/ run'[r].version = run[r].version
                           \/ /\ run'[r].version \in Versions
                              /\ Passed(version[run'[r].version], "published")
    PROVE  VersionsSound'
  <1>1. \A v \in Versions : version[v] \in VersionRows /\ version'[v] \in VersionRows
    BY DEF IInv, Types
  <1>2. \A v \in Versions : Passed(version'[v], version'[v].status)
    BY DEF IInv, VersionsSound
  <1>3. ASSUME NEW u \in Users, request'[u].op = "step"
        PROVE  MayReach(version'[request'[u].v], request'[u].to)
    <2>1. PICK q \in Requests : q = request'[u] /\ MayReach(version[q.v], q.to)
      BY <1>3 DEF IInv, Types, VersionsSound
    <2>2. q.v \in Versions
      BY <1>3, <2>1 DEF Requests
    <2> QED  BY <1>1, <2>1, <2>2, GatesGrow
  <1>4. ASSUME NEW r \in Runs, run'[r].version # "none"
        PROVE  Passed(version'[run'[r].version], "published")
    <2>1. PICK v \in Versions : v = run'[r].version /\ Passed(version[v], "published")
      BY <1>4 DEF IInv, Types, RunRows, VersionsSound
    <2> QED  BY <1>1, <2>1, GatesGrow
  <1> QED  BY <1>2, <1>3, <1>4 DEF VersionsSound

\* Steps that leave what came of the records alone.
LEMMA RecordsKeep ==
    ASSUME IInv, UNCHANGED <<run, recordVars, reviews>>, Types', VersionsSound',
           \/ UNCHANGED request
           \/ \E u \in Users, q \in Requests :
                request' = [request EXCEPT ![u] = q] /\ ReviewSound(q)
    PROVE  IInv'
  <1>1. \A u \in Users : ReviewSound(request'[u])
    BY DEF IInv, Types
  <1>2. \A u \in Users : ReviewSound(request[u])'
    BY <1>1 DEF ReviewSound, recordVars
  <1>3. \A r \in Runs : MappedSound(r)' /\ CommitSound(r)'
    BY DEF IInv, MappedSound, CommitSound, recordVars
  <1>4. \A rec \in Records : RecordSound(rec)'
    BY DEF IInv, RecordSound, recordVars
  <1>5. ClosedExceptionHasReason'
    BY DEF IInv, ClosedExceptionHasReason, recordVars
  <1> QED  BY <1>2, <1>3, <1>4, <1>5 DEF IInv

-----------------------------------------------------------------------------
(* Initial states and steps.                                               *)

\* Nothing is there but the entities of earlier runs.
LEMMA InitIInv == Init => IInv
  <1> SUFFICES ASSUME Init PROVE IInv
    OBVIOUS
  <1>1. NoResult \in Result /\ Idle \in Requests
    BY DEF NoResult, Result, RecordStatuses, Idle, Requests
  <1>2. Types
    <2>1. run \in [Runs -> RunRows]
      BY <1>1 DEF Init, RunRows
    <2> QED  BY <1>1, <2>1, InputsAssumption
             DEF Init, Types, VersionRows, Lifecycle, CandidateStatuses
  <1>3. VersionsSound
    BY DEF Init, VersionsSound, Passed, FromValidated, FromApproved, FromPublished, Idle
  <1>4. \A r \in Runs : \A rec \in InputsOf[r] : rec \in Records
    BY DEF Records
  <1>5. \A r \in Runs : MappedSound(r) /\ CommitSound(r)
    BY <1>4 DEF Init, MappedSound, CommitSound, NoResult
  <1>6. \A rec \in Records : RecordSound(rec)
    BY DEF Init, RecordSound, NoResult
  <1>7. \A u \in Users : ReviewSound(request[u])
    BY DEF Init, ReviewSound, Idle
  <1>8. ClosedExceptionHasReason
    BY DEF Init, ClosedExceptionHasReason
  <1> QED  BY <1>2, <1>3, <1>5, <1>6, <1>7, <1>8 DEF IInv

\* MappingTemplateService: versions, field mappings and transitions.
LEMMA TemplateKeeps ==
    ASSUME IInv,
           \/ \E v \in Versions : CreateVersion(v)
           \/ \E u \in Users, v \in Versions : TransitionRead(u, v)
           \/ \E u \in Users, v \in Versions, f \in Fields : AddFieldRead(u, v, f)
           \/ \E u \in Users : AddFieldCommit(u) \/ TransitionCommit(u)
    PROVE  IInv'
  <1>0. /\ version \in [Versions -> VersionRows] /\ request \in [Users -> Requests]
        /\ \A v \in Versions : version[v] \in VersionRows /\ Passed(version[v], version[v].status)
        /\ Idle \in Requests /\ ReviewSound(Idle)
    BY DEF IInv, Types, VersionsSound, Idle, Requests, ReviewSound
  <1>1. ASSUME NEW v \in Versions, CreateVersion(v) PROVE IInv'
    <2>1. version' = [version EXCEPT ![v].status = "draft"] /\ UNCHANGED <<request, run, recordVars, reviews>>
      BY <1>1 DEF CreateVersion
    <2>2. version' \in [Versions -> VersionRows]
      BY <1>0, <2>1 DEF VersionRows, Lifecycle
    <2>3. \A w \in Versions : /\ version[w].content \subseteq version'[w].content
                              /\ version[w].stamps \subseteq version'[w].stamps
                              /\ version'[w] = version[w] \/ version'[w].status = "draft"
      BY <1>0, <2>1 DEF VersionRows
    <2>4. VersionsSound'
      BY <2>1, <2>2, <2>3, VersionsKeep DEF Passed, FromValidated, FromApproved, FromPublished
    <2>5. Types'
      BY <2>1, <2>2 DEF IInv, Types, recordVars
    <2> QED  BY <2>1, <2>4, <2>5, RecordsKeep
  <1>2. ASSUME NEW u \in Users, NEW q \in Requests, request' = [request EXCEPT ![u] = q],
               UNCHANGED <<version, run, recordVars, reviews>>,
               q.op \in {"field", "step"},
               q.op = "step" => MayReach(version[q.v], q.to)
        PROVE  IInv'
    <2>1. VersionsSound'
      BY <1>0, <1>2, VersionsKeep
    <2>2. Types'
      BY <1>2 DEF IInv, Types, recordVars
    <2>3. ReviewSound(q)
      BY <1>2 DEF ReviewSound
    <2> QED  BY <1>2, <2>1, <2>2, <2>3, RecordsKeep
  <1>3. ASSUME NEW u \in Users, NEW v \in Versions, NEW f \in Fields, AddFieldRead(u, v, f)
        PROVE  IInv'
    <2> DEFINE q == [op |-> "field", v |-> v, f |-> f]
    <2>1. q \in Requests /\ q.op = "field"
      BY DEF Requests
    <2>2. request' = [request EXCEPT ![u] = q] /\ UNCHANGED <<version, run, recordVars, reviews>>
      BY <1>3 DEF AddFieldRead, templateVars
    <2> HIDE DEF q
    <2> QED  BY <1>2, <2>1, <2>2
  <1>4. ASSUME NEW u \in Users, NEW v \in Versions, TransitionRead(u, v)
        PROVE  IInv'
    <2>1. PICK to \in Successor(version[v].status) :
            /\ to = "validated" => version[v].content # {}
            /\ request' = [request EXCEPT ![u] = [op |-> "step", v |-> v, to |-> to]]
      BY <1>4 DEF TransitionRead
    <2> DEFINE q == [op |-> "step", v |-> v, to |-> to]
    <2>2. /\ to \in Lifecycle
          /\ MayReach(version[v], to)
      BY <1>0, <2>1 DEF Successor, Lifecycle, MayReach, Passed, FromValidated, FromApproved,
                        FromPublished
    <2>3. q \in Requests /\ q.op = "step" /\ q.v = v /\ q.to = to
      BY <2>2 DEF Requests
    <2>4. request' = [request EXCEPT ![u] = q] /\ UNCHANGED <<version, run, recordVars, reviews>>
      BY <1>4, <2>1 DEF TransitionRead, templateVars
    <2> HIDE DEF q
    <2> QED  BY <1>2, <2>2, <2>3, <2>4
  <1>5. ASSUME NEW u \in Users, request' = [request EXCEPT ![u] = Idle],
               NEW v \in Versions, NEW row \in VersionRows,
               version' = version \/ version' = [version EXCEPT ![v] = row],
               version[v].content \subseteq row.content, version[v].stamps \subseteq row.stamps,
               Passed(row, row.status),
               UNCHANGED <<run, recordVars, reviews>>
        PROVE  IInv'
    <2>1. /\ version' \in [Versions -> VersionRows]
          /\ \A w \in Versions : version'[w] = version[w] \/ (w = v /\ version'[w] = row)
      BY <1>0, <1>5
    <2>2. Idle.op # "step"
      BY DEF Idle
    <2>3. VersionsSound'
      BY <1>0, <1>5, <2>1, <2>2, VersionsKeep
    <2>4. Types'
      BY <1>0, <1>5, <2>1 DEF IInv, Types, recordVars
    <2> QED  BY <1>0, <1>5, <2>3, <2>4, RecordsKeep
  <1>6. ASSUME NEW u \in Users, AddFieldCommit(u) PROVE IInv'
    <2>1. PICK v \in Versions, f \in Fields : v = request[u].v /\ f = request[u].f
      BY <1>0, <1>6 DEF AddFieldCommit, Requests
    <2> DEFINE row == [version[v] EXCEPT !.content = version[v].content \cup {f}]
    <2>2. /\ row \in VersionRows /\ row.content = version[v].content \cup {f}
          /\ row.stamps = version[v].stamps /\ row.status = version[v].status
      BY <1>0 DEF VersionRows
    <2>3. /\ version' = [version EXCEPT ![v] = row] /\ request' = [request EXCEPT ![u] = Idle]
          /\ UNCHANGED <<run, recordVars, reviews>>
      BY <1>6, <2>1 DEF AddFieldCommit
    <2> HIDE DEF row
    <2>4. Passed(row, row.status)
      BY <1>0, <2>2 DEF Passed
    <2> QED  BY <1>5, <2>2, <2>3, <2>4
  <1>7. ASSUME NEW u \in Users, TransitionCommit(u) PROVE IInv'
    <2>1. PICK v \in Versions, to \in Lifecycle : v = request[u].v /\ to = request[u].to
      BY <1>0, <1>7 DEF TransitionCommit, Requests
    <2> DEFINE stamped == version[v].stamps \cup ({to} \cap {"validated", "approved", "published"})
               row == [version[v] EXCEPT !.status = to, !.stamps = stamped]
    <2>2. /\ row \in VersionRows /\ row.content = version[v].content
          /\ row.stamps = stamped /\ row.status = to
      BY <1>0 DEF VersionRows
    <2>3. /\ version' = version \/ version' = [version EXCEPT ![v] = row]
          /\ request' = [request EXCEPT ![u] = Idle]
          /\ UNCHANGED <<run, recordVars, reviews>>
      <3>1. \/ version' = version
            \/ version' = [version EXCEPT ![v].status = to,
                                          ![v].stamps = @ \cup ({to} \cap {"validated", "approved", "published"})]
        BY <1>7, <2>1 DEF TransitionCommit
      <3>2. version[v] \in VersionRows /\ version \in [Versions -> VersionRows]
        BY <1>0
      <3>3. [version EXCEPT ![v].status = to,
                            ![v].stamps = @ \cup ({to} \cap {"validated", "approved", "published"})]
              = [version EXCEPT ![v] = row]
        BY <3>2 DEF VersionRows
      <3> QED  BY <1>7, <3>1, <3>3 DEF TransitionCommit
    <2> HIDE DEF row
    <2>4. MayReach(version[v], to)
      BY <1>7, <2>1 DEF TransitionCommit, IInv, VersionsSound
    <2>5. Passed(row, row.status)
      BY <2>2, <2>4 DEF Passed, MayReach, FromValidated, FromApproved, FromPublished
    <2> QED  BY <1>5, <2>2, <2>3, <2>5
  <1> QED  BY <1>1, <1>3, <1>4, <1>6, <1>7

\* A step of a run that commits nothing.
LEMMA RunStep ==
    ASSUME IInv, NEW r \in Runs, NEW row \in RunRows,
           run' = [run EXCEPT ![r] = row],
           UNCHANGED <<version, request, recordVars, reviews>>,
           \/ row.version = run[r].version
           \/ row.version \in Versions /\ Passed(version[row.version], "published"),
           MappedSound(r)', CommitSound(r)'
    PROVE  IInv'
  <1>1. \A q \in Runs : run'[q] = IF q = r THEN row ELSE run[q]
    BY DEF IInv, Types
  <1>2. VersionsSound'
    <2>1. \A v \in Versions : /\ version[v].content \subseteq version'[v].content
                              /\ version[v].stamps \subseteq version'[v].stamps
                              /\ version'[v] = version[v]
      OBVIOUS
    <2>2. version' \in [Versions -> VersionRows]
      BY DEF IInv, Types
    <2> QED  BY <1>1, <2>1, <2>2, VersionsKeep
  <1>3. Types'
    BY DEF IInv, Types, recordVars
  <1>4. \A q \in Runs : MappedSound(q)' /\ CommitSound(q)'
    BY <1>1 DEF IInv, MappedSound, CommitSound, recordVars
  <1>5. \A rec \in Records : RecordSound(rec)'
    BY DEF IInv, RecordSound, recordVars
  <1>6. \A u \in Users : ReviewSound(request[u])'
    BY DEF IInv, ReviewSound, recordVars
  <1>7. ClosedExceptionHasReason'
    BY DEF IInv, ClosedExceptionHasReason, recordVars
  <1> QED  BY <1>2, <1>3, <1>4, <1>5, <1>6, <1>7 DEF IInv

\* What _map_record can make of a record.
LEMMA OutcomesAre ==
    ASSUME NEW r \in Runs, NEW rec \in InputsOf[r], Visible(r) \subseteq Entities,
           NEW o \in Outcomes(r, rec)
    PROVE  /\ o.res \in Result /\ o.rivals \subseteq Entities
           /\ o.res.primary = (o.res.status = "mapped")
           /\ o.res.status # "human_confirmed"
           /\ o.rivals # {} => o.res.status = "ambiguous"
  <1> DEFINE e == EntityOf[rec]
  <1>1. e \in Entities
    BY InputsAssumption
  <1>2. \/ o = [res |-> [status |-> "mapped", target |-> e, primary |-> TRUE], rivals |-> {}]
        \/ o = [res |-> [status |-> "unresolved", target |-> NoEntity, primary |-> FALSE], rivals |-> {}]
        \/ \E s \in {"mapped", "conflicting"}, x \in Visible(r) :
             o = [res |-> [status |-> s, target |-> x, primary |-> s = "mapped"], rivals |-> {}]
        \/ \E S \in SUBSET Visible(r) \ {{}} :
             o = [res |-> [status |-> "ambiguous", target |-> e, primary |-> FALSE], rivals |-> S]
    <2> DEFINE new == [status |-> "mapped", target |-> e, primary |-> TRUE]
               failed == [status |-> "unresolved", target |-> NoEntity, primary |-> FALSE]
               known == {[res |-> x, rivals |-> {}] : x \in {failed, new}}
               reused == {[res |-> [status |-> s, target |-> x, primary |-> s = "mapped"],
                           rivals |-> {}] : s \in {"mapped", "conflicting"}, x \in Visible(r)}
               fuzzy == {[res |-> [status |-> "ambiguous", target |-> e, primary |-> FALSE],
                          rivals |-> S] : S \in SUBSET Visible(r) \ {{}}}
    <2>1. Outcomes(r, rec) = known \cup (IF e \in Visible(r) THEN {} ELSE reused \cup fuzzy)
      BY DEF Outcomes
    <2>2. o \in known \/ o \in reused \/ o \in fuzzy
      <3> HIDE DEF known, reused, fuzzy
      <3> QED  BY <2>1
    <2>3. CASE o \in known
      BY <2>3
    <2>4. CASE o \in reused
      BY <2>4
    <2>5. CASE o \in fuzzy
      BY <2>5
    <2> QED  BY <2>2, <2>3, <2>4, <2>5
  <1> HIDE DEF e
  <1>3. ASSUME NEW s \in {"mapped", "conflicting"}, NEW x \in Visible(r),
               o = [res |-> [status |-> s, target |-> x, primary |-> s = "mapped"], rivals |-> {}]
        PROVE  /\ o.res \in Result /\ o.rivals = {} /\ o.res.status = s
               /\ o.res.primary = (s = "mapped")
    <2>1. x \in Entities
      OBVIOUS
    <2> QED  BY <1>3, <2>1 DEF Result, RecordStatuses
  <1>4. ASSUME NEW S \in SUBSET Visible(r),
               o = [res |-> [status |-> "ambiguous", target |-> e, primary |-> FALSE], rivals |-> S]
        PROVE  /\ o.res \in Result /\ o.rivals \subseteq Entities /\ o.res.status = "ambiguous"
               /\ o.res.primary = FALSE
    BY <1>1, <1>4 DEF Result, RecordStatuses
  <1>5. CASE o = [res |-> [status |-> "mapped", target |-> e, primary |-> TRUE], rivals |-> {}]
    BY <1>1, <1>5 DEF Result, RecordStatuses
  <1>6. CASE o = [res |-> [status |-> "unresolved", target |-> NoEntity, primary |-> FALSE], rivals |-> {}]
    BY <1>6 DEF Result, RecordStatuses
  <1> QED  BY <1>2, <1>3, <1>4, <1>5, <1>6

\* MappingExecutionService: a run is submitted, maps a record, or fails.
LEMMA RunKeeps ==
    ASSUME IInv, NEW r \in Runs,
           \/ \E v \in Versions : Submit(r, v)
           \/ \E rec \in InputsOf[r] : MapRecord(r, rec)
           \/ RunFails(r)
    PROVE  IInv'
  <1>0. /\ run \in [Runs -> RunRows] /\ run[r] \in RunRows
        /\ MappedSound(r) /\ CommitSound(r)
        /\ InputsOf[r] \subseteq Records
    BY DEF IInv, Types, Records
  <1>1. ASSUME NEW row \in RunRows, run' = [run EXCEPT ![r] = row],
               row.mapped = run[r].mapped, row.rivals = run[r].rivals,
               UNCHANGED <<result, exception>>,
               run[r].stage \in {"none", "mapping"}, row.stage \in {"mapping", "failed"}
        PROVE  MappedSound(r)' /\ CommitSound(r)'
    <2>1. run'[r] = row
      BY <1>0, <1>1
    <2>2. MappedSound(r)'
      BY <1>0, <1>1, <2>1 DEF MappedSound
    <2>3. CommitSound(r)'
      BY <1>0, <1>1, <2>1 DEF CommitSound
    <2> QED  BY <2>2, <2>3
  <1>2. ASSUME NEW v \in Versions, Submit(r, v) PROVE IInv'
    <2> DEFINE row == [run[r] EXCEPT !.stage = "mapping", !.version = v]
    <2>1. /\ row \in RunRows /\ row.mapped = run[r].mapped /\ row.rivals = run[r].rivals
          /\ row.stage = "mapping" /\ row.version = v
      BY <1>0 DEF RunRows
    <2>2. run' = [run EXCEPT ![r] = row]
      BY <1>0, <1>2 DEF Submit, RunRows
    <2>3. UNCHANGED <<version, request, recordVars, reviews>> /\ run[r].stage = "none"
      BY <1>2 DEF Submit, templateVars
    <2>4. Passed(version[v], "published")
      BY <1>2 DEF Submit, IInv, VersionsSound
    <2> HIDE DEF row
    <2>5. MappedSound(r)' /\ CommitSound(r)'
      BY <1>1, <2>1, <2>2, <2>3 DEF recordVars
    <2> QED  BY <2>1, <2>2, <2>3, <2>4, <2>5, RunStep
  <1>3. CASE RunFails(r)
    <2> DEFINE row == [run[r] EXCEPT !.stage = "failed"]
    <2>1. /\ row \in RunRows /\ row.mapped = run[r].mapped /\ row.rivals = run[r].rivals
          /\ row.stage = "failed" /\ row.version = run[r].version
      BY <1>0 DEF RunRows
    <2>2. run' = [run EXCEPT ![r] = row] /\ UNCHANGED <<version, request, recordVars, reviews>>
          /\ run[r].stage = "mapping"
      BY <1>3 DEF RunFails, templateVars
    <2> HIDE DEF row
    <2>3. MappedSound(r)' /\ CommitSound(r)'
      BY <1>1, <2>1, <2>2 DEF recordVars
    <2> QED  BY <2>1, <2>2, <2>3, RunStep
  <1>4. ASSUME NEW rec \in InputsOf[r], MapRecord(r, rec) PROVE IInv'
    <2>1. Visible(r) \subseteq Entities
      BY <1>0 DEF Visible, RunRows, IInv, Types
    <2>2. PICK o \in Outcomes(r, rec) :
            run' = [run EXCEPT ![r].mapped[rec] = o.res,
                               ![r].rivals[rec] = o.rivals,
                               ![r].new = @ \cup (({o.res.target} \cap {EntityOf[rec]})
                                                  \ Visible(r))]
      BY <1>4 DEF MapRecord
    <2>3. /\ o.res \in Result /\ o.rivals \subseteq Entities
          /\ o.res.primary = (o.res.status = "mapped")
          /\ o.res.status # "human_confirmed"
          /\ o.rivals # {} => o.res.status = "ambiguous"
      BY <2>1, OutcomesAre
    <2> DEFINE more == run[r].new \cup (({o.res.target} \cap {EntityOf[rec]}) \ Visible(r))
               mapped == [run[r].mapped EXCEPT ![rec] = o.res]
               rivals == [run[r].rivals EXCEPT ![rec] = o.rivals]
               row == [run[r] EXCEPT !.mapped = mapped, !.rivals = rivals, !.new = more]
    <2>4. EntityOf[rec] \in Entities
      BY InputsAssumption
    <2>5. run' = [run EXCEPT ![r] = row]
      BY <1>0, <2>2 DEF RunRows
    <2>6. /\ row \in RunRows /\ row.version = run[r].version /\ row.stage = run[r].stage
          /\ row.mapped = mapped /\ row.rivals = rivals
      <3>1. more \subseteq Entities
        BY <1>0, <2>4 DEF RunRows
      <3>2. mapped \in [Records -> Result] /\ rivals \in [Records -> SUBSET Entities]
        BY <1>0, <2>3 DEF RunRows
      <3> HIDE DEF more, mapped, rivals
      <3> QED  BY <1>0, <3>1, <3>2 DEF RunRows
    <2>7. \A x \in Records :
            /\ mapped[x] = IF x = rec THEN o.res ELSE run[r].mapped[x]
            /\ rivals[x] = IF x = rec THEN o.rivals ELSE run[r].rivals[x]
      BY <1>0 DEF RunRows
    <2>8. UNCHANGED <<version, request, recordVars, reviews>>
      BY <1>4 DEF MapRecord, templateVars
    <2> HIDE DEF row, mapped, rivals
    <2>9. run'[r] = row
      BY <1>0, <2>5
    <2>10. MappedSound(r)'
      BY <1>0, <2>3, <2>6, <2>7, <2>9 DEF MappedSound
    <2>11. CommitSound(r)'
      BY <1>0, <2>6, <2>8, <2>9 DEF CommitSound, recordVars
    <2> QED  BY <2>5, <2>6, <2>8, <2>10, <2>11, RunStep
  <1> QED  BY <1>2, <1>3, <1>4

\* The commit of a run shows all it mapped at once, with an exception for
\* each record it left without a primary link.
LEMMA CommitKeeps ==
    ASSUME IInv, NEW r \in Runs, RunCommit(r)
    PROVE  IInv'
  <1>0. /\ run \in [Runs -> RunRows] /\ run[r] \in RunRows
        /\ \A q \in Runs : MappedSound(q) /\ CommitSound(q)
        /\ \A q \in Runs : InputsOf[q] \subseteq Records
        /\ result \in [Records -> Result]
        /\ candidate \in [Records -> [Entities -> CandidateStatuses]]
        /\ exception \in [Records -> {"none", "open", "under_review", "resolved", "wont_fix"}]
    BY DEF IInv, Types, Records
  <1> DEFINE made == run[r].mapped
             rivals == run[r].rivals
             stage == IF \E rec \in InputsOf[r] : Raised(made[rec])
                      THEN "partially_completed" ELSE "completed"
  <1>1. /\ run[r].stage = "mapping"
        /\ \A rec \in InputsOf[r] : made[rec].status # "none"
        /\ run' = [run EXCEPT ![r].stage = stage]
        /\ entities' = entities \cup run[r].new
        /\ UNCHANGED <<version, request, reviews>>
    BY DEF RunCommit, Pending, templateVars
  <1>2. \A rec \in Records :
          /\ result'[rec] = IF rec \in InputsOf[r] THEN made[rec] ELSE result[rec]
          /\ exception'[rec] = IF rec \in InputsOf[r] /\ Raised(made[rec])
                               THEN "open" ELSE exception[rec]
          /\ \A e \in Entities :
               candidate'[rec][e] = IF e \in rivals[rec] THEN "candidate" ELSE candidate[rec][e]
    BY DEF RunCommit
  <1>3. \A rec \in InputsOf[r] :
          /\ result[rec] = NoResult /\ exception[rec] = "none"
          /\ \A e \in Entities : candidate[rec][e] = "none"
    BY <1>0, <1>1 DEF CommitSound, IInv, RecordSound
  <1>4. \A rec \in Records :
          /\ made[rec].primary = (made[rec].status = "mapped")
          /\ made[rec].status # "human_confirmed"
          /\ rivals[rec] # {} => made[rec].status = "ambiguous" /\ rec \in InputsOf[r]
    BY <1>0 DEF MappedSound
  <1>5. PICK row \in RunRows : /\ run' = [run EXCEPT ![r] = row]
                               /\ row.stage = stage /\ row.version = run[r].version
                               /\ row.mapped = made /\ row.rivals = rivals
    <2> DEFINE row == [run[r] EXCEPT !.stage = stage]
    <2>1. row \in RunRows /\ row.stage = stage /\ row.version = run[r].version
          /\ row.mapped = made /\ row.rivals = rivals
      BY <1>0 DEF RunRows
    <2>2. run' = [run EXCEPT ![r] = row]
      BY <1>0, <1>1
    <2> HIDE DEF row
    <2> QED  BY <2>1, <2>2
  <1>6. \A q \in Runs : run'[q] = IF q = r THEN row ELSE run[q]
    BY <1>0, <1>5
  <1>7. Types'
    <2>1. run' \in [Runs -> RunRows]
      BY <1>0, <1>5
    <2>2. result' \in [Records -> Result]
      <3>1. \A rec \in Records : made[rec] \in Result
        BY <1>0 DEF RunRows
      <3> QED  BY <1>0, <3>1 DEF RunCommit
    <2>3. exception' \in [Records -> {"none", "open", "under_review", "resolved", "wont_fix"}]
      BY <1>0 DEF RunCommit
    <2>4. candidate' \in [Records -> [Entities -> CandidateStatuses]]
      BY <1>0 DEF RunCommit, CandidateStatuses
    <2>5. entities' \subseteq Entities
      BY <1>0, <1>1 DEF IInv, Types, RunRows
    <2> QED  BY <1>1, <2>1, <2>2, <2>3, <2>4, <2>5 DEF IInv, Types
  <1>8. VersionsSound'
    <2>1. \A v \in Versions : /\ version[v].content \subseteq version'[v].content
                              /\ version[v].stamps \subseteq version'[v].stamps
                              /\ version'[v] = version[v]
      BY <1>1
    <2>2. \A q \in Runs : run'[q].version = run[q].version
      BY <1>5, <1>6
    <2>3. version' \in [Versions -> VersionRows]
      BY <1>1 DEF IInv, Types
    <2> QED  BY <1>1, <2>1, <2>2, <2>3, VersionsKeep
  <1> HIDE DEF made, rivals
  <1>9. \A q \in Runs : MappedSound(q)'
    <2>1. SUFFICES ASSUME NEW q \in Runs PROVE MappedSound(q)'
      OBVIOUS
    <2>2. run'[q].mapped = run[q].mapped /\ run'[q].rivals = run[q].rivals
      BY <1>5, <1>6 DEF made, rivals
    <2> QED  BY <1>0, <2>2 DEF MappedSound
  <1>10. ASSUME NEW q \in Runs PROVE CommitSound(q)'
    <2>1. CASE q = r
      <3>1. SUFFICES ASSUME NEW rec \in InputsOf[r]
                     PROVE  /\ stage = "completed" => result'[rec].primary /\ exception'[rec] = "none"
                            /\ result'[rec].primary \/ exception'[rec] # "none"
        BY <1>5, <1>6, <2>1 DEF CommitSound
      <3>2. rec \in Records
        BY <1>0
      <3>3. Raised(made[rec]) <=> made[rec].status # "mapped"
        BY <1>1 DEF Raised, made
      <3> QED  BY <1>2, <1>3, <1>4, <3>2, <3>3
    <2>2. CASE q # r
      <3>1. \A rec \in InputsOf[q] : rec \notin InputsOf[r] /\ rec \in Records
        BY <1>0, <2>2, InputsAssumption
      <3> QED  BY <1>0, <1>2, <1>6, <2>2, <3>1 DEF CommitSound
    <2> QED  BY <2>1, <2>2
  <1>11. ASSUME NEW rec \in Records PROVE RecordSound(rec)'
    <2>1. CASE rec \in InputsOf[r]
      <3>1. result'[rec] = made[rec]
        BY <1>2, <2>1
      <3>2. \A e \in Entities : candidate'[rec][e] # "none" =>
              made[rec].status = "ambiguous" /\ exception'[rec] = "open"
        BY <1>2, <1>3, <1>4, <2>1 DEF Raised
      <3> QED  BY <1>4, <3>1, <3>2 DEF RecordSound
    <2>2. CASE rec \notin InputsOf[r]
      <3>1. /\ result'[rec] = result[rec] /\ exception'[rec] = exception[rec]
            /\ \A e \in Entities : candidate'[rec][e] = candidate[rec][e]
        BY <1>2, <1>4, <2>2
      <3> QED  BY <3>1 DEF IInv, RecordSound
    <2> QED  BY <2>1, <2>2
  <1>12. ASSUME NEW u \in Users PROVE ReviewSound(request[u])'
    <2>1. PICK q \in Requests : q = request[u]
      BY DEF IInv, Types
    <2>2. /\ q.op = "review" => q.rec \in Records /\ exception[q.rec] # "none"
          /\ q.op = "decide" => /\ q.rec \in Records /\ q.e \in Entities
                                /\ candidate[q.rec][q.e] # "none"
      BY <2>1 DEF IInv, ReviewSound, Requests
    <2>3. ReviewSound(q)'
      BY <1>2, <2>2 DEF ReviewSound
    <2> QED  BY <1>1, <2>1, <2>3
  <1>13. ClosedExceptionHasReason'
    <2>1. SUFFICES ASSUME NEW rec \in Records
                   PROVE  /\ exception'[rec] = "resolved" =>
                               \/ {"confirm", "override"} \cap reviews'[rec] # {}
                               \/ result'[rec].status = "human_confirmed"
                          /\ exception'[rec] = "wont_fix" => "reject" \in reviews'[rec]
      BY DEF ClosedExceptionHasReason
    <2>2. CASE rec \in InputsOf[r]
      BY <1>2, <1>3, <2>2
    <2>3. CASE rec \notin InputsOf[r]
      BY <1>1, <1>2, <2>3 DEF IInv, ClosedExceptionHasReason
    <2> QED  BY <2>2, <2>3
  <1> QED  BY <1>7, <1>8, <1>9, <1>10, <1>11, <1>12, <1>13 DEF IInv

\* A decision commits to one record, which has an exception already.
LEMMA RecordStep ==
    ASSUME IInv, NEW u \in Users, NEW rec \in Records,
           request' = [request EXCEPT ![u] = Idle],
           UNCHANGED <<version, run, entities>>, Types',
           exception[rec] # "none", exception'[rec] # "none",
           \A x \in Records \ {rec} :
             /\ result'[x] = result[x] /\ candidate'[x] = candidate[x]
             /\ exception'[x] = exception[x] /\ reviews'[x] = reviews[x],
           result'[rec] = result[rec] \/ result'[rec].primary,
           \A e \in Entities : candidate[rec][e] # "none" => candidate'[rec][e] # "none",
           RecordSound(rec)',
           exception'[rec] = "resolved" => \/ {"confirm", "override"} \cap reviews'[rec] # {}
                                           \/ result'[rec].status = "human_confirmed",
           exception'[rec] = "wont_fix" => "reject" \in reviews'[rec]
    PROVE  IInv'
  <1>1. VersionsSound'
    <2>1. Idle \in Requests /\ Idle.op # "step"
      BY DEF Idle, Requests
    <2>2. version' \in [Versions -> VersionRows]
      BY DEF IInv, Types
    <2> QED  BY <2>1, <2>2, VersionsKeep
  <1>2. ASSUME NEW r \in Runs PROVE MappedSound(r)' /\ CommitSound(r)'
    <2>1. InputsOf[r] \subseteq Records
      BY DEF Records
    <2>2. MappedSound(r)'
      BY DEF IInv, MappedSound
    <2>3. CommitSound(r)'
      <3>1. SUFFICES ASSUME NEW x \in InputsOf[r]
                     PROVE  /\ run[r].stage \in {"none", "mapping", "failed"} =>
                                 result'[x] = NoResult /\ exception'[x] = "none"
                            /\ run[r].stage = "completed" =>
                                 result'[x].primary /\ exception'[x] = "none"
                            /\ run[r].stage = "partially_completed" =>
                                 result'[x].primary \/ exception'[x] # "none"
        BY DEF CommitSound
      <3>2. CASE x = rec
        BY <3>2 DEF IInv, CommitSound
      <3>3. CASE x # rec
        <4>1. result'[x] = result[x] /\ exception'[x] = exception[x]
          BY <2>1, <3>3
        <4> QED  BY <4>1 DEF IInv, CommitSound
      <3> QED  BY <3>2, <3>3
    <2> QED  BY <2>2, <2>3
  <1>3. ASSUME NEW x \in Records PROVE RecordSound(x)'
    <2>1. CASE x = rec
      BY <2>1
    <2>2. CASE x # rec
      BY <2>2 DEF IInv, RecordSound
    <2> QED  BY <2>1, <2>2
  <1>4. ASSUME NEW w \in Users PROVE ReviewSound(request[w])'
    <2>1. CASE w = u
      <3>1. request'[w].op = "idle"
        BY <2>1 DEF IInv, Types, Idle
      <3> QED  BY <3>1 DEF ReviewSound
    <2>2. CASE w # u
      <3>1. PICK q \in Requests : q = request[w]
        BY DEF IInv, Types
      <3>2. request'[w] = q
        BY <2>2, <3>1 DEF IInv, Types
      <3>3. /\ q.op = "review" => q.rec \in Records /\ exception[q.rec] # "none"
            /\ q.op = "decide" => /\ q.rec \in Records /\ q.e \in Entities
                                  /\ candidate[q.rec][q.e] # "none"
        BY <3>1 DEF IInv, ReviewSound, Requests
      <3>4. ReviewSound(q)'
        BY <3>3 DEF ReviewSound
      <3> QED  BY <3>2, <3>4
    <2> QED  BY <2>1, <2>2
  <1>5. ClosedExceptionHasReason'
    <2>1. SUFFICES ASSUME NEW x \in Records
                   PROVE  /\ exception'[x] = "resolved" =>
                               \/ {"confirm", "override"} \cap reviews'[x] # {}
                               \/ result'[x].status = "human_confirmed"
                          /\ exception'[x] = "wont_fix" => "reject" \in reviews'[x]
      BY DEF ClosedExceptionHasReason
    <2>2. CASE x = rec
      BY <2>2
    <2>3. CASE x # rec
      <3>1. /\ result'[x] = result[x] /\ exception'[x] = exception[x]
            /\ reviews'[x] = reviews[x]
        BY <2>3
      <3> QED  BY <3>1 DEF IInv, ClosedExceptionHasReason
    <2> QED  BY <2>2, <2>3
  <1> QED  BY <1>1, <1>2, <1>3, <1>4, <1>5 DEF IInv

\* MappingReviewService: reviews of exceptions and decisions on candidates.
LEMMA ReviewKeeps ==
    ASSUME IInv, NEW u \in Users,
           \/ \E rec \in Records, d \in Decisions : ReviewRead(u, rec, d)
           \/ \E rec \in Records, e \in Entities, d \in Verdicts : DecideRead(u, rec, e, d)
           \/ ReviewCommit(u) \/ DecideCommit(u)
    PROVE  IInv'
  <1>0. /\ result \in [Records -> Result]
        /\ candidate \in [Records -> [Entities -> CandidateStatuses]]
        /\ exception \in [Records -> {"none", "open", "under_review", "resolved", "wont_fix"}]
        /\ reviews \in [Records -> SUBSET Decisions]
        /\ request \in [Users -> Requests] /\ Idle \in Requests
    BY DEF IInv, Types, Idle, Requests
  <1>1. ASSUME NEW q \in Requests, request' = [request EXCEPT ![u] = q],
               q.op \in {"review", "decide"}, ReviewSound(q),
               UNCHANGED <<version, run, recordVars, reviews>>
        PROVE  IInv'
    <2>1. VersionsSound'
      <3>1. version' \in [Versions -> VersionRows]
        BY <1>1 DEF IInv, Types
      <3> QED  BY <1>1, <3>1, VersionsKeep
    <2>2. Types'
      BY <1>1 DEF IInv, Types, recordVars
    <2> QED  BY <1>1, <2>1, <2>2, RecordsKeep
  <1>2. ASSUME NEW rec \in Records, NEW d \in Decisions, ReviewRead(u, rec, d) PROVE IInv'
    <2> DEFINE q == [op |-> "review", rec |-> rec, decision |-> d]
    <2>1. q \in Requests /\ q.op = "review" /\ ReviewSound(q)
      BY <1>2 DEF Requests, ReviewSound, ReviewRead
    <2>2. request' = [request EXCEPT ![u] = q] /\ UNCHANGED <<version, run, recordVars, reviews>>
      BY <1>2 DEF ReviewRead, templateVars
    <2> HIDE DEF q
    <2> QED  BY <1>1, <2>1, <2>2
  <1>3. ASSUME NEW rec \in Records, NEW e \in Entities, NEW d \in Verdicts, DecideRead(u, rec, e, d)
        PROVE  IInv'
    <2> DEFINE q == [op |-> "decide", rec |-> rec, e |-> e, decision |-> d]
    <2>1. q \in Requests /\ q.op = "decide" /\ ReviewSound(q)
      BY <1>3 DEF Requests, ReviewSound, DecideRead
    <2>2. request' = [request EXCEPT ![u] = q] /\ UNCHANGED <<version, run, recordVars, reviews>>
      BY <1>3 DEF DecideRead, templateVars
    <2> HIDE DEF q
    <2> QED  BY <1>1, <2>1, <2>2
  <1>4. CASE ReviewCommit(u)
    <2>1. PICK rec \in Records, d \in Decisions :
            rec = request[u].rec /\ d = request[u].decision
      BY <1>0, <1>4 DEF ReviewCommit, Requests
    <2> DEFINE to == CASE d \in {"confirm", "override"} -> "resolved"
                       [] d = "reject" -> "wont_fix"
                       [] OTHER -> "under_review"
    <2>2. /\ exception' = [exception EXCEPT ![rec] = to]
          /\ reviews' = [reviews EXCEPT ![rec] = reviews[rec] \cup {d}]
          /\ request' = [request EXCEPT ![u] = Idle]
          /\ UNCHANGED <<version, run, entities, result, candidate>>
      BY <1>4, <2>1 DEF ReviewCommit, templateVars
    <2>3. /\ to \in {"resolved", "wont_fix", "under_review"}
          /\ to = "resolved" => d \in {"confirm", "override"}
          /\ to = "wont_fix" => d = "reject"
      OBVIOUS
    <2> HIDE DEF to
    <2>4. exception[rec] # "none"
      BY <1>4, <2>1 DEF ReviewCommit, IInv, ReviewSound
    <2>5. exception'[rec] = to /\ reviews'[rec] = reviews[rec] \cup {d}
      BY <1>0, <2>2
    <2>6. Types'
      <3>1. exception' \in [Records -> {"none", "open", "under_review", "resolved", "wont_fix"}]
        BY <1>0, <2>2, <2>3
      <3>2. reviews' \in [Records -> SUBSET Decisions] /\ request' \in [Users -> Requests]
        BY <1>0, <2>2
      <3> QED  BY <2>2, <3>1, <3>2 DEF IInv, Types
    <2>7. RecordSound(rec)'
      BY <2>2, <2>3, <2>5 DEF IInv, RecordSound
    <2>8. \A x \in Records \ {rec} : exception'[x] = exception[x] /\ reviews'[x] = reviews[x]
      BY <1>0, <2>2
    <2> QED  BY <2>2, <2>3, <2>4, <2>5, <2>6, <2>7, <2>8, RecordStep
  <1>5. CASE DecideCommit(u)
    <2>1. PICK rec \in Records, e \in Entities, d \in Verdicts :
            rec = request[u].rec /\ e = request[u].e /\ d = request[u].decision
      BY <1>0, <1>5 DEF DecideCommit, Requests
    <2>2. d \in {"accepted", "rejected", "superseded"}
      BY InputsAssumption
    <2> DEFINE known == candidate[rec]
               row == [x \in Entities |->
                         IF x = e THEN d
                         ELSE IF d = "accepted" /\ known[x] = "candidate" THEN "superseded"
                         ELSE known[x]]
               linked == [status |-> "human_confirmed", target |-> e, primary |-> TRUE]
    <2>3. /\ candidate' = [candidate EXCEPT ![rec] = row]
          /\ result' = IF d = "accepted" THEN [result EXCEPT ![rec] = linked] ELSE result
          /\ exception' = IF d = "accepted" THEN [exception EXCEPT ![rec] = "resolved"]
                          ELSE exception
          /\ request' = [request EXCEPT ![u] = Idle]
          /\ UNCHANGED <<version, run, entities, reviews>>
      BY <1>5, <2>1 DEF DecideCommit, templateVars
    <2>4. known \in [Entities -> CandidateStatuses]
      BY <1>0
    <2>5. known[e] # "none"
      BY <1>5, <2>1 DEF DecideCommit, IInv, ReviewSound
    <2>6. exception[rec] # "none"
      BY <2>5 DEF IInv, RecordSound
    <2>7. /\ row \in [Entities -> CandidateStatuses]
          /\ \A x \in Entities : known[x] # "none" <=> row[x] # "none"
          /\ \A x \in Entities : row[x] = "candidate" => known[x] = "candidate" /\ d # "accepted"
      BY <2>2, <2>4, <2>5 DEF CandidateStatuses
    <2>8. linked \in Result /\ linked.primary /\ linked.status = "human_confirmed" /\ linked.target = e
      BY DEF Result, RecordStatuses
    <2> HIDE DEF row, linked
    <2>9. /\ candidate'[rec] = row
          /\ result'[rec] = IF d = "accepted" THEN linked ELSE result[rec]
          /\ exception'[rec] = IF d = "accepted" THEN "resolved" ELSE exception[rec]
          /\ \A x \in Records \ {rec} :
               /\ result'[x] = result[x] /\ candidate'[x] = candidate[x]
               /\ exception'[x] = exception[x] /\ reviews'[x] = reviews[x]
      BY <1>0, <2>3
    <2>10. Types'
      <3>1. /\ candidate' \in [Records -> [Entities -> CandidateStatuses]]
            /\ result' \in [Records -> Result]
            /\ exception' \in [Records -> {"none", "open", "under_review", "resolved", "wont_fix"}]
            /\ request' \in [Users -> Requests]
        BY <1>0, <2>3, <2>7, <2>8
      <3> QED  BY <2>3, <3>1 DEF IInv, Types
    <2>11. RecordSound(rec)
      BY DEF IInv
    <2>12. RecordSound(rec)'
      <3>1. CASE d = "accepted"
        BY <2>5, <2>7, <2>8, <2>9, <3>1 DEF RecordSound
      <3>2. CASE d # "accepted"
        BY <2>6, <2>7, <2>9, <2>11, <3>2 DEF RecordSound
      <3> QED  BY <3>1, <3>2
    <2>13. /\ exception'[rec] = "resolved" => \/ {"confirm", "override"} \cap reviews'[rec] # {}
                                              \/ result'[rec].status = "human_confirmed"
           /\ exception'[rec] = "wont_fix" => "reject" \in reviews'[rec]
      <3>1. reviews'[rec] = reviews[rec]
        BY <2>3
      <3>2. CASE d = "accepted"
        BY <2>8, <2>9, <3>2
      <3>3. CASE d # "accepted"
        <4>1. result'[rec] = result[rec] /\ exception'[rec] = exception[rec]
          BY <2>9, <3>3
        <4>2. /\ exception[rec] = "resolved" => \/ {"confirm", "override"} \cap reviews[rec] # {}
                                                \/ result[rec].status = "human_confirmed"
              /\ exception[rec] = "wont_fix" => "reject" \in reviews[rec]
          BY DEF IInv, ClosedExceptionHasReason
        <4> QED  BY <3>1, <4>1, <4>2
      <3> QED  BY <3>2, <3>3
    <2>14. /\ exception'[rec] # "none"
           /\ result'[rec] = result[rec] \/ result'[rec].primary
           /\ \A x \in Entities : candidate[rec][x] # "none" => candidate'[rec][x] # "none"
      BY <2>6, <2>7, <2>8, <2>9
    <2>15. request' = [request EXCEPT ![u] = Idle] /\ UNCHANGED <<version, run, entities>>
      BY <2>3
    <2> HIDE DEF known
    <2> QED  BY <2>6, <2>9, <2>10, <2>12, <2>13, <2>14, <2>15, RecordStep
  <1> QED  BY <1>2, <1>3, <1>4, <1>5

\* Every step keeps the invariant.
LEMMA NextIInv ==
    ASSUME IInv, [Next]_vars
    PROVE  IInv'
  <1>1. CASE UNCHANGED vars
    <2>1. UNCHANGED <<version, run, recordVars, reviews, request>>
      BY <1>1 DEF vars, recordVars
    <2>2. Types'
      BY <2>1 DEF IInv, Types, recordVars
    <2>3. VersionsSound'
      <3>1. version' \in [Versions -> VersionRows]
        BY <2>2 DEF Types
      <3> QED  BY <2>1, <3>1, VersionsKeep
    <2> QED  BY <2>1, <2>2, <2>3, RecordsKeep
  <1>2. CASE Next
    BY <1>2, TemplateKeeps, RunKeeps, CommitKeeps, ReviewKeeps DEF Next
  <1> QED  BY <1>1, <1>2

-----------------------------------------------------------------------------
(* The theorems.                                                           *)

\* For any versions, users and races of their transitions (transition): what
\* is published, or was submitted with (submit), was validated with a field
\* mapping and approved.
THEOREM UsedVersionPassedGates == Spec => []UsedVersionIsGoverned
  <1>1. IInv => UsedVersionIsGoverned
    <2> SUFFICES ASSUME IInv, NEW v \in Versions,
                        \/ version[v].status \in {"published", "deprecated", "retired"}
                        \/ \E r \in Runs : run[r].version = v
                 PROVE  /\ version[v].content # {}
                        /\ {"validated", "approved", "published"} \subseteq version[v].stamps
      BY DEF UsedVersionIsGoverned
    <2>1. v # "none"
      BY InputsAssumption
    <2>2. Passed(version[v], "published")
      BY <2>1 DEF IInv, VersionsSound, Passed, FromValidated, FromApproved, FromPublished
    <2> QED  BY <2>2 DEF Passed, FromValidated, FromApproved, FromPublished
  <1> QED  BY <1>1, InitIInv, NextIInv, PTL DEF Spec

\* Fuzzy matching never merges by itself: a record left with candidates gets
\* a primary link only from a reviewer who accepted one (decide_candidate),
\* and then none is left open.
THEOREM NothingIsAutoMerged == Spec => []NoAutoMerge
  <1>1. IInv => NoAutoMerge
    BY DEF IInv, RecordSound, NoAutoMerge
  <1> QED  BY <1>1, InitIInv, NextIInv, PTL DEF Spec

\* An exception leaves review for a reason that is on record
\* (review_exception, decide_candidate), whatever decisions race.
THEOREM ReviewsAreSound == Spec => []ReviewIsSound
  <1>1. IInv => ReviewIsSound
    <2> SUFFICES ASSUME IInv PROVE TypeOK
      BY DEF IInv, ReviewIsSound
    <2> QED  BY DEF IInv, Types, TypeOK, RunRows, VersionRows, CandidateStatuses
  <1> QED  BY <1>1, InitIInv, NextIInv, PTL DEF Spec

\* A record of a committed run has a primary link or an exception, for any
\* runs, records and entities, however runs race for the same entity.
THEOREM NoRecordIsHidden == Spec => []NothingHidden
  <1>1. IInv => NothingHidden
    BY DEF IInv, CommitSound, NothingHidden
  <1> QED  BY <1>1, InitIInv, NextIInv, PTL DEF Spec
=============================================================================
