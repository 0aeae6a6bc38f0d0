------------------------- MODULE MappingGovernance -------------------------
(***************************************************************************)
(* What governs a canonical mapping and what comes of it: the template     *)
(* versions of MappingTemplateService, the records MappingExecutionService *)
(* maps under a published version, and the reviews of MappingReviewService *)
(* (app/services/canonical_mapping_service.py).  Who executes a run, and   *)
(* when it is recovered, is in MappingRuns.                                *)
(*                                                                         *)
(* No handler here locks a row: each is a Read step that remembers what it *)
(* checked and a Commit step that writes by primary key.  A run reads the  *)
(* committed tables record by record and commits all its rows at its end.  *)
(***************************************************************************)
EXTENDS Naturals, FiniteSets

CONSTANTS
    Versions,   \* versions of one mapping template
    Fields,     \* field mappings an author may add
    Users,      \* authors and reviewers, one request in flight each
    Runs,       \* mapping runs
    InputsOf,   \* the raw records of a run
    Entities,   \* canonical entities, by content fingerprint
    EntityOf,   \* the entity a raw record's fields describe
    Seeded,     \* entities that earlier runs left
    Decisions,  \* review decisions in play
    Verdicts,   \* candidate decisions in play
    NoEntity

ASSUME InputsAssumption ==
    /\ \A r \in Runs : InputsOf[r] # {}
    /\ \A r, q \in Runs : r # q => InputsOf[r] \cap InputsOf[q] = {}
    /\ \A r \in Runs : \A rec \in InputsOf[r] : EntityOf[rec] \in Entities
    /\ "none" \notin Versions
    /\ Seeded \subseteq Entities
    /\ NoEntity \notin Entities
    /\ Decisions \subseteq {"confirm", "override", "reject", "defer"}
    /\ Verdicts \subseteq {"accepted", "rejected", "superseded"}

Records == UNION {InputsOf[r] : r \in Runs}

Lifecycle == {"none", "draft", "candidate", "validated", "approved", "published",
              "deprecated", "retired"}
Editable == {"draft", "candidate"}
RecordStatuses == {"none", "mapped", "conflicting", "ambiguous", "unresolved",
                   "human_confirmed"}

VARIABLES
    version,    \* mapping_template_versions and their field_mappings
    request,    \* the handlers of authors and reviewers, past their reads
    run,        \* mapping runs and what they have mapped but not committed
    entities,   \* canonical_entities
    result,     \* mapping_record_results and source_canonical_links
    candidate,  \* entity_match_candidates
    exception,  \* mapping_exceptions
    reviews     \* the decisions of mapping_reviews rows, per record

vars == <<version, request, run, entities, result, candidate, exception, reviews>>
templateVars == <<version>>
recordVars == <<entities, result, candidate, exception>>

Idle == [op |-> "idle"]
Requests == [op : {"idle"}]
    \cup [op : {"field"}, v : Versions, f : Fields]
    \cup [op : {"step"}, v : Versions, to : Lifecycle]
    \cup [op : {"review"}, rec : Records, decision : Decisions]
    \cup [op : {"decide"}, rec : Records, e : Entities, decision : Verdicts]

\* A link points at an entity; it is primary when the record was mapped.
Result == [status : RecordStatuses, target : Entities \cup {NoEntity}, primary : BOOLEAN]

NoResult == [status |-> "none", target |-> NoEntity, primary |-> FALSE]

\* The tables hold what their columns and check constraints allow.
TypeOK ==
    /\ version \in [Versions -> [status : Lifecycle, content : SUBSET Fields,
                                 stamps : SUBSET {"validated", "approved", "published"}]]
    /\ request \in [Users -> Requests]
    /\ \A r \in Runs :
         /\ run[r].stage \in {"none", "mapping", "completed", "partially_completed", "failed"}
         /\ run[r].mapped \in [Records -> Result]
    /\ entities \subseteq Entities
    /\ result \in [Records -> Result]
    /\ candidate \in [Records -> [Entities ->
                        {"none", "candidate", "accepted", "rejected", "superseded"}]]
    /\ exception \in [Records -> {"none", "open", "under_review", "resolved", "wont_fix"}]
    /\ reviews \in [Records -> SUBSET Decisions]

Init ==
    /\ version = [v \in Versions |-> [status |-> "none", content |-> {}, stamps |-> {}]]
    /\ request = [u \in Users |-> Idle]
    /\ run = [r \in Runs |-> [stage |-> "none", version |-> "none",
                              mapped |-> [rec \in Records |-> NoResult],
                              rivals |-> [rec \in Records |-> {}],
                              new |-> {}]]
    /\ entities = Seeded
    /\ result = [rec \in Records |-> NoResult]
    /\ candidate = [rec \in Records |-> [e \in Entities |-> "none"]]
    /\ exception = [rec \in Records |-> "none"]
    /\ reviews = [rec \in Records |-> {}]

-----------------------------------------------------------------------------
(* MappingTemplateService.                                                 *)

CreateVersion(v) ==
    /\ version[v].status = "none"
    /\ version' = [version EXCEPT ![v].status = "draft"]
    /\ UNCHANGED <<request, run, recordVars, reviews>>

\* add_field_mapping_with_status and add_transformation: the version is
\* still editable when it is read.
AddFieldRead(u, v, f) ==
    /\ request[u] = Idle
    /\ version[v].status \in Editable
    /\ request' = [request EXCEPT ![u] = [op |-> "field", v |-> v, f |-> f]]
    /\ UNCHANGED <<templateVars, run, recordVars, reviews>>

\* The insert; a mapping that is there already is answered, not changed.
AddFieldCommit(u) ==
    /\ request[u].op = "field"
    /\ version' = [version EXCEPT ![request[u].v].content = @ \cup {request[u].f}]
    /\ request' = [request EXCEPT ![u] = Idle]
    /\ UNCHANGED <<run, recordVars, reviews>>

Successor_SkipsApproval(status) ==
    CASE status = "draft" -> {"candidate"}
      [] status = "candidate" -> {"validated"}
      [] status = "validated" -> {"approved", "published"}
      [] status = "approved" -> {"published"}
      [] status = "published" -> {"deprecated"}
      [] status = "deprecated" -> {"retired"}
      [] OTHER -> {}

\* MappingTemplateService.transitions.
Successor(status) ==
    CASE status = "draft" -> {"candidate"}
      [] status = "candidate" -> {"validated"}
      [] status = "validated" -> {"approved"}
      [] status = "approved" -> {"published"}
      [] status = "published" -> {"deprecated"}
      [] status = "deprecated" -> {"retired"}
      [] OTHER -> {}

\* transition: the target follows the status read, and validation wants a
\* field mapping.
TransitionRead(u, v) ==
    /\ request[u] = Idle
    /\ \E to \in Successor(version[v].status) :
         /\ to = "validated" => version[v].content # {}
         /\ request' = [request EXCEPT ![u] = [op |-> "step", v |-> v, to |-> to]]
    /\ UNCHANGED <<templateVars, run, recordVars, reviews>>

\* The flush of status and stamp, whatever the row has become; the partial
\* unique index refuses a second published version of the template.
TransitionCommit(u) ==
    /\ request[u].op = "step"
    /\ request' = [request EXCEPT ![u] = Idle]
    /\ LET v == request[u].v
           to == request[u].to
           refused == /\ to = "published"
                      /\ \E w \in Versions \ {v} : version[w].status = "published"
       IN  version' = IF refused THEN version ELSE
                      [version EXCEPT
                         ![v].status = to,
                         ![v].stamps = @ \cup ({to} \cap {"validated", "approved", "published"})]
    /\ UNCHANGED <<run, recordVars, reviews>>

-----------------------------------------------------------------------------
(* MappingExecutionService: a run, record by record.                       *)

\* submit checks that the version is published; nothing checks it again.
Submit(r, v) ==
    /\ run[r].stage = "none"
    /\ version[v].status = "published"
    /\ run' = [run EXCEPT ![r].stage = "mapping", ![r].version = v]
    /\ UNCHANGED <<templateVars, request, recordVars, reviews>>

Pending(r) == {rec \in InputsOf[r] : run[r].mapped[rec].status = "none"}

\* The entities a run sees: the committed ones and those it inserted.
Visible(r) == entities \cup run[r].new

\* _map_record after its fields: what the record's values and the entities
\* in sight make of it.  A known fingerprint is mapped; a deterministic
\* rule may reuse an entity, in conflict or not; fuzzy rules leave a new
\* entity with candidates; a field that is missing or fails leaves no
\* target (unresolved stands for missing_required_field too).
Outcomes(r, rec) ==
    LET e == EntityOf[rec]
        new == [status |-> "mapped", target |-> e, primary |-> TRUE]
        failed == [status |-> "unresolved", target |-> NoEntity, primary |-> FALSE]
    IN  {[res |-> o, rivals |-> {}] : o \in {failed, new}}
        \cup (IF e \in Visible(r) THEN {}
              ELSE {[res |-> [status |-> s, target |-> x, primary |-> s = "mapped"],
                     rivals |-> {}] : s \in {"mapped", "conflicting"}, x \in Visible(r)}
                   \cup {[res |-> [status |-> "ambiguous", target |-> e, primary |-> FALSE],
                          rivals |-> S] : S \in SUBSET Visible(r) \ {{}}})

\* One _map_record, under the version the run was submitted with.
MapRecord(r, rec) ==
    /\ run[r].stage = "mapping"
    /\ rec \in Pending(r)
    /\ \E o \in Outcomes(r, rec) :
         run' = [run EXCEPT ![r].mapped[rec] = o.res,
                            ![r].rivals[rec] = o.rivals,
                            ![r].new = @ \cup (({o.res.target} \cap {EntityOf[rec]})
                                               \ Visible(r))]
    /\ UNCHANGED <<templateVars, request, recordVars, reviews>>

\* A record that _exception_result or _add_exception counted.
Raised(res) == res.status \notin {"none", "mapped"}

RunCommit_KeepsNoException(r) ==
    /\ run[r].stage = "mapping"
    /\ Pending(r) = {}
    /\ run[r].new \cap entities = {}
    /\ run' = [run EXCEPT ![r].stage =
                  IF \E rec \in InputsOf[r] : Raised(run[r].mapped[rec])
                  THEN "partially_completed" ELSE "completed"]
    /\ entities' = entities \cup run[r].new
    /\ result' = [rec \in Records |-> IF rec \in InputsOf[r] THEN run[r].mapped[rec]
                                      ELSE result[rec]]
    /\ candidate' = [rec \in Records |-> [e \in Entities |->
                       IF e \in run[r].rivals[rec] THEN "candidate" ELSE candidate[rec][e]]]
    /\ UNCHANGED <<templateVars, request, exception, reviews>>

\* The commit at the end of the run, when no other run inserted one of its
\* entities first (uq_canonical_entity_fingerprint): results, links, candidates and open
\* exceptions together; completed when nothing raised.
RunCommit(r) ==
    /\ run[r].stage = "mapping"
    /\ Pending(r) = {}
    /\ run[r].new \cap entities = {}
    /\ run' = [run EXCEPT ![r].stage =
                  IF \E rec \in InputsOf[r] : Raised(run[r].mapped[rec])
                  THEN "partially_completed" ELSE "completed"]
    /\ entities' = entities \cup run[r].new
    /\ result' = [rec \in Records |-> IF rec \in InputsOf[r] THEN run[r].mapped[rec]
                                      ELSE result[rec]]
    /\ candidate' = [rec \in Records |-> [e \in Entities |->
                       IF e \in run[r].rivals[rec] THEN "candidate" ELSE candidate[rec][e]]]
    /\ exception' = [rec \in Records |-> IF rec \in InputsOf[r] /\ Raised(run[r].mapped[rec])
                                         THEN "open" ELSE exception[rec]]
    /\ UNCHANGED <<templateVars, request, reviews>>

\* Any exception rolls the run back and fails it for good, among them the
\* violation of that unique key.
RunFails(r) ==
    /\ run[r].stage = "mapping"
    /\ run' = [run EXCEPT ![r].stage = "failed"]
    /\ UNCHANGED <<templateVars, request, recordVars, reviews>>

-----------------------------------------------------------------------------
(* MappingReviewService.                                                   *)

\* review_exception: no final decision yet.
ReviewRead(u, rec, decision) ==
    /\ request[u] = Idle
    /\ exception[rec] \in {"open", "under_review"}
    /\ request' = [request EXCEPT ![u] = [op |-> "review", rec |-> rec,
                                          decision |-> decision]]
    /\ UNCHANGED <<templateVars, run, recordVars, reviews>>

ReviewCommit_NoRow(u) ==
    /\ request[u].op = "review"
    /\ exception' = [exception EXCEPT ![request[u].rec] =
                        CASE request[u].decision \in {"confirm", "override"} -> "resolved"
                          [] request[u].decision = "reject" -> "wont_fix"
                          [] OTHER -> "under_review"]
    /\ request' = [request EXCEPT ![u] = Idle]
    /\ UNCHANGED <<templateVars, run, entities, result, candidate, reviews>>

\* The new status and the mapping_reviews row, in one commit.
ReviewCommit(u) ==
    /\ request[u].op = "review"
    /\ exception' = [exception EXCEPT ![request[u].rec] =
                        CASE request[u].decision \in {"confirm", "override"} -> "resolved"
                          [] request[u].decision = "reject" -> "wont_fix"
                          [] OTHER -> "under_review"]
    /\ reviews' = [reviews EXCEPT ![request[u].rec] = @ \cup {request[u].decision}]
    /\ request' = [request EXCEPT ![u] = Idle]
    /\ UNCHANGED <<templateVars, run, entities, result, candidate>>

\* decide_candidate: the candidate is undecided when it is read.
DecideRead(u, rec, e, decision) ==
    /\ request[u] = Idle
    /\ candidate[rec][e] = "candidate"
    /\ request' = [request EXCEPT ![u] = [op |-> "decide", rec |-> rec, e |-> e,
                                          decision |-> decision]]
    /\ UNCHANGED <<templateVars, run, recordVars, reviews>>

DecideCommit_SiblingsStay(u) ==
    /\ request[u].op = "decide"
    /\ LET rec == request[u].rec
           accepted == request[u].decision = "accepted"
       IN  /\ candidate' = [candidate EXCEPT ![rec][request[u].e] = request[u].decision]
           /\ result' = IF accepted
                        THEN [result EXCEPT ![rec] = [status |-> "human_confirmed",
                                                      target |-> request[u].e,
                                                      primary |-> TRUE]]
                        ELSE result
           /\ exception' = IF accepted THEN [exception EXCEPT ![rec] = "resolved"]
                           ELSE exception
    /\ request' = [request EXCEPT ![u] = Idle]
    /\ UNCHANGED <<templateVars, run, entities, reviews>>

\* Accepting points link and result at the entity, supersedes the siblings
\* that are undecided when the query runs and resolves the exception.
DecideCommit(u) ==
    /\ request[u].op = "decide"
    /\ LET rec == request[u].rec
           accepted == request[u].decision = "accepted"
       IN  /\ candidate' =
                [candidate EXCEPT ![rec] = [e \in Entities |->
                    IF e = request[u].e THEN request[u].decision
                    ELSE IF accepted /\ @[e] = "candidate" THEN "superseded"
                    ELSE @[e]]]
           /\ result' = IF accepted
                        THEN [result EXCEPT ![rec] = [status |-> "human_confirmed",
                                                      target |-> request[u].e,
                                                      primary |-> TRUE]]
                        ELSE result
           /\ exception' = IF accepted THEN [exception EXCEPT ![rec] = "resolved"]
                           ELSE exception
    /\ request' = [request EXCEPT ![u] = Idle]
    /\ UNCHANGED <<templateVars, run, entities, reviews>>

-----------------------------------------------------------------------------

Next ==
    \/ \E v \in Versions : CreateVersion(v)
    \/ \E u \in Users, v \in Versions : TransitionRead(u, v)
    \/ \E u \in Users, v \in Versions, f \in Fields : AddFieldRead(u, v, f)
    \/ \E u \in Users : AddFieldCommit(u) \/ TransitionCommit(u)
    \/ \E r \in Runs, v \in Versions : Submit(r, v)
    \/ \E r \in Runs : RunCommit(r) \/ RunFails(r) \/ \E rec \in InputsOf[r] : MapRecord(r, rec)
    \/ \E u \in Users, rec \in Records, d \in Decisions : ReviewRead(u, rec, d)
    \/ \E u \in Users, rec \in Records, e \in Entities, d \in Verdicts : DecideRead(u, rec, e, d)
    \/ \E u \in Users : ReviewCommit(u) \/ DecideCommit(u)

Spec == Init /\ [][Next]_vars

-----------------------------------------------------------------------------
(* Properties.                                                             *)

\* A version no run may execute without has passed every gate: one that is
\* published or later, or that a run was submitted with, was validated with
\* a field mapping and approved, also when racing transitions moved its
\* status back.
UsedVersionIsGoverned ==
    \A v \in Versions :
      \/ version[v].status \in {"published", "deprecated", "retired"}
      \/ \E r \in Runs : run[r].version = v
      => version[v].content # {} /\ {"validated", "approved", "published"} \subseteq version[v].stamps

\* Fuzzy matching "never auto-merges": a record that matching left with
\* candidates is linked as primary only to one of them, after a reviewer
\* accepted it, and then no candidate of it is left open.
NoAutoMerge ==
    \A rec \in Records :
      \A e \in Entities : candidate[rec][e] # "none" /\ result[rec].primary =>
        /\ result[rec].status = "human_confirmed"
        /\ candidate[rec][result[rec].target] # "none"
        /\ candidate[rec][e] # "candidate"

\* An exception leaves review only for a reason that is on record: resolved
\* by a confirming review or an accepted candidate, dropped by a rejecting
\* one.
ClosedExceptionHasReason ==
    \A rec \in Records :
      /\ exception[rec] = "resolved" =>
           \/ {"confirm", "override"} \cap reviews[rec] # {}
           \/ result[rec].status = "human_confirmed"
      /\ exception[rec] = "wont_fix" => "reject" \in reviews[rec]

\* "Hard unresolved, ambiguous or conflicting states are recorded instead of
\* hidden": a completed run left no record without a primary link, and every
\* other record of a committed run carries an exception.
NothingHidden ==
    \A r \in Runs : run[r].stage \in {"completed", "partially_completed"} =>
      \A rec \in InputsOf[r] :
        /\ result[rec].primary \/ exception[rec] # "none"
        /\ run[r].stage = "completed" => exception[rec] = "none"

\* What left review did so for a reason that is on record.
ReviewIsSound == TypeOK /\ ClosedExceptionHasReason
=============================================================================
