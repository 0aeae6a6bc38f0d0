--------------------------- MODULE AnalysisCases ---------------------------
(***************************************************************************)
(* The runs of one analysis case:                                          *)
(* AnalysisCaseOrchestrationService.start_run and execute                  *)
(* (app/services/analysis_case_orchestration_service.py), started by       *)
(* run_case and polled by get_run_status (app/api/analysis_case_routes.py) *)
(* over the datasets that AnalysisCaseService.register_artifacts leaves.   *)
(*                                                                         *)
(* execute is an in-process background task: it commits after every stage, *)
(* it is lost when the process goes, and nothing restarts it.  Each action *)
(* of a task is one such stage; the requests of users are a Read step and  *)
(* a Commit step.  The heartbeat is written when a task begins and again   *)
(* when it ends, so a run that lives long enough looks stale.              *)
(***************************************************************************)
EXTENDS Naturals, FiniteSets, Sequences

CONSTANTS
    Users,          \* clients of the API, one request in flight each
    Datasets,       \* datasets that artifacts may add to the case
    DomainOf,       \* the domain detected for a dataset
    Relevant,       \* domains with trust rules, _INTELLIGENCE_RELEVANT_DOMAINS
    Rules,          \* the governed rules, in the order execute runs them
    Needs,          \* the domains a rule's pack requires
    NeedsTrust,     \* those of them it requires resolved trust for
    Faults,         \* the stages of a run that may fail
    MaxRuns         \* bound on the runs of the case

Runs == 1 .. MaxRuns
RuleSet == {Rules[i] : i \in DOMAIN Rules}
Pack == "MAINT"

ASSUME RulesAssumption ==
    /\ MaxRuns \in Nat
    /\ Rules \in Seq(RuleSet)
    /\ Pack \notin RuleSet
    /\ \A rule \in RuleSet : NeedsTrust[rule] \subseteq Needs[rule]

Additive == {"semantic_interpretation", "canonical_entity_resolution",
             "relationship_discovery", "process_interpretation"}
Stages == Additive \cup {"connect", "trust", "capability_shadow_evaluation",
                         "domain_intelligence"}
Ended == {"partial", "review_required", "completed"}
TaskSteps == {"none", "queued", "datasets", "unlink", "relink", "evaluate", "pack", "rules",
              "finish", "gone"}

VARIABLES
    caseStatus,  \* analysis_cases.status
    dataset,     \* analysis_case_datasets
    run,         \* analysis_case_runs with stage events, assessments, decisions and
                 \* findings; and, as history, what it listed and how it ended
    links,       \* the runs whose analysis_case_entity_links rows are there
    task,        \* the background task of a run
    request      \* requests past their reads

vars == <<caseStatus, dataset, run, links, task, request>>

Idle == [op |-> "idle"]
NoTask == [at |-> "none", todo |-> {}, frames |-> {}, trusted |-> {}, seen |-> {},
           failure |-> FALSE, review |-> FALSE, ready |-> {}, next |-> 1, found |-> {}]
Gone == [NoTask EXCEPT !.at = "gone"]
NoRun == [status |-> "none", outcome |-> "none", fresh |-> FALSE, listed |-> {},
          failed |-> {}, assessed |-> {}, errored |-> {}, decided |-> {},
          published |-> {}, linked |-> {}]

\* Rows and tasks hold what their columns and variables can; a case is never
\* failed or cancelled, and a run not either: no code sets those statuses.
TypeOK ==
    /\ caseStatus \in {"created", "running"} \cup Ended
    /\ dataset \in [Datasets -> [detection : {"absent", "confirmed", "needs_review"},
                                 trust : {"none", "not_assessed", "completed", "failed"},
                                 mapping : {"none", "auto_mapped", "needs_review", "failed"}]]
    /\ run \in [Runs -> [status : {"none", "created", "running", "interrupted"} \cup Ended,
                         outcome : {"none"} \cup Ended,
                         fresh : BOOLEAN,
                         listed : SUBSET Datasets,
                         failed : SUBSET Stages,
                         assessed : SUBSET Datasets,
                         errored : SUBSET Datasets,
                         decided : SUBSET RuleSet,
                         published : SUBSET (RuleSet \cup {Pack}),
                         linked : SUBSET (RuleSet \cup {Pack})]]
    /\ links \subseteq Runs
    /\ \A r \in Runs :
         /\ task[r].at \in TaskSteps
         /\ task[r].todo \subseteq Datasets
         /\ task[r].trusted \subseteq task[r].frames
         /\ task[r].seen \subseteq Runs
         /\ task[r].next \in 1 .. Len(Rules) + 1
         /\ task[r].found \subseteq run[r].published

Init ==
    /\ caseStatus = "created"
    /\ dataset = [d \in Datasets |-> [detection |-> "absent", trust |-> "none",
                                      mapping |-> "none"]]
    /\ run = [r \in Runs |-> NoRun]
    /\ links = {}
    /\ task = [r \in Runs |-> NoTask]
    /\ request = [u \in Users |-> Idle]

-----------------------------------------------------------------------------
(* AnalysisCaseService and the routes.                                     *)

\* register_artifacts: one artifact that parses into a dataset.  Nothing
\* looks at the runs of the case.
Register(d, detection) ==
    /\ dataset[d].detection = "absent"
    /\ dataset' = [dataset EXCEPT ![d].detection = detection]
    /\ UNCHANGED <<caseStatus, run, links, task, request>>

\* start_run: no run of the case is running (one that is created is not
\* looked at), and the last number in use.
StartRead(u) ==
    /\ request[u] = Idle
    /\ \A r \in Runs : run[r].status # "running"
    /\ \E last \in 0 .. MaxRuns - 1 :
         /\ \A r \in Runs : run[r].status # "none" <=> r <= last
         /\ request' = [request EXCEPT ![u] = [op |-> "start", run |-> last + 1,
                                               status |-> caseStatus]]
    /\ UNCHANGED <<caseStatus, dataset, run, links, task>>

\* The insert, refused when the number has been taken (the unique key on
\* case and number); the case is written when it was not seen running.
\* run_case then queues the task.
StartCommit(u) ==
    /\ request[u].op = "start"
    /\ request' = [request EXCEPT ![u] = Idle]
    /\ LET r == request[u].run
       IN  IF run[r].status # "none"
           THEN UNCHANGED <<caseStatus, run, task>>
           ELSE /\ run' = [run EXCEPT ![r].status = "created"]
                /\ caseStatus' = IF request[u].status = "running" THEN caseStatus ELSE "running"
                /\ task' = [task EXCEPT ![r].at = "queued"]
    /\ UNCHANGED <<dataset, links>>

\* Time passes: the heartbeat is older than run_stale_after_seconds.
Expire(r) ==
    /\ run[r].status = "running"
    /\ run[r].fresh
    /\ run' = [run EXCEPT ![r].fresh = FALSE]
    /\ UNCHANGED <<caseStatus, dataset, links, task, request>>

PollRead_Created(u, r) ==
    /\ request[u] = Idle
    /\ run[r].status = "created"
    /\ ~run[r].fresh
    /\ request' = [request EXCEPT ![u] = [op |-> "poll", run |-> r]]
    /\ UNCHANGED <<caseStatus, dataset, run, links, task>>

\* get_run_status: mark_stale_if_needed finds a running run stale.
PollRead(u, r) ==
    /\ request[u] = Idle
    /\ run[r].status = "running"
    /\ ~run[r].fresh
    /\ request' = [request EXCEPT ![u] = [op |-> "poll", run |-> r]]
    /\ UNCHANGED <<caseStatus, dataset, run, links, task>>

\* The write, by primary key; the case is left as it is.
PollCommit(u) ==
    /\ request[u].op = "poll"
    /\ run' = [run EXCEPT ![request[u].run].status = "interrupted"]
    /\ request' = [request EXCEPT ![u] = Idle]
    /\ UNCHANGED <<caseStatus, dataset, links, task>>

-----------------------------------------------------------------------------
(* execute, stage by stage.                                                *)

At(r, step) == task[r].at = step

\* The failure events a stage may record.
Failing(r, stage) == SUBSET ({stage} \cap Faults[r])

\* The run is running, with the only heartbeat before its end; the datasets
\* of the case are listed once.
Begin(r) ==
    /\ At(r, "queued")
    /\ LET listed == {d \in Datasets : dataset[d].detection # "absent"}
       IN  /\ run' = [run EXCEPT ![r].status = "running", ![r].fresh = TRUE,
                                 ![r].listed = listed]
           /\ task' = [task EXCEPT ![r].at = "datasets", ![r].todo = listed]
    /\ UNCHANGED <<caseStatus, dataset, links, request>>

\* A dataset that cannot be reloaded from its source.
ReloadFails(r, d) ==
    /\ At(r, "datasets")
    /\ d \in task[r].todo
    /\ "connect" \in Faults[r]
    /\ dataset' = [dataset EXCEPT ![d].trust = "failed", ![d].mapping = "failed"]
    /\ run' = [run EXCEPT ![r].failed = @ \cup {"connect"}]
    /\ task' = [task EXCEPT ![r].todo = @ \ {d}, ![r].failure = TRUE]
    /\ UNCHANGED <<caseStatus, links, request>>

\* What a dataset's trust assessment comes to (completed stands for completed
\* with warnings too): a rule that raises inside the assessment leaves it on
\* file as failed, an error of the assessment itself leaves the dataset without
\* one.
TrustOutcomes(r, d) ==
    IF DomainOf[d] \notin Relevant THEN {"not_assessed"}
    ELSE {"completed"} \cup (IF "trust" \in Faults[r] THEN {"errored", "raised"} ELSE {})

TrustAndMap_RaisedIsNoFailure(r, d) ==
    /\ At(r, "datasets")
    /\ d \in task[r].todo
    /\ \E trust \in TrustOutcomes(r, d), mapping \in {"auto_mapped", "needs_review"} :
         /\ dataset' = [dataset EXCEPT
                          ![d].trust = IF trust \in {"errored", "raised"} THEN "failed" ELSE trust,
                          ![d].mapping = mapping]
         /\ run' = [run EXCEPT
                       ![r].failed = @ \cup (IF trust = "raised" THEN {"trust"} ELSE {}),
                       ![r].assessed = @ \cup (IF trust = "completed" THEN {d} ELSE {}),
                       ![r].errored = @ \cup (IF trust = "errored" THEN {d} ELSE {})]
         /\ task' = [task EXCEPT
                       ![r].todo = @ \ {d},
                       ![r].frames = @ \cup {d},
                       ![r].trusted = @ \cup (IF trust \in {"completed", "errored"}
                                              THEN {d} ELSE {}),
                       ![r].review = \/ @
                                     \/ mapping = "needs_review"
                                     \/ /\ dataset[d].detection = "needs_review"
                                        /\ DomainOf[d] \in Relevant]
    /\ UNCHANGED <<caseStatus, links, request>>

\* Trust and mapping of a dataset.  Only an assessment that raises is a failure
\* of the run: one that comes back failed has a completed stage event, and the
\* dataset shows its status.  An uncertain domain has no required
\* fields, and asks for a review when intelligence reads that domain.
TrustAndMap(r, d) ==
    /\ At(r, "datasets")
    /\ d \in task[r].todo
    /\ \E trust \in TrustOutcomes(r, d), mapping \in {"auto_mapped", "needs_review"} :
         /\ dataset' = [dataset EXCEPT
                          ![d].trust = IF trust \in {"errored", "raised"} THEN "failed" ELSE trust,
                          ![d].mapping = mapping]
         /\ run' = [run EXCEPT
                       ![r].failed = @ \cup (IF trust = "raised" THEN {"trust"} ELSE {}),
                       ![r].assessed = @ \cup (IF trust = "completed" THEN {d} ELSE {}),
                       ![r].errored = @ \cup (IF trust = "errored" THEN {d} ELSE {})]
         /\ task' = [task EXCEPT
                       ![r].todo = @ \ {d},
                       ![r].frames = @ \cup {d},
                       ![r].trusted = @ \cup (IF trust \in {"completed", "errored"}
                                              THEN {d} ELSE {}),
                       ![r].failure = @ \/ trust = "raised",
                       ![r].review = \/ @
                                     \/ mapping = "needs_review"
                                     \/ /\ dataset[d].detection = "needs_review"
                                        /\ DomainOf[d] \in Relevant]
    /\ UNCHANGED <<caseStatus, links, request>>

\* The additive stages: semantic interpretation and, when it completed, the
\* three that read it.  A failure is recorded and never fails the run.
Interpret(r) ==
    /\ At(r, "datasets")
    /\ task[r].todo = {}
    /\ \E fails \in SUBSET (Additive \cap Faults[r]) :
         /\ "semantic_interpretation" \in fails => fails = {"semantic_interpretation"}
         /\ run' = [run EXCEPT ![r].failed = @ \cup fails]
    /\ task' = [task EXCEPT ![r].at = "unlink"]
    /\ UNCHANGED <<caseStatus, dataset, links, request>>

\* The delete of the case's entity links sees the rows committed by then.
Unlink(r) ==
    /\ At(r, "unlink")
    /\ task' = [task EXCEPT ![r].at = "relink", ![r].seen = links]
    /\ UNCHANGED <<caseStatus, dataset, run, links, request>>

\* The insert.  Rows another run committed since the delete stay, and when
\* they name the same entity the unique key ends this task.
Relink(r) ==
    /\ At(r, "relink")
    /\ LET survivors == links \ task[r].seen
       IN  \/ /\ links' = survivors \cup {r}
              /\ task' = [task EXCEPT ![r].at = "evaluate", ![r].seen = {}]
           \/ /\ survivors # {}
              /\ task' = [task EXCEPT ![r] = Gone]
              /\ UNCHANGED links
    /\ UNCHANGED <<caseStatus, dataset, run, request>>

Domains(S) == {DomainOf[d] : d \in S}

\* evaluate_readiness of a rule's pack: READY needs its domains mapped and
\* its trust resolved, and evidence the model leaves open.
MayBeReady(r, rule) ==
    /\ Needs[rule] \subseteq Domains(task[r].frames)
    /\ NeedsTrust[rule] \subseteq Domains(task[r].trusted)

Evaluate_FailsOpen(r) ==
    /\ At(r, "evaluate")
    /\ \E decided \in SUBSET {rule \in RuleSet : MayBeReady(r, rule)},
          fails \in Failing(r, "capability_shadow_evaluation") :
         /\ run' = [run EXCEPT ![r].decided = decided, ![r].failed = @ \cup fails]
         /\ task' = [task EXCEPT ![r].at = "pack",
                                 ![r].ready = IF fails = {} THEN decided ELSE RuleSet,
                                 ![r].todo = {d \in task[r].trusted :
                                                DomainOf[d] = "maintenance"},
                                 ![r].frames = {}, ![r].trusted = {}]
    /\ UNCHANGED <<caseStatus, dataset, links, request>>

\* _evaluate_intelligence_capabilities: one decision per rule.  When it
\* raises, the decisions it had added are committed with the failure event
\* and nothing is activated.
Evaluate(r) ==
    /\ At(r, "evaluate")
    /\ \E decided \in SUBSET {rule \in RuleSet : MayBeReady(r, rule)},
          fails \in Failing(r, "capability_shadow_evaluation") :
         /\ run' = [run EXCEPT ![r].decided = decided, ![r].failed = @ \cup fails]
         /\ task' = [task EXCEPT ![r].at = "pack",
                                 ![r].ready = IF fails = {} THEN decided ELSE {},
                                 ![r].todo = {d \in task[r].trusted :
                                                DomainOf[d] = "maintenance"},
                                 ![r].frames = {}, ![r].trusted = {}]
    /\ UNCHANGED <<caseStatus, dataset, links, request>>

\* run_maintenance_pack over one maintenance dataset with an assessment:
\* each finding is committed as it is published, unless the assessment it
\* cites is a failed one, which publish refuses.  When a later finding
\* raises, the failure is recorded, those before it are in the table, and
\* the task knows of none of them.
RunPack(r, d) ==
    /\ At(r, "pack")
    /\ d \in task[r].todo
    /\ \E found \in (IF d \in run[r].assessed THEN SUBSET {Pack} ELSE {{}}),
          fails \in Failing(r, "domain_intelligence") :
         /\ run' = [run EXCEPT ![r].published = @ \cup found, ![r].failed = @ \cup fails]
         /\ task' = [task EXCEPT ![r].todo = @ \ {d},
                                 ![r].found = @ \cup (IF fails = {} THEN found ELSE {})]
    /\ UNCHANGED <<caseStatus, dataset, links, request>>

PacksDone(r) ==
    /\ At(r, "pack")
    /\ task[r].todo = {}
    /\ task' = [task EXCEPT ![r].at = "rules"]
    /\ UNCHANGED <<caseStatus, dataset, run, links, request>>

\* The datasets whose assessment a rule may cite: those of its domains, or
\* any when its pack names none.
Cites(rule) == {d \in Datasets : Needs[rule] = {} \/ DomainOf[d] \in Needs[rule]}

MayPublish_AnyAssessment(r, rule) ==
    rule \in task[r].ready

\* publish takes only an assessment that completed.
MayPublish(r, rule) ==
    /\ rule \in task[r].ready
    /\ run[r].assessed \cap Cites(rule) # {}

\* One governed rule, if its decision was READY: it publishes what it finds
\* over the datasets with an assessment.  An exception, a refusal by publish
\* among them, ends the task (Lost).
RunRule(r) ==
    /\ At(r, "rules")
    /\ task[r].next <= Len(Rules)
    /\ LET rule == Rules[task[r].next]
       IN  \E found \in IF MayPublish(r, rule) THEN SUBSET {rule} ELSE {{}} :
             /\ run' = [run EXCEPT ![r].published = @ \cup found]
             /\ task' = [task EXCEPT ![r].next = @ + 1, ![r].found = @ \cup found]
    /\ UNCHANGED <<caseStatus, dataset, links, request>>

Attach_AfterStatus(r) ==
    /\ At(r, "rules")
    /\ task[r].next > Len(Rules)
    /\ run' = [run EXCEPT ![r].status = IF task[r].failure THEN "partial"
                                        ELSE IF task[r].review THEN "review_required"
                                        ELSE "completed"]
    /\ task' = [task EXCEPT ![r].at = "finish"]
    /\ UNCHANGED <<caseStatus, dataset, links, request>>

\* The findings of the whole run are linked to the case in one commit.
Attach(r) ==
    /\ At(r, "rules")
    /\ task[r].next > Len(Rules)
    /\ run' = [run EXCEPT ![r].linked = task[r].found]
    /\ task' = [task EXCEPT ![r].at = "finish"]
    /\ UNCHANGED <<caseStatus, dataset, links, request>>

Finish_CaseCompletes(r) ==
    /\ At(r, "finish")
    /\ LET status == CASE task[r].failure -> "partial"
                       [] ~task[r].failure /\ task[r].review -> "review_required"
                       [] OTHER -> "completed"
       IN  run' = [run EXCEPT ![r].status = status, ![r].outcome = status,
                              ![r].fresh = TRUE]
    /\ caseStatus' = "completed"
    /\ task' = [task EXCEPT ![r] = Gone]
    /\ UNCHANGED <<dataset, links, request>>

\* The final status, on run and case by primary key whatever they have
\* become, and the completion event.
Finish(r) ==
    /\ At(r, "finish")
    /\ LET status == CASE task[r].failure -> "partial"
                       [] ~task[r].failure /\ task[r].review -> "review_required"
                       [] OTHER -> "completed"
       IN  /\ run' = [run EXCEPT ![r].status = status, ![r].outcome = status,
                                 ![r].fresh = TRUE]
           /\ caseStatus' = status
    /\ task' = [task EXCEPT ![r] = Gone]
    /\ UNCHANGED <<dataset, links, request>>

\* The process is recycled, or an exception that no stage catches leaves
\* execute: the rows stay as they are.
Lost(r) ==
    /\ task[r].at \notin {"none", "gone"}
    /\ task' = [task EXCEPT ![r] = Gone]
    /\ UNCHANGED <<caseStatus, dataset, run, links, request>>

Step(r) ==
    \/ Begin(r)
    \/ \E d \in Datasets : ReloadFails(r, d) \/ TrustAndMap(r, d) \/ RunPack(r, d)
    \/ Interpret(r)
    \/ Unlink(r)
    \/ Relink(r)
    \/ Evaluate(r)
    \/ PacksDone(r)
    \/ RunRule(r)
    \/ Attach(r)
    \/ Finish(r)

-----------------------------------------------------------------------------

Next ==
    \/ \E d \in Datasets, detection \in {"confirmed", "needs_review"} : Register(d, detection)
    \/ \E u \in Users : StartRead(u) \/ StartCommit(u) \/ PollCommit(u)
    \/ \E u \in Users, r \in Runs : PollRead(u, r)
    \/ \E r \in Runs : Step(r) \/ Expire(r) \/ Lost(r)

\* Handlers and tasks that are not lost go on, time passes, and a client
\* asks for the status of its run.
Fairness ==
    /\ \A r \in Runs : WF_vars(Step(r)) /\ WF_vars(Expire(r))
    /\ \A u \in Users : WF_vars(StartCommit(u)) /\ WF_vars(PollCommit(u))
    /\ \A r \in Runs : WF_vars(\E u \in Users : PollRead(u, r))

Spec == Init /\ [][Next]_vars /\ Fairness

-----------------------------------------------------------------------------
(* Properties.                                                             *)

\* Datasets that intelligence reads, with no trust assessment on file for the run.
Unassessed(r) == {d \in run[r].listed : DomainOf[d] \in Relevant}
                    \ (run[r].assessed \cup run[r].errored)

\* The status a run ends with tells of a dataset it lost: partial exactly when
\* a reload failed or an assessment raised, and no dataset the run set out
\* with is left without an assessment under any other status.  An assessment
\* that came back failed is on file, and no loss in this sense: the run may
\* end completed.
StatusTellsLoss ==
    \A r \in Runs : run[r].status \in Ended =>
      /\ (run[r].status = "partial") <=> ({"connect", "trust"} \cap run[r].failed # {})
      /\ Unassessed(r) # {} => run[r].status = "partial"

\* A governed rule publishes only under a READY decision of the same run
\* that is on record, and not at all when the evaluation failed half-way.
GovernedOnlyWhenReady ==
    \A r \in Runs : \A rule \in RuleSet \cap run[r].published :
      /\ rule \in run[r].decided
      /\ "capability_shadow_evaluation" \notin run[r].failed

\* Nothing is published on data nobody assessed: a published finding has a
\* dataset of its domains whose assessment in the same run completed, though
\* readiness counts a domain as resolved when its assessment failed.
PublishedOnTrust ==
    \A r \in Runs : \A f \in run[r].published :
      IF f = Pack THEN "maintenance" \in Domains(run[r].assessed)
                  ELSE run[r].assessed \cap Cites(f) # {}

\* A case sees all findings of a run or none of them, and all once the run
\* has ended: only a maintenance pack that failed half-way leaves published
\* findings that no run of the case shows.
FindingsArriveTogether ==
    \A r \in Runs : run[r].linked # {} \/ run[r].status \in Ended =>
      \A f \in run[r].published \ run[r].linked :
        f = Pack /\ "domain_intelligence" \in run[r].failed

\* The case shows an outcome that execute gave one of its runs, whichever
\* requests and tasks overlapped since: that run still has it, or was declared
\* interrupted after it ended.
CaseShowsARun ==
    caseStatus \in Ended =>
      \E r \in Runs : /\ run[r].outcome = caseStatus
                      /\ run[r].status \in {caseStatus, "interrupted"}

\* A run that begins does not stay running: it ends, or its client finds it
\* stale and interrupts it, after which the case can be run again.
RunSettles == \A r \in Runs : run[r].status = "running" ~> run[r].status # "running"

\* What a run published was decided in it.
PublicationIsSound == TypeOK /\ GovernedOnlyWhenReady
=============================================================================
