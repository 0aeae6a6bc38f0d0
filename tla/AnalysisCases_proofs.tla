------------------------ MODULE AnalysisCases_proofs ------------------------
(***************************************************************************)
(* Proofs about the runs of an analysis case, for any users, datasets,     *)
(* domains, rules, faults and number of runs.                              *)
(*                                                                         *)
(* Runs of a case overlap and share its datasets and links, but every run  *)
(* row and the task that works for it are written by that one task, whose  *)
(* stages come in one order: so the invariant is about one row and one     *)
(* task (RunSound), and a step of another run cannot disturb it.  What the *)
(* users' requests add is only a status, interrupted, that the task may    *)
(* overwrite.                                                              *)
(***************************************************************************)
EXTENDS AnalysisCases, TLAPS

-----------------------------------------------------------------------------
(* The inductive invariant.                                                *)

CaseStatuses == {"created", "running"} \cup Ended
DatasetRows == [detection : {"absent", "confirmed", "needs_review"},
                trust : {"none", "not_assessed", "completed", "failed"},
                mapping : {"none", "auto_mapped", "needs_review", "failed"}]
RunRows == [status : {"none", "created", "running", "interrupted"} \cup Ended,
            outcome : {"none"} \cup Ended,
            fresh : BOOLEAN,
            listed : SUBSET Datasets,
            failed : SUBSET Stages,
            assessed : SUBSET Datasets,
            errored : SUBSET Datasets,
            decided : SUBSET RuleSet,
            published : SUBSET (RuleSet \cup {Pack}),
            linked : SUBSET (RuleSet \cup {Pack})]
TaskRows == [at : TaskSteps,
             todo : SUBSET Datasets,
             frames : SUBSET Datasets,
             trusted : SUBSET Datasets,
             seen : SUBSET Runs,
             failure : BOOLEAN,
             review : BOOLEAN,
             ready : SUBSET RuleSet,
             next : 1 .. Len(Rules) + 1,
             found : SUBSET (RuleSet \cup {Pack})]
Requests == [op : {"idle"}] \cup [op : {"start"}, run : Runs, status : CaseStatuses]
                \cup [op : {"poll"}, run : Runs]

Types ==
    /\ caseStatus \in CaseStatuses
    /\ dataset \in [Datasets -> DatasetRows]
    /\ run \in [Runs -> RunRows]
    /\ links \subseteq Runs
    /\ task \in [Runs -> TaskRows]
    /\ request \in [Users -> Requests]

Working(t) == t.at \notin {"none", "gone"}
Lossy(row) == {"connect", "trust"} \cap row.failed # {}

\* Only a maintenance pack that failed half-way leaves findings out.
LeftOut(row, shown) ==
    \A f \in row.published \ shown : f = Pack /\ "domain_intelligence" \in row.failed

\* A run begins once, and has an outcome only when its task is over.
OutcomeSound(row, t) ==
    /\ row.status = "none" => row = NoRun /\ t = NoTask
    /\ row.status \in Ended => t.at = "gone" /\ (row.status = "partial" <=> Lossy(row))
    /\ Working(t) => (t.failure <=> Lossy(row))

\* Every dataset the run listed that intelligence reads has an assessment, is
\* one of those still to do, or the run has lost one.
Accounted(row, todo) ==
    \/ Lossy(row)
    \/ \A d \in row.listed : DomainOf[d] \in Relevant =>
         d \in row.assessed \/ d \in row.errored \/ d \in todo

\* A run accounts for its datasets from their stage on, and has an outcome
\* only when its task is over.
LossSound(row, t) ==
    /\ t.at = "datasets" => Accounted(row, t.todo)
    /\ Working(t) /\ t.at \notin {"queued", "datasets"} => Accounted(row, {})
    /\ row.status \in Ended => Accounted(row, {}) /\ row.outcome = row.status
    /\ row.outcome # "none" => t.at = "gone"

\* Nothing is published before the evaluation, and then only under it.
PublishingSound(row, t) ==
    /\ t.at \in {"none", "queued", "datasets", "unlink", "relink", "evaluate"} =>
         /\ row.published = {}
         /\ t.ready = {}
         /\ "capability_shadow_evaluation" \notin row.failed
    /\ t.ready \subseteq row.decided
    /\ t.ready # {} => "capability_shadow_evaluation" \notin row.failed
    /\ t.at = "pack" => \A d \in t.todo : DomainOf[d] = "maintenance"
    /\ \A f \in RuleSet \cap row.published :
         /\ f \in row.decided
         /\ "capability_shadow_evaluation" \notin row.failed
    /\ \A f \in row.published :
         IF f = Pack THEN "maintenance" \in Domains(row.assessed)
                     ELSE row.assessed \cap Cites(f) # {}

\* The task knows of what it published, and links it at its end.
LinkingSound(row, t) ==
    /\ t.trusted \subseteq t.frames
    /\ t.found \subseteq row.published
    /\ Working(t) => LeftOut(row, t.found)
    /\ t.at \notin {"finish", "gone"} => row.linked = {}
    /\ t.at = "finish" => row.linked = t.found
    /\ row.linked # {} \/ row.status \in Ended => LeftOut(row, row.linked)

RunSound(row, t) ==
    /\ OutcomeSound(row, t)
    /\ LossSound(row, t)
    /\ PublishingSound(row, t)
    /\ LinkingSound(row, t)

IInv ==
    /\ Types
    /\ \A r \in Runs : RunSound(run[r], task[r])
    /\ CaseShowsARun

-----------------------------------------------------------------------------
(* One run changes, the others do not.                                     *)

\* What IInv says of one run.
LEMMA RunOf ==
    ASSUME IInv, NEW r \in Runs
    PROVE  /\ run[r] \in RunRows /\ task[r] \in TaskRows
           /\ OutcomeSound(run[r], task[r])
           /\ LossSound(run[r], task[r])
           /\ PublishingSound(run[r], task[r])
           /\ LinkingSound(run[r], task[r])
  BY DEF IInv, Types, RunSound

\* A step that gives one run a sound row and task.
LEMMA RunStep ==
    ASSUME IInv, NEW r \in Runs, NEW row \in RunRows, NEW t \in TaskRows,
           run' = [run EXCEPT ![r] = row], task' = [task EXCEPT ![r] = t],
           RunSound(row, t),
           caseStatus' \in CaseStatuses, dataset' \in [Datasets -> DatasetRows],
           links' \subseteq Runs, request' \in [Users -> Requests],
           CaseShowsARun'
    PROVE  IInv'
  <1>1. run' \in [Runs -> RunRows] /\ task' \in [Runs -> TaskRows]
    BY DEF IInv, Types
  <1>2. Types'
    BY <1>1 DEF Types
  <1>3. ASSUME NEW q \in Runs PROVE RunSound(run[q], task[q])'
    <2>1. CASE q = r
      <3>1. run'[q] = row /\ task'[q] = t
        BY <2>1 DEF IInv, Types
      <3> QED  BY <3>1 DEF RunSound, OutcomeSound, LossSound, PublishingSound, LinkingSound,
                           LeftOut, Lossy, Accounted, Working, Domains, Cites
    <2>2. CASE q # r
      <3>1. run'[q] = run[q] /\ task'[q] = task[q]
        BY <2>2 DEF IInv, Types
      <3>2. RunSound(run[q], task[q])
        BY DEF IInv
      <3> QED  BY <3>1, <3>2 DEF RunSound, OutcomeSound, LossSound, PublishingSound,
                                 LinkingSound, LeftOut, Lossy, Accounted, Working, Domains,
                                 Cites
    <2> QED  BY <2>1, <2>2
  <1> QED  BY <1>2, <1>3 DEF IInv

\* A step of a task that still works: the run that the case shows is another.
LEMMA TaskStep ==
    ASSUME IInv, NEW r \in Runs, NEW row \in RunRows, NEW t \in TaskRows,
           task[r].at # "gone",
           run' = [run EXCEPT ![r] = row], task' = [task EXCEPT ![r] = t],
           RunSound(row, t),
           UNCHANGED <<caseStatus, request>>,
           dataset' \in [Datasets -> DatasetRows], links' \subseteq Runs
    PROVE  IInv'
  <1>1. CaseShowsARun'
    <2> SUFFICES ASSUME caseStatus \in Ended
                 PROVE  \E q \in Runs : /\ run'[q].outcome = caseStatus
                                        /\ run'[q].status \in {caseStatus, "interrupted"}
      BY DEF CaseShowsARun
    <2>1. PICK q \in Runs : /\ run[q].outcome = caseStatus
                            /\ run[q].status \in {caseStatus, "interrupted"}
      BY DEF IInv, CaseShowsARun
    <2>2. q # r
      BY <2>1, RunOf DEF LossSound, Ended
    <2>3. run'[q] = run[q]
      BY <2>2 DEF IInv, Types
    <2> QED  BY <2>1, <2>3
  <1>2. caseStatus' \in CaseStatuses /\ request' \in [Users -> Requests]
    BY DEF IInv, Types
  <1> QED  BY <1>1, <1>2, RunStep

\* What a stage that keeps its run's row may rely on.
LEMMA SameRow ==
    ASSUME IInv, NEW r \in Runs, run' = run
    PROVE  run' = [run EXCEPT ![r] = run[r]]
  BY DEF IInv, Types

\* What a run accounts for stays accounted for when failures are added, and
\* what is still to do may be more.
LEMMA StillAccounted ==
    ASSUME NEW old, NEW row, NEW S, NEW T, Accounted(old, S), S \subseteq T,
           row.listed = old.listed, row.assessed = old.assessed, row.errored = old.errored,
           old.failed \subseteq row.failed
    PROVE  Accounted(row, T)
  BY DEF Accounted, Lossy

\* The stages after the datasets' leave the account of them as it is, and a
\* task that goes leaves it unused.
LEMMA LossKept ==
    ASSUME IInv, NEW r \in Runs, NEW row, NEW t, Working(task[r]),
           \/ task[r].at \notin {"queued", "datasets"} /\ t.at # "datasets"
           \/ t.at = "gone",
           row.status = run[r].status, row.outcome = run[r].outcome,
           row.listed = run[r].listed, row.assessed = run[r].assessed,
           row.errored = run[r].errored, run[r].failed \subseteq row.failed
    PROVE  LossSound(row, t)
  <1>1. row.status \notin Ended /\ row.outcome = "none"
    BY RunOf DEF LossSound, OutcomeSound, Working
  <1>2. ASSUME task[r].at \notin {"queued", "datasets"}
        PROVE  Accounted(row, {})
    <2>1. Accounted(run[r], {})
      BY <1>2, RunOf DEF LossSound
    <2> QED  BY <2>1, StillAccounted
  <1> QED  BY <1>1, <1>2 DEF LossSound, Working

-----------------------------------------------------------------------------
(* The stages of a task.                                                   *)

\* Begin: the run's row still is what start_run inserted, or interrupted.
LEMMA BeginKeeps ==
    ASSUME IInv, NEW r \in Runs, Begin(r)
    PROVE  IInv'
  <1>1. PICK todo \in SUBSET Datasets : todo = {d \in Datasets : dataset[d].detection # "absent"}
    OBVIOUS
  <1> DEFINE row == [run[r] EXCEPT !.status = "running", !.fresh = TRUE,
                                   !.listed = todo]
             t == [task[r] EXCEPT !.at = "datasets", !.todo = todo]
  <1>2. row \in RunRows /\ t \in TaskRows
    <2>1. run[r] \in RunRows /\ task[r] \in TaskRows
      BY RunOf
    <2> QED  BY <2>1 DEF RunRows, TaskRows, TaskSteps
  <1>3. run' = [run EXCEPT ![r] = row] /\ task' = [task EXCEPT ![r] = t]
    BY <1>1 DEF Begin, IInv, Types
  <1>4. task[r].at = "queued"
    BY DEF Begin, At
  <1>5. OutcomeSound(row, t)
    BY <1>4, RunOf DEF RunRows, TaskRows, OutcomeSound, Working, Lossy, Ended
  <1>L. LossSound(row, t)
    <2>1. row.listed = todo /\ t.todo = todo /\ t.at = "datasets" /\ row.status = "running"
      BY RunOf DEF RunRows, TaskRows
    <2>2. row.outcome = "none"
      BY <1>4, RunOf DEF RunRows, LossSound
    <2> HIDE DEF row, t
    <2> QED  BY <2>1, <2>2 DEF LossSound, Accounted, Ended
  <1>6. PublishingSound(row, t)
    BY <1>4, RunOf DEF RunRows, TaskRows, PublishingSound
  <1>7. LinkingSound(row, t)
    BY <1>4, RunOf DEF RunRows, TaskRows, LinkingSound, Working, LeftOut, Ended
  <1>8. /\ UNCHANGED <<caseStatus, request>>
        /\ dataset' \in [Datasets -> DatasetRows] /\ links' \subseteq Runs
    BY DEF Begin, IInv, Types
  <1> HIDE DEF row, t
  <1> QED  BY <1>2, <1>3, <1>4, <1>5, <1>L, <1>6, <1>7, <1>8, TaskStep DEF RunSound

\* ReloadFails: the lost dataset is a failure of task and run alike.
LEMMA ReloadKeeps ==
    ASSUME IInv, NEW r \in Runs, NEW d \in Datasets, ReloadFails(r, d)
    PROVE  IInv'
  <1> DEFINE row == [run[r] EXCEPT !.failed = run[r].failed \cup {"connect"}]
             t == [task[r] EXCEPT !.todo = task[r].todo \ {d}, !.failure = TRUE]
  <1>1. task[r].at = "datasets"
    BY DEF ReloadFails, At
  <1>2. row \in RunRows /\ t \in TaskRows
    <2>1. run[r] \in RunRows /\ task[r] \in TaskRows
      BY RunOf
    <2> QED  BY <2>1 DEF RunRows, TaskRows, Stages
  <1>3. run' = [run EXCEPT ![r] = row] /\ task' = [task EXCEPT ![r] = t]
    BY DEF ReloadFails, IInv, Types
  <1>4. OutcomeSound(row, t)
    BY <1>1, RunOf DEF RunRows, TaskRows, OutcomeSound, Working, Lossy, NoTask
  <1>L. LossSound(row, t)
    <2>1. "connect" \in row.failed /\ t.at = "datasets"
      BY <1>1, RunOf DEF RunRows, TaskRows
    <2>2. row.outcome = "none" /\ row.status \notin Ended
      BY <1>1, RunOf DEF RunRows, LossSound, OutcomeSound
    <2> HIDE DEF row, t
    <2> QED  BY <2>1, <2>2 DEF LossSound, Accounted, Lossy
  <1>5. PublishingSound(row, t)
    BY <1>1, RunOf DEF RunRows, TaskRows, PublishingSound
  <1>6. LinkingSound(row, t)
    BY <1>1, RunOf DEF RunRows, TaskRows, LinkingSound, OutcomeSound, Working, LeftOut
  <1>7. UNCHANGED <<caseStatus, request>> /\ links' \subseteq Runs
    BY DEF ReloadFails, IInv, Types
  <1>8. dataset' \in [Datasets -> DatasetRows]
    BY DEF ReloadFails, IInv, Types, DatasetRows
  <1> HIDE DEF row, t
  <1> QED  BY <1>1, <1>2, <1>3, <1>4, <1>L, <1>5, <1>6, <1>7, <1>8, TaskStep DEF RunSound

\* TrustAndMap: an assessment that raised is a failure of task and run alike.
LEMMA TrustKeeps ==
    ASSUME IInv, NEW r \in Runs, NEW d \in Datasets, TrustAndMap(r, d)
    PROVE  IInv'
  <1>1. PICK trust \in TrustOutcomes(r, d), mapping \in {"auto_mapped", "needs_review"} :
          /\ dataset' = [dataset EXCEPT
                           ![d].trust = IF trust \in {"errored", "raised"} THEN "failed"
                                        ELSE trust,
                           ![d].mapping = mapping]
          /\ run' = [run EXCEPT
                        ![r].failed = @ \cup (IF trust = "raised" THEN {"trust"} ELSE {}),
                        ![r].assessed = @ \cup (IF trust = "completed" THEN {d} ELSE {}),
                        ![r].errored = @ \cup (IF trust = "errored" THEN {d} ELSE {})]
          /\ task' = [task EXCEPT
                        ![r].todo = @ \ {d},
                        ![r].frames = @ \cup {d},
                        ![r].trusted = @ \cup (IF trust \in {"completed", "errored"}
                                               THEN {d} ELSE {}),
                        ![r].failure = @ \/ trust = "raised",
                        ![r].review = \/ @
                                      \/ mapping = "needs_review"
                                      \/ /\ dataset[d].detection = "needs_review"
                                         /\ DomainOf[d] \in Relevant]
    BY DEF TrustAndMap
  <1>2. PICK failure \in BOOLEAN : failure <=> (task[r].failure \/ trust = "raised")
    OBVIOUS
  <1>3. PICK review \in BOOLEAN :
          review <=> \/ task[r].review
                     \/ mapping = "needs_review"
                     \/ /\ dataset[d].detection = "needs_review"
                        /\ DomainOf[d] \in Relevant
    OBVIOUS
  <1> DEFINE lost == IF trust = "raised" THEN {"trust"} ELSE {}
             done == IF trust = "completed" THEN {d} ELSE {}
             bad == IF trust = "errored" THEN {d} ELSE {}
             counted == IF trust \in {"completed", "errored"} THEN {d} ELSE {}
             row == [run[r] EXCEPT !.failed = run[r].failed \cup lost,
                                   !.assessed = run[r].assessed \cup done,
                                   !.errored = run[r].errored \cup bad]
             t == [task[r] EXCEPT !.todo = task[r].todo \ {d},
                                  !.frames = task[r].frames \cup {d},
                                  !.trusted = task[r].trusted \cup counted,
                                  !.failure = failure,
                                  !.review = review]
  <1>4. task[r].at = "datasets"
    BY DEF TrustAndMap, At
  <1>5. run[r] \in RunRows /\ task[r] \in TaskRows
    BY RunOf
  <1>6. /\ lost \subseteq Stages /\ (trust = "raised" <=> lost # {}) /\ lost \subseteq {"trust"}
        /\ done \subseteq Datasets /\ bad \subseteq Datasets /\ counted \subseteq {d}
    BY DEF Stages
  <1>7. run' = [run EXCEPT ![r] = row]
    BY <1>1, <1>5 DEF IInv, Types, RunRows
  <1>8. task' = [task EXCEPT ![r] = t]
    <2>1. t = [task[r] EXCEPT !.todo = task[r].todo \ {d},
                              !.frames = task[r].frames \cup {d},
                              !.trusted = task[r].trusted \cup counted,
                              !.failure = task[r].failure \/ trust = "raised",
                              !.review = \/ task[r].review
                                         \/ mapping = "needs_review"
                                         \/ /\ dataset[d].detection = "needs_review"
                                            /\ DomainOf[d] \in Relevant]
      BY <1>2, <1>3, <1>5 DEF TaskRows
    <2> QED  BY <1>1, <1>5, <2>1 DEF IInv, Types, TaskRows
  <1>T. DomainOf[d] \in Relevant => lost # {} \/ d \in done \/ d \in bad
    BY DEF TrustOutcomes
  <1> HIDE DEF lost, done, bad, counted
  <1>9. row \in RunRows /\ t \in TaskRows
    BY <1>5, <1>6 DEF RunRows, TaskRows
  <1>10. OutcomeSound(row, t)
    BY <1>2, <1>4, <1>5, <1>6, RunOf DEF RunRows, TaskRows, OutcomeSound, Working, Lossy, NoTask
  <1>L. LossSound(row, t)
    <2>1. /\ row.listed = run[r].listed /\ row.failed = run[r].failed \cup lost
          /\ row.assessed = run[r].assessed \cup done /\ row.errored = run[r].errored \cup bad
          /\ row.outcome = run[r].outcome /\ row.status = run[r].status
          /\ t.at = "datasets" /\ t.todo = task[r].todo \ {d}
      BY <1>4, <1>5 DEF RunRows, TaskRows
    <2>2. run[r].outcome = "none" /\ run[r].status \notin Ended
      BY <1>4, RunOf DEF LossSound, OutcomeSound
    <2>3. Accounted(run[r], task[r].todo)
      BY <1>4, RunOf DEF LossSound
    <2> HIDE DEF row, t
    <2>4. CASE Lossy(run[r]) \/ lost # {}
      <3>1. Lossy(row)
        BY <1>6, <2>1, <2>4 DEF Lossy
      <3> QED  BY <2>1, <2>2, <3>1 DEF LossSound, Accounted
    <2>5. CASE ~Lossy(run[r]) /\ lost = {}
      <3>1. ASSUME NEW x \in row.listed, DomainOf[x] \in Relevant
            PROVE  x \in row.assessed \/ x \in row.errored \/ x \in t.todo
        <4>1. x \in run[r].assessed \/ x \in run[r].errored \/ x \in task[r].todo
          BY <2>1, <2>3, <2>5, <3>1 DEF Accounted
        <4> QED  BY <1>T, <2>1, <2>5, <3>1, <4>1
      <3> QED  BY <2>1, <2>2, <3>1 DEF LossSound, Accounted
    <2> QED  BY <2>4, <2>5
  <1>11. PublishingSound(row, t)
    BY <1>4, <1>5, <1>6, RunOf DEF RunRows, TaskRows, PublishingSound
  <1>12. LinkingSound(row, t)
    BY <1>4, <1>5, <1>6, RunOf DEF RunRows, TaskRows, LinkingSound, OutcomeSound, Working, LeftOut
  <1>13. UNCHANGED <<caseStatus, request>> /\ links' \subseteq Runs
    BY DEF TrustAndMap, IInv, Types
  <1>14. dataset' \in [Datasets -> DatasetRows]
    <2>1. trust \in {"not_assessed", "completed", "errored", "raised"}
      BY DEF TrustOutcomes
    <2>2. PICK kept \in {"not_assessed", "completed", "failed"} :
            kept = IF trust \in {"errored", "raised"} THEN "failed" ELSE trust
      BY <2>1
    <2>3. dataset' = [dataset EXCEPT ![d].trust = kept, ![d].mapping = mapping]
      BY <1>1, <2>2
    <2> QED  BY <2>3 DEF IInv, Types, DatasetRows
  <1> HIDE DEF row, t
  <1> QED  BY <1>4, <1>7, <1>8, <1>9, <1>10, <1>L, <1>11, <1>12, <1>13, <1>14, TaskStep DEF RunSound

\* Interpret: a failed additive stage costs the run no dataset.
LEMMA InterpretKeeps ==
    ASSUME IInv, NEW r \in Runs, Interpret(r)
    PROVE  IInv'
  <1>1. PICK fails \in SUBSET Additive : run' = [run EXCEPT ![r].failed = @ \cup fails]
    BY DEF Interpret
  <1> DEFINE row == [run[r] EXCEPT !.failed = run[r].failed \cup fails]
             t == [task[r] EXCEPT !.at = "unlink"]
  <1>2. /\ fails \subseteq Stages
        /\ fails \cap {"connect", "trust", "capability_shadow_evaluation",
                       "domain_intelligence"} = {}
    BY DEF Additive, Stages
  <1>3. task[r].at = "datasets"
    BY DEF Interpret, At
  <1>4. row \in RunRows /\ t \in TaskRows
    <2>1. run[r] \in RunRows /\ task[r] \in TaskRows
      BY RunOf
    <2> QED  BY <1>2, <2>1 DEF RunRows, TaskRows, TaskSteps
  <1>5. run' = [run EXCEPT ![r] = row] /\ task' = [task EXCEPT ![r] = t]
    BY <1>1 DEF Interpret, IInv, Types
  <1>6. OutcomeSound(row, t)
    BY <1>2, <1>3, RunOf DEF RunRows, TaskRows, OutcomeSound, Working, Lossy, NoTask
  <1>L. LossSound(row, t)
    <2>1. /\ row.listed = run[r].listed /\ row.failed = run[r].failed \cup fails
          /\ row.assessed = run[r].assessed /\ row.errored = run[r].errored
          /\ row.outcome = run[r].outcome /\ row.status = run[r].status /\ t.at = "unlink"
      BY <1>3, RunOf DEF RunRows, TaskRows
    <2>2. run[r].outcome = "none" /\ run[r].status \notin Ended
      BY <1>3, RunOf DEF LossSound, OutcomeSound
    <2>3. Accounted(run[r], {})
      BY <1>3, RunOf DEF LossSound, Interpret
    <2> HIDE DEF row, t
    <2>4. Accounted(row, {})
      BY <2>1, <2>3, StillAccounted
    <2> QED  BY <2>1, <2>2, <2>4 DEF LossSound
  <1>7. PublishingSound(row, t)
    BY <1>2, <1>3, RunOf DEF RunRows, TaskRows, PublishingSound
  <1>8. LinkingSound(row, t)
    BY <1>2, <1>3, RunOf DEF RunRows, TaskRows, LinkingSound, OutcomeSound, Working, LeftOut
  <1>9. /\ UNCHANGED <<caseStatus, request>>
        /\ dataset' \in [Datasets -> DatasetRows] /\ links' \subseteq Runs
    BY DEF Interpret, IInv, Types
  <1> HIDE DEF row, t
  <1> QED  BY <1>3, <1>4, <1>5, <1>6, <1>L, <1>7, <1>8, <1>9, TaskStep DEF RunSound

\* Steps of a working task that change neither what it knows of findings and
\* failures nor its run's row: at most what it still has to do is different.
LEMMA MovesOn ==
    ASSUME IInv, NEW r \in Runs, NEW t \in TaskRows, Working(task[r]), Working(t),
           t.frames = task[r].frames, t.trusted = task[r].trusted,
           t.failure = task[r].failure, t.found = task[r].found,
           t.ready = task[r].ready, t.at \notin {"datasets", "pack", "finish"},
           t.at = "rules" => task[r].at = "pack",
           t.at # "rules" => task[r].at \in {"unlink", "relink"},
           task' = [task EXCEPT ![r] = t],
           UNCHANGED <<caseStatus, dataset, run, request>>, links' \subseteq Runs
    PROVE  IInv'
  <1>1. OutcomeSound(run[r], t)
    BY RunOf DEF OutcomeSound, Working, NoTask
  <1>L. LossSound(run[r], t)
    BY LossKept
  <1>2. PublishingSound(run[r], t)
    BY RunOf DEF PublishingSound, TaskRows, Working
  <1>3. LinkingSound(run[r], t)
    BY RunOf DEF LinkingSound, OutcomeSound, Working
  <1>4. dataset' \in [Datasets -> DatasetRows]
    BY DEF IInv, Types
  <1>5. run' = [run EXCEPT ![r] = run[r]] /\ run[r] \in RunRows /\ task[r].at # "gone"
    BY SameRow, RunOf DEF Working
  <1> QED  BY <1>1, <1>L, <1>2, <1>3, <1>4, <1>5, TaskStep DEF RunSound

\* Lost, or a refused insert of links: the task is gone and the row is left,
\* with all of its findings linked, or none.
LEMMA GoneKeeps ==
    ASSUME IInv, NEW r \in Runs, Working(task[r]),
           task' = [task EXCEPT ![r] = Gone],
           UNCHANGED <<caseStatus, dataset, run, links, request>>
    PROVE  IInv'
  <1>1. Gone \in TaskRows
    <2>1. 1 \in 1 .. Len(Rules) + 1
      BY RulesAssumption
    <2> QED  BY <2>1 DEF Gone, NoTask, TaskRows, TaskSteps
  <1>2. Gone.at = "gone" /\ Gone.ready = {} /\ Gone.found = {} /\ Gone.frames = {} /\ Gone.trusted = {}
    BY DEF Gone, NoTask
  <1>3. OutcomeSound(run[r], Gone)
    BY <1>2, RunOf DEF OutcomeSound, Working, NoTask
  <1>L. LossSound(run[r], Gone)
    BY <1>2, LossKept
  <1>4. PublishingSound(run[r], Gone)
    BY <1>2, RunOf DEF PublishingSound
  <1>5. LinkingSound(run[r], Gone)
    BY <1>2, RunOf DEF LinkingSound, OutcomeSound, Working
  <1>6. dataset' \in [Datasets -> DatasetRows] /\ links' \subseteq Runs
    BY DEF IInv, Types
  <1>7. run' = [run EXCEPT ![r] = run[r]] /\ run[r] \in RunRows /\ task[r].at # "gone"
    BY SameRow, RunOf DEF Working
  <1> QED  BY <1>1, <1>3, <1>L, <1>4, <1>5, <1>6, <1>7, TaskStep DEF RunSound

\* The delete and the insert of entity links, the end of the packs, and a
\* lost process.
LEMMA LinkStepsKeep ==
    ASSUME IInv, NEW r \in Runs, Unlink(r) \/ Relink(r) \/ PacksDone(r) \/ Lost(r)
    PROVE  IInv'
  <1>0. task[r] \in TaskRows /\ links \subseteq Runs /\ task \in [Runs -> TaskRows]
    BY RunOf DEF IInv, Types
  <1>1. CASE Unlink(r)
    <2>1. PICK seen \in SUBSET Runs : seen = links
      BY <1>0
    <2> DEFINE t == [task[r] EXCEPT !.at = "relink", !.seen = seen]
    <2>2. t \in TaskRows
      BY <1>0 DEF TaskRows, TaskSteps
    <2>3. /\ t.at = "relink" /\ t.frames = task[r].frames /\ t.trusted = task[r].trusted
          /\ t.failure = task[r].failure /\ t.found = task[r].found /\ t.ready = task[r].ready
      BY <1>0 DEF TaskRows
    <2>4. task' = [task EXCEPT ![r] = t]
      BY <1>0, <1>1, <2>1 DEF Unlink
    <2> HIDE DEF t
    <2>5. task[r].at = "unlink" /\ UNCHANGED <<caseStatus, dataset, run, request>> /\ links' \subseteq Runs
      BY <1>0, <1>1 DEF Unlink, At
    <2> QED  BY <2>2, <2>3, <2>4, <2>5, MovesOn DEF Working
  <1>2. CASE Relink(r)
    <2>1. task[r].at = "relink" /\ UNCHANGED <<caseStatus, dataset, run, request>>
      BY <1>2 DEF Relink, At
    <2>2. CASE links' = (links \ task[r].seen) \cup {r}
               /\ task' = [task EXCEPT ![r].at = "evaluate", ![r].seen = {}]
      <3> DEFINE t == [task[r] EXCEPT !.at = "evaluate", !.seen = {}]
      <3>1. t \in TaskRows
        BY <1>0 DEF TaskRows, TaskSteps
      <3>2. /\ t.at = "evaluate" /\ t.frames = task[r].frames /\ t.trusted = task[r].trusted
            /\ t.failure = task[r].failure /\ t.found = task[r].found /\ t.ready = task[r].ready
        BY <1>0 DEF TaskRows
      <3>3. task' = [task EXCEPT ![r] = t]
        BY <1>0, <2>2
      <3> HIDE DEF t
      <3>4. links' \subseteq Runs
        BY <1>0, <2>2
      <3> QED  BY <2>1, <3>1, <3>2, <3>3, <3>4, MovesOn DEF Working
    <2>3. CASE task' = [task EXCEPT ![r] = Gone] /\ UNCHANGED links
      BY <2>1, <2>3, GoneKeeps DEF Working
    <2> QED  BY <1>2, <2>2, <2>3 DEF Relink
  <1>3. CASE PacksDone(r)
    <2> DEFINE t == [task[r] EXCEPT !.at = "rules"]
    <2>1. t \in TaskRows
      BY <1>0 DEF TaskRows, TaskSteps
    <2>2. /\ t.at = "rules" /\ t.frames = task[r].frames /\ t.trusted = task[r].trusted
          /\ t.failure = task[r].failure /\ t.found = task[r].found /\ t.ready = task[r].ready
      BY <1>0 DEF TaskRows
    <2>3. task' = [task EXCEPT ![r] = t]
      BY <1>0, <1>3 DEF PacksDone
    <2> HIDE DEF t
    <2>4. task[r].at = "pack" /\ UNCHANGED <<caseStatus, dataset, run, request>> /\ links' \subseteq Runs
      BY <1>0, <1>3 DEF PacksDone, At
    <2> QED  BY <2>1, <2>2, <2>3, <2>4, MovesOn DEF Working
  <1>4. CASE Lost(r)
    BY <1>4, GoneKeeps DEF Lost, Working
  <1> QED  BY <1>1, <1>2, <1>3, <1>4

\* Evaluate: only decisions on record activate a rule, and none of them when
\* the evaluation failed half-way.
LEMMA EvaluateKeeps ==
    ASSUME IInv, NEW r \in Runs, Evaluate(r)
    PROVE  IInv'
  <1>1. PICK decided \in SUBSET RuleSet, fails \in SUBSET {"capability_shadow_evaluation"} :
          /\ run' = [run EXCEPT ![r].decided = decided, ![r].failed = @ \cup fails]
          /\ task' = [task EXCEPT ![r].at = "pack",
                                  ![r].ready = IF fails = {} THEN decided ELSE {},
                                  ![r].todo = {d \in task[r].trusted :
                                                 DomainOf[d] = "maintenance"},
                                  ![r].frames = {}, ![r].trusted = {}]
    <2>1. Failing(r, "capability_shadow_evaluation") \subseteq SUBSET {"capability_shadow_evaluation"}
      BY DEF Failing
    <2>2. PICK decided \in SUBSET {rule \in RuleSet : MayBeReady(r, rule)},
               fails \in Failing(r, "capability_shadow_evaluation") :
            /\ run' = [run EXCEPT ![r].decided = decided, ![r].failed = @ \cup fails]
            /\ task' = [task EXCEPT ![r].at = "pack",
                                    ![r].ready = IF fails = {} THEN decided ELSE {},
                                    ![r].todo = {d \in task[r].trusted :
                                                   DomainOf[d] = "maintenance"},
                                    ![r].frames = {}, ![r].trusted = {}]
      BY DEF Evaluate
    <2>3. decided \in SUBSET RuleSet /\ fails \in SUBSET {"capability_shadow_evaluation"}
      BY <2>1
    <2> QED  BY <2>2, <2>3
  <1>2. run[r] \in RunRows /\ task[r] \in TaskRows
    BY RunOf
  <1>3. PICK todo \in SUBSET Datasets :
          todo = {d \in task[r].trusted : DomainOf[d] = "maintenance"}
    <2>1. task[r].trusted \subseteq Datasets
      BY <1>2 DEF TaskRows
    <2> QED  BY <2>1
  <1>4. PICK ready \in SUBSET RuleSet : ready = IF fails = {} THEN decided ELSE {}
    OBVIOUS
  <1> DEFINE row == [run[r] EXCEPT !.decided = decided, !.failed = run[r].failed \cup fails]
             t == [task[r] EXCEPT !.at = "pack", !.ready = ready, !.todo = todo,
                                  !.frames = {}, !.trusted = {}]
  <1>5. task[r].at = "evaluate"
    BY DEF Evaluate, At
  <1>6. row \in RunRows /\ t \in TaskRows
    BY <1>2 DEF RunRows, TaskRows, TaskSteps, Stages
  <1>7. run' = [run EXCEPT ![r] = row] /\ task' = [task EXCEPT ![r] = t]
    <2>1. run' = [run EXCEPT ![r] = row]
      BY <1>1, <1>2 DEF IInv, Types, RunRows
    <2>2. task' = [task EXCEPT ![r] = t]
      BY <1>1, <1>2, <1>3, <1>4 DEF IInv, Types, TaskRows
    <2> QED  BY <2>1, <2>2
  <1>8. OutcomeSound(row, t)
    BY <1>2, <1>5, RunOf DEF RunRows, TaskRows, OutcomeSound, Working, Lossy, NoTask
  <1>L. LossSound(row, t)
    <2>1. /\ row.listed = run[r].listed /\ run[r].failed \subseteq row.failed
          /\ row.assessed = run[r].assessed /\ row.errored = run[r].errored
          /\ row.outcome = run[r].outcome /\ row.status = run[r].status /\ t.at = "pack"
      BY <1>2 DEF RunRows, TaskRows
    <2> HIDE DEF row, t
    <2> QED  BY <1>5, <2>1, LossKept DEF Working
  <1>9. PublishingSound(row, t)
    <2>1. run[r].published = {} /\ "capability_shadow_evaluation" \notin run[r].failed
      BY <1>5, RunOf DEF PublishingSound
    <2>2. /\ row.published = {} /\ row.decided = decided /\ row.failed = run[r].failed \cup fails
          /\ t.at = "pack" /\ t.ready = ready /\ t.todo = todo
      BY <1>2, <2>1 DEF RunRows, TaskRows
    <2>3. \A d \in t.todo : DomainOf[d] = "maintenance"
      BY <1>3, <2>2
    <2> HIDE DEF row, t
    <2> QED  BY <1>4, <2>1, <2>2, <2>3 DEF PublishingSound
  <1>10. LinkingSound(row, t)
    BY <1>2, <1>5, RunOf DEF RunRows, TaskRows, LinkingSound, OutcomeSound, PublishingSound,
                             Working, LeftOut
  <1>11. /\ UNCHANGED <<caseStatus, request>>
         /\ dataset' \in [Datasets -> DatasetRows] /\ links' \subseteq Runs
    BY DEF Evaluate, IInv, Types
  <1> HIDE DEF row, t
  <1> QED  BY <1>5, <1>6, <1>7, <1>8, <1>L, <1>9, <1>10, <1>11, TaskStep DEF RunSound

\* RunPack: what a failed pack published is left out of what the task knows,
\* with its failure on record.
LEMMA PackKeeps ==
    ASSUME IInv, NEW r \in Runs, NEW d \in Datasets, RunPack(r, d)
    PROVE  IInv'
  <1>1. PICK found \in SUBSET {Pack}, fails \in SUBSET {"domain_intelligence"} :
          /\ found # {} => d \in run[r].assessed
          /\ run' = [run EXCEPT ![r].published = @ \cup found, ![r].failed = @ \cup fails]
          /\ task' = [task EXCEPT ![r].todo = @ \ {d},
                                  ![r].found = @ \cup (IF fails = {} THEN found ELSE {})]
    <2>1. PICK found \in (IF d \in run[r].assessed THEN SUBSET {Pack} ELSE {{}}),
               fails \in Failing(r, "domain_intelligence") :
            /\ run' = [run EXCEPT ![r].published = @ \cup found, ![r].failed = @ \cup fails]
            /\ task' = [task EXCEPT ![r].todo = @ \ {d},
                                    ![r].found = @ \cup (IF fails = {} THEN found ELSE {})]
      BY DEF RunPack
    <2>2. fails \in SUBSET {"domain_intelligence"}
      BY DEF Failing
    <2>3. found \in SUBSET {Pack} /\ (found # {} => d \in run[r].assessed)
      BY <2>1
    <2> QED  BY <2>1, <2>2, <2>3
  <1>2. run[r] \in RunRows /\ task[r] \in TaskRows
    BY RunOf
  <1>3. PICK known \in SUBSET {Pack} : known = IF fails = {} THEN found ELSE {}
    OBVIOUS
  <1> DEFINE row == [run[r] EXCEPT !.published = run[r].published \cup found,
                                   !.failed = run[r].failed \cup fails]
             t == [task[r] EXCEPT !.todo = task[r].todo \ {d},
                                  !.found = task[r].found \cup known]
  <1>4. task[r].at = "pack" /\ DomainOf[d] = "maintenance"
    BY RunOf DEF RunPack, At, PublishingSound
  <1>5. row \in RunRows /\ t \in TaskRows
    BY <1>2 DEF RunRows, TaskRows, Stages
  <1>6. run' = [run EXCEPT ![r] = row] /\ task' = [task EXCEPT ![r] = t]
    <2>1. run' = [run EXCEPT ![r] = row]
      BY <1>1, <1>2 DEF IInv, Types, RunRows
    <2>2. task' = [task EXCEPT ![r] = t]
      BY <1>1, <1>2, <1>3 DEF IInv, Types, TaskRows
    <2> QED  BY <2>1, <2>2
  <1>7. /\ row.status = run[r].status /\ row.linked = run[r].linked
        /\ row.listed = run[r].listed /\ row.errored = run[r].errored
        /\ row.outcome = run[r].outcome
        /\ row.assessed = run[r].assessed /\ row.decided = run[r].decided
        /\ row.published = run[r].published \cup found /\ row.failed = run[r].failed \cup fails
        /\ t.at = "pack" /\ t.failure = task[r].failure /\ t.ready = task[r].ready
        /\ t.trusted = task[r].trusted /\ t.frames = task[r].frames
        /\ t.todo = task[r].todo \ {d} /\ t.found = task[r].found \cup known
    BY <1>2, <1>4 DEF RunRows, TaskRows
  <1> HIDE DEF row, t
  <1>8. OutcomeSound(row, t)
    BY <1>4, <1>7, RunOf DEF OutcomeSound, Working, Lossy, NoTask, NoRun
  <1>L. LossSound(row, t)
    BY <1>4, <1>7, LossKept DEF Working
  <1>9. PublishingSound(row, t)
    <2>1. ASSUME NEW f \in row.published
          PROVE  IF f = Pack THEN "maintenance" \in Domains(row.assessed)
                             ELSE row.assessed \cap Cites(f) # {}
      <3>1. CASE f \in run[r].published
        BY <1>7, <3>1, RunOf DEF PublishingSound
      <3>2. CASE f \notin run[r].published
        <4>1. f = Pack /\ d \in row.assessed
          BY <1>1, <1>7, <3>2
        <4>2. "maintenance" \in Domains(row.assessed)
          BY <1>4, <4>1 DEF Domains
        <4> QED  BY <4>1, <4>2
      <3> QED  BY <3>1, <3>2
    <2>2. ASSUME NEW f \in RuleSet \cap row.published
          PROVE  f \in row.decided /\ "capability_shadow_evaluation" \notin row.failed
      BY <1>7, RunOf, RulesAssumption DEF PublishingSound
    <2>3. t.ready # {} => "capability_shadow_evaluation" \notin row.failed
      BY <1>7, RunOf DEF PublishingSound
    <2>4. t.ready \subseteq row.decided /\ \A x \in t.todo : DomainOf[x] = "maintenance"
      BY <1>4, <1>7, RunOf DEF PublishingSound
    <2> QED  BY <1>7, <2>1, <2>2, <2>3, <2>4 DEF PublishingSound
  <1>10. LinkingSound(row, t)
    <2>1. LeftOut(row, t.found)
      BY <1>3, <1>4, <1>7, RunOf DEF LinkingSound, LeftOut, Working
    <2>2. row.linked = {} /\ row.status \notin Ended
      BY <1>4, <1>7, RunOf DEF LinkingSound, OutcomeSound
    <2>3. t.trusted \subseteq t.frames /\ t.found \subseteq row.published
      BY <1>3, <1>7, RunOf DEF LinkingSound
    <2> QED  BY <1>7, <2>1, <2>2, <2>3 DEF LinkingSound
  <1>11. /\ UNCHANGED <<caseStatus, request>>
         /\ dataset' \in [Datasets -> DatasetRows] /\ links' \subseteq Runs
    BY DEF RunPack, IInv, Types
  <1> QED  BY <1>4, <1>5, <1>6, <1>8, <1>L, <1>9, <1>10, <1>11, TaskStep DEF RunSound

\* RunRule: the rule was decided READY, and publish had a completed
\* assessment to cite.
LEMMA RuleKeeps ==
    ASSUME IInv, NEW r \in Runs, RunRule(r)
    PROVE  IInv'
  <1>1. task[r].at = "rules" /\ task[r].next <= Len(Rules)
    BY DEF RunRule, At
  <1>2. run[r] \in RunRows /\ task[r] \in TaskRows
    BY RunOf
  <1>3. task[r].next \in DOMAIN Rules /\ task[r].next + 1 \in 1 .. Len(Rules) + 1
    BY <1>1, <1>2, RulesAssumption DEF TaskRows
  <1>4. PICK rule \in RuleSet : rule = Rules[task[r].next]
    BY <1>3 DEF RuleSet
  <1>5. PICK found \in SUBSET {rule} :
          /\ found # {} => MayPublish(r, rule)
          /\ run' = [run EXCEPT ![r].published = @ \cup found]
          /\ task' = [task EXCEPT ![r].next = @ + 1, ![r].found = @ \cup found]
    <2>1. PICK found \in (IF MayPublish(r, rule) THEN SUBSET {rule} ELSE {{}}) :
            /\ run' = [run EXCEPT ![r].published = @ \cup found]
            /\ task' = [task EXCEPT ![r].next = @ + 1, ![r].found = @ \cup found]
      BY <1>4 DEF RunRule
    <2>2. found \in SUBSET {rule} /\ (found # {} => MayPublish(r, rule))
      BY <2>1
    <2> QED  BY <2>1, <2>2
  <1>6. PICK next \in 1 .. Len(Rules) + 1 : next = task[r].next + 1
    BY <1>3
  <1> DEFINE row == [run[r] EXCEPT !.published = run[r].published \cup found]
             t == [task[r] EXCEPT !.next = next, !.found = task[r].found \cup found]
  <1>7. row \in RunRows /\ t \in TaskRows
    BY <1>2 DEF RunRows, TaskRows
  <1>8. run' = [run EXCEPT ![r] = row] /\ task' = [task EXCEPT ![r] = t]
    <2>1. run' = [run EXCEPT ![r] = row]
      BY <1>5 DEF IInv, Types
    <2>2. task' = [task EXCEPT ![r] = t]
      BY <1>2, <1>5, <1>6 DEF IInv, Types, TaskRows
    <2> QED  BY <2>1, <2>2
  <1>9. /\ row.status = run[r].status /\ row.linked = run[r].linked
        /\ row.listed = run[r].listed /\ row.errored = run[r].errored
        /\ row.outcome = run[r].outcome
        /\ row.assessed = run[r].assessed /\ row.decided = run[r].decided
        /\ row.published = run[r].published \cup found /\ row.failed = run[r].failed
        /\ t.at = "rules" /\ t.failure = task[r].failure /\ t.ready = task[r].ready
        /\ t.trusted = task[r].trusted /\ t.frames = task[r].frames
        /\ t.found = task[r].found \cup found
    BY <1>1, <1>2 DEF RunRows, TaskRows
  <1> HIDE DEF row, t
  <1>10. OutcomeSound(row, t)
    BY <1>1, <1>9, RunOf DEF OutcomeSound, Working, Lossy, NoTask, NoRun
  <1>L. LossSound(row, t)
    BY <1>1, <1>9, LossKept DEF Working
  <1>11. PublishingSound(row, t)
    <2>1. ASSUME NEW f \in row.published
          PROVE  IF f = Pack THEN "maintenance" \in Domains(row.assessed)
                             ELSE row.assessed \cap Cites(f) # {}
      <3>1. CASE f \in run[r].published
        BY <1>9, <3>1, RunOf DEF PublishingSound
      <3>2. CASE f \notin run[r].published
        <4>1. f = rule /\ MayPublish(r, rule) /\ rule # Pack
          BY <1>5, <1>9, <3>2, RulesAssumption
        <4> QED  BY <1>9, <4>1 DEF MayPublish
      <3> QED  BY <3>1, <3>2
    <2>2. ASSUME NEW f \in RuleSet \cap row.published
          PROVE  f \in row.decided /\ "capability_shadow_evaluation" \notin row.failed
      BY <1>5, <1>9, RunOf DEF PublishingSound, MayPublish
    <2>3. t.ready # {} => "capability_shadow_evaluation" \notin row.failed
      BY <1>9, RunOf DEF PublishingSound
    <2>4. t.ready \subseteq row.decided
      BY <1>9, RunOf DEF PublishingSound
    <2> QED  BY <1>9, <2>1, <2>2, <2>3, <2>4 DEF PublishingSound
  <1>12. LinkingSound(row, t)
    <2>1. LeftOut(row, t.found)
      BY <1>1, <1>9, RunOf DEF LinkingSound, LeftOut, Working
    <2>2. row.linked = {} /\ row.status \notin Ended
      BY <1>1, <1>9, RunOf DEF LinkingSound, OutcomeSound
    <2>3. t.trusted \subseteq t.frames /\ t.found \subseteq row.published
      BY <1>9, RunOf DEF LinkingSound
    <2> QED  BY <1>9, <2>1, <2>2, <2>3 DEF LinkingSound
  <1>13. /\ UNCHANGED <<caseStatus, request>>
         /\ dataset' \in [Datasets -> DatasetRows] /\ links' \subseteq Runs
    BY DEF RunRule, IInv, Types
  <1> QED  BY <1>1, <1>7, <1>8, <1>10, <1>L, <1>11, <1>12, <1>13, TaskStep DEF RunSound

\* Attach: the case sees what the task knows, all of it at once.
LEMMA AttachKeeps ==
    ASSUME IInv, NEW r \in Runs, Attach(r)
    PROVE  IInv'
  <1>1. task[r].at = "rules"
    BY DEF Attach, At
  <1>2. run[r] \in RunRows /\ task[r] \in TaskRows
    BY RunOf
  <1> DEFINE row == [run[r] EXCEPT !.linked = task[r].found]
             t == [task[r] EXCEPT !.at = "finish"]
  <1>3. row \in RunRows /\ t \in TaskRows
    BY <1>2 DEF RunRows, TaskRows, TaskSteps
  <1>4. run' = [run EXCEPT ![r] = row] /\ task' = [task EXCEPT ![r] = t]
    BY DEF Attach, IInv, Types
  <1>5. /\ row.status = run[r].status /\ row.linked = task[r].found
        /\ row.listed = run[r].listed /\ row.errored = run[r].errored
        /\ row.outcome = run[r].outcome
        /\ row.assessed = run[r].assessed /\ row.decided = run[r].decided
        /\ row.published = run[r].published /\ row.failed = run[r].failed
        /\ t.at = "finish" /\ t.failure = task[r].failure /\ t.ready = task[r].ready
        /\ t.trusted = task[r].trusted /\ t.frames = task[r].frames
        /\ t.found = task[r].found
    BY <1>2 DEF RunRows, TaskRows
  <1> HIDE DEF row, t
  <1>6. OutcomeSound(row, t)
    BY <1>1, <1>5, RunOf DEF OutcomeSound, Working, Lossy, NoTask, NoRun
  <1>L. LossSound(row, t)
    BY <1>1, <1>5, LossKept DEF Working
  <1>7. PublishingSound(row, t)
    BY <1>5, RunOf DEF PublishingSound
  <1>8. LinkingSound(row, t)
    BY <1>1, <1>5, RunOf DEF LinkingSound, LeftOut, Working
  <1>9. /\ UNCHANGED <<caseStatus, request>>
        /\ dataset' \in [Datasets -> DatasetRows] /\ links' \subseteq Runs
    BY DEF Attach, IInv, Types
  <1> QED  BY <1>1, <1>3, <1>4, <1>6, <1>L, <1>7, <1>8, <1>9, TaskStep DEF RunSound

\* Finish: run and case get the one outcome that the task's failures make.
LEMMA FinishKeeps ==
    ASSUME IInv, NEW r \in Runs, Finish(r)
    PROVE  IInv'
  <1>1. PICK status \in Ended :
          /\ run' = [run EXCEPT ![r].status = status, ![r].outcome = status,
                               ![r].fresh = TRUE]
          /\ caseStatus' = status
          /\ status = "partial" <=> task[r].failure
    BY DEF Finish, Ended
  <1>2. task[r].at = "finish" /\ task' = [task EXCEPT ![r] = Gone]
    BY DEF Finish, At
  <1>3. run[r] \in RunRows /\ task[r] \in TaskRows
    BY RunOf
  <1> DEFINE row == [run[r] EXCEPT !.status = status, !.outcome = status, !.fresh = TRUE]
  <1>4. row \in RunRows
    BY <1>3 DEF RunRows
  <1>5. Gone \in TaskRows
    <2>1. 1 \in 1 .. Len(Rules) + 1
      BY RulesAssumption
    <2> QED  BY <2>1 DEF Gone, NoTask, TaskRows, TaskSteps
  <1>6. run' = [run EXCEPT ![r] = row]
    BY <1>1, <1>3 DEF IInv, Types, RunRows
  <1>7. /\ row.status = status /\ row.linked = run[r].linked
        /\ row.listed = run[r].listed /\ row.errored = run[r].errored
        /\ row.outcome = status
        /\ row.assessed = run[r].assessed /\ row.decided = run[r].decided
        /\ row.published = run[r].published /\ row.failed = run[r].failed
    BY <1>3 DEF RunRows
  <1>8. Gone.at = "gone" /\ Gone.ready = {} /\ Gone.found = {} /\ Gone.frames = {} /\ Gone.trusted = {}
    BY DEF Gone, NoTask
  <1> HIDE DEF row
  <1>9. OutcomeSound(row, Gone)
    BY <1>1, <1>2, <1>7, <1>8, RunOf DEF OutcomeSound, Working, Lossy, Ended
  <1>L. LossSound(row, Gone)
    <2>1. Accounted(run[r], {})
      BY <1>2, RunOf DEF LossSound, Working
    <2>2. Accounted(row, {})
      BY <1>7, <2>1, StillAccounted
    <2> QED  BY <1>7, <1>8, <2>2 DEF LossSound, Working
  <1>10. PublishingSound(row, Gone)
    BY <1>7, <1>8, RunOf DEF PublishingSound
  <1>11. LinkingSound(row, Gone)
    BY <1>2, <1>7, <1>8, RunOf DEF LinkingSound, LeftOut, Working
  <1>12. CaseShowsARun'
    <2>1. run'[r].outcome = caseStatus' /\ run'[r].status = caseStatus'
      BY <1>1, <1>2, <1>6, <1>7, <1>8 DEF IInv, Types
    <2> QED  BY <2>1 DEF CaseShowsARun
  <1>13. /\ caseStatus' \in CaseStatuses /\ request' \in [Users -> Requests]
         /\ dataset' \in [Datasets -> DatasetRows] /\ links' \subseteq Runs
    BY <1>1 DEF Finish, IInv, Types, CaseStatuses
  <1> QED  BY <1>2, <1>4, <1>5, <1>6, <1>9, <1>L, <1>10, <1>11, <1>12, <1>13, RunStep DEF RunSound

\* Every stage of a task, and its loss.
LEMMA StepKeeps ==
    ASSUME IInv, NEW r \in Runs, Step(r) \/ Lost(r)
    PROVE  IInv'
  BY BeginKeeps, ReloadKeeps, TrustKeeps, PackKeeps, InterpretKeeps, LinkStepsKeep,
     EvaluateKeeps, RuleKeeps, AttachKeeps, FinishKeeps DEF Step

-----------------------------------------------------------------------------
(* Requests of users, and time.                                            *)

\* A step that changes the status of a run at most, to one with no outcome.
LEMMA StatusStep ==
    ASSUME IInv, NEW r \in Runs, NEW row \in RunRows,
           \/ row.status = "interrupted"
           \/ row.status = run[r].status /\ run[r].status = "running",
           row = [run[r] EXCEPT !.status = row.status, !.fresh = row.fresh],
           run' = [run EXCEPT ![r] = row],
           UNCHANGED <<caseStatus, dataset, links, task>>,
           request' \in [Users -> Requests]
    PROVE  IInv'
  <1>1. run[r] \in RunRows /\ task[r] \in TaskRows
    BY RunOf
  <1>2. /\ row.linked = run[r].linked
        /\ row.listed = run[r].listed /\ row.errored = run[r].errored
        /\ row.outcome = run[r].outcome
        /\ row.assessed = run[r].assessed /\ row.decided = run[r].decided
        /\ row.published = run[r].published /\ row.failed = run[r].failed
    BY <1>1 DEF RunRows
  <1>3. row.status \notin Ended /\ row.status # "none"
    BY DEF Ended
  <1>4. OutcomeSound(row, task[r])
    BY <1>2, <1>3, RunOf DEF OutcomeSound, Lossy
  <1>L. LossSound(row, task[r])
    BY <1>2, <1>3, RunOf DEF LossSound, Accounted, Lossy
  <1>5. PublishingSound(row, task[r])
    BY <1>2, RunOf DEF PublishingSound
  <1>6. LinkingSound(row, task[r])
    BY <1>2, <1>3, RunOf DEF LinkingSound, LeftOut
  <1>7. CaseShowsARun'
    <2> SUFFICES ASSUME caseStatus \in Ended
                 PROVE  \E q \in Runs : /\ run'[q].outcome = caseStatus
                                        /\ run'[q].status \in {caseStatus, "interrupted"}
      BY DEF CaseShowsARun
    <2>1. PICK q \in Runs : /\ run[q].outcome = caseStatus
                            /\ run[q].status \in {caseStatus, "interrupted"}
      BY DEF IInv, CaseShowsARun
    <2>2. CASE q = r
      <3>1. run'[q] = row
        BY <2>2 DEF IInv, Types
      <3>2. run[r].status # "running"
        BY <2>1, <2>2 DEF Ended
      <3> QED  BY <1>2, <2>1, <2>2, <3>1, <3>2
    <2>3. CASE q # r
      <3>1. run'[q] = run[q]
        BY <2>3 DEF IInv, Types
      <3> QED  BY <2>1, <3>1
    <2> QED  BY <2>2, <2>3
  <1>8. /\ task' = [task EXCEPT ![r] = task[r]] /\ caseStatus' \in CaseStatuses
        /\ dataset' \in [Datasets -> DatasetRows] /\ links' \subseteq Runs
    BY DEF IInv, Types
  <1> QED  BY <1>1, <1>4, <1>L, <1>5, <1>6, <1>7, <1>8, RunStep DEF RunSound

\* A step that leaves case, runs and tasks alone.
LEMMA QuietStep ==
    ASSUME IInv, UNCHANGED <<caseStatus, run, links, task>>,
           dataset' \in [Datasets -> DatasetRows], request' \in [Users -> Requests]
    PROVE  IInv'
  <1>1. Types'
    BY DEF IInv, Types
  <1>2. ASSUME NEW r \in Runs PROVE RunSound(run[r], task[r])'
    BY DEF IInv, RunSound, OutcomeSound, LossSound, PublishingSound, LinkingSound, LeftOut,
           Lossy, Accounted, Working, Domains, Cites
  <1>3. CaseShowsARun'
    BY DEF IInv, CaseShowsARun
  <1> QED  BY <1>1, <1>2, <1>3 DEF IInv

\* start_run's insert: the number was free, so no task works for it, and no
\* outcome of the case is taken from that run.
LEMMA StartKeeps ==
    ASSUME IInv, NEW u \in Users, StartCommit(u)
    PROVE  IInv'
  <1>1. PICK r \in Runs : r = request[u].run
    BY DEF StartCommit, IInv, Types, Requests
  <1>2. request' \in [Users -> Requests] /\ dataset' \in [Datasets -> DatasetRows] /\ UNCHANGED links
    BY DEF StartCommit, IInv, Types, Requests, Idle
  <1>3. CASE run[r].status # "none"
    BY <1>1, <1>2, <1>3, QuietStep DEF StartCommit
  <1>4. CASE run[r].status = "none"
    <2>1. run[r] = NoRun /\ task[r] = NoTask /\ run[r] \in RunRows /\ task[r] \in TaskRows
      BY <1>4, RunOf DEF OutcomeSound
    <2> DEFINE row == [run[r] EXCEPT !.status = "created"]
               t == [task[r] EXCEPT !.at = "queued"]
    <2>2. row \in RunRows /\ t \in TaskRows
      BY <2>1 DEF RunRows, TaskRows, TaskSteps
    <2>3. run' = [run EXCEPT ![r] = row] /\ task' = [task EXCEPT ![r] = t]
      BY <1>1, <1>4 DEF StartCommit, IInv, Types
    <2>4. /\ row.outcome = "none"
          /\ row.status = "created" /\ row.linked = {} /\ row.published = {} /\ row.failed = {}
          /\ t.at = "queued" /\ t.failure = FALSE /\ t.ready = {} /\ t.found = {}
          /\ t.trusted = {} /\ t.frames = {}
      BY <2>1 DEF NoRun, NoTask
    <2> HIDE DEF row, t
    <2>5. OutcomeSound(row, t)
      BY <2>4 DEF OutcomeSound, Lossy, Ended
    <2>L. LossSound(row, t)
      BY <2>4 DEF LossSound, Ended
    <2>6. PublishingSound(row, t)
      BY <2>4 DEF PublishingSound
    <2>7. LinkingSound(row, t)
      BY <2>4 DEF LinkingSound, LeftOut, Ended
    <2>8. caseStatus' \in {caseStatus, "running"} /\ caseStatus' \in CaseStatuses
      BY <1>1, <1>4 DEF StartCommit, IInv, Types, CaseStatuses
    <2>9. CaseShowsARun'
      <3> SUFFICES ASSUME caseStatus' \in Ended
                   PROVE  \E q \in Runs : /\ run'[q].outcome = caseStatus'
                                          /\ run'[q].status \in {caseStatus', "interrupted"}
        BY DEF CaseShowsARun
      <3>1. caseStatus' = caseStatus
        BY <2>8 DEF Ended
      <3>2. PICK q \in Runs : /\ run[q].outcome = caseStatus
                              /\ run[q].status \in {caseStatus, "interrupted"}
        BY <3>1 DEF IInv, CaseShowsARun
      <3>3. q # r
        BY <2>1, <3>1, <3>2 DEF NoRun, Ended
      <3>4. run'[q] = run[q]
        BY <2>3, <3>3 DEF IInv, Types
      <3> QED  BY <3>1, <3>2, <3>4
    <2>10. links' \subseteq Runs
      BY <1>2 DEF IInv, Types
    <2> QED  BY <1>2, <2>2, <2>3, <2>5, <2>L, <2>6, <2>7, <2>8, <2>9, <2>10, RunStep DEF RunSound
  <1> QED  BY <1>3, <1>4

\* The requests of users and the passing of time.
LEMMA RequestsKeep ==
    ASSUME IInv,
           \/ \E d \in Datasets, detection \in {"confirmed", "needs_review"} :
                Register(d, detection)
           \/ \E u \in Users : StartRead(u) \/ StartCommit(u) \/ PollCommit(u)
           \/ \E u \in Users, r \in Runs : PollRead(u, r)
           \/ \E r \in Runs : Expire(r)
    PROVE  IInv'
  <1>0. /\ run \in [Runs -> RunRows] /\ request \in [Users -> Requests]
        /\ dataset \in [Datasets -> DatasetRows] /\ caseStatus \in CaseStatuses
    BY DEF IInv, Types
  <1>1. ASSUME NEW d \in Datasets, NEW detection \in {"confirmed", "needs_review"},
               Register(d, detection)
        PROVE  IInv'
    <2>1. dataset' \in [Datasets -> DatasetRows]
      BY <1>0, <1>1 DEF Register, DatasetRows
    <2> QED  BY <1>0, <1>1, <2>1, QuietStep DEF Register
  <1>2. ASSUME NEW u \in Users, StartRead(u)
        PROVE  IInv'
    <2>1. PICK last \in 0 .. MaxRuns - 1 :
            request' = [request EXCEPT ![u] = [op |-> "start", run |-> last + 1,
                                               status |-> caseStatus]]
      BY <1>2 DEF StartRead
    <2>2. last + 1 \in Runs
      BY RulesAssumption DEF Runs
    <2>3. [op |-> "start", run |-> last + 1, status |-> caseStatus] \in Requests
      BY <1>0, <2>2 DEF Requests
    <2>4. request' \in [Users -> Requests]
      BY <1>0, <2>1, <2>3
    <2> QED  BY <1>0, <1>2, <2>4, QuietStep DEF StartRead
  <1>3. ASSUME NEW u \in Users, NEW r \in Runs, PollRead(u, r)
        PROVE  IInv'
    <2>1. request' \in [Users -> Requests]
      BY <1>0, <1>3 DEF PollRead, Requests
    <2> QED  BY <1>0, <1>3, <2>1, QuietStep DEF PollRead
  <1>4. ASSUME NEW u \in Users, PollCommit(u)
        PROVE  IInv'
    <2>1. PICK r \in Runs : r = request[u].run
      BY <1>0, <1>4 DEF PollCommit, Requests
    <2> DEFINE row == [run[r] EXCEPT !.status = "interrupted"]
    <2>2. row \in RunRows /\ row.status = "interrupted" /\ row.fresh = run[r].fresh
      BY <1>0 DEF RunRows
    <2>3. row = [run[r] EXCEPT !.status = row.status, !.fresh = row.fresh]
      BY <1>0, <2>2 DEF RunRows
    <2>4. run' = [run EXCEPT ![r] = row]
      BY <1>0, <1>4, <2>1 DEF PollCommit
    <2>5. request' \in [Users -> Requests]
      BY <1>0, <1>4 DEF PollCommit, Requests, Idle
    <2> HIDE DEF row
    <2> QED  BY <1>4, <2>2, <2>3, <2>4, <2>5, StatusStep DEF PollCommit
  <1>5. ASSUME NEW r \in Runs, Expire(r)
        PROVE  IInv'
    <2> DEFINE row == [run[r] EXCEPT !.fresh = FALSE]
    <2>1. row \in RunRows /\ row.status = run[r].status /\ row.fresh = FALSE
      BY <1>0 DEF RunRows
    <2>2. row = [run[r] EXCEPT !.status = row.status, !.fresh = row.fresh]
      BY <1>0, <2>1 DEF RunRows
    <2>3. run' = [run EXCEPT ![r] = row] /\ run[r].status = "running"
      BY <1>0, <1>5 DEF Expire
    <2> HIDE DEF row
    <2>4. /\ UNCHANGED <<caseStatus, dataset, links, task>>
          /\ request' \in [Users -> Requests]
      BY <1>0, <1>5 DEF Expire
    <2> QED  BY <2>1, <2>2, <2>3, <2>4, StatusStep
  <1> QED  BY <1>1, <1>2, <1>3, <1>4, <1>5, StartKeeps

-----------------------------------------------------------------------------
(* The invariant of the specification.                                     *)

\* The invariant holds of a case that has no runs.
LEMMA InitIInv == Init => IInv
  <1> SUFFICES ASSUME Init PROVE IInv
    OBVIOUS
  <1>1. NoRun \in RunRows
    BY DEF NoRun, RunRows
  <1>2. NoTask \in TaskRows
    <2>1. 1 \in 1 .. Len(Rules) + 1
      BY RulesAssumption
    <2> QED  BY <2>1 DEF NoTask, TaskRows, TaskSteps
  <1>3. Types
    BY <1>1, <1>2 DEF Init, Types, CaseStatuses, DatasetRows, Requests, Idle
  <1>4. RunSound(NoRun, NoTask)
    BY DEF RunSound, OutcomeSound, LossSound, PublishingSound, LinkingSound, Working, Lossy, LeftOut,
           NoRun, NoTask, Ended
  <1>5. CaseShowsARun
    BY DEF Init, CaseShowsARun, Ended
  <1> QED  BY <1>3, <1>4, <1>5 DEF Init, IInv

\* Every step keeps the invariant.
LEMMA NextIInv ==
    ASSUME IInv, [Next]_vars
    PROVE  IInv'
  <1>1. CASE UNCHANGED vars
    <2>1. UNCHANGED <<caseStatus, run, links, task>>
      BY <1>1 DEF vars
    <2>2. dataset' \in [Datasets -> DatasetRows] /\ request' \in [Users -> Requests]
      BY <1>1 DEF vars, IInv, Types
    <2> QED  BY <2>1, <2>2, QuietStep
  <1>2. CASE Next
    BY <1>2, RequestsKeep, StepKeeps DEF Next
  <1> QED  BY <1>1, <1>2

-----------------------------------------------------------------------------
(* The theorems.                                                           *)

\* What a run publishes (execute's governed rules), it decided, and it did
\* not publish under an evaluation that failed half-way; with the types.
THEOREM RunsPublishWhatTheyDecided == Spec => []PublicationIsSound
  <1>1. IInv => PublicationIsSound
    <2> SUFFICES ASSUME IInv PROVE PublicationIsSound
      OBVIOUS
    <2>1. TypeOK
      <3>1. \A r \in Runs : /\ task[r] \in TaskRows
                            /\ task[r].trusted \subseteq task[r].frames
                            /\ task[r].found \subseteq run[r].published
        BY RunOf DEF LinkingSound
      <3>2. \A r \in Runs : /\ task[r].at \in TaskSteps
                            /\ task[r].todo \subseteq Datasets
                            /\ task[r].seen \subseteq Runs
                            /\ task[r].next \in 1 .. Len(Rules) + 1
        BY <3>1 DEF TaskRows
      <3> QED  BY <3>1, <3>2 DEF IInv, Types, TypeOK, CaseStatuses, DatasetRows, RunRows
    <2>2. GovernedOnlyWhenReady
      BY RunOf DEF GovernedOnlyWhenReady, PublishingSound
    <2> QED  BY <2>1, <2>2 DEF PublicationIsSound
  <1> QED  BY <1>1, InitIInv, NextIInv, PTL DEF Spec

\* The status execute ends a run with tells whether a reload failed or an
\* assessment raised, and only a partial run may have left a dataset without an
\* assessment: for any datasets and faults, and whoever polls it meanwhile.
THEOREM EndedRunsTellLoss == Spec => []StatusTellsLoss
  <1>1. IInv => StatusTellsLoss
    <2> SUFFICES ASSUME IInv, NEW r \in Runs, run[r].status \in Ended
                 PROVE  /\ run[r].status = "partial" <=> Lossy(run[r])
                        /\ Unassessed(r) # {} => run[r].status = "partial"
      BY DEF StatusTellsLoss, Lossy
    <2>1. run[r].status = "partial" <=> Lossy(run[r])
      BY RunOf DEF OutcomeSound
    <2>2. Accounted(run[r], {})
      BY RunOf DEF LossSound
    <2>3. Unassessed(r) # {} => Lossy(run[r])
      BY <2>2 DEF Unassessed, Accounted
    <2> QED  BY <2>1, <2>3
  <1> QED  BY <1>1, InitIInv, NextIInv, PTL DEF Spec

\* A published finding has an assessment that completed in the same run, of
\* a dataset that its rule may cite (publish).
THEOREM FindingsHaveTrust == Spec => []PublishedOnTrust
  <1>1. IInv => PublishedOnTrust
    BY RunOf DEF PublishedOnTrust, PublishingSound
  <1> QED  BY <1>1, InitIInv, NextIInv, PTL DEF Spec

\* A case sees all findings of a run or none, but for a maintenance pack that
\* failed half-way (run_maintenance_pack).
THEOREM FindingsAreLinkedAtOnce == Spec => []FindingsArriveTogether
  <1>1. IInv => FindingsArriveTogether
    BY RunOf DEF FindingsArriveTogether, LinkingSound, LeftOut
  <1> QED  BY <1>1, InitIInv, NextIInv, PTL DEF Spec

\* The outcome a case shows is one execute gave a run that still has it or was
\* interrupted afterwards, for any number of overlapping runs, users and lost
\* tasks.
THEOREM CaseOutcomeIsARuns == Spec => []CaseShowsARun
  <1>1. IInv => CaseShowsARun
    BY DEF IInv
  <1> QED  BY <1>1, InitIInv, NextIInv, PTL DEF Spec
=============================================================================
