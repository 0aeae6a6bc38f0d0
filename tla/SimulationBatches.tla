-------------------------- MODULE SimulationBatches --------------------------
(***************************************************************************)
(* Simulation batches: the requests of simulation_controller_routes.py on  *)
(* SimulationBatchController (app/validation_program/batch_controller.py), *)
(* WaveCoordinator (wave_coordinator.py) and                               *)
(* AutonomousEngineeringHandoffService.prepare                             *)
(* (autonomous_engineering_handoff.py).                                    *)
(*                                                                         *)
(* The routes stage one simulation per batch.  A request commits several   *)
(* times, each commit is an action, and a request that is lost or raises   *)
(* leaves what it committed.  Nothing locks, and no unique key keeps a     *)
(* simulation in one batch.                                                *)
(***************************************************************************)
EXTENDS Naturals, FiniteSets

CONSTANTS
    Simulations,    \* sealed simulation packages
    Batches,        \* ids of batches, each with its one item
    Requests,       \* requests that may be in progress at a time
    Families,       \* truth families a simulation's misses may be in
    MaxCases,       \* bound on the analysis cases created
    MaxRuns         \* bound on the runs of those cases

ASSUME CasesAssumption == MaxCases \in Nat /\ MaxRuns \in Nat

Cases == 1 .. MaxCases
NoCase == 0
Runs == 1 .. MaxRuns
NoRun == 0
Scored == {"scored", "miss_classification", "gap_clustering"}

VARIABLES
    batch,      \* simulation_batches, each with its simulation_batch_items row
    truth,      \* validation_simulations: the case, and whether truth is uploaded
    ran,        \* analysis_case_runs that ended: the case of each
    validated,  \* simulation_validation_runs: <<simulation, run>>
    job,        \* MISS_CLASSIFICATION jobs of a batch, by family and request
    request,    \* requests in progress
    broken      \* batches of which a request was lost or raised half-way

vars == <<batch, truth, ran, validated, job, request, broken>>

Idle == [op |-> "idle"]
Absent == [status |-> "absent", staged |-> FALSE, sim |-> "none", state |-> "none",
           case |-> NoCase, run |-> NoRun, frozen |-> FALSE]

\* Rows hold what their columns can; a case is one that was created.
TypeOK ==
    /\ \A b \in Batches :
         /\ batch[b].status \in {"absent", "active", "paused_safety_gate",
                                 "owner_review_required"}
         /\ batch[b].sim \in Simulations \cup {"none"}
         /\ batch[b].state \in Scored \cup {"none", "selected", "importing",
                                            "production_running", "blocked"}
         /\ batch[b].case \in Cases \cup {NoCase}
         /\ batch[b].run \in Runs \cup {NoRun}
    /\ truth \in [Simulations -> [case : Cases \cup {NoCase}, uploaded : BOOLEAN]]
    /\ ran \in [Runs -> Cases \cup {NoCase}]
    /\ validated \subseteq Simulations \X Runs
    /\ job \in [Batches \X Families \X Requests -> {"none", "open", "done"}]
    /\ broken \subseteq Batches

Init ==
    /\ batch = [b \in Batches |-> Absent]
    /\ truth = [s \in Simulations |-> [case |-> NoCase, uploaded |-> FALSE]]
    /\ ran = [r \in Runs |-> NoCase]
    /\ validated = {}
    /\ job = [j \in Batches \X Families \X Requests |-> "none"]
    /\ request = [h \in Requests |-> Idle]
    /\ broken = {}

Hold(h, r) == request' = [request EXCEPT ![h] = r]
Done(h) == Hold(h, Idle)
At(h, op) == request[h].op = op
On(h, b) == request[h].op \notin {"idle", "stage"} /\ request[h].batch = b

-----------------------------------------------------------------------------
(* stage_one_simulation.                                                   *)

\* select_batch: no batch is on a gate, and no item tracks the simulation.
StageRead(h, s) ==
    /\ At(h, "idle")
    /\ \A b \in Batches : /\ batch[b].status \in {"absent", "active"}
                          /\ batch[b].sim # s
    /\ Hold(h, [op |-> "stage", sim |-> s])
    /\ UNCHANGED <<batch, truth, ran, validated, job, broken>>

StageCommit(h, b) ==
    /\ At(h, "stage")
    /\ batch[b].status = "absent"
    /\ batch' = [batch EXCEPT ![b] = [Absent EXCEPT !.status = "active",
                                                    !.sim = request[h].sim,
                                                    !.state = "selected"]]
    /\ Hold(h, [op |-> "finalize", batch |-> b])
    /\ UNCHANGED <<truth, ran, validated, job, broken>>

\* finalize_for_batch moves the package to the batch, or pauses the batch.
StageFinalize(h) ==
    /\ At(h, "finalize")
    /\ LET b == request[h].batch
       IN  \/ batch' = [batch EXCEPT ![b].staged = TRUE]
           \/ batch' = [batch EXCEPT ![b].status = "paused_safety_gate"]
    /\ Done(h)
    /\ UNCHANGED <<truth, ran, validated, job, broken>>

-----------------------------------------------------------------------------
(* prepare_batch.                                                          *)

PrepareRead(h, b) ==
    /\ At(h, "idle")
    /\ batch[b].staged
    /\ batch[b].state = "selected"
    /\ Hold(h, [op |-> "import", batch |-> b])
    /\ UNCHANGED <<batch, truth, ran, validated, job, broken>>

\* A package that is gone blocks the item; else creating the case commits
\* the importing state, before the item knows the case.
PrepareImport(h) ==
    /\ At(h, "import")
    /\ LET b == request[h].batch
       IN  \/ /\ batch' = [batch EXCEPT ![b].state = "blocked"]
              /\ Done(h)
           \/ /\ batch' = [batch EXCEPT ![b].state = "importing"]
              /\ Hold(h, [op |-> "link", batch |-> b])
    /\ UNCHANGED <<truth, ran, validated, job, broken>>

\* The cases that are some batch's, some request's or some simulation's.
Taken == {batch[b].case : b \in Batches} \cup {truth[s].case : s \in Simulations}
           \cup {ran[r] : r \in Runs}
           \cup {request[h].case : h \in {h \in Requests :
                   request[h].op \in {"register", "upload", "verdict", "execute", "validate"}}}

\* register_artifacts commits the item with its case, the next new one.
PrepareLink(h, c) ==
    /\ At(h, "link")
    /\ c \notin Taken
    /\ 1 .. (c - 1) \subseteq Taken
    /\ batch' = [batch EXCEPT ![request[h].batch].case = c]
    /\ Hold(h, [op |-> "register", batch |-> request[h].batch, case |-> c])
    /\ UNCHANGED <<truth, ran, validated, job, broken>>

\* register_corpus: the first case that asks for it is the simulation's; an
\* equal package later counts as registered, a different one, or one that is
\* not ready, does not.
PrepareRegister(h) ==
    /\ At(h, "register")
    /\ LET s == batch[request[h].batch].sim
       IN  \/ /\ ~truth[s].uploaded
              /\ truth' = [truth EXCEPT ![s].case = IF @ = NoCase THEN request[h].case ELSE @]
              /\ Hold(h, [request[h] EXCEPT !.op = "upload"])
           \/ /\ truth[s].uploaded
              /\ Done(h)
              /\ UNCHANGED truth
           \/ /\ Hold(h, [request[h] EXCEPT !.op = "verdict"])
              /\ UNCHANGED truth
    /\ UNCHANGED <<batch, ran, validated, job, broken>>

\* upload_ground_truth, in a transaction of its own.
PrepareUpload(h) ==
    /\ At(h, "upload")
    /\ truth' = [truth EXCEPT ![batch[request[h].batch].sim].uploaded = TRUE]
    /\ Done(h)
    /\ UNCHANGED <<batch, ran, validated, job, broken>>

PrepareBlock(h) ==
    /\ At(h, "verdict")
    /\ batch' = [batch EXCEPT ![request[h].batch].state = "blocked"]
    /\ Done(h)
    /\ UNCHANGED <<truth, ran, validated, job, broken>>

-----------------------------------------------------------------------------
(* run_batch and run_wave.                                                 *)

RunRead(h, b) ==
    /\ At(h, "idle")
    /\ batch[b].state = "importing"
    /\ batch[b].case # NoCase
    /\ Hold(h, [op |-> "start", batch |-> b])
    /\ UNCHANGED <<batch, truth, ran, validated, job, broken>>

RunStart(h) ==
    /\ At(h, "start")
    /\ batch' = [batch EXCEPT ![request[h].batch].state = "production_running"]
    /\ Hold(h, [request[h] EXCEPT !.op = "load"])
    /\ UNCHANGED <<truth, ran, validated, job, broken>>

\* The commit expired the item: it is loaded again, as it is by now.
RunLoad(h) ==
    /\ At(h, "load")
    /\ LET b == request[h].batch
       IN  Hold(h, [op |-> "execute", batch |-> b, case |-> batch[b].case,
                    state |-> batch[b].state, run |-> batch[b].run])
    /\ UNCHANGED <<batch, truth, ran, validated, job, broken>>

\* The columns of the item the session flushes: those that differ from what
\* it loaded, or both when a commit has expired what it loaded.
Both == {"state", "run"}
Changed(h, state, run) ==
    (IF request[h].state # state THEN {"state"} ELSE {})
      \cup (IF request[h].run # run THEN {"run"} ELSE {})

Wave(h, state, run, columns, pending) ==
    Hold(h, [op |-> "score", batch |-> request[h].batch, state |-> state,
             run |-> run, columns |-> columns, pending |-> pending])

\* _run_member up to the run: not registered, already scored, executed to a
\* terminal status, or failed before its first commit or after it.
RunExecute(h) ==
    /\ At(h, "execute")
    /\ LET s == batch[request[h].batch].sim
           existing == {r \in Runs : <<s, r>> \in validated}
       IN  \/ /\ existing = {}
              /\ Wave(h, "blocked", NoRun, Changed(h, "blocked", NoRun), FALSE)
              /\ UNCHANGED ran
           \/ /\ \E r \in existing : Wave(h, "scored", r, Changed(h, "scored", r), FALSE)
              /\ UNCHANGED ran
           \/ /\ truth[s].case # NoCase /\ existing = {}
              /\ Wave(h, "blocked", NoRun, Both, FALSE)
              /\ UNCHANGED ran
           \/ /\ truth[s].case # NoCase /\ existing = {}
              /\ \E r \in Runs :
                   /\ ran[r] = NoCase
                   /\ \A earlier \in 1 .. (r - 1) : ran[earlier] # NoCase
                   /\ ran' = [ran EXCEPT ![r] = request[h].case]
                   /\ Hold(h, [op |-> "validate", batch |-> request[h].batch,
                               case |-> request[h].case, run |-> r])
    /\ UNCHANGED <<batch, truth, validated, job, broken>>

RunValidate_AnyCase(h) ==
    /\ At(h, "validate")
    /\ validated' = validated \cup {<<batch[request[h].batch].sim, request[h].run>>}
    /\ Wave(h, "scored", request[h].run, Both, FALSE)
    /\ UNCHANGED <<batch, truth, ran, job, broken>>

\* The checks of validate_run: truth, and a run of the simulation's case.
Comparable(h) ==
    LET registered == truth[batch[request[h].batch].sim]
    IN  registered.uploaded /\ registered.case = request[h].case

\* validate_run.  When it raises after its row was flushed, the row is still
\* pending in the session.
RunValidate(h) ==
    /\ At(h, "validate")
    /\ \/ /\ Comparable(h)
          /\ validated' = validated \cup {<<batch[request[h].batch].sim, request[h].run>>}
          /\ Wave(h, "scored", request[h].run, Both, FALSE)
       \/ /\ \E pending \in {FALSE, Comparable(h)} :
               Wave(h, "blocked", request[h].run, Both, pending)
          /\ UNCHANGED validated
    /\ UNCHANGED <<batch, truth, ran, job, broken>>

Outcome_FailureStays(row, q) ==
    [row EXCEPT !.state = IF q.state = "scored" THEN q.state ELSE @,
                !.run = IF "run" \in q.columns THEN q.run ELSE @,
                !.frozen = @ \/ q.state = "scored"]

\* The row of an item with the outcome of the wave, as far as it is flushed.
Outcome(row, q) ==
    [row EXCEPT !.state = IF "state" \in q.columns THEN q.state ELSE @,
                !.run = IF "run" \in q.columns THEN q.run ELSE @,
                !.frozen = @ \/ q.state = "scored"]

\* The last commit of run_batch: frozen and scored at once, or blocked, with
\* the run of the wave either way; and whatever validate_run left pending.
RunFinish(h) ==
    /\ At(h, "score")
    /\ LET q == request[h]
       IN  /\ batch' = [batch EXCEPT ![q.batch] = Outcome(@, q)]
           /\ validated' = IF q.pending THEN validated \cup {<<batch[q.batch].sim, q.run>>}
                                        ELSE validated
    /\ Done(h)
    /\ UNCHANGED <<truth, ran, job, broken>>

-----------------------------------------------------------------------------
(* create_miss_classification_jobs and the engineering handoff.            *)

\* The families of the misses of a scored item; without one nothing is done.
ClassifyRead(h, b) ==
    /\ At(h, "idle")
    /\ batch[b].state = "scored"
    /\ \E families \in SUBSET Families \ {{}} :
         Hold(h, [op |-> "classify", batch |-> b, todo |-> families])
    /\ UNCHANGED <<batch, truth, ran, validated, job, broken>>

\* create_job looks the family's key up; no unique key stands behind it.
ClassifyLookup(h, f) ==
    /\ At(h, "classify")
    /\ f \in request[h].todo
    /\ Hold(h, [op |-> "create", batch |-> request[h].batch, todo |-> request[h].todo,
                family |-> f, found |-> \E g \in Requests :
                                          job[<<request[h].batch, f, g>>] # "none"])
    /\ UNCHANGED <<batch, truth, ran, validated, job, broken>>

\* It commits a new job with the item's new state, or returns the one found.
ClassifyJob(h) ==
    /\ At(h, "create")
    /\ LET b == request[h].batch
           f == request[h].family
       IN  /\ batch' = [batch EXCEPT ![b].state = "miss_classification"]
           /\ job' = IF request[h].found THEN job
                                         ELSE [job EXCEPT ![<<b, f, h>>] = "open"]
           /\ IF request[h].todo = {f} THEN Done(h)
              ELSE Hold(h, [op |-> "classify", batch |-> b, todo |-> request[h].todo \ {f}])
    /\ UNCHANGED <<truth, ran, validated, broken>>

\* The job ends as succeeded or escalated, with its result.
JobDone(j) ==
    /\ job[j] = "open"
    /\ job' = [job EXCEPT ![j] = "done"]
    /\ UNCHANGED <<batch, truth, ran, validated, request, broken>>

\* The jobs of the batch's simulation, whichever batch asked for them.
JobsOf(b) == {j \in DOMAIN job : job[j] # "none" /\ batch[j[1]].sim = batch[b].sim}

HandoffRead_AnyJobs(h, b) ==
    /\ At(h, "idle")
    /\ batch[b].status # "absent"
    /\ \A j \in JobsOf(b) : job[j] = "done"
    /\ Hold(h, [op |-> "handoff", batch |-> b, state |-> batch[b].state])
    /\ UNCHANGED <<batch, truth, ran, validated, job, broken>>

\* prepare of the handoff: some job, and all that are there have ended.
HandoffRead(h, b) ==
    /\ At(h, "idle")
    /\ batch[b].status # "absent"
    /\ JobsOf(b) # {}
    /\ \A j \in JobsOf(b) : job[j] = "done"
    /\ Hold(h, [op |-> "handoff", batch |-> b, state |-> batch[b].state])
    /\ UNCHANGED <<batch, truth, ran, validated, job, broken>>

HandoffCommit(h) ==
    /\ At(h, "handoff")
    /\ LET row == batch[request[h].batch]
       IN  batch' = [batch EXCEPT ![request[h].batch] =
             [row EXCEPT !.status = "owner_review_required",
                         !.state = IF request[h].state = "miss_classification"
                                   THEN "gap_clustering" ELSE row.state]]
    /\ Done(h)
    /\ UNCHANGED <<truth, ran, validated, job, broken>>

-----------------------------------------------------------------------------

\* The process dies under a request, or an exception leaves it; what it has
\* committed stays.
Lost(h) ==
    /\ ~At(h, "idle")
    /\ broken' = broken \cup {b \in Batches : On(h, b)}
    /\ Done(h)
    /\ UNCHANGED <<batch, truth, ran, validated, job>>

Next ==
    \/ \E h \in Requests :
         \/ \E s \in Simulations : StageRead(h, s)
         \/ \E b \in Batches : \/ StageCommit(h, b) \/ PrepareRead(h, b) \/ RunRead(h, b)
                               \/ ClassifyRead(h, b) \/ HandoffRead(h, b)
         \/ StageFinalize(h)
         \/ PrepareImport(h)
         \/ \E c \in Cases : PrepareLink(h, c)
         \/ PrepareRegister(h)
         \/ PrepareUpload(h)
         \/ PrepareBlock(h)
         \/ RunStart(h)
         \/ RunLoad(h)
         \/ RunExecute(h)
         \/ RunValidate(h)
         \/ RunFinish(h)
         \/ \E f \in Families : ClassifyLookup(h, f)
         \/ ClassifyJob(h)
         \/ HandoffCommit(h)
         \/ Lost(h)
    \/ \E j \in DOMAIN job : JobDone(j)

Spec == Init /\ [][Next]_vars

-----------------------------------------------------------------------------
(* Properties.                                                             *)

\* Truth isolation: the misses of an item, which are hidden truth, are sent
\* out only after the item was frozen, and it is frozen only once a run of its
\* simulation was validated; also when requests on a batch overlap, and one
\* that fails late overwrites the state and run of an item frozen before.
TruthAfterFreeze ==
    \A b \in Batches :
      \/ batch[b].frozen
      \/ batch[b].state \in Scored
      \/ \E j \in DOMAIN job : j[1] = b /\ job[j] # "none"
      => batch[b].frozen /\ \E r \in Runs : <<batch[b].sim, r>> \in validated

\* A run is compared with the truth of its own simulation only: it is of the
\* case that truth is registered for, though two batches may track one
\* simulation and two requests may give one item different cases.
ComparedWithOwnTruth ==
    \A s \in Simulations, r \in Runs : <<s, r>> \in validated =>
      ran[r] # NoCase /\ ran[r] = truth[s].case

\* An owner is asked for a review only of a batch whose simulation has a
\* classification that ended.
ReviewHasEvidence ==
    \A b \in Batches : batch[b].status = "owner_review_required" =>
      \E j \in JobsOf(b) : job[j] = "done"

\* An item that no request can take up again, half imported or running with
\* nobody running it, was left so by a request that was lost or raised.
StrandedOnlyByLoss ==
    \A b \in Batches :
      /\ \/ batch[b].state = "production_running"
         \/ batch[b].state = "importing" /\ batch[b].case = NoCase
      /\ \A h \in Requests : ~On(h, b)
      => b \in broken

\* Ground truth and runs stay apart: truth leaves only after the freeze, and
\* a run is compared only with its own truth.
TruthIsolation == TruthAfterFreeze /\ ComparedWithOwnTruth

\* What an owner is shown has been classified.
ReviewIsBacked == TypeOK /\ ReviewHasEvidence
=============================================================================
