---------------------------- MODULE ReleaseChain ----------------------------
(***************************************************************************)
(* The AC-002B..AC-002H chain of app/validation_program: from a simulation *)
(* batch's engineering handoff through the Codex implementation job, its   *)
(* retest, the release authorization and the merge to the controlled       *)
(* promotions, for one batch.                                              *)
(*                                                                         *)
(* Every handler reads rows and JSON artifacts with no lock, writes one    *)
(* artifact, and then commits the columns its session changed, by primary  *)
(* key.  Storage is not part of the transaction.  So a request is a step   *)
(* that reads and checks, a step that writes the artifact, and a step that *)
(* commits; it may be lost before either, which leaves what it wrote.  The *)
(* answer to retest start is a step of its own: it carries the lease.      *)
(*                                                                         *)
(* A pull request number always travels with its head commit, so a member  *)
(* of Heads stands for both.  A completion that names a lease other than   *)
(* the current manifest's is refused with no effect, so only the holder's  *)
(* completions appear here.                                                *)
(***************************************************************************)
EXTENDS Naturals, FiniteSets

CONSTANTS
    Items,      \* simulation_batch_items of the batch
    Jobs,       \* bound: primary keys of its CODEX_IMPLEMENTATION jobs
    Heads,      \* candidate head commits
    Shas,       \* merge commits
    Envs,       \* staging, production
    Handlers,   \* bound: requests in flight at once
    RetryLimit, \* retry_count at which the stale sweep gives up
    None        \* JSON null, or an artifact that does not exist

ASSUME ItemsAssumption == Items # {}
ASSUME NoneAssumption == None \notin Jobs \cup Heads \cup Shas \cup Envs \cup Handlers
ASSUME RetryAssumption == RetryLimit \in Nat

BatchStatuses == {"active", "paused_safety_gate", "owner_review_required", "complete"}

\* The states an item can be in from miss classification on.
ItemStates == {"scored", "blocked", "miss_classification", "gap_clustering",
               "remediation_review", "retest", "regression", "graduated"}

JobStatuses == {"absent", "queued", "running", "succeeded", "escalated",
                "failed", "timed_out"}

VARIABLES
    batch,   \* simulation_batches.status
    item,    \* simulation_batch_items.state
    job,     \* the agent_jobs rows: status and retry_count
    handoff, \* handoff_state of engineering-handoff.json
    doc,     \* the JSON artifacts under agent-jobs/<job_id>/
    promo,   \* those of AC-002H, per environment
    call     \* the requests in flight

\* History: what the artifacts have ever said (see ReleaseCustody).
VARIABLES verified, released, merged, approved, deployed

rows == <<batch, item, job>>
files == <<handoff, doc, promo>>
history == <<verified, released, merged, approved, deployed>>
vars == <<rows, files, call, history>>

-----------------------------------------------------------------------------
(* The AC-002E decision policy.                                            *)

\* before and after are totals over the batch's simulations.
RetestDecision(before, after) ==
    LET regressed == \/ after.fp > before.fp
                     \/ after.fn > before.fn
                     \/ after.tp < before.tp
        improved == /\ after.fn < before.fn
                    /\ after.fp <= before.fp
                    /\ after.tp >= before.tp
    IN  CASE improved /\ ~regressed -> "VERIFIED_IMPROVEMENT"
          [] regressed              -> "REGRESSION"
          [] OTHER                  -> "NO_IMPROVEMENT"

\* Enough totals to meet every comparison in each direction.
Totals == [tp : 0..1, fp : 0..1, fn : 0..1]

\* The decisions a completion can lead to; an outcome other than "scored"
\* is recorded as ESCALATED.
RetestDecisions ==
    {RetestDecision(before, after) : before \in Totals, after \in Totals} \cup {"ESCALATED"}

-----------------------------------------------------------------------------
(* State.                                                                  *)

HandoffStates == {"absent", "OWNER_APPROVAL_REQUIRED", "DISPATCH_AUTHORIZED", "OWNER_REJECTED"}

OwnerDecisions == {"none", "APPROVED", "REJECTED"}
MergeDecisions == {"none", "MERGED_RELEASE_CANDIDATE", "MERGE_BLOCKED"}
DeployDecisions == {"none", "DEPLOYED", "DEPLOYMENT_BLOCKED"}

\* A lease is pending until the answer that carries it arrives or is lost.
Leases == {"none", "pending", "held", "lost"}

\* agent-jobs/<job_id>/: result.json (the head it names), the retest
\* manifest (the request that wrote it, and what became of the lease that
\* request is to return), verification-retest-result.json, release-authorization.json,
\* the merge manifest and release-promotion.json.
Doc == [result : Heads \cup {None},
        retest : [writer : Handlers \cup {None}, lease : Leases],
        verification : [decision : RetestDecisions \cup {"none"}, head : Heads \cup {None}],
        authorization : [decision : OwnerDecisions, head : Heads \cup {None}],
        mergeManifest : BOOLEAN,
        promotion : [decision : MergeDecisions, head : Heads \cup {None},
                     sha : Shas \cup {None}]]

\* deployment-authorization-<env>.json, controlled-promotion-<env>.json
\* (its merge commit) and controlled-promotion-result-<env>.json.
Promo == [auth : [decision : OwnerDecisions, sha : Shas \cup {None}],
          manifest : Shas \cup {None},
          result : [decision : DeployDecisions, sha : Shas \cup {None}]]

Ops == {"idle", "prepare", "decide", "codex_start", "codex_complete", "retest_start",
        "retest_answer", "retest_complete", "release", "merge_start", "merge_complete",
        "deploy_authorize", "deploy_start", "deploy_complete"}

\* A request past its checks: what it will write to its artifact, and the
\* columns its session will flush ("none": unchanged).  ORM attributes set
\* to the value that was read are not flushed.
Call == [op : Ops, job : Jobs \cup {None}, env : Envs \cup {None},
         decision : HandoffStates \cup OwnerDecisions \cup RetestDecisions
                      \cup MergeDecisions \cup DeployDecisions,
         head : Heads \cup {None}, sha : Shas \cup {None},
         batchTo : BatchStatuses \cup {"none"}, move : SUBSET Items,
         itemTo : ItemStates \cup {"none"}, jobTo : JobStatuses \cup {"none"},
         wrote : BOOLEAN]

Idle == [op |-> "idle", job |-> None, env |-> None, decision |-> "none",
         head |-> None, sha |-> None, batchTo |-> "none", move |-> {},
         itemTo |-> "none", jobTo |-> "none", wrote |-> FALSE]

\* The column and artifact types.
TypeOK ==
    /\ batch \in BatchStatuses
    /\ item \in [Items -> ItemStates]
    /\ job \in [Jobs -> [status : JobStatuses, retry : 0..RetryLimit]]
    /\ handoff \in HandoffStates
    /\ doc \in [Jobs -> Doc]
    /\ promo \in [Jobs \X Envs -> Promo]
    /\ call \in [Handlers -> Call]

NoDoc == [result |-> None,
          retest |-> [writer |-> None, lease |-> "none"],
          verification |-> [decision |-> "none", head |-> None],
          authorization |-> [decision |-> "none", head |-> None],
          mergeManifest |-> FALSE,
          promotion |-> [decision |-> "none", head |-> None, sha |-> None]]

NoPromo == [auth |-> [decision |-> "none", sha |-> None],
            manifest |-> None,
            result |-> [decision |-> "none", sha |-> None]]

\* An active batch whose items are scored, blocked, or have classification
\* jobs, every one of which has been accepted.
Init ==
    /\ batch = "active"
    /\ item \in [Items -> {"scored", "blocked", "miss_classification"}]
    /\ \E i \in Items : item[i] = "miss_classification"
    /\ job = [j \in Jobs |-> [status |-> "absent", retry |-> 0]]
    /\ handoff = "absent"
    /\ doc = [j \in Jobs |-> NoDoc]
    /\ promo = [p \in Jobs \X Envs |-> NoPromo]
    /\ call = [h \in Handlers |-> Idle]
    /\ verified = {}
    /\ released = {}
    /\ merged = {}
    /\ approved = {}
    /\ deployed = {}

-----------------------------------------------------------------------------
(* Requests: their reads and checks.                                       *)

\* The status column as the session will flush it.
Dirty(status) == IF batch = status THEN "none" ELSE status

InState(state) == {i \in Items : item[i] = state}
AllInState(state) == \A i \in Items : item[i] = state

Receive(h, c) ==
    /\ call[h] = Idle
    /\ call' = [call EXCEPT ![h] = c]
    /\ UNCHANGED <<rows, files, history>>

\* AutonomousEngineeringHandoffService.prepare
PrepareHandoff(h) ==
    Receive(h, [Idle EXCEPT !.op = "prepare",
                            !.decision = "OWNER_APPROVAL_REQUIRED",
                            !.batchTo = Dirty("owner_review_required"),
                            !.move = InState("miss_classification"),
                            !.itemTo = "gap_clustering"])

AwaitsOwner ==
    /\ batch = "owner_review_required"
    /\ handoff = "OWNER_APPROVAL_REQUIRED"

\* ApprovedCodexDispatchService.decide, rejecting.
RejectHandoff(h) ==
    /\ AwaitsOwner
    /\ Receive(h, [Idle EXCEPT !.op = "decide",
                               !.decision = "OWNER_REJECTED",
                               !.batchTo = "complete",
                               !.move = InState("gap_clustering"),
                               !.itemTo = "blocked"])

ExistingJobs == {j \in Jobs : job[j].status # "absent"}

FreshJobs == {j \in Jobs : /\ job[j].status = "absent"
                            /\ \A h \in Handlers : call[h].job # j}

\* ApprovedCodexDispatchService.decide, approving: the job already there,
\* or a new row.
ApproveHandoff(h) ==
    /\ AwaitsOwner
    /\ \E j \in IF ExistingJobs = {} THEN FreshJobs ELSE ExistingJobs :
         Receive(h, [Idle EXCEPT !.op = "decide",
                                 !.job = j,
                                 !.decision = "DISPATCH_AUTHORIZED",
                                 !.batchTo = "active",
                                 !.move = InState("gap_clustering"),
                                 !.itemTo = "remediation_review",
                                 !.jobTo = IF ExistingJobs = {} THEN "queued" ELSE "none"])

\* PremiumCodexExecutionService.start.  Its manifest is never read back.
StartCodex(h, j) ==
    /\ job[j].status = "queued"
    /\ Receive(h, [Idle EXCEPT !.op = "codex_start", !.job = j,
                               !.jobTo = "running", !.wrote = TRUE])

\* PremiumCodexExecutionService.complete, from the holder of the row's lease.
CompleteCodex(h, j, outcome, head) ==
    /\ job[j].status = "running"
    /\ outcome = "succeeded" => head # None
    /\ Receive(h, [Idle EXCEPT !.op = "codex_complete", !.job = j,
                               !.head = head, !.jobTo = outcome])

\* agent_job_service.recover_stale: nothing refreshes a Codex job's
\* heartbeat, so in time every running one is stale.
RecoverStale(j) ==
    /\ job[j].status = "running"
    /\ job' = [job EXCEPT ![j] =
                 IF @.retry < RetryLimit
                   THEN [status |-> "queued", retry |-> @.retry + 1]
                   ELSE [@ EXCEPT !.status = "timed_out"]]
    /\ UNCHANGED <<batch, item, files, call, history>>

\* The _job and _candidate checks every later service begins with.
Candidate(j, head) ==
    /\ job[j].status = "succeeded"
    /\ head # None
    /\ doc[j].result = head

StartRetest_CommitFirst(h, j) ==
    /\ \E head \in Heads : Candidate(j, head)
    /\ batch = "active"
    /\ AllInState("remediation_review")
    /\ Receive(h, [Idle EXCEPT !.op = "retest_start", !.job = j, !.wrote = TRUE,
                               !.move = Items, !.itemTo = "retest"])

\* AutonomousVerificationRetestService.start
StartRetest(h, j) ==
    /\ \E head \in Heads : Candidate(j, head)
    /\ batch = "active"
    /\ AllInState("remediation_review")
    /\ Receive(h, [Idle EXCEPT !.op = "retest_start", !.job = j,
                               !.move = Items, !.itemTo = "retest"])

CompleteRetest_CommitFirst(h, j, head, decision) ==
    LET improved == decision = "VERIFIED_IMPROVEMENT" IN
    /\ Candidate(j, head)
    /\ doc[j].retest.lease = "held"
    /\ AllInState("retest")
    /\ Receive(h, [Idle EXCEPT !.op = "retest_complete", !.job = j, !.wrote = TRUE,
                               !.head = head, !.decision = decision,
                               !.batchTo = Dirty(IF improved THEN "owner_review_required"
                                                             ELSE "paused_safety_gate"),
                               !.move = Items,
                               !.itemTo = IF improved THEN "graduated" ELSE "regression"])

\* AutonomousVerificationRetestService.complete
CompleteRetest(h, j, head, decision) ==
    LET improved == decision = "VERIFIED_IMPROVEMENT" IN
    /\ Candidate(j, head)
    /\ doc[j].retest.lease = "held"
    /\ AllInState("retest")
    /\ Receive(h, [Idle EXCEPT !.op = "retest_complete", !.job = j,
                               !.head = head, !.decision = decision,
                               !.batchTo = Dirty(IF improved THEN "owner_review_required"
                                                             ELSE "paused_safety_gate"),
                               !.move = Items,
                               !.itemTo = IF improved THEN "graduated" ELSE "regression"])

\* VerifiedReleaseAuthorizationService._verification, for this candidate.
VerifiedFor(j, head) ==
    doc[j].verification = [decision |-> "VERIFIED_IMPROVEMENT", head |-> head]

\* VerifiedReleaseAuthorizationService.authorize with no decision on file;
\* a repeated decision changes nothing and a conflicting one is refused.
AuthorizeRelease(h, j, head, decision) ==
    /\ Candidate(j, head)
    /\ batch = "owner_review_required"
    /\ AllInState("graduated")
    /\ VerifiedFor(j, head)
    /\ doc[j].authorization.decision = "none"
    /\ Receive(h, [Idle EXCEPT !.op = "release", !.job = j,
                               !.head = head, !.decision = decision,
                               !.batchTo = IF decision = "APPROVED" THEN "complete"
                                                                   ELSE "paused_safety_gate"])

ReleasedFor_AnyDecision(j, head) == doc[j].authorization.head = head

\* GovernedMergeReleasePromotionService._authorization, for this candidate.
ReleasedFor(j, head) ==
    doc[j].authorization = [decision |-> "APPROVED", head |-> head]

\* GovernedMergeReleasePromotionService.start
StartMerge(h, j) ==
    /\ \E head \in Heads : Candidate(j, head) /\ ReleasedFor(j, head)
    /\ batch = "complete"
    /\ Receive(h, [Idle EXCEPT !.op = "merge_start", !.job = j])

\* GovernedMergeReleasePromotionService.complete; sha is None unless merged.
CompleteMerge(h, j, head, sha) ==
    /\ Candidate(j, head)
    /\ batch = "complete"
    /\ ReleasedFor(j, head)
    /\ doc[j].mergeManifest
    /\ Receive(h, [Idle EXCEPT !.op = "merge_complete", !.job = j,
                               !.head = head, !.sha = sha,
                               !.decision = IF sha # None THEN "MERGED_RELEASE_CANDIDATE"
                                                          ELSE "MERGE_BLOCKED",
                               !.batchTo = IF sha # None THEN "none"
                                                         ELSE "paused_safety_gate"])

\* DeploymentAuthorizationControlledPromotionService._promotion.
MergedAs(j, sha) ==
    /\ job[j].status = "succeeded"
    /\ doc[j].promotion.decision = "MERGED_RELEASE_CANDIDATE"
    /\ doc[j].promotion.sha = sha

\* DeploymentAuthorizationControlledPromotionService.authorize
AuthorizeDeployment(h, j, env, sha, decision) ==
    /\ MergedAs(j, sha)
    /\ Receive(h, [Idle EXCEPT !.op = "deploy_authorize", !.job = j, !.env = env,
                               !.sha = sha, !.decision = decision,
                               !.batchTo = Dirty(IF decision = "APPROVED"
                                                   THEN "active" ELSE "paused_safety_gate")])

ApprovedFor_AnyEnv(j, env, sha) ==
    \E e \in Envs : promo[<<j, e>>].auth = [decision |-> "APPROVED", sha |-> sha]

\* The authorization check of controlled promotion start.
ApprovedFor(j, env, sha) ==
    promo[<<j, env>>].auth = [decision |-> "APPROVED", sha |-> sha]

\* DeploymentAuthorizationControlledPromotionService.start
StartDeployment(h, j, env, sha) ==
    /\ MergedAs(j, sha)
    /\ ApprovedFor(j, env, sha)
    /\ Receive(h, [Idle EXCEPT !.op = "deploy_start", !.job = j, !.env = env, !.sha = sha])

\* DeploymentAuthorizationControlledPromotionService.complete
CompleteDeployment(h, j, env, sha, decision) ==
    /\ MergedAs(j, sha)
    /\ promo[<<j, env>>].manifest # None
    /\ Receive(h, [Idle EXCEPT !.op = "deploy_complete", !.job = j, !.env = env,
                               !.sha = sha, !.decision = decision,
                               !.batchTo = Dirty(IF decision = "DEPLOYED"
                                                   THEN "complete" ELSE "paused_safety_gate")])

-----------------------------------------------------------------------------
(* Requests: the artifact each one writes before it commits.               *)

Unwritten(h, op) == call[h].op = op /\ ~call[h].wrote

Written(h) == call' = [call EXCEPT ![h].wrote = TRUE]

\* merge and promotion start have nothing to commit.
Answered(h) == call' = [call EXCEPT ![h] = Idle]

WriteHandoff(h) ==
    /\ Unwritten(h, "prepare") \/ Unwritten(h, "decide")
    /\ handoff' = call[h].decision
    /\ Written(h)
    /\ UNCHANGED <<rows, doc, promo, history>>

WriteResult(h) ==
    /\ Unwritten(h, "codex_complete")
    /\ doc' = [doc EXCEPT ![call[h].job].result = call[h].head]
    /\ Written(h)
    /\ UNCHANGED <<rows, handoff, promo, history>>

WriteRetestManifest(h) ==
    /\ Unwritten(h, "retest_start")
    /\ doc' = [doc EXCEPT ![call[h].job].retest = [writer |-> h, lease |-> "pending"]]
    /\ Written(h)
    /\ UNCHANGED <<rows, handoff, promo, history>>

WriteVerification(h) ==
    /\ Unwritten(h, "retest_complete")
    /\ doc' = [doc EXCEPT ![call[h].job].verification =
                 [decision |-> call[h].decision, head |-> call[h].head]]
    /\ verified' = IF call[h].decision = "VERIFIED_IMPROVEMENT"
                     THEN verified \cup {<<call[h].job, call[h].head>>}
                     ELSE verified
    /\ Written(h)
    /\ UNCHANGED <<rows, handoff, promo, released, merged, approved, deployed>>

WriteAuthorization(h) ==
    /\ Unwritten(h, "release")
    /\ doc' = [doc EXCEPT ![call[h].job].authorization =
                 [decision |-> call[h].decision, head |-> call[h].head]]
    /\ released' = IF call[h].decision = "APPROVED"
                     THEN released \cup {<<call[h].job, call[h].head>>}
                     ELSE released
    /\ Written(h)
    /\ UNCHANGED <<rows, handoff, promo, verified, merged, approved, deployed>>

WriteMergeManifest(h) ==
    /\ Unwritten(h, "merge_start")
    /\ doc' = [doc EXCEPT ![call[h].job].mergeManifest = TRUE]
    /\ Answered(h)
    /\ UNCHANGED <<rows, handoff, promo, history>>

WritePromotion(h) ==
    /\ Unwritten(h, "merge_complete")
    /\ doc' = [doc EXCEPT ![call[h].job].promotion =
                 [decision |-> call[h].decision, head |-> call[h].head, sha |-> call[h].sha]]
    /\ merged' = IF call[h].decision = "MERGED_RELEASE_CANDIDATE"
                   THEN merged \cup {<<call[h].job, call[h].head, call[h].sha>>}
                   ELSE merged
    /\ Written(h)
    /\ UNCHANGED <<rows, handoff, promo, verified, released, approved, deployed>>

WriteDeployAuth(h) ==
    /\ Unwritten(h, "deploy_authorize")
    /\ promo' = [promo EXCEPT ![<<call[h].job, call[h].env>>].auth =
                   [decision |-> call[h].decision, sha |-> call[h].sha]]
    /\ approved' = IF call[h].decision = "APPROVED"
                     THEN approved \cup {<<call[h].job, call[h].env, call[h].sha>>}
                     ELSE approved
    /\ Written(h)
    /\ UNCHANGED <<rows, handoff, doc, verified, released, merged, deployed>>

WriteDeployManifest(h) ==
    /\ Unwritten(h, "deploy_start")
    /\ promo' = [promo EXCEPT ![<<call[h].job, call[h].env>>].manifest = call[h].sha]
    /\ Answered(h)
    /\ UNCHANGED <<rows, handoff, doc, history>>

WriteDeployResult(h) ==
    /\ Unwritten(h, "deploy_complete")
    /\ promo' = [promo EXCEPT ![<<call[h].job, call[h].env>>].result =
                   [decision |-> call[h].decision, sha |-> call[h].sha]]
    /\ deployed' = IF call[h].decision = "DEPLOYED"
                     THEN deployed \cup {<<call[h].job, call[h].env, call[h].sha>>}
                     ELSE deployed
    /\ Written(h)
    /\ UNCHANGED <<rows, handoff, doc, verified, released, merged, approved>>

-----------------------------------------------------------------------------
(* Requests: db.commit(), the answer after it, and their failures.         *)

\* The flush: the changed columns of each row, whatever the row has become.
\* A retest start has its answer still to give.
Commit(h) ==
    LET c == call[h] IN
    /\ c.wrote
    /\ batch' = IF c.batchTo = "none" THEN batch ELSE c.batchTo
    /\ item' = [i \in Items |-> IF i \in c.move THEN c.itemTo ELSE item[i]]
    /\ job' = IF c.jobTo = "none" THEN job ELSE [job EXCEPT ![c.job].status = c.jobTo]
    /\ call' = [call EXCEPT ![h] = IF c.op = "retest_start"
                                     THEN [Idle EXCEPT !.op = "retest_answer", !.job = c.job]
                                     ELSE Idle]
    /\ UNCHANGED <<files, history>>

\* The manifest on disk is the one this retest start wrote.
OwnsManifest(h) ==
    /\ \/ call[h].op = "retest_answer"
       \/ call[h].op = "retest_start" /\ call[h].wrote
    /\ doc[call[h].job].retest.writer = h

\* What becomes of the lease, if the manifest is still that request's.
LeaseTo(h, to) ==
    doc' = IF OwnsManifest(h) THEN [doc EXCEPT ![call[h].job].retest.lease = to] ELSE doc

\* The answer reaches the executor, and with it the lease.
AnswerRetest(h) ==
    /\ call[h].op = "retest_answer"
    /\ LeaseTo(h, "held")
    /\ Answered(h)
    /\ UNCHANGED <<rows, handoff, promo, history>>

\* The process dies, storage raises, the transaction fails or the answer
\* does not arrive: the session is rolled back, the artifact, if written,
\* stays, and so does what was committed.
Abort(h) ==
    /\ call[h] # Idle
    /\ LeaseTo(h, "lost")
    /\ Answered(h)
    /\ UNCHANGED <<rows, handoff, promo, history>>

Owner(h) ==
    \/ RejectHandoff(h)
    \/ ApproveHandoff(h)
    \/ \E j \in Jobs, decision \in {"APPROVED", "REJECTED"} :
         \/ \E head \in Heads : AuthorizeRelease(h, j, head, decision)
         \/ \E env \in Envs, sha \in Shas : AuthorizeDeployment(h, j, env, sha, decision)

Executor(h) ==
    \/ PrepareHandoff(h)
    \/ \E j \in Jobs :
         \/ StartCodex(h, j)
         \/ \E outcome \in {"succeeded", "escalated", "failed"}, head \in Heads \cup {None} :
              CompleteCodex(h, j, outcome, head)
         \/ StartRetest(h, j)
         \/ \E head \in Heads, decision \in RetestDecisions : CompleteRetest(h, j, head, decision)
         \/ StartMerge(h, j)
         \/ \E head \in Heads, sha \in Shas \cup {None} : CompleteMerge(h, j, head, sha)
         \/ \E env \in Envs, sha \in Shas :
              \/ StartDeployment(h, j, env, sha)
              \/ \E decision \in {"DEPLOYED", "DEPLOYMENT_BLOCKED"} :
                   CompleteDeployment(h, j, env, sha, decision)

Write(h) ==
    \/ WriteHandoff(h) \/ WriteResult(h)
    \/ WriteRetestManifest(h) \/ WriteVerification(h)
    \/ WriteAuthorization(h)
    \/ WriteMergeManifest(h) \/ WritePromotion(h)
    \/ WriteDeployAuth(h) \/ WriteDeployManifest(h) \/ WriteDeployResult(h)

Next ==
    \/ \E h \in Handlers : Owner(h) \/ Executor(h) \/ Write(h)
                           \/ Commit(h) \/ AnswerRetest(h) \/ Abort(h)
    \/ \E j \in Jobs : RecoverStale(j)

Spec == Init /\ [][Next]_vars

-----------------------------------------------------------------------------
(* Properties.                                                             *)

Custody == INSTANCE ReleaseCustody

\* The chain implements its abstract custody specification: whatever the
\* interleaving, the lost requests and the overwritten artifacts, nothing
\* is authorized, merged or deployed out of turn.
KeepsCustody == Custody!Spec

\* A promotion result on file that says DEPLOYED is backed by the whole
\* chain: some head was verified, released by the owner and merged as that
\* commit, and the owner authorized that environment (complete checks only
\* the promotion and the manifest, so this rests on every earlier check).
DeployedIsBacked ==
    \A j \in Jobs, env \in Envs :
        LET result == promo[<<j, env>>].result IN
        result.decision = "DEPLOYED" =>
            /\ \E head \in Heads : /\ <<j, head>> \in verified
                                    /\ <<j, head>> \in released
                                    /\ <<j, head, result.sha>> \in merged
            /\ \E sha \in Shas : <<j, env, sha>> \in approved

\* The batch never enters retest before the manifest that lets an executor
\* complete the retest is on disk (start writes it before it commits).
RetestHasManifest ==
    (\E i \in Items : item[i] = "retest") => \E j \in Jobs : doc[j].retest.writer # None

\* A batch in retest with no start in flight has an executor that holds the
\* lease of some manifest, also when starts overlap and overwrite each
\* other's manifest, unless the start whose manifest stayed was lost after
\* writing it: before its commit while another commits, or after its own,
\* when start refuses to redo what complete then waits for.
RetestStrandsOnlyByLoss ==
    /\ \E i \in Items : item[i] = "retest"
    /\ \A h \in Handlers : call[h].op \notin {"retest_start", "retest_answer"}
    => \E j \in Jobs : doc[j].retest.lease \in {"held", "lost"}

\* No item graduates unless a retest found some candidate an improvement,
\* also when completions race each other (complete of AC-002E).
GraduatedIsVerified ==
    (\E i \in Items : item[i] = "graduated") => verified # {}

\* The batch and its documents agree: a retest has its manifest, and an item
\* graduates only on a verification.
RetestIsSound == TypeOK /\ RetestHasManifest /\ GraduatedIsVerified
=============================================================================
