------------------------ MODULE ReleaseChain_proofs ------------------------
(***************************************************************************)
(* The release chain keeps custody for any number of jobs, heads, merge    *)
(* commits, environments and concurrent requests.                          *)
(*                                                                         *)
(* The checks of a request hold when it reads, not when it writes.  What   *)
(* makes the chain sound all the same is that each fact a request relies   *)
(* on is a fact about the past: it stays true while the request is in      *)
(* flight, even if the artifact it was read from is overwritten.           *)
(* SoundCall says which past facts each request carries, Backed which ones *)
(* each artifact carries.                                                  *)
(***************************************************************************)
EXTENDS ReleaseChain, TLAPS

\* The artifact a request writes fits its type, and the rows it touches exist.
WellFormed(c) ==
    /\ c.op \in {"prepare", "decide"} => c.decision \in HandoffStates
    /\ c.op \notin {"idle", "prepare", "decide"} => c.job \in Jobs
    /\ c.jobTo # "none" => c.job \in Jobs
    /\ c.move # {} => c.itemTo # "none"
    /\ c.op = "retest_complete" => c.decision \in RetestDecisions /\ c.head \in Heads
    /\ c.op = "release" => c.decision \in OwnerDecisions /\ c.head \in Heads
    /\ c.op = "merge_complete" =>
         /\ c.decision \in MergeDecisions
         /\ c.head \in Heads
         /\ c.decision = "MERGED_RELEASE_CANDIDATE" => c.sha \in Shas
    /\ c.op \in {"deploy_authorize", "deploy_start", "deploy_complete"} =>
         c.env \in Envs /\ c.sha \in Shas
    /\ c.op = "deploy_authorize" => c.decision \in OwnerDecisions
    /\ c.op = "deploy_complete" => c.decision \in DeployDecisions

\* Some retest manifest is on disk.
HasManifest == \E j \in Jobs : doc[j].retest.writer # None

\* The past facts a request established when it read, stated of the history
\* they are facts about: v, r, m, a stand for verified, released, merged and
\* approved, w for HasManifest.
Carries(c, v, r, m, a, w) ==
    /\ c.op = "release" => <<c.job, c.head>> \in v
    /\ c.op = "merge_complete" => <<c.job, c.head>> \in r
    /\ c.op \in {"deploy_authorize", "deploy_complete"} =>
         \E head \in Heads : <<c.job, head, c.sha>> \in m
    /\ c.op = "deploy_start" => <<c.job, c.env, c.sha>> \in a
    /\ c.op = "deploy_complete" => \E sha \in Shas : <<c.job, c.env, sha>> \in a
    /\ c.itemTo = "graduated" => c.op = "retest_complete"
    /\ c.itemTo = "graduated" => c.decision = "VERIFIED_IMPROVEMENT"
    /\ c.itemTo = "graduated" /\ c.wrote = TRUE => v # {}
    /\ c.itemTo = "retest" => c.op = "retest_start"
    /\ c.itemTo = "retest" /\ c.wrote = TRUE => w = TRUE

SoundCall(c) == Carries(c, verified, released, merged, approved, HasManifest)

\* The past facts the artifacts on disk record, likewise: d is the documents
\* of job j, e those of its promotion to env.
BackedDoc(j, d, v, r, m) ==
    /\ d.verification.decision = "VERIFIED_IMPROVEMENT" => <<j, d.verification.head>> \in v
    /\ d.authorization.decision = "APPROVED" => <<j, d.authorization.head>> \in r
    /\ d.promotion.decision = "MERGED_RELEASE_CANDIDATE" =>
         \E head \in Heads : <<j, head, d.promotion.sha>> \in m

BackedPromo(p, e, a) ==
    /\ e.auth.decision = "APPROVED" => <<p[1], p[2], e.auth.sha>> \in a
    /\ e.manifest # None => <<p[1], p[2], e.manifest>> \in a

Backed ==
    /\ \A j \in Jobs : BackedDoc(j, doc[j], verified, released, merged)
    /\ \A p \in Jobs \X Envs : BackedPromo(p, promo[p], approved)

\* Custody holds of the history itself.
Ordered ==
    /\ released \subseteq verified
    /\ \A j \in Jobs, head \in Heads, sha \in Shas :
         <<j, head, sha>> \in merged => <<j, head>> \in released

IInv ==
    /\ TypeOK
    /\ \A h \in Handlers : WellFormed(call[h]) /\ SoundCall(call[h])
    /\ Backed
    /\ Ordered
    /\ DeployedIsBacked
    /\ RetestHasManifest
    /\ GraduatedIsVerified

-----------------------------------------------------------------------------
(* The retest policy and the idle request.                                 *)

\* The decisions the AC-002E policy can reach.
LEMMA RetestDecisionsAre ==
    RetestDecisions \subseteq {"VERIFIED_IMPROVEMENT", "REGRESSION", "NO_IMPROVEMENT", "ESCALATED"}
  BY DEF RetestDecisions, RetestDecision

\* VERIFIED_IMPROVEMENT is a decision of the AC-002E policy.
LEMMA VerifiedIsDecision ==
    "VERIFIED_IMPROVEMENT" \in RetestDecisions
  <1> DEFINE before == [tp |-> 0, fp |-> 0, fn |-> 1]
             after == [tp |-> 0, fp |-> 0, fn |-> 0]
  <1>1. before \in Totals /\ after \in Totals
    BY DEF Totals
  <1>2. RetestDecision(before, after) = "VERIFIED_IMPROVEMENT"
    BY DEF RetestDecision
  <1> QED  BY <1>1, <1>2 DEF RetestDecisions

\* An idle handler carries no obligation.
LEMMA IdleIsSound ==
    Idle \in Call /\ WellFormed(Idle) /\ SoundCall(Idle)
  <1>1. Idle \in Call
    BY DEF Idle, Call, Ops, OwnerDecisions
  <1>2. WellFormed(Idle)
    BY DEF Idle, WellFormed
  <1>3. SoundCall(Idle)
    BY DEF Idle, SoundCall, Carries
  <1> QED  BY <1>1, <1>2, <1>3

-----------------------------------------------------------------------------
(* Initial states.                                                         *)

\* The invariant holds initially.
LEMMA InitIInv == Init => IInv
  <1> SUFFICES ASSUME Init PROVE IInv
    OBVIOUS
  <1>1. TypeOK
    <2>1. NoDoc \in Doc
      BY DEF NoDoc, Doc, OwnerDecisions, MergeDecisions, Leases
    <2>2. NoPromo \in Promo
      BY DEF NoPromo, Promo, OwnerDecisions, DeployDecisions
    <2>3. [status |-> "absent", retry |-> 0] \in [status : JobStatuses, retry : 0..RetryLimit]
      BY RetryAssumption DEF JobStatuses
    <2>4. item \in [Items -> ItemStates]
      BY DEF Init, ItemStates
    <2> QED  BY <2>1, <2>2, <2>3, <2>4, IdleIsSound
            DEF Init, TypeOK, BatchStatuses, HandoffStates
  <1>2. \A h \in Handlers : WellFormed(call[h]) /\ SoundCall(call[h])
    BY IdleIsSound DEF Init
  <1>3. Backed
    BY DEF Init, Backed, BackedDoc, BackedPromo, NoDoc, NoPromo
  <1>4. Ordered
    BY DEF Init, Ordered
  <1>5. DeployedIsBacked
    BY DEF Init, DeployedIsBacked, NoPromo
  <1>6. RetestHasManifest /\ GraduatedIsVerified
    BY DEF Init, RetestHasManifest, GraduatedIsVerified
  <1> QED  BY <1>1, <1>2, <1>3, <1>4, <1>5, <1>6 DEF IInv

-----------------------------------------------------------------------------
(* Requests: what they read.                                               *)

\* A step that only takes a request in keeps the invariant.
LEMMA ReceiveIInv ==
    ASSUME IInv, NEW h \in Handlers, NEW c \in Call,
           WellFormed(c), SoundCall(c), Receive(h, c)
    PROVE  IInv'
  <1> USE DEF IInv
  <1>0. /\ UNCHANGED <<rows, files, history>>
        /\ call' = [call EXCEPT ![h] = c]
    BY DEF Receive
  <1>1. TypeOK'
    BY <1>0 DEF TypeOK, rows, files
  <1>2. ASSUME NEW g \in Handlers
        PROVE  (WellFormed(call[g]) /\ SoundCall(call[g]))'
    <2>1. call'[g] = IF g = h THEN c ELSE call[g]
      BY <1>0 DEF TypeOK
    <2>2. WellFormed(call'[g]) /\ SoundCall(call'[g])
      BY <2>1
    <2>3. verified' = verified /\ released' = released /\ merged' = merged
          /\ approved' = approved /\ HasManifest' = HasManifest
      BY <1>0 DEF history, files, HasManifest
    <2>4. SoundCall(call[g])'
      BY <2>2, <2>3 DEF SoundCall
    <2> QED  BY <2>2, <2>4 DEF WellFormed
  <1>3. Backed' /\ Ordered' /\ DeployedIsBacked' /\ RetestHasManifest' /\ GraduatedIsVerified'
    BY <1>0 DEF rows, files, history, Backed, Ordered, DeployedIsBacked, RetestHasManifest, GraduatedIsVerified
  <1> QED  BY <1>1, <1>2, <1>3

\* AC-002B prepare, up to its write.
LEMMA PrepareIInv ==
    ASSUME IInv, NEW h \in Handlers, PrepareHandoff(h)
    PROVE  IInv'
  <1> DEFINE c == [Idle EXCEPT !.op = "prepare",
                               !.decision = "OWNER_APPROVAL_REQUIRED",
                               !.batchTo = Dirty("owner_review_required"),
                               !.move = InState("miss_classification"),
                               !.itemTo = "gap_clustering"]
  <1>1. c \in Call
    BY DEF Idle, Call, Ops, HandoffStates, Dirty, InState, BatchStatuses, ItemStates
  <1>2. WellFormed(c)
    BY DEF Idle, WellFormed, HandoffStates
  <1>3. SoundCall(c)
    BY DEF Idle, SoundCall, Carries
  <1>4. Receive(h, c)
    BY DEF PrepareHandoff
  <1> HIDE DEF c
  <1> QED  BY <1>1, <1>2, <1>3, <1>4, ReceiveIInv

\* AC-002C decide, rejecting, up to its write.
LEMMA RejectIInv ==
    ASSUME IInv, NEW h \in Handlers, RejectHandoff(h)
    PROVE  IInv'
  <1> DEFINE c == [Idle EXCEPT !.op = "decide",
                               !.decision = "OWNER_REJECTED",
                               !.batchTo = "complete",
                               !.move = InState("gap_clustering"),
                               !.itemTo = "blocked"]
  <1>1. c \in Call
    BY DEF Idle, Call, Ops, HandoffStates, InState, BatchStatuses, ItemStates
  <1>2. WellFormed(c)
    BY DEF Idle, WellFormed, HandoffStates
  <1>3. SoundCall(c)
    BY DEF Idle, SoundCall, Carries
  <1>4. Receive(h, c)
    BY DEF RejectHandoff
  <1> HIDE DEF c
  <1> QED  BY <1>1, <1>2, <1>3, <1>4, ReceiveIInv

\* AC-002C decide, approving, up to its write.
LEMMA ApproveIInv ==
    ASSUME IInv, NEW h \in Handlers, ApproveHandoff(h)
    PROVE  IInv'
  <1> DEFINE c(j, to) == [Idle EXCEPT !.op = "decide",
                                      !.job = j,
                                      !.decision = "DISPATCH_AUTHORIZED",
                                      !.batchTo = "active",
                                      !.move = InState("gap_clustering"),
                                      !.itemTo = "remediation_review",
                                      !.jobTo = to]
  <1> DEFINE to == IF ExistingJobs = {} THEN "queued" ELSE "none"
  <1>1. PICK j \in Jobs : Receive(h, c(j, to))
    BY DEF ApproveHandoff, ExistingJobs, FreshJobs
  <1>2. to \in {"queued", "none"}
    OBVIOUS
  <1> HIDE DEF to
  <1>3. c(j, to) \in Call
    BY <1>2 DEF Idle, Call, Ops, HandoffStates, InState, BatchStatuses, ItemStates, JobStatuses
  <1>4. WellFormed(c(j, to))
    BY DEF Idle, WellFormed, HandoffStates
  <1>5. SoundCall(c(j, to))
    BY DEF Idle, SoundCall, Carries
  <1> HIDE DEF c
  <1> QED  BY <1>1, <1>3, <1>4, <1>5, ReceiveIInv

\* AC-002D start and complete, up to their writes.
LEMMA CodexIInv ==
    ASSUME IInv, NEW h \in Handlers, NEW j \in Jobs,
           \/ StartCodex(h, j)
           \/ \E outcome \in {"succeeded", "escalated", "failed"}, head \in Heads \cup {None} :
                CompleteCodex(h, j, outcome, head)
    PROVE  IInv'
  <1>1. CASE StartCodex(h, j)
    <2> DEFINE c == [Idle EXCEPT !.op = "codex_start", !.job = j,
                                 !.jobTo = "running", !.wrote = TRUE]
    <2>1. c \in Call
      BY DEF Idle, Call, Ops, OwnerDecisions, JobStatuses
    <2>2. WellFormed(c)
      BY DEF Idle, WellFormed
    <2>3. SoundCall(c)
      BY DEF Idle, SoundCall, Carries
    <2>4. Receive(h, c)
      BY <1>1 DEF StartCodex
    <2> HIDE DEF c
    <2> QED  BY <2>1, <2>2, <2>3, <2>4, ReceiveIInv
  <1>2. ASSUME NEW outcome \in {"succeeded", "escalated", "failed"},
               NEW head \in Heads \cup {None}, CompleteCodex(h, j, outcome, head)
        PROVE  IInv'
    <2> DEFINE c == [Idle EXCEPT !.op = "codex_complete", !.job = j,
                                 !.head = head, !.jobTo = outcome]
    <2>1. c \in Call
      BY DEF Idle, Call, Ops, OwnerDecisions, JobStatuses
    <2>2. WellFormed(c)
      BY DEF Idle, WellFormed
    <2>3. SoundCall(c)
      BY DEF Idle, SoundCall, Carries
    <2>4. Receive(h, c)
      BY <1>2 DEF CompleteCodex
    <2> HIDE DEF c
    <2> QED  BY <2>1, <2>2, <2>3, <2>4, ReceiveIInv
  <1> QED  BY <1>1, <1>2

\* AC-002E start and complete, up to their writes.
LEMMA RetestIInv ==
    ASSUME IInv, NEW h \in Handlers, NEW j \in Jobs,
           \/ StartRetest(h, j)
           \/ \E head \in Heads, decision \in RetestDecisions : CompleteRetest(h, j, head, decision)
    PROVE  IInv'
  <1>1. CASE StartRetest(h, j)
    <2> DEFINE c == [Idle EXCEPT !.op = "retest_start", !.job = j,
                                 !.move = Items, !.itemTo = "retest"]
    <2>1. c \in Call
      BY DEF Idle, Call, Ops, OwnerDecisions, ItemStates
    <2>2. WellFormed(c)
      BY DEF Idle, WellFormed
    <2>3. SoundCall(c)
      BY DEF Idle, SoundCall, Carries
    <2>4. Receive(h, c)
      BY <1>1 DEF StartRetest
    <2> HIDE DEF c
    <2> QED  BY <2>1, <2>2, <2>3, <2>4, ReceiveIInv
  <1>2. ASSUME NEW head \in Heads, NEW decision \in RetestDecisions,
               CompleteRetest(h, j, head, decision)
        PROVE  IInv'
    <2> DEFINE batchTo == Dirty(IF decision = "VERIFIED_IMPROVEMENT"
                                  THEN "owner_review_required" ELSE "paused_safety_gate")
               itemTo == IF decision = "VERIFIED_IMPROVEMENT" THEN "graduated" ELSE "regression"
               c == [Idle EXCEPT !.op = "retest_complete", !.job = j,
                                 !.head = head, !.decision = decision,
                                 !.batchTo = batchTo, !.move = Items, !.itemTo = itemTo]
    <2>0. /\ batchTo \in BatchStatuses \cup {"none"}
          /\ itemTo \in {"graduated", "regression"}
          /\ itemTo = "graduated" => decision = "VERIFIED_IMPROVEMENT"
      BY DEF Dirty, BatchStatuses
    <2>4. Receive(h, c)
      BY <1>2 DEF CompleteRetest
    <2> HIDE DEF batchTo, itemTo
    <2>1. c \in Call
      BY <2>0 DEF Idle, Call, Ops, ItemStates
    <2>2. WellFormed(c)
      BY <2>0 DEF Idle, WellFormed
    <2>3. SoundCall(c)
      BY <2>0 DEF Idle, SoundCall, Carries
    <2> HIDE DEF c
    <2> QED  BY <2>1, <2>2, <2>3, <2>4, ReceiveIInv
  <1> QED  BY <1>1, <1>2

\* AC-002F authorize, up to its write: it has seen a verification of its head.
LEMMA AuthorizeReleaseIInv ==
    ASSUME IInv, NEW h \in Handlers, NEW j \in Jobs, NEW head \in Heads,
           NEW decision \in {"APPROVED", "REJECTED"},
           AuthorizeRelease(h, j, head, decision)
    PROVE  IInv'
  <1> DEFINE batchTo == IF decision = "APPROVED" THEN "complete" ELSE "paused_safety_gate"
             c == [Idle EXCEPT !.op = "release", !.job = j,
                               !.head = head, !.decision = decision, !.batchTo = batchTo]
  <1>1. batchTo \in BatchStatuses
    BY DEF BatchStatuses
  <1>2. Receive(h, c)
    BY DEF AuthorizeRelease
  <1>3. <<j, head>> \in verified
    <2>1. VerifiedFor(j, head)
      BY DEF AuthorizeRelease
    <2>2. /\ doc[j].verification.decision = "VERIFIED_IMPROVEMENT"
          /\ doc[j].verification.head = head
      BY <2>1 DEF VerifiedFor
    <2> QED  BY <2>2 DEF IInv, Backed, BackedDoc, BackedPromo
  <1> HIDE DEF batchTo
  <1>4. c \in Call
    BY <1>1 DEF Idle, Call, Ops, OwnerDecisions
  <1>5. WellFormed(c)
    BY DEF Idle, WellFormed, OwnerDecisions
  <1>6. SoundCall(c)
    BY <1>3 DEF Idle, SoundCall, Carries
  <1> HIDE DEF c
  <1> QED  BY <1>2, <1>4, <1>5, <1>6, ReceiveIInv

\* AC-002G start and complete, up to their writes: both have seen a release.
LEMMA MergeIInv ==
    ASSUME IInv, NEW h \in Handlers, NEW j \in Jobs,
           \/ StartMerge(h, j)
           \/ \E head \in Heads, sha \in Shas \cup {None} : CompleteMerge(h, j, head, sha)
    PROVE  IInv'
  <1>1. CASE StartMerge(h, j)
    <2> DEFINE c == [Idle EXCEPT !.op = "merge_start", !.job = j]
    <2>1. c \in Call
      BY DEF Idle, Call, Ops, OwnerDecisions
    <2>2. WellFormed(c)
      BY DEF Idle, WellFormed
    <2>3. SoundCall(c)
      BY DEF Idle, SoundCall, Carries
    <2>4. Receive(h, c)
      BY <1>1 DEF StartMerge
    <2> HIDE DEF c
    <2> QED  BY <2>1, <2>2, <2>3, <2>4, ReceiveIInv
  <1>2. ASSUME NEW head \in Heads, NEW sha \in Shas \cup {None}, CompleteMerge(h, j, head, sha)
        PROVE  IInv'
    <2> DEFINE decision == IF sha # None THEN "MERGED_RELEASE_CANDIDATE" ELSE "MERGE_BLOCKED"
               batchTo == IF sha # None THEN "none" ELSE "paused_safety_gate"
               c == [Idle EXCEPT !.op = "merge_complete", !.job = j, !.head = head,
                                 !.sha = sha, !.decision = decision, !.batchTo = batchTo]
    <2>0. /\ decision \in MergeDecisions
          /\ decision = "MERGED_RELEASE_CANDIDATE" => sha \in Shas
          /\ batchTo \in BatchStatuses \cup {"none"}
      BY DEF MergeDecisions, BatchStatuses
    <2>4. Receive(h, c)
      BY <1>2 DEF CompleteMerge
    <2>5. <<j, head>> \in released
      <3>1. ReleasedFor(j, head)
        BY <1>2 DEF CompleteMerge
      <3>2. doc[j].authorization.decision = "APPROVED" /\ doc[j].authorization.head = head
        BY <3>1 DEF ReleasedFor
      <3> QED  BY <3>2 DEF IInv, Backed, BackedDoc, BackedPromo
    <2> HIDE DEF decision, batchTo
    <2>1. c \in Call
      BY <2>0 DEF Idle, Call, Ops
    <2>2. WellFormed(c)
      BY <2>0 DEF Idle, WellFormed
    <2>3. SoundCall(c)
      BY <2>5 DEF Idle, SoundCall, Carries
    <2> HIDE DEF c
    <2> QED  BY <2>1, <2>2, <2>3, <2>4, ReceiveIInv
  <1> QED  BY <1>1, <1>2

\* AC-002H authorize, start and complete, up to their writes.
LEMMA DeployIInv ==
    ASSUME IInv, NEW h \in Handlers, NEW j \in Jobs, NEW env \in Envs, NEW sha \in Shas,
           \/ \E decision \in {"APPROVED", "REJECTED"} :
                AuthorizeDeployment(h, j, env, sha, decision)
           \/ StartDeployment(h, j, env, sha)
           \/ \E decision \in {"DEPLOYED", "DEPLOYMENT_BLOCKED"} :
                CompleteDeployment(h, j, env, sha, decision)
    PROVE  IInv'
  <1>0. MergedAs(j, sha) => \E head \in Heads : <<j, head, sha>> \in merged
    BY DEF MergedAs, IInv, Backed, BackedDoc
  <1>1. ASSUME NEW decision \in {"APPROVED", "REJECTED"},
               AuthorizeDeployment(h, j, env, sha, decision)
        PROVE  IInv'
    <2> DEFINE batchTo == Dirty(IF decision = "APPROVED" THEN "active" ELSE "paused_safety_gate")
               c == [Idle EXCEPT !.op = "deploy_authorize", !.job = j, !.env = env,
                                 !.sha = sha, !.decision = decision, !.batchTo = batchTo]
    <2>0. batchTo \in BatchStatuses \cup {"none"}
      BY DEF Dirty, BatchStatuses
    <2>4. Receive(h, c)
      BY <1>1 DEF AuthorizeDeployment
    <2>5. \E head \in Heads : <<j, head, sha>> \in merged
      BY <1>0, <1>1 DEF AuthorizeDeployment
    <2> HIDE DEF batchTo
    <2>1. c \in Call
      BY <2>0 DEF Idle, Call, Ops, OwnerDecisions
    <2>2. WellFormed(c)
      BY DEF Idle, WellFormed, OwnerDecisions
    <2>3. SoundCall(c)
      BY <2>5 DEF Idle, SoundCall, Carries
    <2> HIDE DEF c
    <2> QED  BY <2>1, <2>2, <2>3, <2>4, ReceiveIInv
  <1>2. CASE StartDeployment(h, j, env, sha)
    <2> DEFINE c == [Idle EXCEPT !.op = "deploy_start", !.job = j, !.env = env, !.sha = sha]
    <2>4. Receive(h, c)
      BY <1>2 DEF StartDeployment
    <2>5. <<j, env, sha>> \in approved
      <3> DEFINE p == <<j, env>>
      <3>1. p \in Jobs \X Envs /\ p[1] = j /\ p[2] = env
        OBVIOUS
      <3>2. ApprovedFor(j, env, sha)
        BY <1>2 DEF StartDeployment
      <3>3. promo[p].auth.decision = "APPROVED" /\ promo[p].auth.sha = sha
        BY <3>2 DEF ApprovedFor
      <3> HIDE DEF p
      <3> QED  BY <3>1, <3>3 DEF IInv, Backed, BackedDoc, BackedPromo
    <2>1. c \in Call
      BY DEF Idle, Call, Ops, OwnerDecisions
    <2>2. WellFormed(c)
      BY DEF Idle, WellFormed
    <2>3. SoundCall(c)
      BY <2>5 DEF Idle, SoundCall, Carries
    <2> HIDE DEF c
    <2> QED  BY <2>1, <2>2, <2>3, <2>4, ReceiveIInv
  <1>3. ASSUME NEW decision \in {"DEPLOYED", "DEPLOYMENT_BLOCKED"},
               CompleteDeployment(h, j, env, sha, decision)
        PROVE  IInv'
    <2> DEFINE batchTo == Dirty(IF decision = "DEPLOYED" THEN "complete" ELSE "paused_safety_gate")
               c == [Idle EXCEPT !.op = "deploy_complete", !.job = j, !.env = env,
                                 !.sha = sha, !.decision = decision, !.batchTo = batchTo]
    <2>0. batchTo \in BatchStatuses \cup {"none"}
      BY DEF Dirty, BatchStatuses
    <2>4. Receive(h, c)
      BY <1>3 DEF CompleteDeployment
    <2>5. \E head \in Heads : <<j, head, sha>> \in merged
      BY <1>0, <1>3 DEF CompleteDeployment
    <2>6. \E old \in Shas : <<j, env, old>> \in approved
      <3> DEFINE p == <<j, env>>
      <3>1. p \in Jobs \X Envs /\ p[1] = j /\ p[2] = env
        OBVIOUS
      <3>2. promo[p].manifest # None
        BY <1>3 DEF CompleteDeployment
      <3>3. promo[p] \in Promo
        BY <3>1 DEF IInv, TypeOK
      <3> HIDE DEF p
      <3>4. promo[p].manifest \in Shas
        BY <3>2, <3>3 DEF Promo
      <3> QED  BY <3>1, <3>2, <3>4 DEF IInv, Backed, BackedDoc, BackedPromo
    <2> HIDE DEF batchTo
    <2>1. c \in Call
      BY <2>0 DEF Idle, Call, Ops, DeployDecisions
    <2>2. WellFormed(c)
      BY DEF Idle, WellFormed, DeployDecisions
    <2>3. SoundCall(c)
      BY <2>5, <2>6 DEF Idle, SoundCall, Carries
    <2> HIDE DEF c
    <2> QED  BY <2>1, <2>2, <2>3, <2>4, ReceiveIInv
  <1> QED  BY <1>1, <1>2, <1>3

-----------------------------------------------------------------------------
(* Requests: what they write.                                              *)

\* A write leaves the rows alone and marks or ends its own request.
WriteStep(h) ==
    /\ UNCHANGED rows
    /\ Written(h) \/ Answered(h)

\* What every write has to show of the artifacts and the history.
Grows ==
    /\ verified \subseteq verified'
    /\ released \subseteq released'
    /\ merged \subseteq merged'
    /\ approved \subseteq approved'
    /\ HasManifest => HasManifest'

\* What a request carries survives a step that only adds to the history.
LEMMA GrowsCarries ==
    ASSUME NEW c, Grows, Carries(c, verified, released, merged, approved, HasManifest)
    PROVE  Carries(c, verified', released', merged', approved', HasManifest')
  <1>1. HasManifest = TRUE => HasManifest' = TRUE
    BY DEF Grows, HasManifest
  <1>2. /\ verified \subseteq verified' /\ released \subseteq released'
        /\ merged \subseteq merged' /\ approved \subseteq approved'
    BY DEF Grows
  <1> QED  BY <1>1, <1>2 DEF Carries

\* History only grows, so what other requests have seen stays seen.
LEMMA OthersStaySound ==
    ASSUME IInv, Grows, NEW g \in Handlers, call'[g] = call[g]
    PROVE  (WellFormed(call[g]) /\ SoundCall(call[g]))'
  <1>1. WellFormed(call'[g])
    BY DEF IInv
  <1>2. Carries(call'[g], verified, released, merged, approved, HasManifest)
    BY DEF IInv, SoundCall
  <1>3. Carries(call'[g], verified', released', merged', approved', HasManifest')
    BY <1>2, GrowsCarries
  <1> QED  BY <1>1, <1>3 DEF WellFormed, SoundCall

\* A write marks its request written and leaves the others sound.
LEMMA WriteKeepsCalls ==
    ASSUME IInv, Grows, NEW h \in Handlers, WriteStep(h),
           call[h].itemTo = "graduated" => verified' # {},
           call[h].itemTo = "retest" => HasManifest'
    PROVE  /\ call' \in [Handlers -> Call]
           /\ \A g \in Handlers : (WellFormed(call[g]) /\ SoundCall(call[g]))'
           /\ RetestHasManifest'
           /\ GraduatedIsVerified'
  <1>0. call \in [Handlers -> Call] /\ call[h] \in Call
    BY DEF IInv, TypeOK
  <1>1. call' \in [Handlers -> Call]
    <2>1. [call[h] EXCEPT !.wrote = TRUE] \in Call
      BY <1>0 DEF Call
    <2>2. call' = [call EXCEPT ![h] = [call[h] EXCEPT !.wrote = TRUE]] \/ call' = [call EXCEPT ![h] = Idle]
      BY <1>0 DEF WriteStep, Written, Answered
    <2> QED  BY <1>0, <2>1, <2>2, IdleIsSound
  <1>2. ASSUME NEW g \in Handlers
        PROVE  (WellFormed(call[g]) /\ SoundCall(call[g]))'
    <2>1. CASE g # h
      <3>1. call'[g] = call[g]
        BY <1>0, <2>1 DEF WriteStep, Written, Answered
      <3> QED  BY <3>1, OthersStaySound
    <2>2. CASE g = h /\ Answered(h)
      <3>1. call'[g] = Idle
        BY <1>0, <2>2 DEF Answered
      <3>2. WellFormed(Idle) /\ SoundCall(Idle)'
        BY IdleIsSound DEF Idle, SoundCall, Carries
      <3> QED  BY <3>1, <3>2 DEF WellFormed, SoundCall
    <2>3. CASE g = h /\ Written(h)
      <3> DEFINE c == call[h]
                 d == call'[h]
      <3>1. /\ d.op = c.op /\ d.job = c.job /\ d.env = c.env /\ d.decision = c.decision
            /\ d.head = c.head /\ d.sha = c.sha /\ d.move = c.move
            /\ d.itemTo = c.itemTo /\ d.jobTo = c.jobTo
        BY <1>0, <2>3 DEF Written, Call
      <3>2. WellFormed(c) /\ Carries(c, verified, released, merged, approved, HasManifest)
        BY DEF IInv, SoundCall
      <3>3. Carries(c, verified', released', merged', approved', HasManifest')
        BY <3>2, GrowsCarries
      <3>4. WellFormed(d)
        <4> HIDE DEF c, d
        <4> QED  BY <3>1, <3>2 DEF WellFormed
      <3>5. (c.itemTo = "graduated" => verified' # {}) /\ (c.itemTo = "retest" => HasManifest' = TRUE)
        BY DEF HasManifest
      <3>6. Carries(d, verified', released', merged', approved', HasManifest')
        <4> HIDE DEF c, d
        <4> QED  BY <3>1, <3>3, <3>5 DEF Carries
      <3> QED  BY <2>3, <3>4, <3>6 DEF WellFormed, SoundCall
    <2> QED  BY <2>1, <2>2, <2>3 DEF WriteStep
  <1>3. RetestHasManifest' /\ GraduatedIsVerified'
    BY DEF IInv, WriteStep, rows, Grows, RetestHasManifest, GraduatedIsVerified, HasManifest
  <1> QED  BY <1>1, <1>2, <1>3

\* The handoff artifact carries nothing the invariant speaks of.
LEMMA WriteHandoffIInv ==
    ASSUME IInv, NEW h \in Handlers, WriteHandoff(h)
    PROVE  IInv'
  <1>1. call[h].op \in {"prepare", "decide"} /\ WriteStep(h) /\ Grows
    BY DEF WriteHandoff, Unwritten, WriteStep, Grows, history, HasManifest
  <1>2. call[h].itemTo \notin {"graduated", "retest"}
    BY <1>1 DEF IInv, SoundCall, Carries
  <1>3. handoff' \in HandoffStates
    BY <1>1 DEF WriteHandoff, IInv, WellFormed
  <1>4. Backed' /\ Ordered' /\ DeployedIsBacked'
    BY DEF WriteHandoff, history, IInv, Backed, Ordered, DeployedIsBacked
  <1>5. UNCHANGED <<rows, doc, promo>>
    BY DEF WriteHandoff
  <1> QED  BY <1>1, <1>2, <1>3, <1>4, <1>5, WriteKeepsCalls DEF IInv, TypeOK, rows

\* A write to a job's documents: enough that the new documents are backed.
LEMMA DocWrite ==
    ASSUME IInv, NEW h \in Handlers, NEW j \in Jobs, NEW d \in Doc,
           doc' = [doc EXCEPT ![j] = d],
           UNCHANGED <<rows, handoff, promo, approved>>,
           Written(h) \/ Answered(h),
           verified \subseteq verified', released \subseteq released', merged \subseteq merged',
           doc[j].retest.writer # None => d.retest.writer # None,
           BackedDoc(j, d, verified', released', merged'),
           Ordered',
           call[h].itemTo = "graduated" => verified' # {},
           call[h].itemTo = "retest" => d.retest.writer # None
    PROVE  IInv'
  <1>0. doc \in [Jobs -> Doc]
    BY DEF IInv, TypeOK
  <1>1. doc' \in [Jobs -> Doc] /\ doc'[j] = d /\ \A k \in Jobs \ {j} : doc'[k] = doc[k]
    BY <1>0
  <1>2. HasManifest => HasManifest'
    BY <1>1 DEF HasManifest
  <1>3. call[h].itemTo = "retest" => HasManifest'
    BY <1>1 DEF HasManifest
  <1>4. WriteStep(h) /\ Grows
    BY <1>2 DEF WriteStep, Grows
  <1>5. ASSUME NEW k \in Jobs
        PROVE  BackedDoc(k, doc'[k], verified', released', merged')
    <2>1. CASE k = j
      BY <1>1, <2>1
    <2>2. CASE k # j
      <3>1. doc'[k] = doc[k] /\ BackedDoc(k, doc[k], verified, released, merged)
        BY <1>1, <2>2 DEF IInv, Backed
      <3> QED  BY <3>1 DEF BackedDoc
    <2> QED  BY <2>1, <2>2
  <1>6. Backed'
    <2>1. ASSUME NEW p \in Jobs \X Envs
          PROVE  BackedPromo(p, promo'[p], approved')
      BY DEF IInv, Backed
    <2> QED  BY <1>5, <2>1 DEF Backed
  <1>7. DeployedIsBacked'
    BY DEF IInv, DeployedIsBacked
  <1> QED  BY <1>1, <1>3, <1>4, <1>6, <1>7, WriteKeepsCalls DEF IInv, TypeOK, rows

\* Neither does result.json.
LEMMA WriteResultIInv ==
    ASSUME IInv, NEW h \in Handlers, WriteResult(h)
    PROVE  IInv'
  <1> DEFINE j == call[h].job
             x == call[h].head
             d == [doc[j] EXCEPT !.result = x]
  <1>0. call[h] \in Call /\ j \in Jobs /\ call[h].op = "codex_complete" /\ doc \in [Jobs -> Doc]
    BY DEF WriteResult, Unwritten, IInv, TypeOK, WellFormed
  <1>1. x \in Heads \cup {None}
    BY <1>0 DEF Call
  <1>2. /\ doc' = [doc EXCEPT ![j].result = x]
        /\ UNCHANGED <<rows, handoff, promo, history>> /\ Written(h)
    BY DEF WriteResult
  <1>3. call[h].itemTo \notin {"graduated", "retest"}
    BY <1>0 DEF IInv, SoundCall, Carries
  <1>4. BackedDoc(j, doc[j], verified, released, merged) /\ doc[j] \in Doc
    BY <1>0 DEF IInv, Backed
  <1>5. Ordered'
    BY <1>2 DEF IInv, Ordered, history
  <1> HIDE DEF j, x
  <1>6. /\ d \in Doc /\ d.retest = doc[j].retest
        /\ d.verification = doc[j].verification
        /\ d.authorization = doc[j].authorization
        /\ d.promotion = doc[j].promotion
    BY <1>1, <1>4 DEF Doc
  <1>7. doc' = [doc EXCEPT ![j] = d]
    BY <1>0, <1>2
  <1> HIDE DEF d
  <1>8. BackedDoc(j, d, verified', released', merged')
    BY <1>2, <1>4, <1>6 DEF BackedDoc, history
  <1> QED  BY <1>0, <1>2, <1>3, <1>5, <1>6, <1>7, <1>8, DocWrite DEF history

\* The retest manifest only adds to the manifests on disk.
LEMMA WriteRetestManifestIInv ==
    ASSUME IInv, NEW h \in Handlers, WriteRetestManifest(h)
    PROVE  IInv'
  <1> DEFINE j == call[h].job
             x == [writer |-> h, lease |-> "pending"]
             d == [doc[j] EXCEPT !.retest = x]
  <1>0. j \in Jobs /\ call[h].op = "retest_start" /\ doc \in [Jobs -> Doc]
    BY DEF WriteRetestManifest, Unwritten, IInv, TypeOK, WellFormed
  <1>1. /\ doc' = [doc EXCEPT ![j].retest = x]
        /\ UNCHANGED <<rows, handoff, promo, history>> /\ Written(h)
    BY DEF WriteRetestManifest
  <1>2. call[h].itemTo # "graduated"
    BY <1>0 DEF IInv, SoundCall, Carries
  <1>3. BackedDoc(j, doc[j], verified, released, merged) /\ doc[j] \in Doc
    BY <1>0 DEF IInv, Backed
  <1>4. Ordered'
    BY <1>1 DEF IInv, Ordered, history
  <1>5. x \in [writer : Handlers \cup {None}, lease : Leases] /\ x.writer # None
    BY NoneAssumption DEF Leases
  <1> HIDE DEF j, x
  <1>6. /\ d \in Doc /\ d.retest = x
        /\ d.verification = doc[j].verification
        /\ d.authorization = doc[j].authorization
        /\ d.promotion = doc[j].promotion
    BY <1>3, <1>5 DEF Doc
  <1>7. doc' = [doc EXCEPT ![j] = d]
    BY <1>0, <1>1
  <1> HIDE DEF d
  <1>8. BackedDoc(j, d, verified', released', merged')
    BY <1>1, <1>3, <1>6 DEF BackedDoc, history
  <1> QED  BY <1>0, <1>1, <1>2, <1>4, <1>5, <1>6, <1>7, <1>8, DocWrite DEF history

\* Nor does the merge manifest.
LEMMA WriteMergeManifestIInv ==
    ASSUME IInv, NEW h \in Handlers, WriteMergeManifest(h)
    PROVE  IInv'
  <1> DEFINE j == call[h].job
             d == [doc[j] EXCEPT !.mergeManifest = TRUE]
  <1>0. j \in Jobs /\ call[h].op = "merge_start" /\ doc \in [Jobs -> Doc]
    BY DEF WriteMergeManifest, Unwritten, IInv, TypeOK, WellFormed
  <1>1. /\ doc' = [doc EXCEPT ![j].mergeManifest = TRUE]
        /\ UNCHANGED <<rows, handoff, promo, history>> /\ Answered(h)
    BY DEF WriteMergeManifest
  <1>2. call[h].itemTo \notin {"graduated", "retest"}
    BY <1>0 DEF IInv, SoundCall, Carries
  <1>3. BackedDoc(j, doc[j], verified, released, merged) /\ doc[j] \in Doc
    BY <1>0 DEF IInv, Backed
  <1>4. Ordered'
    BY <1>1 DEF IInv, Ordered, history
  <1> HIDE DEF j
  <1>5. /\ d \in Doc /\ d.retest = doc[j].retest
        /\ d.verification = doc[j].verification
        /\ d.authorization = doc[j].authorization
        /\ d.promotion = doc[j].promotion
    BY <1>3 DEF Doc
  <1>6. doc' = [doc EXCEPT ![j] = d]
    BY <1>0, <1>1
  <1> HIDE DEF d
  <1>7. BackedDoc(j, d, verified', released', merged')
    BY <1>1, <1>3, <1>5 DEF BackedDoc, history
  <1> QED  BY <1>0, <1>1, <1>2, <1>4, <1>5, <1>6, <1>7, DocWrite DEF history

\* A verification on file is in the history it is written with.
LEMMA WriteVerificationIInv ==
    ASSUME IInv, NEW h \in Handlers, WriteVerification(h)
    PROVE  IInv'
  <1> DEFINE j == call[h].job
             head == call[h].head
             decision == call[h].decision
             x == [decision |-> decision, head |-> head]
             d == [doc[j] EXCEPT !.verification = x]
  <1>0. /\ j \in Jobs /\ call[h].op = "retest_complete" /\ doc \in [Jobs -> Doc]
        /\ decision \in RetestDecisions /\ head \in Heads
    BY DEF WriteVerification, Unwritten, IInv, TypeOK, WellFormed
  <1>1. /\ doc' = [doc EXCEPT ![j].verification = x]
        /\ UNCHANGED <<rows, handoff, promo, released, merged, approved>> /\ Written(h)
        /\ verified' = IF decision = "VERIFIED_IMPROVEMENT"
                         THEN verified \cup {<<j, head>>} ELSE verified
    BY DEF WriteVerification
  <1>2. call[h].itemTo # "retest" /\ (call[h].itemTo = "graduated" => decision = "VERIFIED_IMPROVEMENT")
    BY <1>0 DEF IInv, SoundCall, Carries
  <1>3. BackedDoc(j, doc[j], verified, released, merged) /\ doc[j] \in Doc
    BY <1>0 DEF IInv, Backed
  <1>4. Ordered'
    BY <1>1 DEF IInv, Ordered
  <1> HIDE DEF j, decision, head
  <1>5. x \in [decision : RetestDecisions \cup {"none"}, head : Heads \cup {None}]
        /\ x.decision = decision /\ x.head = head
    BY <1>0
  <1> HIDE DEF x
  <1>6. /\ d \in Doc /\ d.retest = doc[j].retest
        /\ d.verification = x
        /\ d.authorization = doc[j].authorization
        /\ d.promotion = doc[j].promotion
    BY <1>3, <1>5 DEF Doc
  <1>7. doc' = [doc EXCEPT ![j] = d]
    BY <1>0, <1>1
  <1> HIDE DEF d
  <1>8. BackedDoc(j, d, verified', released', merged')
    BY <1>1, <1>3, <1>5, <1>6 DEF BackedDoc
  <1>9. verified \subseteq verified' /\ (decision = "VERIFIED_IMPROVEMENT" => verified' # {})
    BY <1>1
  <1> QED  BY <1>0, <1>1, <1>2, <1>4, <1>6, <1>7, <1>8, <1>9, DocWrite

\* An authorization on file is of a verified head.
LEMMA WriteAuthorizationIInv ==
    ASSUME IInv, NEW h \in Handlers, WriteAuthorization(h)
    PROVE  IInv'
  <1> DEFINE j == call[h].job
             head == call[h].head
             decision == call[h].decision
             x == [decision |-> decision, head |-> head]
             d == [doc[j] EXCEPT !.authorization = x]
  <1>0. /\ j \in Jobs /\ call[h].op = "release" /\ doc \in [Jobs -> Doc]
        /\ decision \in OwnerDecisions /\ head \in Heads
    BY DEF WriteAuthorization, Unwritten, IInv, TypeOK, WellFormed
  <1>1. /\ doc' = [doc EXCEPT ![j].authorization = x]
        /\ UNCHANGED <<rows, handoff, promo, verified, merged, approved>> /\ Written(h)
        /\ released' = IF decision = "APPROVED" THEN released \cup {<<j, head>>} ELSE released
    BY DEF WriteAuthorization
  <1>2. call[h].itemTo \notin {"graduated", "retest"} /\ <<j, head>> \in verified
    BY <1>0 DEF IInv, SoundCall, Carries
  <1>3. BackedDoc(j, doc[j], verified, released, merged) /\ doc[j] \in Doc
    BY <1>0 DEF IInv, Backed
  <1> HIDE DEF j, decision, head
  <1>4. Ordered'
    BY <1>1, <1>2 DEF IInv, Ordered
  <1>5. x \in [decision : OwnerDecisions, head : Heads \cup {None}]
        /\ x.decision = decision /\ x.head = head
    BY <1>0
  <1> HIDE DEF x
  <1>6. /\ d \in Doc /\ d.retest = doc[j].retest
        /\ d.verification = doc[j].verification
        /\ d.authorization = x
        /\ d.promotion = doc[j].promotion
    BY <1>3, <1>5 DEF Doc
  <1>7. doc' = [doc EXCEPT ![j] = d]
    BY <1>0, <1>1
  <1> HIDE DEF d
  <1>8. BackedDoc(j, d, verified', released', merged')
    BY <1>1, <1>3, <1>5, <1>6 DEF BackedDoc
  <1>9. released \subseteq released'
    BY <1>1
  <1> QED  BY <1>0, <1>1, <1>2, <1>4, <1>6, <1>7, <1>8, <1>9, DocWrite

\* A promotion on file is of a released head.
LEMMA WritePromotionIInv ==
    ASSUME IInv, NEW h \in Handlers, WritePromotion(h)
    PROVE  IInv'
  <1> DEFINE j == call[h].job
             head == call[h].head
             sha == call[h].sha
             decision == call[h].decision
             x == [decision |-> decision, head |-> head, sha |-> sha]
             d == [doc[j] EXCEPT !.promotion = x]
  <1>0. /\ j \in Jobs /\ call[h].op = "merge_complete" /\ doc \in [Jobs -> Doc]
        /\ decision \in MergeDecisions /\ head \in Heads /\ call[h] \in Call
    BY DEF WritePromotion, Unwritten, IInv, TypeOK, WellFormed
  <1>1. /\ doc' = [doc EXCEPT ![j].promotion = x]
        /\ UNCHANGED <<rows, handoff, promo, verified, released, approved>> /\ Written(h)
        /\ merged' = IF decision = "MERGED_RELEASE_CANDIDATE"
                       THEN merged \cup {<<j, head, sha>>} ELSE merged
    BY DEF WritePromotion
  <1>2. call[h].itemTo \notin {"graduated", "retest"} /\ <<j, head>> \in released
    BY <1>0 DEF IInv, SoundCall, Carries
  <1>3. BackedDoc(j, doc[j], verified, released, merged) /\ doc[j] \in Doc
    BY <1>0 DEF IInv, Backed
  <1>S. sha \in Shas \cup {None}
    BY <1>0 DEF Call
  <1> HIDE DEF j, decision, head, sha
  <1>4. Ordered'
    BY <1>1, <1>2 DEF IInv, Ordered
  <1>5. /\ x \in [decision : MergeDecisions, head : Heads \cup {None}, sha : Shas \cup {None}]
        /\ x.decision = decision /\ x.head = head /\ x.sha = sha
    BY <1>0, <1>S
  <1> HIDE DEF x
  <1>6. /\ d \in Doc /\ d.retest = doc[j].retest
        /\ d.verification = doc[j].verification
        /\ d.authorization = doc[j].authorization
        /\ d.promotion = x
    BY <1>3, <1>5 DEF Doc
  <1>7. doc' = [doc EXCEPT ![j] = d]
    BY <1>0, <1>1
  <1> HIDE DEF d
  <1>8. BackedDoc(j, d, verified', released', merged')
    BY <1>0, <1>1, <1>3, <1>5, <1>6 DEF BackedDoc
  <1>9. merged \subseteq merged'
    BY <1>1
  <1> QED  BY <1>0, <1>1, <1>2, <1>4, <1>6, <1>7, <1>8, <1>9, DocWrite

\* What a promotion result that says DEPLOYED needs behind it.
BackedResult(p, e, a) ==
    e.result.decision = "DEPLOYED" =>
        /\ \E head \in Heads : /\ <<p[1], head>> \in verified
                                /\ <<p[1], head>> \in released
                                /\ <<p[1], head, e.result.sha>> \in merged
        /\ \E sha \in Shas : <<p[1], p[2], sha>> \in a

\* A write to the documents of one promotion.
LEMMA PromoWrite ==
    ASSUME IInv, NEW h \in Handlers, NEW p \in Jobs \X Envs, NEW e \in Promo,
           promo' = [promo EXCEPT ![p] = e],
           UNCHANGED <<rows, handoff, doc, verified, released, merged>>,
           Written(h) \/ Answered(h),
           approved \subseteq approved',
           BackedPromo(p, e, approved'),
           BackedResult(p, e, approved'),
           call[h].itemTo \notin {"graduated", "retest"}
    PROVE  IInv'
  <1>0. promo \in [Jobs \X Envs -> Promo]
    BY DEF IInv, TypeOK
  <1>1. /\ promo' \in [Jobs \X Envs -> Promo] /\ promo'[p] = e
        /\ \A q \in (Jobs \X Envs) \ {p} : promo'[q] = promo[q]
    BY <1>0
  <1>2. HasManifest => HasManifest'
    BY DEF HasManifest
  <1>3. WriteStep(h) /\ Grows
    BY <1>2 DEF WriteStep, Grows
  <1>4. ASSUME NEW q \in Jobs \X Envs
        PROVE  BackedPromo(q, promo'[q], approved')
    <2>1. CASE q = p
      BY <1>1, <2>1
    <2>2. CASE q # p
      <3>1. promo'[q] = promo[q] /\ BackedPromo(q, promo[q], approved)
        BY <1>1, <2>2 DEF IInv, Backed
      <3> QED  BY <3>1 DEF BackedPromo
    <2> QED  BY <2>1, <2>2
  <1>5. Backed'
    <2>1. ASSUME NEW k \in Jobs
          PROVE  BackedDoc(k, doc'[k], verified', released', merged')
      BY DEF IInv, Backed
    <2> QED  BY <1>4, <2>1 DEF Backed
  <1>6. Ordered'
    BY DEF IInv, Ordered
  <1>7. DeployedIsBacked'
    <2> SUFFICES ASSUME NEW j \in Jobs, NEW env \in Envs,
                        promo'[<<j, env>>].result.decision = "DEPLOYED"
                 PROVE  /\ \E head \in Heads :
                              /\ <<j, head>> \in verified'
                              /\ <<j, head>> \in released'
                              /\ <<j, head, promo'[<<j, env>>].result.sha>> \in merged'
                        /\ \E sha \in Shas : <<j, env, sha>> \in approved'
      BY DEF DeployedIsBacked
    <2> DEFINE q == <<j, env>>
    <2>1. q \in Jobs \X Envs /\ q[1] = j /\ q[2] = env
      OBVIOUS
    <2>2. CASE q = p
      <3>1. promo'[q] = e /\ p[1] = j /\ p[2] = env
        BY <1>1, <2>1, <2>2
      <3> QED  BY <3>1 DEF BackedResult
    <2>3. CASE q # p
      <3>1. promo'[q] = promo[q]
        BY <1>1, <2>1, <2>3
      <3>2. /\ \E head \in Heads : /\ <<j, head>> \in verified
                                    /\ <<j, head>> \in released
                                    /\ <<j, head, promo[q].result.sha>> \in merged
            /\ \E sha \in Shas : <<j, env, sha>> \in approved
        BY <3>1 DEF IInv, DeployedIsBacked
      <3> QED  BY <3>1, <3>2
    <2> QED  BY <2>2, <2>3
  <1> QED  BY <1>1, <1>3, <1>5, <1>6, <1>7, WriteKeepsCalls DEF IInv, TypeOK, rows

\* The result already on file is backed.
LEMMA ResultIsBacked ==
    ASSUME IInv, NEW p \in Jobs \X Envs
    PROVE  BackedResult(p, promo[p], approved)
  <1>1. PICK j \in Jobs, env \in Envs : p = <<j, env>>
    OBVIOUS
  <1>2. p[1] = j /\ p[2] = env
    BY <1>1
  <1> QED  BY <1>1, <1>2 DEF IInv, DeployedIsBacked, BackedResult

\* A deployment authorization on file is of a merged commit.
LEMMA WriteDeployAuthIInv ==
    ASSUME IInv, NEW h \in Handlers, WriteDeployAuth(h)
    PROVE  IInv'
  <1> DEFINE j == call[h].job
             env == call[h].env
             sha == call[h].sha
             decision == call[h].decision
             p == <<j, env>>
             x == [decision |-> decision, sha |-> sha]
             e == [promo[p] EXCEPT !.auth = x]
  <1>0. /\ j \in Jobs /\ env \in Envs /\ sha \in Shas /\ decision \in OwnerDecisions
        /\ call[h].op = "deploy_authorize" /\ promo \in [Jobs \X Envs -> Promo]
    BY DEF WriteDeployAuth, Unwritten, IInv, TypeOK, WellFormed
  <1>1. /\ promo' = [promo EXCEPT ![p].auth = x]
        /\ UNCHANGED <<rows, handoff, doc, verified, released, merged>> /\ Written(h)
        /\ approved' = IF decision = "APPROVED" THEN approved \cup {<<j, env, sha>>} ELSE approved
    BY DEF WriteDeployAuth
  <1>2. call[h].itemTo \notin {"graduated", "retest"}
    BY <1>0 DEF IInv, SoundCall, Carries
  <1> HIDE DEF j, env, sha, decision
  <1>3. p \in Jobs \X Envs /\ p[1] = j /\ p[2] = env
    BY <1>0
  <1> HIDE DEF p
  <1>4. BackedPromo(p, promo[p], approved) /\ BackedResult(p, promo[p], approved) /\ promo[p] \in Promo
    BY <1>0, <1>3, ResultIsBacked DEF IInv, Backed
  <1>5. x \in [decision : OwnerDecisions, sha : Shas \cup {None}] /\ x.decision = decision /\ x.sha = sha
    BY <1>0
  <1> HIDE DEF x
  <1>6. e \in Promo /\ e.auth = x /\ e.manifest = promo[p].manifest /\ e.result = promo[p].result
    BY <1>4, <1>5 DEF Promo
  <1>7. promo' = [promo EXCEPT ![p] = e]
    BY <1>0, <1>1, <1>3
  <1> HIDE DEF e
  <1>8. approved \subseteq approved'
    BY <1>1
  <1>9. BackedPromo(p, e, approved')
    BY <1>1, <1>3, <1>4, <1>5, <1>6 DEF BackedPromo
  <1>10. BackedResult(p, e, approved')
    BY <1>4, <1>6, <1>8 DEF BackedResult
  <1> QED  BY <1>1, <1>2, <1>3, <1>6, <1>7, <1>8, <1>9, <1>10, PromoWrite

\* A promotion manifest is of an authorized environment.
LEMMA WriteDeployManifestIInv ==
    ASSUME IInv, NEW h \in Handlers, WriteDeployManifest(h)
    PROVE  IInv'
  <1> DEFINE j == call[h].job
             env == call[h].env
             sha == call[h].sha
             p == <<j, env>>
             e == [promo[p] EXCEPT !.manifest = sha]
  <1>0. /\ j \in Jobs /\ env \in Envs /\ sha \in Shas
        /\ call[h].op = "deploy_start" /\ promo \in [Jobs \X Envs -> Promo]
    BY DEF WriteDeployManifest, Unwritten, IInv, TypeOK, WellFormed
  <1>1. /\ promo' = [promo EXCEPT ![p].manifest = sha]
        /\ UNCHANGED <<rows, handoff, doc, history>> /\ Answered(h)
    BY DEF WriteDeployManifest
  <1>2. call[h].itemTo \notin {"graduated", "retest"} /\ <<j, env, sha>> \in approved
    BY <1>0 DEF IInv, SoundCall, Carries
  <1> HIDE DEF j, env, sha
  <1>3. p \in Jobs \X Envs /\ p[1] = j /\ p[2] = env
    BY <1>0
  <1> HIDE DEF p
  <1>4. BackedPromo(p, promo[p], approved) /\ BackedResult(p, promo[p], approved) /\ promo[p] \in Promo
    BY <1>0, <1>3, ResultIsBacked DEF IInv, Backed
  <1>5. e \in Promo /\ e.auth = promo[p].auth /\ e.manifest = sha /\ e.result = promo[p].result
    BY <1>0, <1>4 DEF Promo
  <1>6. promo' = [promo EXCEPT ![p] = e]
    BY <1>0, <1>1, <1>3
  <1> HIDE DEF e
  <1>7. approved' = approved
    BY <1>1 DEF history
  <1>8. BackedPromo(p, e, approved')
    BY <1>2, <1>3, <1>4, <1>5, <1>7 DEF BackedPromo
  <1>9. BackedResult(p, e, approved')
    BY <1>4, <1>5, <1>7 DEF BackedResult
  <1> QED  BY <1>1, <1>2, <1>3, <1>5, <1>6, <1>7, <1>8, <1>9, PromoWrite DEF history

\* A promotion result on file is backed by the whole chain.
LEMMA WriteDeployResultIInv ==
    ASSUME IInv, NEW h \in Handlers, WriteDeployResult(h)
    PROVE  IInv'
  <1> DEFINE j == call[h].job
             env == call[h].env
             sha == call[h].sha
             decision == call[h].decision
             p == <<j, env>>
             x == [decision |-> decision, sha |-> sha]
             e == [promo[p] EXCEPT !.result = x]
  <1>0. /\ j \in Jobs /\ env \in Envs /\ sha \in Shas /\ decision \in DeployDecisions
        /\ call[h].op = "deploy_complete" /\ promo \in [Jobs \X Envs -> Promo]
    BY DEF WriteDeployResult, Unwritten, IInv, TypeOK, WellFormed
  <1>1. /\ promo' = [promo EXCEPT ![p].result = x]
        /\ UNCHANGED <<rows, handoff, doc, verified, released, merged, approved>> /\ Written(h)
    BY DEF WriteDeployResult
  <1>2. /\ call[h].itemTo \notin {"graduated", "retest"}
        /\ \E head \in Heads : <<j, head, sha>> \in merged
        /\ \E old \in Shas : <<j, env, old>> \in approved
    BY <1>0 DEF IInv, SoundCall, Carries
  <1> HIDE DEF j, env, sha, decision
  <1>3. p \in Jobs \X Envs /\ p[1] = j /\ p[2] = env
    BY <1>0
  <1> HIDE DEF p
  <1>4. BackedPromo(p, promo[p], approved) /\ promo[p] \in Promo
    BY <1>0, <1>3 DEF IInv, Backed
  <1>5. x \in [decision : DeployDecisions, sha : Shas \cup {None}] /\ x.sha = sha
    BY <1>0
  <1> HIDE DEF x
  <1>6. e \in Promo /\ e.auth = promo[p].auth /\ e.manifest = promo[p].manifest /\ e.result = x
    BY <1>4, <1>5 DEF Promo
  <1>7. promo' = [promo EXCEPT ![p] = e]
    BY <1>0, <1>1, <1>3
  <1> HIDE DEF e
  <1>8. BackedPromo(p, e, approved')
    BY <1>1, <1>4, <1>6 DEF BackedPromo
  <1>9. BackedResult(p, e, approved')
    <2>1. PICK head \in Heads : <<j, head, sha>> \in merged
      BY <1>2
    <2>2. <<j, head>> \in released /\ <<j, head>> \in verified
      BY <1>0, <2>1 DEF IInv, Ordered
    <2> QED  BY <1>1, <1>2, <1>3, <1>5, <1>6, <2>1, <2>2 DEF BackedResult
  <1> QED  BY <1>1, <1>2, <1>3, <1>6, <1>7, <1>8, <1>9, PromoWrite

-----------------------------------------------------------------------------
(* Commits, answers, aborts and the stale sweep.                           *)

\* A request that commits or ends leaves every request sound.
LEMMA CallKeepsCalls ==
    ASSUME IInv, Grows, NEW h \in Handlers, NEW c \in Call,
           call' = [call EXCEPT ![h] = c], WellFormed(c), c.itemTo = "none",
           c.op \in {"idle", "retest_answer"}
    PROVE  /\ call' \in [Handlers -> Call]
           /\ \A g \in Handlers : (WellFormed(call[g]) /\ SoundCall(call[g]))'
  <1>0. call \in [Handlers -> Call]
    BY DEF IInv, TypeOK
  <1>1. call' \in [Handlers -> Call]
    BY <1>0
  <1>2. ASSUME NEW g \in Handlers
        PROVE  (WellFormed(call[g]) /\ SoundCall(call[g]))'
    <2>1. CASE g # h
      <3>1. call'[g] = call[g]
        BY <1>0, <2>1
      <3> QED  BY <3>1, OthersStaySound
    <2>2. CASE g = h
      <3>1. call'[g] = c
        BY <1>0, <2>2
      <3>2. SoundCall(c)'
        BY DEF SoundCall, Carries
      <3> QED  BY <3>1, <3>2 DEF WellFormed, SoundCall
    <2> QED  BY <2>1, <2>2
  <1> QED  BY <1>1, <1>2

\* Likewise for one that ends.
LEMMA AnsweredKeepsCalls ==
    ASSUME IInv, Grows, NEW h \in Handlers, Answered(h)
    PROVE  /\ call' \in [Handlers -> Call]
           /\ \A g \in Handlers : (WellFormed(call[g]) /\ SoundCall(call[g]))'
  <1>1. call' = [call EXCEPT ![h] = Idle]
    BY DEF Answered
  <1>2. Idle.itemTo = "none" /\ Idle.op = "idle"
    BY DEF Idle
  <1> QED  BY <1>1, <1>2, IdleIsSound, CallKeepsCalls

\* A commit changes columns and answers its request.
LEMMA CommitIInv ==
    ASSUME IInv, NEW h \in Handlers, Commit(h)
    PROVE  IInv'
  <1> DEFINE c == call[h]
             k == c.job
             d == IF c.op = "retest_start" THEN [Idle EXCEPT !.op = "retest_answer", !.job = k]
                                           ELSE Idle
  <1>0. /\ c \in Call /\ WellFormed(c) /\ c.wrote = TRUE
        /\ Carries(c, verified, released, merged, approved, HasManifest)
    BY DEF Commit, IInv, TypeOK, SoundCall, Call
  <1>1. /\ batch' = IF c.batchTo = "none" THEN batch ELSE c.batchTo
        /\ item' = [i \in Items |-> IF i \in c.move THEN c.itemTo ELSE item[i]]
        /\ job' = IF c.jobTo = "none" THEN job ELSE [job EXCEPT ![k].status = c.jobTo]
        /\ call' = [call EXCEPT ![h] = d]
        /\ UNCHANGED <<doc, handoff, promo, history>>
    BY DEF Commit, files
  <1>D. d \in Call /\ WellFormed(d) /\ d.itemTo = "none" /\ d.op \in {"idle", "retest_answer"}
    <2>1. CASE c.op = "retest_start"
      <3>1. PICK j \in Jobs : j = k
        BY <1>0, <2>1 DEF WellFormed
      <3>2. d = [Idle EXCEPT !.op = "retest_answer", !.job = j]
        BY <2>1, <3>1
      <3> HIDE DEF d
      <3> QED  BY <3>2 DEF Idle, Call, Ops, OwnerDecisions, WellFormed
    <2>2. CASE c.op # "retest_start"
      <3>1. d = Idle
        BY <2>2
      <3> QED  BY <3>1, IdleIsSound DEF Idle
    <2> QED  BY <2>1, <2>2
  <1>2. /\ batch \in BatchStatuses /\ item \in [Items -> ItemStates] /\ doc \in [Jobs -> Doc]
        /\ job \in [Jobs -> [status : JobStatuses, retry : 0..RetryLimit]]
    BY DEF IInv, TypeOK
  <1>3. /\ c.batchTo \in BatchStatuses \cup {"none"} /\ c.itemTo \in ItemStates \cup {"none"}
        /\ c.jobTo \in JobStatuses \cup {"none"}
        /\ c.move # {} => c.itemTo # "none"
        /\ c.jobTo # "none" => k \in Jobs
    BY <1>0 DEF Call, WellFormed
  <1>4. /\ c.itemTo = "graduated" => verified # {}
        /\ c.itemTo = "retest" => HasManifest
    BY <1>0 DEF Carries, HasManifest
  <1> HIDE DEF c, k, d
  <1>5. batch' \in BatchStatuses
    BY <1>1, <1>2, <1>3
  <1>6. item' \in [Items -> ItemStates]
    BY <1>1, <1>2, <1>3
  <1>7. job' \in [Jobs -> [status : JobStatuses, retry : 0..RetryLimit]]
    <2>1. CASE c.jobTo = "none"
      BY <1>1, <1>2, <2>1
    <2>2. CASE c.jobTo # "none"
      <3> DEFINE R == [status : JobStatuses, retry : 0..RetryLimit]
                 r == [job[k] EXCEPT !.status = c.jobTo]
                 n == 0..RetryLimit
      <3>1. job' = [job EXCEPT ![k] = r]
        BY <1>1, <1>2, <1>3, <2>2
      <3>2. job[k] \in [status : JobStatuses, retry : n]
        BY <1>2, <1>3, <2>2
      <3> HIDE DEF n
      <3>3. r \in [status : JobStatuses, retry : n]
        BY <1>3, <2>2, <3>2
      <3> USE DEF n
      <3>4. r \in R
        BY <3>3
      <3> HIDE DEF r, R
      <3>5. job \in [Jobs -> R]
        BY <1>2 DEF R
      <3>6. job' \in [Jobs -> R]
        BY <3>1, <3>4, <3>5
      <3> QED  BY <3>6 DEF R
    <2> QED  BY <2>1, <2>2
  <1>9. HasManifest => HasManifest'
    BY <1>1 DEF HasManifest
  <1>10. Grows
    BY <1>1, <1>9 DEF Grows, history
  <1>11. Backed'
    <2>1. ASSUME NEW j \in Jobs
          PROVE  BackedDoc(j, doc'[j], verified', released', merged')
      BY <1>1 DEF IInv, Backed, history
    <2>2. ASSUME NEW p \in Jobs \X Envs
          PROVE  BackedPromo(p, promo'[p], approved')
      BY <1>1 DEF IInv, Backed, history
    <2> QED  BY <2>1, <2>2 DEF Backed
  <1>12. Ordered' /\ DeployedIsBacked'
    BY <1>1 DEF IInv, Ordered, DeployedIsBacked, history
  <1>13. RetestHasManifest'
    <2> SUFFICES ASSUME NEW i \in Items, item'[i] = "retest" PROVE HasManifest'
      BY DEF RetestHasManifest, HasManifest
    <2>1. item[i] = "retest" \/ c.itemTo = "retest"
      BY <1>1
    <2>2. item[i] = "retest" => HasManifest
      BY DEF IInv, RetestHasManifest, HasManifest
    <2> QED  BY <1>4, <1>9, <2>1, <2>2
  <1>14. GraduatedIsVerified'
    <2> SUFFICES ASSUME NEW i \in Items, item'[i] = "graduated" PROVE verified' # {}
      BY DEF GraduatedIsVerified
    <2>1. item[i] = "graduated" \/ c.itemTo = "graduated"
      BY <1>1
    <2> QED  BY <1>1, <1>4, <2>1 DEF IInv, GraduatedIsVerified, history
  <1> QED  BY <1>1, <1>2, <1>5, <1>6, <1>7, <1>10, <1>11, <1>12, <1>13, <1>14, <1>D,
             CallKeepsCalls DEF IInv, TypeOK

\* What becomes of a lease changes nothing else of the documents.
LEMMA LeaseChange ==
    ASSUME IInv, NEW h \in Handlers, NEW to \in Leases, LeaseTo(h, to)
    PROVE  /\ doc' \in [Jobs -> Doc]
           /\ \A j \in Jobs : /\ doc'[j].retest.writer = doc[j].retest.writer
                              /\ doc'[j].retest.lease =
                                   IF OwnsManifest(h) /\ j = call[h].job THEN to
                                   ELSE doc[j].retest.lease
                              /\ doc'[j].verification = doc[j].verification
                              /\ doc'[j].authorization = doc[j].authorization
                              /\ doc'[j].promotion = doc[j].promotion
  <1>0. doc \in [Jobs -> Doc] /\ (OwnsManifest(h) => call[h].job \in Jobs)
    BY DEF IInv, TypeOK, WellFormed, OwnsManifest
  <1>1. CASE OwnsManifest(h)
    <2>1. PICK k \in Jobs : k = call[h].job
      BY <1>0, <1>1
    <2> DEFINE x == [doc[k].retest EXCEPT !.lease = to]
               d == [doc[k] EXCEPT !.retest = x]
    <2>2. doc[k] \in Doc
      BY <1>0
    <2>3. doc' = [doc EXCEPT ![k] = d]
      BY <1>0, <1>1, <2>1 DEF LeaseTo
    <2>4. /\ x \in [writer : Handlers \cup {None}, lease : Leases]
          /\ x.writer = doc[k].retest.writer /\ x.lease = to
      BY <2>2 DEF Doc
    <2> HIDE DEF x
    <2>5. /\ d \in Doc /\ d.retest = x
          /\ d.verification = doc[k].verification
          /\ d.authorization = doc[k].authorization
          /\ d.promotion = doc[k].promotion
      BY <2>2, <2>4 DEF Doc
    <2> HIDE DEF d
    <2>6. doc' \in [Jobs -> Doc] /\ doc'[k] = d /\ \A j \in Jobs \ {k} : doc'[j] = doc[j]
      BY <1>0, <2>3, <2>5
    <2> QED  BY <1>1, <2>1, <2>4, <2>5, <2>6
  <1>2. CASE ~OwnsManifest(h)
    BY <1>0, <1>2 DEF LeaseTo
  <1> QED  BY <1>1, <1>2

\* An answer or a loss ends its request, and settles its lease.
LEMMA EndIInv ==
    ASSUME IInv, NEW h \in Handlers, AnswerRetest(h) \/ Abort(h)
    PROVE  IInv'
  <1>1. /\ LeaseTo(h, "held") \/ LeaseTo(h, "lost")
        /\ Answered(h) /\ UNCHANGED <<rows, handoff, promo, history>>
    BY DEF AnswerRetest, Abort
  <1>2. /\ doc' \in [Jobs -> Doc]
        /\ \A j \in Jobs : /\ doc'[j].retest.writer = doc[j].retest.writer
                           /\ doc'[j].verification = doc[j].verification
                           /\ doc'[j].authorization = doc[j].authorization
                           /\ doc'[j].promotion = doc[j].promotion
    <2>1. {"held", "lost"} \subseteq Leases
      BY DEF Leases
    <2> QED  BY <1>1, <2>1, LeaseChange
  <1>3. Grows
    BY <1>1, <1>2 DEF Grows, history, HasManifest
  <1>4. Backed'
    <2>1. ASSUME NEW j \in Jobs
          PROVE  BackedDoc(j, doc'[j], verified', released', merged')
      <3>1. BackedDoc(j, doc[j], verified, released, merged)
        BY DEF IInv, Backed
      <3>2. verified' = verified /\ released' = released /\ merged' = merged
        BY <1>1 DEF history
      <3> QED  BY <1>2, <3>1, <3>2 DEF BackedDoc
    <2>2. ASSUME NEW p \in Jobs \X Envs
          PROVE  BackedPromo(p, promo'[p], approved')
      BY <1>1 DEF IInv, Backed, history
    <2> QED  BY <2>1, <2>2 DEF Backed
  <1>5. Ordered' /\ DeployedIsBacked' /\ GraduatedIsVerified'
    BY <1>1 DEF IInv, rows, history, Ordered, DeployedIsBacked, GraduatedIsVerified
  <1>6. RetestHasManifest'
    BY <1>1, <1>2 DEF IInv, rows, RetestHasManifest
  <1> QED  BY <1>1, <1>2, <1>3, <1>4, <1>5, <1>6, AnsweredKeepsCalls DEF IInv, TypeOK, rows

\* The stale sweep changes job rows only.
LEMMA RecoverStaleIInv ==
    ASSUME IInv, NEW j \in Jobs, RecoverStale(j)
    PROVE  IInv'
  <1> DEFINE R == [status : JobStatuses, retry : 0..RetryLimit]
             r == IF job[j].retry < RetryLimit
                    THEN [status |-> "queued", retry |-> job[j].retry + 1]
                    ELSE [job[j] EXCEPT !.status = "timed_out"]
  <1>0. job \in [Jobs -> R] /\ job[j] \in R
    BY DEF IInv, TypeOK
  <1>1. job' = [job EXCEPT ![j] = r] /\ UNCHANGED <<batch, item, files, call, history>>
    BY <1>0 DEF RecoverStale
  <1>2. r \in R
    <2>1. CASE job[j].retry < RetryLimit
      <3> DEFINE n == job[j].retry + 1
      <3>1. n \in 0..RetryLimit
        BY <1>0, <2>1, RetryAssumption
      <3>2. r = [status |-> "queued", retry |-> n]
        BY <2>1
      <3> HIDE DEF n, r
      <3> QED  BY <3>1, <3>2 DEF JobStatuses
    <2>2. CASE ~(job[j].retry < RetryLimit)
      <3> DEFINE N == 0..RetryLimit
      <3>1. r = [job[j] EXCEPT !.status = "timed_out"] /\ job[j] \in [status : JobStatuses, retry : N]
        BY <1>0, <2>2
      <3> HIDE DEF N, r
      <3>2. r \in [status : JobStatuses, retry : N]
        BY <3>1 DEF JobStatuses
      <3> QED  BY <3>2 DEF N
    <2> QED  BY <2>1, <2>2
  <1> HIDE DEF r, R
  <1>3. job' \in [Jobs -> R]
    BY <1>0, <1>1, <1>2
  <1>4. TypeOK'
    BY <1>1, <1>3 DEF IInv, TypeOK, files, R
  <1>5. \A h \in Handlers : (WellFormed(call[h]) /\ SoundCall(call[h]))'
    BY <1>1 DEF IInv, WellFormed, SoundCall, HasManifest, files, history
  <1>6. Backed' /\ Ordered' /\ DeployedIsBacked' /\ RetestHasManifest' /\ GraduatedIsVerified'
    BY <1>1 DEF IInv, files, history, Backed, BackedDoc, BackedPromo, Ordered,
                DeployedIsBacked, RetestHasManifest, GraduatedIsVerified
  <1> QED  BY <1>4, <1>5, <1>6 DEF IInv

-----------------------------------------------------------------------------
(* The theorems.                                                           *)

\* Every step keeps the invariant.
LEMMA NextIInv == IInv /\ [Next]_vars => IInv'
  <1> SUFFICES ASSUME IInv, [Next]_vars PROVE IInv'
    OBVIOUS
  <1>1. ASSUME NEW h \in Handlers, Owner(h)
        PROVE  IInv'
    BY <1>1, RejectIInv, ApproveIInv, AuthorizeReleaseIInv, DeployIInv DEF Owner
  <1>2. ASSUME NEW h \in Handlers, Executor(h)
        PROVE  IInv'
    BY <1>2, PrepareIInv, CodexIInv, RetestIInv, MergeIInv, DeployIInv DEF Executor
  <1>3. ASSUME NEW h \in Handlers, Write(h)
        PROVE  IInv'
    BY <1>3, WriteHandoffIInv, WriteResultIInv, WriteRetestManifestIInv,
       WriteVerificationIInv, WriteAuthorizationIInv, WriteMergeManifestIInv,
       WritePromotionIInv, WriteDeployAuthIInv, WriteDeployManifestIInv,
       WriteDeployResultIInv DEF Write
  <1>4. CASE UNCHANGED vars
    <2>1. TypeOK'
      BY <1>4 DEF IInv, TypeOK, vars, rows, files
    <2>2. \A h \in Handlers : (WellFormed(call[h]) /\ SoundCall(call[h]))'
      BY <1>4 DEF IInv, WellFormed, SoundCall, HasManifest, vars, files, history
    <2>3. Backed' /\ Ordered' /\ DeployedIsBacked' /\ RetestHasManifest' /\ GraduatedIsVerified'
      BY <1>4 DEF IInv, vars, rows, files, history, Backed, BackedDoc, BackedPromo, Ordered,
                  DeployedIsBacked, RetestHasManifest, GraduatedIsVerified
    <2> QED  BY <2>1, <2>2, <2>3 DEF IInv
  <1> QED  BY <1>1, <1>2, <1>3, <1>4, CommitIInv, EndIInv, RecoverStaleIInv DEF Next

\* However many requests overlap and however many of them are lost between
\* their artifact and their commit: a recorded deployment is backed by the
\* whole chain, from the verified candidate to the owner's approval.
THEOREM DeploymentsAreBacked == Spec => []DeployedIsBacked
  <1>1. IInv => DeployedIsBacked
    BY DEF IInv
  <1> QED  BY InitIInv, NextIInv, <1>1, PTL DEF Spec

\* Likewise, a batch in retest has its manifest (start), and graduation
\* follows a verified improvement (complete of AC-002E).
THEOREM RetestsAreSound == Spec => []RetestIsSound
  <1>1. IInv => RetestIsSound
    BY DEF IInv, RetestIsSound
  <1> QED  BY InitIInv, NextIInv, <1>1, PTL DEF Spec

-----------------------------------------------------------------------------
(* Who holds the lease of a retest.                                        *)

\* A manifest whose lease is neither held nor lost has its start in flight.
Starts(c, j) ==
    /\ c.job = j
    /\ c.op = "retest_answer" \/ (c.op = "retest_start" /\ c.wrote)

Leased(j) ==
    doc[j].retest.writer # None =>
      doc[j].retest.lease \in {"held", "lost"} \/ Starts(call[doc[j].retest.writer], j)

Attended ==
    /\ \A j \in Jobs : Leased(j)
    /\ \A h \in Handlers : call[h].op = "retest_answer" => ~call[h].wrote

\* A step of a request that starts no retest, or only takes a start in,
\* leaves the manifests alone.
LEMMA OtherStep ==
    ASSUME IInv, Attended, NEW h \in Handlers, NEW c \in Call,
           call' = [call EXCEPT ![h] = c],
           \A j \in Jobs : doc'[j].retest = doc[j].retest,
           call[h].op \notin {"retest_start", "retest_answer"}, c.op # "retest_answer"
    PROVE  Attended'
  <1>1. /\ doc \in [Jobs -> Doc]
        /\ \A g \in Handlers : call'[g] = IF g = h THEN c ELSE call[g]
    BY DEF IInv, TypeOK
  <1>2. ASSUME NEW j \in Jobs PROVE Leased(j)'
    <2>1. doc[j].retest.writer \in Handlers \cup {None}
      BY <1>1 DEF Doc
    <2>2. doc[j].retest.writer = h => ~Starts(call[h], j)
      BY DEF Starts
    <2> QED  BY <1>1, <2>1, <2>2 DEF Attended, Leased
  <1> QED  BY <1>1, <1>2 DEF Attended

\* A request taken in.
LEMMA AttendedReceives ==
    ASSUME IInv, Attended, NEW h \in Handlers, NEW c, Receive(h, c), IInv',
           c.op # "retest_answer"
    PROVE  Attended'
  <1>1. call[h] = Idle /\ call' = [call EXCEPT ![h] = c] /\ UNCHANGED doc
    BY DEF Receive, files
  <1>2. c \in Call
    BY <1>1 DEF IInv, TypeOK
  <1>3. call[h].op = "idle"
    BY <1>1 DEF Idle
  <1> QED  BY <1>1, <1>2, <1>3, OtherStep

\* A write or commit of another kind of request.
LEMMA AttendedContinues ==
    ASSUME IInv, Attended, NEW h \in Handlers, IInv',
           Written(h) \/ Answered(h),
           \A j \in Jobs : doc'[j].retest = doc[j].retest,
           call[h].op \notin {"retest_start", "retest_answer"}
    PROVE  Attended'
  <1>1. call \in [Handlers -> Call] /\ call' \in [Handlers -> Call]
    BY DEF IInv, TypeOK
  <1>2. PICK c \in Call : c = call'[h]
    BY <1>1
  <1>3. call' = [call EXCEPT ![h] = c]
    BY <1>1, <1>2 DEF Written, Answered
  <1>4. c.op \in {"idle", call[h].op}
    BY <1>1, <1>2 DEF Written, Answered, Call, Idle
  <1> QED  BY <1>3, <1>4, OtherStep

\* The manifest of a start is its own from then on.
LEMMA ManifestAttended ==
    ASSUME IInv, Attended, NEW h \in Handlers, WriteRetestManifest(h)
    PROVE  Attended'
  <1>1. PICK j \in Jobs : j = call[h].job
    BY DEF WriteRetestManifest, Unwritten, IInv, WellFormed
  <1>2. /\ doc' = [doc EXCEPT ![j].retest = [writer |-> h, lease |-> "pending"]]
        /\ call' = [call EXCEPT ![h].wrote = TRUE]
        /\ call[h].op = "retest_start" /\ ~call[h].wrote
    BY <1>1 DEF WriteRetestManifest, Unwritten, Written
  <1>3. /\ doc \in [Jobs -> Doc] /\ call \in [Handlers -> Call]
    BY DEF IInv, TypeOK
  <1>4. /\ call'[h].op = "retest_start" /\ call'[h].wrote /\ call'[h].job = j
        /\ \A g \in Handlers \ {h} : call'[g] = call[g]
    BY <1>1, <1>2, <1>3 DEF Call
  <1>5. /\ doc'[j].retest.writer = h
        /\ \A k \in Jobs \ {j} : doc'[k] = doc[k]
    BY <1>2, <1>3 DEF Doc
  <1>6. ASSUME NEW k \in Jobs PROVE Leased(k)'
    <2>1. CASE k = j
      BY <1>4, <1>5, <2>1 DEF Leased, Starts
    <2>2. CASE k # j
      <3>1. doc[k].retest.writer \in Handlers \cup {None}
        BY <1>3 DEF Doc
      <3>2. doc[k].retest.writer = h => ~Starts(call[h], k)
        BY <1>2 DEF Starts
      <3> QED  BY <1>4, <1>5, <2>2, <3>1, <3>2 DEF Attended, Leased
    <2> QED  BY <2>1, <2>2
  <1> QED  BY <1>4, <1>6 DEF Attended

\* A start that commits still has its answer to give.
LEMMA CommitAttended ==
    ASSUME IInv, Attended, NEW h \in Handlers, Commit(h), IInv'
    PROVE  Attended'
  <1>1. call[h].wrote /\ UNCHANGED doc
    BY DEF Commit, files
  <1>2. call[h].op # "retest_answer"
    BY <1>1 DEF Attended
  <1>3. CASE call[h].op # "retest_start"
    <2>1. call' = [call EXCEPT ![h] = Idle] /\ Idle \in Call /\ Idle.op = "idle"
      BY <1>3, IdleIsSound DEF Commit, Idle
    <2> QED  BY <1>1, <1>2, <1>3, <2>1, OtherStep
  <1>4. CASE call[h].op = "retest_start"
    <2>1. call' = [call EXCEPT ![h] = [Idle EXCEPT !.op = "retest_answer", !.job = call[h].job]]
      BY <1>4 DEF Commit
    <2>2. /\ call \in [Handlers -> Call] /\ doc \in [Jobs -> Doc]
      BY DEF IInv, TypeOK
    <2>3. /\ call'[h].op = "retest_answer" /\ call'[h].job = call[h].job /\ ~call'[h].wrote
          /\ \A g \in Handlers \ {h} : call'[g] = call[g]
      BY <2>1, <2>2 DEF Idle
    <2>4. ASSUME NEW k \in Jobs PROVE Leased(k)'
      <3>1. doc[k].retest.writer \in Handlers \cup {None}
        BY <2>2 DEF Doc
      <3>2. Starts(call[h], k) => Starts(call'[h], k)
        BY <2>3 DEF Starts
      <3> QED  BY <1>1, <2>3, <3>1, <3>2 DEF Attended, Leased
    <2> QED  BY <2>3, <2>4 DEF Attended
  <1> QED  BY <1>3, <1>4

\* A request that ends settles the lease of the manifest that is still its own.
LEMMA EndAttended ==
    ASSUME IInv, Attended, NEW h \in Handlers, AnswerRetest(h) \/ Abort(h)
    PROVE  Attended'
  <1>1. PICK to \in {"held", "lost"} : LeaseTo(h, to)
    BY DEF AnswerRetest, Abort
  <1>2. /\ doc \in [Jobs -> Doc] /\ call \in [Handlers -> Call]
        /\ call' = [call EXCEPT ![h] = Idle]
    BY DEF IInv, TypeOK, AnswerRetest, Abort, Answered
  <1>3. \A g \in Handlers : call'[g] = IF g = h THEN Idle ELSE call[g]
    BY <1>2
  <1>4. \A j \in Jobs : /\ doc'[j].retest.writer = doc[j].retest.writer
                        /\ doc'[j].retest.lease =
                             IF OwnsManifest(h) /\ j = call[h].job THEN to
                             ELSE doc[j].retest.lease
    <2>1. to \in Leases
      BY DEF Leases
    <2> QED  BY <1>1, <2>1, LeaseChange
  <1>5. ASSUME NEW j \in Jobs PROVE Leased(j)'
    <2>1. doc[j].retest.writer \in Handlers \cup {None}
      BY <1>2 DEF Doc
    <2>2. doc[j].retest.writer = h /\ Starts(call[h], j) => OwnsManifest(h) /\ j = call[h].job
      BY DEF Starts, OwnsManifest
    <2> QED  BY <1>3, <1>4, <2>1, <2>2 DEF Attended, Leased
  <1>6. Idle.op = "idle"
    BY DEF Idle
  <1> QED  BY <1>3, <1>5, <1>6 DEF Attended

\* Every step keeps the leases attended to.
LEMMA NextAttended ==
    ASSUME IInv, Attended, [Next]_vars, IInv'
    PROVE  Attended'
  <1>1. doc \in [Jobs -> Doc]
    BY DEF IInv, TypeOK
  <1>2. ASSUME NEW h \in Handlers, Owner(h) PROVE Attended'
    BY <1>2, AttendedReceives DEF Owner, RejectHandoff, ApproveHandoff, AuthorizeRelease,
       AuthorizeDeployment, Idle
  <1>3. ASSUME NEW h \in Handlers, Executor(h) PROVE Attended'
    <2>1. ASSUME NEW j \in Jobs,
                 \/ StartCodex(h, j) \/ StartMerge(h, j) \/ StartRetest(h, j)
                 \/ \E outcome \in {"succeeded", "escalated", "failed"}, head \in Heads \cup {None} :
                      CompleteCodex(h, j, outcome, head)
          PROVE  Attended'
      BY <2>1, AttendedReceives DEF StartCodex, CompleteCodex, StartMerge, StartRetest, Idle
    <2>2. ASSUME NEW j \in Jobs, NEW head \in Heads,
                 \/ \E decision \in RetestDecisions : CompleteRetest(h, j, head, decision)
                 \/ \E sha \in Shas \cup {None} : CompleteMerge(h, j, head, sha)
          PROVE  Attended'
      BY <2>2, AttendedReceives DEF CompleteRetest, CompleteMerge, Idle
    <2>3. ASSUME NEW j \in Jobs, NEW env \in Envs, NEW sha \in Shas,
                 \/ StartDeployment(h, j, env, sha)
                 \/ \E decision \in {"DEPLOYED", "DEPLOYMENT_BLOCKED"} :
                      CompleteDeployment(h, j, env, sha, decision)
          PROVE  Attended'
      BY <2>3, AttendedReceives DEF StartDeployment, CompleteDeployment, Idle
    <2>4. CASE PrepareHandoff(h)
      BY <2>4, AttendedReceives DEF PrepareHandoff, Idle
    <2> QED  BY <1>3, <2>1, <2>2, <2>3, <2>4 DEF Executor
  <1>4. ASSUME NEW h \in Handlers, Write(h) PROVE Attended'
    <2>1. CASE WriteHandoff(h) \/ WriteDeployAuth(h) \/ WriteDeployManifest(h) \/ WriteDeployResult(h)
      BY <2>1, AttendedContinues
         DEF WriteHandoff, WriteDeployAuth, WriteDeployManifest, WriteDeployResult, Unwritten
    <2>2. CASE WriteResult(h)
      <3>1. \A j \in Jobs : doc'[j].retest = doc[j].retest
        BY <1>1, <2>2 DEF WriteResult, Doc
      <3> QED  BY <2>2, <3>1, AttendedContinues DEF WriteResult, Unwritten
    <2>3. CASE WriteVerification(h)
      <3>1. \A j \in Jobs : doc'[j].retest = doc[j].retest
        BY <1>1, <2>3 DEF WriteVerification, Doc
      <3> QED  BY <2>3, <3>1, AttendedContinues DEF WriteVerification, Unwritten
    <2>4. CASE WriteAuthorization(h)
      <3>1. \A j \in Jobs : doc'[j].retest = doc[j].retest
        BY <1>1, <2>4 DEF WriteAuthorization, Doc
      <3> QED  BY <2>4, <3>1, AttendedContinues DEF WriteAuthorization, Unwritten
    <2>5. CASE WriteMergeManifest(h)
      <3>1. \A j \in Jobs : doc'[j].retest = doc[j].retest
        BY <1>1, <2>5 DEF WriteMergeManifest, Doc
      <3> QED  BY <2>5, <3>1, AttendedContinues DEF WriteMergeManifest, Unwritten
    <2>6. CASE WritePromotion(h)
      <3>1. \A j \in Jobs : doc'[j].retest = doc[j].retest
        BY <1>1, <2>6 DEF WritePromotion, Doc
      <3> QED  BY <2>6, <3>1, AttendedContinues DEF WritePromotion, Unwritten
    <2> QED  BY <1>4, <2>1, <2>2, <2>3, <2>4, <2>5, <2>6, ManifestAttended DEF Write
  <1>5. CASE (\E j \in Jobs : RecoverStale(j)) \/ UNCHANGED vars
    <2>1. UNCHANGED <<doc, call>>
      BY <1>5 DEF RecoverStale, vars, files
    <2> QED  BY <2>1 DEF Attended, Leased, Starts
  <1> QED  BY <1>2, <1>3, <1>4, <1>5, CommitAttended, EndAttended DEF Next

\* However many starts of a retest overlap and overwrite each other's
\* manifest: a batch in retest with no start in flight has an executor with a
\* lease, or the start whose manifest stayed was lost after writing it, which
\* its answer, sent after the commit, may be too (start of AC-002E).
THEOREM RetestStrandingNeedsLoss == Spec => []RetestStrandsOnlyByLoss
  <1> DEFINE Inv == IInv /\ Attended
  <1>1. Init => Inv
    <2> SUFFICES ASSUME Init PROVE Attended
      BY InitIInv
    <2> QED  BY DEF Init, Attended, Leased, NoDoc, Idle
  <1>2. Inv /\ [Next]_vars => Inv'
    BY NextIInv, NextAttended
  <1>3. Inv => RetestStrandsOnlyByLoss
    <2> SUFFICES ASSUME Inv, \E i \in Items : item[i] = "retest",
                        \A h \in Handlers : call[h].op \notin {"retest_start", "retest_answer"}
                 PROVE  \E j \in Jobs : doc[j].retest.lease \in {"held", "lost"}
      BY DEF RetestStrandsOnlyByLoss
    <2>1. PICK j \in Jobs : doc[j].retest.writer # None
      BY DEF IInv, RetestHasManifest
    <2>2. doc[j].retest.writer \in Handlers
      BY <2>1 DEF IInv, TypeOK, Doc
    <2> QED  BY <2>1, <2>2 DEF Attended, Leased, Starts
  <1> HIDE DEF Inv
  <1> QED  BY <1>1, <1>2, <1>3, PTL DEF Spec

-----------------------------------------------------------------------------
(* Custody.                                                                *)

\* Every step is a custody step or leaves custody alone.
LEMMA StepKeepsCustody ==
    IInv /\ [Next]_vars => [Custody!Next]_(Custody!custody)
  <1> SUFFICES ASSUME IInv, [Next]_vars
               PROVE  Custody!Next \/ UNCHANGED history
    BY DEF history, Custody!custody
  <1>1. ASSUME NEW h \in Handlers, Owner(h) \/ Executor(h) \/ Commit(h) \/ AnswerRetest(h) \/ Abort(h)
        PROVE  UNCHANGED history
    BY <1>1 DEF Owner, Executor, Commit, AnswerRetest, Abort, PrepareHandoff, RejectHandoff, ApproveHandoff,
                StartCodex, CompleteCodex, StartRetest, CompleteRetest, AuthorizeRelease,
                StartMerge, CompleteMerge, AuthorizeDeployment, StartDeployment,
                CompleteDeployment, Receive
  <1>2. ASSUME NEW h \in Handlers, Write(h)
        PROVE  Custody!Next \/ UNCHANGED history
    <2> DEFINE c == call[h]
    <2>0. WellFormed(c) /\ Carries(c, verified, released, merged, approved, HasManifest)
      BY DEF IInv, SoundCall
    <2>1. CASE WriteVerification(h)
      <3>1. c.job \in Jobs /\ c.head \in Heads
        BY <2>0, <2>1 DEF WriteVerification, Unwritten, WellFormed
      <3>2. Custody!Verify(c.job, c.head) \/ UNCHANGED history
        BY <2>1 DEF WriteVerification, Custody!Verify, history
      <3> QED  BY <3>1, <3>2 DEF Custody!Next
    <2>2. CASE WriteAuthorization(h)
      <3>1. c.job \in Jobs /\ c.head \in Heads /\ <<c.job, c.head>> \in verified
        BY <2>0, <2>2 DEF WriteAuthorization, Unwritten, WellFormed, Carries
      <3>2. Custody!Release(c.job, c.head) \/ UNCHANGED history
        BY <2>2, <3>1 DEF WriteAuthorization, Custody!Release, history
      <3> QED  BY <3>1, <3>2 DEF Custody!Next
    <2>3. CASE WritePromotion(h)
      <3>1. /\ c.job \in Jobs /\ c.head \in Heads /\ <<c.job, c.head>> \in released
            /\ c.decision = "MERGED_RELEASE_CANDIDATE" => c.sha \in Shas
        BY <2>0, <2>3 DEF WritePromotion, Unwritten, WellFormed, Carries
      <3>2. \/ c.sha \in Shas /\ Custody!Merge(c.job, c.head, c.sha)
            \/ UNCHANGED history
        BY <2>3, <3>1 DEF WritePromotion, Custody!Merge, history
      <3> QED  BY <3>1, <3>2 DEF Custody!Next
    <2>4. CASE WriteDeployAuth(h)
      <3>1. /\ c.job \in Jobs /\ c.env \in Envs /\ c.sha \in Shas
            /\ \E head \in Heads : <<c.job, head, c.sha>> \in merged
        BY <2>0, <2>4 DEF WriteDeployAuth, Unwritten, WellFormed, Carries
      <3>2. Custody!Approve(c.job, c.env, c.sha) \/ UNCHANGED history
        BY <2>4, <3>1 DEF WriteDeployAuth, Custody!Approve, history
      <3> QED  BY <3>1, <3>2 DEF Custody!Next
    <2>5. CASE WriteDeployResult(h)
      <3>1. /\ c.job \in Jobs /\ c.env \in Envs /\ c.sha \in Shas
            /\ \E head \in Heads : <<c.job, head, c.sha>> \in merged
            /\ \E old \in Shas : <<c.job, c.env, old>> \in approved
        BY <2>0, <2>5 DEF WriteDeployResult, Unwritten, WellFormed, Carries
      <3>2. Custody!Deploy(c.job, c.env, c.sha) \/ UNCHANGED history
        BY <2>5, <3>1 DEF WriteDeployResult, Custody!Deploy, history
      <3> QED  BY <3>1, <3>2 DEF Custody!Next
    <2>6. CASE \/ WriteHandoff(h) \/ WriteResult(h) \/ WriteRetestManifest(h)
               \/ WriteMergeManifest(h) \/ WriteDeployManifest(h)
      BY <2>6 DEF WriteHandoff, WriteResult, WriteRetestManifest, WriteMergeManifest,
                  WriteDeployManifest
    <2> QED  BY <1>2, <2>1, <2>2, <2>3, <2>4, <2>5, <2>6 DEF Write
  <1>3. ASSUME NEW j \in Jobs, RecoverStale(j)
        PROVE  UNCHANGED history
    BY <1>3 DEF RecoverStale
  <1>4. CASE UNCHANGED vars
    BY <1>4 DEF vars
  <1> QED  BY <1>1, <1>2, <1>3, <1>4 DEF Next

\* The chain of handlers implements the custody specification: each artifact
\* that records a decision is a custody step whose precondition holds at the
\* moment it is written, and every other step of the system is a stutter.
THEOREM ChainKeepsCustody == Spec => KeepsCustody
  <1>1. Init => Custody!Init
    BY DEF Init, Custody!Init
  <1> QED  BY <1>1, InitIInv, NextIInv, StepKeepsCustody, PTL DEF Spec, KeepsCustody, Custody!Spec
=============================================================================
