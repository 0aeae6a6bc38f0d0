------------------------------ MODULE Decisions ------------------------------
(***************************************************************************)
(* From a decision problem to an operational action and its outcome        *)
(* (app/services/decision_intelligence_service.py), composed with the      *)
(* work on actions of ActionWork.                                          *)
(*                                                                         *)
(* execute, decide and convert_to_action hold the row they decide about    *)
(* FOR UPDATE, so each is one step.  Publishing a problem version, adding  *)
(* to one, adding an input and validating a scenario read without a lock,  *)
(* and are a Read step and a Commit step.  There is one problem version    *)
(* and one scenario of it; a recommendation has one solution.              *)
(***************************************************************************)
EXTENDS ActionWork, Sequences

CONSTANTS
    Inputs,             \* scenario inputs that may be added
    Sound,              \* those that no gate of validate blocks
    Recommendations,    \* ids of recommendation rows
    Parts,              \* objectives, constraints and variables of the problem
    MaxExecutions,      \* bound on the executions of the scenario
    MaxDecisions,       \* bound on the decisions about a recommendation
    MaxLinks            \* bound on its outcome links

ASSUME DecisionsAssumption ==
    /\ Sound \subseteq Inputs
    /\ {"none", "source"} \cap Recommendations = {}
    /\ MaxExecutions \in Nat /\ MaxDecisions \in Nat /\ MaxLinks \in Nat

\* What the solver reports: solved stands for solved_optimal and
\* solved_feasible, unsolved for the other statuses.
SolverStatuses == {"solved", "unsolved"}
Kinds == {"recovery_execution", "verified_value_ledger_entry"}

VARIABLES
    problem,        \* a decision_problem_versions row with its parts
    scenario,       \* a decision_scenarios row with its inputs
    execution,      \* decision_executions, in the order of their commit
    recommendation  \* decision_recommendations with approvals and outcome links

decisionVars == <<problem, scenario, execution, recommendation>>
vars == <<action, request, decisionVars>>

NoRecommendation == [status |-> "absent", execution |-> 0, approvals |-> <<>>,
                     governing |-> 0, converted |-> {}, links |-> <<>>]

\* Rows hold what their columns can; a pointer names a row that exists.
TypeOK ==
    /\ ActionTypeOK
    /\ problem.status \in {"draft", "published"} /\ problem.parts \subseteq Parts
    /\ scenario.status \in {"absent", "draft", "blocked", "ready", "completed"}
    /\ scenario.validation \in {"pending", "passed", "blocked"}
    /\ scenario.inputs \subseteq Inputs
    /\ \A n \in DOMAIN execution :
         /\ execution[n].status \in SolverStatuses \cup {"blocked"}
         /\ execution[n].inputs \subseteq Inputs
    /\ \A r \in Recommendations :
         /\ recommendation[r].status \in {"absent", "proposed", "reviewed", "approved",
                                          "rejected", "converted_to_action"}
         /\ recommendation[r].execution \in 0 .. Len(execution)
         /\ recommendation[r].governing \in 0 .. Len(recommendation[r].approvals)
         /\ recommendation[r].converted \subseteq Actions

Init ==
    /\ ActionInit
    /\ problem = [status |-> "draft", parts |-> {}]
    /\ scenario = [status |-> "absent", validation |-> "pending", inputs |-> {}]
    /\ execution = <<>>
    /\ recommendation = [r \in Recommendations |-> NoRecommendation]

-----------------------------------------------------------------------------
(* DecisionProblemService.                                                 *)

\* add_objective, add_constraint and add_variable: the version is a draft.
AddPartRead(u, p) ==
    /\ request[u] = Idle
    /\ problem.status = "draft"
    /\ p \notin problem.parts
    /\ Hold(u, [op |-> "part", part |-> p])
    /\ UNCHANGED <<action, decisionVars>>

AddPartCommit(u) ==
    /\ request[u].op = "part"
    /\ Release(u)
    /\ problem' = [problem EXCEPT !.parts = @ \cup {request[u].part}]
    /\ UNCHANGED <<action, scenario, execution, recommendation>>

\* publish_version: a draft becomes published.  A second publisher that read
\* the draft writes the same status.
PublishVersion(u) ==
    /\ request[u] = Idle
    /\ problem.status = "draft"
    /\ problem' = [problem EXCEPT !.status = "published"]
    /\ UNCHANGED <<action, request, scenario, execution, recommendation>>

-----------------------------------------------------------------------------
(* DecisionScenarioService and DecisionValidationService.                  *)

\* create: of a published version; the key is unique.
CreateScenario(u) ==
    /\ request[u] = Idle
    /\ scenario.status = "absent"
    /\ problem.status = "published"
    /\ scenario' = [scenario EXCEPT !.status = "draft"]
    /\ UNCHANGED <<action, request, problem, execution, recommendation>>

\* add_input: the scenario was draft or blocked when it was read.
AddInputRead(u, i) ==
    /\ request[u] = Idle
    /\ scenario.status \in {"draft", "blocked"}
    /\ i \notin scenario.inputs
    /\ Hold(u, [op |-> "input", input |-> i])
    /\ UNCHANGED <<action, decisionVars>>

AddInputCommit(u) ==
    /\ request[u].op = "input"
    /\ Release(u)
    /\ scenario' = [scenario EXCEPT !.inputs = @ \cup {request[u].input}]
    /\ UNCHANGED <<action, problem, execution, recommendation>>

\* validate: the inputs it lists and what the gates make of them; it does
\* not look at the lifecycle of the scenario.
ValidateRead(u) ==
    /\ request[u] = Idle
    /\ scenario.status # "absent"
    /\ Hold(u, [op |-> "validate",
                passed |-> scenario.inputs # {} /\ scenario.inputs \subseteq Sound,
                status |-> scenario.status, validation |-> scenario.validation])
    /\ UNCHANGED <<action, decisionVars>>

\* What the flush leaves in a column: one that was read with the new value is
\* not written, whatever it holds by now.
Flushed(now, read, new) == IF read = new THEN now ELSE new

\* The verdict is written by primary key, whatever was added meanwhile.
ValidateCommit(u) ==
    /\ request[u].op = "validate"
    /\ Release(u)
    /\ LET status == IF request[u].passed THEN "ready" ELSE "blocked"
           validation == IF request[u].passed THEN "passed" ELSE "blocked"
       IN  scenario' = [scenario EXCEPT
                          !.status = Flushed(@, request[u].status, status),
                          !.validation = Flushed(@, request[u].validation, validation)]
    /\ UNCHANGED <<action, problem, execution, recommendation>>

-----------------------------------------------------------------------------
(* DecisionExecutionService.                                               *)

Gated == scenario.validation = "passed" /\ scenario.status = "ready"

\* An execution that already solved these inputs of the scenario.
Duplicate ==
    \E n \in DOMAIN execution :
      execution[n].status = "solved" /\ execution[n].inputs = scenario.inputs

\* execute with a fresh key on a scenario that is not ready leaves a blocked
\* execution.
ExecuteBlocked(u) ==
    /\ request[u] = Idle
    /\ scenario.status # "absent"
    /\ Len(execution) < MaxExecutions
    /\ ~Gated
    /\ execution' = Append(execution, [status |-> "blocked", inputs |-> {}])
    /\ UNCHANGED <<action, request, problem, scenario, recommendation>>

Execute_NoGate(u, outcome) ==
    /\ request[u] = Idle
    /\ scenario.status # "absent"
    /\ Len(execution) < MaxExecutions
    /\ ~Duplicate
    /\ execution' = Append(execution, [status |-> outcome, inputs |-> scenario.inputs])
    /\ scenario' = [scenario EXCEPT !.status = "completed"]
    /\ UNCHANGED <<action, request, problem, recommendation>>

\* execute on a ready scenario: the inputs are listed again and solved.  A
\* solver that refuses them rolls everything back.
Execute(u, outcome) ==
    /\ request[u] = Idle
    /\ Gated
    /\ Len(execution) < MaxExecutions
    /\ ~Duplicate
    /\ execution' = Append(execution, [status |-> outcome, inputs |-> scenario.inputs])
    /\ scenario' = [scenario EXCEPT !.status = "completed"]
    /\ UNCHANGED <<action, request, problem, recommendation>>

-----------------------------------------------------------------------------
(* RecommendationService, DecisionApprovalService, DecisionOutcomeService. *)

\* create: of an alternative, which only a solved execution has; the
\* idempotency key is unique.
CreateRecommendation(u, r, n) ==
    /\ request[u] = Idle
    /\ recommendation[r].status = "absent"
    /\ execution[n].status = "solved"
    /\ recommendation' = [recommendation EXCEPT ![r].status = "proposed",
                                                ![r].execution = n]
    /\ UNCHANGED <<action, request, problem, scenario, execution>>

Decide_KeepsAuthority(u, r, decision) ==
    /\ request[u] = Idle
    /\ recommendation[r].status \notin {"absent", "converted_to_action"}
    /\ Len(recommendation[r].approvals) < MaxDecisions
    /\ LET row == recommendation[r]
       IN  recommendation' = [recommendation EXCEPT ![r] =
             [row EXCEPT !.approvals = Append(row.approvals, decision),
                         !.governing = IF decision = "approve" THEN Len(row.approvals) + 1
                                       ELSE row.governing,
                         !.status = CASE decision = "approve" -> "approved"
                                      [] decision = "reject" -> "rejected"
                                      [] OTHER -> "reviewed"]]
    /\ UNCHANGED <<action, request, problem, scenario, execution>>

\* decide with a fresh key (an old one returns the old row and changes
\* nothing): an approval governs, any other decision withdraws it.
Decide(u, r, decision) ==
    /\ request[u] = Idle
    /\ recommendation[r].status \notin {"absent", "converted_to_action"}
    /\ Len(recommendation[r].approvals) < MaxDecisions
    /\ LET row == recommendation[r]
       IN  recommendation' = [recommendation EXCEPT ![r] =
             [row EXCEPT !.approvals = Append(row.approvals, decision),
                         !.governing = IF decision = "approve" THEN Len(row.approvals) + 1
                                       ELSE 0,
                         !.status = CASE decision = "approve" -> "approved"
                                      [] decision = "reject" -> "rejected"
                                      [] OTHER -> "reviewed"]]
    /\ UNCHANGED <<action, request, problem, scenario, execution>>

ConvertToAction_EveryTime(u, r, a) ==
    /\ request[u] = Idle
    /\ recommendation[r].governing # 0
    /\ recommendation[r].approvals[recommendation[r].governing] = "approve"
    /\ ~Exists(a)
    /\ action' = [action EXCEPT ![a] = [Absent EXCEPT !.status = "approved",
                                                      !.required = TRUE,
                                                      !.approval = "approved",
                                                      !.origin = r]]
    /\ recommendation' = [recommendation EXCEPT
         ![r].converted = @ \cup {a},
         ![r].status = "converted_to_action",
         ![r].links = Append(@, [kind |-> "none", verification |-> "pending_verification",
                                 reconciliation |-> "pending"])]
    /\ UNCHANGED <<request, problem, scenario, execution>>

\* convert_to_action: once, under the governing approval; the action is
\* approved from the start, and a first outcome link has no evidence.
ConvertToAction(u, r, a) ==
    /\ request[u] = Idle
    /\ recommendation[r].converted = {}
    /\ recommendation[r].status = "approved"
    /\ recommendation[r].governing # 0
    /\ recommendation[r].approvals[recommendation[r].governing] = "approve"
    /\ ~Exists(a)
    /\ action' = [action EXCEPT ![a] = [Absent EXCEPT !.status = "approved",
                                                      !.required = TRUE,
                                                      !.approval = "approved",
                                                      !.origin = r]]
    /\ recommendation' = [recommendation EXCEPT
         ![r].converted = @ \cup {a},
         ![r].status = "converted_to_action",
         ![r].links = Append(@, [kind |-> "none", verification |-> "pending_verification",
                                 reconciliation |-> "pending"])]
    /\ UNCHANGED <<request, problem, scenario, execution>>

KindsOf(links) == {links[n].kind : n \in DOMAIN links}

\* record, up to its commit: the action is the converted one, and the kinds
\* of evidence linked so far.
RecordOutcomeRead(u, r, kind) ==
    /\ request[u] = Idle
    /\ recommendation[r].converted # {}
    /\ Len(recommendation[r].links) < MaxLinks
    /\ Hold(u, [op |-> "link", recommendation |-> r, kind |-> kind,
                kinds |-> KindsOf(recommendation[r].links)])
    /\ UNCHANGED <<action, decisionVars>>

\* The link: a ledger entry verifies it, and evidence of a kind that was not
\* there before asks for a reconciliation.
RecordOutcomeCommit(u) ==
    /\ request[u].op = "link"
    /\ Release(u)
    /\ LET q == request[u]
           verified == q.kind = "verified_value_ledger_entry"
           link == [kind |-> q.kind,
                    verification |-> IF verified THEN "verified" ELSE "pending_verification",
                    reconciliation |->
                      CASE q.kinds # {} /\ q.kind \notin q.kinds -> "reconciliation_required"
                        [] ~(q.kinds # {} /\ q.kind \notin q.kinds) /\ verified -> "reconciled"
                        [] OTHER -> "pending"]
       IN  recommendation' = [recommendation EXCEPT ![q.recommendation].links = Append(@, link)]
    /\ UNCHANGED <<action, problem, scenario, execution>>

-----------------------------------------------------------------------------

DecisionNext ==
    \E u \in Users :
      \/ \E p \in Parts : AddPartRead(u, p)
      \/ AddPartCommit(u)
      \/ PublishVersion(u)
      \/ CreateScenario(u)
      \/ \E i \in Inputs : AddInputRead(u, i)
      \/ AddInputCommit(u)
      \/ ValidateRead(u)
      \/ ValidateCommit(u)
      \/ ExecuteBlocked(u)
      \/ \E outcome \in SolverStatuses : Execute(u, outcome)
      \/ \E r \in Recommendations :
           \/ \E n \in DOMAIN execution : CreateRecommendation(u, r, n)
           \/ \E decision \in {"approve", "reject", "defer"} : Decide(u, r, decision)
           \/ \E a \in Actions : ConvertToAction(u, r, a)
           \/ \E kind \in Kinds : RecordOutcomeRead(u, r, kind)
      \/ RecordOutcomeCommit(u)

Next == DecisionNext \/ (ActionNext /\ UNCHANGED decisionVars)

Spec == Init /\ [][Next]_vars

-----------------------------------------------------------------------------
(* Properties.                                                             *)

\* "decide() guarantees approved_by_approval_id is populated if and only if
\* the most recent decision was approve", also once it was converted: no
\* later decision contradicts the one an action was created under.
AuthorityIsCurrent ==
    \A r \in Recommendations :
      LET row == recommendation[r]
          n == Len(row.approvals)
      IN  /\ row.governing = IF n > 0 /\ row.approvals[n] = "approve" THEN n ELSE 0
          /\ row.converted # {} => row.governing # 0

\* An action that came approved from a decision is the one action of its
\* recommendation, which a solved execution backs.
ConvertedOnce ==
    /\ \A a \in Actions : action[a].origin \in Recommendations =>
         recommendation[action[a].origin].converted = {a}
    /\ \A r \in Recommendations : recommendation[r].converted # {} =>
         /\ recommendation[r].status = "converted_to_action"
         /\ execution[recommendation[r].execution].status = "solved"

\* Nothing is solved without a validation that passed: some sound input was
\* there, and the problem version was published.
SolvedWasGated ==
    \A n \in DOMAIN execution : execution[n].status # "blocked" =>
      /\ execution[n].inputs \cap Sound # {}
      /\ problem.status = "published"

\* What was solved had passed its gates.
SolvingIsSound == TypeOK /\ SolvedWasGated
=============================================================================
