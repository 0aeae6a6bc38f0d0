----------------------------- MODULE ActionWork -----------------------------
(***************************************************************************)
(* Operational actions: ActionService (app/services/action_service.py)     *)
(* under the transition table of app/engines/action_engine.py.             *)
(*                                                                         *)
(* No method locks the action: a request reads the row, checks it, and     *)
(* writes the columns it sets by primary key.  Requests that decide        *)
(* anything are a Read step and a Commit step.  An event carries the       *)
(* request's idempotency key, unique for the action; keys are numbers.     *)
(***************************************************************************)
EXTENDS Naturals, FiniteSets

CONSTANTS
    Users,          \* members of the organization, one request in flight each
    Admins,         \* those who are organization or platform admins
    Actions,        \* ids of action rows
    Others,         \* further actions, which depend on none of these
    MaxEvents,      \* bound on the events of an action
    MaxRows         \* bound on its dependencies, resources, evidence, outcomes

ASSUME ActorsAssumption ==
    Admins \subseteq Users /\ Others \cap Actions = {} /\ MaxEvents \in Nat /\ MaxRows \in Nat

\* ALLOWED_TRANSITIONS
Allowed ==
    [proposed |-> {"pending_approval", "approved", "cancelled"},
     pending_approval |-> {"approved", "rejected", "cancelled"},
     approved |-> {"assigned", "cancelled"},
     assigned |-> {"scheduled", "in_progress", "cancelled"},
     scheduled |-> {"in_progress", "cancelled"},
     in_progress |-> {"blocked", "completed", "cancelled"},
     blocked |-> {"in_progress", "cancelled"},
     completed |-> {"verification_pending", "cancelled"},
     verification_pending |-> {"verified", "verification_rejected"},
     verification_rejected |-> {"in_progress", "completed", "cancelled"},
     rejected |-> {},
     verified |-> {},
     cancelled |-> {}]

Statuses == DOMAIN Allowed
Terminal == {"rejected", "verified", "cancelled"}

\* What a status can only be reached through an approval.
Work == {"assigned", "scheduled", "in_progress", "blocked", "completed",
         "verification_pending", "verified", "verification_rejected"}

VARIABLES
    action,     \* operational_actions with their child rows
    request     \* requests past their reads

Idle == [op |-> "idle"]
Absent == [status |-> "absent", required |-> FALSE, approval |-> "none",
           origin |-> "none", completed |-> FALSE, verified |-> FALSE,
           needs |-> {}, short |-> FALSE, evidence |-> FALSE,
           outcomes |-> {}, events |-> {}, keys |-> {}]

\* An event of the trail: what the writer read and wrote, and whether it is
\* an approval by an admin.
Events == [prior : Statuses, new : Statuses, admin : BOOLEAN]

\* Rows hold what their columns can, and no action depends on itself.
ActionTypeOK ==
    /\ DOMAIN action = Actions
    /\ \A a \in Actions :
         /\ action[a].status \in Statuses \cup {"absent"}
         /\ action[a].approval \in {"none", "not_required", "required", "pending",
                                    "approved", "rejected"}
         /\ action[a].needs \subseteq (Actions \cup Others) \ {a}
         /\ action[a].outcomes \subseteq {"expected", "realized"}
         /\ action[a].events \subseteq Events
         /\ action[a].keys \subseteq 1 .. MaxEvents

Exists(a) == action[a].status # "absent"

Flag(b) == IF b THEN 1 ELSE 0

\* The action is there and has room for another child row.
Room(a) ==
    /\ Exists(a)
    /\ Cardinality(action[a].needs) + Cardinality(action[a].outcomes)
         + Flag(action[a].short) + Flag(action[a].evidence) < MaxRows

Hold(u, r) == request' = [request EXCEPT ![u] = r]
Release(u) == Hold(u, Idle)

-----------------------------------------------------------------------------

\* create: the fingerprint of the source is looked up and is unique, so a
\* source has one action; approval is required by cost, exposure, confidence
\* or sensitivity.
Create(u, a, required) ==
    /\ request[u] = Idle
    /\ ~Exists(a)
    /\ action' = [action EXCEPT ![a] =
         [Absent EXCEPT !.status = "proposed",
                        !.required = required,
                        !.approval = IF required THEN "required" ELSE "not_required",
                        !.origin = "source"]]
    /\ UNCHANGED request

TransitionRead_AnyApprover(u, a, to, k) ==
    /\ request[u] = Idle
    /\ Exists(a)
    /\ k \notin action[a].keys
    /\ to \in Allowed[action[a].status]
    /\ to = "completed" => action[a].needs = {} /\ ~action[a].short
    /\ to = "verified" => action[a].evidence
    /\ Hold(u, [op |-> "transition", action |-> a, prior |-> action[a].status,
                new |-> to, key |-> k])
    /\ UNCHANGED action

\* transition, up to its commit.  A key with an event is a replay.  A
\* mandatory dependency stays unresolved: nothing resolves one.
TransitionRead(u, a, to, k) ==
    /\ request[u] = Idle
    /\ Exists(a)
    /\ k \notin action[a].keys
    /\ to \in Allowed[action[a].status]
    /\ to = "approved" /\ action[a].required => u \in Admins
    /\ to = "completed" => action[a].needs = {} /\ ~action[a].short
    /\ to = "verified" => action[a].evidence
    /\ Hold(u, [op |-> "transition", action |-> a, prior |-> action[a].status,
                new |-> to, key |-> k])
    /\ UNCHANGED action

\* The approval_status a transition writes, if it writes one.
ApprovalAfter(to, approval) ==
    CASE to = "pending_approval" -> "pending"
      [] to = "approved" -> "approved"
      [] to = "rejected" -> "rejected"
      [] OTHER -> approval

TransitionCommit_NoEvent(u) ==
    /\ request[u].op = "transition"
    /\ Release(u)
    /\ LET q == request[u]
           row == action[q.action]
       IN  IF q.key \in row.keys
           THEN UNCHANGED action
           ELSE action' = [action EXCEPT ![q.action] =
                  [row EXCEPT !.status = q.new,
                              !.approval = ApprovalAfter(q.new, @),
                              !.completed = @ \/ q.new = "completed",
                              !.verified = @ \/ q.new = "verified",
                              !.keys = @ \cup {q.key}]]

\* The update and the event; when the key has come into use meanwhile the
\* whole transaction is refused.
TransitionCommit(u) ==
    /\ request[u].op = "transition"
    /\ Release(u)
    /\ LET q == request[u]
           row == action[q.action]
       IN  IF q.key \in row.keys
           THEN UNCHANGED action
           ELSE action' = [action EXCEPT ![q.action] =
                  [row EXCEPT !.status = q.new,
                              !.approval = ApprovalAfter(q.new, @),
                              !.completed = @ \/ q.new = "completed",
                              !.verified = @ \/ q.new = "verified",
                              !.events = @ \cup {[prior |-> q.prior, new |-> q.new,
                                                  admin |-> q.new = "approved" /\ u \in Admins]},
                              !.keys = @ \cup {q.key}]]

\* assign: whoever the action is assigned to, whatever its status; the event
\* takes a key, and one in use refuses the request.
Assign(u, a, k) ==
    /\ request[u] = Idle
    /\ Exists(a)
    /\ k \notin action[a].keys
    /\ action' = [action EXCEPT ![a].keys = @ \cup {k}]
    /\ UNCHANGED request

\* add_dependency: a mandatory one on another action, unless that action
\* depends on this one.
DependencyRead(u, a, on) ==
    /\ request[u] = Idle
    /\ Room(a)
    /\ on \in Actions => Exists(on) /\ on # a /\ a \notin action[on].needs
    /\ Hold(u, [op |-> "dependency", action |-> a, on |-> on])
    /\ UNCHANGED action

DependencyCommit(u) ==
    /\ request[u].op = "dependency"
    /\ Release(u)
    /\ action' = [action EXCEPT ![request[u].action].needs = @ \cup {request[u].on}]

\* add_resource: a mandatory resource that is short or not confirmed.
AddShortResource(u, a) ==
    /\ request[u] = Idle
    /\ Room(a)
    /\ ~action[a].short
    /\ action' = [action EXCEPT ![a].short = TRUE]
    /\ UNCHANGED request

\* add_evidence of the verification stage.
AddEvidence(u, a) ==
    /\ request[u] = Idle
    /\ Room(a)
    /\ ~action[a].evidence
    /\ action' = [action EXCEPT ![a].evidence = TRUE]
    /\ UNCHANGED request

OutcomeRead_AnyStatus(u, a, type) ==
    /\ request[u] = Idle
    /\ Room(a)
    /\ type = "realized" => action[a].evidence
    /\ Hold(u, [op |-> "outcome", action |-> a, type |-> type])
    /\ UNCHANGED action

\* record_outcome: a realized value needs a verified action and evidence.
OutcomeRead(u, a, type) ==
    /\ request[u] = Idle
    /\ Room(a)
    /\ type = "realized" => action[a].status = "verified" /\ action[a].evidence
    /\ Hold(u, [op |-> "outcome", action |-> a, type |-> type])
    /\ UNCHANGED action

\* The insert; a second outcome of the type is refused.
OutcomeCommit(u) ==
    /\ request[u].op = "outcome"
    /\ Release(u)
    /\ action' = [action EXCEPT ![request[u].action].outcomes = @ \cup {request[u].type}]

-----------------------------------------------------------------------------

\* The keys of transitions in flight.
Pending(a) == {request[v].key : v \in {v \in Users : /\ request[v].op = "transition"
                                                    /\ request[v].action = a}}

\* The keys a request may bring: that of a request still in flight, sent
\* again, or the first that nobody has used.
Offered(a) ==
    LET unused == (1 .. MaxEvents) \ (action[a].keys \cup Pending(a))
    IN  Pending(a) \cup {k \in unused : \A j \in unused : k <= j}

ActionNext ==
    \E u \in Users :
      \/ TransitionCommit(u)
      \/ DependencyCommit(u)
      \/ OutcomeCommit(u)
      \/ \E a \in Actions :
           \/ \E required \in BOOLEAN : Create(u, a, required)
           \/ \E k \in Offered(a) :
                \/ Assign(u, a, k)
                \/ \E to \in Statuses : TransitionRead(u, a, to, k)
           \/ \E on \in Actions \cup Others : DependencyRead(u, a, on)
           \/ AddShortResource(u, a)
           \/ AddEvidence(u, a)
           \/ \E type \in {"expected", "realized"} : OutcomeRead(u, a, type)

ActionInit ==
    /\ action = [a \in Actions |-> Absent]
    /\ request = [u \in Users |-> Idle]

ActionSpec == ActionInit /\ [][ActionNext]_<<action, request>>

-----------------------------------------------------------------------------
(* Properties.                                                             *)

\* The first status of an action: one converted from a recommendation is
\* approved when it is inserted.
Initial(a) == IF action[a].origin = "source" THEN "proposed" ELSE "approved"

\* No work without an approval: an action that is being worked on, or was,
\* has an approval by an admin on its trail when approval is required,
\* unless it came approved from a decision; whatever requests raced.
WorkIsAuthorised ==
    \A a \in Actions :
      action[a].status \in Work /\ action[a].required /\ action[a].origin = "source" =>
        \E e \in action[a].events : e.admin

\* The event trail accounts for the status: each event starts from the first
\* status or from one that another event reached, and the status is the
\* first or the outcome of an event.
TrailExplainsStatus ==
    \A a \in Actions : Exists(a) =>
      LET reached == {Initial(a)} \cup {e.new : e \in action[a].events}
      IN  /\ action[a].status \in reached
          /\ \A e \in action[a].events : e.prior \in reached

\* A realized value was earned: the action was completed, verified on
\* evidence, and its approval, when one is required, is on the trail.
RealizedWasVerified ==
    \A a \in Actions : "realized" \in action[a].outcomes =>
      /\ action[a].completed /\ action[a].verified /\ action[a].evidence
      /\ action[a].required /\ action[a].origin = "source" =>
           \E e \in action[a].events : e.admin

\* What an action claims to have realized, it earned.
ValueIsSound == ActionTypeOK /\ RealizedWasVerified
=============================================================================
