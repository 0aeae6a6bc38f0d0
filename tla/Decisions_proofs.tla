-------------------------- MODULE Decisions_proofs --------------------------
(***************************************************************************)
(* Proofs about operational actions, by themselves (ActionSpec) and        *)
(* composed with the decisions that convert into them (Spec), for any      *)
(* number of members, admins, actions, inputs, executions, decisions and   *)
(* outcome links, and any length of the event trail.                       *)
(***************************************************************************)
EXTENDS Decisions, SequenceTheorems, TLAPS

-----------------------------------------------------------------------------
(* The inductive invariant of the work on actions.                         *)

\* Rows of operational_actions with their children, and requests in flight.
Rows == [status : Statuses \cup {"absent"},
         required : BOOLEAN,
         approval : {"none", "not_required", "required", "pending", "approved", "rejected"},
         origin : {"none", "source"} \cup Recommendations,
         completed : BOOLEAN,
         verified : BOOLEAN,
         needs : SUBSET (Actions \cup Others),
         short : BOOLEAN,
         evidence : BOOLEAN,
         outcomes : SUBSET {"expected", "realized"},
         events : SUBSET Events,
         keys : SUBSET (1 .. MaxEvents)]

Transitions == [op : {"transition"}, action : Actions, prior : Statuses, new : Statuses,
                key : 1 .. MaxEvents]
Dependencies == {q \in [op : {"dependency"}, action : Actions, on : Actions \cup Others] : q.on # q.action}
Outcomes == [op : {"outcome"}, action : Actions, type : {"expected", "realized"}]

\* The requests of the decision services.
Links == [op : {"link"}, recommendation : Recommendations, kind : Kinds,
          kinds : SUBSET (Kinds \cup {"none"})]
DecisionRequests == [op : {"part"}, part : Parts] \cup [op : {"input"}, input : Inputs]
                      \cup [op : {"validate"}, passed : BOOLEAN,
                             status : {"absent", "draft", "blocked", "ready", "completed"},
                             validation : {"pending", "passed", "blocked"}] \cup Links
ActionRequests == {Idle} \cup Transitions \cup Dependencies \cup Outcomes

Types ==
    /\ action \in [Actions -> Rows]
    /\ request \in [Users -> ActionRequests \cup DecisionRequests]
    /\ \A a \in Actions : a \notin action[a].needs

\* An approval by an admin is on the trail of an action that requires one.
Authorised(row) ==
    row.required /\ row.origin = "source" => \E e \in row.events : e.admin

\* The statuses the trail accounts for.
Reached(row) ==
    {IF row.origin = "source" THEN "proposed" ELSE "approved"} \cup {e.new : e \in row.events}

\* What an action has been through, by its status.
RowSound(row) ==
    /\ row.status \in Work \cup {"approved"} => Authorised(row)
    /\ row.status \in {"completed", "verification_pending", "verified"} => row.completed
    /\ row.status = "verified" => row.verified /\ row.evidence
    /\ row.status \in Reached(row)
    /\ \A e \in row.events : e.prior \in Reached(row)
    /\ "realized" \in row.outcomes =>
         row.completed /\ row.verified /\ row.evidence /\ Authorised(row)

\* What a request saw of its action and still holds at its commit, however
\* stale the rest of what it read is: rows only gain in this respect.
RequestSound(u, q) ==
    /\ q.op = "transition" =>
         LET row == action[q.action]
         IN  /\ row.status # "absent"
             /\ q.prior \in Reached(row)
             /\ q.new = "approved" /\ row.required => u \in Admins
             /\ q.new \in Work => Authorised(row)
             /\ q.new \in {"verification_pending", "verified"} => row.completed
             /\ q.new = "verified" => row.evidence
    /\ q.op = "dependency" => action[q.action].status # "absent"
    /\ q.op = "outcome" =>
         LET row == action[q.action]
         IN  /\ row.status # "absent"
             /\ q.type = "realized" =>
                  row.completed /\ row.verified /\ row.evidence /\ Authorised(row)

AInv ==
    /\ Types
    /\ \A a \in Actions : action[a].status # "absent" => RowSound(action[a])
    /\ \A a \in Actions : action[a].status = "absent" => action[a] = Absent
    /\ \A u \in Users : RequestSound(u, request[u])

\* What no step takes back from an action that is there.
Grows(old, new) ==
    /\ old.status # "absent" /\ new.status # "absent"
    /\ new.required = old.required /\ new.origin = old.origin
    /\ old.events \subseteq new.events
    /\ old.completed => new.completed
    /\ old.verified => new.verified
    /\ old.evidence => new.evidence

-----------------------------------------------------------------------------

\* The transition table, as far as it is needed: where work, approval and
\* verification are entered from.
LEMMA TableFacts ==
    /\ Statuses = {"proposed", "pending_approval", "approved", "assigned", "scheduled",
                   "in_progress", "blocked", "completed", "verification_pending",
                   "verification_rejected", "rejected", "verified", "cancelled"}
    /\ \A s \in Statuses : \A t \in Allowed[s] :
         /\ t \in Statuses
         /\ t \in Work => s \in Work \cup {"approved"}
         /\ t = "verified" => s = "verification_pending"
         /\ t = "verification_pending" => s = "completed"
  BY DEF Statuses, Allowed, Work

\* An approval on the trail stays there.
LEMMA AuthorisedGrows ==
    ASSUME NEW old \in Rows, NEW new \in Rows, Grows(old, new), Authorised(old)
    PROVE  Authorised(new)
  BY DEF Grows, Authorised, Rows

\* What the trail accounts for, it goes on accounting for.
LEMMA ReachedGrows ==
    ASSUME NEW old \in Rows, NEW new \in Rows, Grows(old, new)
    PROVE  Reached(old) \subseteq Reached(new)
  BY DEF Grows, Reached, Rows

\* A request is told apart by its operation.
LEMMA RequestKinds ==
    ASSUME Types, NEW u \in Users
    PROVE  /\ request[u].op = "transition" <=> request[u] \in Transitions
           /\ request[u].op = "dependency" <=> request[u] \in Dependencies
           /\ request[u].op = "outcome" <=> request[u] \in Outcomes
           /\ request[u].op = "link" => request[u] \in Links
           /\ request[u].op = "idle" => request[u] = Idle
           /\ request[u] \in ActionRequests \cup DecisionRequests
           /\ request[u] = Idle => request[u].op = "idle"
  BY DEF Types, ActionRequests, DecisionRequests, Transitions, Dependencies, Outcomes, Links, Idle

\* A request that waits keeps what it is entitled to when its action grows.
LEMMA RequestKeeps ==
    ASSUME Types, Types', NEW u \in Users, RequestSound(u, request[u]),
           request'[u] = request[u],
           \A a \in Actions : action[a].status # "absent" => Grows(action[a], action'[a])
    PROVE  RequestSound(u, request[u])'
  <1> DEFINE q == request[u]
             a == q.action
  <1>1. request'[u] = q
    OBVIOUS
  <1>2. q \in ActionRequests \cup DecisionRequests
    BY DEF Types
  <1>3. q \in Transitions \cup Outcomes /\ action[a].status # "absent" =>
          /\ Reached(action[a]) \subseteq Reached(action'[a])
          /\ Authorised(action[a]) => Authorised(action'[a])
          /\ Grows(action[a], action'[a])
    BY AuthorisedGrows, ReachedGrows DEF Types, Transitions, Outcomes
  <1>4. CASE q = Idle
    BY <1>1, <1>4 DEF RequestSound, Idle
  <1>5. CASE q \in Transitions
    BY <1>1, <1>3, <1>5 DEF RequestSound, Transitions, Grows
  <1>6. CASE q \in Dependencies
    BY <1>1, <1>6 DEF RequestSound, Dependencies, Grows
  <1>7. CASE q \in Outcomes
    BY <1>1, <1>3, <1>7 DEF RequestSound, Outcomes, Grows
  <1>8. CASE q \in DecisionRequests
    BY <1>1, <1>8 DEF RequestSound, DecisionRequests, Links
  <1> QED  BY <1>2, <1>4, <1>5, <1>6, <1>7, <1>8 DEF ActionRequests

-----------------------------------------------------------------------------
(* Each action keeps the invariant.                                        *)

\* No action and no request is there at first.
LEMMA InitAInv == ActionInit => AInv
  <1> SUFFICES ASSUME ActionInit PROVE AInv
    OBVIOUS
  <1>1. Absent \in Rows /\ Absent.status = "absent" /\ Absent.needs = {}
    BY DEF Absent, Rows, Events
  <1>2. \A u \in Users : request[u] = Idle /\ RequestSound(u, request[u])
    BY DEF ActionInit, RequestSound, Idle
  <1> QED  BY <1>1, <1>2 DEF ActionInit, AInv, Types, ActionRequests

\* A step that rewrites one row and at most ends one request keeps the
\* invariant when the new row is sound and has grown.
LEMMA RowStep ==
    ASSUME AInv, NEW u \in Users, NEW a \in Actions, NEW row \in Rows,
           action' = [action EXCEPT ![a] = row],
           request' = request \/ request' = [request EXCEPT ![u] = Idle],
           a \notin row.needs,
           row.status # "absent",
           RowSound(row),
           action[a].status # "absent" => Grows(action[a], row)
    PROVE  AInv'
  <1>1. Types'
    BY DEF AInv, Types, ActionRequests
  <1>2. \A b \in Actions : action'[b] = IF b = a THEN row ELSE action[b]
    BY DEF AInv, Types
  <1>3. \A b \in Actions :
          /\ action'[b].status # "absent" => RowSound(action'[b])
          /\ action'[b].status = "absent" => action'[b] = Absent
    BY <1>2 DEF AInv
  <1>4. \A b \in Actions : action[b].status # "absent" => Grows(action[b], action'[b])
    BY <1>2 DEF Grows
  <1>5. ASSUME NEW v \in Users PROVE RequestSound(v, request[v])'
    <2>1. CASE request'[v] = request[v]
      BY <1>1, <1>4, <2>1, RequestKeeps DEF AInv
    <2>2. CASE request'[v] = Idle
      BY <2>2 DEF RequestSound, Idle
    <2> QED  BY <2>1, <2>2 DEF AInv, Types
  <1> QED  BY <1>1, <1>3, <1>5 DEF AInv

\* A step that leaves the rows alone and begins one request keeps it when
\* that request is entitled to what it will write, and so does one that
\* ends a request without writing.
LEMMA RequestStep ==
    ASSUME AInv, NEW u \in Users,
           NEW q \in ActionRequests \cup DecisionRequests,
           request' = [request EXCEPT ![u] = q],
           UNCHANGED action,
           RequestSound(u, q)
    PROVE  AInv'
  <1>1. \A v \in Users : request'[v] = IF v = u THEN q ELSE request[v]
    BY DEF AInv, Types
  <1>2. Types'
    BY DEF AInv, Types
  <1>3. \A v \in Users : RequestSound(v, request[v])'
    BY <1>1 DEF AInv, RequestSound
  <1> QED  BY <1>2, <1>3 DEF AInv, RowSound, Authorised, Reached

\* create inserts a proposed action with an empty trail.
LEMMA CreateKeeps ==
    ASSUME AInv, NEW u \in Users, NEW a \in Actions, NEW required \in BOOLEAN,
           Create(u, a, required)
    PROVE  AInv'
  <1> DEFINE row == [Absent EXCEPT !.status = "proposed",
                        !.required = required,
                        !.approval = IF required THEN "required" ELSE "not_required",
                        !.origin = "source"]
  <1>1. row \in Rows
    BY TableFacts DEF Absent, Rows, Events
  <1>2. /\ row.status = "proposed" /\ row.origin = "source"
        /\ row.events = {} /\ row.outcomes = {} /\ row.needs = {}
    BY DEF Absent
  <1>3. RowSound(row)
    BY <1>2 DEF RowSound, Reached, Work
  <1>4. action' = [action EXCEPT ![a] = row] /\ request' = request /\ action[a].status = "absent"
    BY DEF Create, Exists
  <1> HIDE DEF row
  <1> QED  BY <1>1, <1>2, <1>3, <1>4, RowStep

\* What transition checks is what the request is entitled to at its commit.
LEMMA TransitionReadKeeps ==
    ASSUME AInv, NEW u \in Users, NEW a \in Actions, NEW to \in Statuses,
           NEW k \in 1 .. MaxEvents, TransitionRead(u, a, to, k)
    PROVE  AInv'
  <1> DEFINE q == [op |-> "transition", action |-> a, prior |-> action[a].status,
                   new |-> to, key |-> k]
             row == action[a]
  <1>1. row \in Rows /\ row.status # "absent" /\ RowSound(row) /\ row.status \in Statuses
    BY DEF TransitionRead, Exists, AInv, Types, Rows
  <1>2. q \in Transitions
    BY <1>1 DEF Transitions
  <1>3. to \in Allowed[row.status]
    BY DEF TransitionRead
  <1>4. /\ to \in Work => Authorised(row)
        /\ to \in {"verification_pending", "verified"} => row.completed
    BY <1>1, <1>3, TableFacts DEF RowSound
  <1>5. /\ to = "approved" /\ row.required => u \in Admins
        /\ to = "verified" => row.evidence
        /\ row.status \in Reached(row)
    BY <1>1 DEF TransitionRead, RowSound
  <1>6. RequestSound(u, q)
    BY <1>1, <1>4, <1>5 DEF RequestSound
  <1>7. request' = [request EXCEPT ![u] = q] /\ UNCHANGED action
    BY DEF TransitionRead, Hold
  <1> HIDE DEF q
  <1> QED  BY <1>2, <1>6, <1>7, RequestStep DEF ActionRequests

\* The commit of a transition, on a row that may have moved on since.
LEMMA TransitionCommitKeeps ==
    ASSUME AInv, NEW u \in Users, TransitionCommit(u)
    PROVE  AInv'
  <1> DEFINE q == request[u]
             a == q.action
             old == action[a]
             event == [prior |-> q.prior, new |-> q.new,
                       admin |-> q.new = "approved" /\ u \in Admins]
             row == [old EXCEPT !.status = q.new,
                                !.approval = ApprovalAfter(q.new, @),
                                !.completed = @ \/ q.new = "completed",
                                !.verified = @ \/ q.new = "verified",
                                !.events = @ \cup {event},
                                !.keys = @ \cup {q.key}]
  <1>1. q \in Transitions /\ RequestSound(u, q) /\ a \in Actions
    BY RequestKinds DEF AInv, TransitionCommit, Transitions
  <1>2. CASE q.key \in old.keys
    <2>1. UNCHANGED action /\ request' = [request EXCEPT ![u] = Idle]
      BY <1>2 DEF TransitionCommit, Release, Hold
    <2>2. RequestSound(u, Idle)
      BY DEF RequestSound, Idle
    <2> QED  BY <2>1, <2>2, RequestStep DEF ActionRequests
  <1>3. CASE q.key \notin old.keys
    <2>1. action' = [action EXCEPT ![a] = row] /\ request' = [request EXCEPT ![u] = Idle]
      BY <1>1, <1>3 DEF TransitionCommit, Release, Hold
    <2>2. old \in Rows /\ old.status # "absent" /\ RowSound(old) /\ a \notin old.needs
      BY <1>1 DEF AInv, Types, RequestSound, Transitions
    <2>3. event \in Events
      BY <1>1 DEF Events, Transitions
    <2>4. ApprovalAfter(q.new, old.approval)
            \in {"none", "not_required", "required", "pending", "approved", "rejected"}
      BY <2>2 DEF ApprovalAfter, Rows
    <2>5. row \in Rows
      BY <1>1, <2>2, <2>3, <2>4 DEF Rows, Transitions
    <2>6. /\ row.status = q.new /\ row.status # "absent"
          /\ row.events = old.events \cup {event}
          /\ row.origin = old.origin /\ row.required = old.required
          /\ row.evidence = old.evidence /\ row.outcomes = old.outcomes
          /\ row.needs = old.needs
          /\ row.completed = (old.completed \/ q.new = "completed")
          /\ row.verified = (old.verified \/ q.new = "verified")
      BY <1>1, <2>2, TableFacts DEF Rows, Transitions
    <2>7. Grows(old, row)
      BY <2>2, <2>6 DEF Grows
    <2>8. Reached(old) \subseteq Reached(row) /\ q.new \in Reached(row) /\ q.prior \in Reached(row)
      <3>1. q.prior \in Reached(old)
        BY <1>1 DEF RequestSound, Transitions
      <3>2. event.new = q.new /\ event \in row.events
        BY <2>6
      <3>3. q.new \in Reached(row)
        BY <3>2 DEF Reached
      <3> QED  BY <2>2, <2>5, <2>7, <3>1, <3>3, ReachedGrows
    <2>9. Authorised(old) => Authorised(row)
      BY <2>2, <2>5, <2>7, AuthorisedGrows
    <2>10. q.new \in Work \cup {"approved"} => Authorised(row)
      <3>1. q.new \in Work => Authorised(old)
        BY <1>1 DEF RequestSound, Transitions
      <3>2. q.new = "approved" => Authorised(row)
        <4>1. q.new = "approved" /\ old.required => event.admin
          BY <1>1 DEF RequestSound, Transitions
        <4> QED  BY <2>6, <4>1 DEF Authorised
      <3> QED  BY <2>9, <3>1, <3>2
    <2>11. /\ q.new \in {"completed", "verification_pending", "verified"} => row.completed
           /\ q.new = "verified" => row.verified /\ row.evidence
      BY <1>1, <2>6 DEF RequestSound, Transitions
    <2>12. \A e \in row.events : e.prior \in Reached(row)
      BY <2>2, <2>6, <2>8 DEF RowSound
    <2>13. RowSound(row)
      BY <2>2, <2>6, <2>8, <2>9, <2>10, <2>11, <2>12 DEF RowSound
    <2> HIDE DEF row, old, event
    <2> QED  BY <1>1, <2>1, <2>2, <2>5, <2>6, <2>7, <2>13, RowStep DEF old
  <1> QED  BY <1>2, <1>3

\* assign only uses up a key.
LEMMA AssignKeeps ==
    ASSUME AInv, NEW u \in Users, NEW a \in Actions, NEW k \in 1 .. MaxEvents, Assign(u, a, k)
    PROVE  AInv'
  <1> DEFINE old == action[a]
             row == [old EXCEPT !.keys = @ \cup {k}]
  <1>1. old \in Rows /\ old.status # "absent" /\ RowSound(old) /\ a \notin old.needs
    BY DEF AInv, Types, Assign, Exists
  <1>2. action' = [action EXCEPT ![a] = row] /\ request' = request
    BY DEF Assign
  <1>3. row \in Rows
    BY <1>1 DEF Rows
  <1>4. RowSound(row) /\ Grows(old, row) /\ row.status # "absent" /\ row.needs = old.needs
    BY <1>1 DEF Rows, RowSound, Grows, Authorised, Reached
  <1> HIDE DEF row
  <1> QED  BY <1>1, <1>2, <1>3, <1>4, RowStep

\* add_dependency up to its commit.
LEMMA DependencyReadKeeps ==
    ASSUME AInv, NEW u \in Users, NEW a \in Actions, NEW on \in Actions \cup Others,
           DependencyRead(u, a, on)
    PROVE  AInv'
  <1> DEFINE q == [op |-> "dependency", action |-> a, on |-> on]
  <1>1. q \in Dependencies /\ action[a].status # "absent"
    BY ActorsAssumption DEF DependencyRead, Dependencies, Room, Exists
  <1>2. RequestSound(u, q)
    BY <1>1 DEF RequestSound
  <1>3. request' = [request EXCEPT ![u] = q] /\ UNCHANGED action
    BY DEF DependencyRead, Hold
  <1> HIDE DEF q
  <1> QED  BY <1>1, <1>2, <1>3, RequestStep DEF ActionRequests

\* add_dependency only adds to what the action needs.
LEMMA DependencyCommitKeeps ==
    ASSUME AInv, NEW u \in Users, DependencyCommit(u)
    PROVE  AInv'
  <1> DEFINE q == request[u]
             a == q.action
             old == action[a]
             row == [old EXCEPT !.needs = @ \cup {q.on}]
  <1>1. q \in Dependencies /\ RequestSound(u, q) /\ a \in Actions /\ q.on \in (Actions \cup Others) \ {a}
    BY RequestKinds DEF AInv, DependencyCommit, Dependencies
  <1>2. old \in Rows /\ old.status # "absent" /\ RowSound(old) /\ a \notin old.needs
    BY <1>1 DEF AInv, Types, RequestSound, Dependencies
  <1>3. action' = [action EXCEPT ![a] = row] /\ request' = [request EXCEPT ![u] = Idle]
    BY DEF DependencyCommit, Release, Hold
  <1>4. row \in Rows /\ a \notin row.needs
    BY <1>1, <1>2 DEF Rows
  <1>5. RowSound(row) /\ Grows(old, row) /\ row.status # "absent"
    BY <1>2 DEF Rows, RowSound, Grows, Authorised, Reached
  <1> HIDE DEF row
  <1> QED  BY <1>1, <1>2, <1>3, <1>4, <1>5, RowStep

\* add_resource and add_evidence.
LEMMA AddKeeps ==
    ASSUME AInv, NEW u \in Users, NEW a \in Actions, AddShortResource(u, a) \/ AddEvidence(u, a)
    PROVE  AInv'
  <1> DEFINE old == action[a]
             short == [old EXCEPT !.short = TRUE]
             evidenced == [old EXCEPT !.evidence = TRUE]
  <1>1. old \in Rows /\ old.status # "absent" /\ RowSound(old) /\ a \notin old.needs
    BY DEF AInv, Types, AddShortResource, AddEvidence, Room, Exists
  <1>2. PICK row \in {short, evidenced} : action' = [action EXCEPT ![a] = row] /\ request' = request
    BY DEF AddShortResource, AddEvidence
  <1>3. row \in Rows
    <2>1. short \in Rows /\ evidenced \in Rows
      BY <1>1 DEF Rows
    <2> QED  BY <1>2, <2>1
  <1>4. RowSound(row) /\ Grows(old, row) /\ row.status # "absent" /\ row.needs = old.needs
    BY <1>1, <1>2 DEF Rows, RowSound, Grows, Authorised, Reached
  <1> QED  BY <1>1, <1>2, <1>3, <1>4, RowStep

\* record_outcome finds a realized value earned when it checks.
LEMMA OutcomeReadKeeps ==
    ASSUME AInv, NEW u \in Users, NEW a \in Actions, NEW type \in {"expected", "realized"},
           OutcomeRead(u, a, type)
    PROVE  AInv'
  <1> DEFINE q == [op |-> "outcome", action |-> a, type |-> type]
             row == action[a]
  <1>1. row.status # "absent" /\ RowSound(row)
    BY DEF AInv, OutcomeRead, Room, Exists
  <1>2. type = "realized" =>
          row.completed /\ row.verified /\ row.evidence /\ Authorised(row)
    BY <1>1 DEF OutcomeRead, RowSound, Work
  <1>3. q \in Outcomes /\ RequestSound(u, q)
    BY <1>1, <1>2 DEF Outcomes, RequestSound
  <1>4. request' = [request EXCEPT ![u] = q] /\ UNCHANGED action
    BY DEF OutcomeRead, Hold
  <1> HIDE DEF q
  <1> QED  BY <1>3, <1>4, RequestStep DEF ActionRequests

\* What an action has earned stays earned until the outcome is inserted.
LEMMA OutcomeCommitKeeps ==
    ASSUME AInv, NEW u \in Users, OutcomeCommit(u)
    PROVE  AInv'
  <1> DEFINE q == request[u]
             a == q.action
             old == action[a]
             row == [old EXCEPT !.outcomes = @ \cup {q.type}]
  <1>1. q \in Outcomes /\ RequestSound(u, q) /\ a \in Actions /\ q.type \in {"expected", "realized"}
    BY RequestKinds DEF AInv, OutcomeCommit, Outcomes
  <1>2. /\ old \in Rows /\ old.status # "absent" /\ RowSound(old) /\ a \notin old.needs
        /\ q.type = "realized" =>
             old.completed /\ old.verified /\ old.evidence /\ Authorised(old)
    BY <1>1 DEF AInv, Types, RequestSound, Outcomes
  <1>3. action' = [action EXCEPT ![a] = row] /\ request' = [request EXCEPT ![u] = Idle]
    BY DEF OutcomeCommit, Release, Hold
  <1>4. row \in Rows
    BY <1>1, <1>2 DEF Rows
  <1>5. RowSound(row) /\ Grows(old, row) /\ row.status # "absent" /\ row.needs = old.needs
    BY <1>1, <1>2 DEF Rows, RowSound, Grows, Authorised, Reached
  <1> HIDE DEF row
  <1> QED  BY <1>1, <1>2, <1>3, <1>4, <1>5, RowStep

\* Every step keeps the invariant.
LEMMA NextAInv ==
    ASSUME AInv, [ActionNext]_<<action, request>>
    PROVE  AInv'
  <1>1. CASE UNCHANGED <<action, request>>
    BY <1>1 DEF AInv, Types, RequestSound, RowSound, Authorised, Reached
  <1>2. CASE ActionNext
    <2>1. PICK u \in Users :
            \/ TransitionCommit(u) \/ DependencyCommit(u) \/ OutcomeCommit(u)
            \/ \E a \in Actions :
                 \/ \E required \in BOOLEAN : Create(u, a, required)
                 \/ \E k \in Offered(a) :
                      \/ Assign(u, a, k)
                      \/ \E to \in Statuses : TransitionRead(u, a, to, k)
                 \/ \E on \in Actions \cup Others : DependencyRead(u, a, on)
                 \/ AddShortResource(u, a)
                 \/ AddEvidence(u, a)
                 \/ \E type \in {"expected", "realized"} : OutcomeRead(u, a, type)
      BY <1>2 DEF ActionNext
    <2>2. \A a \in Actions : Offered(a) \subseteq 1 .. MaxEvents
      <3>1. \A v \in Users : request[v].op = "transition" => request[v].key \in 1 .. MaxEvents
        BY RequestKinds DEF AInv, Transitions
      <3> QED  BY <3>1 DEF Offered, Pending
    <2> QED
      BY <2>1, <2>2, CreateKeeps, TransitionReadKeeps, TransitionCommitKeeps, AssignKeeps,
         DependencyReadKeeps, DependencyCommitKeeps, AddKeeps, OutcomeReadKeeps, OutcomeCommitKeeps
  <1> QED  BY <1>1, <1>2

\* What the invariant says of work, trail and value.
LEMMA AInvImplies ==
    AInv => WorkIsAuthorised /\ TrailExplainsStatus /\ ValueIsSound
  <1>1. AInv => WorkIsAuthorised
    BY DEF AInv, WorkIsAuthorised, RowSound, Authorised, Work
  <1>2. AInv => TrailExplainsStatus
    BY DEF AInv, TrailExplainsStatus, Exists, Initial, RowSound, Reached
  <1>3. AInv => ValueIsSound
    <2> SUFFICES ASSUME AInv PROVE ValueIsSound
      OBVIOUS
    <2>1. ActionTypeOK
      BY DEF AInv, Types, Rows, ActionTypeOK
    <2>2. Absent.outcomes = {}
      BY DEF Absent
    <2>3. RealizedWasVerified
      BY <2>2 DEF AInv, RealizedWasVerified, RowSound, Authorised
    <2> QED  BY <2>1, <2>3 DEF ValueIsSound
  <1> QED  BY <1>1, <1>2, <1>3

\* For any members, admins and actions, whatever requests race
\* (ActionService): an action that requires approval is worked on only with
\* an admin's approval on its trail.
THEOREM WorkNeedsApproval == ActionSpec => []WorkIsAuthorised
  BY AInvImplies, InitAInv, NextAInv, PTL DEF ActionSpec

\* The event trail accounts for the status of an action, also when two
\* transitions that read the same status commit one after the other.
THEOREM TrailIsComplete == ActionSpec => []TrailExplainsStatus
  BY AInvImplies, InitAInv, NextAInv, PTL DEF ActionSpec

\* A realized value belongs to an action that was completed and verified on
\* evidence (ActionService.record_outcome), whatever happened after the read.
THEOREM RealizedValueWasEarned == ActionSpec => []ValueIsSound
  BY AInvImplies, InitAInv, NextAInv, PTL DEF ActionSpec

-----------------------------------------------------------------------------
(* The inductive invariant of decisions.                                   *)

Executions == [status : SolverStatuses \cup {"blocked"}, inputs : SUBSET Inputs]
Decisions == {"approve", "reject", "defer"}
OutcomeLinks == [kind : Kinds \cup {"none"},
                 verification : {"verified", "pending_verification"},
                 reconciliation : {"pending", "reconciled", "reconciliation_required"}]
RecommendationRows ==
    [status : {"absent", "proposed", "reviewed", "approved", "rejected", "converted_to_action"},
     execution : Nat,
     approvals : Seq(Decisions),
     governing : Nat,
     converted : SUBSET Actions,
     links : Seq(OutcomeLinks)]

DecisionTypes ==
    /\ problem \in [status : {"draft", "published"}, parts : SUBSET Parts]
    /\ scenario \in [status : {"absent", "draft", "blocked", "ready", "completed"},
                     validation : {"pending", "passed", "blocked"},
                     inputs : SUBSET Inputs]
    /\ execution \in Seq(Executions)
    /\ recommendation \in [Recommendations -> RecommendationRows]

\* The inputs of a scenario only grow, so a validation that passed once
\* keeps a sound input, also one that is not written yet.
ScenarioSound ==
    /\ scenario.status # "absent" => problem.status = "published"
    /\ scenario.validation = "passed" => scenario.inputs \cap Sound # {}
    /\ \A u \in Users : request[u].op = "validate" =>
         /\ scenario.status # "absent"
         /\ request[u].passed => scenario.inputs \cap Sound # {}

\* The row of a recommendation: what it was created from, and the governing
\* decision.
RecommendationSound(row) ==
    /\ row.status # "absent" =>
         /\ row.execution \in 1 .. Len(execution)
         /\ execution[row.execution].status = "solved"
    /\ row.status = "absent" => row.execution = 0
    /\ row.converted # {} => row.status = "converted_to_action" /\ row.governing # 0
    /\ row.governing = IF Len(row.approvals) > 0 /\ row.approvals[Len(row.approvals)] = "approve"
                       THEN Len(row.approvals) ELSE 0

DInv ==
    /\ AInv
    /\ DecisionTypes
    /\ ScenarioSound
    /\ SolvedWasGated
    /\ \A r \in Recommendations : RecommendationSound(recommendation[r])
    /\ \A a \in Actions : action[a].origin \in Recommendations =>
         recommendation[action[a].origin].converted = {a}

\* A request of the decision services is entitled to nothing on an action.
LEMMA DecisionHold ==
    ASSUME AInv, UNCHANGED action,
           \/ UNCHANGED request
           \/ \E u \in Users, q \in {Idle} \cup DecisionRequests : request' = [request EXCEPT ![u] = q]
    PROVE  AInv'
  <1>1. CASE UNCHANGED request
    BY <1>1, NextAInv
  <1>2. ASSUME NEW u \in Users, NEW q \in {Idle} \cup DecisionRequests,
               request' = [request EXCEPT ![u] = q]
        PROVE  AInv'
    <2>1. q.op \notin {"transition", "dependency", "outcome"}
      BY DEF DecisionRequests, Links, Idle
    <2>2. RequestSound(u, q)
      BY <2>1 DEF RequestSound
    <2> QED  BY <1>2, <2>2, RequestStep DEF ActionRequests
  <1> QED  BY <1>1, <1>2

\* No action, problem, scenario or recommendation is there at first.
LEMMA InitDInv == Init => DInv
  <1> SUFFICES ASSUME Init PROVE DInv
    OBVIOUS
  <1>1. AInv
    BY InitAInv DEF Init
  <1>2. DecisionTypes
    <2>1. NoRecommendation \in RecommendationRows
      BY DEF NoRecommendation, RecommendationRows
    <2> QED  BY <2>1 DEF Init, DecisionTypes
  <1>3. ScenarioSound /\ SolvedWasGated
    BY DEF Init, ActionInit, ScenarioSound, SolvedWasGated, Idle
  <1>4. \A r \in Recommendations : RecommendationSound(recommendation[r])
    BY DEF Init, RecommendationSound, NoRecommendation
  <1>5. \A a \in Actions : action[a].origin = "none"
    BY DEF Init, ActionInit, Absent
  <1> QED  BY <1>1, <1>2, <1>3, <1>4, <1>5, DecisionsAssumption DEF DInv

\* A step that leaves actions, executions and recommendations alone.
LEMMA ScenarioStep ==
    ASSUME DInv, UNCHANGED <<action, execution, recommendation>>,
           \/ UNCHANGED request
           \/ \E u \in Users, q \in {Idle} \cup DecisionRequests : request' = [request EXCEPT ![u] = q],
           problem' \in [status : {"draft", "published"}, parts : SUBSET Parts],
           scenario' \in [status : {"absent", "draft", "blocked", "ready", "completed"},
                          validation : {"pending", "passed", "blocked"},
                          inputs : SUBSET Inputs],
           problem.status = "published" => problem'.status = "published",
           ScenarioSound'
    PROVE  DInv'
  <1>1. AInv'
    BY DecisionHold DEF DInv
  <1>2. DecisionTypes'
    BY DEF DInv, DecisionTypes
  <1>3. SolvedWasGated'
    BY DEF DInv, SolvedWasGated
  <1> QED  BY <1>1, <1>2, <1>3 DEF DInv, RecommendationSound

\* Parts, the publication, the scenario, its inputs and its validation.
LEMMA ScenarioKeeps ==
    ASSUME DInv, NEW u \in Users,
           \/ \E p \in Parts : AddPartRead(u, p)
           \/ AddPartCommit(u) \/ PublishVersion(u) \/ CreateScenario(u)
           \/ \E i \in Inputs : AddInputRead(u, i)
           \/ AddInputCommit(u) \/ ValidateRead(u) \/ ValidateCommit(u)
    PROVE  DInv'
  <1>1. /\ problem \in [status : {"draft", "published"}, parts : SUBSET Parts]
        /\ scenario \in [status : {"absent", "draft", "blocked", "ready", "completed"},
                         validation : {"pending", "passed", "blocked"},
                         inputs : SUBSET Inputs]
        /\ ScenarioSound
    BY DEF DInv, DecisionTypes
  <1>2. \A q : request' = [request EXCEPT ![u] = q] =>
          \A v \in Users : request'[v] = IF v = u THEN q ELSE request[v]
    BY DEF DInv, AInv, Types
  <1>3. /\ request[u].op = "part" => request[u].part \in Parts
        /\ request[u].op = "input" => request[u].input \in Inputs
        /\ request[u].op = "validate" => request[u].passed \in BOOLEAN
    BY DEF DInv, AInv, Types, ActionRequests, DecisionRequests, Transitions, Dependencies,
           Outcomes, Links, Idle
  <1>4. Idle.op = "idle"
    BY DEF Idle
  <1>5. ASSUME NEW p \in Parts, AddPartRead(u, p)
        PROVE  DInv'
    <2> DEFINE q == [op |-> "part", part |-> p]
    <2>1. q \in DecisionRequests /\ q.op = "part"
      BY DEF DecisionRequests
    <2>2. request' = [request EXCEPT ![u] = q]
          /\ UNCHANGED <<action, problem, scenario, execution, recommendation>>
      BY <1>5 DEF AddPartRead, Hold, decisionVars
    <2> HIDE DEF q
    <2>3. ScenarioSound'
      BY <1>1, <1>2, <2>1, <2>2 DEF ScenarioSound
    <2> QED  BY <1>1, <2>1, <2>2, <2>3, ScenarioStep
  <1>6. CASE AddPartCommit(u)
    <2>1. /\ problem'.status = problem.status /\ request' = [request EXCEPT ![u] = Idle]
          /\ problem' \in [status : {"draft", "published"}, parts : SUBSET Parts]
          /\ UNCHANGED <<action, scenario, execution, recommendation>>
      BY <1>1, <1>3, <1>6 DEF AddPartCommit, Release, Hold
    <2>2. ScenarioSound'
      BY <1>1, <1>2, <1>4, <2>1 DEF ScenarioSound
    <2> QED  BY <1>1, <2>1, <2>2, ScenarioStep
  <1>7. CASE PublishVersion(u)
    <2>1. /\ problem'.status = "published" /\ UNCHANGED request
          /\ problem' \in [status : {"draft", "published"}, parts : SUBSET Parts]
          /\ UNCHANGED <<action, scenario, execution, recommendation>>
      BY <1>1, <1>7 DEF PublishVersion
    <2>2. ScenarioSound'
      BY <1>1, <2>1 DEF ScenarioSound
    <2> QED  BY <1>1, <2>1, <2>2, ScenarioStep
  <1>8. CASE CreateScenario(u)
    <2>1. /\ scenario' = [scenario EXCEPT !.status = "draft"] /\ problem.status = "published"
          /\ UNCHANGED <<action, request, problem, execution, recommendation>>
      BY <1>8 DEF CreateScenario
    <2>2. ScenarioSound'
      BY <1>1, <2>1 DEF ScenarioSound
    <2> QED  BY <1>1, <2>1, <2>2, ScenarioStep
  <1>9. ASSUME NEW i \in Inputs, AddInputRead(u, i)
        PROVE  DInv'
    <2> DEFINE q == [op |-> "input", input |-> i]
    <2>1. q \in DecisionRequests /\ q.op = "input"
      BY DEF DecisionRequests
    <2>2. request' = [request EXCEPT ![u] = q]
          /\ UNCHANGED <<action, problem, scenario, execution, recommendation>>
      BY <1>9 DEF AddInputRead, Hold, decisionVars
    <2> HIDE DEF q
    <2>3. ScenarioSound'
      BY <1>1, <1>2, <2>1, <2>2 DEF ScenarioSound
    <2> QED  BY <1>1, <2>1, <2>2, <2>3, ScenarioStep
  <1>10. CASE AddInputCommit(u)
    <2>1. /\ scenario' = [scenario EXCEPT !.inputs = scenario.inputs \cup {request[u].input}]
          /\ request' = [request EXCEPT ![u] = Idle] /\ request[u].input \in Inputs
          /\ UNCHANGED <<action, problem, execution, recommendation>>
      BY <1>3, <1>10 DEF AddInputCommit, Release, Hold
    <2>2. /\ scenario'.status = scenario.status /\ scenario'.validation = scenario.validation
          /\ scenario.inputs \subseteq scenario'.inputs
          /\ scenario' \in [status : {"absent", "draft", "blocked", "ready", "completed"},
                            validation : {"pending", "passed", "blocked"},
                            inputs : SUBSET Inputs]
      BY <1>1, <2>1
    <2>3. ScenarioSound'
      BY <1>1, <1>2, <1>4, <2>1, <2>2 DEF ScenarioSound
    <2> QED  BY <1>1, <2>1, <2>2, <2>3, ScenarioStep
  <1>11. CASE ValidateRead(u)
    <2>1. PICK passed \in BOOLEAN :
            passed = (scenario.inputs # {} /\ scenario.inputs \subseteq Sound)
      OBVIOUS
    <2> DEFINE q == [op |-> "validate", passed |-> passed,
                    status |-> scenario.status, validation |-> scenario.validation]
    <2>2. q \in DecisionRequests /\ q.op = "validate" /\ q.passed = passed
      BY <1>1 DEF DecisionRequests
    <2>3. request' = [request EXCEPT ![u] = q] /\ scenario.status # "absent"
          /\ UNCHANGED <<action, problem, scenario, execution, recommendation>>
      BY <1>11, <2>1 DEF ValidateRead, Hold, decisionVars
    <2> HIDE DEF q
    <2>4. q.passed => scenario.inputs \cap Sound # {}
      BY <2>1, <2>2
    <2>5. ScenarioSound'
      BY <1>1, <1>2, <2>2, <2>3, <2>4 DEF ScenarioSound
    <2> QED  BY <1>1, <2>2, <2>3, <2>5, ScenarioStep
  <1>12. CASE ValidateCommit(u)
    <2>1. /\ request[u].op = "validate" /\ request' = [request EXCEPT ![u] = Idle]
          /\ UNCHANGED <<action, problem, execution, recommendation>>
      BY <1>12 DEF ValidateCommit, Release, Hold
    <2>2. /\ scenario.status # "absent" /\ problem.status = "published"
          /\ request[u].passed => scenario.inputs \cap Sound # {}
      BY <1>1, <2>1 DEF ScenarioSound
    <2> DEFINE status == Flushed(scenario.status, request[u].status,
                                 IF request[u].passed THEN "ready" ELSE "blocked")
               validation == Flushed(scenario.validation, request[u].validation,
                                     IF request[u].passed THEN "passed" ELSE "blocked")
    <2>a. scenario' = [scenario EXCEPT !.status = status, !.validation = validation]
      BY <1>1, <1>12 DEF ValidateCommit
    <2>b. /\ status \in {scenario.status, "ready", "blocked"}
          /\ validation \in {scenario.validation, "passed", "blocked"}
          /\ validation = "passed" => request[u].passed \/ scenario.validation = "passed"
      BY DEF Flushed
    <2> HIDE DEF status, validation
    <2>3. /\ scenario'.inputs = scenario.inputs
          /\ scenario'.status # "absent"
          /\ scenario'.validation = "passed" =>
               request[u].passed \/ scenario.validation = "passed"
          /\ scenario' \in [status : {"absent", "draft", "blocked", "ready", "completed"},
                            validation : {"pending", "passed", "blocked"},
                            inputs : SUBSET Inputs]
      BY <1>1, <2>2, <2>a, <2>b
    <2>4. ScenarioSound'
      BY <1>1, <1>2, <1>4, <2>1, <2>2, <2>3 DEF ScenarioSound
    <2> QED  BY <1>1, <2>1, <2>3, <2>4, ScenarioStep
  <1> QED  BY <1>5, <1>6, <1>7, <1>8, <1>9, <1>10, <1>11, <1>12

\* An execution is added to the ones there are.
LEMMA ExecuteKeeps ==
    ASSUME DInv, NEW u \in Users,
           ExecuteBlocked(u) \/ \E outcome \in SolverStatuses : Execute(u, outcome)
    PROVE  DInv'
  <1>1. PICK e \in Executions :
          /\ execution' = Append(execution, e)
          /\ UNCHANGED <<action, request, problem, recommendation>>
          /\ scenario' = scenario \/ scenario' = [scenario EXCEPT !.status = "completed"]
          /\ scenario.status # "absent"
          /\ e.status # "blocked" => scenario.validation = "passed" /\ e.inputs = scenario.inputs
    <2>1. CASE ExecuteBlocked(u)
      <3> DEFINE e == [status |-> "blocked", inputs |-> {}]
      <3>1. e \in Executions /\ e.status = "blocked"
        BY DEF Executions
      <3> QED  BY <2>1, <3>1 DEF ExecuteBlocked
    <2>2. ASSUME NEW outcome \in SolverStatuses, Execute(u, outcome)
          PROVE  \E e \in Executions :
                   /\ execution' = Append(execution, e)
                   /\ UNCHANGED <<action, request, problem, recommendation>>
                   /\ scenario' = [scenario EXCEPT !.status = "completed"]
                   /\ scenario.status # "absent"
                   /\ e.status # "blocked" => scenario.validation = "passed" /\ e.inputs = scenario.inputs
      <3> DEFINE e == [status |-> outcome, inputs |-> scenario.inputs]
      <3>1. e \in Executions /\ e.inputs = scenario.inputs
        BY DEF DInv, DecisionTypes, Executions
      <3> QED  BY <2>2, <3>1 DEF Execute, Gated
    <2> QED  BY <2>1, <2>2
  <1>2. /\ execution \in Seq(Executions) /\ ScenarioSound /\ SolvedWasGated
        /\ scenario \in [status : {"absent", "draft", "blocked", "ready", "completed"},
                         validation : {"pending", "passed", "blocked"},
                         inputs : SUBSET Inputs]
    BY DEF DInv, DecisionTypes
  <1>3. /\ scenario' \in [status : {"absent", "draft", "blocked", "ready", "completed"},
                          validation : {"pending", "passed", "blocked"},
                          inputs : SUBSET Inputs]
        /\ scenario'.inputs = scenario.inputs /\ scenario'.validation = scenario.validation
    BY <1>1, <1>2
  <1>4. /\ execution' \in Seq(Executions) /\ Len(execution') = Len(execution) + 1
        /\ Len(execution) \in Nat
        /\ \A n \in 1 .. Len(execution) : execution'[n] = execution[n]
        /\ execution'[Len(execution) + 1] = e
        /\ DOMAIN execution' = 1 .. (Len(execution) + 1) /\ DOMAIN execution = 1 .. Len(execution)
    BY <1>1, <1>2
  <1>5. AInv'
    BY <1>1, DecisionHold DEF DInv
  <1>6. DecisionTypes'
    BY <1>1, <1>3, <1>4 DEF DInv, DecisionTypes
  <1>7. ScenarioSound'
    BY <1>1, <1>2, <1>3 DEF ScenarioSound
  <1>8. e.status # "blocked" => e.inputs \cap Sound # {} /\ problem.status = "published"
    BY <1>1, <1>2 DEF ScenarioSound
  <1>9. SolvedWasGated'
    <2> SUFFICES ASSUME NEW n \in DOMAIN execution', execution'[n].status # "blocked"
                 PROVE  execution'[n].inputs \cap Sound # {} /\ problem'.status = "published"
      BY DEF SolvedWasGated
    <2>1. CASE n \in 1 .. Len(execution)
      BY <1>1, <1>2, <1>4, <2>1 DEF SolvedWasGated
    <2>2. CASE n = Len(execution) + 1
      BY <1>1, <1>4, <1>8, <2>2
    <2> QED  BY <1>4, <2>1, <2>2
  <1>10. \A r \in Recommendations : RecommendationSound(recommendation[r])'
    <2> SUFFICES ASSUME NEW r \in Recommendations PROVE RecommendationSound(recommendation[r])'
      OBVIOUS
    <2>1. RecommendationSound(recommendation[r]) /\ recommendation'[r] = recommendation[r]
      BY <1>1 DEF DInv
    <2> QED  BY <1>4, <2>1 DEF RecommendationSound
  <1> QED  BY <1>1, <1>5, <1>6, <1>7, <1>9, <1>10 DEF DInv

\* A step that rewrites one recommendation and no action.
LEMMA RecommendationStep ==
    ASSUME DInv, NEW r \in Recommendations, NEW row \in RecommendationRows,
           recommendation' = [recommendation EXCEPT ![r] = row],
           UNCHANGED <<action, problem, scenario, execution>>,
           \/ UNCHANGED request
           \/ \E u \in Users : request' = [request EXCEPT ![u] = Idle],
           row.converted = recommendation[r].converted,
           RecommendationSound(row)
    PROVE  DInv'
  <1>1. AInv'
    BY DecisionHold DEF DInv
  <1>2. \A s \in Recommendations : recommendation'[s] = IF s = r THEN row ELSE recommendation[s]
    BY DEF DInv, DecisionTypes
  <1>3. DecisionTypes' /\ SolvedWasGated'
    BY DEF DInv, DecisionTypes, SolvedWasGated
  <1>4. ScenarioSound'
    <2>1. \A u \in Users : request'[u] = request[u] \/ request'[u].op = "idle"
      BY DEF DInv, AInv, Types, Idle
    <2> QED  BY <2>1 DEF DInv, ScenarioSound
  <1>5. \A s \in Recommendations : RecommendationSound(recommendation[s])'
    BY <1>2 DEF DInv, RecommendationSound
  <1>6. \A a \in Actions : action'[a].origin \in Recommendations =>
          recommendation'[action'[a].origin].converted = {a}
    <2>1. \A s \in Recommendations : recommendation'[s].converted = recommendation[s].converted
      BY <1>2
    <2> QED  BY <2>1 DEF DInv
  <1> QED  BY <1>1, <1>3, <1>4, <1>5, <1>6 DEF DInv

\* A recommendation is created from a solved execution.
LEMMA CreateRecommendationKeeps ==
    ASSUME DInv, NEW u \in Users, NEW r \in Recommendations, NEW n \in DOMAIN execution,
           CreateRecommendation(u, r, n)
    PROVE  DInv'
  <1> DEFINE old == recommendation[r]
             row == [old EXCEPT !.status = "proposed", !.execution = n]
  <1>1. /\ old \in RecommendationRows /\ old.status = "absent" /\ RecommendationSound(old)
        /\ execution \in Seq(Executions) /\ execution[n].status = "solved"
    BY DEF CreateRecommendation, DInv, DecisionTypes
  <1>2. n \in 1 .. Len(execution) /\ n \in Nat
    BY <1>1
  <1>3. recommendation' = [recommendation EXCEPT ![r] = row]
        /\ UNCHANGED <<action, request, problem, scenario, execution>>
    BY DEF CreateRecommendation, DInv, DecisionTypes
  <1>4. /\ row \in RecommendationRows /\ row.status = "proposed" /\ row.execution = n
        /\ row.approvals = old.approvals /\ row.governing = old.governing
        /\ row.converted = old.converted
    BY <1>1, <1>2 DEF RecommendationRows
  <1> HIDE DEF row, old
  <1>5. RecommendationSound(row)
    BY <1>1, <1>2, <1>4 DEF RecommendationSound
  <1> QED  BY <1>3, <1>4, <1>5, RecommendationStep DEF old

\* The last decision governs: an approval by itself, any other one not.
LEMMA DecideKeeps ==
    ASSUME DInv, NEW u \in Users, NEW r \in Recommendations, NEW decision \in Decisions,
           Decide(u, r, decision)
    PROVE  DInv'
  <1> DEFINE old == recommendation[r]
             n == Len(old.approvals)
             row == [old EXCEPT !.approvals = Append(old.approvals, decision),
                                !.governing = IF decision = "approve" THEN n + 1 ELSE 0,
                                !.status = CASE decision = "approve" -> "approved"
                                             [] decision = "reject" -> "rejected"
                                             [] OTHER -> "reviewed"]
  <1>1. /\ old \in RecommendationRows /\ old.status \notin {"absent", "converted_to_action"}
        /\ RecommendationSound(old)
    BY DEF Decide, DInv, DecisionTypes
  <1>2. recommendation' = [recommendation EXCEPT ![r] = row]
        /\ UNCHANGED <<action, request, problem, scenario, execution>>
    BY DEF Decide
  <1>3. /\ old.approvals \in Seq(Decisions) /\ n \in Nat
        /\ Append(old.approvals, decision) \in Seq(Decisions)
        /\ Len(Append(old.approvals, decision)) = n + 1
        /\ Append(old.approvals, decision)[n + 1] = decision
    BY <1>1 DEF RecommendationRows
  <1>4. /\ row.approvals = Append(old.approvals, decision)
        /\ row.governing = IF decision = "approve" THEN n + 1 ELSE 0
        /\ row.status \in {"approved", "rejected", "reviewed"}
        /\ row.converted = old.converted /\ row.execution = old.execution
    BY <1>1 DEF RecommendationRows
  <1>5. row \in RecommendationRows
    <2>1. (IF decision = "approve" THEN n + 1 ELSE 0) \in Nat
      BY <1>3
    <2> HIDE DEF n
    <2> QED  BY <1>1, <1>3, <2>1 DEF RecommendationRows, Decisions
  <1> HIDE DEF row, n, old
  <1>6. old.converted = {}
    BY <1>1 DEF RecommendationSound
  <1>7. RecommendationSound(row)
    BY <1>1, <1>3, <1>4, <1>6 DEF RecommendationSound
  <1> QED  BY <1>2, <1>4, <1>5, <1>7, RecommendationStep DEF old

\* An outcome link does not touch what was decided.
LEMMA RecordOutcomeKeeps ==
    ASSUME DInv, NEW u \in Users,
           \/ \E r \in Recommendations, kind \in Kinds : RecordOutcomeRead(u, r, kind)
           \/ RecordOutcomeCommit(u)
    PROVE  DInv'
  <1>1. ASSUME NEW r \in Recommendations, NEW kind \in Kinds, RecordOutcomeRead(u, r, kind)
        PROVE  DInv'
    <2> DEFINE q == [op |-> "link", recommendation |-> r, kind |-> kind,
                     kinds |-> KindsOf(recommendation[r].links)]
    <2>1. recommendation[r].links \in Seq(OutcomeLinks)
      BY DEF DInv, DecisionTypes, RecommendationRows
    <2>2. KindsOf(recommendation[r].links) \subseteq Kinds \cup {"none"}
      <3> SUFFICES ASSUME NEW links \in Seq(OutcomeLinks)
                   PROVE  {links[n].kind : n \in DOMAIN links} \subseteq Kinds \cup {"none"}
        BY <2>1 DEF KindsOf
      <3>1. \A n \in DOMAIN links : links[n] \in OutcomeLinks
        BY ElementOfSeq
      <3> QED  BY <3>1 DEF OutcomeLinks
    <2>3. q \in DecisionRequests /\ q.op = "link"
      BY <2>2 DEF DecisionRequests, Links
    <2>4. request' = [request EXCEPT ![u] = q]
          /\ UNCHANGED <<action, problem, scenario, execution, recommendation>>
      BY <1>1 DEF RecordOutcomeRead, Hold, decisionVars
    <2> HIDE DEF q
    <2>5. \A v \in Users : request'[v] = IF v = u THEN q ELSE request[v]
      BY <2>4 DEF DInv, AInv, Types
    <2>6. ScenarioSound'
      BY <2>3, <2>4, <2>5 DEF DInv, ScenarioSound
    <2> QED  BY <2>3, <2>4, <2>6, ScenarioStep DEF DInv, DecisionTypes
  <1>2. CASE RecordOutcomeCommit(u)
    <2>1. request[u] \in Links
      BY <1>2, RequestKinds DEF RecordOutcomeCommit, DInv, AInv
    <2>2. PICK r \in Recommendations : r = request[u].recommendation
      BY <2>1 DEF Links
    <2> DEFINE old == recommendation[r]
    <2>3. old \in RecommendationRows /\ RecommendationSound(old)
      BY DEF DInv, DecisionTypes
    <2>4. PICK link \in OutcomeLinks :
            recommendation' = [recommendation EXCEPT ![r].links = Append(old.links, link)]
      <3> DEFINE q == request[u]
                 verified == q.kind = "verified_value_ledger_entry"
                 link == [kind |-> q.kind,
                          verification |-> IF verified THEN "verified" ELSE "pending_verification",
                          reconciliation |->
                            CASE q.kinds # {} /\ q.kind \notin q.kinds -> "reconciliation_required"
                              [] ~(q.kinds # {} /\ q.kind \notin q.kinds) /\ verified -> "reconciled"
                              [] OTHER -> "pending"]
      <3>1. q.kind \in Kinds
        BY <2>1 DEF Links
      <3>2. link \in OutcomeLinks
        BY <3>1 DEF OutcomeLinks
      <3>3. recommendation' = [recommendation EXCEPT ![r].links = Append(old.links, link)]
        BY <1>2, <2>2 DEF RecordOutcomeCommit
      <3> HIDE DEF link
      <3> QED  BY <3>2, <3>3
    <2> DEFINE row == [old EXCEPT !.links = Append(old.links, link)]
    <2>5. /\ recommendation' = [recommendation EXCEPT ![r] = row]
          /\ request' = [request EXCEPT ![u] = Idle]
          /\ UNCHANGED <<action, problem, scenario, execution>>
      BY <1>2, <2>4 DEF RecordOutcomeCommit, Release, Hold, DInv, DecisionTypes
    <2>6. /\ row \in RecommendationRows
          /\ row.status = old.status /\ row.execution = old.execution
          /\ row.approvals = old.approvals /\ row.governing = old.governing
          /\ row.converted = old.converted
      <3>1. Append(old.links, link) \in Seq(OutcomeLinks)
        BY <2>3 DEF RecommendationRows
      <3> HIDE DEF old
      <3> QED  BY <2>3, <3>1 DEF RecommendationRows
    <2> HIDE DEF row
    <2>7. RecommendationSound(row)
      BY <2>3, <2>6 DEF RecommendationSound
    <2> QED  BY <2>5, <2>6, <2>7, RecommendationStep
  <1> QED  BY <1>1, <1>2

\* The one conversion of a recommendation creates an approved action, under
\* the governing approval and on a solved execution.
LEMMA ConvertKeeps ==
    ASSUME DInv, NEW u \in Users, NEW r \in Recommendations, NEW a \in Actions,
           ConvertToAction(u, r, a)
    PROVE  DInv'
  <1> DEFINE old == recommendation[r]
             link == [kind |-> "none", verification |-> "pending_verification",
                      reconciliation |-> "pending"]
             row == [old EXCEPT !.converted = {a}, !.status = "converted_to_action",
                                !.links = Append(old.links, link)]
             born == [Absent EXCEPT !.status = "approved", !.required = TRUE,
                                    !.approval = "approved", !.origin = r]
  <1>1. /\ old \in RecommendationRows /\ RecommendationSound(old)
        /\ old.converted = {} /\ old.status = "approved" /\ old.governing # 0
        /\ action[a].status = "absent"
    BY DEF ConvertToAction, DInv, DecisionTypes, Exists
  <1>2. /\ action' = [action EXCEPT ![a] = born]
        /\ UNCHANGED <<request, problem, scenario, execution>>
    BY DEF ConvertToAction
  <1>3. recommendation' = [recommendation EXCEPT ![r] = row]
    BY <1>1 DEF ConvertToAction, DInv, DecisionTypes
  <1>4. /\ row \in RecommendationRows
        /\ row.status = "converted_to_action" /\ row.execution = old.execution
        /\ row.approvals = old.approvals /\ row.governing = old.governing
        /\ row.converted = {a}
    <2>1. Append(old.links, link) \in Seq(OutcomeLinks)
      <3>1. link \in OutcomeLinks
        BY DEF OutcomeLinks
      <3> QED  BY <1>1, <3>1 DEF RecommendationRows
    <2> HIDE DEF old, link
    <2> QED  BY <1>1, <2>1 DEF RecommendationRows
  <1>5. /\ born \in Rows /\ born.status = "approved" /\ born.origin = r /\ born.needs = {}
        /\ born.events = {} /\ born.outcomes = {}
    BY TableFacts DEF Absent, Rows, Events
  <1>6. r # "source"
    BY DecisionsAssumption
  <1> HIDE DEF row, old, born, link
  <1>7. RowSound(born)
    BY <1>5, <1>6 DEF RowSound, Reached, Authorised
  <1>8. AInv'
    BY <1>1, <1>2, <1>5, <1>7, RowStep DEF DInv
  <1>9. RecommendationSound(row)
    BY <1>1, <1>4 DEF RecommendationSound
  <1>10. \A s \in Recommendations : recommendation'[s] = IF s = r THEN row ELSE recommendation[s]
    BY <1>3 DEF DInv, DecisionTypes
  <1>11. DecisionTypes' /\ ScenarioSound' /\ SolvedWasGated'
    BY <1>2, <1>3, <1>4 DEF DInv, DecisionTypes, ScenarioSound, SolvedWasGated
  <1>12. \A s \in Recommendations : RecommendationSound(recommendation[s])'
    BY <1>2, <1>9, <1>10 DEF DInv, RecommendationSound
  <1>13. \A b \in Actions : action'[b] = IF b = a THEN born ELSE action[b]
    BY <1>2 DEF DInv, AInv, Types
  <1>14. \A b \in Actions : action'[b].origin \in Recommendations =>
           recommendation'[action'[b].origin].converted = {b}
    <2> SUFFICES ASSUME NEW b \in Actions, action'[b].origin \in Recommendations
                 PROVE  recommendation'[action'[b].origin].converted = {b}
      OBVIOUS
    <2>1. CASE b = a
      BY <1>4, <1>5, <1>10, <1>13, <2>1
    <2>2. CASE b # a
      <3>1. recommendation[action[b].origin].converted = {b} /\ action'[b] = action[b]
        BY <1>13, <2>2 DEF DInv
      <3>2. action[b].origin # r
        BY <1>1, <3>1 DEF old
      <3> QED  BY <1>10, <3>1, <3>2
    <2> QED  BY <2>1, <2>2
  <1> QED  BY <1>8, <1>11, <1>12, <1>14 DEF DInv

\* The work on actions leaves the origin of an action alone, and creates
\* actions only from sources.
LEMMA ActionFrame ==
    ASSUME AInv, ActionNext
    PROVE  /\ \A a \in Actions : action'[a].origin \in {action[a].origin, "source"}
           /\ \A u \in Users : request'[u].op = "validate" => request'[u] = request[u]
  <1>1. PICK u \in Users :
          \/ TransitionCommit(u) \/ DependencyCommit(u) \/ OutcomeCommit(u)
          \/ \E a \in Actions :
               \/ \E required \in BOOLEAN : Create(u, a, required)
               \/ \E k \in Offered(a) :
                    \/ Assign(u, a, k)
                    \/ \E to \in Statuses : TransitionRead(u, a, to, k)
               \/ \E on \in Actions \cup Others : DependencyRead(u, a, on)
               \/ AddShortResource(u, a)
               \/ AddEvidence(u, a)
               \/ \E type \in {"expected", "realized"} : OutcomeRead(u, a, type)
    BY DEF ActionNext
  <1>2. action \in [Actions -> Rows] /\ Idle.op = "idle"
        /\ \A q, v : v \in Users /\ request' = [request EXCEPT ![u] = q] =>
             request'[v] = IF v = u THEN q ELSE request[v]
    BY DEF AInv, Types, Idle
  <1>3. CASE TransitionCommit(u)
    <2> DEFINE q == request[u]
               row == action[q.action]
               event == [prior |-> q.prior, new |-> q.new,
                         admin |-> q.new = "approved" /\ u \in Admins]
               new == [row EXCEPT !.status = q.new,
                                  !.approval = ApprovalAfter(q.new, @),
                                  !.completed = @ \/ q.new = "completed",
                                  !.verified = @ \/ q.new = "verified",
                                  !.events = @ \cup {event},
                                  !.keys = @ \cup {q.key}]
    <2>1. q \in Transitions /\ q.action \in Actions
      BY <1>3, RequestKinds DEF AInv, TransitionCommit, Transitions
    <2>2. action' = action \/ action' = [action EXCEPT ![q.action] = new]
      BY <1>3 DEF TransitionCommit
    <2>3. new.origin = row.origin
      BY <1>2, <2>1 DEF Rows
    <2>4. request' = [request EXCEPT ![u] = Idle]
      BY <1>3 DEF TransitionCommit, Release, Hold
    <2> HIDE DEF q, new
    <2> QED  BY <1>2, <2>1, <2>2, <2>3, <2>4
  <1>4. CASE DependencyCommit(u) \/ OutcomeCommit(u)
    <2>1. request[u].action \in Actions
      BY <1>4, RequestKinds DEF AInv, DependencyCommit, OutcomeCommit, Dependencies, Outcomes
    <2>2. \A a \in Actions : action'[a].origin = action[a].origin
      BY <1>2, <1>4, <2>1 DEF DependencyCommit, OutcomeCommit, Rows
    <2>3. request' = [request EXCEPT ![u] = Idle]
      BY <1>4 DEF DependencyCommit, OutcomeCommit, Release, Hold
    <2> QED  BY <1>2, <2>2, <2>3
  <1>5. ASSUME NEW a \in Actions,
               \/ \E required \in BOOLEAN : Create(u, a, required)
               \/ \E k \in Offered(a) : Assign(u, a, k)
               \/ AddShortResource(u, a)
               \/ AddEvidence(u, a)
        PROVE  /\ \A b \in Actions : action'[b].origin \in {action[b].origin, "source"}
               /\ request' = request
    <2>1. CASE \E required \in BOOLEAN : Create(u, a, required)
      BY <1>2, <2>1 DEF Create, Absent
    <2>2. CASE \E k \in Offered(a) : Assign(u, a, k)
      BY <1>2, <2>2 DEF Assign, Rows
    <2>3. CASE AddShortResource(u, a) \/ AddEvidence(u, a)
      BY <1>2, <2>3 DEF AddShortResource, AddEvidence, Rows
    <2> QED  BY <1>5, <2>1, <2>2, <2>3
  <1>6. ASSUME NEW a \in Actions,
               \/ \E k \in Offered(a), to \in Statuses : TransitionRead(u, a, to, k)
               \/ \E on \in Actions \cup Others : DependencyRead(u, a, on)
               \/ \E type \in {"expected", "realized"} : OutcomeRead(u, a, type)
        PROVE  /\ action' = action
               /\ \E q : request' = [request EXCEPT ![u] = q] /\ q.op # "validate"
    <2>1. ASSUME NEW k \in Offered(a), NEW to \in Statuses, TransitionRead(u, a, to, k)
          PROVE  /\ action' = action
                 /\ \E q : request' = [request EXCEPT ![u] = q] /\ q.op # "validate"
      <3> DEFINE q == [op |-> "transition", action |-> a, prior |-> action[a].status,
                       new |-> to, key |-> k]
      <3>1. q.op # "validate" /\ action' = action /\ request' = [request EXCEPT ![u] = q]
        BY <2>1 DEF TransitionRead, Hold
      <3> QED  BY <3>1
    <2>2. ASSUME NEW on \in Actions \cup Others, DependencyRead(u, a, on)
          PROVE  /\ action' = action
                 /\ \E q : request' = [request EXCEPT ![u] = q] /\ q.op # "validate"
      <3> DEFINE q == [op |-> "dependency", action |-> a, on |-> on]
      <3>1. q.op # "validate" /\ action' = action /\ request' = [request EXCEPT ![u] = q]
        BY <2>2 DEF DependencyRead, Hold
      <3> QED  BY <3>1
    <2>3. ASSUME NEW type \in {"expected", "realized"}, OutcomeRead(u, a, type)
          PROVE  /\ action' = action
                 /\ \E q : request' = [request EXCEPT ![u] = q] /\ q.op # "validate"
      <3> DEFINE q == [op |-> "outcome", action |-> a, type |-> type]
      <3>1. q.op # "validate" /\ action' = action /\ request' = [request EXCEPT ![u] = q]
        BY <2>3 DEF OutcomeRead, Hold
      <3> QED  BY <3>1
    <2> QED  BY <1>6, <2>1, <2>2, <2>3
  <1> QED  BY <1>1, <1>2, <1>3, <1>4, <1>5, <1>6

\* Every step of the composition keeps the invariant.
LEMMA NextDInv ==
    ASSUME DInv, [Next]_vars
    PROVE  DInv'
  <1>1. CASE ActionNext /\ UNCHANGED decisionVars
    <2>1. AInv'
      BY <1>1, NextAInv DEF DInv
    <2>2. /\ \A a \in Actions : action'[a].origin \in {action[a].origin, "source"}
          /\ \A u \in Users : request'[u].op = "validate" => request'[u] = request[u]
          /\ UNCHANGED <<problem, scenario, execution, recommendation>>
      BY <1>1, ActionFrame DEF DInv, decisionVars
    <2>3. ScenarioSound'
      BY <2>2 DEF DInv, ScenarioSound
    <2>4. \A a \in Actions : action'[a].origin \in Recommendations =>
            recommendation'[action'[a].origin].converted = {a}
      BY <2>2, DecisionsAssumption DEF DInv
    <2> QED  BY <2>1, <2>2, <2>3, <2>4 DEF DInv, DecisionTypes, SolvedWasGated, RecommendationSound
  <1>2. CASE DecisionNext
    BY <1>2, ScenarioKeeps, ExecuteKeeps, CreateRecommendationKeeps, DecideKeeps,
       RecordOutcomeKeeps, ConvertKeeps DEF DecisionNext, Decisions
  <1>3. CASE UNCHANGED vars
    <2>1. UNCHANGED <<action, execution, recommendation, problem, scenario, request>>
      BY <1>3 DEF vars, decisionVars
    <2>2. ScenarioSound'
      BY <2>1 DEF DInv, ScenarioSound
    <2> QED  BY <2>1, <2>2, ScenarioStep DEF DInv, DecisionTypes
  <1> QED  BY <1>1, <1>2, <1>3 DEF Next

\* For any members, inputs, recommendations and kinds of links: nothing is
\* solved (execute) before a sound input was validated in a published
\* problem, and every row of the composition is well formed.
THEOREM SolvingWasGated == Spec => []SolvingIsSound
  <1>1. DInv => SolvingIsSound
    <2> SUFFICES ASSUME DInv PROVE SolvingIsSound
      OBVIOUS
    <2>1. ActionTypeOK
      BY AInvImplies DEF DInv, ValueIsSound
    <2>2. \A n \in DOMAIN execution : execution[n] \in Executions
      BY ElementOfSeq DEF DInv, DecisionTypes
    <2>3. TypeOK
      BY <2>1, <2>2 DEF DInv, DecisionTypes, TypeOK, Executions, RecommendationSound, RecommendationRows
    <2> QED  BY <2>3 DEF DInv, SolvingIsSound
  <1> QED  BY <1>1, InitDInv, NextDInv, PTL DEF Spec

\* The governing approval of a recommendation is its last decision (decide),
\* and a converted one has kept it.
THEOREM GoverningApprovalIsCurrent == Spec => []AuthorityIsCurrent
  <1>1. DInv => AuthorityIsCurrent
    BY DEF DInv, AuthorityIsCurrent, RecommendationSound
  <1> QED  BY <1>1, InitDInv, NextDInv, PTL DEF Spec

\* convert_to_action makes one action of a recommendation, on a solved
\* execution, and whatever happens to that action later keeps its origin.
THEOREM OneActionPerRecommendation == Spec => []ConvertedOnce
  <1>1. DInv => ConvertedOnce
    BY DEF DInv, ConvertedOnce, RecommendationSound
  <1> QED  BY <1>1, InitDInv, NextDInv, PTL DEF Spec

\* Composed with the decisions that create approved actions, the work on
\* actions keeps what it promises by itself.
THEOREM ComposedActionsAreSound ==
    Spec => [](ValueIsSound /\ WorkIsAuthorised /\ TrailExplainsStatus)
  <1>1. DInv => ValueIsSound /\ WorkIsAuthorised /\ TrailExplainsStatus
    BY AInvImplies DEF DInv
  <1> QED  BY <1>1, InitDInv, NextDInv, PTL DEF Spec
=============================================================================
