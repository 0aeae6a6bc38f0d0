---------------------- MODULE SimulationBatches_proofs ----------------------
(***************************************************************************)
(* Proofs about simulation batches, for any number of simulations,         *)
(* batches, requests in progress, truth families, cases and runs.          *)
(*                                                                         *)
(* Nothing locks, so what a request read is stale when it commits.  What   *)
(* it relies on all the same is what no step takes back (Grows): a batch   *)
(* keeps its simulation, a frozen item stays frozen, a simulation keeps    *)
(* the case its truth was registered for and a run its own, and what was   *)
(* validated or ended stays so.                                            *)
(***************************************************************************)
EXTENDS SimulationBatches, TLAPS

-----------------------------------------------------------------------------
(* The inductive invariant.                                                *)

States == Scored \cup {"none", "selected", "importing", "production_running", "blocked"}

Rows == [status : {"absent", "active", "paused_safety_gate", "owner_review_required"},
         staged : BOOLEAN,
         sim : Simulations \cup {"none"},
         state : States,
         case : Cases \cup {NoCase},
         run : Runs \cup {NoRun},
         frozen : BOOLEAN]

\* What a request in progress holds, by the step it is at.
Stages == [op : {"stage"}, sim : Simulations]
Begun == [op : {"finalize", "import", "link", "start", "load"}, batch : Batches]
OnCase == [op : {"register", "upload", "verdict"}, batch : Batches, case : Cases]
Executions == [op : {"execute"}, batch : Batches, case : Cases, state : States,
               run : Runs \cup {NoRun}]
Validations == [op : {"validate"}, batch : Batches, case : Cases, run : Runs]
Scorings == [op : {"score"}, batch : Batches, state : {"blocked", "scored"},
             run : Runs \cup {NoRun}, columns : SUBSET Both, pending : BOOLEAN]
Classifications == [op : {"classify"}, batch : Batches, todo : SUBSET Families]
Creations == [op : {"create"}, batch : Batches, todo : SUBSET Families,
              family : Families, found : BOOLEAN]
Handoffs == [op : {"handoff"}, batch : Batches, state : States]

Held == {Idle} \cup Stages \cup Begun \cup OnCase \cup Executions \cup Validations
          \cup Scorings \cup Classifications \cup Creations \cup Handoffs

Types ==
    /\ batch \in [Batches -> Rows]
    /\ truth \in [Simulations -> [case : Cases \cup {NoCase}, uploaded : BOOLEAN]]
    /\ ran \in [Runs -> Cases \cup {NoCase}]
    /\ validated \subseteq Simulations \X Runs
    /\ job \in [Batches \X Families \X Requests -> {"none", "open", "done"}]
    /\ request \in [Requests -> Held]
    /\ broken \subseteq Batches

\* A classification of the simulation of b ended.
Evidence(b) ==
    \E j \in Batches \X Families \X Requests :
      job[j] = "done" /\ batch[j[1]].sim = batch[b].sim

\* A row, apart from who works on it.
RowSound(b) ==
    /\ batch[b].status = "absent" => batch[b] = Absent
    /\ batch[b].status # "absent" => batch[b].sim \in Simulations
    /\ batch[b].frozen => \E r \in Runs : <<batch[b].sim, r>> \in validated
    /\ batch[b].state \in Scored => batch[b].frozen
    /\ batch[b].status = "owner_review_required" => Evidence(b)

\* An item half imported or running has its request, or was left by one.
Works(q, b) ==
    /\ \/ q.op \in {"load", "validate"}
       \/ q.op = "execute" /\ q.state = "production_running"
       \/ q.op = "score" /\ "state" \in q.columns
    /\ q.batch = b
Links(q, b) == q.op = "link" /\ q.batch = b
HalfImported(b) == batch[b].state = "importing" /\ batch[b].case = NoCase

Attended(b) ==
    /\ batch[b].state = "production_running" =>
         b \in broken \/ \E h \in Requests : Works(request[h], b)
    /\ HalfImported(b) =>
         b \in broken \/ \E h \in Requests : Links(request[h], b)

JobsAreAfterFreeze ==
    \A j \in Batches \X Families \X Requests : job[j] # "none" => batch[j[1]].frozen

\* What a request saw that still holds when it commits.
RequestSound(h, q) ==
    /\ q.op \notin {"idle", "stage"} => batch[q.batch].status # "absent"
    /\ q.op \in {"start", "load"} => batch[q.batch].case # NoCase
    /\ q.op = "validate" => ran[q.run] = q.case
    /\ q.op = "score" =>
         /\ q.state = "scored" => \E r \in Runs : <<batch[q.batch].sim, r>> \in validated
         /\ q.pending => /\ q.run \in Runs
                         /\ ran[q.run] # NoCase /\ ran[q.run] = truth[batch[q.batch].sim].case
    /\ q.op \in {"classify", "create"} => batch[q.batch].frozen
    /\ q.op = "create" /\ ~q.found => job[<<q.batch, q.family, h>>] = "none"
    /\ q.op = "handoff" =>
         /\ Evidence(q.batch)
         /\ q.state \in Scored => batch[q.batch].frozen

IInv ==
    /\ Types
    /\ \A b \in Batches : RowSound(b)
    /\ \A b \in Batches : Attended(b)
    /\ JobsAreAfterFreeze
    /\ ComparedWithOwnTruth
    /\ \A h \in Requests : RequestSound(h, request[h])

-----------------------------------------------------------------------------
(* What no step takes back.                                                *)

Grows ==
    /\ \A b \in Batches : batch[b].status # "absent" =>
         batch'[b].status # "absent" /\ batch'[b].sim = batch[b].sim
    /\ \A b \in Batches : batch[b].frozen => batch'[b].frozen
    /\ \A b \in Batches : batch[b].case # NoCase => batch'[b].case # NoCase
    /\ \A s \in Simulations : truth[s].case # NoCase => truth'[s].case = truth[s].case
    /\ \A r \in Runs : ran[r] # NoCase => ran'[r] = ran[r]
    /\ validated \subseteq validated'
    /\ \A j \in Batches \X Families \X Requests : job[j] = "done" => job'[j] = "done"

\* What a step may add to the validated runs: one of the case its simulation's
\* truth is registered for.
Compares ==
    \/ UNCHANGED validated
    \/ \E s \in Simulations, r \in Runs :
         /\ validated' = validated \cup {<<s, r>>}
         /\ ran[r] # NoCase /\ ran[r] = truth[s].case

\* No case is a case.
LEMMA NoCaseIsNone == NoCase \notin Cases
  BY DEF NoCase, Cases

\* So runs stay compared with their own truth.
LEMMA ComparedStays ==
    ASSUME IInv, Grows, Compares
    PROVE  ComparedWithOwnTruth'
  <1> SUFFICES ASSUME NEW s \in Simulations, NEW r \in Runs, <<s, r>> \in validated'
               PROVE  ran'[r] # NoCase /\ ran'[r] = truth'[s].case
    BY DEF ComparedWithOwnTruth
  <1>1. ran[r] # NoCase /\ ran[r] = truth[s].case
    BY DEF Compares, IInv, ComparedWithOwnTruth
  <1> QED  BY <1>1 DEF Grows

\* The classification of a simulation that ended stays on file.
LEMMA EvidenceGrows ==
    ASSUME IInv, Grows, NEW b \in Batches, batch[b].status # "absent", Evidence(b)
    PROVE  Evidence(b)'
  <1>1. PICK j \in Batches \X Families \X Requests :
          job[j] = "done" /\ batch[j[1]].sim = batch[b].sim
    BY DEF Evidence
  <1>2. j[1] \in Batches /\ batch[j[1]].frozen
    BY <1>1 DEF IInv, JobsAreAfterFreeze
  <1>3. batch[j[1]].status # "absent"
    BY <1>2 DEF IInv, RowSound, Absent
  <1>4. batch'[j[1]].sim = batch'[b].sim /\ job'[j] = "done"
    BY <1>1, <1>2, <1>3 DEF Grows
  <1> QED  BY <1>4 DEF Evidence

\* A request keeps what it saw through the steps of others.
LEMMA RequestGrows ==
    ASSUME IInv, Grows, NEW h \in Requests, NEW q \in Held, RequestSound(h, q),
           q.op = "create" /\ ~q.found => job'[<<q.batch, q.family, h>>] = "none"
    PROVE  RequestSound(h, q)'
  <1>1. q.op \notin {"idle", "stage"} => q.batch \in Batches /\ batch[q.batch].status # "absent"
    BY DEF RequestSound, Held, Stages, Begun, OnCase, Executions, Validations, Scorings,
                         Classifications, Creations,
           Handoffs, Idle
  <1>2. q.op = "validate" => ran'[q.run] = q.case
    <2> SUFFICES ASSUME q.op = "validate" PROVE ran'[q.run] = q.case
      OBVIOUS
    <2>1. q.run \in Runs /\ q.case \in Cases
      BY DEF Held, Stages, Begun, OnCase, Executions, Validations, Scorings, Classifications,
             Creations, Handoffs, Idle
    <2> QED  BY <2>1, NoCaseIsNone DEF RequestSound, Grows
  <1>4. q.op = "score" =>
          /\ q.state = "scored" => \E r \in Runs : <<batch'[q.batch].sim, r>> \in validated'
          /\ q.pending => /\ q.run \in Runs
                          /\ ran'[q.run] # NoCase
                          /\ ran'[q.run] = truth'[batch'[q.batch].sim].case
    <2> SUFFICES ASSUME q.op = "score"
                 PROVE  /\ q.state = "scored" =>
                             \E r \in Runs : <<batch'[q.batch].sim, r>> \in validated'
                        /\ q.pending => /\ q.run \in Runs
                                        /\ ran'[q.run] # NoCase
                                        /\ ran'[q.run] = truth'[batch'[q.batch].sim].case
      OBVIOUS
    <2>1. batch[q.batch].sim \in Simulations /\ batch'[q.batch].sim = batch[q.batch].sim
      BY <1>1 DEF IInv, RowSound, Grows
    <2>2. q.state = "scored" => \E r \in Runs : <<batch[q.batch].sim, r>> \in validated'
      BY DEF RequestSound, Grows
    <2>3. q.pending => /\ q.run \in Runs
                       /\ ran'[q.run] # NoCase
                       /\ ran'[q.run] = truth'[batch[q.batch].sim].case
      BY <2>1 DEF RequestSound, Grows
    <2> QED  BY <2>1, <2>2, <2>3
  <1>3. q.op = "handoff" => Evidence(q.batch)'
    BY <1>1, EvidenceGrows DEF RequestSound
  <1> QED  BY <1>1, <1>2, <1>3, <1>4 DEF RequestSound, Grows

\* A row that a step leaves alone stays sound.
LEMMA RowGrows ==
    ASSUME IInv, Grows, NEW b \in Batches, batch'[b] = batch[b]
    PROVE  RowSound(b)'
  <1>1. RowSound(b)
    BY DEF IInv
  <1>2. batch[b].status = "owner_review_required" => Evidence(b)'
    BY <1>1, EvidenceGrows DEF RowSound
  <1> QED  BY <1>1, <1>2 DEF RowSound, Grows

\* The steps of one request: its own row and what it holds next have to be
\* sound, the others follow.
LEMMA StepKeeps ==
    ASSUME IInv, Grows, NEW h \in Requests, NEW q \in Held,
           request' = [request EXCEPT ![h] = q],
           RequestSound(h, q)', Types', JobsAreAfterFreeze', Compares,
           \A j \in Batches \X Families \X Requests : j[3] # h /\ job[j] = "none" => job'[j] = "none",
           \A b \in Batches : batch'[b] # batch[b] => RowSound(b)',
           \A b \in Batches : Attended(b)'
    PROVE  IInv'
  <1>1. ASSUME NEW g \in Requests PROVE RequestSound(g, request[g])' 
    <2>1. request \in [Requests -> Held] /\ request[g] \in Held
      BY DEF IInv, Types
    <2>2. CASE g = h
      <3>1. request'[g] = q
        BY <2>1, <2>2
      <3> QED  BY <2>2, <3>1
    <2>3. CASE g # h
      <3>1. PICK r \in Held : r = request[g]
        BY <2>1
      <3>2. request'[g] = r /\ RequestSound(g, r)
        BY <2>1, <2>3, <3>1 DEF IInv
      <3>3. r.op = "create" /\ ~r.found => job'[<<r.batch, r.family, g>>] = "none"
        <4> SUFFICES ASSUME r.op = "create", ~r.found PROVE job'[<<r.batch, r.family, g>>] = "none"
          OBVIOUS
        <4>1. r.batch \in Batches /\ r.family \in Families
          BY DEF Held, Stages, Begun, OnCase, Executions, Validations, Scorings,
                 Classifications, Creations, Handoffs, Idle
        <4>2. <<r.batch, r.family, g>> \in Batches \X Families \X Requests
          BY <4>1
        <4> QED  BY <2>3, <3>2, <4>2 DEF RequestSound
      <3>4. RequestSound(g, r)'
        BY <3>2, <3>3, RequestGrows
      <3> QED  BY <3>2, <3>4
    <2> QED  BY <2>2, <2>3
  <1>2. \A b \in Batches : RowSound(b)'
    BY RowGrows
  <1> QED  BY <1>1, <1>2, ComparedStays DEF IInv

\* An item is still attended to when the step is not of the request that
\* attends to it, or that one goes on or is on record as lost.
LEMMA AttendedStep ==
    ASSUME Types, NEW b \in Batches, Attended(b), NEW h \in Requests, NEW q \in Held,
           request' = [request EXCEPT ![h] = q], broken \subseteq broken',
           batch'[b].state = "production_running" =>
             \/ b \in broken' \/ Works(q, b)
             \/ batch[b].state = "production_running" /\ ~Works(request[h], b),
           HalfImported(b)' =>
             b \in broken' \/ Links(q, b) \/ (HalfImported(b) /\ ~Links(request[h], b))
    PROVE  Attended(b)'
  <1>1. \A g \in Requests : request'[g] = IF g = h THEN q ELSE request[g]
    BY DEF Types
  <1>2. batch'[b].state = "production_running" =>
          b \in broken' \/ \E g \in Requests : Works(request'[g], b)
    BY <1>1 DEF Attended
  <1>3. HalfImported(b)' =>
          b \in broken' \/ \E g \in Requests : Links(request'[g], b)
    BY <1>1 DEF Attended
  <1> QED  BY <1>2, <1>3 DEF Attended
\* A request reads, or goes on to its next step, without touching a row.
LEMMA HoldStep ==
    ASSUME IInv, NEW h \in Requests, NEW q \in Held,
           request' = [request EXCEPT ![h] = q],
           UNCHANGED <<batch, truth, ran, validated, job, broken>>,
           RequestSound(h, q),
           \A b \in Batches : ~Works(request[h], b) /\ ~Links(request[h], b)
    PROVE  IInv'
  <1>1. Grows
    BY DEF Grows
  <1>2. Types'
    BY DEF IInv, Types
  <1>3. \A b \in Batches : Attended(b)'
    BY AttendedStep DEF IInv, HalfImported
  <1>4. RequestSound(h, q)' /\ JobsAreAfterFreeze' /\ Compares
    BY DEF RequestSound, Evidence, JobsAreAfterFreeze, IInv, Compares
  <1> QED  BY <1>1, <1>2, <1>3, <1>4, StepKeeps

\* A request commits to the row of its batch.
LEMMA RowStep ==
    ASSUME IInv, NEW h \in Requests, NEW q \in Held, NEW b \in Batches, NEW row \in Rows,
           request' = [request EXCEPT ![h] = q],
           batch' = [batch EXCEPT ![b] = row],
           UNCHANGED <<truth, ran, job, broken>>, Compares,
           batch[b].status # "absent" => row.status # "absent" /\ row.sim = batch[b].sim,
           batch[b].frozen => row.frozen, batch[b].case # NoCase => row.case # NoCase,
           RequestSound(h, q)', RowSound(b)',
           \A c \in Batches \ {b} : ~Works(request[h], c) /\ ~Links(request[h], c),
           row.state = "production_running" =>
             Works(q, b) \/ (batch[b].state = "production_running" /\ ~Works(request[h], b)),
           row.state = "importing" /\ row.case = NoCase =>
             Links(q, b) \/ (HalfImported(b) /\ ~Links(request[h], b))
    PROVE  IInv'
  <1>1. \A c \in Batches : batch'[c] = IF c = b THEN row ELSE batch[c]
    BY DEF IInv, Types
  <1>2. Grows
    BY <1>1 DEF Grows, Compares
  <1>3. Types'
    BY DEF IInv, Types, Compares
  <1>4. \A c \in Batches : Attended(c)'
    <2>1. SUFFICES ASSUME NEW c \in Batches PROVE Attended(c)'
      OBVIOUS
    <2>2. HalfImported(c)' <=> (batch'[c].state = "importing" /\ batch'[c].case = NoCase)
      BY DEF HalfImported
    <2>3. CASE c = b
      BY <1>1, <2>2, <2>3, AttendedStep DEF IInv
    <2>4. CASE c # b
      BY <1>1, <2>2, <2>4, AttendedStep DEF IInv, HalfImported
    <2> QED  BY <2>3, <2>4
  <1>5. JobsAreAfterFreeze'
    BY <1>2 DEF Grows, JobsAreAfterFreeze, IInv
  <1> QED  BY <1>1, <1>2, <1>3, <1>4, <1>5, StepKeeps

\* The row of a batch that is there, as a commit leaves it.
RowFollows(b, row) ==
    /\ batch[b].status # "absent" /\ row.status # "absent" /\ row.sim = batch[b].sim
    /\ batch[b].frozen => row.frozen
    /\ batch[b].case # NoCase => row.case # NoCase
    /\ row.frozen => \E r \in Runs : <<row.sim, r>> \in validated
    /\ row.state \in Scored => row.frozen
    /\ row.status = "owner_review_required" => Evidence(b)

\* A request commits to the row of a batch that is there.
LEMMA BatchStep ==
    ASSUME IInv, NEW h \in Requests, NEW q \in Held, NEW b \in Batches, NEW row \in Rows,
           request' = [request EXCEPT ![h] = q],
           batch' = [batch EXCEPT ![b] = row],
           UNCHANGED <<truth, ran, job, broken>>, Compares,
           RowFollows(b, row), RequestSound(h, q),
           request[h].op \in {"idle", "stage"} \/ request[h].batch = b,
           row.state = "production_running" =>
             Works(q, b) \/ (batch[b].state = "production_running" /\ ~Works(request[h], b)),
           row.state = "importing" /\ row.case = NoCase =>
             Links(q, b) \/ (HalfImported(b) /\ ~Links(request[h], b))
    PROVE  IInv'
  <1>1. \A c \in Batches : batch'[c] = IF c = b THEN row ELSE batch[c]
    BY DEF IInv, Types
  <1>2. Grows
    BY <1>1 DEF Grows, RowFollows, Compares
  <1>3. RequestSound(h, q)'
    <2>1. q.op = "create" /\ ~q.found => job'[<<q.batch, q.family, h>>] = "none"
      BY DEF RequestSound
    <2> QED  BY <1>2, <2>1, RequestGrows
  <1>4. row.status = "owner_review_required" => Evidence(b)'
    BY <1>2, EvidenceGrows DEF RowFollows
  <1>5. row.sim \in Simulations
    BY DEF RowFollows, IInv, RowSound
  <1>6. RowSound(b)'
    BY <1>1, <1>2, <1>4, <1>5 DEF RowFollows, RowSound, Grows
  <1>7. \A c \in Batches \ {b} : ~Works(request[h], c) /\ ~Links(request[h], c)
    BY DEF Works, Links
  <1> QED  BY <1>3, <1>6, <1>7, RowStep DEF RowFollows

\* What a request that is at a step holds.
LEMMA AtStep ==
    ASSUME IInv, NEW h \in Requests
    PROVE  /\ request[h] \in Held
           /\ RequestSound(h, request[h])
           /\ At(h, "idle") => request[h] = Idle
           /\ At(h, "stage") => request[h] \in Stages
           /\ request[h].op \in {"finalize", "import", "link", "start", "load"} =>
                request[h] \in Begun
           /\ request[h].op \in {"register", "upload", "verdict"} => request[h] \in OnCase
           /\ At(h, "execute") => request[h] \in Executions
           /\ At(h, "validate") => request[h] \in Validations
           /\ At(h, "score") => request[h] \in Scorings
           /\ At(h, "classify") => request[h] \in Classifications
           /\ At(h, "create") => request[h] \in Creations
           /\ At(h, "handoff") => request[h] \in Handoffs
  <1>1. request[h] \in Held /\ RequestSound(h, request[h])
    BY DEF IInv, Types
  <1> QED  BY <1>1 DEF At, Held, Stages, Begun, OnCase, Executions, Validations, Scorings,
                           Classifications,
                       Creations, Handoffs, Idle

\* An idle request holds nothing.
LEMMA IdleIsSound ==
    ASSUME NEW h \in Requests
    PROVE  Idle \in Held /\ RequestSound(h, Idle)
  BY DEF Idle, Held, RequestSound

\* Likewise afterwards.
LEMMA IdleStaysSound ==
    ASSUME NEW h \in Requests
    PROVE  RequestSound(h, Idle)'
  BY DEF Idle, RequestSound

-----------------------------------------------------------------------------
(* Initial states and steps.                                               *)

\* No batch, run or job is there at first.
LEMMA InitIInv == Init => IInv
  <1> SUFFICES ASSUME Init PROVE IInv
    OBVIOUS
  <1>1. Types
    BY DEF Init, Types, Rows, States, Absent, Held
  <1>2. \A b \in Batches : RowSound(b) /\ Attended(b)
    BY DEF Init, RowSound, Attended, HalfImported, Absent, Scored
  <1>3. JobsAreAfterFreeze /\ ComparedWithOwnTruth
    BY DEF Init, JobsAreAfterFreeze, ComparedWithOwnTruth
  <1>4. \A h \in Requests : RequestSound(h, request[h])
    BY IdleIsSound DEF Init
  <1> QED  BY <1>1, <1>2, <1>3, <1>4 DEF IInv

\* Staging a simulation: a new row, then its package moves or the gate closes.
LEMMA StageKeeps ==
    ASSUME IInv, NEW h \in Requests,
           \/ \E s \in Simulations : StageRead(h, s)
           \/ \E b \in Batches : StageCommit(h, b)
           \/ StageFinalize(h)
    PROVE  IInv'
  <1>1. ASSUME NEW s \in Simulations, StageRead(h, s) PROVE IInv'
    <2> DEFINE q == [op |-> "stage", sim |-> s]
    <2>1. q \in Held /\ RequestSound(h, q)
      BY DEF Held, Stages, RequestSound
    <2>2. request[h] = Idle
      BY <1>1, AtStep DEF StageRead
    <2>3. request' = [request EXCEPT ![h] = q] /\ UNCHANGED <<batch, truth, ran, validated, job, broken>>
      BY <1>1 DEF StageRead, Hold
    <2>4. \A b \in Batches : ~Works(request[h], b) /\ ~Links(request[h], b)
      BY <2>2 DEF Works, Links, Idle
    <2> HIDE DEF q
    <2> QED  BY <2>1, <2>3, <2>4, HoldStep
  <1>2. ASSUME NEW b \in Batches, StageCommit(h, b) PROVE IInv'
    <2>1. request[h] \in Stages
      BY <1>2, AtStep DEF StageCommit
    <2>2. PICK s \in Simulations : s = request[h].sim
      BY <2>1 DEF Stages
    <2> DEFINE q == [op |-> "finalize", batch |-> b]
               row == [Absent EXCEPT !.status = "active", !.sim = s, !.state = "selected"]
    <2>3. /\ request' = [request EXCEPT ![h] = q]
          /\ batch' = [batch EXCEPT ![b] = row]
          /\ UNCHANGED <<truth, ran, validated, job, broken>>
          /\ batch[b].status = "absent"
      BY <1>2, <2>2 DEF StageCommit, Hold
    <2>4. /\ q \in Held /\ q.op = "finalize" /\ q.batch = b
          /\ row \in Rows /\ row.status = "active" /\ row.sim = s /\ row.state = "selected"
          /\ ~row.frozen /\ row.case = NoCase
      BY <2>2 DEF Held, Begun, Rows, States, Absent
    <2> HIDE DEF q, row
    <2>5. batch'[b] = row
      BY <2>3 DEF IInv, Types
    <2>6. batch[b] = Absent
      BY <2>3 DEF IInv, RowSound
    <2>7. RequestSound(h, q)'
      BY <2>4, <2>5 DEF RequestSound
    <2>8. RowSound(b)'
      BY <2>4, <2>5 DEF RowSound, Scored
    <2>9. \A c \in Batches : ~Works(request[h], c) /\ ~Links(request[h], c)
      BY <2>1 DEF Stages, Works, Links
    <2>10. ~batch[b].frozen /\ batch[b].case = NoCase
      BY <2>6 DEF Absent
    <2> QED  BY <2>3, <2>4, <2>7, <2>8, <2>9, <2>10, RowStep DEF Compares
  <1>3. CASE StageFinalize(h)
    <2>1. request[h] \in Begun /\ request[h].op = "finalize"
      BY <1>3, AtStep DEF StageFinalize, At
    <2>2. PICK b \in Batches : b = request[h].batch
      BY <2>1 DEF Begun
    <2>3. batch[b] \in Rows /\ RowSound(b) /\ batch[b].status # "absent"
      BY <2>1, <2>2, AtStep DEF IInv, Types, RequestSound
    <2>4. PICK row \in Rows : /\ batch' = [batch EXCEPT ![b] = row]
                              /\ row \in {[batch[b] EXCEPT !.staged = TRUE],
                                          [batch[b] EXCEPT !.status = "paused_safety_gate"]}
      <3>1. /\ [batch[b] EXCEPT !.staged = TRUE] \in Rows
            /\ [batch[b] EXCEPT !.status = "paused_safety_gate"] \in Rows
        BY <2>3 DEF Rows
      <3> QED  BY <1>3, <2>2, <3>1 DEF StageFinalize
    <2>5. /\ row.status \in {batch[b].status, "paused_safety_gate"} /\ row.sim = batch[b].sim
          /\ row.state = batch[b].state /\ row.case = batch[b].case
          /\ row.frozen = batch[b].frozen
      BY <2>3, <2>4 DEF Rows
    <2>6. RowFollows(b, row)
      BY <2>3, <2>5 DEF RowFollows, RowSound
    <2>7. ~Works(request[h], b) /\ ~Links(request[h], b)
      BY <2>1 DEF Works, Links
    <2>8. request' = [request EXCEPT ![h] = Idle] /\ UNCHANGED <<truth, ran, validated, job, broken>>
      BY <1>3 DEF StageFinalize, Done, Hold
    <2> QED  BY <2>2, <2>4, <2>5, <2>6, <2>7, <2>8, BatchStep, IdleIsSound DEF HalfImported, Compares
  <1> QED  BY <1>1, <1>2, <1>3
\* The batch of a request is there, with a sound row.
LEMMA BatchThere ==
    ASSUME IInv, NEW h \in Requests, request[h].op \notin {"idle", "stage"}
    PROVE  /\ request[h].batch \in Batches
           /\ batch[request[h].batch] \in Rows
           /\ RowSound(request[h].batch)
           /\ batch[request[h].batch].status # "absent"
  <1>1. request[h] \in Held /\ RequestSound(h, request[h])
    BY AtStep
  <1>2. request[h].batch \in Batches
    BY <1>1 DEF Held, Stages, Begun, OnCase, Executions, Validations, Scorings,
                Classifications, Creations, Handoffs, Idle
  <1> QED  BY <1>1, <1>2 DEF IInv, Types, RequestSound

\* Only the state of a row changes, to one without a score.
LEMMA StateFollows ==
    ASSUME IInv, NEW b \in Batches, batch[b].status # "absent",
           NEW state \in {"importing", "production_running", "blocked"}
    PROVE  LET row == [batch[b] EXCEPT !.state = state]
           IN  /\ row \in Rows /\ row.state = state /\ row.case = batch[b].case
               /\ RowFollows(b, row)
  <1> DEFINE row == [batch[b] EXCEPT !.state = state]
  <1>1. batch[b] \in Rows /\ RowSound(b)
    BY DEF IInv, Types
  <1>2. /\ row \in Rows /\ row.state = state /\ row.case = batch[b].case
        /\ row.status = batch[b].status /\ row.sim = batch[b].sim
        /\ row.frozen = batch[b].frozen
    BY <1>1 DEF Rows, States
  <1> HIDE DEF row
  <1>3. RowFollows(b, row)
    BY <1>1, <1>2 DEF RowFollows, RowSound, Scored
  <1> QED  BY <1>2, <1>3 DEF row

\* prepare_batch: the read, the import, the case, and the verdict on the truth.
LEMMA PrepareKeeps ==
    ASSUME IInv, NEW h \in Requests,
           \/ \E b \in Batches : PrepareRead(h, b)
           \/ PrepareImport(h)
           \/ \E c \in Cases : PrepareLink(h, c)
           \/ PrepareBlock(h)
    PROVE  IInv'
  <1>1. ASSUME NEW b \in Batches, PrepareRead(h, b) PROVE IInv'
    <2> DEFINE q == [op |-> "import", batch |-> b]
    <2>1. batch[b].status # "absent"
      BY <1>1 DEF PrepareRead, IInv, RowSound, Absent
    <2>2. q \in Held /\ RequestSound(h, q)
      BY <2>1 DEF Held, Begun, RequestSound
    <2>3. request[h] = Idle
      BY <1>1, AtStep DEF PrepareRead
    <2>4. \A c \in Batches : ~Works(request[h], c) /\ ~Links(request[h], c)
      BY <2>3 DEF Works, Links, Idle
    <2>5. request' = [request EXCEPT ![h] = q] /\ UNCHANGED <<batch, truth, ran, validated, job, broken>>
      BY <1>1 DEF PrepareRead, Hold
    <2> HIDE DEF q
    <2> QED  BY <2>2, <2>4, <2>5, HoldStep
  <1>2. CASE PrepareImport(h)
    <2>1. request[h].op = "import"
      BY <1>2 DEF PrepareImport, At
    <2>2. PICK b \in Batches : b = request[h].batch /\ batch[b].status # "absent"
      BY <2>1, BatchThere
    <2>3. ~Works(request[h], b) /\ ~Links(request[h], b)
      BY <2>1 DEF Works, Links
    <2>4. UNCHANGED <<truth, ran, validated, job, broken>>
      BY <1>2 DEF PrepareImport
    <2>5. CASE batch' = [batch EXCEPT ![b].state = "blocked"] /\ Done(h)
      <3> DEFINE row == [batch[b] EXCEPT !.state = "blocked"]
      <3>1. row \in Rows /\ row.state = "blocked" /\ RowFollows(b, row)
        BY <2>2, StateFollows
      <3>2. batch' = [batch EXCEPT ![b] = row] /\ request' = [request EXCEPT ![h] = Idle]
        BY <2>5 DEF Done, Hold
      <3> HIDE DEF row
      <3> QED  BY <2>2, <2>3, <2>4, <3>1, <3>2, BatchStep, IdleIsSound DEF Compares
    <2>6. CASE batch' = [batch EXCEPT ![b].state = "importing"] /\ Hold(h, [op |-> "link", batch |-> b])
      <3> DEFINE row == [batch[b] EXCEPT !.state = "importing"]
                 q == [op |-> "link", batch |-> b]
      <3>1. row \in Rows /\ row.state = "importing" /\ RowFollows(b, row)
        BY <2>2, StateFollows
      <3>2. batch' = [batch EXCEPT ![b] = row] /\ request' = [request EXCEPT ![h] = q]
        BY <2>6 DEF Hold
      <3>3. q \in Held /\ RequestSound(h, q) /\ Links(q, b)
        BY <2>2 DEF Held, Begun, RequestSound, Links
      <3> HIDE DEF row, q
      <3> QED  BY <2>2, <2>3, <2>4, <3>1, <3>2, <3>3, BatchStep DEF Compares
    <2> QED  BY <1>2, <2>2, <2>5, <2>6 DEF PrepareImport
  <1>3. ASSUME NEW c \in Cases, PrepareLink(h, c) PROVE IInv'
    <2>1. request[h].op = "link"
      BY <1>3 DEF PrepareLink, At
    <2>2. PICK b \in Batches : /\ b = request[h].batch /\ batch[b].status # "absent"
                               /\ batch[b] \in Rows /\ RowSound(b)
      BY <2>1, BatchThere
    <2> DEFINE row == [batch[b] EXCEPT !.case = c]
               q == [op |-> "register", batch |-> b, case |-> c]
    <2>3. /\ row \in Rows /\ row.state = batch[b].state /\ row.case = c
          /\ row.status = batch[b].status /\ row.sim = batch[b].sim
          /\ row.frozen = batch[b].frozen
      BY <2>2 DEF Rows
    <2>4. q \in Held /\ RequestSound(h, q)
      BY <2>2 DEF Held, OnCase, RequestSound
    <2>5. /\ batch' = [batch EXCEPT ![b] = row] /\ request' = [request EXCEPT ![h] = q]
          /\ UNCHANGED <<truth, ran, validated, job, broken>>
      BY <1>3, <2>2 DEF PrepareLink, Hold
    <2> HIDE DEF row, q
    <2>6. RowFollows(b, row)
      BY <2>2, <2>3, NoCaseIsNone DEF RowFollows, RowSound
    <2>7. ~Works(request[h], b)
      BY <2>1 DEF Works
    <2> QED  BY <2>2, <2>3, <2>4, <2>5, <2>6, <2>7, NoCaseIsNone, BatchStep DEF Compares
  <1>4. CASE PrepareBlock(h)
    <2>1. request[h].op = "verdict"
      BY <1>4 DEF PrepareBlock, At
    <2>2. PICK b \in Batches : b = request[h].batch /\ batch[b].status # "absent"
      BY <2>1, BatchThere
    <2> DEFINE row == [batch[b] EXCEPT !.state = "blocked"]
    <2>3. row \in Rows /\ row.state = "blocked" /\ RowFollows(b, row)
      BY <2>2, StateFollows
    <2>4. /\ batch' = [batch EXCEPT ![b] = row] /\ request' = [request EXCEPT ![h] = Idle]
          /\ UNCHANGED <<truth, ran, validated, job, broken>>
      BY <1>4, <2>2 DEF PrepareBlock, Done, Hold
    <2> HIDE DEF row
    <2> QED  BY <2>2, <2>3, <2>4, BatchStep, IdleIsSound DEF Compares
  <1> QED  BY <1>1, <1>2, <1>3, <1>4

\* The truth of a simulation is written: its case is not taken back.
LEMMA TruthStep ==
    ASSUME IInv, NEW h \in Requests, NEW q \in Held, NEW s \in Simulations,
           NEW entry \in [case : Cases \cup {NoCase}, uploaded : BOOLEAN],
           request[h].op \in {"register", "upload"},
           request' = [request EXCEPT ![h] = q],
           truth' = [truth EXCEPT ![s] = entry],
           truth[s].case # NoCase => entry.case = truth[s].case,
           UNCHANGED <<batch, ran, validated, job, broken>>,
           RequestSound(h, q)'
    PROVE  IInv'
  <1>1. \A t \in Simulations : truth'[t] = IF t = s THEN entry ELSE truth[t]
    BY DEF IInv, Types
  <1>2. Grows /\ Compares
    BY <1>1 DEF Grows, Compares
  <1>3. Types'
    BY DEF IInv, Types
  <1>4. \A a \in Batches : ~Works(request[h], a) /\ ~Links(request[h], a)
    BY DEF Works, Links
  <1>5. \A a \in Batches : Attended(a)'
    BY <1>4, AttendedStep DEF IInv, HalfImported
  <1>6. JobsAreAfterFreeze'
    BY DEF IInv, JobsAreAfterFreeze
  <1> QED  BY <1>2, <1>3, <1>5, <1>6, StepKeeps

\* register_corpus and upload_ground_truth: a truth is registered once, for a
\* case that is one, and then uploaded.
LEMMA RegisterKeeps ==
    ASSUME IInv, NEW h \in Requests, PrepareRegister(h) \/ PrepareUpload(h)
    PROVE  IInv'
  <1>1. request[h].op \in {"register", "upload"} /\ request[h] \in OnCase
    BY AtStep DEF PrepareRegister, PrepareUpload, At
  <1>2. PICK b \in Batches : /\ b = request[h].batch /\ batch[b].status # "absent"
                             /\ batch[b].sim \in Simulations
    BY <1>1, BatchThere DEF RowSound
  <1>3. PICK c \in Cases, s \in Simulations : c = request[h].case /\ s = batch[b].sim
    BY <1>1, <1>2 DEF OnCase
  <1>4. \A a \in Batches : ~Works(request[h], a) /\ ~Links(request[h], a)
    BY <1>1 DEF Works, Links
  <1>5. UNCHANGED <<batch, ran, validated, job, broken>>
    BY DEF PrepareRegister, PrepareUpload
  <1>6. truth \in [Simulations -> [case : Cases \cup {NoCase}, uploaded : BOOLEAN]]
    BY DEF IInv, Types
  <1>7. ASSUME NEW op \in {"upload", "verdict"}
        PROVE  [request[h] EXCEPT !.op = op] \in Held /\ RequestSound(h, [request[h] EXCEPT !.op = op])
    <2> DEFINE q == [request[h] EXCEPT !.op = op]
    <2>1. q \in OnCase /\ q.op = op /\ q.batch = b
      BY <1>1, <1>2 DEF OnCase
    <2> HIDE DEF q
    <2>2. q \in Held /\ RequestSound(h, q)
      BY <1>2, <2>1 DEF Held, RequestSound
    <2> QED  BY <2>2 DEF q
  <1>8. CASE /\ truth' = [truth EXCEPT ![s].case = IF @ = NoCase THEN c ELSE @]
             /\ Hold(h, [request[h] EXCEPT !.op = "upload"])
    <2> DEFINE entry == [truth[s] EXCEPT !.case = IF truth[s].case = NoCase THEN c ELSE truth[s].case]
    <2>1. /\ entry \in [case : Cases \cup {NoCase}, uploaded : BOOLEAN]
          /\ truth[s].case # NoCase => entry.case = truth[s].case
          /\ truth' = [truth EXCEPT ![s] = entry]
      BY <1>6, <1>8
    <2> HIDE DEF entry
    <2>2. PICK q \in Held : request' = [request EXCEPT ![h] = q] /\ q.op = "upload" /\ q.batch = b
      <3> DEFINE p == [request[h] EXCEPT !.op = "upload"]
      <3>1. p \in Held /\ p.op = "upload" /\ p.batch = b
        BY <1>1, <1>2, <1>7 DEF OnCase
      <3>2. request' = [request EXCEPT ![h] = p]
        BY <1>8 DEF Hold
      <3> HIDE DEF p
      <3> QED  BY <3>1, <3>2
    <2>3. RequestSound(h, q)'
      BY <1>2, <1>5, <2>2 DEF RequestSound
    <2> QED  BY <1>1, <1>5, <2>1, <2>2, <2>3, TruthStep
  <1>9. CASE UNCHANGED truth /\ Done(h)
    <2>1. request' = [request EXCEPT ![h] = Idle]
      BY <1>9 DEF Done, Hold
    <2> QED  BY <1>4, <1>5, <1>9, <2>1, HoldStep, IdleIsSound
  <1>10. CASE UNCHANGED truth /\ Hold(h, [request[h] EXCEPT !.op = "verdict"])
    <2> DEFINE q == [request[h] EXCEPT !.op = "verdict"]
    <2>1. q \in Held /\ RequestSound(h, q) /\ request' = [request EXCEPT ![h] = q]
      BY <1>7, <1>10 DEF Hold
    <2> HIDE DEF q
    <2> QED  BY <1>4, <1>5, <1>10, <2>1, HoldStep
  <1>11. CASE PrepareUpload(h)
    <2> DEFINE entry == [truth[s] EXCEPT !.uploaded = TRUE]
    <2>1. /\ entry \in [case : Cases \cup {NoCase}, uploaded : BOOLEAN]
          /\ entry.case = truth[s].case
          /\ truth' = [truth EXCEPT ![s] = entry]
      BY <1>2, <1>3, <1>6, <1>11 DEF PrepareUpload
    <2>2. request' = [request EXCEPT ![h] = Idle]
      BY <1>11 DEF PrepareUpload, Done, Hold
    <2> HIDE DEF entry
    <2> QED  BY <1>1, <1>5, <2>1, <2>2, TruthStep, IdleIsSound, IdleStaysSound
  <1> QED  BY <1>2, <1>3, <1>8, <1>9, <1>10, <1>11 DEF PrepareRegister

\* A run that goes on to the next step, with what it found out: no row
\* changes, the runs that ended or were validated only grow.
LEMMA RunningStep ==
    ASSUME IInv, NEW h \in Requests, NEW q \in Held, NEW b \in Batches,
           request[h].op \in {"load", "execute", "validate"}, b = request[h].batch,
           Works(request[h], b) /\ batch[b].state = "production_running" => Works(q, b),
           request' = [request EXCEPT ![h] = q],
           UNCHANGED <<batch, truth, job, broken>>,
           ran' \in [Runs -> Cases \cup {NoCase}],
           \A r \in Runs : ran[r] # NoCase => ran'[r] = ran[r],
           Compares, RequestSound(h, q)'
    PROVE  IInv'
  <1>1. Grows
    BY DEF Grows, Compares
  <1>2. Types'
    BY DEF IInv, Types, Compares
  <1>3. \A c \in Batches : Attended(c)'
    <2>1. \A c \in Batches : Works(request[h], c) => c = b
      BY DEF Works
    <2>2. \A c \in Batches : ~Links(request[h], c)
      BY DEF Links
    <2> QED  BY <2>1, <2>2, AttendedStep DEF IInv, HalfImported
  <1>4. JobsAreAfterFreeze'
    BY DEF IInv, JobsAreAfterFreeze
  <1> QED  BY <1>1, <1>2, <1>3, <1>4, StepKeeps

\* The wave of a request has its result, which the request will flush.
LEMMA WaveStep ==
    ASSUME IInv, NEW h \in Requests, NEW b \in Batches,
           NEW state \in {"blocked", "scored"}, NEW run \in Runs \cup {NoRun},
           NEW columns \in SUBSET Both, NEW pending \in BOOLEAN,
           request[h].op \in {"execute", "validate"}, b = request[h].batch,
           Works(request[h], b) => "state" \in columns,
           Wave(h, state, run, columns, pending),
           UNCHANGED <<batch, truth, ran, job, broken>>, Compares,
           state = "scored" => \E r \in Runs : <<batch[b].sim, r>> \in validated',
           pending => /\ run \in Runs
                      /\ ran[run] # NoCase /\ ran[run] = truth[batch[b].sim].case
    PROVE  IInv'
  <1> DEFINE q == [op |-> "score", batch |-> b, state |-> state, run |-> run,
                   columns |-> columns, pending |-> pending]
  <1>1. q \in Held
    BY DEF Held, Scorings
  <1>2. Works(request[h], b) => Works(q, b)
    BY DEF Works
  <1>3. batch[b].status # "absent"
    BY BatchThere
  <1>4. RequestSound(h, q)'
    BY <1>3 DEF RequestSound
  <1>5. request' = [request EXCEPT ![h] = q]
    BY DEF Wave, Hold
  <1>6. ran' \in [Runs -> Cases \cup {NoCase}] /\ \A r \in Runs : ran'[r] = ran[r]
    BY DEF IInv, Types
  <1> HIDE DEF q
  <1> QED  BY <1>1, <1>2, <1>4, <1>5, <1>6, RunningStep

\* run_batch up to the wave: the read, the start, and the item loaded again.
LEMMA StartKeeps ==
    ASSUME IInv, NEW h \in Requests,
           (\E b \in Batches : RunRead(h, b)) \/ RunStart(h) \/ RunLoad(h)
    PROVE  IInv'
  <1>1. ASSUME NEW b \in Batches, RunRead(h, b) PROVE IInv'
    <2> DEFINE q == [op |-> "start", batch |-> b]
    <2>1. batch[b].status # "absent" /\ batch[b].case # NoCase
      BY <1>1 DEF RunRead, IInv, RowSound, Absent
    <2>2. q \in Held /\ RequestSound(h, q)
      BY <2>1 DEF Held, Begun, RequestSound
    <2>3. request[h] = Idle
      BY <1>1, AtStep DEF RunRead
    <2>4. \A a \in Batches : ~Works(request[h], a) /\ ~Links(request[h], a)
      BY <2>3 DEF Works, Links, Idle
    <2>5. /\ request' = [request EXCEPT ![h] = q]
          /\ UNCHANGED <<batch, truth, ran, validated, job, broken>>
      BY <1>1 DEF RunRead, Hold
    <2> HIDE DEF q
    <2> QED  BY <2>2, <2>4, <2>5, HoldStep
  <1>2. CASE RunStart(h)
    <2>1. request[h].op = "start" /\ request[h] \in Begun
      BY <1>2, AtStep DEF RunStart, At
    <2>2. PICK b \in Batches : b = request[h].batch /\ batch[b].status # "absent"
      BY <2>1, BatchThere
    <2> DEFINE row == [batch[b] EXCEPT !.state = "production_running"]
               q == [request[h] EXCEPT !.op = "load"]
    <2>3. row \in Rows /\ row.state = "production_running" /\ RowFollows(b, row)
      BY <2>2, StateFollows
    <2>4. q \in Begun /\ q.op = "load" /\ q.batch = b
      BY <2>1, <2>2 DEF Begun
    <2>5. /\ batch' = [batch EXCEPT ![b] = row] /\ request' = [request EXCEPT ![h] = q]
          /\ UNCHANGED <<truth, ran, validated, job, broken>>
      BY <1>2, <2>2 DEF RunStart, Hold
    <2> HIDE DEF row, q
    <2>6. batch[b].case # NoCase
      BY <2>1, <2>2, AtStep DEF RequestSound
    <2>7. q \in Held /\ RequestSound(h, q) /\ Works(q, b)
      BY <2>2, <2>4, <2>6 DEF Held, RequestSound, Works
    <2> QED  BY <2>2, <2>3, <2>5, <2>7, BatchStep DEF Compares
  <1>3. CASE RunLoad(h)
    <2>1. request[h].op = "load"
      BY <1>3 DEF RunLoad, At
    <2>2. PICK b \in Batches : /\ b = request[h].batch /\ batch[b].status # "absent"
                               /\ batch[b] \in Rows
      BY <2>1, BatchThere
    <2>3. batch[b].case \in Cases
      BY <2>1, <2>2, AtStep DEF RequestSound, Rows
    <2>4. [op |-> "execute", batch |-> b, case |-> batch[b].case,
           state |-> batch[b].state, run |-> batch[b].run] \in Executions
      BY <2>2, <2>3 DEF Executions, Rows
    <2>5. PICK q \in Executions : /\ q.op = "execute" /\ q.batch = b /\ q.state = batch[b].state
                                  /\ request' = [request EXCEPT ![h] = q]
                                  /\ UNCHANGED <<batch, truth, ran, validated, job, broken>>
      BY <1>3, <2>2, <2>4 DEF RunLoad, Hold
    <2>6. q \in Held /\ (batch[b].state = "production_running" => Works(q, b))
      BY <2>5 DEF Held, Works
    <2>7. batch'[b].status # "absent"
      BY <2>2, <2>5
    <2>8. RequestSound(h, q)'
      BY <2>5, <2>7 DEF RequestSound
    <2>9. Compares /\ ran' \in [Runs -> Cases \cup {NoCase}] /\ ran' = ran
      BY <2>5 DEF Compares, IInv, Types
    <2> QED  BY <2>1, <2>2, <2>5, <2>6, <2>8, <2>9, RunningStep
  <1> QED  BY <1>1, <1>2, <1>3

\* The columns that differ from what was loaded include the state of a run.
LEMMA ChangedState ==
    ASSUME NEW h \in Requests, NEW b \in Batches, NEW state \in {"blocked", "scored"},
           NEW run, request[h].op = "execute"
    PROVE  /\ Changed(h, state, run) \in SUBSET Both
           /\ Works(request[h], b) => "state" \in Changed(h, state, run)
  BY DEF Changed, Both, Works

\* run_wave: a run ends, or there is an outcome without one.
LEMMA ExecuteKeeps ==
    ASSUME IInv, NEW h \in Requests, RunExecute(h)
    PROVE  IInv'
  <1>1. request[h].op = "execute" /\ request[h] \in Executions
    BY AtStep DEF RunExecute, At
  <1>2. PICK b \in Batches, c \in Cases : /\ b = request[h].batch /\ c = request[h].case
                                          /\ batch[b].status # "absent"
    BY <1>1, BatchThere DEF Executions
  <1>3. UNCHANGED <<batch, truth, validated, job, broken>> /\ Compares
    BY DEF RunExecute, Compares
  <1>4. Both \in SUBSET Both /\ "state" \in Both
    BY DEF Both
  <1>5. CASE Wave(h, "blocked", NoRun, Changed(h, "blocked", NoRun), FALSE) /\ UNCHANGED ran
    BY <1>1, <1>2, <1>3, <1>5, ChangedState, WaveStep
  <1>6. CASE /\ \E r \in Runs : /\ <<batch[b].sim, r>> \in validated
                                /\ Wave(h, "scored", r, Changed(h, "scored", r), FALSE)
             /\ UNCHANGED ran
    <2>1. PICK r \in Runs : /\ <<batch[b].sim, r>> \in validated
                            /\ Wave(h, "scored", r, Changed(h, "scored", r), FALSE)
      BY <1>6
    <2> QED  BY <1>1, <1>2, <1>3, <1>6, <2>1, ChangedState, WaveStep
  <1>7. CASE Wave(h, "blocked", NoRun, Both, FALSE) /\ UNCHANGED ran
    BY <1>1, <1>2, <1>3, <1>4, <1>7, WaveStep
  <1>8. ASSUME NEW r \in Runs, ran[r] = NoCase, ran' = [ran EXCEPT ![r] = c],
               Hold(h, [op |-> "validate", batch |-> b, case |-> c, run |-> r])
        PROVE  IInv'
    <2> DEFINE q == [op |-> "validate", batch |-> b, case |-> c, run |-> r]
    <2>1. q \in Held /\ Works(q, b)
      BY DEF Held, Validations, Works
    <2>2. request' = [request EXCEPT ![h] = q]
      BY <1>8 DEF Hold
    <2>3. /\ ran' \in [Runs -> Cases \cup {NoCase}] /\ ran'[r] = c
          /\ \A other \in Runs : ran[other] # NoCase => ran'[other] = ran[other]
      BY <1>8 DEF IInv, Types
    <2>4. RequestSound(h, q)'
      BY <1>2, <1>3, <2>3 DEF RequestSound
    <2> HIDE DEF q
    <2> QED  BY <1>1, <1>2, <1>3, <2>1, <2>2, <2>3, <2>4, RunningStep
  <1> QED  BY <1>2, <1>5, <1>6, <1>7, <1>8 DEF RunExecute

\* validate_run: the run is of the case its simulation's truth is for.
LEMMA ValidateKeeps ==
    ASSUME IInv, NEW h \in Requests, RunValidate(h)
    PROVE  IInv'
  <1>1. request[h].op = "validate" /\ request[h] \in Validations
    BY AtStep DEF RunValidate, At
  <1>2. PICK b \in Batches, r \in Runs : /\ b = request[h].batch /\ r = request[h].run
                                         /\ batch[b].status # "absent"
                                         /\ batch[b].sim \in Simulations
    BY <1>1, BatchThere DEF Validations, RowSound
  <1>3. UNCHANGED <<batch, truth, ran, job, broken>>
    BY DEF RunValidate
  <1>4. Both \in SUBSET Both /\ "state" \in Both
    BY DEF Both
  <1>5. Comparable(h) => ran[r] # NoCase /\ ran[r] = truth[batch[b].sim].case
    <2>1. ran[r] = request[h].case /\ request[h].case \in Cases
      BY <1>1, <1>2, AtStep DEF RequestSound, Validations
    <2> QED  BY <1>2, <2>1, NoCaseIsNone DEF Comparable
  <1>6. CASE /\ Comparable(h) /\ validated' = validated \cup {<<batch[b].sim, r>>}
             /\ Wave(h, "scored", r, Both, FALSE)
    <2>1. Compares
      BY <1>2, <1>5, <1>6 DEF Compares
    <2>2. <<batch[b].sim, r>> \in validated'
      BY <1>6
    <2> QED  BY <1>1, <1>2, <1>3, <1>4, <1>6, <2>1, <2>2, WaveStep
  <1>7. ASSUME NEW pending \in {FALSE, Comparable(h)}, UNCHANGED validated,
               Wave(h, "blocked", r, Both, pending)
        PROVE  IInv'
    <2>1. pending \in BOOLEAN /\ (pending => Comparable(h)) /\ Compares
      BY <1>7 DEF Compares, Comparable
    <2> QED  BY <1>1, <1>2, <1>3, <1>4, <1>5, <1>7, <2>1, WaveStep
  <1> QED  BY <1>2, <1>6, <1>7 DEF RunValidate

\* The last commit of run_batch, which may come after another request froze
\* the item.
LEMMA FinishKeeps ==
    ASSUME IInv, NEW h \in Requests, RunFinish(h)
    PROVE  IInv'
  <1>1. request[h].op = "score" /\ request[h] \in Scorings
    BY AtStep DEF RunFinish, At
  <1>2. PICK b \in Batches : /\ b = request[h].batch /\ batch[b].status # "absent"
                             /\ batch[b] \in Rows /\ RowSound(b) /\ batch[b].sim \in Simulations
    BY <1>1, BatchThere DEF RowSound
  <1>3. PICK q \in Scorings : q = request[h] /\ q.batch = b
    BY <1>1, <1>2
  <1>4. /\ q.state = "scored" => \E r \in Runs : <<batch[b].sim, r>> \in validated
        /\ q.pending => /\ q.run \in Runs
                        /\ ran[q.run] # NoCase /\ ran[q.run] = truth[batch[b].sim].case
    BY <1>1, <1>3, AtStep DEF RequestSound
  <1>5. /\ request' = [request EXCEPT ![h] = Idle] /\ UNCHANGED <<truth, ran, job, broken>>
        /\ batch' = [batch EXCEPT ![b] = Outcome(batch[b], q)]
        /\ validated' = IF q.pending THEN validated \cup {<<batch[b].sim, q.run>>} ELSE validated
    BY <1>3 DEF RunFinish, Done, Hold
  <1>6. Compares
    BY <1>2, <1>4, <1>5 DEF Compares
  <1> DEFINE row == Outcome(batch[b], q)
  <1>7. /\ row \in Rows
        /\ row.state = IF "state" \in q.columns THEN q.state ELSE batch[b].state
        /\ row.frozen <=> (batch[b].frozen \/ q.state = "scored")
        /\ row.status = batch[b].status /\ row.sim = batch[b].sim /\ row.case = batch[b].case
    <2>1. PICK state \in States : state = IF "state" \in q.columns THEN q.state ELSE batch[b].state
      BY <1>2 DEF Rows, Scorings, States, Scored
    <2>2. PICK run \in Runs \cup {NoRun} : run = IF "run" \in q.columns THEN q.run ELSE batch[b].run
      BY <1>2 DEF Rows, Scorings
    <2>3. PICK frozen \in BOOLEAN : frozen = (batch[b].frozen \/ q.state = "scored")
      OBVIOUS
    <2>4. row = [batch[b] EXCEPT !.state = state, !.run = run, !.frozen = frozen]
      BY <1>2, <2>1, <2>2, <2>3 DEF Outcome, Rows
    <2> HIDE DEF row
    <2>5. /\ row \in Rows /\ row.state = state /\ row.frozen = frozen
          /\ row.status = batch[b].status /\ row.sim = batch[b].sim /\ row.case = batch[b].case
      BY <1>2, <2>4 DEF Rows
    <2> QED  BY <2>1, <2>3, <2>5
  <1>8. batch' = [batch EXCEPT ![b] = row]
    BY <1>5
  <1> HIDE DEF row
  <1>9. q.state \in {"blocked", "scored"}
    BY DEF Scorings
  <1>10. RowFollows(b, row)
    BY <1>2, <1>4, <1>7, <1>9 DEF RowFollows, RowSound, Scored
  <1>11. ~Links(request[h], b) /\ (Works(request[h], b) => "state" \in q.columns)
    BY <1>1, <1>3 DEF Links, Works
  <1>12. request[h].batch = b
    BY <1>2
  <1> QED  BY <1>5, <1>6, <1>7, <1>8, <1>9, <1>10, <1>11, <1>12, BatchStep, IdleIsSound
           DEF HalfImported, Works

\* create_miss_classification_jobs: the misses of a scored item, family by
\* family.
LEMMA ClassifyKeeps ==
    ASSUME IInv, NEW h \in Requests,
           \/ \E b \in Batches : ClassifyRead(h, b)
           \/ \E f \in Families : ClassifyLookup(h, f)
           \/ ClassifyJob(h)
    PROVE  IInv'
  <1>1. ASSUME NEW b \in Batches, ClassifyRead(h, b) PROVE IInv'
    <2>1. PICK families \in SUBSET Families :
            request' = [request EXCEPT ![h] = [op |-> "classify", batch |-> b, todo |-> families]]
      BY <1>1 DEF ClassifyRead, Hold
    <2> DEFINE q == [op |-> "classify", batch |-> b, todo |-> families]
    <2>2. batch[b].status # "absent" /\ batch[b].frozen
      BY <1>1 DEF ClassifyRead, IInv, RowSound, Absent, Scored
    <2>3. q \in Held /\ RequestSound(h, q)
      BY <2>2 DEF Held, Classifications, RequestSound
    <2>4. request[h] = Idle
      BY <1>1, AtStep DEF ClassifyRead
    <2>5. \A a \in Batches : ~Works(request[h], a) /\ ~Links(request[h], a)
      BY <2>4 DEF Works, Links, Idle
    <2>6. request' = [request EXCEPT ![h] = q] /\ UNCHANGED <<batch, truth, ran, validated, job, broken>>
      BY <1>1, <2>1 DEF ClassifyRead
    <2> HIDE DEF q
    <2> QED  BY <2>3, <2>5, <2>6, HoldStep
  <1>2. ASSUME NEW f \in Families, ClassifyLookup(h, f) PROVE IInv'
    <2>1. request[h].op = "classify" /\ request[h] \in Classifications
      BY <1>2, AtStep DEF ClassifyLookup, At
    <2>2. PICK b \in Batches, todo \in SUBSET Families :
            b = request[h].batch /\ todo = request[h].todo
      BY <2>1 DEF Classifications
    <2>3. batch[b].status # "absent" /\ batch[b].frozen
      BY <2>1, <2>2, AtStep, BatchThere DEF RequestSound
    <2> DEFINE found == \E g \in Requests : job[<<b, f, g>>] # "none"
               q == [op |-> "create", batch |-> b, todo |-> todo, family |-> f, found |-> found]
    <2>4. request' = [request EXCEPT ![h] = q] /\ UNCHANGED <<batch, truth, ran, validated, job, broken>>
      BY <1>2, <2>2 DEF ClassifyLookup, Hold
    <2>5. found \in BOOLEAN /\ (~found => job[<<b, f, h>>] = "none")
      OBVIOUS
    <2> HIDE DEF found
    <2>6. q \in Held /\ RequestSound(h, q)
      BY <2>3, <2>5 DEF Held, Creations, RequestSound
    <2>7. \A a \in Batches : ~Works(request[h], a) /\ ~Links(request[h], a)
      BY <2>1 DEF Works, Links
    <2> HIDE DEF q
    <2> QED  BY <2>4, <2>6, <2>7, HoldStep
  <1>3. CASE ClassifyJob(h)
    <2>1. request[h].op = "create" /\ request[h] \in Creations
      BY <1>3, AtStep DEF ClassifyJob, At
    <2>2. PICK b \in Batches, f \in Families, todo \in SUBSET Families :
            b = request[h].batch /\ f = request[h].family /\ todo = request[h].todo
      BY <2>1 DEF Creations
    <2>3. /\ batch[b].status # "absent" /\ batch[b].frozen /\ batch[b] \in Rows /\ RowSound(b)
          /\ ~request[h].found => job[<<b, f, h>>] = "none"
      BY <2>1, <2>2, AtStep, BatchThere DEF RequestSound
    <2> DEFINE row == [batch[b] EXCEPT !.state = "miss_classification"]
    <2>4. PICK q \in Held : /\ request' = [request EXCEPT ![h] = q]
                            /\ q \in {Idle, [op |-> "classify", batch |-> b, todo |-> todo \ {f}]}
      <3>1. {Idle, [op |-> "classify", batch |-> b, todo |-> todo \ {f}]} \subseteq Held
        BY DEF Held, Classifications
      <3> QED  BY <1>3, <2>2, <3>1 DEF ClassifyJob, Done, Hold
    <2>5. /\ batch' = [batch EXCEPT ![b] = row]
          /\ UNCHANGED <<truth, ran, validated, broken>>
          /\ \/ UNCHANGED job
             \/ ~request[h].found /\ job' = [job EXCEPT ![<<b, f, h>>] = "open"]
      BY <1>3, <2>2 DEF ClassifyJob
    <2>6. /\ row \in Rows /\ row.state = "miss_classification"
          /\ row.status = batch[b].status /\ row.sim = batch[b].sim
          /\ row.case = batch[b].case /\ row.frozen = batch[b].frozen
      BY <2>3 DEF Rows, States, Scored
    <2> HIDE DEF row
    <2>7. \A c \in Batches : batch'[c] = IF c = b THEN row ELSE batch[c]
      BY <2>5 DEF IInv, Types
    <2>8. /\ job' \in [Batches \X Families \X Requests -> {"none", "open", "done"}]
          /\ \A j \in Batches \X Families \X Requests :
               \/ job'[j] = job[j]
               \/ j = <<b, f, h>> /\ job[j] = "none" /\ job'[j] = "open"
      BY <2>3, <2>5 DEF IInv, Types
    <2>9. Grows /\ Compares
      BY <2>5, <2>6, <2>7, <2>8 DEF Grows, Compares
    <2>10. Types'
      BY <2>4, <2>5, <2>6, <2>8 DEF IInv, Types
    <2>11. RequestSound(h, q)'
      <3>1. q.op = "idle" \/ (q.op = "classify" /\ q.batch = b)
        BY <2>4 DEF Idle
      <3>2. batch'[b].status # "absent" /\ batch'[b].frozen
        BY <2>3, <2>6, <2>7
      <3> QED  BY <3>1, <3>2 DEF RequestSound
    <2>12. row.status = "owner_review_required" => Evidence(b)'
      BY <2>3, <2>6, <2>9, EvidenceGrows DEF RowSound
    <2>13. RowSound(b)'
      <3>1. batch'[b] = row /\ truth' = truth /\ validated' = validated
        BY <2>5, <2>7
      <3> QED  BY <2>3, <2>6, <2>12, <3>1 DEF RowSound
    <2>14. JobsAreAfterFreeze'
      <3> SUFFICES ASSUME NEW j \in Batches \X Families \X Requests, job'[j] # "none"
                   PROVE  batch'[j[1]].frozen
        BY DEF JobsAreAfterFreeze
      <3>1. j[1] \in Batches /\ (j = <<b, f, h>> => j[1] = b)
        OBVIOUS
      <3>2. CASE j = <<b, f, h>>
        BY <2>3, <2>6, <2>7, <3>1, <3>2
      <3>3. CASE job'[j] = job[j]
        BY <2>9, <3>1, <3>3 DEF Grows, IInv, JobsAreAfterFreeze
      <3> QED  BY <2>8, <3>2, <3>3
    <2>15. \A c \in Batches : Attended(c)'
      <3>1. ASSUME NEW c \in Batches PROVE Attended(c)'
        <4>1. ~Works(request[h], c) /\ ~Links(request[h], c)
          BY <2>1 DEF Works, Links
        <4>2. CASE c = b
          BY <2>6, <2>7, <4>2 DEF Attended, HalfImported
        <4>3. CASE c # b
          BY <2>4, <2>5, <2>7, <4>1, <4>3, AttendedStep DEF IInv, HalfImported
        <4> QED  BY <4>2, <4>3
      <3> QED  BY <3>1
    <2>16. \A j \in Batches \X Families \X Requests : j[3] # h /\ job[j] = "none" => job'[j] = "none"
      BY <2>8
    <2> QED  BY <2>4, <2>7, <2>9, <2>10, <2>11, <2>13, <2>14, <2>15, <2>16, StepKeeps
  <1> QED  BY <1>1, <1>2, <1>3

\* A classification job ends.
LEMMA JobDoneKeeps ==
    ASSUME IInv, NEW j \in Batches \X Families \X Requests, JobDone(j)
    PROVE  IInv'
  <1>1. /\ UNCHANGED <<batch, truth, ran, validated, request, broken>>
        /\ job' \in [Batches \X Families \X Requests -> {"none", "open", "done"}]
        /\ \A i \in Batches \X Families \X Requests :
             job'[i] = job[i] \/ (job[i] = "open" /\ job'[i] = "done")
    <2>1. /\ job \in [Batches \X Families \X Requests -> {"none", "open", "done"}]
          /\ job[j] = "open" /\ job' = [job EXCEPT ![j] = "done"]
          /\ UNCHANGED <<batch, truth, ran, validated, request, broken>>
      BY DEF JobDone, IInv, Types
    <2>2. \A i \in Batches \X Families \X Requests : job'[i] = IF i = j THEN "done" ELSE job[i]
      BY <2>1
    <2>3. job' \in [Batches \X Families \X Requests -> {"none", "open", "done"}]
      BY <2>1
    <2> QED  BY <2>1, <2>2, <2>3
  <1>2. Grows
    BY <1>1 DEF Grows
  <1>3. Types'
    BY <1>1 DEF IInv, Types
  <1>4. JobsAreAfterFreeze'
    BY <1>1 DEF IInv, JobsAreAfterFreeze
  <1>5. \A b \in Batches : RowSound(b)'
    BY <1>1, <1>2, RowGrows
  <1>6. \A b \in Batches : Attended(b)'
    BY <1>1 DEF IInv, Attended, HalfImported
  <1>7. ASSUME NEW h \in Requests PROVE RequestSound(h, request[h])'
    <2>1. PICK q \in Held : q = request[h]
      BY DEF IInv, Types
    <2>2. q.op = "create" /\ ~q.found => job'[<<q.batch, q.family, h>>] = "none"
      <3> SUFFICES ASSUME q.op = "create", ~q.found PROVE job'[<<q.batch, q.family, h>>] = "none"
        OBVIOUS
      <3>1. q.batch \in Batches /\ q.family \in Families
        BY DEF Held, Stages, Begun, OnCase, Executions, Validations, Scorings,
               Classifications, Creations, Handoffs, Idle
      <3>2. job[<<q.batch, q.family, h>>] = "none"
        BY <2>1 DEF IInv, RequestSound
      <3>3. <<q.batch, q.family, h>> \in Batches \X Families \X Requests
        BY <3>1
      <3> QED  BY <1>1, <3>2, <3>3
    <2>3. RequestSound(h, q)'
      BY <1>2, <2>1, <2>2, RequestGrows DEF IInv
    <2> QED  BY <1>1, <2>1, <2>3
  <1>8. ComparedWithOwnTruth'
    BY <1>1 DEF IInv, ComparedWithOwnTruth
  <1> QED  BY <1>3, <1>4, <1>5, <1>6, <1>7, <1>8 DEF IInv

\* The handoff: it reads the jobs, and commits the gate whatever state the
\* item has by then.
LEMMA HandoffKeeps ==
    ASSUME IInv, NEW h \in Requests,
           \/ \E b \in Batches : HandoffRead(h, b)
           \/ HandoffCommit(h)
    PROVE  IInv'
  <1>1. ASSUME NEW b \in Batches, HandoffRead(h, b) PROVE IInv'
    <2>1. PICK state \in States : state = batch[b].state
      BY DEF IInv, Types, Rows
    <2> DEFINE q == [op |-> "handoff", batch |-> b, state |-> state]
    <2>2. Evidence(b)
      BY <1>1 DEF HandoffRead, JobsOf, Evidence, IInv, Types
    <2>3. batch[b].status # "absent" /\ (state \in Scored => batch[b].frozen)
      BY <1>1, <2>1 DEF HandoffRead, IInv, RowSound
    <2>4. q \in Held /\ RequestSound(h, q)
      BY <2>2, <2>3 DEF Held, Handoffs, RequestSound
    <2>5. request[h] = Idle
      BY <1>1, AtStep DEF HandoffRead
    <2>6. \A a \in Batches : ~Works(request[h], a) /\ ~Links(request[h], a)
      BY <2>5 DEF Works, Links, Idle
    <2>7. request' = [request EXCEPT ![h] = q] /\ UNCHANGED <<batch, truth, ran, validated, job, broken>>
      BY <1>1, <2>1 DEF HandoffRead, Hold
    <2> HIDE DEF q
    <2> QED  BY <2>4, <2>6, <2>7, HoldStep
  <1>2. CASE HandoffCommit(h)
    <2>1. request[h].op = "handoff" /\ request[h] \in Handoffs
      BY <1>2, AtStep DEF HandoffCommit, At
    <2>2. PICK b \in Batches : /\ b = request[h].batch /\ batch[b].status # "absent"
                               /\ batch[b] \in Rows /\ RowSound(b)
      BY <2>1, BatchThere
    <2>3. Evidence(b) /\ (request[h].state \in Scored => batch[b].frozen)
      BY <2>1, <2>2, AtStep DEF RequestSound
    <2>4. PICK state \in States : state = IF request[h].state = "miss_classification"
                                          THEN "gap_clustering" ELSE batch[b].state
      BY <2>2 DEF Rows, States, Scored
    <2> DEFINE row == [batch[b] EXCEPT !.status = "owner_review_required", !.state = state]
    <2>5. /\ row \in Rows /\ row.state = state /\ row.case = batch[b].case
          /\ row.status = "owner_review_required" /\ row.sim = batch[b].sim
          /\ row.frozen = batch[b].frozen
      BY <2>2 DEF Rows
    <2>6. /\ batch' = [batch EXCEPT ![b] = row] /\ request' = [request EXCEPT ![h] = Idle]
          /\ UNCHANGED <<truth, ran, validated, job, broken>>
      BY <1>2, <2>2, <2>4 DEF HandoffCommit, Done, Hold
    <2> HIDE DEF row
    <2>7. state \in Scored => batch[b].frozen
      BY <2>2, <2>3, <2>4 DEF RowSound, Scored
    <2>8. RowFollows(b, row)
      BY <2>2, <2>3, <2>5, <2>7 DEF RowFollows, RowSound
    <2>9. ~Works(request[h], b) /\ ~Links(request[h], b)
      BY <2>1 DEF Works, Links
    <2>10. state \in {"gap_clustering", batch[b].state}
      BY <2>4
    <2> QED  BY <2>2, <2>5, <2>6, <2>8, <2>9, <2>10, BatchStep, IdleIsSound DEF HalfImported, Compares
  <1> QED  BY <1>1, <1>2

\* A request is lost: its batch goes on record.
LEMMA LostKeeps ==
    ASSUME IInv, NEW h \in Requests, Lost(h)
    PROVE  IInv'
  <1>1. /\ request' = [request EXCEPT ![h] = Idle]
        /\ broken' = broken \cup {b \in Batches : On(h, b)}
        /\ UNCHANGED <<batch, truth, ran, validated, job>>
    BY DEF Lost, Done, Hold
  <1>2. Grows /\ Compares
    BY <1>1 DEF Grows, Compares
  <1>3. Types'
    BY <1>1, IdleIsSound DEF IInv, Types
  <1>4. JobsAreAfterFreeze'
    BY <1>1 DEF IInv, JobsAreAfterFreeze
  <1>5. ASSUME NEW b \in Batches PROVE Attended(b)'
    <2>1. Works(request[h], b) \/ Links(request[h], b) => b \in broken'
      BY <1>1 DEF Works, Links, On
    <2> QED  BY <1>1, <2>1, AttendedStep, IdleIsSound DEF IInv, HalfImported
  <1> QED  BY <1>1, <1>2, <1>3, <1>4, <1>5, IdleIsSound, IdleStaysSound, StepKeeps

\* Every step keeps the invariant.
LEMMA NextIInv ==
    ASSUME IInv, [Next]_vars
    PROVE  IInv'
  <1>1. CASE UNCHANGED vars
    <2>1. UNCHANGED <<batch, truth, ran, validated, job, request, broken>>
      BY <1>1 DEF vars
    <2>2. Types' /\ JobsAreAfterFreeze' /\ ComparedWithOwnTruth'
      BY <2>1 DEF IInv, Types, JobsAreAfterFreeze, ComparedWithOwnTruth
    <2>3. \A b \in Batches : RowSound(b)' /\ Attended(b)'
      BY <2>1 DEF IInv, RowSound, Evidence, Attended, HalfImported
    <2>4. \A h \in Requests : RequestSound(h, request[h])'
      BY <2>1 DEF IInv, RequestSound, Evidence
    <2> QED  BY <2>2, <2>3, <2>4 DEF IInv
  <1>2. ASSUME NEW j \in DOMAIN job, JobDone(j) PROVE IInv'
    BY <1>2, JobDoneKeeps DEF IInv, Types
  <1> QED  BY <1>1, <1>2, StageKeeps, PrepareKeeps, RegisterKeeps, StartKeeps,
              ExecuteKeeps, ValidateKeeps, FinishKeeps, ClassifyKeeps, HandoffKeeps, LostKeeps
           DEF Next

-----------------------------------------------------------------------------
(* The theorems.                                                           *)

\* Truth isolation, for any number of simulations, batches and overlapping
\* requests: misses leave only after the freeze (create_miss_classification_
\* jobs), an item is frozen only once a run of its simulation was validated,
\* and validate_run compares a run only with the truth of its own case.
THEOREM TruthIsIsolated == Spec => []TruthIsolation
  <1>1. IInv => TruthIsolation
    <2> SUFFICES ASSUME IInv PROVE TruthAfterFreeze
      BY DEF TruthIsolation, IInv
    <2> QED  BY DEF IInv, Types, TruthAfterFreeze, RowSound, JobsAreAfterFreeze
  <1> QED  BY <1>1, InitIInv, NextIInv, PTL DEF Spec

\* An owner reviews only a batch whose simulation has a classification that
\* ended (prepare of the handoff), also when the batch moved on meanwhile.
THEOREM ReviewsAreBacked == Spec => []ReviewIsBacked
  <1>1. IInv => ReviewIsBacked
    <2> SUFFICES ASSUME IInv PROVE TypeOK /\ ReviewHasEvidence
      BY DEF ReviewIsBacked
    <2>1. TypeOK
      BY DEF IInv, Types, TypeOK, Rows, States
    <2>2. ReviewHasEvidence
      <3> SUFFICES ASSUME NEW b \in Batches, batch[b].status = "owner_review_required"
                   PROVE  \E j \in JobsOf(b) : job[j] = "done"
        BY DEF ReviewHasEvidence
      <3>1. Evidence(b)
        BY DEF IInv, RowSound
      <3> QED  BY <3>1 DEF Evidence, JobsOf, IInv, Types
    <2> QED  BY <2>1, <2>2
  <1> QED  BY <1>1, InitIInv, NextIInv, PTL DEF Spec

\* An item is left half imported, or running with nobody running it, only by
\* a request that was lost or raised, however many requests work on a batch.
THEOREM StrandingNeedsLoss == Spec => []StrandedOnlyByLoss
  <1>1. IInv => StrandedOnlyByLoss
    <2> SUFFICES ASSUME IInv, NEW b \in Batches, \A h \in Requests : ~On(h, b),
                        batch[b].state = "production_running" \/ HalfImported(b)
                 PROVE  b \in broken
      BY DEF StrandedOnlyByLoss, HalfImported
    <2>1. \A h \in Requests : ~Works(request[h], b) /\ ~Links(request[h], b)
      BY DEF On, Works, Links
    <2> QED  BY <2>1 DEF IInv, Attended
  <1> QED  BY <1>1, InitIInv, NextIInv, PTL DEF Spec
=============================================================================
