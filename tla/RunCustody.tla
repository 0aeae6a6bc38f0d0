----------------------------- MODULE RunCustody -----------------------------
(***************************************************************************)
(* What mapping execution promises of a run, without workers, leases,      *)
(* heartbeats or transactions: a run is handed to one worker, once; its    *)
(* results are written at most once, by the worker that has it; a run has  *)
(* at most one retry, created after it failed.  MappingRuns implements     *)
(* this specification.                                                     *)
(***************************************************************************)
CONSTANTS Runs, Workers, NoWorker, NoRun

VARIABLES
    phase,    \* absent, queued, held, done or failed
    holder,   \* the worker a held run is with
    written,  \* the runs whose results were written
    parent    \* the run a run retries

vars == <<phase, holder, written, parent>>

Init ==
    /\ phase = [r \in Runs |-> "absent"]
    /\ holder = [r \in Runs |-> NoWorker]
    /\ written = {}
    /\ parent = [r \in Runs |-> NoRun]

Request(r) ==
    /\ phase[r] = "absent"
    /\ phase' = [phase EXCEPT ![r] = "queued"]
    /\ UNCHANGED <<holder, written, parent>>

\* The synchronous path: requested and done in one transaction.
RequestDone(r) ==
    /\ phase[r] = "absent"
    /\ phase' = [phase EXCEPT ![r] = "done"]
    /\ written' = written \cup {r}
    /\ UNCHANGED <<holder, parent>>

Retry(r, p) ==
    /\ phase[r] = "absent"
    /\ phase[p] = "failed"
    /\ \A q \in Runs : parent[q] # p
    /\ phase' = [phase EXCEPT ![r] = "queued"]
    /\ parent' = [parent EXCEPT ![r] = p]
    /\ UNCHANGED <<holder, written>>

Hand(r, w) ==
    /\ phase[r] = "queued"
    /\ phase' = [phase EXCEPT ![r] = "held"]
    /\ holder' = [holder EXCEPT ![r] = w]
    /\ UNCHANGED <<written, parent>>

Write(r) ==
    /\ phase[r] = "held"
    /\ r \notin written
    /\ phase' = [phase EXCEPT ![r] = "done"]
    /\ holder' = [holder EXCEPT ![r] = NoWorker]
    /\ written' = written \cup {r}
    /\ UNCHANGED parent

\* A set of runs, because recovery fails every stale run at once.
Fail(S) ==
    /\ S # {}
    /\ \A r \in S : phase[r] \in {"queued", "held"}
    /\ phase' = [r \in Runs |-> IF r \in S THEN "failed" ELSE phase[r]]
    /\ holder' = [r \in Runs |-> IF r \in S THEN NoWorker ELSE holder[r]]
    /\ UNCHANGED <<written, parent>>

\* fail() commits what it decided from an unlocked read, so it may mark a
\* run that was done in the meantime; its results stay written.
Overrule(r) ==
    /\ phase[r] = "done"
    /\ phase' = [phase EXCEPT ![r] = "failed"]
    /\ UNCHANGED <<holder, written, parent>>

Next ==
    \/ \E r \in Runs : Request(r) \/ RequestDone(r) \/ Write(r) \/ Overrule(r)
    \/ \E r, p \in Runs : Retry(r, p)
    \/ \E r \in Runs, w \in Workers : Hand(r, w)
    \/ \E S \in SUBSET Runs : Fail(S)

Spec == Init /\ [][Next]_vars
=============================================================================
