----------------------------- MODULE MCDecisions -----------------------------
(* Instances of Decisions for TLC.                                         *)
EXTENDS Decisions, TLC

\* Users without a role, and action ids, are interchangeable.
Interchangeable == Permutations(Users \ Admins) \cup Permutations(Actions)
=============================================================================
