-------------------------- MODULE MCRecoveryLedger --------------------------
(* Model-checking instances of RecoveryLedger. *)
EXTENDS RecoveryLedger, TLC

CONSTANTS c1, m1, u1, u2, k1, k2, k3, h1, h2

OneCase == {c1}
OneMeasurement == {m1}
SameCase == [m \in Measurements |-> c1]
TwoUsers == {u1, u2}
ThreeKeys == {k1, k2, k3}
UnitAmount == {1}
TwoHandlers == {h1, h2}

\* Users, keys and handlers are interchangeable.
Symmetry == Permutations(Users) \cup Permutations(Keys) \cup Permutations(Handlers)
=============================================================================
