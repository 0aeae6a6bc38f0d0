------------------------ MODULE MCMappingGovernance ------------------------
(* Instances of MappingGovernance for TLC.                                 *)
EXTENDS MappingGovernance, TLC

CONSTANTS r1, r2, e1, e2, e3

\* Two runs whose records describe the same new entity.
OneEach == (r1 :> {"a"}) @@ (r2 :> {"b"})
SameEntity == ("a" :> e3) @@ ("b" :> e3)

\* Users, field mappings and the entities of earlier runs are
\* interchangeable.
Interchangeable == Permutations(Users) \cup Permutations(Seeded) \cup Permutations(Fields)
=============================================================================
