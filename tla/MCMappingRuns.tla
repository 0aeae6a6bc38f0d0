--------------------------- MODULE MCMappingRuns ---------------------------
(* Instances of MappingRuns for TLC.                                       *)
EXTENDS MappingRuns, TLC

\* Workers, requests and keys are interchangeable.
Interchangeable ==
    Permutations(Workers) \cup Permutations(Clients) \cup Permutations(Keys)
=============================================================================
