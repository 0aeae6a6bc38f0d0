------------------------- MODULE MCSimulationBatches -------------------------
(* Instances of SimulationBatches for TLC.                                 *)
EXTENDS SimulationBatches, TLC

\* Requests, batches and simulations are interchangeable.
Interchangeable == Permutations(Requests) \cup Permutations(Batches)
                     \cup Permutations(Simulations)
=============================================================================
