---------------------------- MODULE MCAgentJobs ----------------------------
(* Instances of AgentJobs for TLC.                                         *)
EXTENDS AgentJobs, TLC

CONSTANTS o1, o2, w1, w2

OneEach == (w1 :> o1) @@ (w2 :> o2)

GatedOrNot == {[org |-> o1, risk |-> risk, key |-> NoKey] : risk \in {"R0", "R2"}}

=============================================================================
