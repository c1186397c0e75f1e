----------------------------- MODULE MCAgentBus -----------------------------
(* Instances of AgentBus for TLC. *)
EXTENDS AgentBus, TLC

MCSymmetry == Permutations(Workers)

=============================================================================
