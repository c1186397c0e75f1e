---------------------------- MODULE MCModelCalls ----------------------------
(* Instances of ModelCalls for TLC. *)
EXTENDS ModelCalls, TLC

MCPrices   == {1, 2}
MCSymmetry == Permutations(Callers)

=============================================================================
