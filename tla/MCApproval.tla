----------------------------- MODULE MCApproval -----------------------------
(* Instances of Approval for TLC. *)
EXTENDS Approval, TLC

MCCosts == {0, 1}

MCSymmetry == Permutations(Deciders) \union Permutations(Approvers) \union Permutations(Families)

=============================================================================
