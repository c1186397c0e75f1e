------------------------------- MODULE MCNap --------------------------------
(* Instances of Nap for TLC. *)
EXTENDS Nap

=============================================================================
