----------------------------- MODULE MCAutosrc ------------------------------
(* An instance of Autosrc for TLC. *)
EXTENDS Autosrc

CONSTANTS o1, o2

MCBefore(o, p) == o = o1 /\ p = o2
=============================================================================
