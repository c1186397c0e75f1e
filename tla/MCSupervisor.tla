---------------------------- MODULE MCSupervisor ----------------------------
(* An instance of Supervisor for TLC: two items on their own and one that    *)
(* depends on both.                                                         *)
EXTENDS Supervisor

CONSTANTS a, b

OneOnOne == [i \in Items |-> IF i = b THEN {a} ELSE {}]
=============================================================================
