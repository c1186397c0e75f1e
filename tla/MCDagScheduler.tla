--------------------------- MODULE MCDagScheduler ---------------------------
(***************************************************************************)
(* Small instances of DagScheduler: three nodes in a fixed input order, an *)
(* id the plan does not define, and a pool of two workers.  The graph is   *)
(* chosen in Init, so a run visits every graph over the nodes.             *)
(***************************************************************************)
EXTENDS DagScheduler

CONSTANTS a, b, c

MCNodes == {a, b, c}
MCOrder == <<a, b, c>>

=============================================================================
