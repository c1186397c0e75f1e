---------------------------- MODULE DagContract -----------------------------
(***************************************************************************)
(* What internal/spawn/dag.go promises the callers of DAGScheduler.Run     *)
(* (the swarm's runner and the supervisor): every subtask of a graph gets  *)
(* one outcome, never revised, and none runs before its dependencies have  *)
(* passed.  Rounds, waves and workers do not appear.                       *)
(***************************************************************************)
CONSTANT Nodes

VARIABLES
  graph,       \* the dependencies of every node, within Nodes
  outcome     \* its outcome, "none" while it has none

Ready(n)   == \A d \in graph[n] : outcome[d] = "passed"
Doomed(n)  == \E d \in graph[n] : outcome[d] \notin {"none", "passed"}
Open       == {n \in Nodes : outcome[n] = "none"}

Init ==
  /\ graph \in [Nodes -> SUBSET Nodes]
  /\ outcome = [n \in Nodes |-> "none"]

\* The subtask ran and reported.
Run(n) ==
  /\ n \in Open
  /\ Ready(n)
  /\ \E r \in {"passed", "failed"} : outcome' = [outcome EXCEPT ![n] = r]
  /\ UNCHANGED graph

\* A dependency ended without passing.
Skip(n) ==
  /\ n \in Open
  /\ Doomed(n)
  /\ outcome' = [outcome EXCEPT ![n] = "skipped"]
  /\ UNCHANGED graph

\* Run gives up on everything that is left, once: as skipped on a
\* cancellation, and as a cycle only when no open node could run.
GiveUp(verdict) ==
  /\ Open # {}
  /\ verdict = "cycle" => \A n \in Open : ~Ready(n)
  /\ outcome' = [n \in Nodes |-> IF n \in Open THEN verdict ELSE outcome[n]]
  /\ UNCHANGED graph

Next ==
  \/ \E n \in Nodes : Run(n) \/ Skip(n)
  \/ \E verdict \in {"skipped", "cycle"} : GiveUp(verdict)

Spec == Init /\ [][Next]_<<graph, outcome>>

=============================================================================
