------------------------ MODULE MCSwarmController --------------------------
(***************************************************************************)
(* Small instances of SwarmController: two and three shards and the graphs  *)
(* whose shapes the loop treats differently.                               *)
(***************************************************************************)
EXTENDS SwarmController

CONSTANTS a, b, c

Pair  == {a, b}
Trio  == {a, b, c}

NoDeps == [s \in Trio |-> {}]
Chain2 == [s \in Trio |-> IF s = b THEN {a} ELSE {}]
Join   == [s \in Trio |-> IF s = c THEN {a, b} ELSE {}]
Chain3 == [s \in Trio |-> CASE s = a -> {} [] s = b -> {a} [] s = c -> {b}]

\* Two shards that are merged until clean; three, one listed before its dependency, that
\* are collated in two passes.
Merged   == [shards : {Pair}, deps : {NoDeps, Chain2}, early : {{}}, attempts : {2},
             untilClean : {TRUE}, maxPasses : {1}, merging : {TRUE}]
Collated == [shards : {Trio}, deps : {Join, Chain3}, early : {{c}}, attempts : {1},
             untilClean : {FALSE}, maxPasses : {2}, merging : {FALSE}]

MCSettings == Merged \cup Collated

=============================================================================
