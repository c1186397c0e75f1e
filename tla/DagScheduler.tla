---------------------------- MODULE DagScheduler ----------------------------
(***************************************************************************)
(* The wave scheduler of internal/spawn/dag.go over the bounded worker     *)
(* pool of internal/scheduler/scheduler.go: subtasks with dependencies are *)
(* released in waves, every wave runs in a fresh FIFO pool, and every node *)
(* ends in one terminal state.                                             *)
(*                                                                         *)
(* The dependency graph is a variable that never changes, so that one TLC  *)
(* run explores every graph over Nodes, including self-edges and edges to  *)
(* ids that are not in the plan.                                           *)
(***************************************************************************)
EXTENDS Naturals, Sequences

CONSTANTS
  Nodes,        \* the subtask ids of the call
  Unknown,      \* ids a plan may name as dependencies without defining them
  Order,        \* the input order of Run, one entry per node
  Workers,      \* the worker goroutines of a wave (MaxConcurrent of them)
  NoNode        \* "no task", not a node

ASSUME OrderAssumption ==
  /\ Order \in Seq(Nodes)
  /\ \A n \in Nodes : \E i \in 1..Len(Order) : Order[i] = n
  /\ \A i, j \in 1..Len(Order) : Order[i] = Order[j] => i = j
ASSUME NoNodeAssumption == NoNode \notin Nodes

VARIABLES
  dependsOn,    \* DependsOn of every subtask, as the plan gave it
  cancelled,    \* ctx.Err() # nil
  \* DAGScheduler.Run
  pc,           \* where the single scheduling goroutine is
  cursor,       \* position of collectReady in Order
  released,     \* node.released
  results,      \* the results map ("none": no entry)
  \* the scheduler.Scheduler of the current wave
  queue,        \* its FIFO: collected by collectReady, then popped by workers
  work,         \* per worker: the task it popped and how far it is
  wave,         \* the wave's own result map, folded when the pool has drained
  \* history
  started       \* nodes whose RunSub has been called

vars == <<dependsOn, cancelled, pc, cursor, released, results, queue, work,
          wave, started>>

-----------------------------------------------------------------------------

Terminal == {"passed", "failed", "skipped", "cycle"}
Idle     == [phase |-> "idle", node |-> NoNode]

Work == {Idle} \cup [phase : {"popped", "running"}, node : Nodes]

\* The resolved dependency list: self-edges and unknown ids are dropped.
deps(n) == (dependsOn[n] \cap Nodes) \ {n}

Resolved(n)  == results[n] # "none"
AllPassed(n) == \A d \in deps(n) : results[d] = "passed"

\* collectReady walks the dependencies in plan order and stops at the first
\* one that is unresolved (wait) or resolved but not passed (blocked), so a
\* node with both is blocked or waits according to that order: either.
MayBlock(n) == \E d \in deps(n) : Resolved(d) /\ results[d] # "passed"
MayWait(n)  == \E d \in deps(n) : ~Resolved(d)

TypeOK ==
  /\ dependsOn \in [Nodes -> SUBSET (Nodes \cup Unknown)]
  /\ cancelled \in BOOLEAN
  /\ pc \in {"round", "collect", "wave", "sweep", "done"}
  /\ cursor \in Nat
  /\ released \in SUBSET Nodes
  /\ results \in [Nodes -> Terminal \cup {"none"}]
  /\ queue \in Seq(Nodes)
  /\ work \in [Workers -> Work]
  /\ wave \in [Nodes -> {"none", "passed", "failed"}]
  /\ started \in SUBSET Nodes

Init ==
  /\ dependsOn \in [Nodes -> SUBSET (Nodes \cup Unknown)]
  /\ cancelled = FALSE
  /\ pc = "round"
  /\ cursor = 1
  /\ released = {}
  /\ results = [n \in Nodes |-> "none"]
  /\ queue = <<>>
  /\ work = [w \in Workers |-> Idle]
  /\ wave = [n \in Nodes |-> "none"]
  /\ started = {}

-----------------------------------------------------------------------------
(* DAGScheduler.Run and collectReady                                       *)

\* The loop condition: a done ctx releases no further wave.
BeginRound ==
  /\ pc = "round"
  /\ pc' = IF cancelled THEN "sweep" ELSE "collect"
  /\ cursor' = 1
  /\ UNCHANGED <<dependsOn, cancelled, released, results, queue, work, wave,
                 started>>

\* collectReady leaves a node alone that was released or has a result, or that
\* still waits for a dependency ...
Pass(n) ==
  /\ n \in released \/ Resolved(n) \/ MayWait(n)
  /\ UNCHANGED <<released, results, queue>>

\* Mutant of Block: an unresolved dependency already blocks.
Block_OnPending(n) ==
  /\ n \notin released /\ ~Resolved(n)
  /\ MayBlock(n) \/ MayWait(n)
  /\ results' = [results EXCEPT ![n] = "skipped"]
  /\ UNCHANGED <<released, queue>>

\* ... resolves a node as skipped whose dependency did not pass ...
Block(n) ==
  /\ n \notin released /\ ~Resolved(n)
  /\ MayBlock(n)
  /\ results' = [results EXCEPT ![n] = "skipped"]
  /\ UNCHANGED <<released, queue>>

\* Mutant of Release: any verdict of the dependencies will do.
Release_AnyVerdict(n) ==
  /\ n \notin released /\ ~Resolved(n)
  /\ \A d \in deps(n) : Resolved(d)
  /\ released' = released \cup {n}
  /\ queue' = Append(queue, n)
  /\ UNCHANGED results

\* ... and releases a node whose dependencies all passed.
Release(n) ==
  /\ n \notin released /\ ~Resolved(n)
  /\ AllPassed(n)
  /\ released' = released \cup {n}
  /\ queue' = Append(queue, n)
  /\ UNCHANGED results

Visit ==
  /\ pc = "collect"
  /\ cursor \in DOMAIN Order
  /\ LET n == Order[cursor] IN Pass(n) \/ Block(n) \/ Release(n)
  /\ cursor' = cursor + 1
  /\ UNCHANGED <<dependsOn, cancelled, pc, work, wave, started>>

\* Mutant of EndRound: go on as long as some node has no result.
EndRound_UntilResolved ==
  /\ pc = "collect"
  /\ cursor \notin DOMAIN Order
  /\ pc' = IF queue # <<>> THEN "wave"
           ELSE IF \A n \in Nodes : Resolved(n) THEN "sweep" ELSE "round"
  /\ UNCHANGED <<dependsOn, cancelled, cursor, released, results, queue, work,
                 wave, started>>

\* An empty ready list ends the loop, even when this round resolved nodes.
EndRound ==
  /\ pc = "collect"
  /\ cursor \notin DOMAIN Order
  /\ pc' = IF queue = <<>> THEN "sweep" ELSE "wave"
  /\ UNCHANGED <<dependsOn, cancelled, cursor, released, results, queue, work,
                 wave, started>>

\* wg.Wait returned: every task of the wave was run or skipped; fold.
EndWave ==
  /\ pc = "wave"
  /\ queue = <<>>
  /\ \A w \in Workers : work[w] = Idle
  /\ results' = [n \in Nodes |-> IF wave[n] # "none" THEN wave[n] ELSE results[n]]
  /\ wave' = [n \in Nodes |-> "none"]
  /\ pc' = "round"
  /\ UNCHANGED <<dependsOn, cancelled, cursor, released, queue, work, started>>

\* Mutants of Sweep: one cause for everything left ...
Sweep_AlwaysCycle ==
  /\ pc = "sweep"
  /\ results' = [n \in Nodes |-> IF Resolved(n) THEN results[n] ELSE "cycle"]
  /\ pc' = "done"
  /\ UNCHANGED <<dependsOn, cancelled, cursor, released, queue, work, wave,
                 started>>

\* What never ran is skipped on a cancelled ctx and a cycle otherwise.
Sweep ==
  /\ pc = "sweep"
  /\ results' = [n \in Nodes |->
       IF Resolved(n) THEN results[n]
       ELSE IF cancelled THEN "skipped" ELSE "cycle"]
  /\ pc' = "done"
  /\ UNCHANGED <<dependsOn, cancelled, cursor, released, queue, work, wave,
                 started>>

-----------------------------------------------------------------------------
(* The pool: Scheduler.worker and Scheduler.run                            *)

Pop(w) ==
  /\ pc = "wave"
  /\ work[w] = Idle
  /\ queue # <<>>
  /\ work' = [work EXCEPT ![w] = [phase |-> "popped", node |-> Head(queue)]]
  /\ queue' = Tail(queue)
  /\ UNCHANGED <<dependsOn, cancelled, pc, cursor, released, results, wave,
                 started>>

\* run looks at the ctx after the pop: a cancelled task is accounted for and
\* its body never runs, so it leaves no entry in the wave's map.
DropCancelled(w) ==
  /\ work[w].phase = "popped"
  /\ cancelled
  /\ work' = [work EXCEPT ![w] = Idle]
  /\ UNCHANGED <<dependsOn, cancelled, pc, cursor, released, results, queue,
                 wave, started>>

Begin(w) ==
  /\ work[w].phase = "popped"
  /\ ~cancelled
  /\ work' = [work EXCEPT ![w].phase = "running"]
  /\ started' = started \cup {work[w].node}
  /\ UNCHANGED <<dependsOn, cancelled, pc, cursor, released, results, queue,
                 wave>>

\* runOne: a verdict, an error and a recovered panic all become passed or
\* failed in the wave's map.
Finish(w) ==
  /\ work[w].phase = "running"
  /\ \E r \in {"passed", "failed"} : wave' = [wave EXCEPT ![work[w].node] = r]
  /\ work' = [work EXCEPT ![w] = Idle]
  /\ UNCHANGED <<dependsOn, cancelled, pc, cursor, released, results, queue,
                 started>>

\* A deadline or a shutdown, at any moment.
Cancel ==
  /\ ~cancelled
  /\ pc # "done"
  /\ cancelled' = TRUE
  /\ UNCHANGED <<dependsOn, pc, cursor, released, results, queue, work, wave,
                 started>>

Worker(w) == Pop(w) \/ DropCancelled(w) \/ Begin(w) \/ Finish(w)
Loop      == BeginRound \/ Visit \/ EndRound \/ EndWave \/ Sweep

Next == Loop \/ (\E w \in Workers : Worker(w)) \/ Cancel

Spec == Init /\ [][Next]_vars

\* The scheduling goroutine and every worker keep running, and RunSub returns.
\* A cancellation is never owed.
FairSpec == Spec /\ WF_vars(Loop) /\ \A w \in Workers : WF_vars(Worker(w))

-----------------------------------------------------------------------------
(* Properties                                                              *)

InFlight(n) == \E w \in Workers : work[w].phase # "idle" /\ work[w].node = n
Queued(n)   == \E i \in 1..Len(queue) : queue[i] = n

\* "A node runs only after all its deps Passed": whatever was collected into a
\* wave, popped by a worker or started has every resolved dependency passed,
\* at that moment and ever after.
RunsAfterDeps ==
  \A n \in Nodes : Queued(n) \/ InFlight(n) \/ n \in started => AllPassed(n)

\* A node is handed to RunSub at most once in a call of Run: what a worker is
\* about to start, or may still pop, was never started, and no node is in two
\* places of the pool.
RunsOnce ==
  /\ \A n \in Nodes : Queued(n) => n \notin started /\ ~InFlight(n)
  /\ \A w \in Workers : work[w].phase = "popped" => work[w].node \notin started
  /\ \A v, w \in Workers :
       work[v].phase # "idle" /\ work[v].node = work[w].node => v = w
  /\ \A i, j \in 1..Len(queue) : queue[i] = queue[j] => i = j

\* The one exception to the code's words on cycle ("is (or is downstream of) a
\* dependency cycle"): the input order lists n before a dependency that ended
\* skipped, so the round that skipped it had already passed n by.
Overtaken(n) ==
  \E d \in deps(n) :
    /\ results[d] = "skipped"
    /\ \E i, j \in DOMAIN Order : i < j /\ Order[i] = n /\ Order[j] = d

\* n waits for itself: with no node of S overtaken, every node of S has a
\* dependency in S, which is to be on a cycle of the plan or behind one.
NeverFreed(n) ==
  \E S \in SUBSET Nodes :
    n \in S /\ \A m \in S : deps(m) \cap S # {} \/ Overtaken(m)

\* The map Run returns can be read back: passed and failed mean RunSub ran,
\* skipped and cycle that it did not; cycle is said of a node on or behind a
\* dependency cycle, or on or behind an overtaken node, and of no other;
\* without a cancellation, what did not run has a dependency that did not
\* pass, so that no runnable node is left behind.
OutcomesExplained ==
  pc = "done" =>
    \A n \in Nodes :
      /\ Resolved(n)
      /\ n \in started <=> results[n] \in {"passed", "failed"}
      /\ results[n] = "cycle" => NeverFreed(n)
      /\ n \notin started /\ ~cancelled => ~AllPassed(n)

\* A terminal result is never replaced by a later round or by the last sweep.
ResultsFinal ==
  [][\A n \in Nodes : Resolved(n) => results'[n] = results[n]]_results

\* "The loop always terminates", whatever the graph.
Terminates == <>(pc = "done")

\* What a caller of Run is promised, with the pool and the rounds hidden: a
\* result exists from the moment a worker has recorded it.
outcome == [n \in Nodes |-> IF wave[n] # "none" THEN wave[n] ELSE results[n]]

Contract == INSTANCE DagContract WITH outcome <- outcome,
                                      graph <- [n \in Nodes |-> deps(n)]

\* Run implements the contract.
ImplementsContract == Contract!Spec

=============================================================================
