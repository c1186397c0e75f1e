------------------------- MODULE DagSchedulerProofs -------------------------
(***************************************************************************)
(* What TLC checks of DagScheduler on three nodes, proved for every set of *)
(* nodes, every graph, every input order and every size of the pool.       *)
(*                                                                         *)
(* The argument: a node's dependencies have all passed when it is released *)
(* and a verdict, once folded, is never replaced, because everything that  *)
(* is in the pool or in the wave's map has no verdict yet and was latched  *)
(* as released.                                                            *)
(***************************************************************************)
EXTENDS DagScheduler, TLAPS

\* Where tasks can be: the pool is empty between waves, whatever it holds or
\* has reported was released once and has no folded verdict, and nothing is in
\* it that was started before.
PoolInv ==
  /\ pc # "wave" => \A n \in Nodes : ~InFlight(n) /\ wave[n] = "none"
  /\ pc \notin {"collect", "wave"} => queue = <<>>
  /\ started \subseteq released
  /\ \A w \in Workers : work[w].phase = "running" => work[w].node \in started
  /\ \A n \in Nodes : Queued(n) \/ InFlight(n) \/ wave[n] # "none"
                        => n \in released /\ ~Resolved(n)
  /\ \A n \in Nodes : wave[n] # "none" => n \in started

DagInv == TypeOK /\ PoolInv /\ RunsAfterDeps /\ RunsOnce

\* A dependency ended without passing: it stays that way.
Hopeless(n) == \E d \in deps(n) : results[d] \notin {"none", "passed"}

\* A dependency is still open, or was skipped after the round had passed n by.
Stalled(n) == MayWait(n) \/ Overtaken(n)

\* Why a node has, or has not yet, the result it has.  A node that was released
\* is only lost to a cancellation; a round that releases nothing has seen a
\* dependency missing for each node without a result.
OutInv ==
  /\ \A n \in Nodes : results[n] \in {"passed", "failed"} => n \in started
  /\ \A n \in started : \/ results[n] \in {"passed", "failed"}
                        \/ wave[n] # "none" \/ InFlight(n)
  /\ \A w \in Workers : work[w].phase = "running" => wave[work[w].node] = "none"
  /\ \A n \in Nodes : results[n] = "skipped" => Hopeless(n) \/ (pc = "done" /\ cancelled)
  /\ \A n \in Nodes : results[n] = "cycle" =>
       pc = "done" /\ ((\E d \in deps(n) : results[d] = "cycle") \/ Overtaken(n))
  /\ ~cancelled => \A n \in released :
                     Resolved(n) \/ Queued(n) \/ InFlight(n) \/ wave[n] # "none"
  /\ pc = "collect" => cursor >= 1
  /\ pc = "collect" /\ queue = <<>> /\ ~cancelled =>
       \A i \in DOMAIN Order : i < cursor /\ ~Resolved(Order[i]) => Stalled(Order[i])
  /\ pc = "sweep" /\ ~cancelled => \A n \in Nodes : ~Resolved(n) => Stalled(n)
  /\ pc = "done" => \A n \in Nodes : Resolved(n)

-----------------------------------------------------------------------------
(* Facts about the state                                                   *)

\* The input order numbers nodes.
LEMMA OrderDomain ==
  /\ DOMAIN Order = 1..Len(Order) /\ Len(Order) \in Nat
  /\ \A i \in DOMAIN Order : i \in Nat /\ i >= 1 /\ Order[i] \in Nodes
BY OrderAssumption

\* A worker that is not idle holds a node.
LEMMA BusyWorkerHoldsNode ==
  ASSUME TypeOK, NEW w \in Workers
  PROVE  /\ work[w] \in Work
         /\ work[w].phase # "idle" => work[w].node \in Nodes
         /\ work[w].phase \in {"idle", "popped", "running"}
         /\ work[w].phase = "idle" => work[w] = Idle
BY DEF TypeOK, Work, Idle

\* The cursor of collectReady points at a node.
LEMMA CursorAtNode ==
  ASSUME cursor \in DOMAIN Order
  PROVE  Order[cursor] \in Nodes
BY OrderAssumption

-----------------------------------------------------------------------------
(* Type correctness                                                        *)

LEMMA InitTypeOK == Init => TypeOK
<1> SUFFICES ASSUME Init PROVE TypeOK
  OBVIOUS
<1>1. Idle \in Work
  BY DEF Work
<1>2. queue \in Seq(Nodes)
  BY DEF Init
<1>3. work \in [Workers -> Work]
  BY <1>1 DEF Init
<1> QED
  BY <1>2, <1>3 DEF Init, TypeOK

LEMMA NextTypeOK == TypeOK /\ [Next]_vars => TypeOK'
<1> SUFFICES ASSUME TypeOK, [Next]_vars PROVE TypeOK'
  OBVIOUS
<1> USE DEF TypeOK
<1>1. CASE BeginRound
  BY <1>1 DEF BeginRound
<1>2. CASE Visit
  <2> DEFINE n == Order[cursor]
  <2>1. n \in Nodes
    BY <1>2, CursorAtNode DEF Visit
  <2>2. CASE Pass(n)
    BY <1>2, <2>2 DEF Visit, Pass
  <2>3. CASE Block(n)
    BY <1>2, <2>1, <2>3 DEF Visit, Block, Terminal
  <2>4. CASE Release(n)
    BY <1>2, <2>1, <2>4 DEF Visit, Release
  <2> QED
    BY <1>2, <2>2, <2>3, <2>4 DEF Visit
<1>3. CASE EndRound
  BY <1>3 DEF EndRound
<1>4. CASE EndWave
  BY <1>4 DEF EndWave, Terminal
<1>5. CASE Sweep
  BY <1>5 DEF Sweep, Terminal, Resolved
<1>6. ASSUME NEW w \in Workers, Pop(w) PROVE TypeOK'
  <2>1. Head(queue) \in Nodes /\ Tail(queue) \in Seq(Nodes)
    BY <1>6 DEF Pop
  <2> QED
    BY <1>6, <2>1 DEF Pop, Work
<1>7. ASSUME NEW w \in Workers, DropCancelled(w) PROVE TypeOK'
  BY <1>7 DEF DropCancelled, Work
<1>8. ASSUME NEW w \in Workers, Begin(w) PROVE TypeOK'
  <2>1. work[w].node \in Nodes /\ work[w] \in Work
    BY <1>8, BusyWorkerHoldsNode DEF Begin
  <2>2. [work[w] EXCEPT !.phase = "running"] \in Work
    BY <2>1 DEF Work, Idle
  <2>3. work' = [work EXCEPT ![w] = [work[w] EXCEPT !.phase = "running"]]
    BY <1>8 DEF Begin
  <2> QED
    BY <1>8, <2>1, <2>2, <2>3 DEF Begin
<1>9. ASSUME NEW w \in Workers, Finish(w) PROVE TypeOK'
  <2>1. work[w].node \in Nodes
    BY <1>9, BusyWorkerHoldsNode DEF Finish
  <2> QED
    BY <1>9, <2>1 DEF Finish, Work
<1>10. CASE Cancel
  BY <1>10 DEF Cancel
<1>11. CASE UNCHANGED vars
  BY <1>11 DEF vars
<1> QED
  BY <1>1, <1>2, <1>3, <1>4, <1>5, <1>6, <1>7, <1>8, <1>9, <1>10, <1>11
  DEF Next, Loop, Worker

\* Every reachable state has its type, for every value of the constants.
THEOREM TypeCorrect == Spec => []TypeOK
<1>1. Init => TypeOK
  BY InitTypeOK
<1>2. TypeOK /\ [Next]_vars => TypeOK'
  BY NextTypeOK
<1> QED
  BY <1>1, <1>2, PTL DEF Spec

-----------------------------------------------------------------------------
(* The queue of a wave                                                     *)

Distinct == \A i, j \in 1..Len(queue) : queue[i] = queue[j] => i = j

\* What a release does to the queue.
LEMMA QueueAfterAppend ==
  ASSUME queue \in Seq(Nodes), NEW n \in Nodes, queue' = Append(queue, n)
  PROVE  /\ \A m \in Nodes : Queued(m)' <=> Queued(m) \/ m = n
         /\ Distinct /\ ~Queued(n) => Distinct'
<1> DEFINE k == Len(queue)
<1>1. /\ k \in Nat /\ Len(queue') = k + 1 /\ queue'[k + 1] = n
      /\ \A i \in 1..k : queue'[i] = queue[i]
  OBVIOUS
<1>2. \A i \in 1..(k + 1) : i \in 1..k \/ i = k + 1
  BY <1>1
<1>3. 1..k \subseteq 1..(k + 1) /\ k + 1 \in 1..(k + 1)
  BY <1>1
<1> HIDE DEF k
<1>4. \A m \in Nodes : Queued(m)' <=> Queued(m) \/ m = n
  BY <1>1, <1>2, <1>3 DEF Queued, k
<1>5. Distinct /\ ~Queued(n) => Distinct'
  BY <1>1, <1>2, <1>3 DEF Queued, Distinct, k
<1> QED
  BY <1>4, <1>5

\* What a pop does to the queue.
LEMMA QueueAfterPop ==
  ASSUME queue \in Seq(Nodes), queue # <<>>, queue' = Tail(queue)
  PROVE  /\ Head(queue) \in Nodes
         /\ Queued(Head(queue))
         /\ \A m \in Nodes : Queued(m)' => Queued(m)
         /\ Distinct => Distinct'
         /\ Distinct => \A m \in Nodes : m = Head(queue) => ~Queued(m)'
<1>1. /\ Len(queue) \in Nat /\ Len(queue) >= 1
      /\ Head(queue) = queue[1]
      /\ Len(queue') = Len(queue) - 1
      /\ \A i \in 1..Len(queue') : queue'[i] = queue[i + 1]
      /\ \A i \in 1..Len(queue) : queue[i] \in Nodes
  OBVIOUS
<1>2. \A i \in 1..Len(queue') : i \in Nat /\ i + 1 \in 1..Len(queue) /\ i + 1 # 1
  BY <1>1
<1>3. 1 \in 1..Len(queue)
  BY <1>1
<1>4. Head(queue) \in Nodes /\ Queued(Head(queue))
  BY <1>1, <1>3 DEF Queued
<1>5. \A m \in Nodes : Queued(m)' => Queued(m)
  BY <1>1, <1>2 DEF Queued
<1>6. Distinct => Distinct'
  <2> SUFFICES ASSUME Distinct,
                      NEW i \in 1..Len(queue'), NEW j \in 1..Len(queue'),
                      queue'[i] = queue'[j]
               PROVE  i = j
    BY DEF Distinct
  <2>1. i + 1 = j + 1
    BY <1>1, <1>2 DEF Distinct
  <2> QED
    BY <1>2, <2>1
<1>7. Distinct => \A m \in Nodes : m = Head(queue) => ~Queued(m)'
  <2> SUFFICES ASSUME Distinct, NEW i \in 1..Len(queue'),
                      queue'[i] = Head(queue)
               PROVE  FALSE
    BY DEF Queued
  <2>1. queue[i + 1] = queue[1]
    BY <1>1
  <2> QED
    BY <1>2, <1>3, <2>1 DEF Distinct
<1> QED
  BY <1>4, <1>5, <1>6, <1>7

\* A pop takes only the head away.
LEMMA QueueKeepsTail ==
  ASSUME queue \in Seq(Nodes), queue # <<>>, queue' = Tail(queue)
  PROVE  \A m \in Nodes : Queued(m) => Queued(m)' \/ m = Head(queue)
<1> SUFFICES ASSUME NEW i \in 1..Len(queue), queue[i] # Head(queue)
             PROVE  \E j \in 1..Len(queue') : queue'[j] = queue[i]
  BY DEF Queued
<1>1. /\ i \in Nat /\ i # 1 /\ i >= 1 /\ i <= Len(queue) /\ Len(queue) \in Nat
      /\ Len(queue') = Len(queue) - 1
      /\ \A j \in 1..Len(queue') : queue'[j] = queue[j + 1]
  OBVIOUS
<1>2. i - 1 \in 1..Len(queue') /\ (i - 1) + 1 = i
  BY <1>1
<1> QED
  BY <1>1, <1>2

-----------------------------------------------------------------------------
(* The inductive invariant                                                 *)

\* Passed dependencies stay passed while passed verdicts do.
LEMMA AllPassedStays ==
  ASSUME TypeOK, UNCHANGED dependsOn,
         \A n \in Nodes : results[n] = "passed" => results'[n] = "passed"
  PROVE  \A n \in Nodes : AllPassed(n) => AllPassed(n)'
BY DEF AllPassed, deps

\* A step that touches neither the pool, the wave's map, the verdicts nor the
\* released set keeps the invariant if it leaves no pool behind.
LEMMA QuietStep ==
  ASSUME DagInv, TypeOK', 
         UNCHANGED <<dependsOn, released, results, queue, work, wave, started>>,
         pc = "wave" => pc' = "wave",
         pc = "collect" => pc' \in {"collect", "wave"} \/ queue = <<>>
  PROVE  DagInv'
<1>1. PoolInv'
  BY DEF DagInv, PoolInv, TypeOK, Queued, InFlight, Resolved
<1>2. RunsAfterDeps'
  BY DEF DagInv, RunsAfterDeps, Queued, InFlight, AllPassed, deps
<1>3. RunsOnce'
  BY DEF DagInv, RunsOnce, Queued, InFlight
<1> QED
  BY <1>1, <1>2, <1>3 DEF DagInv

LEMMA InitDagInv == Init => DagInv
<1> SUFFICES ASSUME Init PROVE DagInv
  OBVIOUS
<1>1. TypeOK
  BY InitTypeOK
<1>2. \A n \in Nodes : ~Queued(n) /\ ~InFlight(n)
  <2>1. queue = <<>> /\ \A w \in Workers : work[w].phase = "idle"
    BY DEF Init, Idle
  <2> QED
    BY <2>1 DEF Queued, InFlight
<1>3. PoolInv
  BY <1>2 DEF Init, PoolInv, Idle
<1>4. RunsAfterDeps
  BY <1>2 DEF Init, RunsAfterDeps
<1>5. RunsOnce
  BY <1>2 DEF Init, RunsOnce, Idle
<1> QED
  BY <1>1, <1>3, <1>4, <1>5 DEF DagInv

\* collectReady: a node that blocks is nowhere in the pool, and nothing
\* released before counted on it; a released node is new to the pool.
LEMMA VisitDagInv == DagInv /\ Visit => DagInv'
<1> SUFFICES ASSUME DagInv, Visit PROVE DagInv'
  OBVIOUS
<1> DEFINE n == Order[cursor]
<1>1. n \in Nodes /\ TypeOK /\ pc = "collect" /\ pc' = "collect"
  BY CursorAtNode DEF Visit, DagInv
<1>2. TypeOK'
  BY NextTypeOK DEF DagInv, Next, Loop
<1>3. \A m \in Nodes : ~InFlight(m) /\ ~InFlight(m)' /\ wave'[m] = "none"
                       /\ wave[m] = "none"
  BY <1>1 DEF Visit, DagInv, PoolInv, InFlight
<1>4. \A w \in Workers : work[w].phase = "idle" /\ work' = work /\ started' = started
  BY <1>1, <1>3, BusyWorkerHoldsNode DEF Visit, InFlight
<1>5. CASE Pass(n)
  BY <1>1, <1>2, <1>5, QuietStep DEF Visit, Pass
<1>6. CASE Block(n)
  <2>1. /\ results' = [results EXCEPT ![n] = "skipped"]
        /\ results[n] = "none"
        /\ n \notin released
        /\ UNCHANGED <<dependsOn, released, queue, started>>
    BY <1>6 DEF Block, Visit, Resolved
  <2>2. \A m \in Nodes : AllPassed(m) => AllPassed(m)'
    BY <1>1, <2>1, AllPassedStays DEF TypeOK
  <2>3. \A m \in Nodes : Queued(m)' <=> Queued(m)
    BY <2>1 DEF Queued
  <2>4. \A m \in Nodes : m \in released => (Resolved(m)' <=> Resolved(m))
    BY <1>1, <2>1 DEF Resolved, TypeOK
  <2>5. PoolInv'
    BY <1>1, <1>3, <1>4, <2>1, <2>3, <2>4 DEF DagInv, PoolInv
  <2>6. RunsAfterDeps'
    BY <1>3, <2>1, <2>2, <2>3 DEF DagInv, RunsAfterDeps
  <2>7. RunsOnce'
    BY <1>3, <1>4, <2>1, <2>3 DEF DagInv, RunsOnce
  <2> QED
    BY <1>2, <2>5, <2>6, <2>7 DEF DagInv
<1>7. CASE Release(n)
  <2>1. /\ released' = released \cup {n}
        /\ queue' = Append(queue, n)
        /\ n \notin released /\ ~Resolved(n) /\ AllPassed(n)
        /\ UNCHANGED <<dependsOn, results, started>>
    BY <1>7 DEF Release, Visit
  <2>2. \A m \in Nodes : /\ AllPassed(m)' <=> AllPassed(m)
                         /\ Resolved(m)' <=> Resolved(m)
    BY <2>1 DEF AllPassed, deps, Resolved
  <2>3. ~Queued(n) /\ n \notin started
    BY <1>1, <2>1 DEF DagInv, PoolInv
  <2>4. /\ \A m \in Nodes : Queued(m)' <=> Queued(m) \/ m = n
        /\ Distinct'
    BY <1>1, <2>1, <2>3, QueueAfterAppend DEF TypeOK, DagInv, RunsOnce, Distinct
  <2>5. PoolInv'
    BY <1>1, <1>3, <1>4, <2>1, <2>2, <2>4 DEF DagInv, PoolInv
  <2>6. RunsAfterDeps'
    BY <1>3, <2>1, <2>2, <2>4 DEF DagInv, RunsAfterDeps
  <2>7. RunsOnce'
    BY <1>3, <1>4, <2>1, <2>3, <2>4 DEF DagInv, RunsOnce, Distinct
  <2> QED
    BY <1>2, <2>5, <2>6, <2>7 DEF DagInv
<1> QED
  BY <1>5, <1>6, <1>7 DEF Visit

\* The fold only writes verdicts of nodes that had none.
LEMMA EndWaveDagInv == DagInv /\ EndWave => DagInv'
<1> SUFFICES ASSUME DagInv, EndWave PROVE DagInv'
  OBVIOUS
<1>1. TypeOK /\ TypeOK'
  BY NextTypeOK DEF DagInv, Next, Loop
<1>2. \A m \in Nodes : /\ ~InFlight(m) /\ ~InFlight(m)'
                       /\ ~Queued(m) /\ ~Queued(m)'
                       /\ wave'[m] = "none"
  BY DEF EndWave, InFlight, Queued, Idle
<1>3. \A m \in Nodes : results[m] = "passed" => results'[m] = "passed"
  BY <1>1 DEF EndWave, DagInv, PoolInv, Resolved
<1>4. \A m \in Nodes : AllPassed(m) => AllPassed(m)'
  BY <1>1, <1>3, AllPassedStays DEF EndWave
<1>5. PoolInv'
  BY <1>2 DEF EndWave, DagInv, PoolInv, Idle
<1>6. RunsAfterDeps'
  BY <1>2, <1>4 DEF EndWave, DagInv, RunsAfterDeps
<1>7. RunsOnce'
  BY <1>2 DEF EndWave, DagInv, RunsOnce, Idle
<1> QED
  BY <1>1, <1>5, <1>6, <1>7 DEF DagInv

\* The last sweep only writes verdicts of nodes that had none.
LEMMA SweepDagInv == DagInv /\ Sweep => DagInv'
<1> SUFFICES ASSUME DagInv, Sweep PROVE DagInv'
  OBVIOUS
<1>1. TypeOK /\ TypeOK'
  BY NextTypeOK DEF DagInv, Next, Loop
<1>2. \A m \in Nodes : /\ ~InFlight(m) /\ ~InFlight(m)'
                       /\ ~Queued(m) /\ ~Queued(m)'
                       /\ wave'[m] = "none"
  BY DEF Sweep, DagInv, PoolInv, InFlight, Queued
<1>3. \A m \in Nodes : results[m] = "passed" => results'[m] = "passed"
  BY <1>1 DEF Sweep, Resolved
<1>4. \A m \in Nodes : AllPassed(m) => AllPassed(m)'
  BY <1>1, <1>3, AllPassedStays DEF Sweep
<1>5. PoolInv'
  BY <1>2 DEF Sweep, DagInv, PoolInv
<1>6. RunsAfterDeps'
  BY <1>2, <1>4 DEF Sweep, DagInv, RunsAfterDeps
<1>7. RunsOnce'
  BY <1>2 DEF Sweep, DagInv, RunsOnce
<1> QED
  BY <1>1, <1>5, <1>6, <1>7 DEF DagInv

\* What a pop and a start do to the pool.
LEMMA WorkAfterPop ==
  ASSUME TypeOK, NEW w \in Workers, Pop(w)
  PROVE  /\ Head(queue) \in Nodes
         /\ \A v \in Workers :
              work'[v] = IF v = w THEN [phase |-> "popped", node |-> Head(queue)]
                         ELSE work[v]
         /\ \A m \in Nodes : InFlight(m)' <=> InFlight(m) \/ m = Head(queue)
<1>1. Head(queue) \in Nodes
  BY QueueAfterPop DEF Pop, TypeOK
<1>2. \A v \in Workers :
        work'[v] = IF v = w THEN [phase |-> "popped", node |-> Head(queue)] ELSE work[v]
  BY DEF Pop, TypeOK
<1>3. work[w].phase = "idle"
  BY DEF Pop, Idle
<1> QED
  BY <1>1, <1>2, <1>3 DEF InFlight

LEMMA WorkAfterBegin ==
  ASSUME TypeOK, NEW w \in Workers, Begin(w)
  PROVE  /\ work[w].node \in Nodes
         /\ \A v \in Workers : /\ work'[v].node = work[v].node
                               /\ work'[v].phase = IF v = w THEN "running"
                                                   ELSE work[v].phase
         /\ \A m \in Nodes : InFlight(m)' <=> InFlight(m)
<1>1. work' = [work EXCEPT ![w] = [work[w] EXCEPT !.phase = "running"]]
  BY DEF Begin
<1>2. work[w].phase = "popped" /\ work[w] \in [phase : {"popped", "running"}, node : Nodes]
  BY BusyWorkerHoldsNode DEF Begin, Work, Idle
<1>3. \A v \in Workers : /\ work'[v].node = work[v].node
                         /\ work'[v].phase = IF v = w THEN "running"
                                             ELSE work[v].phase
  BY <1>1, <1>2 DEF TypeOK
<1> QED
  BY <1>2, <1>3 DEF InFlight

\* Pop moves the head of the queue to a worker.
LEMMA PopDagInv == ASSUME NEW w \in Workers PROVE DagInv /\ Pop(w) => DagInv'
<1> SUFFICES ASSUME DagInv, Pop(w) PROVE DagInv'
  OBVIOUS
<1>1. TypeOK /\ TypeOK'
  BY NextTypeOK DEF DagInv, Next, Worker
<1>2. PICK h \in Nodes : h = Head(queue)
  BY <1>1, QueueAfterPop DEF Pop, TypeOK
<1>3. /\ Queued(h) /\ ~Queued(h)' /\ Distinct'
      /\ \A m \in Nodes : Queued(m)' => Queued(m)
  BY <1>1, <1>2, QueueAfterPop DEF Pop, TypeOK, DagInv, RunsOnce, Distinct
<1>4. work' = [work EXCEPT ![w] = [phase |-> "popped", node |-> h]]
  BY <1>2 DEF Pop
<1>5. \A v \in Workers : work'[v] = IF v = w THEN [phase |-> "popped", node |-> h]
                                    ELSE work[v]
  BY <1>1, <1>2, WorkAfterPop
<1>6. \A m \in Nodes : InFlight(m)' <=> InFlight(m) \/ m = h
  BY <1>1, <1>2, WorkAfterPop
<1>7. UNCHANGED <<dependsOn, released, results, wave, started>> /\ pc = "wave"
      /\ pc' = "wave"
  BY DEF Pop
<1>8. \A m \in Nodes : /\ AllPassed(m)' <=> AllPassed(m)
                       /\ Resolved(m)' <=> Resolved(m)
  BY <1>7 DEF AllPassed, deps, Resolved
<1>9. PoolInv'
  BY <1>3, <1>5, <1>6, <1>7, <1>8 DEF DagInv, PoolInv
<1>10. RunsAfterDeps'
  BY <1>3, <1>6, <1>7, <1>8 DEF DagInv, RunsAfterDeps
<1>11. RunsOnce'
  <2>1. \A n \in Nodes : Queued(n)' => n \notin started' /\ ~InFlight(n)'
    BY <1>3, <1>6, <1>7 DEF DagInv, RunsOnce
  <2>2. \A v \in Workers : work'[v].phase = "popped" => work'[v].node \notin started'
    BY <1>3, <1>5, <1>7 DEF DagInv, RunsOnce
  <2>3. ~InFlight(h)
    BY <1>3 DEF DagInv, RunsOnce
  <2>4. \A u, v \in Workers :
          work'[u].phase # "idle" /\ work'[u].node = work'[v].node => u = v
    <3> SUFFICES ASSUME NEW u \in Workers, NEW v \in Workers,
                        work'[u].phase # "idle", work'[u].node = work'[v].node
                 PROVE  u = v
      OBVIOUS
    <3>1. CASE u # w /\ v # w
      BY <1>5, <3>1 DEF DagInv, RunsOnce
    <3>2. CASE u # w /\ v = w
      BY <1>5, <2>3, <3>2 DEF InFlight
    <3>3. CASE u = w /\ v # w
      <4>1. work[v].node = h
        BY <1>5, <3>3
      <4>2. work[v].phase # "idle"
        BY <1>1, <4>1, BusyWorkerHoldsNode, NoNodeAssumption DEF Idle
      <4> QED
        BY <2>3, <4>1, <4>2 DEF InFlight
    <3> QED
      BY <3>1, <3>2, <3>3
  <2> QED
    BY <1>3, <2>1, <2>2, <2>4 DEF RunsOnce, Distinct
<1> QED
  BY <1>1, <1>9, <1>10, <1>11 DEF DagInv

\* A worker lets go of its node: nothing else of the pool moves.
LEMMA WorkerReleases ==
  ASSUME TypeOK, NEW w \in Workers, work' = [work EXCEPT ![w] = Idle],
         UNCHANGED queue
  PROVE  /\ \A v \in Workers : work'[v] = IF v = w THEN Idle ELSE work[v]
         /\ \A m \in Nodes : InFlight(m)' => InFlight(m)
         /\ \A m \in Nodes : Queued(m)' <=> Queued(m)
         /\ RunsOnce /\ started' = started => RunsOnce'
<1>1. \A v \in Workers : work'[v] = IF v = w THEN Idle ELSE work[v]
  BY DEF TypeOK
<1>2. \A m \in Nodes : InFlight(m)' => InFlight(m)
  BY <1>1 DEF InFlight, Idle
<1>3. \A m \in Nodes : Queued(m)' <=> Queued(m)
  BY DEF Queued
<1>4. ASSUME RunsOnce, started' = started PROVE RunsOnce'
  <2>1. \A u, v \in Workers :
          work'[u].phase # "idle" /\ work'[u].node = work'[v].node => u = v
    <3> SUFFICES ASSUME NEW u \in Workers, NEW v \in Workers,
                        work'[u].phase # "idle", work'[u].node = work'[v].node
                 PROVE  u = v
      OBVIOUS
    <3>1. u # w /\ work'[u] = work[u] /\ work[u].node \in Nodes
      BY <1>1, BusyWorkerHoldsNode DEF Idle
    <3>2. v # w
      BY <1>1, <3>1, NoNodeAssumption DEF Idle
    <3> QED
      BY <1>1, <1>4, <3>1, <3>2 DEF RunsOnce
  <2>2. \A v \in Workers : work'[v].phase = "popped" => work'[v].node \notin started'
    BY <1>1, <1>4 DEF RunsOnce, Idle
  <2> QED
    BY <1>2, <1>3, <1>4, <2>1, <2>2 DEF RunsOnce
<1> QED
  BY <1>1, <1>2, <1>3, <1>4

LEMMA DropDagInv ==
  ASSUME NEW w \in Workers PROVE DagInv /\ DropCancelled(w) => DagInv'
<1> SUFFICES ASSUME DagInv, DropCancelled(w) PROVE DagInv'
  OBVIOUS
<1>1. TypeOK /\ TypeOK'
  BY NextTypeOK DEF DagInv, Next, Worker
<1>2. UNCHANGED <<dependsOn, pc, released, results, queue, wave, started>>
  BY DEF DropCancelled
<1>3. /\ \A v \in Workers : work'[v] = IF v = w THEN Idle ELSE work[v]
      /\ \A m \in Nodes : InFlight(m)' => InFlight(m)
      /\ \A m \in Nodes : Queued(m)' <=> Queued(m)
      /\ RunsOnce'
  BY <1>1, <1>2, WorkerReleases DEF DropCancelled, DagInv
<1>4. \A m \in Nodes : /\ AllPassed(m)' <=> AllPassed(m)
                       /\ Resolved(m)' <=> Resolved(m)
  BY <1>2 DEF AllPassed, deps, Resolved
<1>5. PoolInv'
  BY <1>2, <1>3, <1>4 DEF DagInv, PoolInv, Idle
<1>6. RunsAfterDeps'
  BY <1>2, <1>3, <1>4 DEF DagInv, RunsAfterDeps
<1> QED
  BY <1>1, <1>3, <1>5, <1>6 DEF DagInv

\* Begin: the popped node is in no other place of the pool.
LEMMA BeginDagInv == ASSUME NEW w \in Workers PROVE DagInv /\ Begin(w) => DagInv'
<1> SUFFICES ASSUME DagInv, Begin(w) PROVE DagInv'
  OBVIOUS
<1>1. TypeOK /\ TypeOK'
  BY NextTypeOK DEF DagInv, Next, Worker
<1>2. PICK h \in Nodes : h = work[w].node
  BY <1>1, BusyWorkerHoldsNode DEF Begin
<1>3. /\ work[w].phase = "popped"
      /\ UNCHANGED <<dependsOn, pc, released, results, queue, wave>>
      /\ started' = started \cup {h}
  BY <1>2 DEF Begin
<1>4. \A v \in Workers : /\ work'[v].node = work[v].node
                         /\ work'[v].phase = IF v = w THEN "running"
                                             ELSE work[v].phase
  BY <1>1, WorkAfterBegin
<1>5. \A m \in Nodes : /\ InFlight(m)' <=> InFlight(m)
                       /\ Queued(m)' <=> Queued(m)
                       /\ AllPassed(m)' <=> AllPassed(m)
                       /\ Resolved(m)' <=> Resolved(m)
  BY <1>3, <1>4 DEF InFlight, Queued, AllPassed, deps, Resolved
<1>6. InFlight(h)
  BY <1>2, <1>3 DEF InFlight
<1>7. PoolInv'
  BY <1>2, <1>3, <1>4, <1>5, <1>6 DEF DagInv, PoolInv
<1>8. RunsAfterDeps'
  BY <1>3, <1>5, <1>6 DEF DagInv, RunsAfterDeps
<1>9. RunsOnce'
  <2>1. \A n \in Nodes : Queued(n)' => n \notin started' /\ ~InFlight(n)'
    BY <1>3, <1>5, <1>6 DEF DagInv, RunsOnce
  <2>2. \A v \in Workers : work'[v].phase = "popped" => work'[v].node \notin started'
    BY <1>2, <1>3, <1>4 DEF DagInv, RunsOnce
  <2>3. \A u, v \in Workers :
          work'[u].phase # "idle" /\ work'[u].node = work'[v].node => u = v
    BY <1>3, <1>4 DEF DagInv, RunsOnce
  <2> QED
    BY <1>3, <2>1, <2>2, <2>3 DEF DagInv, RunsOnce
<1> QED
  BY <1>1, <1>7, <1>8, <1>9 DEF DagInv

\* Finish records the verdict of a node that ran and has none.
LEMMA FinishDagInv == ASSUME NEW w \in Workers PROVE DagInv /\ Finish(w) => DagInv'
<1> SUFFICES ASSUME DagInv, Finish(w) PROVE DagInv'
  OBVIOUS
<1>1. TypeOK /\ TypeOK'
  BY NextTypeOK DEF DagInv, Next, Worker
<1>2. PICK h \in Nodes : h = work[w].node
  BY <1>1, BusyWorkerHoldsNode DEF Finish
<1>3. UNCHANGED <<dependsOn, pc, released, results, queue, started>>
  BY DEF Finish
<1>4. /\ \A v \in Workers : work'[v] = IF v = w THEN Idle ELSE work[v]
      /\ \A m \in Nodes : InFlight(m)' => InFlight(m)
      /\ \A m \in Nodes : Queued(m)' <=> Queued(m)
      /\ RunsOnce'
  BY <1>1, <1>3, WorkerReleases DEF Finish, DagInv
<1>5. \A m \in Nodes : /\ AllPassed(m)' <=> AllPassed(m)
                       /\ Resolved(m)' <=> Resolved(m)
  BY <1>3 DEF AllPassed, deps, Resolved
<1>6. InFlight(h) /\ h \in started /\ pc = "wave"
  BY <1>2 DEF Finish, InFlight, DagInv, PoolInv
<1>7. \A m \in Nodes : m # h => wave'[m] = wave[m]
  BY <1>1, <1>2 DEF Finish, TypeOK
<1>8. PoolInv'
  BY <1>3, <1>4, <1>5, <1>6, <1>7 DEF DagInv, PoolInv, Idle
<1>9. RunsAfterDeps'
  BY <1>3, <1>4, <1>5 DEF DagInv, RunsAfterDeps
<1> QED
  BY <1>1, <1>4, <1>8, <1>9 DEF DagInv

LEMMA NextDagInv == DagInv /\ [Next]_vars => DagInv'
<1> SUFFICES ASSUME DagInv, [Next]_vars PROVE DagInv'
  OBVIOUS
<1>1. TypeOK'
  BY NextTypeOK DEF DagInv
<1>2. CASE BeginRound
  BY <1>1, <1>2, QuietStep DEF BeginRound, DagInv, PoolInv
<1>3. CASE EndRound
  BY <1>1, <1>3, QuietStep DEF EndRound
<1>4. CASE Cancel
  BY <1>1, <1>4, QuietStep DEF Cancel
<1>5. CASE UNCHANGED vars
  BY <1>1, <1>5, QuietStep DEF vars
<1> QED
  BY <1>2, <1>3, <1>4, <1>5, VisitDagInv, EndWaveDagInv, SweepDagInv,
     PopDagInv, DropDagInv, BeginDagInv, FinishDagInv
  DEF Next, Loop, Worker

LEMMA DagInvariant == Spec => []DagInv
<1>1. Init => DagInv
  BY InitDagInv
<1>2. DagInv /\ [Next]_vars => DagInv'
  BY NextDagInv
<1> QED
  BY <1>1, <1>2, PTL DEF Spec

-----------------------------------------------------------------------------
(* Every result is explained                                               *)

LEMMA InitOutInv == Init => OutInv
BY DEF Init, OutInv, Resolved, Idle

\* A dependency that did not pass keeps its result, and so keeps a node out.
LEMMA HopelessStays ==
  ASSUME TypeOK, UNCHANGED dependsOn,
         \A n \in Nodes : Resolved(n) => results'[n] = results[n]
  PROVE  /\ \A n \in Nodes : Hopeless(n) => Hopeless(n)'
         /\ \A n \in Nodes : Hopeless(n) => ~AllPassed(n)
BY DEF Hopeless, Resolved, AllPassed, deps

\* A stalled node has a dependency that has not passed.
LEMMA StalledCannotRun == \A n \in Nodes : Stalled(n) => ~AllPassed(n)
BY DEF Stalled, MayWait, Overtaken, Resolved, AllPassed

\* A step that leaves the pool, the results and the graph alone explains
\* nothing anew.
LEMMA OutQuietStep ==
  ASSUME DagInv, OutInv, cancelled => cancelled',
         UNCHANGED <<dependsOn, pc, cursor, released, results, queue, work, wave,
                     started>>
  PROVE  OutInv'
<1>1. \A n \in Nodes : /\ InFlight(n)' <=> InFlight(n)
                       /\ Queued(n)' <=> Queued(n)
                       /\ Resolved(n)' <=> Resolved(n)
                       /\ AllPassed(n)' <=> AllPassed(n)
                       /\ Hopeless(n)' <=> Hopeless(n)
                       /\ Stalled(n)' <=> Stalled(n)
                       /\ Overtaken(n)' <=> Overtaken(n)
  BY DEF InFlight, Queued, Resolved, AllPassed, Hopeless, Stalled, MayWait, Overtaken, deps
<1>2. \A n \in Nodes : deps(n)' = deps(n)
  BY DEF deps
<1> QED
  BY <1>1, <1>2, OrderDomain DEF OutInv, DagInv, TypeOK

LEMMA VisitOutInv == DagInv /\ OutInv /\ Visit => OutInv'
<1> SUFFICES ASSUME DagInv, OutInv, Visit PROVE OutInv'
  OBVIOUS
<1>0. PICK n \in Nodes : n = Order[cursor]
  BY CursorAtNode DEF Visit
<1>1. /\ TypeOK /\ pc = "collect" /\ pc' = "collect"
      /\ cursor \in Nat /\ cursor >= 1 /\ cursor' = cursor + 1
      /\ UNCHANGED <<dependsOn, cancelled, work, wave, started>>
  BY DEF Visit, DagInv, TypeOK, OutInv
<1>2. \A m \in Nodes : ~InFlight(m) /\ ~InFlight(m)' /\ wave[m] = "none"
  BY <1>1 DEF DagInv, PoolInv, InFlight
<1>3. \A i \in DOMAIN Order : i < cursor' => i < cursor \/ i = cursor
  BY <1>1, OrderDomain
<1>4. CASE Pass(n)
  <2>1. UNCHANGED <<released, results, queue>>
    BY <1>4 DEF Pass
  <2>2. \A m \in Nodes : /\ Queued(m)' <=> Queued(m)
                         /\ Resolved(m)' <=> Resolved(m)
                         /\ AllPassed(m)' <=> AllPassed(m)
                         /\ Hopeless(m)' <=> Hopeless(m)
                         /\ Stalled(m)' <=> Stalled(m)
    BY <1>1, <2>1
    DEF Queued, Resolved, AllPassed, Hopeless, Stalled, MayWait, Overtaken, deps
  <2>3. queue = <<>> /\ ~cancelled /\ ~Resolved(n) => Stalled(n)
    <3>1. n \in released /\ queue = <<>> /\ ~cancelled => Resolved(n)
      BY <1>1, <1>2 DEF OutInv, Queued
    <3> QED
      BY <1>4, <3>1 DEF Pass, Stalled
  <2>4. queue' = <<>> /\ ~cancelled' =>
          \A i \in DOMAIN Order : i < cursor' /\ ~Resolved(Order[i])'
                                    => Stalled(Order[i])'
    BY <1>0, <1>1, <1>3, <2>1, <2>2, <2>3, OrderDomain DEF OutInv
  <2> QED
    BY <1>1, <1>2, <2>1, <2>2, <2>4 DEF OutInv, DagInv, TypeOK
<1>5. CASE Block(n)
  <2>1. /\ UNCHANGED <<released, queue>>
        /\ results' = [results EXCEPT ![n] = "skipped"] /\ ~Resolved(n) /\ MayBlock(n)
        /\ n \notin released
    BY <1>5 DEF Block
  <2>2. \A m \in Nodes : Resolved(m) => results'[m] = results[m]
    BY <1>1, <2>1 DEF Resolved, TypeOK
  <2>3. /\ \A m \in Nodes : Hopeless(m) => Hopeless(m)'
        /\ \A m \in Nodes : AllPassed(m)' => AllPassed(m)
        /\ \A m \in Nodes : Resolved(m)' <=> Resolved(m) \/ m = n
    BY <1>1, <2>1, <2>2, HopelessStays DEF AllPassed, Resolved, TypeOK, deps
  <2>4. Hopeless(n)'
    <3>1. Hopeless(n)
      BY <2>1 DEF MayBlock, Hopeless, Resolved
    <3> QED
      BY <1>1, <2>3, <3>1
  <2>5. \A m \in Nodes : Queued(m)' <=> Queued(m)
    BY <2>1 DEF Queued
  <2>6. queue' = <<>> /\ ~cancelled' =>
          \A i \in DOMAIN Order : i < cursor' /\ ~Resolved(Order[i])'
                                    => Stalled(Order[i])'
    <3> SUFFICES ASSUME queue = <<>>, ~cancelled, NEW i \in DOMAIN Order, i < cursor',
                        ~Resolved(Order[i])'
                 PROVE  Stalled(Order[i])'
      BY <2>1, <1>1
    <3>1. Order[i] \in Nodes /\ ~Resolved(Order[i]) /\ Order[i] # n
      BY <2>3, OrderDomain
    <3>2. i < cursor /\ cursor \in DOMAIN Order
      BY <1>0, <1>3, <3>1 DEF Visit
    <3>3. Stalled(Order[i])
      BY <1>1, <3>1, <3>2 DEF OutInv
    <3>4. UNCHANGED deps(Order[i]) /\ deps(Order[i]) \subseteq Nodes
      BY <1>1 DEF deps
    <3>5. CASE Overtaken(Order[i])
      BY <2>2, <3>4, <3>5 DEF Overtaken, Resolved, Stalled
    <3>6. ASSUME NEW d \in deps(Order[i]), ~Resolved(d) PROVE Stalled(Order[i])'
      <4>1. CASE d = n
        <5>1. results'[d] = "skipped"
          BY <1>1, <2>1, <4>1 DEF TypeOK
        <5> QED
          BY <1>0, <3>2, <3>4, <4>1, <5>1 DEF Overtaken, Stalled
      <4>2. CASE d # n
        BY <2>3, <3>4, <3>6, <4>2 DEF MayWait, Stalled
      <4> QED
        BY <4>1, <4>2
    <3> QED
      BY <3>3, <3>5, <3>6 DEF Stalled, MayWait
  <2>7. \A m \in Nodes : m # n => results'[m] = results[m]
    BY <1>1, <2>1 DEF TypeOK
  <2>8. n \notin started /\ results'[n] = "skipped"
    BY <1>1, <2>1 DEF DagInv, PoolInv, TypeOK
  <2>9. started \subseteq Nodes /\ released \subseteq Nodes
    BY <1>1 DEF TypeOK
  <2>10. \A m \in Nodes : results'[m] = "skipped" => Hopeless(m)'
    BY <1>1, <2>3, <2>4, <2>7 DEF OutInv
  <2>11. \A m \in Nodes : results'[m] # "cycle"
    BY <1>1, <2>7, <2>8 DEF OutInv
  <2>12. \A m \in Nodes : results'[m] \in {"passed", "failed"} => m \in started'
    BY <1>1, <2>7, <2>8 DEF OutInv
  <2>13. \A m \in started' : results'[m] \in {"passed", "failed"}
    BY <1>1, <1>2, <2>7, <2>8, <2>9 DEF OutInv
  <2>14. ~cancelled' => \A m \in released' : Resolved(m)' \/ Queued(m)'
    BY <1>1, <1>2, <2>1, <2>3, <2>5, <2>9 DEF OutInv
  <2> QED
    BY <1>1, <2>6, <2>10, <2>11, <2>12, <2>13, <2>14 DEF OutInv
<1>6. CASE Release(n)
  <2>1. /\ released' = released \cup {n} /\ queue' = Append(queue, n)
        /\ UNCHANGED results
    BY <1>6 DEF Release
  <2>2. \A m \in Nodes : /\ Queued(m)' <=> Queued(m) \/ m = n
                         /\ Resolved(m)' <=> Resolved(m)
                         /\ AllPassed(m)' <=> AllPassed(m)
                         /\ Hopeless(m)' <=> Hopeless(m)
    BY <1>1, <2>1, QueueAfterAppend DEF TypeOK, Resolved, AllPassed, Hopeless, deps
  <2>3. queue' # <<>>
    BY <1>1, <2>1 DEF TypeOK
  <2> QED
    BY <1>1, <1>2, <2>1, <2>2, <2>3 DEF OutInv, DagInv, TypeOK
<1> QED
  BY <1>0, <1>4, <1>5, <1>6 DEF Visit

\* The fold moves the wave's verdicts into the results.
LEMMA EndWaveOutInv == DagInv /\ OutInv /\ EndWave => OutInv'
<1> SUFFICES ASSUME DagInv, OutInv, EndWave PROVE OutInv'
  OBVIOUS
<1>1. /\ TypeOK /\ pc' = "round" /\ pc = "wave"
      /\ UNCHANGED <<dependsOn, cancelled, released, queue, work, started>>
      /\ results' = [n \in Nodes |-> IF wave[n] # "none" THEN wave[n] ELSE results[n]]
      /\ wave' = [n \in Nodes |-> "none"]
  BY DEF EndWave, DagInv
<1>2. \A m \in Nodes : ~InFlight(m) /\ ~InFlight(m)' /\ ~Queued(m) /\ ~Queued(m)'
  BY DEF EndWave, InFlight, Queued, Idle
<1>3. \A m \in Nodes : Resolved(m) => results'[m] = results[m]
  BY <1>1 DEF DagInv, PoolInv, Resolved
<1>4. \A m \in Nodes : Hopeless(m) => Hopeless(m)'
  BY <1>1, <1>3, HopelessStays
<1>5. \A m \in Nodes : wave[m] \in {"none", "passed", "failed"}
  BY <1>1 DEF TypeOK
<1>6. \A w \in Workers : work'[w].phase # "running"
  BY DEF EndWave, Idle
<1> QED
  BY <1>1, <1>2, <1>3, <1>4, <1>5, <1>6 DEF OutInv, DagInv, PoolInv, TypeOK, Resolved

\* The sweep names the cause of what never ran.
LEMMA SweepOutInv == DagInv /\ OutInv /\ Sweep => OutInv'
<1> SUFFICES ASSUME DagInv, OutInv, Sweep PROVE OutInv'
  OBVIOUS
<1>1. /\ TypeOK /\ pc' = "done" /\ pc = "sweep"
      /\ UNCHANGED <<dependsOn, cancelled, released, queue, work, wave, started>>
      /\ results' = [n \in Nodes |-> IF Resolved(n) THEN results[n]
                                     ELSE IF cancelled THEN "skipped" ELSE "cycle"]
  BY DEF Sweep, DagInv
<1>2. /\ \A m \in Nodes : Resolved(m) => results'[m] = results[m]
      /\ \A m \in Nodes : Resolved(m)'
  BY <1>1 DEF Resolved
<1>3. \A m \in Nodes : Hopeless(m) => Hopeless(m)'
  BY <1>1, <1>2, HopelessStays
<1>4. \A m \in Nodes : AllPassed(m)' => AllPassed(m)
  BY <1>1 DEF AllPassed, deps, Resolved
<1>5. \A m \in Nodes : InFlight(m)' <=> InFlight(m)
  BY <1>1 DEF InFlight
<1>6. \A m \in Nodes : m \in started => Resolved(m)
  BY <1>1 DEF OutInv, DagInv, PoolInv, Resolved
<1>7. \A w \in Workers : work'[w].phase = "running" => wave'[work'[w].node] = "none"
  BY <1>1 DEF OutInv
<1>8. \A m \in Nodes : /\ results'[m] \in {"passed", "failed"} => m \in started'
                       /\ m \in started' => results'[m] \in {"passed", "failed"}
                                            \/ wave'[m] # "none" \/ InFlight(m)'
  BY <1>1, <1>2, <1>5, <1>6 DEF OutInv
<1>9. \A m \in Nodes : results'[m] = "skipped" => Hopeless(m)' \/ cancelled'
  BY <1>1, <1>2, <1>3 DEF OutInv, Resolved
<1>10. \A m \in Nodes : results'[m] = "cycle" =>
         (\E d \in deps(m)' : results'[d] = "cycle") \/ Overtaken(m)'
  <2> SUFFICES ASSUME NEW m \in Nodes, results'[m] = "cycle"
               PROVE  (\E d \in deps(m) : results'[d] = "cycle") \/ Overtaken(m)'
    BY <1>1 DEF deps
  <2>1. ~Resolved(m) /\ ~cancelled
    BY <1>1, <1>2 DEF OutInv, Resolved
  <2>2. Stalled(m) /\ deps(m) \subseteq Nodes /\ UNCHANGED deps(m)
    BY <1>1, <2>1 DEF OutInv, deps
  <2>3. CASE MayWait(m)
    BY <1>1, <2>1, <2>2, <2>3 DEF MayWait, Resolved
  <2>4. CASE Overtaken(m)
    BY <1>2, <2>2, <2>4 DEF Overtaken, Resolved
  <2> QED
    BY <2>2, <2>3, <2>4 DEF Stalled
<1> QED
  BY <1>1, <1>2, <1>7, <1>8, <1>9, <1>10 DEF OutInv, TypeOK

LEMMA WorkerOutInv ==
  ASSUME NEW w \in Workers PROVE DagInv /\ OutInv /\ Worker(w) => OutInv'
<1> SUFFICES ASSUME DagInv, OutInv, Worker(w) PROVE OutInv'
  OBVIOUS
<1>1. /\ TypeOK /\ pc = "wave" /\ pc' = "wave"
      /\ UNCHANGED <<dependsOn, cancelled, released, results>>
  <2>1. ASSUME work[w].phase # "idle" PROVE pc = "wave"
    BY <2>1, BusyWorkerHoldsNode DEF DagInv, PoolInv, InFlight
  <2> QED
    BY <2>1 DEF Worker, Pop, DropCancelled, Begin, Finish, DagInv
<1>2. \A m \in Nodes : /\ Resolved(m)' <=> Resolved(m)
                       /\ AllPassed(m)' <=> AllPassed(m)
                       /\ Hopeless(m)' <=> Hopeless(m)
  BY <1>1 DEF Resolved, AllPassed, Hopeless, deps
<1>3. started \subseteq Nodes /\ released \subseteq Nodes
  BY <1>1 DEF TypeOK
<1>4. SUFFICES
        /\ \A n \in Nodes : results[n] \in {"passed", "failed"} => n \in started'
        /\ \A n \in started' : \/ results[n] \in {"passed", "failed"}
                               \/ wave'[n] # "none" \/ InFlight(n)'
        /\ \A v \in Workers : work'[v].phase = "running" => wave'[work'[v].node] = "none"
        /\ ~cancelled => \A n \in released :
             Resolved(n) \/ Queued(n)' \/ InFlight(n)' \/ wave'[n] # "none"
  BY <1>1, <1>2, <1>3 DEF OutInv
<1>5. CASE Pop(w)
  <2>1. /\ \A v \in Workers :
             work'[v] = IF v = w THEN [phase |-> "popped", node |-> Head(queue)]
                        ELSE work[v]
        /\ \A m \in Nodes : InFlight(m)' <=> InFlight(m) \/ m = Head(queue)
    BY <1>1, <1>5, WorkAfterPop
  <2>2. \A m \in Nodes : Queued(m) => Queued(m)' \/ m = Head(queue)
    BY <1>1, <1>5, QueueKeepsTail DEF Pop, TypeOK
  <2>3. UNCHANGED <<wave, started>>
    BY <1>5 DEF Pop
  <2> QED
    BY <1>3, <2>1, <2>2, <2>3 DEF OutInv
<1>6. CASE DropCancelled(w)
  <2>1. /\ cancelled /\ UNCHANGED <<wave, started, queue>>
        /\ work' = [work EXCEPT ![w] = Idle] /\ work[w].phase = "popped"
    BY <1>6 DEF DropCancelled
  <2>2. \A v \in Workers : work'[v] = IF v = w THEN Idle ELSE work[v]
    BY <1>1, <2>1, WorkerReleases
  <2>3. \A m \in started : InFlight(m) => InFlight(m)'
    BY <2>1, <2>2 DEF InFlight, DagInv, RunsOnce
  <2> QED
    BY <1>3, <2>1, <2>2, <2>3 DEF OutInv, Idle
<1>7. CASE Begin(w)
  <2>1. /\ \A v \in Workers : /\ work'[v].node = work[v].node
                              /\ work'[v].phase = IF v = w THEN "running"
                                                  ELSE work[v].phase
        /\ \A m \in Nodes : InFlight(m)' <=> InFlight(m)
        /\ work[w].node \in Nodes
    BY <1>1, <1>7, WorkAfterBegin
  <2>2. /\ UNCHANGED <<wave, queue>> /\ started' = started \cup {work[w].node}
        /\ work[w].phase = "popped"
    BY <1>7 DEF Begin
  <2>3. InFlight(work[w].node) /\ wave[work[w].node] = "none"
    BY <2>1, <2>2 DEF InFlight, DagInv, RunsOnce, PoolInv
  <2>4. \A m \in Nodes : Queued(m)' <=> Queued(m)
    BY <2>2 DEF Queued
  <2> QED
    BY <1>3, <2>1, <2>2, <2>3, <2>4 DEF OutInv
<1>8. CASE Finish(w)
  <2>1. /\ UNCHANGED <<started, queue>> /\ work' = [work EXCEPT ![w] = Idle]
        /\ work[w].phase = "running"
        /\ \E r \in {"passed", "failed"} : wave' = [wave EXCEPT ![work[w].node] = r]
    BY <1>8 DEF Finish
  <2>2. \A v \in Workers : work'[v] = IF v = w THEN Idle ELSE work[v]
    BY <1>1, <2>1, WorkerReleases
  <2>3. work[w].node \in Nodes
    BY <1>1, <2>1, BusyWorkerHoldsNode
  <2>4. /\ wave'[work[w].node] # "none"
        /\ \A m \in Nodes : m # work[w].node => wave'[m] = wave[m]
    BY <1>1, <2>1, <2>3 DEF TypeOK
  <2>5. \A m \in Nodes : InFlight(m) => InFlight(m)' \/ m = work[w].node
    BY <2>2 DEF InFlight
  <2>6. \A v \in Workers : v # w /\ work[v].phase = "running" =>
          work[v].node \in Nodes /\ work[v].node # work[w].node
    BY <1>1, BusyWorkerHoldsNode DEF DagInv, RunsOnce
  <2>7. \A m \in Nodes : Queued(m)' <=> Queued(m)
    BY <2>1 DEF Queued
  <2> QED
    BY <1>3, <2>1, <2>2, <2>3, <2>4, <2>5, <2>6, <2>7 DEF OutInv, Idle
<1> QED
  BY <1>5, <1>6, <1>7, <1>8 DEF Worker

\* A round that ends with nothing released has seen every node.
LEMMA RoundOutInv == DagInv /\ OutInv /\ (BeginRound \/ EndRound) => OutInv'
<1> SUFFICES ASSUME DagInv, OutInv, BeginRound \/ EndRound PROVE OutInv'
  OBVIOUS
<1>1. /\ TypeOK
      /\ UNCHANGED <<dependsOn, cancelled, released, results, queue, work, wave, started>>
  BY DEF BeginRound, EndRound, DagInv
<1>2. \A n \in Nodes : /\ InFlight(n)' <=> InFlight(n)
                       /\ Queued(n)' <=> Queued(n)
                       /\ Resolved(n)' <=> Resolved(n)
                       /\ AllPassed(n)' <=> AllPassed(n)
                       /\ Hopeless(n)' <=> Hopeless(n)
                       /\ Stalled(n)' <=> Stalled(n)
  BY <1>1
  DEF InFlight, Queued, Resolved, AllPassed, Hopeless, Stalled, MayWait, Overtaken, deps
<1>3. /\ pc' # "done" /\ pc # "done"
      /\ pc' = "collect" => cursor' = 1
      /\ started \subseteq Nodes /\ released \subseteq Nodes
  BY <1>1 DEF BeginRound, EndRound, TypeOK
<1>4. pc' = "sweep" /\ ~cancelled => \A n \in Nodes : ~Resolved(n) => Stalled(n)
  <2> SUFFICES ASSUME pc' = "sweep", ~cancelled, NEW n \in Nodes, ~Resolved(n)
               PROVE  Stalled(n)
    OBVIOUS
  <2>1. pc = "collect" /\ cursor \notin DOMAIN Order /\ queue = <<>>
    BY DEF BeginRound, EndRound
  <2>2. PICK i \in 1..Len(Order) : Order[i] = n
    BY OrderAssumption
  <2>3. i \in DOMAIN Order /\ i < cursor
    BY <1>1, <2>1, <2>2, OrderDomain DEF OutInv, TypeOK
  <2> QED
    BY <2>1, <2>2, <2>3 DEF OutInv
<1>5. pc' = "collect" => \A i \in DOMAIN Order : ~(i < cursor')
  BY <1>3, OrderDomain
<1> QED
  BY <1>1, <1>2, <1>3, <1>4, <1>5 DEF OutInv

LEMMA NextOutInv == DagInv /\ OutInv /\ [Next]_vars => OutInv'
<1> SUFFICES ASSUME DagInv, OutInv, [Next]_vars PROVE OutInv'
  OBVIOUS
<1>1. CASE Cancel
  BY <1>1, OutQuietStep DEF Cancel
<1>2. CASE UNCHANGED vars
  BY <1>2, OutQuietStep DEF vars
<1> QED
  BY <1>1, <1>2, VisitOutInv, EndWaveOutInv, SweepOutInv, WorkerOutInv, RoundOutInv
  DEF Next, Loop

-----------------------------------------------------------------------------
(* The theorems                                                            *)

\* No node is collected, popped or started before all of its dependencies
\* have passed, in any graph and under any interleaving of workers and
\* cancellation.
THEOREM DependenciesFirst == Spec => []RunsAfterDeps
<1>1. DagInv => RunsAfterDeps
  BY DEF DagInv
<1> QED
  BY <1>1, DagInvariant, PTL

\* RunSub is called at most once for a node.
THEOREM AtMostOnce == Spec => []RunsOnce
<1>1. DagInv => RunsOnce
  BY DEF DagInv
<1> QED
  BY <1>1, DagInvariant, PTL

\* A verdict in the results map is never replaced.
THEOREM VerdictsFinal == Spec => ResultsFinal
<1> DEFINE Keeps == \A n \in Nodes : Resolved(n) => results'[n] = results[n]
<1>1. ASSUME DagInv, [Next]_vars PROVE [Keeps]_results
  <2>1. TypeOK
    BY <1>1 DEF DagInv
  <2>2. CASE Visit
    <3>1. Order[cursor] \in Nodes
      BY <2>2, CursorAtNode DEF Visit
    <3> QED
      BY <2>1, <2>2, <3>1 DEF Visit, Pass, Block, Release, TypeOK
  <2>3. CASE EndWave
    BY <1>1, <2>1, <2>3 DEF EndWave, DagInv, PoolInv
  <2>4. CASE Sweep
    BY <2>4 DEF Sweep
  <2> QED
    BY <1>1, <2>2, <2>3, <2>4
    DEF Next, Loop, Worker, BeginRound, EndRound, Pop, DropCancelled, Begin,
        Finish, Cancel, vars
<1> QED
  BY <1>1, DagInvariant, PTL DEF Spec, ResultsFinal

LEMMA OutInvariant == Spec => [](DagInv /\ OutInv)
<1>1. Init => DagInv /\ OutInv
  BY InitDagInv, InitOutInv
<1>2. DagInv /\ OutInv /\ [Next]_vars => (DagInv /\ OutInv)'
  BY NextDagInv, NextOutInv
<1> QED
  BY <1>1, <1>2, PTL DEF Spec

\* The map Run returns can be read back: passed and failed mean that RunSub
\* ran; cycle that the node is on or behind a dependency cycle, or on or behind
\* a node overtaken by the skip of a dependency listed after it; and without a
\* cancellation no node that could have run is left behind.
THEOREM ResultsExplained == Spec => []OutcomesExplained
<1>1. DagInv /\ OutInv => OutcomesExplained
  <2> SUFFICES ASSUME DagInv, OutInv, pc = "done", NEW n \in Nodes
               PROVE  /\ Resolved(n)
                      /\ n \in started <=> results[n] \in {"passed", "failed"}
                      /\ results[n] = "cycle" => NeverFreed(n)
                      /\ n \notin started /\ ~cancelled => ~AllPassed(n)
    BY DEF OutcomesExplained
  <2>1. Resolved(n) /\ wave[n] = "none" /\ ~InFlight(n)
    BY DEF OutInv, DagInv, PoolInv
  <2>2. n \in started <=> results[n] \in {"passed", "failed"}
    BY <2>1 DEF OutInv
  <2>3. Hopeless(n) => ~AllPassed(n)
    BY DEF Hopeless, AllPassed
  <2>4. results[n] \in Terminal
    BY <2>1 DEF DagInv, TypeOK, Resolved
  <2>5. results[n] = "cycle" => NeverFreed(n)
    <3> DEFINE S == {m \in Nodes : results[m] = "cycle"}
    <3>1. \A m \in S : deps(m) \cap S # {} \/ Overtaken(m)
      BY DEF OutInv, deps
    <3>2. S \in SUBSET Nodes /\ (results[n] = "cycle" => n \in S)
      OBVIOUS
    <3> QED
      BY <3>1, <3>2 DEF NeverFreed
  <2>6. results[n] = "cycle" => ~AllPassed(n)
    BY DEF OutInv, Overtaken, AllPassed
  <2> QED
    BY <2>1, <2>2, <2>3, <2>4, <2>5, <2>6 DEF OutInv, Terminal
<1> QED
  BY <1>1, OutInvariant, PTL

-----------------------------------------------------------------------------
(* Run implements its contract                                             *)

graphOfDeps == [n \in Nodes |-> deps(n)]

\* What the contract sees of a node outside the pool, and of its dependencies.
LEMMA ContractView ==
  ASSUME DagInv, NEW n \in Nodes
  PROVE  /\ outcome[n] = IF wave[n] # "none" THEN wave[n] ELSE results[n]
         /\ graphOfDeps[n] = deps(n) /\ deps(n) \subseteq Nodes
         /\ AllPassed(n) => \A d \in deps(n) : outcome[d] = "passed"
         /\ outcome[n] # "none" <=> wave[n] # "none" \/ Resolved(n)
BY DEF DagInv, TypeOK, PoolInv, outcome, graphOfDeps, deps, AllPassed, Resolved

LEMMA ContractInit == Init => Contract!Init
BY DEF Init, Contract!Init, outcome, deps

\* collectReady blocks a node: the contract skips it.
LEMMA BlockIsSkip ==
  ASSUME DagInv, Visit
  PROVE  Contract!Next \/ UNCHANGED <<graphOfDeps, outcome>>
<1>0. PICK n \in Nodes : n = Order[cursor]
  BY CursorAtNode DEF Visit
<1>1. TypeOK /\ UNCHANGED <<dependsOn, wave>> /\ \A m \in Nodes : wave[m] = "none"
  BY DEF DagInv, PoolInv, Visit
<1>2. UNCHANGED graphOfDeps
  BY <1>1 DEF graphOfDeps, deps
<1>3. CASE Pass(n) \/ Release(n)
  BY <1>1, <1>2, <1>3 DEF Pass, Release, outcome
<1>4. CASE Block(n)
  <2>1. n \in Contract!Open
    BY <1>1, <1>4, ContractView DEF Block, Contract!Open
  <2>2. Contract!Doomed(n)
    <3>1. PICK d \in deps(n) : Resolved(d) /\ results[d] # "passed"
      BY <1>4 DEF Block, MayBlock
    <3>2. d \in Nodes /\ outcome[d] = results[d]
      BY <1>1, <3>1, ContractView DEF outcome
    <3> QED
      BY <3>1, <3>2, ContractView DEF Contract!Doomed, graphOfDeps, Resolved
  <2>3. outcome' = [outcome EXCEPT ![n] = "skipped"]
    BY <1>1, <1>4 DEF Block, outcome, TypeOK
  <2>4. Contract!Skip(n)
    BY <1>2, <2>1, <2>2, <2>3 DEF Contract!Skip, graphOfDeps
  <2> QED
    BY <2>4 DEF Contract!Next
<1> QED
  BY <1>0, <1>3, <1>4 DEF Visit

\* A worker reports: the contract runs the node.
LEMMA FinishIsRun ==
  ASSUME DagInv, OutInv, NEW w \in Workers, Finish(w)
  PROVE  Contract!Next
<1>0. TypeOK /\ UNCHANGED <<dependsOn, results>>
  BY DEF Finish, DagInv
<1>1. PICK n \in Nodes : n = work[w].node
  BY <1>0, BusyWorkerHoldsNode DEF Finish
<1>2. InFlight(n) /\ wave[n] = "none"
  BY <1>1 DEF InFlight, Finish, OutInv
<1>3. n \in Contract!Open
  BY <1>2, ContractView DEF Contract!Open, DagInv, PoolInv
<1>4. Contract!Ready(n)
  <2>1. AllPassed(n)
    BY <1>2 DEF DagInv, RunsAfterDeps
  <2> QED
    BY <2>1, ContractView DEF Contract!Ready, graphOfDeps
<1>5. \E r \in {"passed", "failed"} : outcome' = [outcome EXCEPT ![n] = r]
  <2>1. PICK r \in {"passed", "failed"} : wave' = [wave EXCEPT ![n] = r]
    BY <1>1 DEF Finish
  <2>2. outcome' = [outcome EXCEPT ![n] = r]
    BY <1>0, <2>1 DEF outcome, TypeOK
  <2> QED
    BY <2>2
<1>6. Contract!Run(n)
  BY <1>0, <1>3, <1>4, <1>5 DEF Contract!Run, deps
<1> QED
  BY <1>6 DEF Contract!Next

\* The last sweep: the contract gives up on what is open.
LEMMA SweepIsGiveUp ==
  ASSUME DagInv, OutInv, Sweep
  PROVE  Contract!Next \/ UNCHANGED <<graphOfDeps, outcome>>
<1> DEFINE verdict == IF cancelled THEN "skipped" ELSE "cycle"
<1>1. /\ TypeOK /\ UNCHANGED <<dependsOn, wave>>
      /\ \A n \in Nodes : wave[n] = "none"
      /\ results' = [n \in Nodes |-> IF Resolved(n) THEN results[n] ELSE verdict]
  BY DEF DagInv, PoolInv, Sweep
<1>2. UNCHANGED graphOfDeps
  BY <1>1 DEF graphOfDeps, deps
<1>3. \A n \in Nodes : n \in Contract!Open <=> ~Resolved(n)
  BY <1>1, ContractView DEF Contract!Open
<1>4. outcome' = [n \in Nodes |-> IF n \in Contract!Open THEN verdict ELSE outcome[n]]
  BY <1>1, <1>3 DEF outcome, Resolved
<1>5. CASE Contract!Open = {}
  BY <1>2, <1>4, <1>5 DEF outcome
<1>6. CASE Contract!Open # {}
  <2>1. verdict = "cycle" => \A n \in Contract!Open : ~Contract!Ready(n)
    <3> SUFFICES ASSUME ~cancelled, NEW n \in Contract!Open PROVE ~Contract!Ready(n)
      OBVIOUS
    <3>1. n \in Nodes /\ ~AllPassed(n)
      BY <1>3, StalledCannotRun DEF Contract!Open, OutInv, Sweep
    <3>2. PICK d \in deps(n) : results[d] # "passed"
      BY <3>1 DEF AllPassed
    <3>3. d \in Nodes /\ outcome[d] # "passed"
      BY <1>1, <3>1, <3>2, ContractView DEF outcome
    <3> QED
      BY <3>1, <3>2, <3>3 DEF Contract!Ready
  <2>2. Contract!GiveUp(verdict)
    BY <1>2, <1>4, <1>6, <2>1 DEF Contract!GiveUp, graphOfDeps
  <2> QED
    BY <2>2 DEF Contract!Next
<1> QED
  BY <1>5, <1>6

LEMMA ContractStep ==
  ASSUME DagInv, OutInv, [Next]_vars
  PROVE  Contract!Next \/ UNCHANGED <<graphOfDeps, outcome>>
<1>1. CASE EndWave
  BY <1>1 DEF EndWave, outcome, graphOfDeps, deps
<1>2. CASE BeginRound \/ EndRound \/ Cancel \/ UNCHANGED vars
  BY <1>2 DEF BeginRound, EndRound, Cancel, vars, outcome, graphOfDeps, deps
<1>3. ASSUME NEW w \in Workers, Pop(w) \/ DropCancelled(w) \/ Begin(w)
      PROVE  UNCHANGED <<graphOfDeps, outcome>>
  BY <1>3 DEF Pop, DropCancelled, Begin, outcome, graphOfDeps, deps
<1> QED
  BY <1>1, <1>2, <1>3, BlockIsSkip, FinishIsRun, SweepIsGiveUp
  DEF Next, Loop, Worker

\* The scheduler with its rounds, waves, queue and workers implements what the
\* callers of Run are promised: each subtask gets one outcome, none runs before
\* its dependencies have passed, and cycle is only said when nothing could run.
THEOREM RunKeepsItsContract == Spec => ImplementsContract
<1>1. Init => Contract!Init
  BY ContractInit
<1>2. DagInv /\ OutInv /\ [Next]_vars
        => [Contract!Next]_<<[n \in Nodes |-> deps(n)], outcome>>
  BY ContractStep DEF graphOfDeps
<1> QED
  BY <1>1, <1>2, OutInvariant, PTL DEF Spec, ImplementsContract, Contract!Spec

=============================================================================
