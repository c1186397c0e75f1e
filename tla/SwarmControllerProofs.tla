----------------------- MODULE SwarmControllerProofs ------------------------
(***************************************************************************)
(* What TLC checks of SwarmController on three shards, proved for every    *)
(* plan, every setting and every number of crashes and resumes.            *)
(*                                                                         *)
(* The argument: a shard whose branch is on the tip, or waits for it, is   *)
(* in no later pass, because a pass is made of red shards, of shards whose *)
(* branch conflicted and of shards that never passed, and a resume seeds   *)
(* from rows that are not passed or not on the saved tip.  So neither its  *)
(* row nor its artifact is written again.  And a process only knows more   *)
(* than the run row it was started from.                                   *)
(***************************************************************************)
EXTENDS SwarmController, FiniteSetTheorems, TLAPS

IsGreen(s) == rows[s] = "passed" /\ artifact[s] = {}

\* On the tip, or green on a branch that may still be folded onto it.
Kept == merged \cup (passed \ stale)

Looping == pc \in {"top", "running", "fold", "integrate", "save", "decide", "select"}
Deciding == pc \in {"integrate", "save", "decide", "select"}

\* What is kept is green, in the process and on disk.
TipInv ==
  /\ pc # "down" => runRow.merged \subseteq merged
  /\ \A s \in merged \cup runRow.merged : IsGreen(s)
  /\ Looping => \A s \in passed \ stale : IsGreen(s)
  /\ ~Merging => stale = {}

\* A pass runs nothing that is kept or given up, and its verdicts are those of
\* the artifacts.
PassInv ==
  /\ pc \in {"top", "running"} => current \cap (Kept \cup exhaustedFail) = {}
  /\ pc = "running" => marked = {}
  /\ pc = "fold" => /\ marked \subseteq current
                    /\ (current \ marked) \cap Kept = {}
  /\ pc \in {"running", "fold"} =>
       \A s \in Shards : results[s] = "green" => artifact[s] = {}
  /\ pc \in {"save", "decide", "select"} =>
       \A s \in conflictRetry : s \in stale \ merged /\ artifact[s] = {}
  /\ \A s \in exhaustedFail : /\ Red(s) # {}
                              /\ \A u \in Red(s) : Exhausted(ledger, s, u)

\* The process is ahead of the run row it will write next.
RowInv ==
  Running => /\ runRow.status # "done"
             /\ runRow.pass <= pass
             /\ \A s \in Shards, u \in Units : runRow.ledger[s][u] <= ledger[s][u]

\* Every shard of the plan has a row by the time a run row is written, and the
\* seed of a process leaves out what is on the tip or withheld, nothing else.
PlanInv ==
  /\ planned \subseteq opts.shards /\ current \subseteq planned
  /\ passed \subseteq planned /\ conflictRetry \subseteq planned
  /\ \A s \in Shards : rows[s] # "none" => s \in opts.shards
  /\ pc \in {"top", "running", "fold"} /\ runRow.status = "none" => current = opts.shards
  /\ pc \in {"decide", "select"} => runRow.status = "run"
  /\ pc = "fold" => \A s \in marked : rows[s] # "none"
  /\ Deciding \/ runRow.status = "run" => \A s \in opts.shards : rows[s] # "none"
  /\ pc # "down" => Cardinality(opts.shards \ (planned \cup merged)) = withheld

\* A run that converged has every shard it planned green, and none off the tip
\* once finish has looked.
DoneInv ==
  /\ pc \in {"finish", "exited"} /\ outcome.done =>
       \A s \in planned : s \in merged \cup passed /\ IsGreen(s)
  /\ pc = "exited" /\ outcome.done => UnmergedGreens = {}

SwarmInv == TypeOK /\ TipInv /\ PassInv /\ RowInv /\ PlanInv /\ DoneInv

-----------------------------------------------------------------------------
(* Type correctness                                                        *)

\* A set of shards can be counted.
LEMMA ShardsCount ==
  /\ \A S \in SUBSET Shards : IsFiniteSet(S) /\ Cardinality(S) \in Nat
  /\ \A S \in SUBSET Shards : Cardinality(S) = 0 => S = {}
BY FS_Subset, FS_CardinalityType, FS_EmptySet, ShardsAssumption

\* What a plan and its flags are.
LEMMA OptsType ==
  ASSUME opts \in Settings
  PROVE  /\ opts.shards \in SUBSET Shards
         /\ deps \in [Shards -> SUBSET Shards]
         /\ MaxAttempts \in Nat
BY SettingsAssumption DEF deps, MaxAttempts

LEMMA InitTypeOK == Init => TypeOK
<1> SUFFICES ASSUME Init PROVE TypeOK
  OBVIOUS
<1>1. NoTries \in [Shards -> [Units -> Nat]]
  BY DEF NoTries
<1> QED
  BY <1>1, OptsType
  DEF Init, FreshLoop, TypeOK, NoBoard, NoPrev, NoOutcome, Reasons

\* What a stop, a fault and a landed write leave behind.
LEMMA StopType ==
  ASSUME NEW r \in Reasons, Stop(r)
  PROVE  /\ pc' = "finish"
         /\ outcome' \in [reason : Reasons \cup {"none"}, done : BOOLEAN, remaining : Nat]
BY DEF Stop, NoOutcome

LEMMA SavedType ==
  ASSUME TypeOK
  PROVE  SavedState \in [status : {"none", "run", "done"}, pass : Nat,
                         ledger : [Shards -> [Units -> Nat]], merged : SUBSET Shards]
BY DEF TypeOK, SavedState

LEMMA ForgetType ==
  ASSUME Forget
  PROVE  /\ results' \in [Shards -> Verdicts \cup {"none"}]
         /\ board' \in [remaining : Nat, retryPass : BOOLEAN]
         /\ prev' \in [remaining : Nat \cup {-1}, merged : Nat, ran : Nat, stalls : Nat]
         /\ outcome' \in [reason : Reasons \cup {"none"}, done : BOOLEAN, remaining : Nat]
         /\ marked' = {} /\ passed' = {} /\ ran' = {} /\ stale' = {}
         /\ exhaustedFail' = {} /\ conflictRetry' = {} /\ cancelled' = FALSE
<1>1. results' \in [Shards -> Verdicts \cup {"none"}]
  BY DEF Forget
<1>2. board' \in [remaining : Nat, retryPass : BOOLEAN]
  BY DEF Forget, NoBoard
<1>3. prev' \in [remaining : Nat \cup {-1}, merged : Nat, ran : Nat, stalls : Nat]
  BY DEF Forget, NoPrev
<1>4. outcome' \in [reason : Reasons \cup {"none"}, done : BOOLEAN, remaining : Nat]
  BY DEF Forget, NoOutcome
<1> QED
  BY <1>1, <1>2, <1>3, <1>4 DEF Forget

LEMMA NextTypeOK == TypeOK /\ [Next]_vars => TypeOK'
<1> SUFFICES ASSUME TypeOK, [Next]_vars PROVE TypeOK'
  OBVIOUS
<1> USE DEF TypeOK, plan, durable, snapshot, verdicts
<1>1. CASE TopRail
  <2>1. \E r \in {"ctx", "hard-cap", "budget"} : Stop(r)
    BY <1>1 DEF TopRail
  <2> QED
    BY <1>1, <2>1, StopType DEF TopRail, Reasons
<1>2. CASE Dispatch
  BY <1>2 DEF Dispatch, Proceed, NoBoard
<1>3. ASSUME NEW s \in Shards, RunShard(s) PROVE TypeOK'
  <2>1. artifact' \in [Shards -> (SUBSET Claims) \cup {Absent}]
    BY <1>3 DEF RunShard
  <2>2. results' \in [Shards -> Verdicts \cup {"none"}]
    BY <1>3 DEF RunShard, Report, Verdicts, Failed
  <2> QED
    BY <1>3, <2>1, <2>2 DEF RunShard
<1>4. ASSUME NEW s \in Shards, DropShard(s) PROVE TypeOK'
  BY <1>4 DEF DropShard, Report, Verdicts, Failed
<1>5. ASSUME NEW s \in Shards, MarkShard(s) PROVE TypeOK'
  <2>1. /\ passed' \in SUBSET Shards /\ stale' \in SUBSET Shards
    BY <1>5 DEF MarkShard, FoldVerdict
  <2>6. board' \in [remaining : Nat, retryPass : BOOLEAN]
    <3>1. CASE results[s] = "green"
      <4> DEFINE again == board.retryPass \/ (pass > 1 /\ s \notin passed)
      <4>1. again \in BOOLEAN
        OBVIOUS
      <4>2. board' = [board EXCEPT !.retryPass = again]
        BY <1>5, <3>1 DEF MarkShard, FoldVerdict
      <4> HIDE DEF again
      <4> QED
        BY <4>1, <4>2
    <3>2. CASE results[s] # "green"
      BY <1>5, <3>2 DEF MarkShard, FoldVerdict
    <3> QED
      BY <3>1, <3>2
  <2>2. StatusOf(results[s]) \in {"queued", "passed", "failed"}
    BY DEF StatusOf
  <2>3. rows' \in [Shards -> {"none", "queued", "passed", "failed"}]
    BY <1>5, <2>2 DEF MarkShard, Landed, Faulted
  <2>4. /\ pc' \in {"fold", "finish"} /\ UNCHANGED runRow
        /\ outcome' \in [reason : Reasons \cup {"none"}, done : BOOLEAN, remaining : Nat]
    BY <1>5, StopType DEF MarkShard, Landed, Proceed, Faulted, Reasons
  <2>5. marked' \in SUBSET Shards /\ ran' \in SUBSET Shards
    BY <1>5 DEF MarkShard
  <2> QED
    BY <1>5, <2>1, <2>3, <2>4, <2>5, <2>6 DEF MarkShard
<1>6. CASE EndPass
  BY <1>6 DEF EndPass, Proceed
<1>7. CASE ScanArtifacts
  <2>1. Cardinality(RedShards) \in Nat
    BY ShardsCount DEF RedShards
  <2> QED
    BY <1>7, <2>1, StopType DEF ScanArtifacts, Proceed, Reasons
<1>8. CASE Integrate
  <2> PICK tried \in SUBSET Shards, rolledBack \in SUBSET Shards :
        /\ merged' = merged \cup (tried \ rolledBack)
        /\ stale' = stale \cup rolledBack
        /\ ledger' = [s \in Shards |->
             IF s \in rolledBack THEN [ledger[s] EXCEPT ![MergeClaim] = @ + 1]
             ELSE ledger[s]]
        /\ conflictRetry' \subseteq rolledBack \cap current
    BY <1>8 DEF Integrate
  <2>1. ledger' \in [Shards -> [Units -> Nat]]
    <3>1. \A s \in Shards : [ledger[s] EXCEPT ![MergeClaim] = @ + 1] \in [Units -> Nat]
      BY DEF Units
    <3> QED
      BY <3>1
  <2> QED
    BY <1>8, <2>1 DEF Integrate, Proceed
<1>9. CASE IntegrateFault
  BY <1>9, StopType DEF IntegrateFault, Reasons
<1>10. CASE SaveState
  BY <1>10, StopType, SavedType DEF SaveState, Landed, Proceed, Reasons
<1>11. CASE Converge
  <2>1. conflictRetry \cup Unresolved \in SUBSET Shards
    BY DEF Unresolved
  <2>2. current' \in SUBSET Shards
    BY <1>11, <2>1 DEF Converge, NextPass
  <2>3. /\ pc' \in {"top", "finish"}
        /\ outcome' \in [reason : Reasons \cup {"none"}, done : BOOLEAN, remaining : Nat]
    BY <1>11, StopType DEF Converge, NextPass, Proceed, Reasons
  <2> QED
    BY <1>11, <2>2, <2>3 DEF Converge
<1>12. CASE Spend
  <2>1. Bumped \in [Shards -> [Units -> Nat]]
    BY DEF Bumped
  <2>2. GivenUp \in SUBSET Shards
    BY DEF GivenUp, RedShards
  <2>3. Cardinality(merged) \in Nat /\ Cardinality(ran) \in Nat
    BY ShardsCount
  <2> DEFINE stalls == IF prev.remaining >= 0 /\ ~Progressed THEN prev.stalls + 1 ELSE 0
  <2>4. stalls \in Nat
    OBVIOUS
  <2>5. \/ Stop("stalled") /\ UNCHANGED <<prev, ledger, exhaustedFail>>
        \/ /\ prev' = [remaining |-> board.remaining, stalls |-> stalls,
                       merged |-> Cardinality(merged), ran |-> Cardinality(ran)]
           /\ ledger' = Bumped
           /\ exhaustedFail' = exhaustedFail \cup GivenUp
           /\ Proceed("select")
    BY <1>12 DEF Spend
  <2> HIDE DEF stalls
  <2> QED
    BY <1>12, <2>1, <2>2, <2>3, <2>4, <2>5, StopType DEF Spend, Proceed, Reasons
<1>13. CASE Select
  <2>1. Requeue \cup Dependents \in SUBSET Shards
    BY DEF Requeue, Dependents, Unresolved, Eligible, RedShards
  <2>2. /\ current' \in SUBSET Shards
        /\ runRow' \in {runRow, SavedState}
    BY <1>13, <2>1 DEF Select, NextPass
  <2>3. /\ pc' \in {"top", "finish"}
        /\ outcome' \in [reason : Reasons \cup {"none"}, done : BOOLEAN, remaining : Nat]
    BY <1>13, StopType DEF Select, NextPass, Proceed, Reasons
  <2> QED
    BY <1>13, <2>2, <2>3, SavedType DEF Select
<1>14. CASE Finish
  <2>1. Cardinality(UnmergedGreens) \in Nat /\ Cardinality(NeverRan) \in Nat
    BY ShardsCount DEF UnmergedGreens, NeverRan
  <2>2. outcome' \in [reason : Reasons \cup {"none"}, done : BOOLEAN, remaining : Nat]
    BY <1>14, <2>1 DEF Finish, Reasons
  <2>3. runRow' \in {runRow, [SavedState EXCEPT !.status = "done"]}
    BY <1>14 DEF Finish
  <2> QED
    BY <1>14, <2>2, <2>3, SavedType DEF Finish
<1>15. CASE Cancel
  BY <1>15 DEF Cancel
<1>16. CASE Crash
  <2>1. NoTries \in [Shards -> [Units -> Nat]]
    BY DEF NoTries
  <2> QED
    BY <1>16, <2>1, ForgetType DEF Crash
<1>17. CASE Resume
  <2>1. /\ Readmitted \cup Incomplete \in SUBSET Shards
        /\ Cardinality(FailedRows \ Readmitted) \in Nat
    BY ShardsCount DEF Readmitted, Incomplete, FailedRows
  <2> QED
    BY <1>17, <2>1, ForgetType DEF Resume, Restored
<1>18. CASE UNCHANGED vars
  BY <1>18 DEF vars
<1> QED
  BY <1>1, <1>2, <1>3, <1>4, <1>5, <1>6, <1>7, <1>8, <1>9, <1>10, <1>11,
     <1>12, <1>13, <1>14, <1>15, <1>16, <1>17, <1>18 DEF Next, Step

\* Every reachable state has its type.
THEOREM TypeCorrect == Spec => []TypeOK
<1>1. Init => TypeOK
  BY InitTypeOK
<1>2. TypeOK /\ [Next]_vars => TypeOK'
  BY NextTypeOK
<1> QED
  BY <1>1, <1>2, PTL DEF Spec

-----------------------------------------------------------------------------
(* The initial state                                                       *)

LEMMA InitSwarmInv == Init => SwarmInv
<1> SUFFICES ASSUME Init PROVE SwarmInv
  OBVIOUS
<1>1. TypeOK
  BY InitTypeOK
<1>2. TipInv
  BY DEF Init, FreshLoop, TipInv, Looping
<1>3. PassInv
  BY DEF Init, FreshLoop, PassInv, Kept
<1>4. RowInv
  BY DEF Init, RowInv, NoTries
<1>5. PlanInv
  <2>1. Cardinality(opts.shards \ (planned \cup merged)) = withheld
    BY FS_EmptySet DEF Init
  <2> QED
    BY <2>1 DEF Init, FreshLoop, PlanInv, Deciding
<1>6. DoneInv
  BY DEF Init, DoneInv
<1> QED
  BY <1>1, <1>2, <1>3, <1>4, <1>5, <1>6 DEF SwarmInv

-----------------------------------------------------------------------------
(* What is on the tip stays green                                          *)

\* A shard of the pass that is about to run or to be folded is not kept.
LEMMA NextTipInv == TypeOK /\ TipInv /\ PassInv /\ [Next]_vars => TipInv'
<1> SUFFICES ASSUME TypeOK, TipInv, PassInv, [Next]_vars PROVE TipInv'
  OBVIOUS
<1> USE DEF TipInv, Looping, IsGreen, Merging, plan, durable, snapshot, verdicts
<1>1. CASE TopRail
  BY <1>1 DEF TopRail, Stop
<1>2. CASE Dispatch
  BY <1>2 DEF Dispatch, Proceed
<1>3. ASSUME NEW s \in Shards, RunShard(s) PROVE TipInv'
  <2>1. s \notin merged /\ s \notin passed \ stale /\ s \notin runRow.merged
    BY <1>3 DEF RunShard, Waiting, PassInv, Kept
  <2>2. \A t \in Shards : t # s => artifact'[t] = artifact[t]
    BY <1>3 DEF RunShard, TypeOK
  <2>3. merged \cup runRow.merged \cup passed \subseteq Shards
    BY DEF TypeOK
  <2> QED
    BY <1>3, <2>1, <2>2, <2>3 DEF RunShard
<1>4. ASSUME NEW s \in Shards, DropShard(s) PROVE TipInv'
  BY <1>4 DEF DropShard
<1>5. ASSUME NEW s \in Shards, MarkShard(s) PROVE TipInv'
  <2>1. s \notin merged /\ s \notin passed \ stale /\ s \notin runRow.merged
    BY <1>5 DEF MarkShard, PassInv, Kept
  <2>2. /\ UNCHANGED <<opts, artifact, runRow, merged>>
        /\ pc = "fold" /\ pc' \in {"fold", "finish"}
    BY <1>5 DEF MarkShard, Landed, Proceed, Faulted, Stop
  <2>3. \A t \in Shards : t # s => rows'[t] = rows[t]
    BY <1>5 DEF MarkShard, Landed, Faulted, TypeOK
  <2>4. \A t : t # s => (t \in passed' \ stale' <=> t \in passed \ stale)
    BY <1>5 DEF MarkShard, FoldVerdict
  <2>5. s \in passed' \ stale' => results[s] = "green"
    BY <1>5, <2>1 DEF MarkShard, FoldVerdict
  <2>6. results[s] = "green" => artifact'[s] = {}
    BY <2>2 DEF PassInv
  <2>7. results[s] = "green" /\ pc' = "fold" => rows'[s] = "passed"
    BY <1>5 DEF MarkShard, Landed, Proceed, Faulted, Stop, StatusOf, TypeOK
  <2>8. stale' \subseteq stale
    BY <1>5 DEF MarkShard, FoldVerdict
  <2>9. merged \cup runRow.merged \cup passed' \subseteq Shards
    BY <1>5 DEF MarkShard, FoldVerdict, TypeOK
  <2> QED
    BY <2>1, <2>2, <2>3, <2>4, <2>5, <2>6, <2>7, <2>8, <2>9
<1>6. CASE EndPass
  BY <1>6 DEF EndPass, Proceed
<1>7. CASE ScanArtifacts
  BY <1>7 DEF ScanArtifacts, Proceed, Stop
<1>8. CASE Integrate
  <2> PICK tried \in SUBSET Shards, rolledBack \in SUBSET Shards :
        /\ FoldOutcome(tried, rolledBack)
        /\ merged' = merged \cup (tried \ rolledBack)
        /\ stale' = stale \cup rolledBack
    BY <1>8 DEF Integrate
  <2>1. tried \subseteq Pending /\ rolledBack \subseteq tried
    BY DEF FoldOutcome
  <2>2. pc = "integrate" /\ UNCHANGED <<opts, artifact, rows, runRow, passed>>
    BY <1>8 DEF Integrate
  <2> QED
    BY <2>1, <2>2 DEF Pending
<1>9. CASE IntegrateFault
  BY <1>9 DEF IntegrateFault, Stop
<1>10. CASE SaveState
  BY <1>10 DEF SaveState, SavedState, Landed, Proceed, Stop
<1>11. CASE Converge
  BY <1>11 DEF Converge, NextPass, Proceed, Stop
<1>12. CASE Spend
  BY <1>12 DEF Spend, Proceed, Stop
<1>13. CASE Select
  BY <1>13 DEF Select, SavedState, NextPass, Proceed, Stop
<1>14. CASE Finish
  BY <1>14 DEF Finish, SavedState
<1>15. CASE Cancel
  BY <1>15 DEF Cancel
<1>16. CASE Crash
  BY <1>16 DEF Crash, Forget
<1>17. CASE Resume
  BY <1>17 DEF Resume, Restored, Forget
<1>18. CASE UNCHANGED vars
  BY <1>18 DEF vars
<1> QED
  BY <1>1, <1>2, <1>3, <1>4, <1>5, <1>6, <1>7, <1>8, <1>9, <1>10, <1>11,
     <1>12, <1>13, <1>14, <1>15, <1>16, <1>17, <1>18 DEF Next, Step

-----------------------------------------------------------------------------
(* A pass runs nothing that is kept                                        *)

LEMMA NextPassInv == TypeOK /\ TipInv /\ PassInv /\ [Next]_vars => PassInv'
<1> SUFFICES ASSUME TypeOK, TipInv, PassInv, [Next]_vars PROVE PassInv'
  OBVIOUS
<1> USE DEF PassInv, Kept, plan, durable, snapshot, verdicts, Merging, Red,
            Exhausted, MaxAttempts
<1>1. CASE TopRail
  BY <1>1 DEF TopRail, Stop
<1>2. CASE Dispatch
  BY <1>2 DEF Dispatch, Proceed
<1>3. ASSUME NEW s \in Shards, RunShard(s) PROVE PassInv'
  <2>1. s \in current /\ results[s] = "none" /\ s \notin exhaustedFail
    BY <1>3 DEF RunShard, Waiting
  <2>2. \A t \in Shards : t # s => artifact'[t] = artifact[t] /\ results'[t] = results[t]
    BY <1>3 DEF RunShard, Report, TypeOK
  <2>3. results'[s] = "green" => artifact'[s] = {}
    BY <1>3 DEF RunShard, Report, TypeOK
  <2>4. exhaustedFail \subseteq Shards
    BY DEF TypeOK
  <2> QED
    BY <1>3, <2>1, <2>2, <2>3, <2>4 DEF RunShard
<1>4. ASSUME NEW s \in Shards, DropShard(s) PROVE PassInv'
  <2>1. \A t \in Shards : results'[t] = "green" => results[t] = "green"
    BY <1>4 DEF DropShard, Report, TypeOK
  <2> QED
    BY <1>4, <2>1 DEF DropShard
<1>5. ASSUME NEW s \in Shards, MarkShard(s) PROVE PassInv'
  <2>1. \A t : t # s => (t \in passed' \ stale' <=> t \in passed \ stale)
    BY <1>5 DEF MarkShard, FoldVerdict
  <2>2. pc = "fold" /\ pc' \in {"fold", "finish"}
    BY <1>5 DEF MarkShard, Landed, Proceed, Faulted, Stop
  <2>3. stale' \subseteq stale
    BY <1>5 DEF MarkShard, FoldVerdict
  <2> QED
    BY <1>5, <2>1, <2>2, <2>3 DEF MarkShard
<1>6. CASE EndPass
  BY <1>6 DEF EndPass, Proceed
<1>7. CASE ScanArtifacts
  BY <1>7 DEF ScanArtifacts, Proceed, Stop
<1>8. CASE Integrate
  <2> PICK tried \in SUBSET Shards, rolledBack \in SUBSET Shards :
        /\ FoldOutcome(tried, rolledBack)
        /\ merged' = merged \cup (tried \ rolledBack)
        /\ stale' = stale \cup rolledBack
        /\ ledger' = [s \in Shards |->
             IF s \in rolledBack THEN [ledger[s] EXCEPT ![MergeClaim] = @ + 1]
             ELSE ledger[s]]
        /\ conflictRetry' \subseteq rolledBack
    BY <1>8 DEF Integrate
  <2>1. tried \subseteq Pending /\ rolledBack \subseteq tried
    BY DEF FoldOutcome
  <2>2. /\ pc = "integrate" /\ pc' = "save"
        /\ UNCHANGED <<opts, artifact, exhaustedFail>>
    BY <1>8 DEF Integrate, Proceed
  <2>3. \A t \in rolledBack : t \in stale' \ merged' /\ artifact'[t] = {}
    BY <2>1, <2>2 DEF Pending, TipInv, Looping, IsGreen
  <2>4. \A t \in Shards, u \in Units : ledger'[t][u] >= ledger[t][u]
    BY DEF TypeOK
  <2>5. \A t \in Shards : Red(t) \subseteq Units
    BY DEF TypeOK, Units, Absent
  <2>6. \A t \in exhaustedFail : \A u \in Red(t) : Exhausted(ledger, t, u)'
    BY <2>2, <2>4, <2>5, OptsType DEF TypeOK
  <2>7. ~Merging => stale' = {}
    BY <2>1 DEF Pending, TipInv
  <2> QED
    BY <2>2, <2>3, <2>6, <2>7
<1>9. CASE IntegrateFault
  BY <1>9 DEF IntegrateFault, Stop
<1>10. CASE SaveState
  BY <1>10 DEF SaveState, Landed, Proceed, Stop
<1>11. CASE Converge
  <2>1. exhaustedFail = {}
    BY <1>11 DEF Converge, RedShards, TypeOK
  <2>2. Unresolved \cap Kept = {} /\ conflictRetry \cap Kept = {}
    BY <1>11 DEF Converge, Unresolved, Resolved
  <2>3. /\ pc' \in {"top", "finish"}
        /\ pc' = "top" => current' = conflictRetry \cup Unresolved
    BY <1>11 DEF Converge, NextPass, Proceed, Stop
  <2> QED
    BY <1>11, <2>1, <2>2, <2>3 DEF Converge
<1>12. CASE Spend
  <2>1. \/ /\ pc' = "finish" /\ UNCHANGED <<ledger, exhaustedFail>>
        \/ /\ pc' = "select"
           /\ ledger' = Bumped
           /\ exhaustedFail' = exhaustedFail \cup GivenUp
    BY <1>12 DEF Spend, Proceed, Stop
  <2>2. /\ pc = "decide"
        /\ UNCHANGED <<opts, artifact, merged, passed, stale, conflictRetry>>
    BY <1>12 DEF Spend
  <2>3. \A t \in Shards : Red(t) \subseteq Units
    BY DEF TypeOK, Units, Absent
  <2>4. ASSUME ledger' = Bumped, exhaustedFail' = exhaustedFail \cup GivenUp,
               NEW t \in exhaustedFail'
        PROVE  Red(t) # {} /\ \A u \in Red(t) : Exhausted(ledger, t, u)'
    <3>1. \A u \in Red(t) : Bumped[t][u] >= ledger[t][u] /\ Bumped[t][u] \in Nat
                            /\ ledger[t][u] \in Nat
      BY <2>3, <2>4 DEF Bumped, TypeOK, GivenUp, RedShards
    <3>2. CASE t \in exhaustedFail
      BY <2>2, <2>4, <3>1, <3>2, OptsType DEF TypeOK
    <3>3. CASE t \in GivenUp
      BY <2>2, <2>4, <3>3 DEF GivenUp, RedShards, Eligible
    <3> QED
      BY <2>4, <3>2, <3>3
  <2> QED
    BY <2>1, <2>2, <2>4
<1>13. CASE Select
  <2>1. pc = "select" /\ UNCHANGED <<opts, artifact, ledger, merged, passed, stale,
                                     conflictRetry, exhaustedFail>>
    BY <1>13 DEF Select
  <2>2. Eligible(ledger) \cap (Kept \cup exhaustedFail) = {}
    BY <2>1 DEF Eligible, RedShards, TipInv, Looping, IsGreen
  <2>3. conflictRetry \cap (Kept \cup exhaustedFail) = {}
    BY <2>1
  <2>4. Dependents \cap (Kept \cup exhaustedFail) = {}
    BY DEF Dependents, Unresolved, Resolved
  <2>5. /\ pc' \in {"top", "finish"}
        /\ pc' = "top" => current' = Requeue \cup Dependents
    BY <1>13 DEF Select, NextPass, Proceed, Stop
  <2> QED
    BY <2>1, <2>2, <2>3, <2>4, <2>5 DEF Requeue
<1>14. CASE Finish
  BY <1>14 DEF Finish
<1>15. CASE Cancel
  BY <1>15 DEF Cancel
<1>16. CASE Crash
  BY <1>16 DEF Crash, Forget
<1>17. CASE Resume
  <2>1. \A s \in Readmitted \cup Incomplete : s \notin runRow.merged
    BY DEF Readmitted, FailedRows, Incomplete, TipInv, IsGreen
  <2> QED
    BY <1>17, <2>1 DEF Resume, Restored, Forget
<1>18. CASE UNCHANGED vars
  BY <1>18 DEF vars
<1> QED
  BY <1>1, <1>2, <1>3, <1>4, <1>5, <1>6, <1>7, <1>8, <1>9, <1>10, <1>11,
     <1>12, <1>13, <1>14, <1>15, <1>16, <1>17, <1>18 DEF Next, Step

-----------------------------------------------------------------------------
(* The process is ahead of its run row                                     *)

LEMMA LedgerGrows ==
  ASSUME TypeOK, Integrate \/ Spend
  PROVE  \A s \in Shards, u \in Units : /\ ledger[s][u] \in Nat
                                        /\ ledger[s][u] <= ledger'[s][u]
<1>1. CASE Integrate
  <2> PICK rolledBack \in SUBSET Shards :
        ledger' = [s \in Shards |->
          IF s \in rolledBack THEN [ledger[s] EXCEPT ![MergeClaim] = @ + 1]
          ELSE ledger[s]]
    BY <1>1 DEF Integrate
  <2> QED
    BY DEF TypeOK
<1>2. CASE Spend
  <2>1. \A s \in Shards, u \in Units : Bumped[s][u] >= ledger[s][u]
    BY DEF Bumped, TypeOK
  <2>2. ledger' = ledger \/ ledger' = Bumped
    BY <1>2 DEF Spend
  <2> QED
    BY <2>1, <2>2 DEF TypeOK
<1> QED
  BY <1>1, <1>2

LEMMA NextRowInv == TypeOK /\ RowInv /\ [Next]_vars => RowInv'
<1> SUFFICES ASSUME TypeOK, RowInv, [Next]_vars PROVE RowInv'
  OBVIOUS
<1>0. /\ pass \in Nat /\ runRow.pass \in Nat
      /\ \A s \in Shards, u \in Units : /\ ledger[s][u] \in Nat
                                        /\ runRow.ledger[s][u] \in Nat
  BY DEF TypeOK
<1> USE DEF RowInv, Running, plan, durable, snapshot, verdicts
<1>1. CASE TopRail
  BY <1>1 DEF TopRail, Stop
<1>2. CASE Dispatch
  BY <1>0, <1>2 DEF Dispatch, Proceed
<1>3. ASSUME NEW s \in Shards, RunShard(s) \/ DropShard(s) PROVE RowInv'
  BY <1>3 DEF RunShard, DropShard
<1>4. ASSUME NEW s \in Shards, MarkShard(s) PROVE RowInv'
  BY <1>4 DEF MarkShard, Landed, Proceed, Faulted, Stop
<1>5. CASE EndPass \/ ScanArtifacts
  BY <1>5 DEF EndPass, ScanArtifacts, Proceed, Stop
<1>6. CASE Integrate
  <2>1. \A s \in Shards, u \in Units : runRow.ledger[s][u] <= ledger'[s][u]
    BY <1>0, <1>6, LedgerGrows, NextTypeOK DEF Integrate, TypeOK, Next, Step
  <2> QED
    BY <1>6, <2>1 DEF Integrate, Proceed
<1>7. CASE IntegrateFault
  BY <1>7 DEF IntegrateFault, Stop
<1>8. CASE SaveState
  BY <1>0, <1>8 DEF SaveState, SavedState, Landed, Proceed, Stop
<1>9. CASE Converge
  BY <1>9 DEF Converge, NextPass, Proceed, Stop
<1>10. CASE Spend
  <2>1. \A s \in Shards, u \in Units : runRow.ledger[s][u] <= ledger'[s][u]
    BY <1>0, <1>10, LedgerGrows, NextTypeOK DEF Spend, TypeOK, Next, Step
  <2> QED
    BY <1>10, <2>1 DEF Spend, Proceed, Stop
<1>11. CASE Select
  BY <1>0, <1>11 DEF Select, SavedState, NextPass, Proceed, Stop
<1>12. CASE Finish
  BY <1>12 DEF Finish
<1>13. CASE Cancel
  BY <1>13 DEF Cancel
<1>14. CASE Crash
  BY <1>14 DEF Crash
<1>15. CASE Resume
  BY <1>0, <1>15 DEF Resume, Restored
<1>16. CASE UNCHANGED vars
  BY <1>16 DEF vars
<1> QED
  BY <1>1, <1>2, <1>3, <1>4, <1>5, <1>6, <1>7, <1>8, <1>9, <1>10, <1>11,
     <1>12, <1>13, <1>14, <1>15, <1>16 DEF Next, Step

-----------------------------------------------------------------------------
(* Every shard of the plan is accounted for                                *)

\* Only branches of planned shards are folded, so the plan that is owed or on
\* the tip stays what the process was seeded with.
LEMMA OwedStays ==
  ASSUME PlanInv, UNCHANGED <<opts, planned, withheld>>,
         NEW more, more \subseteq planned, merged' = merged \cup more
  PROVE  pc # "down" => Cardinality(opts.shards \ (planned \cup merged))' = withheld'
<1>1. (opts.shards \ (planned \cup merged))' = opts.shards \ (planned \cup merged)
  OBVIOUS
<1> QED
  BY <1>1 DEF PlanInv

LEMMA NextPlanInv ==
  TypeOK /\ TipInv /\ PassInv /\ RowInv /\ PlanInv /\ [Next]_vars => PlanInv'
<1> SUFFICES ASSUME TypeOK, TipInv, PassInv, RowInv, PlanInv, [Next]_vars
             PROVE  PlanInv'
  OBVIOUS
<1> USE DEF PlanInv, Deciding, plan, durable, snapshot, verdicts
<1>1. CASE TopRail
  BY <1>1 DEF TopRail, Stop
<1>2. CASE Dispatch
  BY <1>2 DEF Dispatch, Proceed
<1>3. ASSUME NEW s \in Shards, RunShard(s) \/ DropShard(s) PROVE PlanInv'
  BY <1>3 DEF RunShard, DropShard
<1>4. ASSUME NEW s \in Shards, MarkShard(s) PROVE PlanInv'
  <2>1. s \in opts.shards /\ s \in planned /\ pc = "fold" /\ pc' \in {"fold", "finish"}
    BY <1>4 DEF MarkShard, Landed, Proceed, Faulted, Stop
  <2>2. passed' \subseteq passed \cup {s}
    BY <1>4 DEF MarkShard, FoldVerdict
  <2>3. /\ \A t \in Shards : t # s => rows'[t] = rows[t]
        /\ rows[s] # "none" => rows'[s] # "none"
        /\ pc' = "fold" => rows'[s] # "none"
    BY <1>4 DEF MarkShard, Landed, Proceed, Faulted, Stop, StatusOf, TypeOK
  <2>4. opts.shards \subseteq Shards /\ marked \subseteq Shards
    BY OptsType DEF TypeOK
  <2>5. UNCHANGED <<opts, planned, withheld, runRow, merged, current, conflictRetry>>
        /\ marked' = marked \cup {s}
    BY <1>4 DEF MarkShard, Landed, Faulted
  <2>6. \A t \in Shards : rows[t] # "none" => rows'[t] # "none"
    BY <2>3
  <2>7. pc' = "fold" => \A t \in marked' : rows'[t] # "none"
    BY <2>1, <2>3, <2>4, <2>5, <2>6
  <2>8. runRow'.status = "run" => \A t \in opts'.shards : rows'[t] # "none"
    BY <2>4, <2>5, <2>6
  <2>9. \A t \in Shards : rows'[t] # "none" => t \in opts'.shards
    BY <2>1, <2>3, <2>5
  <2>10. passed' \subseteq planned'
    BY <2>1, <2>2, <2>5
  <2> QED
    BY <2>1, <2>5, <2>7, <2>8, <2>9, <2>10
<1>5. CASE EndPass
  BY <1>5 DEF EndPass, Proceed, PassInv
<1>6. CASE ScanArtifacts
  <2>1. pc = "fold" /\ marked = current /\ runRow.status \in {"none", "run"}
    BY <1>6 DEF ScanArtifacts, RowInv, Running, TypeOK
  <2>2. \A s \in opts.shards : rows[s] # "none"
    BY <2>1
  <2> QED
    BY <1>6, <2>2 DEF ScanArtifacts, Proceed, Stop
<1>7. CASE Integrate
  <2> PICK tried \in SUBSET Shards, rolledBack \in SUBSET Shards :
        /\ FoldOutcome(tried, rolledBack)
        /\ merged' = merged \cup (tried \ rolledBack)
        /\ conflictRetry' \subseteq rolledBack
    BY <1>7 DEF Integrate
  <2>1. tried \subseteq planned /\ rolledBack \subseteq planned
    BY DEF FoldOutcome, Pending
  <2>2. Cardinality(opts.shards \ (planned \cup merged))' = withheld'
    BY <1>7, <2>1, OwedStays DEF Integrate
  <2> QED
    BY <1>7, <2>1, <2>2 DEF Integrate, Proceed
<1>8. CASE IntegrateFault
  BY <1>8 DEF IntegrateFault, Stop
<1>9. CASE SaveState
  BY <1>9 DEF SaveState, SavedState, Landed, Proceed, Stop
<1>10. CASE Converge
  <2>1. conflictRetry \cup Unresolved \subseteq planned
    BY DEF Unresolved
  <2> QED
    BY <1>10, <2>1 DEF Converge, NextPass, Proceed, Stop
<1>11. CASE Spend
  BY <1>11 DEF Spend, Proceed, Stop
<1>12. CASE Select
  <2>1. Requeue \cup Dependents \subseteq planned
    BY DEF Requeue, Dependents, Unresolved
  <2> QED
    BY <1>12, <2>1 DEF Select, SavedState, NextPass, Proceed, Stop
<1>13. CASE Finish
  BY <1>13 DEF Finish, SavedState
<1>14. CASE Cancel
  BY <1>14 DEF Cancel
<1>15. CASE Crash
  BY <1>15 DEF Crash, Forget
<1>16. CASE Resume
  <2>1. /\ runRow.status = "run" /\ UNCHANGED <<opts, rows, runRow>>
        /\ merged' = runRow.merged
        /\ planned' = Readmitted \cup Incomplete
        /\ withheld' = Cardinality(FailedRows \ Readmitted)
    BY <1>16 DEF Resume, Restored
  <2>2. planned' \subseteq opts.shards
    BY <2>1 DEF Readmitted, FailedRows, Incomplete
  <2>3. opts.shards \ (planned' \cup merged') \subseteq FailedRows \ Readmitted
    BY <2>1, OptsType DEF TypeOK, Incomplete, FailedRows
  <2>4. FailedRows \ Readmitted \subseteq opts.shards \ (planned' \cup merged')
    BY <2>1 DEF FailedRows, Incomplete, TipInv, IsGreen
  <2>5. Cardinality(opts.shards \ (planned \cup merged))' = withheld'
    BY <2>1, <2>3, <2>4
  <2> QED
    BY <1>16, <2>1, <2>2, <2>5 DEF Resume, Forget
<1>17. CASE UNCHANGED vars
  BY <1>17 DEF vars
<1> QED
  BY <1>1, <1>2, <1>3, <1>4, <1>5, <1>6, <1>7, <1>8, <1>9, <1>10, <1>11,
     <1>12, <1>13, <1>14, <1>15, <1>16, <1>17 DEF Next, Step

-----------------------------------------------------------------------------
(* A converged run is green                                                *)

LEMMA NextDoneInv ==
  TypeOK /\ TipInv /\ PassInv /\ PlanInv /\ DoneInv /\ [Next]_vars => DoneInv'
<1> SUFFICES ASSUME TypeOK, TipInv, PassInv, PlanInv, DoneInv, [Next]_vars
             PROVE  DoneInv'
  OBVIOUS
<1> USE DEF DoneInv, plan, durable, snapshot, verdicts
<1>1. CASE Converge
  <2> SUFFICES ASSUME Stop("converged"), conflictRetry \cup Unresolved = {},
                      NEW s \in planned
               PROVE  s \in merged \cup passed /\ IsGreen(s)
    BY <1>1 DEF Converge, Stop, NextPass, Proceed, NoOutcome, UnmergedGreens, IsGreen
  <2>1. /\ pc = "decide" /\ RedShards = {}
        /\ Stop(IF UnmergedGreens # {} THEN "unmerged" ELSE "converged")
    BY <1>1 DEF Converge, Stop, NextPass, Proceed, NoOutcome
  <2>2. UnmergedGreens = {}
    BY <2>1 DEF Stop, NoOutcome
  <2>3. exhaustedFail = {}
    BY <2>1 DEF PassInv, RedShards, TypeOK
  <2>4. s \in merged \cup passed
    BY <2>3 DEF Unresolved, Resolved
  <2>5. s \in merged \/ s \in passed \ stale
    BY <2>2, <2>4 DEF UnmergedGreens, TipInv
  <2> QED
    BY <2>1, <2>4, <2>5 DEF TipInv, Looping
<1>2. CASE Finish
  BY <1>2 DEF Finish, UnmergedGreens, Merging, IsGreen
<1>3. CASE TopRail \/ IntegrateFault
  BY <1>3 DEF TopRail, IntegrateFault, Stop, NoOutcome
<1>4. ASSUME NEW s \in Shards, MarkShard(s) PROVE DoneInv'
  BY <1>4 DEF MarkShard, Landed, Proceed, Faulted, Stop, NoOutcome
<1>5. CASE SaveState \/ Spend \/ Select
  BY <1>5 DEF SaveState, Spend, Select, Landed, NextPass, Proceed, Stop, NoOutcome
<1>6. ASSUME NEW s \in Shards, RunShard(s) \/ DropShard(s) PROVE DoneInv'
  BY <1>6 DEF RunShard, DropShard
<1>7. CASE Dispatch \/ EndPass \/ ScanArtifacts \/ Integrate
  BY <1>7 DEF Dispatch, EndPass, ScanArtifacts, Integrate, Proceed, Stop, NoOutcome
<1>8. CASE Cancel \/ UNCHANGED vars
  BY <1>8 DEF Cancel, vars, UnmergedGreens, Merging, IsGreen
<1>9. CASE Crash \/ Resume
  BY <1>9 DEF Crash, Resume
<1> QED
  BY <1>1, <1>2, <1>3, <1>4, <1>5, <1>6, <1>7, <1>8, <1>9 DEF Next, Step

-----------------------------------------------------------------------------
(* The theorems                                                            *)

LEMMA SwarmInvariant == Spec => []SwarmInv
<1>1. Init => SwarmInv
  BY InitSwarmInv
<1>2. SwarmInv /\ [Next]_vars => SwarmInv'
  BY NextTypeOK, NextTipInv, NextPassInv, NextRowInv, NextPlanInv, NextDoneInv
  DEF SwarmInv
<1> QED
  BY <1>1, <1>2, PTL DEF Spec

\* What is on the tip, in memory or in the run row, and what a fold is about
\* to try, has a green row and an artifact without red claims, whatever was
\* retried, requeued, rolled back or resumed.
THEOREM TipIsGreen == Spec => []TipStaysGreen
<1>1. SwarmInv => TipStaysGreen
  <2> SUFFICES ASSUME TypeOK, TipInv,
                      NEW s \in merged \cup runRow.merged \cup
                                  (IF pc = "integrate" THEN Pending ELSE {})
               PROVE  rows[s] = "passed" /\ artifact[s] = {}
    BY DEF SwarmInv, TipStaysGreen
  <2> QED
    BY DEF TipInv, Pending, Looping, IsGreen
<1> QED
  BY <1>1, SwarmInvariant, PTL

\* No shard of the plan is lost by a crash or a resume: a running process owes
\* it, has it on its tip, or counted it as withheld.
THEOREM NothingOwedIsLost == Spec => []PlanIsAccounted
<1>1. SwarmInv => PlanIsAccounted
  BY DEF SwarmInv, PlanInv, PlanIsAccounted, Running
<1> QED
  BY <1>1, SwarmInvariant, PTL

\* A run that reports itself done, with nothing remaining and nothing withheld,
\* has every shard of the plan green and, when it merges, on the tip.
THEOREM DoneIsHonest == Spec => []CleanIsHonest
<1>1. SwarmInv => CleanIsHonest
  <2> SUFFICES ASSUME SwarmInv, pc = "exited", outcome.done, withheld = 0,
                      NEW s \in opts.shards
               PROVE  IsGreen(s) /\ (Merging => s \in merged)
    BY DEF CleanIsHonest, IsGreen
  <2>1. opts.shards \ (planned \cup merged) = {}
    BY ShardsCount, OptsType DEF SwarmInv, PlanInv, TypeOK
  <2>2. CASE s \in merged
    BY <2>2 DEF SwarmInv, TipInv
  <2>3. CASE s \in planned \ merged
    BY <2>3 DEF SwarmInv, DoneInv, UnmergedGreens
  <2> QED
    BY <2>1, <2>2, <2>3
<1> QED
  BY <1>1, SwarmInvariant, PTL

\* The run row only advances: no crash, fault or resume takes back a pass, an
\* attempt, a merged branch or the final done.
THEOREM RowAdvances == Spec => RunRowAdvances
<1> DEFINE Advance ==
      /\ runRow.pass <= runRow'.pass
      /\ runRow.merged \subseteq runRow'.merged
      /\ \A s \in Shards, u \in Units : runRow.ledger[s][u] <= runRow'.ledger[s][u]
      /\ runRow.status = "done" => runRow'.status = "done"
<1>1. ASSUME SwarmInv, [Next]_vars PROVE [Advance]_vars
  <2>1. /\ runRow.pass \in Nat
        /\ \A s \in Shards, u \in Units : runRow.ledger[s][u] \in Nat
    BY <1>1 DEF SwarmInv, TypeOK
  <2>2. CASE runRow' = runRow
    BY <2>1, <2>2
  <2>3. CASE Running /\ runRow' \in {SavedState, [SavedState EXCEPT !.status = "done"]}
    BY <1>1, <2>3 DEF SwarmInv, RowInv, TipInv, Running, SavedState
  <2>4. \/ runRow' = runRow
        \/ Running /\ runRow' \in {SavedState, [SavedState EXCEPT !.status = "done"]}
    <3>1. CASE SaveState
      BY <3>1 DEF SaveState, Landed, Proceed, Stop, Running
    <3>2. CASE Select
      BY <3>2 DEF Select, Running
    <3>3. CASE Finish
      BY <3>3 DEF Finish, Running
    <3>4. ASSUME NEW s \in Shards, RunShard(s) \/ DropShard(s) \/ MarkShard(s)
          PROVE  runRow' = runRow
      BY <3>4 DEF RunShard, DropShard, MarkShard, Landed, Faulted, durable
    <3>5. CASE \/ TopRail \/ Dispatch \/ EndPass \/ ScanArtifacts \/ Integrate
               \/ IntegrateFault \/ Converge \/ Spend
      BY <3>5 DEF TopRail, Dispatch, EndPass, ScanArtifacts, Integrate,
                  IntegrateFault, Converge, Spend, durable
    <3>6. CASE Cancel \/ Crash \/ Resume \/ UNCHANGED vars
      BY <3>6 DEF Cancel, Crash, Resume, vars, durable
    <3> QED
      BY <1>1, <3>1, <3>2, <3>3, <3>4, <3>5, <3>6 DEF Next, Step
  <2> QED
    BY <2>2, <2>3, <2>4
<1> QED
  BY <1>1, SwarmInvariant, PTL DEF Spec, RunRowAdvances

=============================================================================
