-------------------------- MODULE SwarmController ---------------------------
(***************************************************************************)
(* The multi-pass swarm loop of internal/swarm: Controller.Run             *)
(* (passes.go), its durable rows (queue.go), the artifact worklist and the *)
(* retry ledger of internal/requeue, and the --resume of cmd/nilcore.      *)
(*                                                                         *)
(* A pass dispatches the shards of `current', folds their verdicts into    *)
(* durable rows one at a time, asks the artifacts what is still red,       *)
(* merges the green branches onto the tip, saves the run row and selects   *)
(* the next pass.  The process may crash between any two of these steps    *)
(* and be resumed from what is durable.                                    *)
(*                                                                         *)
(* Goals, branch names and base refs are not modelled: no property here    *)
(* tells them apart.  A write to the collate directory is taken to land.   *)
(***************************************************************************)
EXTENDS Integers, FiniteSets

CONSTANTS
  Shards,         \* shard ids
  Settings,       \* the plans and flags a run may be started with
  Claims,         \* claim ids a worker may leave red in a shard's artifact
  MergeClaim,     \* mergeConflictClaimID
  HardMaxPasses,  \* PassPolicy
  MaxRestarts     \* bound: crashes and resumes a behaviour may contain

ASSUME SettingsAssumption == Settings \subseteq
  [shards : SUBSET Shards, deps : [Shards -> SUBSET Shards],
   early : SUBSET Shards,  \* listed before one of their dependencies
   attempts : Nat,         \* --retries
   untilClean : BOOLEAN, maxPasses : Nat,  \* PassPolicy
   merging : BOOLEAN]      \* FanInMerge: Integrate is wired; FALSE for collate presets
ASSUME LimitsAssumption == MaxRestarts \in Nat /\ HardMaxPasses \in Nat \ {0}
ASSUME ShardsAssumption == IsFiniteSet(Shards) /\ MergeClaim \notin Claims

VARIABLES
  opts,           \* the plan and the flags, fixed for the run and its resumes
  \* durable: survives a crash
  artifact,       \* per shard the red claims of its collated artifact, or Absent
  rows,           \* the status of every shard row, "none" before its first Mark
  runRow,         \* the run row: status and the SwarmState in its Detail
  \* the process
  pc,             \* where Controller.Run is; "exited" after it, "down" after a crash
  cancelled,      \* ctx.Err() # nil
  pass, ledger, merged,         \* st.Pass, st.Ledger.Attempts, st.Merged
  planned, current, results,    \* the run's plan, this pass's shards and verdicts
  marked,         \* shards of this pass whose verdict was folded and Marked
  passed, ran, stale, exhaustedFail,
  board,          \* Scoreboard: remaining, and whether a retry turned green
  prev,           \* prevRemaining, prevMerged, prevRan and noProgress
  conflictRetry,
  withheld,       \* resumeUnresolved
  outcome,        \* the Outcome once finish has run
  restarts        \* crashes and resumes so far

durable  == <<artifact, rows, runRow>>
snapshot == <<pass, ledger, merged>>
verdicts == <<passed, ran, stale, exhaustedFail>>
plan     == <<opts, planned, withheld>>
vars == <<plan, durable, pc, cancelled, snapshot, current, results, marked,
          verdicts, board, prev, conflictRetry, outcome, restarts>>

-----------------------------------------------------------------------------

deps        == opts.deps
ListedEarly == opts.early
MaxAttempts == opts.attempts
UntilClean  == opts.untilClean
MaxPasses   == opts.maxPasses
Merging     == opts.merging

Absent == {"absent"}

Units   == Claims \cup {MergeClaim}
NoTries == [s \in Shards |-> [u \in Units |-> 0]]
NoBoard == [remaining |-> 0, retryPass |-> FALSE]
NoPrev  == [remaining |-> -1, merged |-> 0, ran |-> 0, stalls |-> 0]

Reasons == {"converged", "exhausted", "budget", "passes", "hard-cap",
            "stalled", "ctx", "error", "unmerged"}
NoOutcome == [reason |-> "none", done |-> FALSE, remaining |-> 0]

\* "red": the verifier said no, or a green worktree could not be committed;
\* "error": a fault before the verifier, or an attempt that wrote no artifact.
Failed   == {"red", "error"}
Verdicts == Failed \cup {"green", "skipped", "cycle"}

TypeOK ==
  /\ opts \in Settings
  /\ artifact \in [Shards -> (SUBSET Claims) \cup {Absent}]
  /\ rows \in [Shards -> {"none", "queued", "passed", "failed"}]
  /\ runRow \in [status : {"none", "run", "done"}, pass : Nat,
                 ledger : [Shards -> [Units -> Nat]], merged : SUBSET Shards]
  /\ pc \in {"top", "running", "fold", "integrate", "save", "decide",
             "select", "finish", "exited", "down"}
  /\ cancelled \in BOOLEAN
  /\ pass \in Nat /\ ledger \in [Shards -> [Units -> Nat]]
  /\ results \in [Shards -> Verdicts \cup {"none"}]
  /\ {merged, planned, current, marked, passed, ran, stale, exhaustedFail,
      conflictRetry} \subseteq SUBSET Shards
  /\ board \in [remaining : Nat, retryPass : BOOLEAN]
  /\ prev \in [remaining : Nat \cup {-1}, merged : Nat, ran : Nat, stalls : Nat]
  /\ withheld \in Nat
  /\ outcome \in [reason : Reasons \cup {"none"}, done : BOOLEAN, remaining : Nat]
  /\ restarts \in Nat

-----------------------------------------------------------------------------
(* The state a Run starts with, fresh or resumed                           *)

FreshLoop ==
  /\ results = [s \in Shards |-> "none"]
  /\ marked = {} /\ passed = {} /\ ran = {} /\ stale = {} /\ exhaustedFail = {}
  /\ board = NoBoard /\ prev = NoPrev /\ conflictRetry = {}
  /\ outcome = NoOutcome

Init ==
  /\ opts \in Settings
  /\ artifact = [s \in Shards |-> Absent]
  /\ rows = [s \in Shards |-> "none"]
  /\ runRow = [status |-> "none", pass |-> 0, ledger |-> NoTries, merged |-> {}]
  /\ pc = "top"
  /\ cancelled = FALSE
  /\ pass = 0 /\ ledger = NoTries /\ merged = {}
  /\ planned = opts.shards /\ current = opts.shards
  /\ FreshLoop
  /\ withheld = 0
  /\ restarts = 0

-----------------------------------------------------------------------------
(* The worklist and the ledger (internal/requeue)                          *)

\* Scan: the red claims of every collated artifact, this pass's or not.
Red(s) == IF artifact[s] = Absent THEN {} ELSE artifact[s]

RedShards == {s \in Shards : Red(s) # {}}

Exhausted(tries, s, u) == tries[s][u] >= MaxAttempts

\* bumpAndSelect: every red unit spends one attempt ...
Bumped == [s \in Shards |-> [u \in Units |->
             ledger[s][u] + IF u \in Red(s) THEN 1 ELSE 0]]

\* ... and a shard is eligible while one of its red units has attempts left.
Eligible(tries) ==
  {s \in RedShards : \E u \in Red(s) : ~Exhausted(tries, s, u)}

\* ledgerHasBudget: some recorded unit below the limit, or none recorded yet.
HasBudget(tries, s) ==
  /\ MaxAttempts > 0
  /\ \/ \E u \in Units : tries[s][u] > 0 /\ ~Exhausted(tries, s, u)
     \/ \A u \in Units : tries[s][u] = 0

-----------------------------------------------------------------------------
(* Controller.Run: the top of the loop and the pass                        *)

\* A rail stopped the loop; finish builds the Outcome next.
Stop(reason) ==
  /\ pc' = "finish"
  /\ outcome' = [NoOutcome EXCEPT !.reason = reason, !.done = (reason = "converged")]

Proceed(next) == pc' = next /\ UNCHANGED outcome

\* The rails before a dispatch, in their order.  The spend is read only: it
\* can have reached the ceiling once a shard of this process has run.
TopRail ==
  /\ pc = "top"
  /\ \/ cancelled /\ Stop("ctx")
     \/ ~cancelled /\ pass >= HardMaxPasses /\ Stop("hard-cap")
     \/ ~cancelled /\ pass < HardMaxPasses /\ ran # {} /\ Stop("budget")
  /\ UNCHANGED <<plan, durable, cancelled, snapshot, current, results, marked,
                 verdicts, board, prev, conflictRetry, restarts>>

\* Mutant: the pass counter does not move.
Dispatch_SamePass ==
  /\ pc = "top"
  /\ ~cancelled
  /\ pass < HardMaxPasses
  /\ board' = NoBoard
  /\ results' = [s \in Shards |-> "none"]
  /\ marked' = {}
  /\ conflictRetry' = {}
  /\ Proceed("running")
  /\ UNCHANGED <<plan, durable, cancelled, snapshot, current, verdicts, prev,
                 restarts>>

Dispatch ==
  /\ pc = "top"
  /\ ~cancelled
  /\ pass < HardMaxPasses
  /\ pass' = pass + 1
  /\ board' = NoBoard
  /\ results' = [s \in Shards |-> "none"]
  /\ marked' = {}
  /\ conflictRetry' = {}
  /\ Proceed("running")
  /\ UNCHANGED <<plan, durable, cancelled, ledger, merged, current, verdicts,
                 prev, restarts>>

\* Without a declared dependency in the pass the runner is flat.  The DAG
\* ignores a dependency that is not itself in the pass.
Flat        == \A s \in current : deps[s] = {}
PassDeps(s) == deps[s] \cap current
Waiting     == {s \in current : results[s] = "none"}

Report(s, verdict) == results' = [results EXCEPT ![s] = verdict]

\* A shard runs once its dependencies of this pass are green.  Its artifact is
\* collated whatever the verdict; a red verdict of the pack's schema or build
\* check may leave no claim red.  A worker that fails early leaves the old one.
RunShard(s) ==
  /\ pc = "running"
  /\ s \in Waiting
  /\ \A d \in PassDeps(s) : results[d] = "green"
  /\ \/ Report(s, "green") /\ artifact' = [artifact EXCEPT ![s] = {}]
     \/ \E red \in SUBSET Claims :
          Report(s, "red") /\ artifact' = [artifact EXCEPT ![s] = red]
     \/ Report(s, "error") /\ UNCHANGED artifact
  /\ UNCHANGED <<plan, rows, runRow, pc, cancelled, snapshot, current, marked,
                 verdicts, board, prev, conflictRetry, outcome, restarts>>

\* What never starts: on a cancelled ctx the flat runner leaves no entry (read
\* as a failure) and the DAG skips; a DAG node behind a verdict that is not
\* green is skipped, or left to the cycle sweep when the plan lists it before
\* the dependency that was skipped.
DropShard(s) ==
  /\ pc = "running"
  /\ s \in Waiting
  /\ \/ cancelled /\ Report(s, IF Flat THEN "error" ELSE "skipped")
     \/ \E d \in PassDeps(s) :
          \/ results[d] \in Failed \cup {"skipped"} /\ Report(s, "skipped")
          \/ /\ results[d] \in {"cycle"} \cup (IF s \in ListedEarly THEN {"skipped"} ELSE {})
             /\ \A e \in PassDeps(s) : results[e] \notin Failed
             /\ \A t \in Waiting : \E e \in PassDeps(t) : results[e] # "green"
             /\ Report(s, "cycle")
  /\ UNCHANGED <<plan, durable, pc, cancelled, snapshot, current, marked,
                 verdicts, board, prev, conflictRetry, outcome, restarts>>

EndPass ==
  /\ pc = "running"
  /\ Waiting = {}
  /\ Proceed("fold")
  /\ UNCHANGED <<plan, durable, cancelled, snapshot, current, results, marked,
                 verdicts, board, prev, conflictRetry, restarts>>

-----------------------------------------------------------------------------
(* Controller.Run: folding the verdicts of a pass                          *)

\* The row a verdict is projected on: a skipped shard goes back to queued.
StatusOf(verdict) ==
  CASE verdict = "green"   -> "passed"
    [] verdict = "skipped" -> "queued"
    [] OTHER               -> "failed"

\* A write of the store lands, or its fault (always, on a done ctx) ends the
\* run: what was in memory by then stays for finish.
Landed(next, write) == ~cancelled /\ write /\ Proceed(next)
Faulted             == UNCHANGED <<rows, runRow>> /\ Stop("error")

\* Mutant: a red re-run clears the stale mark of the old branch too.
FoldVerdict_ClearsStale(s) ==
  /\ stale' = stale \ {s}
  /\ IF results[s] = "green"
     THEN /\ passed' = passed \cup {s}
          /\ board' = [board EXCEPT !.retryPass = @ \/ (pass > 1 /\ s \notin passed)]
     ELSE UNCHANGED <<passed, board>>

\* Only a green verdict has a fresh branch, so only it clears a stale mark.
FoldVerdict(s) ==
  IF results[s] = "green"
  THEN /\ passed' = passed \cup {s}
       /\ stale' = stale \ {s}
       /\ board' = [board EXCEPT !.retryPass = @ \/ (pass > 1 /\ s \notin passed)]
  ELSE UNCHANGED <<passed, stale, board>>

MarkShard(s) ==
  /\ pc = "fold"
  /\ s \in current \ marked
  /\ marked' = marked \cup {s}
  /\ ran' = IF results[s] = "skipped" THEN ran ELSE ran \cup {s}
  /\ FoldVerdict(s)
  /\ \/ /\ Landed("fold", rows' = [rows EXCEPT ![s] = StatusOf(results[s])])
        /\ UNCHANGED runRow
     \/ Faulted
  /\ UNCHANGED <<plan, artifact, cancelled, snapshot, current, results,
                 exhaustedFail, prev, conflictRetry, restarts>>

\* Every verdict is folded: Scan.
\* A file that cannot be read or parsed ends the run: it is not taken for green.
ScanArtifacts ==
  /\ pc = "fold"
  /\ marked = current
  /\ \/ board' = [board EXCEPT !.remaining = Cardinality(RedShards)] /\ Proceed("integrate")
     \/ Stop("error") /\ UNCHANGED board
  /\ UNCHANGED <<plan, durable, cancelled, snapshot, current, results, marked,
                 verdicts, prev, conflictRetry, restarts>>

\* integrateGreen and conflictRequeue.  The fold tries the pending branches in
\* dependency order and keeps or rolls back each; a tree it cannot restore
\* ends it, and the items after that one have no result.
Pending == IF Merging THEN passed \ (merged \cup stale) ELSE {}

FoldOutcome(tried, rolledBack) ==
  /\ tried \subseteq Pending /\ rolledBack \subseteq tried
  /\ \A s \in tried : deps[s] \cap Pending \subseteq tried
  /\ tried # Pending => rolledBack # {}

Integrate ==
  /\ pc = "integrate"
  /\ \E tried, rolledBack \in SUBSET Shards :
       /\ FoldOutcome(tried, rolledBack)
       /\ merged' = merged \cup (tried \ rolledBack)
       /\ stale' = stale \cup rolledBack
       /\ ledger' = [s \in Shards |->
            IF s \in rolledBack THEN [ledger[s] EXCEPT ![MergeClaim] = @ + 1]
            ELSE ledger[s]]
       /\ conflictRetry' = {s \in rolledBack \cap current :
                              ~Exhausted(ledger', s, MergeClaim)}
  /\ Proceed("save")
  /\ UNCHANGED <<plan, durable, cancelled, pass, current, results, marked,
                 passed, ran, exhaustedFail, board, prev, restarts>>

\* The integration worktree cannot be cut.
IntegrateFault ==
  /\ pc = "integrate"
  /\ Pending # {}
  /\ Stop("error")
  /\ UNCHANGED <<plan, durable, cancelled, snapshot, current, results, marked,
                 verdicts, board, prev, conflictRetry, restarts>>

SavedState == [status |-> "run", pass |-> pass, ledger |-> ledger, merged |-> merged]

\* SaveState on the pass boundary, then the poll of the audit chain.
SaveState ==
  /\ pc = "save"
  /\ \/ Landed("decide", runRow' = SavedState)
     \/ Stop("error") /\ runRow' \in {runRow, SavedState}
  /\ UNCHANGED <<plan, artifact, rows, cancelled, snapshot, current, results,
                 marked, verdicts, board, prev, conflictRetry, restarts>>

-----------------------------------------------------------------------------
(* Controller.Run: what comes next                                         *)

AtPassCap == ~UntilClean /\ pass >= (IF MaxPasses < 1 THEN 1 ELSE MaxPasses)

\* planResolved and its complement: the shards that still owe a disposition.
Resolved   == merged \cup exhaustedFail \cup passed
\* Mutant: only the shards that never ran are owed.
Unresolved_NeverRan == planned \ (Resolved \cup ran)

Unresolved == planned \ Resolved

UnmergedGreens == IF Merging THEN passed \ merged ELSE {}

\* The next pass: go round the loop with these shards.
NextPass(shards) == current' = shards /\ Proceed("top")

\* The worklist is empty: rebuild what conflicted and run what never did,
\* else converge, or admit what stayed off the tip.
Converge ==
  /\ pc = "decide"
  /\ RedShards = {}
  /\ LET again == conflictRetry \cup Unresolved
     IN \/ again # {} /\ AtPassCap /\ Stop("passes") /\ UNCHANGED current
        \/ again # {} /\ ~AtPassCap /\ NextPass(again)
        \/ /\ again = {}
           /\ Stop(IF UnmergedGreens # {} THEN "unmerged" ELSE "converged")
           /\ UNCHANGED current
  /\ UNCHANGED <<plan, durable, cancelled, snapshot, results, marked, verdicts,
                 board, prev, conflictRetry, restarts>>

\* Forward progress of any kind since the last red pass.
Progressed ==
  \/ board.remaining < prev.remaining
  \/ Cardinality(merged) > prev.merged
  \/ board.retryPass
  \/ Cardinality(ran) > prev.ran

\* markExhaustedFail: the planned shards that did not survive the bump.
GivenUp == (RedShards \cap planned) \ Eligible(Bumped)

\* Something is red: two passes in a row without progress stop the run; else
\* the red units spend an attempt, and the shards that have none left are
\* recorded.
Spend ==
  /\ pc = "decide"
  /\ RedShards # {}
  /\ LET stalls == IF prev.remaining >= 0 /\ ~Progressed THEN prev.stalls + 1 ELSE 0
     IN IF stalls >= 2
        THEN Stop("stalled") /\ UNCHANGED <<prev, ledger, exhaustedFail>>
        ELSE /\ prev' = [remaining |-> board.remaining, stalls |-> stalls,
                         merged |-> Cardinality(merged), ran |-> Cardinality(ran)]
             /\ ledger' = Bumped
             /\ exhaustedFail' = exhaustedFail \cup GivenUp
             /\ Proceed("select")
  /\ UNCHANGED <<plan, durable, cancelled, pass, merged, current, results,
                 marked, passed, ran, stale, board, conflictRetry, restarts>>

\* The spent attempts are saved, and the shards with attempts left, the
\* conflicted ones and their unresolved dependents make up the next pass.
Requeue == (Eligible(ledger) \cap current) \cup conflictRetry

Dependents == {s \in Unresolved \ Requeue : deps[s] \cap Requeue # {}}

Select ==
  /\ pc = "select"
  /\ \/ /\ ~cancelled
        /\ runRow' = SavedState
        /\ \/ AtPassCap /\ Stop("passes") /\ UNCHANGED current
           \/ /\ ~AtPassCap /\ Eligible(ledger) = {} /\ conflictRetry = {}
              /\ Stop("exhausted") /\ UNCHANGED current
           \/ /\ ~AtPassCap /\ Eligible(ledger) \cup conflictRetry # {}
              /\ NextPass(Requeue \cup Dependents)
     \/ UNCHANGED <<runRow, current>> /\ Stop("error")
  /\ UNCHANGED <<plan, artifact, rows, cancelled, snapshot, results, marked,
                 verdicts, board, prev, conflictRetry, restarts>>

\* finish: green work off the tip and planned shards that never ran count as
\* remaining and take back a Done.  MarkConverged is best effort.
NeverRan == planned \ (ran \cup merged)

Finish ==
  /\ pc = "finish"
  /\ pc' = "exited"
  /\ LET done == outcome.done /\ UnmergedGreens = {} /\ NeverRan = {}
     IN /\ outcome' =
             [done      |-> done,
              reason    |-> IF outcome.done /\ ~done THEN "unmerged" ELSE outcome.reason,
              remaining |-> IF done THEN 0
                            ELSE board.remaining + Cardinality(UnmergedGreens)
                                                 + Cardinality(NeverRan)]
        /\ \/ done /\ ~cancelled /\ runRow' = [SavedState EXCEPT !.status = "done"]
           \/ UNCHANGED runRow
  /\ UNCHANGED <<plan, artifact, rows, cancelled, snapshot, current, results,
                 marked, verdicts, board, prev, conflictRetry, restarts>>

-----------------------------------------------------------------------------
(* The environment: cancellation, crash, --resume                          *)

Running == pc \notin {"exited", "down"}

Cancel ==
  /\ Running
  /\ ~cancelled
  /\ cancelled' = TRUE
  /\ UNCHANGED <<plan, durable, pc, snapshot, current, results, marked,
                 verdicts, board, prev, conflictRetry, outcome, restarts>>

\* A reset of everything the process kept in memory.
Forget ==
  /\ results' = [s \in Shards |-> "none"]
  /\ marked' = {} /\ passed' = {} /\ ran' = {} /\ stale' = {}
  /\ exhaustedFail' = {} /\ conflictRetry' = {}
  /\ board' = NoBoard /\ prev' = NoPrev /\ outcome' = NoOutcome
  /\ cancelled' = FALSE

Crash ==
  /\ Running
  /\ restarts < MaxRestarts
  /\ pc' = "down"
  /\ restarts' = restarts + 1
  /\ Forget
  /\ pass' = 0 /\ ledger' = NoTries /\ merged' = {}
  /\ planned' = {} /\ current' = {} /\ withheld' = 0
  /\ UNCHANGED <<opts, durable>>

\* The resume seed: failed shards with attempts left, and every shard left
\* unfinished or green but off the tip (resumeIncomplete).
FailedRows == {s \in Shards : rows[s] = "failed"}
Readmitted == {s \in FailedRows : HasBudget(runRow.ledger, s)}
\* Mutant: the skipped dependents are forgotten.
Incomplete_PassedOnly == {s \in Shards : rows[s] = "passed" /\ s \notin runRow.merged}

Incomplete == {s \in Shards : \/ rows[s] = "queued"
                              \/ rows[s] = "passed" /\ s \notin runRow.merged}

\* Mutant: a resume starts from the ledger the flags describe.
Restored_FreshLedger ==
  /\ pass' = runRow.pass
  /\ ledger' = NoTries
  /\ merged' = runRow.merged

\* What the run row gives back.
Restored ==
  /\ pass' = runRow.pass
  /\ ledger' = runRow.ledger
  /\ merged' = runRow.merged

\* Only a run row that is not done can be found.
Resume ==
  /\ \/ pc = "down" /\ UNCHANGED restarts
     \/ pc = "exited" /\ restarts < MaxRestarts /\ restarts' = restarts + 1
  /\ runRow.status = "run"
  /\ pc' = "top"
  /\ Forget
  /\ Restored
  /\ planned' = Readmitted \cup Incomplete
  /\ current' = Readmitted \cup Incomplete
  /\ withheld' = Cardinality(FailedRows \ Readmitted)
  /\ UNCHANGED <<opts, durable>>

Step ==
  \/ TopRail \/ Dispatch
  \/ \E s \in Shards : RunShard(s) \/ DropShard(s) \/ MarkShard(s)
  \/ EndPass \/ ScanArtifacts \/ Integrate \/ IntegrateFault \/ SaveState
  \/ Converge \/ Spend \/ Select \/ Finish

Next == Step \/ Cancel \/ Crash \/ Resume

Spec == Init /\ [][Next]_vars

\* The loop keeps going and workers return; crashes, cancellations and
\* resumes are never owed.
FairSpec == Spec /\ WF_vars(Step)

-----------------------------------------------------------------------------
(* What the loop promises                                                  *)

\* A run that reports itself done with nothing remaining, and that withheld
\* no shard when it was resumed, has every shard of the plan green, no claim
\* red and every branch on the tip, whatever crashed before (I2: no false
\* green over work that was skipped, dropped or never folded).
CleanIsHonest ==
  pc = "exited" /\ outcome.done /\ outcome.remaining = 0 /\ withheld = 0 =>
    \A s \in opts.shards : /\ rows[s] = "passed"
                           /\ artifact[s] = {}
                           /\ Merging => s \in merged

\* A running process owes every shard of the plan that is not on the tip: it
\* is in the seed set or was counted as withheld.  A shard a resume loses is
\* invisible to every later honesty check.
PlanIsAccounted ==
  Running => Cardinality(opts.shards \ (planned \cup merged)) = withheld

\* What is on the tip, in memory or durably, is not run again and stays
\* green: neither a retry, a dependent's requeue nor a resume reaches it.  And
\* a fold only tries a branch whose shard's last verdict is green: after a
\* conflict the old branch stays out until a fresh one replaces it, also when
\* the rebuild came back red.
TipStaysGreen ==
  \A s \in merged \cup runRow.merged \cup (IF pc = "integrate" THEN Pending ELSE {}) :
    rows[s] = "passed" /\ artifact[s] = {}

\* The durable run row only moves forward, across crashes and resumes: passes
\* and spent attempts are never given back, nothing leaves the tip, and done
\* is final.
RunRowAdvances ==
  [][/\ runRow.pass <= runRow'.pass
     /\ runRow.merged \subseteq runRow'.merged
     /\ \A s \in Shards, u \in Units : runRow.ledger[s][u] <= runRow'.ledger[s][u]
     /\ runRow.status = "done" => runRow'.status = "done"]_vars

\* Controller.Run returns, whatever the workers and the integrator answer.
Terminates == <>[](pc \in {"exited", "down"})

=============================================================================
