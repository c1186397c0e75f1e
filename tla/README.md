# NilCore: a TLA+ verification project

NilCore is a Go program (about 80 000 lines without tests) that drives coding
agents over a repository: it plans work, runs workers in disposable worktrees,
lets a verifier decide what is green, folds green branches onto a tip and keeps
an append-only audit log of everything. This directory models the parts of it
whose correctness depends on *orders of events*: scheduling, retries, crashes,
resumes, queues and budgets. TLC checks the models on small instances; the TLA+
proof system (TLAPS) proves what matters most for every instance.

Contents

1. Inventory of the system
2. Modules and how they correspond to the code
3. Runs: what is checked, on which bounds, with which fairness
4. Theorems: what is proved, and how
5. The finding, and what the code does otherwise than a reader expects
6. What is not modelled
7. Plan
8. Running it

Source paths below are relative to `src/`.

---

## 1. Inventory

### 1.1 How the parts interact

```
 front ends / channels / serve loop / cron / webhooks
        |  turns, signals, wakes
        v
   session ---- inbox, ask and gate bridges ----+
        |  one drive at a time                  |
        v                                       v
 project loop, supervisor, swarm controller   approvals (graapprove), policy
        |         |            |
        |         |  waves     |  passes
        |         v            v
        |     DAG scheduler (spawn) -> worker pool (scheduler)
        |         |
        v         v
     backends: agent loop, model providers (resilience, meter, budget), tools,
     sandbox, verifier (+ cache), agent bus
        |
        v
   integrator (merge, verify, keep or roll back)         artifacts, reports
        |
        v
   event log (hash chain, store mirror) -> experience projection, trust,
                                           flywheel, trace, inspect
```

Everything appends to the event log. The store (SQLite) holds task rows, queue
rows, wakes, objectives, a mirror of the log and the experience projection.

### 1.2 Components

| component | state it keeps | operations | hard behaviours | correct when |
|---|---|---|---|---|
| **DAG scheduler and pool** `internal/spawn/dag.go`, `internal/scheduler` | the subtasks' dependencies, latches, the results map; a FIFO and workers per wave | `Run`, `collectReady`, `worker`, `run` | workers in any order, a cancellation between any two steps, cyclic or dangling plans | a task runs once, only after all its dependencies passed; every outcome is final and explained; `Run` returns |
| **Swarm controller** `internal/swarm/{passes,queue,runner}.go`, `internal/requeue`, `cmd/nilcore/swarm.go` | shard rows and run row (durable), collated artifacts (durable), passed / ran / stale / merged sets, retry ledger, stall counter | `Run`, `Mark`, `SaveState`, `MarkConverged`, `Scan`, `bumpAndSelect`, `integrateGreen`, `finish`, `--resume` | crash between any two writes, store faults, red and conflicted retries, four rails that can stop it | a clean outcome is honest, no shard is lost by a resume, retries stay in budget, merged work stays green, it returns |
| **Event log** `internal/eventlog`, `internal/maint/rotate.go` | the file, the chain anchor, the mirror in the store, rotated generations | `Append`, `Open` (heal, anchor), `Close`, `Verify`, `RotateLog` | short writes, a crash inside a write, failed heals, rotation of a torn file | a log that verifies lost nothing; sequence numbers never restart; committed lines never change; the mirror never leads |
| **Native agent loop** `internal/backend/native.go`, `internal/inbox` | the conversation, the step and retry counters, the verdict, the inbox and its steer signal | `Run` (drain, compact, call, steer, dispatch, finish, sleep, ask), `Push` | a line typed at any instant, a watcher racing the end of a stream, retries that give back their step, compaction of a history that must stay well formed | a steer comes before the calls it interrupts, nothing typed is lost, every call is answered, green was judged last, it returns |
| **Session** `internal/session`, `internal/ask` | phase, mode, history, work state, inbox, reply bridges | `Turn`, `route`, `launch`, `drive`, `Cancel`, `SetMode`, `persist`, gate and ask | turns racing the end of a drive, cancel racing a turn, two gates, persistence after unlock | a turn is answered, steered or queued, never lost; at most one drive; a gate's answer reaches that gate; the newest state is the durable one |
| **Experience projection** `internal/experience` | standings, watermark | `Fold`, `Rebuild` | bounded hook queue, rotation, rebuild while folding | the stored standings equal a fold of the log |
| **Integrator** `internal/integrate`, `internal/worktree` | the integration worktree's tip | `Integrate`, `mergeOne` | conflicts, red combinations, git failures half-way | the tip only ever moves to a verified tree |
| **Agent bus** `internal/agent/bus`, `internal/super/reader.go` | mailboxes, waiters, message count | `Register`, `Deregister`, `Send`, `Ask`, reader | full mailboxes, late answers, teardown during a send | an ask gets its own answer or its timeout; no send on a closed mailbox; nobody waits for ever |
| **Supervisor** `internal/super`, `internal/project`, `cmd/nilcore/{build,resume}.go` | handles, node states, the tip, the durable row | `spawn_subagent`, `integrate`, snapshot, slices, resume | failed attempts re-cut, an integration that ends early, a crash between a merge and its row | only passed work is on the tip, the row says what the tip holds, a resume keeps it |
| **Budgets** `internal/budget`, `internal/meter`, `internal/blastbudget` | totals per task, global and per axis | `Charge`, `Credit`, ceilings | charges after the call, concurrent calls | what a call cost is recorded once or refused, and no ceiling is passed |
| **Graded approval** `internal/graapprove` | rate per day, trust view | `Approve`, reserve / release | three reservations in sequence, rolled back on refusal | no more automatic approvals than the clause allows; a refusal keeps nothing |
| **Wakes, cron, serve** `internal/wake`, `internal/cron`, `internal/server` | wake rows, claim set, last-fired marks | `Arm`, `Claim`, `Disarm`, `Tick`, `fireDueWakes` | several pollers, re-arming during a claim, crash around a fire | a wake fires once and an armed wake is not lost |
| **Provider resilience** `internal/model/resilience.go`, `internal/strongcap`, `internal/pool` | breaker per provider, slots | `allow`, `recordFailure`, `recordSuccess`, failover | concurrent calls around the cooldown | what was painted is what is returned; a cancelled call is no fault |
| **Durability** `internal/agent/durability.go` | task rows, kept branches | checkpoint, `Interrupt`, `Resume`, `ResumeBranch`, `SweepSuspended` | interrupt racing completion, order of anchors | a finished task is not run again; the newest anchor is the one resumed |
| **Verification cache** `internal/verify`, `internal/verify/vcache` | verdicts by tree hash | `Check`, `lookup` | the tree changes during a check | a cached pass was earned by that tree |
| **Autonomous sources** `internal/autosrc`, `internal/objective`, `internal/trigger` | bounded queue, objective rows | `Enqueue`, `Dequeue`, pump, `mark` | full queue, disable racing a mark | a disabled objective stays disabled; no wake-up is lost |
| Project loop, kernel, router, planner | a run's plan | sequential loop | | decided by a model's answers |
| Delegated backends, roster, advisor | transcript of one run | external commands | | driven from outside |
| Providers, wire formats | none beyond a call | HTTP and JSON | | tests over fixtures |
| Tools, worktree confinement, MCP, registry, skills | files | file and process calls | | path and string handling |
| Code intelligence | indexes | parse, index, rank | | sequential data processing |
| Sandbox, policy, secrets, egress | rule tables | system calls | | rests on the kernel |
| Browser and desktop control | a remote session | protocol clients | | external programs |
| Front ends, channels, onboarding | none of their own | I/O, rendering | | |
| Artifacts, schemas, reports, traces | files | marshal, render | | data formats |
| Trust, flywheel, memory, lessons | folds of a verified log | replay | | sequential |
| Housekeeping and helpers | directories | GC, paths | | |

`PROJECT.json` lists the same components with their files and whether they are
modelled, and under `hazards` the places where the code is exposed to an order of
events that a test would hardly reach, with the properties that cover each.

---

## 2. Modules

### 2.1 `DagScheduler` — the wave scheduler over the worker pool

Models `DAGScheduler.Run` / `collectReady` / `runOne` (`internal/spawn/dag.go`)
together with `Scheduler.worker` / `run` (`internal/scheduler/scheduler.go`).

| state | code |
|---|---|
| `dependsOn` | `DependsOn` of each subtask; a variable that never changes, so one run visits every graph |
| `pc`, `cursor` | where the scheduling goroutine is: loop head, `collectReady` at position `cursor` of the input, `wg.Wait`, the last sweep |
| `released`, `results` | `node.released`, the results map |
| `queue`, `work`, `wave` | the FIFO, the workers and the result map of the *current* pool; a new pool is made per wave |
| `cancelled` | `ctx.Err() != nil` |
| `started` | history: nodes handed to `RunSub` |

`BeginRound`, `Visit` (which is `Pass`, `Block` or `Release` of one node),
`EndRound`, `EndWave` and `Sweep` are the steps of `Run`; `Pop`,
`DropCancelled`, `Begin` and `Finish` are the steps of a worker; `Cancel` can
happen between any two of them. `collectReady` walks dependencies in plan order
and stops at the first one that decides, so a node with both an unresolved and a
failed dependency may be left waiting or blocked: the model allows both.

`DagContract` is the abstract specification: every subtask of a graph gets one
outcome, never revised, and none runs before its dependencies passed. Rounds,
waves and workers are hidden by the refinement mapping `outcome` (a result
exists once a worker has recorded it). `ImplementsContract` is checked as a
property of `DagScheduler`.

`MCDagScheduler` fixes three nodes and the input order. `DagSchedulerProofs`
holds the theorems.

### 2.2 `SwarmController` — the multi-pass loop, its durable rows and the resume

Models `Controller.Run` with every rail, the durable queue, the worklist and the
ledger of `internal/requeue`, the shard worker and the `--resume` of
`cmd/nilcore/swarm.go`.

| state | code |
|---|---|
| `artifact` | per shard, the red claims of the collated artifact, or none; durable |
| `rows`, `runRow` | shard rows and the run row (status and the `SwarmState` in its detail); durable |
| `pass`, `ledger`, `merged` | `SwarmState` in memory |
| `planned`, `current`, `results`, `marked` | the plan of this process, the shards and verdicts of this pass, those folded so far |
| `passed`, `ran`, `stale`, `exhaustedFail`, `conflictRetry`, `board`, `prev` | the loop's own variables |
| `withheld` | shards a resume did not re-admit for want of budget |
| `outcome` | what `finish` returned |

A pass is `TopRail` or `Dispatch`, then `RunShard` / `DropShard` per shard, `EndPass`,
one `MarkShard` per verdict, `ScanArtifacts`, `Integrate` (or `IntegrateFault`),
`SaveState`, then `Converge` or `Spend` and `Select`, and at last `Finish`. A store
write can fail at every one of them; on a cancelled context it always does. The scan can
fail on an artifact it cannot read, which ends the run. `Cancel`, `Crash` and `Resume`
can come in between.

How verdicts are split into kinds: `green`; `red` (the verifier said no, with
any set of red claims, the empty one included, because a schema or build check
can be red over claims that all pass); `error` (a fault before an artifact was
written); `skipped`; `cycle`. The DAG run inside a pass is abstracted to what
`DagScheduler` shows of it: a shard runs after its dependencies *of this pass*
are green, and what does not run is skipped or, where the plan lists it before a
dependency that is skipped (section 5.2), swept up as a cycle.

`opts` holds the plan and the flags of the run, chosen among `Settings`:
`MCSwarmController` gives two shards (independent or in a chain) that are merged
until clean, and three (a join or a chain) that are only collated, in two passes.

### 2.3 `EventLog` — the hash-chained log, its mirror, the heal and the rotation

Models `internal/eventlog/eventlog.go` and `internal/maint/rotate.go`, as `serve`
calls them.

A file is its newline-terminated lines followed by at most one piece of
unterminated bytes. An event's hash is its `id`, unique per append; a line that
does not parse is `Torn`. `Write` is the write inside `Append` with its three
outcomes: it lands, it fails short, or the process dies in it. The last two
leave nothing, a prefix, or the whole record without its terminator (`Cut`).
What is written after a tail that was left behind shares its line (`Glued`).
`Mirror` is the rest of `Append`: the row in the store, which can fail. `Stop` is
`Close` or a crash between two steps; `Open` heals (or fails to) and anchors the
chain at the last line that parses; `Rotate` moves the file aside while no
process has it open. `landed` is history: the events of this generation whose
write returned.

`EventLog` is checked as it stands; `EventLogProofs` holds its theorems.

### 2.4 `NativeLoop` — one drive of the agent loop

Models `Run` of `internal/backend/native.go` with the inbox it drains.

| state | code |
|---|---|
| `pc`, `step` | where the loop stands, and its counter `i` |
| `msgs` | the conversation, of which the kind of each turn is kept |
| `over`, `overflowStreak`, `capStreak`, `tok` | the compaction threshold and the two bounded retries |
| `proposal`, `todo`, `finished`, `judged` | the calls of the reply, those left, a finish among them, the last verdict on the tree as it stands |
| `queued`, `signal`, `typed` | the inbox: its queue, the one-place steer channel, and how far each `Push` got |
| `arrivals`, `summarised`, `heard` | history |

`Push` is two steps, the append under the mutex and the send on the channel, and so
are the drain at the top of a step and the receive that clears a stale signal: the
loop and the principal run between them. `summarised` names the messages that a
compaction replaced by its summary; what the summary says of them is not modelled. A
call may be streamed or not, answered, cut off at the token limit, refused for its size,
fail, or be interrupted.

### 2.5 `Session` — Turn calls, drives, bridges and saves

Models `internal/session` (`Turn`, `launch`, the drive's goroutine, `gate.go`,
`ask.go` with `internal/ask`, `Cancel`, `persist.go`). A drive is named after the
line that started it. Every critical section of the session's mutex or of the ask
box is one action; what happens between them (the phase a `Turn` read, a snapshot
on its way to the store) is state: `at`, `saw`, `saving`. `for` is history: the question
that stood when the line's `Turn` read the phase, which may not be the one that the bridge
waits for when the line gets there. A question that opens in between marks such lines
`behind`.

### 2.6 `Integrator` and `Supervisor` — what reaches the tip

`Integrator` models one call of `Integrate` (`internal/integrate`): every git
command is a step that can fail, and all fail once the context is cancelled. A
commit is the set of items whose work it holds, so "merged", "contained" and
"rolled back" are set operations. `Supervisor` EXTENDS it with the workers and the
branches they are cut from (`internal/super`), the bookkeeping of what merged, the
snapshot row, the slices of `internal/project`, crashes, and the resume of
`cmd/nilcore/resume.go`. A process ends at the end of its run or in a
crash: both are `Exits`, with what they leave behind. `MCSupervisor` runs both together: two
items, one built on the other.

### 2.7 `Approval` — graded approvals over the blast meter

Models `ApproveStructured` of `internal/graapprove` from the trust bar on, with
`internal/blastbudget`: the rate window, the irreversible slot and the dollars are
taken one after the other and given back when a later gate refuses. Windows live in
memory and are seeded from the log. `Approvers` stands for the approvers that `serve`
builds, one for each conversation thread; `Midnight` and `Restart` may come between
any two steps. A restart rebuilds the day's dollars through the meter itself, as
`rebuildBlastDay` does; it pins them at the ceiling when the log cannot be read to its end,
and takes the day for a new one when the log cannot be opened. `Emit` may lose its line:
the append tells nobody, and the action is approved all the same. What these leave behind
is in the histories `missing`, `split` and `unfenced`.

### 2.8 `Nap` — sleeping tasks, their anchors and timers

Models what survives a drive of a conversation under `serve`: task rows
(`internal/agent/durability.go`), `task/` and `suspend/` refs
(`internal/agent/orchestrator.go`, `internal/worktree`), and the wake
(`internal/wake`, fired by the waker of `internal/server`). `executeSingle` drops the error
of every checkpoint write (`_ = o.Checkpoint...`): `Record` is such a write, which lands or
is dropped, and `stale` names the rows a dropped one left as they were. `MaxFailures` bounds
these together with the lookups, pins and deletions of refs, disarms and boot reads that
fail. `Cancel` (the operator's), `Crash` and `Terminate` may come between any two steps of a
drive, except that a cancel between the two steps of `Arm` shows only after the second; the
next process sweeps, re-drives and serves. A drive's
id is its number *in its process*, a lot of work its number over all processes,
which is what the finding needs.

### 2.9 `AgentBus` — mailboxes, asks and the reader

Models `internal/agent/bus`, the reader of `internal/super/reader.go` and the tools
a worker has. The bus's lock is modelled as Go's `RWMutex` is: holders for reading,
and a waiting writer that keeps new readers out. A delivery to a full mailbox waits
with the lock held until there is room, its context ends or its time is over.

### 2.10 `Autosrc` — the autonomy daemon and standing objectives

Models `internal/autosrc` and `cmd/nilcore/autonomy.go` over `internal/objective`: a
directory of signal files and a backlog of objectives, a pump for each, the bounded
priority queue, the drain loop and its handler slots, the read-change-put of an
objective's row by pump and handler, an operator's disable in another process. `Feed`
removes a file whether or not it could be read; `unread` names those it could not.

### 2.11 `ModelCalls` — metered calls over retries, failover and breakers

Models a stack as `internal/pool` builds it: for each worker a `meter.Provider`, over
one `strongcap.Provider`, over one `model.Resilient` with a breaker per provider, and
one `budget.Ledger`.

| state | code |
|---|---|
| `stage`, `walk` | where a call stands: the limiter, the provider in turn, the retry |
| `result`, `painted`, `resp` | the attempt in hand, the chunks the caller saw, what the walk returns |
| `failures`, `openUntil` | the breakers |
| `spent`, `total` | the ledger |
| `cancelled` | the context of the call |
| `faults`, `produced`, `refused` | history |

The text of an attempt is the attempt's number, so text painted twice, or painted
and not returned, is visible. A call's timeout is one of the faults worth retrying;
delays are left to the interleaving of `Tick`.

---

## 3. Runs

| run | instance | states | properties |
|---|---|---|---|
| `dag_scheduler` | every graph over 3 nodes and one undefined id, 2 workers | 421 000 | `OutcomesExplained`, `ImplementsContract`, `Terminates` |
| `swarm` | 2 shards merged until clean, 2 attempts; or 3 collated, 1 attempt, 2 passes; hard cap 3; 1 restart | 338 000 | `CleanIsHonest`, `PlanIsAccounted`, `TipStaysGreen`, `RunRowAdvances`, `Terminates` |
| `event_log` | 5 appends, 3 faults, 2 rotations, any number of crashes | 232 000 | `VerifyIsHonest`, `CrashesLoseNothing` |
| `native_loop` | 2 steps, a follow-up and a steer, one retry of each kind, one ask, one kept exchange | 576 000 | `AnsweredAtCall`, `HeardBeforeActing`, `FoldedInOrder`, `ResultsAreEarned`, `Returns` |
| `session` | 3 lines (two read as yes or no), 2 questions a drive, 1 front-door call, 1 crash | 666 000 | `OneDriveOwnsThePhase`, `NoAnswerCrosses`, `FollowUpsAreKept`, `SavedWhenSettled`, `CancelUnwinds` |
| `supervisor` | 2 items, one on the other, 2 slices, 1 fault, 1 crash, a cancellation | 1 650 000 | `TipIsGreen`, `OnlyPassedWorkIsOnTip`, `MergedIsOnTip`, `ResumedWorkIsKept` |
| `approval` | 2 deciders, 2 approvers, 2 days, 2 processes, 1 lost line; 3 approvals and 3 dollars a day, 2 irreversible, blast ceiling 1 | 4 698 000 | `CeilingsHold`, `FenceIsExact`, `SlotsComeBack` |
| `nap` | 2 drives a process, 2 processes, 2 timers, 1 failure of the store or of git, 1 anchor kept | 1 541 000 | `WakeFiresOnce`, `SleeperKeepsItsAnchor`, `InFlightIsLive`, `DueWakeIsRun` |
| `nap_kept` | the same | 8 000 | violates `NappedWorkIsKept`: the finding (section 5.1) |
| `agent_bus` | 2 workers, mailboxes of 1, 3 messages at most, 2 sends | 58 000 | `NeverIntoClosed`, `ReplyFindsItsAsk`, `StopEnds` |
| `autosrc` | 1 file, 1 objective, 1 slot, queue of 2, periods 2 and 1, 2 ticks, 1 restart | 195 000 | `NothingIsDropped`, `Debounced`, `ShutdownEnds` |
| `model_calls` | 2 workers, 2 providers (one streams), 1 retry, threshold 2, ceilings 2 and 3, 2 calls, 2 ticks | 1 495 000 | `PaintedIsReturned`, `CancelsDontTrip`, `LedgerIsExact` |

Each property is stated in words, with the code it is about, above its definition.

### 3.1 Why the bounds are enough

* *`dag_scheduler`*: three nodes is the least number with a cycle that has a node
  downstream of it, and a skipped dependency between a failed node and its
  transitive dependent. Two workers give every order of two tasks of a wave. The
  theorems remove the bound for the safety properties.
* *`swarm`*: two shards with merging have a conflict between them, a retry of one
  while the other is on the tip, and a dependent whose dependency was rolled back.
  Two attempts make "one left" differ from "none left"; a hard cap of three lets a
  shard be retried after a retry. Three shards are needed for two dependencies
  (join) and for a skip that propagates (chain); they run without merging. One
  restart is a crash at any step followed by a resume.
* *`event_log`*: a glued line followed by good ones, a failed heal, a reopening on
  the corrupt tail and a rotation after each fit. The theorems hold for all values.
* *`native_loop`*: two steps let a step be given back, a wrap-up notice come before
  the last one, and a steer in one step be answered in the next. One message of each
  kind meets every pair of drains; seeds are conversations with a compactable past.
* *`session`*: three lines start a drive, answer its gate and race both; two
  questions let an answer typed for one meet the next; the crash separates what was
  saved from what was not.
* *`supervisor`*: two items, one cut from the other, have a merge that holds the
  other's work and a rollback of one behind the other. The second slice starts from
  what the first handed on.
* *`approval`*: two concurrent decisions are the least that can both pass a check
  before either records; the ceilings of the meter are reached within the instance, and
  the rate by two approvers or over a restart; the midnight, the restart and the lost line
  separate what a window counted from what the log holds. Each exclusion of `CeilingsHold`
  was found necessary in it: without it TLC finds the property violated.
* *`nap`*: two drives, two processes and two timers let a drive sleep, the process
  die, the number be used again, and a timer be replaced while the waker holds the
  old one. One failure falls on any write, read, pin or deletion of the run.
* *`agent_bus`*: mailboxes of one place are full after one message; two workers let
  one leave while another delivers. With three sends the properties were also found
  to hold.
* *`autosrc`*: a queue of two is full with one signal of each source waiting in its
  pump; two ticks let a period pass while a run is under way. With three ticks the
  properties were also found to hold.
* *`model_calls`*: a threshold of two opens within one call and half-opens for the
  other; two calls of cost one or two meet each ceiling from both sides. With three
  calls and one tick the properties were also found to hold.

### 3.2 Fairness

Crashes, cancellations, faults, restarts and lines typed are never owed. What is
weakly fair is code whose goroutine can run:

* `DagScheduler`: the scheduling goroutine and each worker; that `RunSub` returns is
  ensured by its callers with a wall-clock limit.
* `SwarmController`: the loop and its workers together (`Step`). `Terminates` is
  "eventually for ever exited or down", since a run that ended may be resumed once.
* `NativeLoop`: the loop's next step; a call of the model returns, since it has a
  timeout.
* `Session`: the goroutine of each drive. Nobody owes an answer: `CancelUnwinds` is
  about a cancelled drive.
* `Supervisor`: the run's goroutine, under which no temporal property is stated;
  its properties are safety.
* `Nap`: the drive, the waker, the boot, and the re-drives that end in serving. That a
  timer falls due, a line is typed or a drive commits is not owed.
* `AgentBus`: each sender and worker, and the reader's and the supervisor's own
  steps. A delivery that waits has its time-out among its steps.
* `Autosrc`: the drain loop, each pump and each handler. `Run` of a handler returns.
* `EventLog`, `Approval` and `ModelCalls` promise nothing to happen.

### 3.3 Deadlock

`EventLog` and `NativeLoop` are checked for deadlock (a loop that has returned
stutters explicitly). The other systems end: a run has returned, a process is over
its last boot, or the bounds are spent. Where an end is promised, a liveness
property says that it is the only way to stop.

### 3.4 Mutants

Each property of a passing run is paired with a mutated definition of the code (a
dropped guard, a forgotten reset, a swapped order; the operators with a suffix such
as `Rollback_ToBase`, `AskSteps_SendFirst`, `Final_Never`), listed in
`PROJECT.json`. With the mutant in place of the definition the property fails, so it
does observe the code it is about.

---

## 4. Theorems

For every value of the constants, under the named assumptions of each module: the input
order lists every node once (`OrderAssumption`), bounds are natural numbers, actors and
families are finite sets, `None` and the like are no value of the type they stand beside
(`NoneAssumption`, `StateAssumption`, `TurnsAssumption`, and parts of `NapAssumption`
and `AutosrcAssumption`), and a seeded conversation starts with its goal
(`LoopAssumption`, from `Run`, which appends to what a session handed it). Each is what
the Go types give.

Every safety property and every action property of a passing run is proved, and so is
the refinement of `DagContract`. A proof module is named for the component it opens with;
three of them hold a second one at their end, whose names are its own: `Nap` in
`EventLogProofs`, `Autosrc` in `NativeLoopProofs` and `ModelCalls` in `ApprovalProofs`.
The proofs have one shape: an inductive invariant in named
parts, each a sentence about the code, one lemma per action and part, and the
property from the invariant.

### 4.1 `DagSchedulerProofs`

| theorem | statement |
|---|---|
| `TypeCorrect` | `Spec => []TypeOK` |
| `DependenciesFirst` | `Spec => []RunsAfterDeps` |
| `AtMostOnce` | `Spec => []RunsOnce` |
| `VerdictsFinal` | `Spec => ResultsFinal` |
| `ResultsExplained` | `Spec => []OutcomesExplained` |
| `RunKeepsItsContract` | `Spec => ImplementsContract` |

The middle three are not inductive alone. `DagInv` adds `PoolInv` to them: the
pool is empty between waves; whatever is queued, in a worker or recorded in the
wave's map was *released* and has no folded verdict; what is running or recorded
was started, and what was started was released. A released node's dependencies
all passed and stay so, because the fold in `EndWave` meets only nodes without a
verdict and so replaces none (`AllPassedStays`). `RunsOnce` needs that the FIFO
has no repetition and shares no node with the workers. `OutInv` says of each verdict
in the map why it is there, and gives `OutcomesExplained`. Of a node called a cycle that is
`NeverFreed`: the nodes that the last round left without a verdict each wait for another of
them, or were listed before a dependency that is skipped (`Overtaken`, section 5.2).

The refinement maps initial states to initial states, and every step to a step of the
contract or a stutter: a visit may block a node, a worker's report is the contract's
`Run`, the sweep its `GiveUp`. The guards of the contract are the invariants above.

### 4.2 `EventLogProofs`

| theorem | statement | invariant |
|---|---|---|
| `TypeCorrect` | `Spec => []TypeOK` | `TypeInv`: before the mirror's insert something has landed |
| `VerifyNeverHidesALoss` | `Spec => []VerifyIsHonest` | `LandedInv`: a generation without a torn line is exactly what landed; a file that verifies has no torn line |
| `SequenceNeverRestarts` | `Spec => []ReadableInOrder` | `OrderInv`: readable lines *and the unterminated record* are sorted, terminated ones lie below the anchor |
| `CrashesNeverBreakTheLog` | `Spec => []LiveVerifies` | `CrashInv`: without faults the lines are chained, an open log has no tail and is anchored at their end |
| `MirrorFollowsTheLog` | `Spec => []MirrorNeverLeads` | without faults what landed is on disk, since terminated lines are kept (`FilesKeepLines`) |
| `CrashesAreHarmless` | `Spec => []CrashesLoseNothing` | the two above |
| `HistoryIsAppendOnly` | `Spec => AppendOnly` | type correctness |

The unterminated record must be in `OrderInv` because a heal can fail: `Open`
then anchors on that record if it parses, and its number must be above all
others.

The second half is about `Nap`, which shares no state with the log:

| theorem | statement |
|---|---|
| `NapTypeCorrect` | `NapSpec => []NapTypeOK` |
| `WakeOnce` | `NapSpec => []WakeFiresOnce` |
| `AnchorKept` | `NapSpec => []SleeperKeepsItsAnchor` |
| `FlightIsLive` | `NapSpec => []InFlightIsLive` |

`NapInv` has one part for each, and `Numbers` for the types: what a process has
launched, may still re-drive and may still launch stays within two drives for each id,
so a drive always finds a number of its own. `TimerInv`: an arming that was delivered is
spent, that is, the store has marked it or a later one has replaced it; the waker never
stands at a delivery of an arming that is not spent, though it marks *whatever* row is
there, nor holds one that was delivered. The claimed set plays no part in this: it is
memory, and what counts after a restart is the row. `DriveInv`: a drive past its begin
has a row that says it runs, or that its own failed write left stale; its predecessor is
another task, retired before its ref goes, or stale; and once pinned its commits are
under its own ref. So no step of a drive touches the ref of a row that still sleeps and
is not stale; only the sweep does, and then it is named in `capped`. `FlightInv`: a row
in flight has a drive, waits for its re-drive while the process resumes, was cancelled,
or is stale.

### 4.3 `SwarmControllerProofs`

| theorem | statement |
|---|---|
| `TypeCorrect` | `Spec => []TypeOK` |
| `TipIsGreen` | `Spec => []TipStaysGreen` |
| `NothingOwedIsLost` | `Spec => []PlanIsAccounted` |
| `DoneIsHonest` | `Spec => []CleanIsHonest` |
| `RowAdvances` | `Spec => RunRowAdvances` |

`SwarmInv` is the conjunction of `TypeOK` and five parts. `TipInv`: what is on the tip,
or green on a branch that may still be folded, has a green row and an artifact without
red claims. It needs `PassInv`: no pass contains such a shard, because a pass is made of
red shards, of shards whose branch conflicted and of shards that never passed, and a
resume seeds from rows that are not passed or not on the saved tip; so neither the row
nor the artifact is written again. `RowInv`: a running process is ahead of the run row
it started from. `PlanInv`: every shard of the plan has a row by the time a run row is
written, so a resume, which seeds from rows, leaves out only what is on the tip or
withheld. `DoneInv`: what `finish` found when it called a run done.

### 4.4 `NativeLoopProofs`

| theorem | statement |
|---|---|
| `LoopTypeCorrect` | `Spec => []TypeOK` |
| `CallsAreAnswered` | `Spec => []AnsweredAtCall` |
| `SteersAreHeard` | `Spec => []HeardBeforeActing` |
| `TypedIsFolded` | `Spec => []FoldedInOrder` |
| `ResultsEarned` | `Spec => []ResultsAreEarned` |

`LoopInv`: wherever the loop stands the conversation is sound, but for the one reply
whose calls are being dispatched (`ConvInv`), and a steer that was heard while a reply
is awaited has left its mark, on the signal or on the watcher (`HeardInv`). The lemma
that carries `ConvInv` is that a compaction keeps a conversation sound: it cuts where an
exchange starts. The cut is the greatest of a set of positions, so the module first
proves that a bounded set of numbers that is not empty has a least and a greatest one.
`FoldedInOrder` speaks of the conversation and the inbox put end to end. A step may add
turns that are not messages anywhere (`TurnsInside`), move the whole queue to the end of the
conversation, append an arrival to the queue (`LastArrived`), or compact: what a compaction
takes lies before all it keeps, and is recorded as summarised (`CompactedOrdered`).

The second half is about the autonomy daemon, `Autosrc`:

| theorem | statement |
|---|---|
| `DaemonTypeCorrect` | `DaemonSpec => []DaemonTypeOK` |
| `NothingDropped` | `DaemonSpec => []NothingIsDropped` |
| `DebouncedHolds` | `DaemonSpec => Debounced` |

`Places` says what each goroutine holds where it stands: a pump that is to enqueue has a
signal, one that is to mark an attempt has the note of the objective it holds, the drain
loop has a signal exactly while it waits for a slot. With it `NothingIsDropped` is
inductive (a file that could not be read is excepted, and with nobody); what a dequeue
leaves is all the other signals (`WithoutKeepsOthers`), and an enqueue takes the drain
loop out of its wait. `Spaced` is what `Debounced` needs: a row's last run is never
later than an attempt that was read from it and is to be put back, and, until a change
is put back over another, never earlier than the last selection. A pump between its
selection and its put holds an attempt that was due against that row, and the spacing it
was held to is at least the shorter period (`SpacingIsEnough`). A handler that puts its
row back in between makes the row later, not earlier.

### 4.5 `SessionProofs`

| theorem | statement |
|---|---|
| `SessionTypeCorrect` | `Spec => []TypeOK` |
| `OneOwner` | `Spec => []OneDriveOwnsThePhase` |
| `AnswersStayWithTheirQuestion` | `Spec => []NoAnswerCrosses` |
| `FollowUpsStay` | `Spec => []FollowUpsAreKept` |
| `SettledIsSaved` | `Spec => []SavedWhenSettled` |

`SessionInv`: the drive whose cancel function is installed is the one that lives, and
the phase and both bridges say where it stands (`Owner`). So what a bridge accepts was
typed at the drive's present question or was overtaken by it (`Typed`: a line on its way
to a bridge was typed at the question that stands, or is `behind`), and stays in the
channel until the question reads it, is decided, or is given up (`Answers`). The inbox
holds the queued lines, each once (`Inbox`). Unless excused, at most one snapshot is on
its way to the store, and between two drives it, or else the store, is the
conversation's state (`Saves`).

### 4.6 `SupervisorProofs`

One call of `Integrate`, over any items, branches, base and order (`CallSpec`, the
specification in `Integrator.tla`):

| theorem | statement |
|---|---|
| `CallTypeCorrect` | `CallSpec => []CallTypeOK`: the turn stays within the order |
| `GreenTip` | `CallSpec => []TipIsGreen` |

`TipIsGreen` speaks of the moments between two items only. The invariant (`IInv`) says
at every git command what HEAD is: before the commit it is `pre`, the last green
commit, which is also what the results report; after it `pre` with the branch, until
the check accepts it (then it is the green one, and the result joins the report) or
the rollback puts `pre` back, or fails and is noted in `unrolled`.

And the supervised run around it:

| theorem | statement |
|---|---|
| `RunTypeCorrect` | `Spec => []TypeOK` |
| `GreenTipInRun` | `Spec => []TipIsGreen` |
| `PassedWorkOnly` | `Spec => []OnlyPassedWorkIsOnTip` |
| `MergedOnTip` | `Spec => []MergedIsOnTip` |
| `ResumedKept` | `Spec => []ResumedWorkIsKept` |

`SInv` adds to the types and to where the run stands (`RunPlace`): HEAD and the rollback
target hold the base and every item reported merged, and nothing but the base and what
passed workers left, whatever rolled back or failed to (`CommitsHold`); a result names
a commit on the base, and the last one of a complete call holds every kept item and
answers for every item of the order (`ResultsSay`). So what an earlier call merged and
this one did not reach can only be work of the base the run resumed from, which the tip
holds too (`Carried`).

### 4.7 `AgentBusProofs`

| theorem | statement |
|---|---|
| `NeverClosed` | `Spec => []NeverIntoClosed` |
| `BusTypeCorrect` | `Spec => []TypeOK` |
| `RepliesFindTheirAsk` | `Spec => []ReplyFindsItsAsk` |

`BInv` is the discipline of the lock: who delivers holds it for reading and its mailbox
is registered; a closed mailbox is not registered, and its owner is gone and does not
register again. `RInv` follows a question: it is in one place at a time (the hand of its
asker, the supervisor's mailbox, the hand of the reader), and its waiter is in the map
before it can be in the second, so the reader's answer finds the waiter or an asker that
has left (`HandInv`, `BoxInv`, `MapInv`, `AskInv`).

### 4.8 `ApprovalProofs`

| theorem | statement |
|---|---|
| `ApprovalTypeCorrect` | `Spec => []TypeOK` |
| `FenceExact` | `Spec => []FenceIsExact` |
| `SlotsReturn` | `Spec => []SlotsComeBack` |
| `CeilingsAreKept` | `Spec => []CeilingsHold` |

`FenceIsExact` is inductive with the types: the set of holders grows and shrinks with
the meter. `SlotsComeBack` holds when nobody decides; `SlotsAreHeld` extends it to every
state by counting the decisions that have taken a slot of the window and not yet logged
or returned it. A line that is not written leaves its slot taken.

`CeilingsHold` bounds sums, over approvers and over families. The module proves what it
needs of `SumFunction` (a sum is the number of units in it, so it grows by what one
summand grows, and with all of them), by induction over the subsets of a finite set,
where the induction hypothesis is a set and not an operator. `CInv` then has four parts.
`LogInv`: until a day is over, the log has every approval decided on it, if no line of the
window is missing. `RateInv`: two approvers that count one window have put it in `split`, and
of a window without missing lines: one that no approver has seeded has its approvals in the
log; once it is seeded, approvals and decisions under way use slots of it, or it was found
full and no decision passes (`Ceil` is `MaxPerDay`, times the approvers if it is split).
`DollarInv`: on a fenced day the dollars approved and those about to be logged are within the
ceiling and, while a decision may still charge that day, within what the meter has. A restart
re-establishes both from the log, or names the day in `unfenced`.

The second half is about `ModelCalls`:

| theorem | statement |
|---|---|
| `CallsTypeCorrect` | `CallsSpec => []CallsTypeOK` |
| `PaintedReturned` | `CallsSpec => []PaintedIsReturned` |
| `CancelsAreNoFaults` | `CallsSpec => []CancelsDontTrip` |
| `LedgerKept` | `CallsSpec => []LedgerIsExact` |

`WalkInv`: what a caller has seen is the text of the attempt in hand, then of the
response, and before a retry or another provider it has seen nothing, because a walk that
painted is committed to its attempt; a response that is not billed has cost nothing.
`LedgerIsExact` is inductive with it, and uses the lemmas on sums of the first half.
`BreakersLag`: while a provider has had fewer faults than its threshold, what its breaker
has counted and the failed live calls that have yet to tell it are together at most those
faults. The calls on their way have to be counted: a success in between resets the
breaker, not the calls that failed before it and report after.

### 4.9 What stays with TLC

* Liveness under fairness (`Terminates` of `DagScheduler` and of `SwarmController`,
  `Returns`, `CancelUnwinds`, `DueWakeIsRun`, `StopEnds`, `ShutdownEnds`) and anything
  about `ENABLED`: the prover has no rules for them. The theorems take the fairness of a
  specification as it stands and do not use it.
* `NappedWorkIsKept`, which is false.
* What a recursive definition computes for every input. The modules have no
  recursive operator; the one fold that a proof is about, `SumFunction`, is over a
  finite set.

---

## 5. The finding, and what the code does otherwise than a reader expects

### 5.1 `nap_kept`: work that slept is lost from its ref after a restart

The sequence in a drive's task id lives in memory and starts over in each process
(`internal/session/drivers.go:130, 152`). After a restart the first drive of a
conversation therefore takes over the row of the task that slept under the same id:
`Begin` overwrites it, `ResumeBranch` skips a task's own id, the drive starts from
HEAD, and its own nap moves `suspend/<id>` off the earlier commits. The comments say
that the commits "are never lost" (`internal/agent/orchestrator.go:427-430`) and that
the sequence "grows monotonically" (`durability.go:95-98`). `NappedWorkIsKept` is
violated in a behaviour of one nap, one restart and one more nap.

### 5.2 Deviations the models keep

The models do what the code does in these places too. Where a comment of the code says
otherwise, the property states what the comment says except for the case, which it names:
the definition or history in brackets is that exclusion. TLC finds the property violated
without it, at the bounds of the run except for `raced`, which takes `MaxTime = 3`: a handler
has to hold the row it read over two ticks.

*DAG scheduler and swarm.* A node of a plan without a cycle ends as `cycle` when it is listed
before a dependency that is skipped: the last round passes it by before the dependency gets
its verdict, and the loop ends on a round that releases nothing (`dag.go:95-100`, 138). The
comments say of what remains that it "is (or is downstream of) a dependency cycle"
(`dag.go:108-112`), and that a skipped dependency "skips its dependents transitively"
(`dag.go:60-61`) (`OutcomesExplained` excludes `Overtaken` nodes and what is behind one). A
next pass ignores a dependency that failed without a red claim (`passes.go:565`).
`Remaining` does not count a shard that failed without one (`passes.go:588`). A branch left
untried by a fold that stopped early is folded in a later pass its shard is not in
(`passes.go:898`). A shard that failed and has no attempt left is not run again by a resume,
which asks for that count to be 0 before it says converged (`swarm.go:662`, 778; so does
`CleanIsHonest`). The stall rail is behind the branch that requeues failures without a red
claim (`passes.go:473`), so only the hard cap ends them.

*Event log.* After a short write the same process appends behind the partial record
(`eventlog.go:271`). `serve` rotates before `Open` heals, so a torn log is archived
torn (`main.go:1116`). The hook queue of the projection drops when it is full
(`eventlog.go:310`).

*Agent loop.* The signal of a steer pushed between the drain and the stale receive is
swallowed (`native.go:480`); the message is folded one step later. A compaction replaces what
was typed before its cut by a summary, and when the summarizer fails by the goal and the
trail of actions, which hold none of it (`native.go:1480-1500`; `summarised`).

*Session.* `Turn` reads the phase, unlocks, and only then offers the line to the bridge
(`session.go:174-198`), and the bridge knows no question but its present one
(`gate.go:116-134`). A line typed at one gate therefore approves or denies the next one, if
that opens in between (`behind`). A line that comes after the gate was decided and before its
teardown is accepted and then dropped, where the comments say that "if the gate just
resolved, it falls through to the normal follow-up" and, of questions, that the line is "never
lost" (`session.go:184-186`, 196-197; `late`). One that lies in the channel when the drive is
cancelled or the question times out is dropped too (`forsaken`).

*Integration.* A cancellation during a check leaves the merge on the tip, since the
reset runs under the same dead context (`integrate.go:281`; excused by `unrolled`). An
integration that ends early keeps older node states (`dispatch.go:641`; excused by
`cut`). The second slice integrates from the run's base (`build.go:435`).

*Approval.* The rate is counted per approver, and `serve` builds one for each thread
(`main.go:1597`): two that have both seeded a window approve up to `MaxPerDay` each,
where the comment speaks of a count "for (type,scope)" with one "ATOMIC authority"
(`graded.go:223-229`, 474-491; `split`, for which `CeilingsHold` multiplies the ceiling
by the approvers). An approval whose log line is not written stands
(`eventlog.go:271-282`), and what is seeded from the log after that does not count it
(`missing`). A restart takes a log it cannot open for "no log yet" and starts the day
over (`blast.go:94-97`); it also charges the day's logged dollars to the new meter as
one charge (`blast.go:137`), and if approvals that were decided before midnight and
logged after it put the sum over the ceiling, the charge is refused and nothing is
recorded: in both the day's dollars start at less than the log has, where the comment
speaks of "no fail-open on restart" (`blast.go:61`; `unfenced`). A line that is written
in part breaks the chain, so every later decision is denied (`graded.go:201-205`): the
model has the line written or not. Irreversible slots are per process. A decision that
crosses midnight counts on the day it began. A log renamed away at boot takes the
windows with it. The cost of an action is 0 in production, so the dollar axes bind only
where a caller sets one.

*Naps.* `Arm` clears the old claim "so the new wake is claimable again" (`wake.go:103-105`),
but a waker that claimed the old one disarms whatever row is there
(`wake.go:140-151`, `durability.go:478-490`): if the new row is already in place, the new timer
never fires (`lapsed`, as is a timer whose process dies between the disarm and the delivery).
The errors of the checkpoint writes are dropped (`orchestrator.go:306, 345, 361, 450, 463,
588`): one that fails leaves a row in flight or asleep whose task is neither, or the row of a
consumed predecessor without its ref (`stale`); one that fails in `Resume` itself ends it, and
the rows it has not come to wait for the next boot (`durability.go:259-261`). A crash leaves the
`task/` branch, on which the re-driven task's `git worktree add -b` fails (`worktree.go:95`). A
cancelled task's row stays "running" and is re-driven at the next boot
(`orchestrator.go:468-479`; `cancelled`). Ids compare as text, `T-10` before `T-9`
(`durability.go:95-98`). A kill after the reattachment loses the predecessor's commits
(`orchestrator.go:347`).

*Bus.* Nobody reads a worker's mailbox, so a steer (`dispatch.go:537`) is a dead
letter. A reader that waits for the write lock while a delivery to a full mailbox holds
it ends only by the delivery's time-out. A message over the ceiling is reported as sent.

*Autonomy.* A signal file that cannot be read is removed all the same, "processed once,
regardless of outcome" (`autonomy.go:179-183`), and its goal is lost while the daemon is live
(`unread`). The removal is taken to succeed; if it did not, the file would be read again.
Signals queued at a cancellation are dropped, though `daemon.go:70-75` says
they are still drained. A disable between a mark's read and its put back is lost
(`objective.go:246`; excused by `raced`). A run that outlasts `RetryPeriod` is selected
again while it runs.

*Model calls.* After the cooldown every concurrent call is let through, where the
comment speaks of a single trial (`resilience.go:85`). The breaker is not asked again
after a backoff. A refused charge records nothing, so a later and cheaper call passes
(`meter.go:17` calls it a wall); the refusal of a stream that was cut is masked by the
call's error; what a failed attempt cost is not billed; a refused charge that leaves
headroom is classified as no breach (`swarm/invariant.go:142`).

---

## 6. What is not modelled

In the modelled components:

* *DAG scheduler*: nothing that changes state; a recovered panic is a failed verdict.
* *Swarm controller*: goals, branch names and base refs (`handoff.go`), the sharders,
  the scoreboard's rendering, the `--retries` override of a resume, `Queue.Enqueue` (no
  caller). A copy to the collate directory is taken to land. The budget rail is a
  choice, possible once a shard of this process has run. A fold is one step here; its
  inside is `Integrator`.
* *Event log*: redaction, the HMAC key and tampering; a second writer; loss of what was
  written (power loss); the `OnAppend` hook queue.
* *Agent loop*: advice, live queries and bus tools, calls that change nothing the loop
  reads, and the words of a summary. *Session*: the transcript window and the options of
  a driver.
* *Supervisor*: spawn rails, `await`, the code tool, the read tree; a wave of concurrent
  workers is `DagScheduler`'s.
* *Approval*: the kill-switch and the scope predicates, which deny before anything is
  taken; the host and wall axes.
* *Naps*: the multi-agent rows, the kept-branch family, a thread pinned to another
  principal.
* *Bus*: broadcasts, relays, heartbeats and cancels, which nothing in the program sends.
  *Autonomy*: edits of the operator other than disable.
* *Model calls*: token pricing, lengths of delays, ceilings changed during a run.

Other components are left out because they are I/O, rendering, parsing or string
work, or because their decisions are a language model's; the state such code keeps is
local to one call. What their results can be appears in the models as a choice (a
verdict, a set of red claims, a fault). The experience projection, the verification
cache and cron have state, but a sequential one; their notes are in `PROJECT.json`.

---

## 7. Plan

Nothing that a run checks and that the prover can reach is without its theorem. What
would come next widens the model:

| module | next | what it needs |
|---|---|---|
| `Session`, `Nap` | one composition: the conversation's drives with their durable rows | the drive of `Session` split where `executeSingle` writes |
| `Supervisor` | a wave of concurrent workers before the call of `Integrate` | `DagContract` in the place of `Spawn` |
| `SwarmController` | a fold as a call of `Integrator` | the fold's outcome refined by `TipIsGreen` |
| `EventLog` | the `OnAppend` queue and the projection that follows the mirror | a reader that trails `mirror` |

Bounds stay as they are: one crash, one fault, two or three actors each, chosen so
that the hazard named in `PROJECT.json` can occur.

---

## 8. Running it

From this directory, for each row of section 3 and each module of section 4:

```
tlc -workers 2 -config DagScheduler.cfg MCDagScheduler.tla
tlc -workers 2 -config NapKept.cfg      MCNap.tla
tlapm DagSchedulerProofs.tla
```

The runs take from two seconds to three minutes each with two workers, and the
eight proof modules some fifteen minutes together. `NapKept.cfg` is the finding's run: it
ends with a counterexample.
