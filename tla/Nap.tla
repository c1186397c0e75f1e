-------------------------------- MODULE Nap ---------------------------------
(***************************************************************************)
(* What survives of one conversation of serve between its drives: the       *)
(* durable task rows (internal/agent/durability.go), the refs that hold the *)
(* work of its drives (executeSingle in internal/agent/orchestrator.go),    *)
(* and the one timer it may have armed (internal/wake, fired by the waker   *)
(* of internal/server).                                                     *)
(*                                                                         *)
(* A drive commits work on its task/ branch.  It may go to sleep: it arms   *)
(* the timer and its commits are pinned under a suspend/ ref, which a later *)
(* drive of the conversation takes over.  The process may be stopped or     *)
(* killed between any two steps; the next one sweeps the refs, re-drives    *)
(* what was in flight and then serves.                                      *)
(*                                                                         *)
(* A drive is known by the number in its task id, which counts the drives   *)
(* of this process.  A lot of work is the number of the drive that did it,  *)
(* over all processes.                                                      *)
(***************************************************************************)
EXTENDS Integers, FiniteSets, FiniteSetsExt

CONSTANTS
  MaxSeq,     \* drives of one process (bound)
  MaxBoots,   \* processes, one after the other (bound)
  MaxArms,    \* timers armed (bound)
  MaxFailures,  \* reads and writes of the store, deletions and pins of a ref that fail (bound)
  Keep,       \* recovery anchors kept at boot
  None        \* no drive; no ref; no predecessor

Ids  == 1 .. MaxSeq
Lots == 1 .. (2 * MaxSeq * MaxBoots)   \* each number is re-driven once a process at most

\* A drive, where it stands in executeSingle.
Drives ==
  [pc : {"begin", "lookup", "create", "retire", "unpin", "work", "armed", "pin", "pinned",
         "unpinned", "clean", "report"},
   id : Ids, own : Lots, from : Ids \union {None}, head : SUBSET Lots]

ASSUME NapAssumption ==
  /\ {MaxSeq, MaxBoots, Keep} \subseteq Nat \ {0}
  /\ {MaxArms, MaxFailures} \subseteq Nat
  /\ None \notin Ids /\ None \notin Drives /\ \A lot \in SUBSET Lots : lot # None

VARIABLES
  phase,      \* the process: down, resume (before traffic), serve
  boots,      \* processes so far
  todo,       \* what Resume still has to re-drive
  seq,        \* nativeDriver.seq
  drive,      \* the drive that runs: where it stands, its ids, its predecessor, its commits
  born,       \* drives so far
  rows,       \* the store: status of a task, and whether its detail names a branch
  branches,   \* task/ refs: the work they hold
  anchors,    \* suspend/ refs: the work they hold
  wakeRow,    \* the store: the conversation's wake, which arming it is, whether it is due
  claimed,    \* the registry's claimed set, of this conversation
  waker,      \* the waker: where it stands, the arming it read
  failures,
  fired,      \* history: deliveries of each arming
  napped,     \* history: what the row of a sleeper promises to hold
  slept,      \* history: work of drives that went to sleep, which none has taken over since
  capped,     \* history: sleepers whose anchor the sweep's bound cost
  cancelled,  \* history: tasks the operator cancelled
  stale,      \* history: rows left as they were by a write that failed
  lapsed      \* history: armings disarmed by a waker that did not come to deliver them

process  == <<phase, boots, todo, seq>>
work     == <<branches, anchors>>
timer    == <<wakeRow, claimed, waker, fired, lapsed>>
history  == <<napped, slept, capped, cancelled, stale>>
napVars == <<process, drive, born, rows, work, timer, failures, history>>

NoRow     == [status |-> "none", named |-> FALSE]
IdleWaker == [pc |-> "idle", arm |-> 0]

NapInit ==
  /\ phase = "down" /\ boots = 0 /\ todo = {} /\ seq = 0
  /\ drive = None /\ born = 0
  /\ rows = [i \in Ids |-> NoRow]
  /\ branches = [i \in Ids |-> None] /\ anchors = [i \in Ids |-> None]
  /\ wakeRow = [status |-> "none", arm |-> 0, due |-> FALSE]
  /\ claimed = FALSE /\ waker = IdleWaker /\ failures = 0
  /\ fired = [n \in 1 .. MaxArms |-> 0]
  /\ napped = [i \in Ids |-> {}] /\ slept = {} /\ capped = {} /\ cancelled = {}
  /\ stale = {} /\ lapsed = {}

At(l) == drive # None /\ drive.pc = l

Goto(l) == drive' = [drive EXCEPT !.pc = l]

Fault == failures < MaxFailures /\ failures' = failures + 1

\* UpsertTask.
Puts(i, row) ==
  rows' = [rows EXCEPT ![i] = row] /\ stale' = stale \ {i} /\ UNCHANGED failures

\* ... and when it fails: executeSingle drops the error and goes on.
Drops(i) == Fault /\ stale' = stale \union {i} /\ UNCHANGED rows

Record(i, s) == Puts(i, [status |-> s, named |-> FALSE]) \/ Drops(i)

Room == seq < MaxSeq

Launch(i) ==
  /\ drive' = [pc |-> "begin", id |-> i, own |-> born + 1, from |-> None, head |-> {}]
  /\ born' = born + 1

-----------------------------------------------------------------------------
(* executeSingle.                                                           *)

\* A suspended task whose row names a branch; the last of them is the most recent.
Sleepers == {i \in Ids : rows[i].status = "suspended" /\ rows[i].named}

ResumeBranch(i) ==
  IF Sleepers \ {i} = {} THEN None ELSE Max(Sleepers \ {i})

\* Checkpoint.Begin, ...
Begin ==
  /\ At("begin")
  /\ Record(drive.id, "running")
  /\ Goto("lookup")
  /\ cancelled' = cancelled \ {drive.id}
  /\ UNCHANGED <<process, born, work, timer, napped, slept, capped>>

\* ... and the lookup of a predecessor, without which the drive starts from HEAD.
Lookup ==
  /\ At("lookup")
  /\ \/ /\ drive' = [drive EXCEPT !.from = ResumeBranch(drive.id), !.pc = "create"]
        /\ UNCHANGED failures
     \/ Fault /\ Goto("create")
  /\ UNCHANGED <<process, born, rows, work, timer, history>>

\* CreateFrom needs the ref, and a task/ branch of that name must not exist.
CanReattach == drive.from # None /\ anchors[drive.from] # None /\ branches[drive.id] = None

Reattach ==
  /\ At("create") /\ CanReattach
  /\ branches' = [branches EXCEPT ![drive.id] = anchors[drive.from]]
  /\ drive' = [drive EXCEPT !.head = anchors[drive.from], !.pc = "retire"]
  /\ slept' = slept \ anchors[drive.from]
  /\ UNCHANGED <<process, born, rows, anchors, timer, failures, napped, capped, cancelled, stale>>

\* Mutant: the consumed ref goes first.
RetireOrder_Swapped == <<"ref", "row">>

RetireOrder == <<"row", "ref">>

\* The predecessor is retired, then its ref deleted; a ref that cannot be is left.
RetireStep(n) ==
  \/ RetireOrder[n] = "row" /\ Record(drive.from, "failed") /\ UNCHANGED anchors
  \/ /\ RetireOrder[n] = "ref"
     /\ anchors' = [anchors EXCEPT ![drive.from] = None]
     /\ UNCHANGED <<rows, failures, stale>>
  \/ RetireOrder[n] = "ref" /\ Fault /\ UNCHANGED <<rows, anchors, stale>>

Retire ==
  /\ \/ At("retire") /\ RetireStep(1) /\ Goto("unpin")
     \/ At("unpin") /\ RetireStep(2) /\ Goto("work")
  /\ UNCHANGED <<process, born, branches, timer, napped, slept, capped, cancelled>>

\* Mutant: a task whose setup failed is left running.
SetupFailed_Left(i) == UNCHANGED <<rows, failures, stale>>

SetupFailed(i) == Record(i, "failed")

\* Resume, which runs a drive before the process serves, records its verdict once more.
Return == drive' = IF phase = "resume" THEN [drive EXCEPT !.pc = "report"] ELSE None

\* Create, off the base's HEAD. When it fails the task is finalized and the drive is over.
Fresh ==
  /\ At("create") /\ ~CanReattach
  /\ \/ /\ branches[drive.id] = None
        /\ branches' = [branches EXCEPT ![drive.id] = {}]
        /\ Goto("work") /\ UNCHANGED <<rows, failures, stale>>
     \/ /\ branches[drive.id] # None
        /\ SetupFailed(drive.id)
        /\ Return /\ UNCHANGED branches
  /\ UNCHANGED <<process, born, anchors, timer, napped, slept, capped, cancelled>>

Commit ==
  /\ At("work") /\ drive.own \notin drive.head
  /\ drive' = [drive EXCEPT !.head = @ \union {drive.own}]
  /\ branches' = [branches EXCEPT ![drive.id] = drive.head \union {drive.own}]
  /\ UNCHANGED <<process, born, rows, anchors, timer, failures, history>>

\* The verifier's verdict, or a fault of the backend.
Settle ==
  /\ At("work")
  /\ \E s \in {"done", "failed"} : Record(drive.id, s)
  /\ Goto("clean")
  /\ UNCHANGED <<process, born, work, timer, napped, slept, capped, cancelled>>

\* The operator's cancel, at any step: under the dead context no later write of the drive
\* reaches the store or a ref, and what is left of it is the worktree, if it has one.
\* Between Arm's two steps it changes nothing until the second is done.
Cancel ==
  /\ phase = "serve" /\ drive # None /\ drive.pc \notin {"armed", "clean"}
  /\ IF drive.pc \in {"begin", "lookup", "create"} THEN drive' = None ELSE Goto("clean")
  /\ cancelled' = cancelled \union {drive.id}
  /\ UNCHANGED <<process, born, rows, work, timer, failures, napped, slept, capped, stale>>

\* The worktree and its branch go; a branch that was to be kept has been moved elsewhere.
Clean ==
  /\ At("clean")
  /\ branches' = [branches EXCEPT ![drive.id] = None]
  /\ Return
  /\ UNCHANGED <<process, born, rows, anchors, timer, failures, history>>

\* Resume's own Complete, of the verdict the drive has recorded, or of the one it could
\* not. When it fails on a task that did not err, Resume gives up on those it has not come
\* to, and serve begins.
Report ==
  /\ At("report")
  /\ \/ /\ \E s \in {"done", "failed"} :
             /\ rows[drive.id].status \in {"done", "failed"} => rows[drive.id].status = s
             /\ Record(drive.id, s)
        /\ UNCHANGED todo
     \/ Fault /\ todo' = {} /\ stale' = stale \union todo \union {drive.id} /\ UNCHANGED rows
  /\ drive' = None
  /\ UNCHANGED <<phase, boots, seq, born, work, timer, napped, slept, capped, cancelled>>

-----------------------------------------------------------------------------
(* Going to sleep.                                                          *)

\* Arm: SaveWake replaces the row. Only a drive of serve has the tool.
Arm ==
  /\ At("work") /\ phase = "serve" /\ wakeRow.arm < MaxArms
  /\ wakeRow' = [status |-> "wake", arm |-> wakeRow.arm + 1, due |-> FALSE]
  /\ Goto("armed")
  /\ UNCHANGED <<process, born, rows, work, claimed, waker, fired, lapsed, failures, history>>

\* Mutant: a new timer stays shadowed by the claim of the old one.
Unclaimed_Kept == claimed

Unclaimed == FALSE

ClearClaim ==
  /\ At("armed")
  /\ claimed' = Unclaimed
  /\ Goto("pin")
  /\ UNCHANGED <<process, born, rows, work, wakeRow, waker, fired, lapsed, failures, history>>

PinBranch(i, head) == head

\* suspend/<id> is made, or moved, to the committed head; a failure only loses the name.
Pin ==
  /\ At("pin")
  /\ \/ /\ anchors' = [anchors EXCEPT ![drive.id] = PinBranch(drive.id, drive.head)]
        /\ Goto("pinned") /\ UNCHANGED failures
     \/ Fault /\ Goto("unpinned") /\ UNCHANGED anchors
  /\ UNCHANGED <<process, born, rows, branches, timer, history>>

\* Checkpoint.Suspend.
Suspend ==
  /\ At("pinned") \/ At("unpinned")
  /\ \/ /\ Puts(drive.id, [status |-> "suspended", named |-> drive.pc = "pinned"])
        /\ LET kept == IF drive.pc = "pinned" THEN drive.head ELSE {}
           IN  napped' = [napped EXCEPT ![drive.id] = kept] /\ slept' = slept \union kept
        /\ capped' = capped \ {drive.id}
     \/ Drops(drive.id) /\ UNCHANGED <<napped, slept, capped>>
  /\ Goto("clean")
  /\ UNCHANGED <<process, born, work, timer, cancelled>>

-----------------------------------------------------------------------------
(* The waker: fireDueWakes, one wake, claimed before it is delivered.       *)

Due ==
  /\ wakeRow.status = "wake" /\ ~wakeRow.due
  /\ wakeRow' = [wakeRow EXCEPT !.due = TRUE]
  /\ UNCHANGED <<process, drive, born, rows, work, claimed, waker, fired, lapsed, failures,
                 history>>

\* Pending.
Poll ==
  /\ phase = "serve" /\ waker.pc = "idle"
  /\ wakeRow.status = "wake" /\ wakeRow.due
  /\ waker' = [pc |-> "claim", arm |-> wakeRow.arm]
  /\ UNCHANGED <<process, drive, born, rows, work, wakeRow, claimed, fired, lapsed, failures,
                 history>>

Claim ==
  /\ waker.pc = "claim"
  /\ waker' = IF claimed THEN IdleWaker ELSE [waker EXCEPT !.pc = "disarm"]
  /\ claimed' = TRUE
  /\ UNCHANGED <<process, drive, born, rows, work, wakeRow, fired, lapsed, failures, history>>

\* Mutant: the fired wake is only remembered in memory.
DisarmWake_Memory(w) == w

DisarmWake(w) == [w EXCEPT !.status = "wake_done"]

\* The disarm flips whatever row is there; if it fails the claim is given up.
Disarm ==
  /\ waker.pc = "disarm"
  /\ \/ /\ wakeRow' = DisarmWake(wakeRow)
        /\ lapsed' = IF wakeRow.status = "wake" /\ wakeRow.arm # waker.arm
                       THEN lapsed \union {wakeRow.arm} ELSE lapsed
        /\ waker' = [waker EXCEPT !.pc = "fire"]
        /\ UNCHANGED <<claimed, failures>>
     \/ Fault /\ claimed' = FALSE /\ waker' = IdleWaker /\ UNCHANGED <<wakeRow, lapsed>>
  /\ UNCHANGED <<process, drive, born, rows, work, fired, history>>

\* Session.Turn: a drive of its own, or a line for the one that runs.
Fire ==
  /\ waker.pc = "fire"
  /\ fired' = [fired EXCEPT ![waker.arm] = @ + 1]
  /\ waker' = IdleWaker
  /\ \/ drive = None /\ Room /\ Launch(seq + 1) /\ seq' = seq + 1
     \/ (drive # None \/ ~Room) /\ UNCHANGED <<drive, born, seq>>
  /\ UNCHANGED <<phase, boots, todo, rows, work, wakeRow, claimed, lapsed, failures, history>>

-----------------------------------------------------------------------------
(* The conversation and the process.                                        *)

\* A line of the principal while nothing runs.
Turn ==
  /\ phase = "serve" /\ drive = None /\ Room
  /\ Launch(seq + 1) /\ seq' = seq + 1
  /\ UNCHANGED <<phase, boots, todo, rows, work, timer, failures, history>>

InFlight(r) == {i \in Ids : r[i].status \in {"running", "interrupted"}}

Suspended == {i \in Ids : rows[i].status = "suspended"}

Refs == {i \in Ids : anchors[i] # None}

\* SweepSuspended: anchors of tasks that no longer sleep, and the oldest beyond Keep.
Kept ==
  LET live == Suspended \intersect Refs
  IN  {i \in live : Cardinality({j \in live : j > i}) < Keep}

\* The sweep, which may leave refs it could not delete, and the read of Resume, without
\* which nothing is re-driven.
Boot ==
  /\ phase = "down" /\ boots < MaxBoots
  /\ phase' = "resume" /\ boots' = boots + 1
  /\ \E left \in SUBSET (Refs \ Kept), read \in BOOLEAN :
       /\ IF left = {} /\ read THEN UNCHANGED failures ELSE Fault
       /\ anchors' = [i \in Ids |-> IF i \in Kept \union left THEN anchors[i] ELSE None]
       /\ capped' = capped \union ((Suspended \intersect Refs) \ (Kept \union left))
       /\ todo' = IF read THEN InFlight(rows) ELSE {}
       /\ stale' = IF read THEN stale ELSE stale \union InFlight(rows)
  /\ seq' = 0
  /\ UNCHANGED <<drive, born, rows, branches, timer, napped, slept, cancelled>>

Redrive ==
  /\ phase = "resume" /\ drive = None
  /\ \E i \in todo : Launch(i) /\ todo' = todo \ {i}
  /\ UNCHANGED <<phase, boots, seq, rows, work, timer, failures, history>>

Serve ==
  /\ phase = "resume" /\ drive = None /\ todo = {}
  /\ phase' = "serve"
  /\ UNCHANGED <<boots, todo, seq, drive, born, rows, work, timer, failures, history>>

\* Memory is gone; a run that reached the last process stays up.
Dies ==
  /\ phase # "down" /\ boots < MaxBoots
  /\ phase' = "down"
  /\ drive' = None /\ todo' = {} /\ claimed' = FALSE /\ waker' = IdleWaker
  /\ lapsed' = IF waker.pc = "fire" THEN lapsed \union {waker.arm} ELSE lapsed
  /\ UNCHANGED <<boots, seq, born, anchors, wakeRow, fired, failures, history>>

Crash == Dies /\ UNCHANGED <<rows, branches>>

\* SIGTERM: under the dead context the drive writes nothing more, its worktree is cleaned
\* up all the same, and Interrupt marks what is running.
Terminate ==
  /\ Dies
  /\ rows' = [i \in Ids |-> IF rows[i].status = "running"
                              THEN [rows[i] EXCEPT !.status = "interrupted"] ELSE rows[i]]
  /\ branches' = IF drive = None \/ drive.pc \in {"begin", "lookup", "create"} THEN branches
                   ELSE [branches EXCEPT ![drive.id] = None]

-----------------------------------------------------------------------------

DriveStep ==
  \/ Begin \/ Lookup \/ Reattach \/ Retire \/ Fresh \/ Settle \/ ClearClaim \/ Pin \/ Suspend
  \/ Clean \/ Report

WakerStep == Poll \/ Claim \/ Disarm \/ Fire

NapNext ==
  \/ DriveStep \/ Commit \/ Cancel \/ Arm \/ Due \/ WakerStep
  \/ Turn \/ Boot \/ Redrive \/ Serve \/ Crash \/ Terminate

\* The next process is started, drives take their steps and the waker's goroutine runs.
Fairness ==
  WF_napVars(DriveStep) /\ WF_napVars(WakerStep) /\ WF_napVars(Boot) /\ WF_napVars(Redrive \/ Serve)

NapSpec == NapInit /\ [][NapNext]_napVars /\ Fairness

-----------------------------------------------------------------------------
(* Properties.                                                              *)

TaskRows ==
  [status : {"none", "running", "interrupted", "suspended", "done", "failed"}, named : BOOLEAN]
WakeRows == [status : {"none", "wake", "wake_done"}, arm : 0 .. MaxArms, due : BOOLEAN]
Wakers   == [pc : {"idle", "claim", "disarm", "fire"}, arm : 0 .. MaxArms]

\* Type invariant.
NapTypeOK ==
  /\ phase \in {"down", "resume", "serve"} /\ boots \in 0 .. MaxBoots
  /\ todo \subseteq Ids /\ seq \in 0 .. MaxSeq /\ born \in Nat
  /\ drive \in {None} \union Drives
  /\ rows \in [Ids -> TaskRows]
  /\ branches \in [Ids -> {None} \union SUBSET Lots]
  /\ anchors \in [Ids -> {None} \union SUBSET Lots]
  /\ wakeRow \in WakeRows /\ claimed \in BOOLEAN /\ waker \in Wakers
  /\ failures \in 0 .. MaxFailures
  /\ fired \in [1 .. MaxArms -> Nat]
  /\ napped \in [Ids -> SUBSET Lots] /\ slept \subseteq Lots
  /\ capped \subseteq Ids /\ cancelled \subseteq Ids /\ stale \subseteq Ids
  /\ lapsed \subseteq 1 .. MaxArms

\* A timer is delivered at most once, whatever fails and however often the process is
\* restarted between the claim, the disarm and the Turn (wake.go:113-120,
\* server.go:526-530).
WakeFiresOnce == \A n \in 1 .. MaxArms : fired[n] <= 1

\* As long as a task's row says that it sleeps and names its branch, that ref exists and
\* holds what the drive had committed, unless the bound of the sweep took it: so the next
\* drive that looks for a predecessor finds one it can be based on (durability.go:88-211).
\* A failed write costs the anchor of no task but the one whose row it was to change.
SleeperKeepsItsAnchor ==
  \A i \in Sleepers \ (capped \union stale) : anchors[i] = napped[i]

Held == UNION {anchors[i] : i \in Refs}

\* Once the process serves, a row that a restart would re-drive belongs to the drive that
\* runs: every other way a drive ends, a failed setup and a nap included, settles its row,
\* except for the operator's cancel (orchestrator.go:355-364, durability.go:42-46) and for
\* a row whose own write failed, or that such a failure kept Resume from coming to.
InFlightIsLive ==
  phase = "serve" =>
    \A i \in InFlight(rows) \ (cancelled \union stale) : drive # None /\ drive.id = i

\* Every timer that is due is delivered in the end, or replaced by a later one: a failed
\* write is retried and a new timer is never shadowed by the claim of the one before
\* (wake.go:94-111, 125-151). Left out are a timer claimed in a process that stops before
\* the delivery, and one whose row a waker disarmed for the timer before it.
DueWakeIsRun ==
  wakeRow.due ~> ~wakeRow.due \/ fired[wakeRow.arm] > 0 \/ wakeRow.arm \in lapsed

\* Claimed of the suspend/ ref: committed work "is never lost" (orchestrator.go:428,
\* durability.go:47-50). What a drive committed before it slept is under a suspend/ ref
\* until a later drive is based on it.
NappedWorkIsKept == slept \subseteq Held

=============================================================================
