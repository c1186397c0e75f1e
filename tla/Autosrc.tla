------------------------------ MODULE Autosrc -------------------------------
(***************************************************************************)
(* The autonomy daemon of serve (internal/autosrc, cmd/nilcore/autonomy.go) *)
(* over the standing objectives (internal/objective): two sources, a pump   *)
(* for each, one bounded priority queue, the drain loop and its handlers,   *)
(* and the operator's disable in another process on the same store.         *)
(*                                                                         *)
(* A signal is the file or the objective it came from.  The queue is kept   *)
(* in the order of arrival; the heap's order is Best.  Each objective has a *)
(* goal of its own, so a success is credited to the one it names.  The wake *)
(* source is a second file source with a higher band; Nap has its registry. *)
(***************************************************************************)
EXTENDS Integers, Sequences, FiniteSets

CONSTANTS
  Objectives,   \* standing objectives, all enabled at first
  Before(_, _), \* the order of selection: priority, then id
  Files,        \* signal files dropped in the directory
  Slots,        \* handler invocations at once (Config.Concurrency)
  QueueCap,
  MinPeriod, RetryPeriod,
  MaxTime,      \* the clock (bound)
  MaxRestarts,  \* crashes of serve (bound)
  None

ASSUME AutosrcAssumption ==
  /\ IsFiniteSet(Objectives) /\ IsFiniteSet(Slots) /\ Slots # {}
  /\ {QueueCap, MaxTime} \subseteq Nat \ {0} /\ MinPeriod \in Nat /\ RetryPeriod \in Nat
  /\ MaxRestarts \in Nat /\ Objectives \intersect Files = {}
  /\ None \notin Files /\ "pump" \notin Slots

Sources == {"file", "backlog"}

\* Who changes a row by reading it and putting it back.
Writers == Slots \union {"pump"}

VARIABLES
  now, ctxDone, running, restarts,
  rows,     \* the store: each objective's Enabled, LastRun and LastSuccess (0 is never)
  rmw,      \* each writer: what it has read and is to put back, or None
  dir,      \* the signal directory
  feeder,   \* the file the feeder has removed and offers, None, or "stopped"
  pump,     \* each source's pump: where it stands
  held,     \* the signal a pump holds, or None
  queue,    \* q.h, in the order of arrival
  closed,   \* q.closed
  drain,    \* the drain loop: where it stands
  got,      \* the signal it took and has no slot for yet, or None
  job,      \* each slot: the signal being handled, or None
  raced,    \* history: a row was put back over another writer's change
  picked,   \* history: when an objective was last handed out (0 is never)
  taken,    \* history: files removed from the directory by this process
  unread,   \* history: those of them it could not read
  served    \* history: files handed to a handler

clock   == <<now, ctxDone, running, restarts>>
objects == <<rows, rmw, raced, picked>>
intake  == <<dir, feeder, taken, unread>>
line    == <<queue, closed, drain, got>>
daemonVars == <<clock, objects, intake, pump, held, line, job, served>>

NewRow == [enabled |-> TRUE, run |-> 0, success |-> 0]

DaemonInit ==
  /\ now = 1 /\ ctxDone = FALSE /\ running = TRUE /\ restarts = 0
  /\ rows = [o \in Objectives |-> NewRow] /\ rmw = [w \in Writers |-> None]
  /\ dir = Files /\ feeder = None
  /\ pump = [s \in Sources |-> "next"] /\ held = [s \in Sources |-> None]
  /\ queue = <<>> /\ closed = FALSE /\ drain = "check" /\ got = None
  /\ job = [h \in Slots |-> None]
  /\ raced = FALSE /\ picked = [o \in Objectives |-> 0] /\ taken = {} /\ unread = {}
  /\ served = {}

-----------------------------------------------------------------------------
(* Standing objectives.                                                     *)

\* Objective.spacing.
Spacing(r) ==
  IF ~(r.run > 0 /\ r.success >= r.run) /\ RetryPeriod > 0 THEN RetryPeriod ELSE MinPeriod

\* Objective.due.
Due(o) == rows[o].enabled /\ (rows[o].run = 0 \/ now >= rows[o].run + Spacing(rows[o]))

\* Backlog.mark reads the row it is to change.
Get(w, o, when) == rmw' = [rmw EXCEPT ![w] = [o |-> o, row |-> rows[o], when |-> when]]

\* ... and puts all of it back.
Put(w, row) ==
  /\ rows' = [rows EXCEPT ![rmw[w].o] = row]
  /\ raced' = (raced \/ rows[rmw[w].o] # rmw[w].row)
  /\ rmw' = [rmw EXCEPT ![w] = None]

\* nilcore objective disable, in another process: one update.
Disable(o) ==
  /\ rows[o].enabled
  /\ rows' = [rows EXCEPT ![o].enabled = FALSE]
  /\ UNCHANGED <<clock, rmw, raced, picked, intake, pump, held, line, job, served>>

-----------------------------------------------------------------------------
(* The sources and their pumps.                                             *)

\* fileSignalFeeder reads a file and removes it, whenever it is there by its next poll.  It
\* removes it as well when the read fails, and has no goal to offer then.
Feed(f) ==
  /\ running /\ feeder = None /\ f \in dir
  /\ dir' = dir \ {f} /\ taken' = taken \union {f}
  /\ \/ feeder' = f /\ UNCHANGED unread
     \/ unread' = unread \union {f} /\ UNCHANGED feeder
  /\ UNCHANGED <<clock, objects, pump, held, line, job, served>>

FeederStops ==
  /\ running /\ ctxDone /\ feeder # "stopped"
  /\ feeder' = "stopped"
  /\ UNCHANGED <<clock, objects, dir, taken, unread, pump, held, line, job, served>>

\* FileSource.Next: the channel hands the file over.
NextFile ==
  /\ running /\ pump["file"] = "next" /\ feeder \in Files
  /\ held' = [held EXCEPT !["file"] = feeder]
  /\ feeder' = None
  /\ pump' = [pump EXCEPT !["file"] = "enqueue"]
  /\ UNCHANGED <<clock, objects, dir, taken, unread, line, job, served>>

\* BacklogSource.Next, in an idle moment: NextIdle, ...
Select ==
  /\ running /\ ~ctxDone /\ pump["backlog"] = "next"
  /\ \E o \in Objectives :
       /\ Due(o) /\ \A p \in Objectives \ {o} : Due(p) => Before(o, p)
       /\ held' = [held EXCEPT !["backlog"] = o] /\ Get("pump", o, now)
  /\ pump' = [pump EXCEPT !["backlog"] = "get"]
  /\ UNCHANGED <<clock, rows, raced, picked, intake, line, job, served>>

\* Mutant: an attempt does not count, only a success does.
Attempted_Not(row, when) == row

\* What mark changes of a row for an attempt.
Attempted(row, when) == [row EXCEPT !.run = when]

\* ... and MarkAttempt, at the instant of the selection.
MarkAttempt ==
  LET o == held["backlog"]  when == rmw["pump"].when IN
  /\ running /\ ~ctxDone
  /\ \/ /\ pump["backlog"] = "get" /\ Get("pump", o, when)
        /\ pump' = [pump EXCEPT !["backlog"] = "put"]
        /\ UNCHANGED <<rows, raced, picked>>
     \/ /\ pump["backlog"] = "put" /\ Put("pump", Attempted(rmw["pump"].row, when))
        /\ picked' = [picked EXCEPT ![o] = when]
        /\ pump' = [pump EXCEPT !["backlog"] = "enqueue"]
  /\ UNCHANGED <<clock, intake, held, line, job, served>>

\* The pump ends, with what its source had selected and not yet marked.
Stops(s) ==
  /\ running /\ pump[s] \in {"next", "get", "put"}
  /\ pump' = [pump EXCEPT ![s] = "stopped"] /\ held' = [held EXCEPT ![s] = None]
  /\ rmw' = IF s = "backlog" THEN [rmw EXCEPT !["pump"] = None] ELSE rmw
  /\ UNCHANGED <<clock, rows, raced, picked, intake, line, job, served>>

\* A source sees the context end, in its wait or as the error of a store call; the file
\* source also sees its channel closed.
SourceStops(s) == ctxDone /\ Stops(s)

\* An error of the store ends the backlog's pump, and only that.
SourceFails == ~ctxDone /\ Stops("backlog")

\* Mutant: only an enqueue wakes the drain loop.
Wakes_ByEnqueue == {"enqueue"}

\* What takes the drain loop out of its wait on the condition.
Wakes == {"enqueue", "close", "cancel"}

Woken(e) == IF drain = "parked" /\ e \in Wakes THEN "check" ELSE drain

\* Mutant: a full queue ends the pump.
GivesUp_WhenFull == TRUE

\* Whether a pump may stop over a full queue: when the context ends in its back-off.
GivesUp == ctxDone

Full == Len(queue) >= QueueCap

\* enqueueSignal: a closed queue stops the pump, a full one makes it wait and try again.
Enqueue(s) ==
  /\ running /\ pump[s] = "enqueue"
  /\ \/ /\ closed \/ (Full /\ GivesUp)
        /\ pump' = [pump EXCEPT ![s] = "stopped"]
        /\ UNCHANGED <<queue, drain>>
     \/ /\ ~closed /\ ~Full
        /\ pump' = [pump EXCEPT ![s] = "next"]
        /\ queue' = Append(queue, held[s]) /\ drain' = Woken("enqueue")
  /\ held' = [held EXCEPT ![s] = None]
  /\ UNCHANGED <<clock, objects, intake, closed, got, job, served>>

-----------------------------------------------------------------------------
(* The drain loop and the handlers.                                         *)

\* Run's goroutine closes the queue, the watcher of a dequeue wakes it.
Close ==
  /\ running /\ ctxDone /\ ~closed
  /\ closed' = TRUE /\ drain' = Woken("close")
  /\ UNCHANGED <<clock, objects, intake, pump, held, queue, got, job, served>>

WakeOnCancel ==
  /\ running /\ ctxDone /\ drain = "parked"
  /\ drain' = Woken("cancel") /\ drain' # drain
  /\ UNCHANGED <<clock, objects, intake, pump, held, queue, closed, got, job, served>>

Priority(sig) == IF sig \in Files THEN 0 ELSE -1

\* pq.Less: the highest band, and in a band the earliest.
Best(i) ==
  \A j \in DOMAIN queue \ {i} :
    Priority(queue[j]) < Priority(queue[i]) \/ (Priority(queue[j]) = Priority(queue[i]) /\ i < j)

Without(q, i) == SubSeq(q, 1, i - 1) \o SubSeq(q, i + 1, Len(q))

\* dequeue, with the lock.
Dequeue ==
  /\ running /\ drain = "check"
  /\ \/ ctxDone /\ drain' = "leaving" /\ UNCHANGED <<queue, got>>
     \/ ~ctxDone /\ queue = <<>> /\ drain' = "parked" /\ UNCHANGED <<queue, got>>
     \/ /\ ~ctxDone
        /\ \E i \in DOMAIN queue : Best(i) /\ got' = queue[i] /\ queue' = Without(queue, i)
        /\ drain' = "slot"
  /\ UNCHANGED <<clock, objects, intake, pump, held, closed, job, served>>

Queued(f) == \E i \in DOMAIN queue : queue[i] = f

\* A slot is taken, or the context ends first and the signal is dropped.
Acquire ==
  /\ running /\ drain = "slot"
  /\ \/ /\ \E h \in Slots :
             job[h] = None /\ job' = [job EXCEPT ![h] = [sig |-> got, pc |-> "run"]]
        /\ served' = served \union ({got} \intersect Files)
        /\ drain' = "check"
     \/ ctxDone /\ drain' = "leaving" /\ UNCHANGED <<job, served>>
  /\ got' = None
  /\ UNCHANGED <<clock, objects, intake, pump, held, queue, closed>>

Frees(h) == job' = [job EXCEPT ![h] = None]

\* The orchestrator's verdict; only a verified objective that is still enabled is credited.
Handled(h) ==
  LET sig == job[h].sig IN
  /\ running /\ job[h] # None /\ job[h].pc = "run"
  /\ \/ Frees(h)
     \/ /\ sig \in Objectives /\ ~ctxDone /\ rows[sig].enabled
        /\ job' = [job EXCEPT ![h].pc = "get"]
  /\ UNCHANGED <<clock, objects, intake, pump, held, line, served>>

\* MarkSuccess, in its two steps; it fails once the context has ended.
MarkSuccess(h) ==
  LET o == job[h].sig IN
  /\ running /\ job[h] # None
  /\ \/ /\ job[h].pc = "get" /\ ~ctxDone /\ Get(h, o, now)
        /\ job' = [job EXCEPT ![h].pc = "put"] /\ UNCHANGED <<rows, raced>>
     \/ /\ job[h].pc = "put" /\ ~ctxDone
        /\ Put(h, [Attempted(rmw[h].row, rmw[h].when) EXCEPT !.success = rmw[h].when])
        /\ Frees(h)
     \/ /\ job[h].pc # "run" /\ ctxDone /\ Frees(h)
        /\ rmw' = [rmw EXCEPT ![h] = None] /\ UNCHANGED <<rows, raced>>
  /\ UNCHANGED <<clock, picked, intake, pump, held, line, served>>

\* workers.Wait.
HandlersDone == \A h \in Slots : job[h] = None

\* drain returns when its handlers have, and Run when its pumps have.
Leave ==
  /\ running
  /\ \/ drain = "leaving" /\ HandlersDone /\ drain' = "drained"
     \/ drain = "drained" /\ (\A s \in Sources : pump[s] = "stopped") /\ drain' = "done"
  /\ UNCHANGED <<clock, objects, intake, pump, held, queue, closed, got, job, served>>

-----------------------------------------------------------------------------
(* The process.                                                             *)

Tick ==
  /\ now < MaxTime /\ now' = now + 1
  /\ UNCHANGED <<ctxDone, running, restarts, objects, intake, pump, held, line, job, served>>

Cancel ==
  /\ running /\ ~ctxDone /\ ctxDone' = TRUE
  /\ UNCHANGED <<now, running, restarts, objects, intake, pump, held, line, job, served>>

\* The process ends, after Run or in the middle of it: the store and the directory stay.
Die ==
  /\ running /\ running' = FALSE /\ ctxDone' = FALSE
  /\ rmw' = [w \in Writers |-> None]
  /\ feeder' = None /\ pump' = [s \in Sources |-> "next"] /\ held' = [s \in Sources |-> None]
  /\ queue' = <<>> /\ closed' = FALSE /\ drain' = "check" /\ got' = None
  /\ job' = [h \in Slots |-> None] /\ taken' = {} /\ served' = {}
  /\ unread' = {}
  /\ UNCHANGED <<now, restarts, rows, raced, picked, dir>>

\* serve starts again.
Restart ==
  /\ ~running /\ restarts < MaxRestarts
  /\ running' = TRUE /\ restarts' = restarts + 1
  /\ UNCHANGED <<now, ctxDone, objects, intake, pump, held, line, job, served>>

PumpStep(s) == Enqueue(s) \/ SourceStops(s)

HandlerStep(h) == Handled(h) \/ MarkSuccess(h)

DrainStep == Close \/ WakeOnCancel \/ Dequeue \/ Acquire \/ Leave

DaemonNext ==
  \/ \E s \in Sources : PumpStep(s)
  \/ \E h \in Slots : HandlerStep(h)
  \/ DrainStep \/ NextFile \/ Select \/ MarkAttempt \/ SourceFails \/ FeederStops
  \/ \E f \in Files : Feed(f)
  \/ \E o \in Objectives : Disable(o)
  \/ Tick \/ Cancel \/ Die \/ Restart

\* The goroutines run and a handler returns.
DaemonFairness ==
  /\ WF_daemonVars(DrainStep)
  /\ \A s \in Sources : WF_daemonVars(PumpStep(s))
  /\ \A h \in Slots : WF_daemonVars(HandlerStep(h))

DaemonSpec == DaemonInit /\ [][DaemonNext]_daemonVars /\ DaemonFairness

-----------------------------------------------------------------------------
(* Properties.                                                              *)

Signal == Files \union Objectives
Row    == [enabled : BOOLEAN, run : 0 .. MaxTime, success : 0 .. MaxTime]
Notes  == [o : Objectives, row : Row, when : 1 .. MaxTime]
Jobs   == [sig : Signal, pc : {"run", "get", "put"}]

\* Type invariant: the queue never holds more than its bound.
DaemonTypeOK ==
  /\ now \in 1 .. MaxTime /\ ctxDone \in BOOLEAN /\ running \in BOOLEAN
  /\ restarts \in 0 .. MaxRestarts
  /\ rows \in [Objectives -> Row]
  /\ rmw \in [Writers -> Notes \union {None}]
  /\ dir \subseteq Files /\ feeder \in Files \union {None, "stopped"}
  /\ pump \in [Sources -> {"next", "get", "put", "enqueue", "stopped"}]
  /\ held \in [Sources -> Signal \union {None}]
  /\ queue \in Seq(Signal) /\ Len(queue) <= QueueCap /\ closed \in BOOLEAN
  /\ drain \in {"check", "parked", "slot", "leaving", "drained", "done"}
  /\ got \in Signal \union {None}
  /\ job \in [Slots -> Jobs \union {None}]
  /\ raced \in BOOLEAN /\ picked \in [Objectives -> 0 .. MaxTime]
  /\ taken \subseteq Files /\ unread \subseteq Files /\ served \subseteq Files

\* Until the shutdown a signal file the feeder has removed is lost only when it could not
\* be read (autonomy.go:179-183), however full the queue is (daemon.go:158-166): any other
\* is with the feeder, its pump or the drain loop, queued, or handed over; and the drain
\* loop does not sleep over a queued one.
NothingIsDropped ==
  running /\ ~ctxDone =>
    /\ \A f \in taken \ unread :
         feeder = f \/ held["file"] = f \/ Queued(f) \/ got = f \/ f \in served
    /\ drain = "parked" => queue = <<>>

Shorter == IF RetryPeriod > 0 /\ RetryPeriod < MinPeriod THEN RetryPeriod ELSE MinPeriod

\* An objective is not handed out again before the shorter of its periods has passed,
\* through runs that outlast it, disables, restarts and kills; as long as no writer put a
\* row back over the change of another (objective.go:221-227, backlog.go:25-32).
Debounced ==
  [][pump["backlog"] = "put" /\ pump'["backlog"] = "enqueue" /\ ~raced =>
       \A o \in Objectives : o = held["backlog"] /\ picked[o] > 0 =>
         picked'[o] >= picked[o] + Shorter]_daemonVars

\* A shutdown comes to its end, wherever the drain loop, the pumps and the handlers are
\* (bounded.go:96-117, daemon.go:62-69).
ShutdownEnds == (running /\ ctxDone) ~> (~running \/ drain = "done")

=============================================================================
