------------------------------ MODULE Session -------------------------------
(***************************************************************************)
(* One conversation of internal/session: the Turn entry point that starts  *)
(* a drive or feeds the running one, the drive's goroutine, the two bridges *)
(* over which a parked drive is answered (gate.go, and ask.go with         *)
(* internal/ask), Cancel, and the saving of the bounded state (persist.go). *)
(*                                                                         *)
(* Each line the principal types is a Turn call, and the drive a line      *)
(* starts is named after it.  Calls come from any goroutine (tui.go starts *)
(* one for each line; serve adds the wakes), so every critical section of  *)
(* the session's mutex or of the ask box is one action and everything else *)
(* is between actions.  What a drive does between its gates and questions  *)
(* is NativeLoop's matter: here it drains the inbox at any time and ends.  *)
(***************************************************************************)
EXTENDS Integers, Sequences, FiniteSets, SequencesExt

CONSTANTS
  Lines,         \* what the principal types
  YesNo,         \* the lines parseYesNo recognises
  RouteOf,       \* the route the router finds for a line
  Modes,         \* the modes SetMode pins
  MaxQuestions,  \* gates and questions a drive parks at (bound)
  MaxCalls,      \* front-door calls beside Turn (bound)
  MaxCrashes     \* restarts of the process (bound)

CONSTANTS None, Door   \* no line; the front door as a saver of state

ASSUME SessionAssumption ==
  /\ YesNo \subseteq Lines /\ None \notin Lines /\ Door \notin Lines \union {None}
  /\ Modes # {} /\ None \notin Modes
  /\ MaxQuestions \in Nat /\ MaxCalls \in Nat /\ MaxCrashes \in Nat

VARIABLES
  phase,         \* Phase
  driveCancel,   \* whose cancel func is installed, or None
  state,         \* State, of which: the route last active, the branch, the mode
  at,            \* where the Turn call of a line, or its drive, stands
  saw,           \* the phase that Turn read before it unlocked
  aborted,       \* drives whose context is cancelled
  box,           \* the queue of the inbox
  gatePending, gateReply,   \* the gate bridge: its flag and its cap-1 channel
  askPending, askReply,     \* the ask box: the same
  gates, asks,   \* questions of each kind a drive has opened
  retried,       \* the current question was answered with a blank line
  canceller,     \* what Cancel is doing, and to which drive
  calls,         \* front-door calls made
  saving,        \* snapshots on their way to the store
  stored,        \* the store's row of this conversation
  crashes,
  for,           \* history: the question a line was typed at
  behind,        \* history: lines overtaken by a later question, see Overtakes
  late,          \* history: lines a bridge accepted after its question was decided
  forsaken,      \* history: lines still in the channel of a question that was given up
  excused        \* history: the store may differ from State, see SaveEnds

session == <<phase, driveCancel, state>>
bridges == <<gatePending, gateReply, askPending, askReply, gates, asks, retried>>
store   == <<saving, stored, excused>>
history == <<for, behind, late, forsaken>>
vars    == <<session, at, saw, aborted, box, bridges, canceller, calls, store,
             crashes, history>>

Phases == {"idle", "routing", "working", "awaiting_input", "awaiting_gate"}

Routes == {"native", "supervise"}

ASSUME RouteAssumption == RouteOf \in [Lines -> Routes]

States == [active : Routes, branch : Lines \union {None}, mode : Modes]

ASSUME StateAssumption == \A s \in States : s # None

Fresh == [active |-> "native", branch |-> None, mode |-> CHOOSE m \in Modes : TRUE]

Idle == [drive |-> None, doing |-> "no"]

Init ==
  /\ phase = "idle" /\ driveCancel = None /\ state = Fresh /\ stored = Fresh
  /\ box = <<>>
  /\ gatePending = FALSE /\ gateReply = None
  /\ askPending = FALSE /\ askReply = None /\ retried = FALSE
  /\ at = [l \in Lines |-> "new"] /\ saw = [l \in Lines |-> "idle"]
  /\ aborted = {} /\ canceller = Idle /\ calls = 0
  /\ gates = [l \in Lines |-> 0] /\ asks = [l \in Lines |-> 0]
  /\ saving = [s \in Lines \union {Door} |-> None]
  /\ crashes = 0 /\ excused = FALSE
  /\ for = [l \in Lines |-> <<>>] /\ behind = {} /\ late = {} /\ forsaken = {}

Goto(l, where) == at' = [at EXCEPT ![l] = where]

\* Where a drive is counted by the wait group, and where it owns the session.
Parked   == {"gate", "gate_close", "ask", "asking", "ask_end", "ask_leave"}
Live     == {"routing", "working"} \union Parked
Counted  == Live \union {"saving"}
Drives   == {l \in Lines : at[l] \in Counted}
Running  == {l \in Lines : at[l] \in Live}

-----------------------------------------------------------------------------
(* Turn, up to its unlock: claim the idle session, or read what it is doing. *)

Claim(l) ==
  /\ at[l] = "new" /\ phase = "idle"
  /\ phase' = "routing"
  /\ driveCancel' = l
  /\ Goto(l, "routing")
  /\ UNCHANGED <<state, saw, aborted, box, bridges, canceller, calls, store, crashes,
                 history>>

\* The questions of the drive that owns the session, and the one its phase stands for.
Gate  == <<driveCancel, "gate", gates[driveCancel]>>
Asked == <<driveCancel, "ask", asks[driveCancel]>>

Question == CASE phase = "awaiting_gate"  -> Gate
              [] phase = "awaiting_input" -> Asked
              [] OTHER -> <<>>

FollowUp(l) ==
  /\ at[l] = "new" /\ phase # "idle"
  /\ saw' = [saw EXCEPT ![l] = phase]
  /\ for' = [for EXCEPT ![l] = Question]
  /\ Goto(l, "deliver")
  /\ UNCHANGED <<session, aborted, box, bridges, canceller, calls, store, crashes, behind,
                 late, forsaken>>

(* The rest of it runs on the phase it read: whatever the bridge of that     *)
(* kind waits for by now takes the line, else it goes to the inbox.          *)

GateTakes(l) == saw[l] = "awaiting_gate" /\ gatePending /\ gateReply = None
AskTakes(l)  == saw[l] = "awaiting_input" /\ askPending /\ askReply = None

Deliver(l) ==
  /\ at[l] = "deliver"
  /\ \/ /\ GateTakes(l)
        /\ gateReply' = l
        /\ late' = IF at[driveCancel] = "gate_close" THEN late \union {l} ELSE late
        /\ Goto(l, "answer")
        /\ UNCHANGED <<askReply, for, behind>>
     \/ /\ AskTakes(l)
        /\ askReply' = l
        /\ late' = IF at[driveCancel] = "ask_end" THEN late \union {l} ELSE late
        /\ Goto(l, "answer")
        /\ UNCHANGED <<gateReply, for, behind>>
     \/ /\ ~GateTakes(l) /\ ~AskTakes(l)
        /\ for' = [for EXCEPT ![l] = <<>>] /\ behind' = behind \ {l}
        /\ Goto(l, "push")
        /\ UNCHANGED <<gateReply, askReply, late>>
  /\ saw' = [saw EXCEPT ![l] = "idle"]
  /\ UNCHANGED <<session, aborted, box, gatePending, askPending, gates, asks,
                 retried, canceller, calls, store, crashes, forsaken>>

\* Mutant: the inbox keeps one message.
Queued_Last(l) == <<l>>

Queued(l) == Append(box, l)

Push(l) ==
  /\ at[l] = "push"
  /\ box' = Queued(l)
  /\ Goto(l, "queued")
  /\ UNCHANGED <<session, saw, aborted, bridges, canceller, calls, store, crashes, history>>

-----------------------------------------------------------------------------
(* Route and launch, with the mutex released: the session is claimed.       *)

\* Mutant: the cancel func of an ended drive stays installed.
Released_KeepsCancel == phase' = "idle" /\ UNCHANGED driveCancel

Released == phase' = "idle" /\ driveCancel' = None

\* toIdle: no router, a routing error, no driver.
RouteFails(l) ==
  /\ at[l] = "routing"
  /\ Released
  /\ Goto(l, "over")
  /\ aborted' = aborted \ {l}
  /\ UNCHANGED <<state, saw, box, bridges, canceller, calls, store, crashes,
                 history>>

Launch(l) ==
  /\ at[l] = "routing"
  /\ phase' = "working"
  /\ state' = [state EXCEPT !.active = RouteOf[l]]
  /\ Goto(l, "working")
  /\ UNCHANGED <<driveCancel, saw, aborted, box, bridges, canceller, calls, store,
                 crashes, history>>

-----------------------------------------------------------------------------
(* The running drive, between its questions.                                *)

Drain(d) ==
  /\ at[d] = "working" /\ box # <<>>
  /\ at' = [l \in Lines |-> IF l \in ToSet(box) THEN "over" ELSE at[l]]
  /\ box' = <<>>
  /\ UNCHANGED <<session, saw, aborted, bridges, canceller, calls, store, crashes,
                 history>>

\* A snapshot sets out for the store; alone, it makes the store current.
Save(who, snapshot) ==
  /\ saving' = [saving EXCEPT ![who] = snapshot]
  /\ excused' = (\E s \in DOMAIN saving : saving[s] # None)
  /\ UNCHANGED stored

\* What a drive leaves of the state: a branch, the old one (it kept none, failed, or
\* was suspended).
Outcomes(d) == {state, [state EXCEPT !.branch = d]}

\* Mutant: the snapshot is taken before the fold.
Snapshot_BeforeFold == state

Snapshot == state'

DriveEnds(d) ==
  /\ at[d] = "working"
  /\ state' \in Outcomes(d)
  /\ Released
  /\ Save(d, Snapshot)
  /\ Goto(d, "saving")
  /\ gates' = [gates EXCEPT ![d] = 0] /\ asks' = [asks EXCEPT ![d] = 0]
  /\ UNCHANGED <<saw, aborted, box, gatePending, gateReply, askPending, askReply, retried,
                 canceller, calls, crashes, history>>

\* The write lands or fails; either is the end of the saver.
SaveEnds(who) ==
  /\ saving[who] # None
  /\ \/ stored' = saving[who] /\ UNCHANGED excused
     \/ excused' = TRUE /\ UNCHANGED stored
  /\ saving' = [saving EXCEPT ![who] = None]
  /\ IF who \in Lines THEN Goto(who, "over") ELSE UNCHANGED at
  /\ aborted' = aborted \ {who}
  /\ UNCHANGED <<session, saw, box, bridges, canceller, calls, crashes, history>>

-----------------------------------------------------------------------------
(* The gate bridge (approveViaTurn).                                        *)

MayAsk(d) == gates[d] + asks[d] < MaxQuestions

Enter(to)   == phase' = IF phase = "working" THEN to ELSE phase
Leave(from) == phase' = IF phase = from THEN "working" ELSE phase

parked == <<driveCancel, state, saw, aborted, box, canceller, calls, store, crashes>>

\* A question overtakes the lines that were typed at an earlier one of its kind and have
\* not reached the bridge: nothing tells them from its own.
Overtakes(kind) ==
  behind' = behind \union {l \in Lines : at[l] = "deliver" /\ saw[l] = kind}

\* Mutant: a gate opens on what the last one left in the channel.
CleanGate_Stale == UNCHANGED gateReply

CleanGate == gateReply' = None

GateOpens(d) ==
  /\ at[d] = "working" /\ MayAsk(d)
  /\ Enter("awaiting_gate")
  /\ gatePending' = TRUE
  /\ CleanGate
  /\ gates' = [gates EXCEPT ![d] = @ + 1]
  /\ Overtakes("awaiting_gate")
  /\ Goto(d, "gate")
  /\ UNCHANGED <<parked, askPending, askReply, asks, retried, for, late, forsaken>>

\* The question of d reads a line and moves to where.
Reads(d, l, where) ==
  /\ for' = [for EXCEPT ![l] = <<>>]
  /\ behind' = behind \ {l}
  /\ at' = [at EXCEPT ![l] = "over", ![d] = where]
  /\ UNCHANGED <<late, forsaken>>

\* A line that is neither yes nor no only asks again.
GateReads(d) ==
  /\ at[d] = "gate" /\ gateReply # None
  /\ Reads(d, gateReply, IF gateReply \in YesNo THEN "gate_close" ELSE "gate")
  /\ gateReply' = None
  /\ UNCHANGED <<parked, phase, gatePending, askPending, askReply, gates, asks, retried>>

\* Mutant: the gate is bound to the conversation, not to the drive.
Aborted_Never(d) == FALSE

Aborted(d) == d \in aborted

\* A cancelled drive's gate is denied, whatever waits in its channel.
GateDenies(d) ==
  /\ at[d] = "gate" /\ Aborted(d)
  /\ forsaken' = forsaken \union ({gateReply} \ {None})
  /\ Goto(d, "gate_close")
  /\ UNCHANGED <<parked, phase, bridges, for, behind, late>>

ShutGate == gatePending' = FALSE

GateCloses(d) ==
  /\ at[d] = "gate_close"
  /\ ShutGate
  /\ Leave("awaiting_gate")
  /\ Goto(d, "working")
  /\ UNCHANGED <<parked, gateReply, askPending, askReply, gates, asks, retried,
                 history>>

-----------------------------------------------------------------------------
(* The ask bridge (askAdapter.Ask over ask.Box.Ask), for a batch of          *)
(* questions.  The session's lock and the box's are taken in turn.          *)

AskParks(d) ==
  /\ at[d] = "working" /\ MayAsk(d)
  /\ Enter("awaiting_input")
  /\ asks' = [asks EXCEPT ![d] = @ + 1]
  /\ Overtakes("awaiting_input")
  /\ Goto(d, "ask")
  /\ UNCHANGED <<parked, gatePending, gateReply, askPending, askReply, gates, retried,
                 for, late, forsaken>>

AskBegins(d) ==
  /\ at[d] = "ask"
  /\ askPending' = TRUE
  /\ askReply' = None
  /\ retried' = FALSE
  /\ Goto(d, "asking")
  /\ UNCHANGED <<parked, phase, gatePending, gateReply, gates, asks, history>>

\* A blank line is asked again once; an answer is the last of the batch or not.
AskReads(d) ==
  /\ at[d] = "asking" /\ askReply # None
  /\ \E again \in {TRUE, FALSE}, next \in {"asking", "ask_end"} :
       /\ again => ~retried /\ next = "asking"
       /\ retried' = again
       /\ Reads(d, askReply, next)
  /\ askReply' = None
  /\ UNCHANGED <<parked, phase, gatePending, gateReply, askPending, gates, asks>>

\* The backstop timer, or the drive's cancellation.
AskQuits(d) ==
  /\ at[d] = "asking"
  /\ forsaken' = forsaken \union ({askReply} \ {None})
  /\ Goto(d, "ask_end")
  /\ UNCHANGED <<parked, phase, bridges, for, behind, late>>

AskEnds(d) ==
  /\ at[d] = "ask_end"
  /\ askPending' = FALSE
  /\ askReply' = None
  /\ retried' = FALSE
  /\ Goto(d, "ask_leave")
  /\ UNCHANGED <<parked, phase, gatePending, gateReply, gates, asks, history>>

AskLeaves(d) ==
  /\ at[d] = "ask_leave"
  /\ Leave("awaiting_input")
  /\ Goto(d, "working")
  /\ UNCHANGED <<parked, bridges, history>>

-----------------------------------------------------------------------------
(* The other calls of a front door.                                         *)

Called == calls < MaxCalls /\ calls' = calls + 1

CancelFinds ==
  /\ canceller = Idle /\ Called
  /\ phase # "idle" /\ driveCancel # None
  /\ canceller' = [drive |-> driveCancel, doing |-> "fire"]
  /\ UNCHANGED <<session, at, saw, aborted, box, bridges, store, crashes, history>>

\* Cancelling a drive that is over changes nothing.
Target == {canceller.drive} \intersect Drives

CancelFires ==
  /\ canceller.doing = "fire"
  /\ aborted' = aborted \union Target
  /\ canceller' = [canceller EXCEPT !.doing = "wait"]
  /\ UNCHANGED <<session, at, saw, box, bridges, calls, store, crashes, history>>

CancelReturns ==
  /\ canceller.doing = "wait" /\ Drives = {}
  /\ canceller' = Idle
  /\ UNCHANGED <<session, at, saw, aborted, box, bridges, calls, store, crashes, history>>

\* Memory only, as Clear below.
SetMode(m) ==
  /\ Called /\ m # state.mode
  /\ state' = [state EXCEPT !.mode = m]
  /\ excused' = TRUE
  /\ UNCHANGED <<phase, driveCancel, at, saw, aborted, box, bridges, canceller, saving,
                 stored, crashes, history>>

Clear ==
  /\ Called /\ phase = "idle"
  /\ state' = [state EXCEPT !.branch = None]
  /\ excused' = TRUE
  /\ UNCHANGED <<phase, driveCancel, at, saw, aborted, box, bridges, canceller, saving,
                 stored, crashes, history>>

ClearKeptBranch ==
  /\ Called /\ state.branch # None /\ saving[Door] = None
  /\ state' = [state EXCEPT !.branch = None]
  /\ Save(Door, state')
  /\ UNCHANGED <<phase, driveCancel, at, saw, aborted, box, bridges, canceller, crashes,
                 history>>

Checkpoint ==
  /\ Called /\ saving[Door] = None
  /\ Save(Door, state)
  /\ UNCHANGED <<session, at, saw, aborted, box, bridges, canceller, crashes, history>>

\* The process dies; the next one restores what the store holds.
Restart ==
  /\ crashes < MaxCrashes /\ crashes' = crashes + 1
  /\ UNCHANGED <<calls, stored>>
  /\ Released /\ state' = stored /\ box' = <<>>
  /\ gatePending' = FALSE /\ gateReply' = None
  /\ askPending' = FALSE /\ askReply' = None /\ retried' = FALSE
  /\ at' = [l \in Lines |-> IF at[l] = "new" THEN "new" ELSE "over"]
  /\ saw' = [l \in Lines |-> "idle"] /\ for' = [l \in Lines |-> <<>>]
  /\ behind' = {} /\ late' = {} /\ forsaken' = {}
  /\ gates' = [l \in Lines |-> 0] /\ asks' = [l \in Lines |-> 0]
  /\ aborted' = {} /\ canceller' = Idle
  /\ saving' = [s \in DOMAIN saving |-> None]
  /\ excused' = FALSE

-----------------------------------------------------------------------------
Turn(l) == Claim(l) \/ FollowUp(l) \/ Deliver(l) \/ Push(l)

Drive(d) ==
  \/ RouteFails(d) \/ Launch(d) \/ Drain(d) \/ DriveEnds(d) \/ SaveEnds(d)
  \/ GateOpens(d) \/ GateReads(d) \/ GateDenies(d) \/ GateCloses(d)
  \/ AskParks(d) \/ AskBegins(d) \/ AskReads(d) \/ AskQuits(d) \/ AskEnds(d) \/ AskLeaves(d)

FrontDoor ==
  \/ CancelFinds \/ CancelFires \/ CancelReturns
  \/ Clear \/ ClearKeptBranch \/ Checkpoint \/ SaveEnds(Door)
  \/ \E m \in Modes : SetMode(m)

Next == FrontDoor \/ Restart \/ \E l \in Lines : Turn(l) \/ Drive(l)

\* Goroutines run, and the work of a drive ends (NativeLoop's Returns); a person need
\* never type, so nothing is assumed of Turn, and a gate may stay parked for ever.
Fairness == \A d \in Lines : WF_vars(Drive(d))

Spec == Init /\ [][Next]_vars /\ Fairness

-----------------------------------------------------------------------------
(* Properties.                                                              *)

Places == {"new", "deliver", "push", "queued", "answer", "saving", "over"} \union Live

Questions == {<<>>} \union (Lines \X {"gate", "ask"} \X (0 .. MaxQuestions))

TypeOK ==
  /\ phase \in Phases /\ driveCancel \in Lines \union {None} /\ state \in States
  /\ at \in [Lines -> Places] /\ saw \in [Lines -> Phases] /\ aborted \subseteq Lines
  /\ box \in Seq(Lines)
  /\ gatePending \in BOOLEAN /\ gateReply \in Lines \union {None}
  /\ askPending \in BOOLEAN /\ askReply \in Lines \union {None} /\ retried \in BOOLEAN
  /\ gates \in [Lines -> 0 .. MaxQuestions] /\ asks \in [Lines -> 0 .. MaxQuestions]
  /\ canceller \in [drive : Lines \union {None}, doing : {"no", "fire", "wait"}]
  /\ calls \in 0 .. MaxCalls /\ crashes \in 0 .. MaxCrashes
  /\ saving \in [Lines \union {Door} -> States \union {None}]
  /\ stored \in States /\ excused \in BOOLEAN
  /\ for \in [Lines -> Questions]
  /\ behind \subseteq Lines /\ late \subseteq Lines /\ forsaken \subseteq Lines

PhaseOf(where) ==
  CASE where = "routing" -> "routing"
    [] where = "working" -> "working"
    [] where \in {"gate", "gate_close"} -> "awaiting_gate"
    [] OTHER -> "awaiting_input"

\* One drive at a time owns the session, and the phase and the bridges always say where that
\* drive stands: no teardown of a gate or an ask, no launch and no failure leaves a phase
\* behind that another drive did not earn, so no line starts a second drive or is refused by
\* an idle one, and a bridge is open exactly while the drive stands at its question.
OneDriveOwnsThePhase ==
  /\ Running = {} => phase = "idle" /\ driveCancel = None
  /\ \A d \in Running : Running = {d} /\ driveCancel = d /\ phase = PhaseOf(at[d])
  /\ gatePending <=> \E d \in Running : at[d] \in {"gate", "gate_close"}
  /\ askPending <=> \E d \in Running : at[d] \in {"asking", "ask_end"}

\* A question is answered by what was typed at it.  The one exception is a line behind: its
\* Turn had read the phase at an earlier question of the kind and was on its way to the
\* bridge when this one opened, so a yes meant for one gate can approve the next.  What an
\* earlier question left in the channel, and what was typed while the drive was at work,
\* never does.  And a line that a bridge accepted is read by the question, unless the bridge
\* was still open though the question was decided (late: the line does not fall through to
\* the inbox, which session.go:184-186 says it does), or the question was given up, by a
\* cancel or the backstop timer, with the line in its channel (forsaken).
NoAnswerCrosses ==
  /\ \A d \in Lines :
       /\ at[d] = "gate" /\ gateReply # None =>
            for[gateReply] = <<d, "gate", gates[d]>> \/ gateReply \in behind
       /\ at[d] = "asking" /\ askReply # None =>
            for[askReply] = <<d, "ask", asks[d]>> \/ askReply \in behind
  /\ \A l \in Lines : at[l] = "answer" => l \in {gateReply, askReply} \union late \union forsaken

\* A follow-up stays in the inbox, once, until a drive folds it or the process dies.
FollowUpsAreKept ==
  \A l \in Lines : at[l] = "queued" => Cardinality({i \in DOMAIN box : box[i] = l}) = 1

\* Once the saves have settled, a restart continues from the state the conversation has:
\* every way a drive ends saves what it folded.  Excused are a failed write, two saves that
\* overlapped, and a mode or a clear since the last one.
SavedWhenSettled ==
  phase = "idle" /\ ~excused /\ (\A s \in DOMAIN saving : saving[s] = None) => stored = state

\* A cancelled drive unwinds from wherever it is parked, without anyone typing.
Unwinding == \E d \in aborted : at[d] \in Counted
CancelUnwinds == Unwinding ~> ~Unwinding

=============================================================================
