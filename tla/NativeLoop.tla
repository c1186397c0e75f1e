----------------------------- MODULE NativeLoop -----------------------------
(***************************************************************************)
(* The native agent loop of internal/backend/native.go (Run) with the      *)
(* inbox it drains (internal/inbox): one drive of a conversation, the      *)
(* principal typing into it at any instant, and a model that may answer,   *)
(* be cut off, overflow its window, fault, or be interrupted by a steer.   *)
(*                                                                         *)
(* Push (inbox.go) is two steps, the append under the mutex and the send   *)
(* on the steer channel, because the loop runs between them.  So are the   *)
(* Drain at the top of a step and the receive that clears a stale signal.  *)
(* The conversation is a sequence of turns of which only the kind matters: *)
(* "goal", "summary", "note" (a harness notice), "text" (an assistant turn *)
(* without a call), "call" (with one), "results" (the user turn answering  *)
(* it), and a message for a turn the principal typed.                      *)
(***************************************************************************)
EXTENDS Integers, Sequences, FiniteSets, SequencesExt

CONSTANTS
  Messages,      \* the lines the principal may type during the drive
  Steers,        \* those marked as a steer
  Steps,         \* MaxSteps, the step budget
  WrapUpAt,      \* steps left when the wrap-up notice is sent (5 in the code)
  Keep,          \* keepExchanges, the exchanges a compaction keeps (4)
  MaxTok,        \* the output cap, in halvings above its floor (4)
  MaxCap,        \* maxAttempts of reduceOutputCap (4)
  MaxAsks,       \* the ask budget of the drive
  Seeds,         \* the turns of earlier drives a conversation may start from
  Proposals      \* the tool sequences a reply may carry

Tools == {"run", "finish", "sleep", "ask", "other"}

Turns == {"goal", "summary", "note", "text", "call", "results"}

ASSUME LoopAssumption ==
  /\ Steers \subseteq Messages
  /\ Steps \in Nat /\ WrapUpAt \in Nat /\ Keep \in Nat \ {0}
  /\ MaxTok \in Nat /\ MaxCap \in Nat /\ MaxAsks \in Nat
  /\ Seeds \subseteq Seq({"goal", "text"})
  /\ \A seed \in Seeds : seed # <<>> => seed[1] = "goal"
  /\ Proposals \subseteq Seq(Tools)

ASSUME TurnsAssumption == Messages \cap Turns = {}

VARIABLES
  streaming,     \* an Emitter and a streaming provider are wired
  pc, step,      \* where the loop stands, and its step counter i
  msgs,          \* the conversation sent to the model
  wrapped,       \* wrapUpSent
  over,          \* lastInput is known and above the compaction threshold
  overflowStreak, capStreak, tok,
  fired,         \* the stream watcher (or its finish line) consumed a signal
  proposal,      \* the tools of the reply at hand
  todo,          \* those not dispatched yet
  finished,      \* a finish call was among them
  asked,         \* asksUsed
  judged,        \* the verifier passed the working tree as it stands
  armed,         \* wakes armed by the sleep tool
  cancelled,     \* the task context is done
  result,        \* what Run returned
  queued, signal,\* the inbox: its queue and the cap-1 steer channel
  typed,         \* how far the Push of each message got
  arrivals,      \* history: the order in which messages were queued
  summarised,    \* history: the messages that only a summary stands for
  heard          \* history: steers signalled while the reply was awaited

loop   == <<pc, step, msgs, wrapped, over, overflowStreak, capStreak, tok,
            fired, proposal, todo, finished, asked, judged, armed, result>>
inbox  == <<queued, signal>>
user   == <<typed, arrivals, cancelled>>
vars   == <<streaming, loop, inbox, user, summarised, heard>>

Init ==
  /\ streaming \in BOOLEAN
  /\ pc = "top" /\ step = 0
  /\ \E seed \in Seeds : msgs = Append(seed, "goal")
  /\ wrapped = FALSE /\ over = FALSE
  /\ overflowStreak = 0 /\ capStreak = 0 /\ tok = MaxTok
  /\ fired = FALSE /\ proposal = <<>> /\ todo = <<>> /\ finished = FALSE
  /\ asked = 0 /\ judged = FALSE /\ armed = 0 /\ result = "none"
  /\ queued = <<>> /\ signal = FALSE
  /\ typed = [m \in Messages |-> "no"] /\ arrivals = <<>> /\ cancelled = FALSE
  /\ summarised = {} /\ heard = {}

-----------------------------------------------------------------------------
(* The principal: Push of a follow-up or a steer, and a shutdown.           *)

PushQueue(m) ==
  /\ typed[m] = "no" /\ pc # "done"
  /\ queued' = Append(queued, m)
  /\ arrivals' = Append(arrivals, m)
  /\ typed' = [typed EXCEPT ![m] = IF m \in Steers THEN "queued" ELSE "pushed"]
  /\ UNCHANGED <<streaming, loop, signal, cancelled, summarised, heard>>

\* The non-blocking send: a pending signal absorbs it.
PushSignal(m) ==
  /\ typed[m] = "queued" /\ pc # "done"
  /\ signal' = TRUE
  /\ typed' = [typed EXCEPT ![m] = "pushed"]
  /\ heard' = IF pc \in {"call", "reply"} THEN heard \union {m} ELSE heard
  /\ UNCHANGED <<streaming, loop, queued, arrivals, cancelled, summarised>>

Shutdown ==
  /\ ~cancelled /\ result = "none"
  /\ cancelled' = TRUE
  /\ UNCHANGED <<streaming, loop, inbox, typed, arrivals, summarised, heard>>

-----------------------------------------------------------------------------
(* The history helpers: Drain, and the splice of compactMsgs.               *)

Drain == queued' = <<>>

\* Mutant: a batch of messages is folded as its last one.
Drained_LastOnly(ms) == ms \o SubSeq(queued, Len(queued), Len(queued))

Drained(ms) == ms \o queued

Assistants(ms) == {j \in 2 .. Len(ms) : ms[j] \in {"text", "call"}}

\* The Keep-th assistant turn from the end, or the first one there is.
Cut(ms) ==
  LET A == Assistants(ms)
      From(j) == Cardinality({k \in A : k >= j})
  IN IF A = {} THEN 0
     ELSE CHOOSE j \in A : /\ From(j) <= Keep
                           /\ \A k \in A : From(k) <= Keep => j <= k

CanCompact(ms) == Cut(ms) > 2

\* Mutant: the cut lands after the assistant turn.
Compacted_OffByOne(ms) == <<ms[1], "summary">> \o SubSeq(ms, Cut(ms) + 1, Len(ms))

Compacted(ms) == <<ms[1], "summary">> \o SubSeq(ms, Cut(ms), Len(ms))

\* History: what the summary stands for. (Its words are left to the distiller, or to the
\* trail of actions when that fails.)
Elided(ms) == {ms[j] : j \in 2 .. Cut(ms) - 1} \cap Messages

-----------------------------------------------------------------------------
(* The top of a step: drain, clear a stale signal, notices, compaction.     *)

Return(r) == pc' = "done" /\ result' = r

\* What one iteration declares for itself, gone at its end.
scratch == <<fired, proposal, todo, finished, heard>>
Forgotten ==
  /\ fired' = FALSE /\ finished' = FALSE
  /\ proposal' = <<>> /\ todo' = <<>> /\ heard' = {}

NextStep == pc' = "top" /\ step' = step + 1 /\ Forgotten

Top ==
  /\ pc = "top"
  /\ IF step >= Steps
     THEN /\ Return("exhausted")
          /\ UNCHANGED <<msgs, inbox>>
     ELSE IF queued # <<>>
     THEN /\ Drain
          /\ msgs' = Drained(msgs)
          /\ pc' = "clear"
          /\ UNCHANGED <<signal, result>>
     ELSE /\ pc' = "prepare"
          /\ UNCHANGED <<msgs, inbox, result>>
  /\ UNCHANGED <<streaming, step, wrapped, over, overflowStreak, capStreak, tok,
                 fired, proposal, todo, finished, asked, judged, armed,
                 user, summarised, heard>>

ClearSignal ==
  /\ pc = "clear"
  /\ signal' = FALSE
  /\ pc' = "prepare"
  /\ UNCHANGED <<streaming, step, msgs, wrapped, over, overflowStreak, capStreak,
                 tok, fired, proposal, todo, finished, asked, judged, armed,
                 result, queued, user, summarised, heard>>

Noticed == IF Steps - step <= WrapUpAt /\ ~wrapped THEN Append(msgs, "note") ELSE msgs

Prepare ==
  /\ pc = "prepare"
  /\ wrapped' = (wrapped \/ Steps - step <= WrapUpAt)
  /\ IF over /\ CanCompact(Noticed)
     THEN /\ msgs' = Compacted(Noticed)
          /\ summarised' = summarised \union Elided(Noticed)
          /\ over' = FALSE
     ELSE /\ msgs' = Noticed
          /\ UNCHANGED <<over, summarised>>
  /\ pc' = "call"
  /\ UNCHANGED <<streaming, step, overflowStreak, capStreak, tok, scratch, asked,
                 judged, armed, result, inbox, user>>

-----------------------------------------------------------------------------
(* The model call.  A streamed call has a watcher beside it that consumes   *)
(* the steer signal; whether it cut the stream or lost the race with its    *)
(* end, the outcome carries it.                                             *)

CallEnds == pc = "call"

Watch ==
  /\ streaming /\ CallEnds /\ signal /\ ~fired
  /\ fired' = TRUE /\ signal' = FALSE
  /\ UNCHANGED <<streaming, pc, step, msgs, wrapped, over, overflowStreak, capStreak,
                 tok, proposal, todo, finished, asked, judged, armed, result,
                 queued, user, summarised, heard>>

Reply(p) ==
  /\ CallEnds
  /\ proposal' = p
  /\ pc' = "reply"
  /\ over' \in BOOLEAN
  /\ overflowStreak' = 0 /\ capStreak' = 0
  /\ UNCHANGED <<streaming, step, msgs, wrapped, tok, fired, todo, finished, asked,
                 judged, armed, result, inbox, user, summarised, heard>>

\* What textBlocks keeps of a cut-off reply: its prose, if it had any.
Prose == {<<>>, <<"text">>}

Truncated ==
  /\ CallEnds
  /\ \E kept \in Prose : msgs' = msgs \o kept \o <<"note">>
  /\ NextStep
  /\ over' \in BOOLEAN
  /\ overflowStreak' = 0 /\ capStreak' = 0
  /\ UNCHANGED <<streaming, wrapped, tok, asked, judged, armed, result, inbox, user,
                 summarised>>

\* An error of the call, in the order it is classified: a done task context, a
\* steer that cut the stream, then the fault itself.
Interrupted ==
  /\ CallEnds /\ cancelled
  /\ Return("interrupted")
  /\ UNCHANGED <<streaming, step, msgs, wrapped, over, overflowStreak, capStreak, tok,
                 fired, proposal, todo, finished, asked, judged, armed,
                 inbox, user, summarised, heard>>

CutBySteer == ~cancelled /\ fired

SteerCut ==
  /\ CallEnds /\ CutBySteer
  /\ \E kept \in Prose : msgs' = Drained(msgs \o kept)
  /\ Drain
  /\ NextStep
  /\ UNCHANGED <<streaming, wrapped, over, overflowStreak, capStreak, tok, asked,
                 judged, armed, result, signal, user, summarised>>

Faulted == CallEnds /\ ~cancelled /\ ~fired

\* Mutant: every overflow is the first one.
CountOverflow_Never == UNCHANGED overflowStreak

CountOverflow == overflowStreak' = overflowStreak + 1

Overflow ==
  /\ Faulted
  /\ IF overflowStreak = 0 /\ CanCompact(msgs)
     THEN /\ msgs' = Compacted(msgs)
          /\ summarised' = summarised \union Elided(msgs)
          /\ CountOverflow
          /\ over' = FALSE
          /\ pc' = "top"
          /\ UNCHANGED result
     ELSE /\ Return("fault")
          /\ UNCHANGED <<msgs, summarised, overflowStreak, over>>
  /\ Forgotten
  /\ UNCHANGED <<streaming, step, wrapped, capStreak, tok, asked, judged, armed, inbox,
                 user>>

CanReduce == capStreak < MaxCap /\ tok > 0

CapRejected ==
  /\ Faulted
  /\ IF CanReduce
     THEN /\ capStreak' = capStreak + 1
          /\ tok' = tok - 1
          /\ pc' = "top"
          /\ UNCHANGED result
     ELSE /\ Return("fault")
          /\ UNCHANGED <<capStreak, tok>>
  /\ Forgotten
  /\ UNCHANGED <<streaming, step, msgs, wrapped, over, overflowStreak, asked, judged,
                 armed, inbox, user, summarised>>

Fault ==
  /\ Faulted
  /\ Return("fault")
  /\ UNCHANGED <<streaming, step, msgs, wrapped, over, overflowStreak, capStreak, tok,
                 fired, proposal, todo, finished, asked, judged, armed,
                 inbox, user, summarised, heard>>

-----------------------------------------------------------------------------
(* The pause before the tools: a pending steer holds every proposed call.   *)

Turn(p) == IF p = <<>> THEN "text" ELSE "call"

\* Mutant: a steer the stream watcher consumed at the finish line is forgotten.
SteerPending_SignalOnly == signal

SteerPending == fired \/ signal

\* steerAtFinish short-circuits steerPending, which is then not received.
CheckSteer ==
  /\ pc = "reply"
  /\ msgs' = Append(msgs, Turn(proposal))
  /\ IF SteerPending
     THEN /\ pc' = "hold"
          /\ signal' = (fired /\ signal)
          /\ UNCHANGED <<todo, finished>>
     ELSE /\ pc' = "act"
          /\ todo' = proposal /\ finished' = FALSE
          /\ UNCHANGED signal
  /\ UNCHANGED <<streaming, step, wrapped, over, overflowStreak, capStreak, tok, fired,
                 proposal, asked, judged, armed, result, queued, user, summarised,
                 heard>>

Hold ==
  /\ pc = "hold"
  /\ msgs' = Drained(IF proposal = <<>> THEN msgs ELSE Append(msgs, "results"))
  /\ Drain
  /\ NextStep
  /\ UNCHANGED <<streaming, wrapped, over, overflowStreak, capStreak, tok, asked,
                 judged, armed, result, signal, user, summarised>>

-----------------------------------------------------------------------------
(* Dispatch, one call at a time, then the verdict of the verifier.          *)

Next1(t) == pc = "act" /\ todo # <<>> /\ Head(todo) = t

acting == <<streaming, step, msgs, wrapped, over, overflowStreak, capStreak, tok,
            fired, proposal, inbox, user, summarised, heard>>

\* A command or a file tool; it may fail and change nothing.
Run ==
  /\ Next1("run")
  /\ judged' \in {judged, FALSE}
  /\ todo' = Tail(todo)
  /\ UNCHANGED <<acting, pc, finished, asked, armed, result>>

\* A call that changes nothing the loop reads: advice, a query, a refusal.
Other ==
  /\ Next1("other")
  /\ todo' = Tail(todo)
  /\ UNCHANGED <<acting, pc, finished, asked, judged, armed, result>>

Finish ==
  /\ Next1("finish")
  /\ finished' = TRUE
  /\ todo' = Tail(todo)
  /\ UNCHANGED <<acting, pc, asked, judged, armed, result>>

Nap == armed' = armed + 1 /\ Return("suspended")

\* Arming may fail, and then the loop stays awake.
Sleep ==
  /\ Next1("sleep")
  /\ \/ Nap
     \/ UNCHANGED <<armed, pc, result>>
  /\ todo' = Tail(todo)
  /\ UNCHANGED <<acting, finished, asked, judged>>

AskAlone == Len(proposal) = 1

\* Refused, answered (or timed out with what was answered), failed, cancelled.
Ask ==
  /\ Next1("ask")
  /\ \/ /\ ~AskAlone \/ asked >= MaxAsks
        /\ UNCHANGED <<asked, pc, result>>
     \/ /\ AskAlone /\ asked < MaxAsks
        /\ \/ asked' = asked + 1 /\ UNCHANGED <<pc, result>>
           \/ ~cancelled /\ UNCHANGED <<asked, pc, result>>
           \/ cancelled /\ Return("interrupted") /\ UNCHANGED asked
  /\ todo' = Tail(todo)
  /\ UNCHANGED <<acting, finished, judged, armed>>

\* Mutant: the model's claim decides.
JudgeClaim_Trusts == Return("green")

JudgeClaim == pc' = "verify" /\ UNCHANGED result

\* The end of the turn: judge a claim, or answer the calls, or nudge.
EndTurn ==
  /\ pc = "act" /\ todo = <<>>
  /\ IF finished
     THEN /\ JudgeClaim
          /\ UNCHANGED <<msgs, step, scratch>>
     ELSE /\ msgs' = Append(msgs, IF proposal = <<>> THEN "note" ELSE "results")
          /\ NextStep
          /\ UNCHANGED result
  /\ UNCHANGED <<streaming, wrapped, over, overflowStreak, capStreak, tok, asked, judged,
                 armed, inbox, user, summarised>>

Verify ==
  /\ pc = "verify"
  /\ \/ /\ judged' = TRUE
        /\ Return("green")
        /\ UNCHANGED <<msgs, step, scratch>>
     \/ /\ msgs' = Append(msgs, "results")
        /\ NextStep
        /\ UNCHANGED <<judged, result>>
     \/ /\ Return("verify_error")
        /\ UNCHANGED <<msgs, step, judged, scratch>>
  /\ UNCHANGED <<streaming, wrapped, over, overflowStreak, capStreak, tok, asked, armed,
                 inbox, user, summarised>>

-----------------------------------------------------------------------------
Call == Watch \/ Truncated \/ Interrupted \/ SteerCut \/ Overflow \/ CapRejected \/ Fault
        \/ \E p \in Proposals : Reply(p)

Dispatch == Run \/ Other \/ Finish \/ Sleep \/ Ask \/ EndTurn

Loop == Top \/ ClearSignal \/ Prepare \/ Call \/ CheckSteer \/ Hold \/ Dispatch \/ Verify

Principal == Shutdown \/ \E m \in Messages : PushQueue(m) \/ PushSignal(m)

Done == pc = "done" /\ UNCHANGED vars

Next == Loop \/ Principal \/ Done

\* The loop's goroutine runs, and a model call, a tool and a parked question all end
\* (provider timeouts, the sandbox limit, the ask box's backstop).
Fairness == WF_vars(Loop)

Spec == Init /\ [][Next]_vars /\ Fairness

-----------------------------------------------------------------------------
(* Properties.                                                              *)

Results == {"none", "exhausted", "interrupted", "fault", "suspended", "green",
            "verify_error"}

TypeOK ==
  /\ streaming \in BOOLEAN /\ wrapped \in BOOLEAN /\ over \in BOOLEAN
  /\ fired \in BOOLEAN /\ finished \in BOOLEAN /\ signal \in BOOLEAN
  /\ cancelled \in BOOLEAN
  /\ pc \in {"top", "clear", "prepare", "call", "reply", "hold", "act", "verify", "done"}
  /\ step \in 0 .. Steps
  /\ msgs \in Seq(Turns \union Messages)
  /\ overflowStreak \in 0 .. 1 /\ capStreak \in 0 .. MaxCap /\ tok \in 0 .. MaxTok
  /\ proposal \in Seq(Tools) /\ todo \in Seq(Tools)
  /\ asked \in 0 .. MaxAsks /\ judged \in BOOLEAN
  /\ armed \in 0 .. 1 /\ result \in Results
  /\ queued \in Seq(Messages) /\ arrivals \in Seq(Messages) /\ summarised \subseteq Messages
  /\ typed \in [Messages -> {"no", "queued", "pushed"}]
  /\ heard \subseteq Steers

\* Whatever was compacted, held, cut off or verified before, a conversation sent to the
\* model starts with its first turn, and each turn with calls is followed at once by the
\* results that answer them, and no results stand elsewhere.
AnsweredAtCall ==
  pc = "call" =>
    /\ msgs[1] = "goal"
    /\ \A j \in 1 .. Len(msgs) :
         /\ msgs[j] = "call" => j < Len(msgs) /\ msgs[j + 1] = "results"
         /\ msgs[j] = "results" => msgs[j - 1] = "call"

\* A steer that signals while a reply is awaited is in the conversation before any call
\* of that reply runs, whichever of the watcher, the finish line and the check heard it.
HeardBeforeActing == pc = "act" => heard \subseteq ToSet(msgs)

\* m stands in s, and n in a later place.
Precedes(s, m, n) == \E i, j \in DOMAIN s : i < j /\ s[i] = m /\ s[j] = n

\* Nothing the principal typed is lost, doubled or reordered on its way from the inbox
\* through the places that drain it: each line is in the conversation the model is sent or
\* still in the inbox, in the order of arrival, or a summary stands for it, and then only
\* later lines remain (native.go:460-478, 598-606, 787-795, 1450-1515).
FoldedInOrder ==
  LET told == msgs \o queued
  IN  /\ summarised \union (ToSet(told) \cap Messages) = ToSet(arrivals)
      /\ \A m, n \in Messages :
           Precedes(told, m, n) \/ (m \in summarised /\ n \in ToSet(told))
             => Precedes(arrivals, m, n)

\* A drive that ends green was judged on the tree it leaves, after its last call; and one
\* that armed its timer ends there, suspended: it never works on with the timer running.
ResultsAreEarned ==
  /\ result = "green" => judged
  /\ armed > 0 => result = "suspended" /\ armed = 1

\* The retries that give back their step (overflow, output cap) are bounded, so the loop
\* always returns.
Returns == <>(pc = "done")

=============================================================================
