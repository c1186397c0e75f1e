----------------------------- MODULE ModelCalls -----------------------------
(***************************************************************************)
(* Model calls of concurrent workers: the meter of each                    *)
(* (internal/meter) over one shared stack, the concurrency cap             *)
(* (internal/strongcap) over the retries, failover and circuit breakers of *)
(* model.Resilient, and one ledger of dollars (internal/budget).           *)
(*                                                                         *)
(* A call walks the providers in order.  Its attempts end in an answer, a  *)
(* fault worth retrying (a timeout is one) or a terminal one; its context  *)
(* may be cancelled at any instant.  Of an attempt's text the model keeps  *)
(* whether there is any, known by the number of the attempt; delays are    *)
(* left to the interleaving.                                               *)
(***************************************************************************)
EXTENDS Integers, Sequences, FiniteSets, Functions

CONSTANTS
  Callers,       \* workers; each is a ledger scope of its own (Task)
  N,             \* providers of the stack, primary first
  Streamers,     \* those that stream
  Cap,           \* concurrent calls of the stack; 0 is no limiter
  MaxRetries, Threshold, Cooldown,
  Prices,        \* dollars an answer, or a part of it, may cost
  TaskCeiling, GlobalCeiling,  \* 0 is unlimited
  MaxCalls,      \* calls of all workers (bound)
  MaxTime        \* ticks of the clock (bound)

ASSUME CallsAssumption ==
  /\ IsFiniteSet(Callers) /\ N \in Nat \ {0} /\ Streamers \subseteq 1 .. N
  /\ {Cap, MaxRetries, Threshold, Cooldown, TaskCeiling, GlobalCeiling} \subseteq Nat
  /\ Prices \subseteq Nat /\ MaxCalls \in Nat /\ MaxTime \in Nat

Providers == 1 .. N

VARIABLES
  stage,         \* each call: where it stands
  walk,          \* its way: how it is made, the provider, the retry
  result,        \* the attempt in hand: its number, how it ended, its text, its dollars
  painted,       \* the chunks forwarded to the caller: the numbers of their attempts
  resp,          \* what the walk returns: whether it is an answer, its text, its dollars
  cancelled,     \* the context of the call is done
  made,          \* calls made
  failures, openUntil,  \* breakers
  now,
  spent,         \* the ledger: dollars of each task ...
  total,         \* ... and of all
  faults,        \* history: faults of a provider in live calls, counted up to Threshold
  produced,      \* history: dollars of the responses a meter was handed
  refused        \* history: those of them that met a ceiling

calling  == <<stage, walk, result, painted, resp, made>>
breakers == <<failures, openUntil>>
ledger   == <<spent, total, produced, refused>>
callsVars == <<calling, cancelled, breakers, now, ledger, faults>>

NoWalk   == [how |-> "none", at |-> 1, try |-> 0]
NoResult == [n |-> 0, end |-> "none", said |-> FALSE, usd |-> 0]
NoAnswer == [ok |-> FALSE, text |-> <<>>, usd |-> 0]

CallsInit ==
  /\ stage = [c \in Callers |-> "idle"]
  /\ walk = [c \in Callers |-> NoWalk] /\ result = [c \in Callers |-> NoResult]
  /\ painted = [c \in Callers |-> <<>>] /\ resp = [c \in Callers |-> NoAnswer]
  /\ cancelled = [c \in Callers |-> FALSE] /\ made = 0
  /\ failures = [i \in Providers |-> 0] /\ openUntil = [i \in Providers |-> -1]
  /\ now = 0
  /\ spent = [c \in Callers |-> 0] /\ total = 0
  /\ faults = [i \in Providers |-> 0]
  /\ produced = [c \in Callers |-> 0] /\ refused = [c \in Callers |-> 0]

Least(a, b) == IF a < b THEN a ELSE b

MoveTo(c, l) == stage' = [stage EXCEPT ![c] = l]

-----------------------------------------------------------------------------
(* The breaker of a provider, each operation under its lock.                *)

allow(i) == Threshold = 0 \/ failures[i] < Threshold \/ now > openUntil[i]

recordSuccess(i) ==
  /\ failures' = [failures EXCEPT ![i] = 0]
  /\ openUntil' = [openUntil EXCEPT ![i] = -1]

recordFailure(i) ==
  /\ failures' = [failures EXCEPT ![i] = @ + 1]
  /\ openUntil' = IF Threshold > 0 /\ failures[i] + 1 >= Threshold
                  THEN [openUntil EXCEPT ![i] = now + Cooldown] ELSE openUntil

-----------------------------------------------------------------------------
(* The walk.                                                                *)

Streaming(c) == walk[c].how = "stream"

\* What was painted cannot be taken back.
Committed(c) == painted[c] # <<>>

\* The text of the attempt in hand.
Text(c) == IF result[c].said THEN <<result[c].n>> ELSE <<>>

\* Nothing of the walk but the answer is left for the meter.
Return(c, r) ==
  /\ resp' = [resp EXCEPT ![c] = r]
  /\ MoveTo(c, "charge")

Answer(c)  == [ok |-> TRUE, text |-> Text(c), usd |-> result[c].usd]

\* A stream that fails hands over what it had; a plain call nothing.
Partial(c) == IF Streaming(c) THEN [ok |-> FALSE, text |-> Text(c), usd |-> result[c].usd]
                              ELSE NoAnswer

BeginCall(c) ==
  /\ stage[c] = "idle" /\ made < MaxCalls
  /\ made' = made + 1
  /\ \E how \in {"complete", "stream"} : walk' = [walk EXCEPT ![c] = [NoWalk EXCEPT !.how = how]]
  /\ MoveTo(c, "gate")
  /\ UNCHANGED <<result, painted, resp, cancelled, breakers, now, ledger, faults>>

Inside == {c \in Callers : stage[c] \in {"pick", "call", "heard", "after", "sleep"}}

\* The limiter waits for a slot or for the end of the context.
Admit(c) ==
  /\ stage[c] = "gate"
  /\ \/ (Cap = 0 \/ Cardinality(Inside) < Cap) /\ MoveTo(c, "pick") /\ UNCHANGED resp
     \/ Cap > 0 /\ cancelled[c] /\ Return(c, NoAnswer)
  /\ UNCHANGED <<walk, result, painted, cancelled, made, breakers, now, ledger, faults>>

Attempt(c) ==
  /\ MoveTo(c, "call")
  /\ result' = [result EXCEPT ![c] = [NoResult EXCEPT !.n = result[c].n + 1]]

\* The next provider, if its breaker lets the call through, and the end of the list.
Pick(c) ==
  LET i == walk[c].at IN
  /\ stage[c] = "pick"
  /\ \/ i <= N /\ allow(i) /\ Attempt(c) /\ UNCHANGED <<walk, resp>>
     \/ /\ i <= N /\ ~allow(i)
        /\ walk' = [walk EXCEPT ![c].at = i + 1]
        /\ UNCHANGED <<stage, result, resp>>
     \/ i > N /\ Return(c, NoAnswer) /\ UNCHANGED <<walk, result>>
  /\ UNCHANGED <<painted, cancelled, made, breakers, now, ledger, faults>>

\* Live until something was painted; kept back after that.
Forward(c) ==
  painted' = IF Streaming(c) /\ ~Committed(c) THEN [painted EXCEPT ![c] = <<result[c].n>>]
                                              ELSE painted

\* The first delta of a stream.
Say(c) ==
  /\ stage[c] = "call" /\ Streaming(c) /\ walk[c].at \in Streamers /\ ~result[c].said
  /\ result' = [result EXCEPT ![c].said = TRUE]
  /\ Forward(c)
  /\ UNCHANGED <<stage, walk, resp, cancelled, made, breakers, now, ledger, faults>>

\* The provider is done; a provider that does not stream has its answer replayed in one
\* chunk.  A stream cut off knows what it cost so far.
Finish(c) ==
  /\ stage[c] = "call"
  /\ \E end \in {"ok", "fault", "terminal"}, usd \in Prices \cup {0}, more \in BOOLEAN :
       /\ usd = 0 <=> end # "ok" /\ ~Streaming(c)
       /\ more => end = "ok" /\ ~result[c].said
       /\ result' = [result EXCEPT ![c].end = end, ![c].usd = usd, ![c].said = @ \/ more]
       /\ IF more THEN Forward(c) ELSE UNCHANGED painted
       /\ faults' = IF end # "ok" /\ ~cancelled[c]
                    THEN [faults EXCEPT ![walk[c].at] = Least(@ + 1, Threshold)] ELSE faults
  /\ MoveTo(c, "heard")
  /\ UNCHANGED <<walk, resp, cancelled, made, breakers, now, ledger>>

\* Mutant: a cancelled attempt counts against its provider.
Interrupted_Never(c) == FALSE

\* A deliberate interruption is no fault of the provider.
Interrupted(c) == cancelled[c]

\* The end of an attempt reaches the breaker.
Hear(c) ==
  LET i == walk[c].at IN
  /\ stage[c] = "heard"
  /\ \/ result[c].end = "ok" /\ recordSuccess(i) /\ Return(c, Answer(c))
     \/ /\ result[c].end # "ok" /\ Interrupted(c)
        /\ Return(c, IF result[c].end = "terminal" /\ ~Committed(c) THEN NoAnswer ELSE Partial(c))
        /\ UNCHANGED breakers
     \/ /\ result[c].end # "ok" /\ ~Interrupted(c)
        /\ recordFailure(i) /\ MoveTo(c, "after") /\ UNCHANGED resp
  /\ UNCHANGED <<walk, result, painted, cancelled, made, now, ledger, faults>>

\* The walk goes on unless the context is done.
NextProvider(c) ==
  \/ cancelled[c] /\ Return(c, NoAnswer) /\ UNCHANGED walk
  \/ /\ ~cancelled[c]
     /\ walk' = [walk EXCEPT ![c].at = @ + 1, ![c].try = 0]
     /\ MoveTo(c, "pick") /\ UNCHANGED resp

\* Mutant: a stream that was painted is tried again.
Final_Never(c) == FALSE

Final(c) == Streaming(c) /\ Committed(c)

\* After a fault: no further once text was painted or nothing can help, another provider
\* when the breaker has opened or the retries are spent, else another try.
After(c) ==
  /\ stage[c] = "after"
  /\ \/ Final(c) /\ Return(c, Partial(c)) /\ UNCHANGED walk
     \/ /\ ~Final(c) /\ result[c].end = "terminal"
        /\ Return(c, NoAnswer) /\ UNCHANGED walk
     \/ /\ ~Final(c) /\ result[c].end # "terminal"
        /\ (~allow(walk[c].at) \/ walk[c].try = MaxRetries)
        /\ NextProvider(c)
     \/ /\ ~Final(c) /\ result[c].end # "terminal"
        /\ allow(walk[c].at) /\ walk[c].try < MaxRetries
        /\ MoveTo(c, "sleep") /\ UNCHANGED <<walk, resp>>
  /\ UNCHANGED <<result, painted, cancelled, made, breakers, now, ledger, faults>>

\* The backoff ends, or is cut short.  The breaker is not asked again.
Sleep(c) ==
  /\ stage[c] = "sleep"
  /\ \/ walk' = [walk EXCEPT ![c].try = @ + 1] /\ Attempt(c) /\ UNCHANGED resp
     \/ cancelled[c] /\ Return(c, NoAnswer) /\ UNCHANGED <<walk, result>>
  /\ UNCHANGED <<painted, cancelled, made, breakers, now, ledger, faults>>

-----------------------------------------------------------------------------
(* The meter and the ledger.                                                *)

\* Mutant: the ledger sees the context of the call.
chargeCtxDone_OfCall(c) == cancelled[c]

\* The charge is made in a context that cannot be cancelled.
chargeCtxDone(c) == FALSE

Affords(c, usd) ==
  /\ TaskCeiling = 0 \/ spent[c] + usd <= TaskCeiling
  /\ GlobalCeiling = 0 \/ total + usd <= GlobalCeiling

Billable(c) == resp[c].ok \/ Streaming(c)

\* Charge, under the ledger's lock: a charge that does not fit records nothing.
ChargeCall(c) ==
  LET usd == resp[c].usd IN
  /\ stage[c] = "charge"
  /\ \/ /\ Billable(c) /\ ~chargeCtxDone(c) /\ Affords(c, usd)
        /\ spent' = [spent EXCEPT ![c] = @ + usd] /\ total' = total + usd
        /\ UNCHANGED refused
     \/ /\ Billable(c) /\ ~chargeCtxDone(c) /\ ~Affords(c, usd)
        /\ refused' = [refused EXCEPT ![c] = @ + usd]
        /\ UNCHANGED <<spent, total>>
     \/ (~Billable(c) \/ chargeCtxDone(c)) /\ UNCHANGED <<spent, total, refused>>
  /\ produced' = [produced EXCEPT ![c] = @ + usd]
  /\ MoveTo(c, "idle")
  /\ walk' = [walk EXCEPT ![c] = NoWalk] /\ result' = [result EXCEPT ![c] = NoResult]
  /\ painted' = [painted EXCEPT ![c] = <<>>] /\ resp' = [resp EXCEPT ![c] = NoAnswer]
  /\ cancelled' = [cancelled EXCEPT ![c] = FALSE]
  /\ UNCHANGED <<made, breakers, now, faults>>

-----------------------------------------------------------------------------

Cancel(c) ==
  /\ stage[c] # "idle" /\ ~cancelled[c]
  /\ cancelled' = [cancelled EXCEPT ![c] = TRUE]
  /\ UNCHANGED <<calling, breakers, now, ledger, faults>>

Tick ==
  /\ now < MaxTime /\ now' = now + 1
  /\ UNCHANGED <<calling, cancelled, breakers, ledger, faults>>

Step(c) ==
  \/ BeginCall(c) \/ Admit(c) \/ Pick(c) \/ Say(c) \/ Finish(c) \/ Hear(c) \/ After(c) \/ Sleep(c)
  \/ ChargeCall(c) \/ Cancel(c)

CallsNext == (\E c \in Callers : Step(c)) \/ Tick

CallsSpec == CallsInit /\ [][CallsNext]_callsVars

-----------------------------------------------------------------------------
(* Properties.                                                              *)

Stages    == {"idle", "gate", "pick", "call", "heard", "after", "sleep", "charge"}
Walks     == [how : {"none", "complete", "stream"}, at : 1 .. N + 1, try : 0 .. MaxRetries]
Results   == [n : Nat, end : {"none", "ok", "fault", "terminal"}, said : BOOLEAN, usd : Nat]
Responses == [ok : BOOLEAN, text : Seq(Nat), usd : Nat]

CallsTypeOK ==
  /\ stage \in [Callers -> Stages] /\ walk \in [Callers -> Walks]
  /\ result \in [Callers -> Results] /\ painted \in [Callers -> Seq(Nat)]
  /\ resp \in [Callers -> Responses]
  /\ cancelled \in [Callers -> BOOLEAN] /\ made \in 0 .. MaxCalls
  /\ failures \in [Providers -> Nat] /\ openUntil \in [Providers -> Int] /\ now \in 0 .. MaxTime
  /\ spent \in [Callers -> Nat] /\ total \in Nat
  /\ faults \in [Providers -> 0 .. Threshold]
  /\ produced \in [Callers -> Nat] /\ refused \in [Callers -> Nat]

\* What a stream returns is what was painted on the way, through retries, failover, faults
\* in the middle and a cancellation: no text is shown twice, and none is shown that the
\* response does not have (resilience.go:186-205).
PaintedIsReturned ==
  \A c \in Callers : stage[c] = "charge" /\ Streaming(c) => painted[c] = resp[c].text

\* Cancelled calls never open a breaker, whenever the cancellation meets the end of the
\* attempt: a provider that failed fewer live calls than the threshold is never skipped
\* (resilience.go:299-311, 413-420).
CancelsDontTrip == \A i \in Providers : faults[i] < Threshold => allow(i)

\* What a meter is handed is recorded or met a ceiling, also when the call is cancelled
\* before the charge; the tasks add up to the total, and neither passes its ceiling
\* (meter.go:27-33, budget.go:74-119).
LedgerIsExact ==
  /\ \A c \in Callers : produced[c] = spent[c] + refused[c]
  /\ total = SumFunction(spent)
  /\ \A c \in Callers : TaskCeiling > 0 => spent[c] <= TaskCeiling
  /\ GlobalCeiling > 0 => total <= GlobalCeiling

=============================================================================
