--------------------------- MODULE NativeLoopProofs ---------------------------
(***************************************************************************)
(* Proofs about the native agent loop, for any messages, budgets and        *)
(* proposals.                                                               *)
(*                                                                         *)
(* The argument: wherever the loop stands, the conversation is sound, but   *)
(* for the one call that is open while it is dispatched (ConvInv); what     *)
(* keeps it so is that a compaction cuts where an exchange starts.  A steer *)
(* that was heard while a reply is awaited has left its mark on the signal  *)
(* or on the watcher until it is folded (HeardInv).                         *)
(*                                                                         *)
(* At the end, the autonomy daemon whose handlers start such loops          *)
(* (Autosrc), for any objectives, files, slots, periods and queue bound.    *)
(* Where its goroutines stand says which of them holds a signal (Places);   *)
(* and no row's last run is later than an attempt that is about to be put   *)
(* back (Spaced).                                                           *)
(***************************************************************************)
EXTENDS NativeLoop, Autosrc, FiniteSetTheorems, SequenceTheorems, WellFoundedInduction, TLAPS

-----------------------------------------------------------------------------
(* Where a compaction cuts.                                                 *)

\* A set of numbers that is not empty has a least one.
LEMMA Least ==
  ASSUME NEW S \in SUBSET Nat, S # {}
  PROVE  \E j \in S : \A k \in S : j <= k
<1>1. PICK j \in S : \A k \in S : ~(<<k, j>> \in OpToRel(<, Nat))
  BY WFMin, NatLessThanWellFounded, Zenon
<1>2. \A k \in S : ~(k < j)
  BY <1>1 DEF OpToRel
<1> QED
  BY <1>2

\* If it is bounded it has a greatest one.
LEMMA Greatest ==
  ASSUME NEW S \in SUBSET Nat, S # {}, NEW n \in Nat, \A k \in S : k <= n
  PROVE  \E j \in S : \A k \in S : k <= j
<1> DEFINE T == {n - k : k \in S}
<1>0. \A k \in S : n - k \in Nat
  OBVIOUS
<1>1. T \in SUBSET Nat /\ T # {}
  BY <1>0
<1>2. PICK t \in T : \A u \in T : t <= u
  BY <1>1, Least
<1>3. PICK j \in S : t = n - j
  OBVIOUS
<1>4. \A k \in S : n - j <= n - k
  BY <1>2, <1>3
<1> QED
  BY <1>3, <1>4

\* The cut, if there is one, is at an assistant turn.
LEMMA CutIsAssistant ==
  ASSUME NEW ms, Len(ms) \in Nat, CanCompact(ms)
  PROVE  Cut(ms) \in Assistants(ms)
<1> DEFINE A == Assistants(ms)
           From(j) == Cardinality({k \in A : k >= j})
           B == {j \in A : From(j) <= Keep}
<1>1. A \in SUBSET Nat /\ \A k \in A : k <= Len(ms)
  BY DEF Assistants
<1>2. A # {}
  BY DEF CanCompact, Cut
<1>3. PICK g \in A : \A k \in A : k <= g
  BY <1>1, <1>2, Greatest
<1>4. {k \in A : k >= g} = {g}
  BY <1>1, <1>3
<1>5. From(g) = 1
  BY <1>4, FS_Singleton
<1>6. g \in B
  BY <1>5, LoopAssumption
<1>7. PICK j \in B : \A k \in B : j <= k
  BY <1>1, <1>6, Least
<1>8. Cut(ms) = CHOOSE i \in A : From(i) <= Keep /\ \A k \in A : From(k) <= Keep => i <= k
  BY <1>2 DEF Cut
<1>9. \E i \in A : From(i) <= Keep /\ \A k \in A : From(k) <= Keep => i <= k
  BY <1>7
<1> QED
  BY <1>8, <1>9

-----------------------------------------------------------------------------
(* A conversation in order.                                                 *)

All == Turns \union Messages

\* It starts with a goal, results follow their call at once and stand nowhere else; the
\* last turn may be a call that is open.
Sound(ms, open) ==
  /\ ms \in Seq(All) /\ Len(ms) > 0 /\ ms[1] = "goal"
  /\ open => ms[Len(ms)] = "call"
  /\ \A j \in 1 .. Len(ms) :
       /\ ms[j] = "call" => (open /\ j = Len(ms)) \/ (j < Len(ms) /\ ms[j + 1] = "results")
       /\ ms[j] = "results" => j > 1 /\ ms[j - 1] = "call"

Plain == All \ {"call", "results"}

LEMMA PlainFacts ==
  /\ {"goal", "summary", "note", "text"} \subseteq Plain /\ Messages \subseteq Plain
  /\ Plain \subseteq All /\ {"call", "results"} \subseteq All
BY TurnsAssumption DEF Plain, All, Turns

\* What it means of a conversation without an open call, turn by turn.
LEMMA SoundFacts ==
  ASSUME NEW ms, Sound(ms, FALSE), NEW j \in 1 .. Len(ms)
  PROVE  /\ ms[j] = "call" => j < Len(ms) /\ ms[j + 1] = "results"
         /\ ms[j] = "results" => j > 1 /\ ms[j - 1] = "call"
BY DEF Sound

\* Turns that are neither calls nor results may follow.
LEMMA ConcatSound ==
  ASSUME NEW ms, Sound(ms, FALSE), NEW q \in Seq(Plain)
  PROVE  Sound(ms \o q, FALSE)
<1> DEFINE r == ms \o q
<1>1. ms \in Seq(All) /\ q \in Seq(All)
  BY PlainFacts DEF Sound
<1>2. /\ r \in Seq(All) /\ Len(r) = Len(ms) + Len(q) /\ Len(ms) \in Nat /\ Len(q) \in Nat
      /\ \A i \in 1 .. Len(r) : r[i] = IF i <= Len(ms) THEN ms[i] ELSE q[i - Len(ms)]
  BY <1>1, ConcatProperties
<1>3. \A i \in 1 .. Len(q) : q[i] # "call" /\ q[i] # "results"
  BY DEF Plain
<1> HIDE DEF r
<1>4. ASSUME NEW j \in 1 .. Len(r)
      PROVE  /\ r[j] = "call" => j < Len(r) /\ r[j + 1] = "results"
             /\ r[j] = "results" => j > 1 /\ r[j - 1] = "call"
  <2>1. CASE j <= Len(ms)
    <3>1. r[j] = ms[j] /\ j \in 1 .. Len(ms)
      BY <1>2, <2>1
    <3>2. /\ ms[j] = "call" => j < Len(ms) /\ ms[j + 1] = "results"
          /\ ms[j] = "results" => j > 1 /\ ms[j - 1] = "call"
      BY <3>1, SoundFacts
    <3>3. \A i \in 1 .. Len(ms) : i \in 1 .. Len(r) /\ r[i] = ms[i]
      BY <1>2
    <3>4. /\ j < Len(ms) => j + 1 \in 1 .. Len(ms) /\ j < Len(r)
          /\ j > 1 => j - 1 \in 1 .. Len(ms)
      BY <1>2, <3>1
    <3> QED
      BY <3>1, <3>2, <3>3, <3>4
  <2>2. CASE j > Len(ms)
    BY <1>2, <1>3, <2>2
  <2> QED
    BY <1>2, <2>1, <2>2
<1>5. Len(r) > 0 /\ r[1] = "goal"
  BY <1>2 DEF Sound
<1> QED
  BY <1>2, <1>4, <1>5 DEF Sound, r

\* One turn more: a plain one, a call, or the results of the call that is open.
LEMMA AppendSound ==
  ASSUME NEW ms, NEW open \in BOOLEAN, Sound(ms, open)
  PROVE  /\ \A x \in Plain : ~open => Sound(Append(ms, x), FALSE)
         /\ ~open => Sound(Append(ms, "call"), TRUE)
         /\ open => Sound(Append(ms, "results"), FALSE)
<1>1. ms \in Seq(All) /\ Len(ms) \in Nat /\ Len(ms) > 0
  BY DEF Sound
<1>2. ASSUME NEW x \in All
      PROVE  LET r == Append(ms, x) IN
             /\ r \in Seq(All) /\ Len(r) = Len(ms) + 1 /\ r[Len(r)] = x
             /\ \A i \in 1 .. Len(ms) : r[i] = ms[i]
  BY <1>1, AppendProperties
<1>3. ASSUME NEW x \in Plain, ~open PROVE Sound(Append(ms, x), FALSE)
  <2> DEFINE r == Append(ms, x)
  <2>1. /\ r \in Seq(All) /\ Len(r) = Len(ms) + 1 /\ r[Len(r)] = x
        /\ \A i \in 1 .. Len(ms) : r[i] = ms[i]
        /\ x # "call" /\ x # "results"
    BY <1>2, PlainFacts DEF Plain
  <2> HIDE DEF r
  <2> QED
    BY <1>1, <1>3, <2>1 DEF Sound, r
<1>4. ASSUME ~open PROVE Sound(Append(ms, "call"), TRUE)
  <2> DEFINE r == Append(ms, "call")
  <2>1. /\ r \in Seq(All) /\ Len(r) = Len(ms) + 1 /\ r[Len(r)] = "call"
        /\ \A i \in 1 .. Len(ms) : r[i] = ms[i]
    BY <1>2, PlainFacts
  <2> HIDE DEF r
  <2> QED
    BY <1>1, <1>4, <2>1 DEF Sound, r
<1>5. ASSUME open PROVE Sound(Append(ms, "results"), FALSE)
  <2> DEFINE r == Append(ms, "results")
  <2>1. /\ r \in Seq(All) /\ Len(r) = Len(ms) + 1 /\ r[Len(r)] = "results"
        /\ \A i \in 1 .. Len(ms) : r[i] = ms[i]
    BY <1>2, PlainFacts
  <2> HIDE DEF r
  <2> QED
    BY <1>1, <1>5, <2>1 DEF Sound, r
<1> QED
  BY <1>3, <1>4, <1>5

\* A compaction keeps the goal, and cuts where nothing is torn apart.
LEMMA CompactedSound ==
  ASSUME NEW ms, Sound(ms, FALSE), CanCompact(ms)
  PROVE  Sound(Compacted(ms), FALSE)
<1>1. ms \in Seq(All) /\ Len(ms) \in Nat
  BY DEF Sound
<1>2. PICK c \in 3 .. Len(ms) : c = Cut(ms) /\ ms[c] \in {"text", "call"}
  BY <1>1, CutIsAssistant DEF Assistants, CanCompact
<1> DEFINE h == <<ms[1], "summary">>
           t == SubSeq(ms, c, Len(ms))
           r == h \o t
<1>3. h \in Seq(All) /\ Len(h) = 2 /\ h[1] = "goal" /\ h[2] = "summary"
  BY <1>1, PlainFacts DEF Sound
<1>4. /\ t \in Seq(All) /\ Len(t) = Len(ms) - c + 1
      /\ \A i \in 1 .. Len(ms) - c + 1 : t[i] = ms[c + i - 1]
  BY <1>1, SubSeqProperties
<1> HIDE DEF h, t
<1>a. /\ r \in Seq(All) /\ Len(r) = Len(h) + Len(t)
      /\ \A i \in 1 .. Len(h) + Len(t) :
           r[i] = IF i <= Len(h) THEN h[i] ELSE t[i - Len(h)]
  BY <1>3, <1>4, ConcatProperties
<1> HIDE DEF r
<1>5. /\ r \in Seq(All) /\ Len(r) = Len(ms) - c + 3 /\ Len(r) \in Nat /\ Len(r) > 2
      /\ \A i \in 1 .. Len(r) : r[i] = IF i <= 2 THEN h[i] ELSE t[i - 2]
  BY <1>1, <1>3, <1>4, <1>a
<1>6. /\ r[1] = "goal" /\ r[2] = "summary"
      /\ \A i \in 3 .. Len(r) : c + i - 3 \in 1 .. Len(ms) /\ r[i] = ms[c + i - 3]
  <2>1. r[1] = h[1] /\ r[2] = h[2]
    BY <1>5
  <2>2. ASSUME NEW i \in 3 .. Len(r)
        PROVE  c + i - 3 \in 1 .. Len(ms) /\ r[i] = ms[c + i - 3]
    <3>1. i - 2 \in 1 .. Len(ms) - c + 1 /\ r[i] = t[i - 2] /\ c + (i - 2) - 1 = c + i - 3
      BY <1>1, <1>5
    <3>2. t[i - 2] = ms[c + (i - 2) - 1]
      BY <1>4, <3>1
    <3> QED
      BY <1>1, <1>5, <3>1, <3>2
  <2> QED
    BY <1>3, <2>1, <2>2
<1>7. ASSUME NEW j \in 1 .. Len(r)
      PROVE  /\ r[j] = "call" => j < Len(r) /\ r[j + 1] = "results"
             /\ r[j] = "results" => j > 1 /\ r[j - 1] = "call"
  <2>1. CASE j <= 2
    BY <1>6, <2>1
  <2>2. CASE j > 2
    <3>1. j \in 3 .. Len(r)
      BY <1>5, <2>2
    <3> DEFINE k == c + j - 3
    <3>2. k \in 1 .. Len(ms) /\ r[j] = ms[k]
      BY <1>6, <3>1
    <3>3. /\ ms[k] = "call" => k < Len(ms) /\ ms[k + 1] = "results"
          /\ ms[k] = "results" => k > 1 /\ ms[k - 1] = "call"
      BY <3>2, SoundFacts
    <3>4. k < Len(ms) => j + 1 \in 3 .. Len(r) /\ j < Len(r) /\ c + (j + 1) - 3 = k + 1
      BY <1>1, <1>5, <3>1
    <3>5. ms[k] = "results" => j # 3
      BY <1>2
    <3>6. j # 3 => j - 1 \in 3 .. Len(r) /\ c + (j - 1) - 3 = k - 1
      BY <1>1, <1>5, <3>1
    <3>7. k < Len(ms) => r[j + 1] = ms[k + 1]
      BY <1>6, <3>4
    <3>8. j # 3 => r[j - 1] = ms[k - 1]
      BY <1>6, <3>6
    <3> HIDE DEF k
    <3> QED
      BY <2>2, <3>2, <3>3, <3>4, <3>5, <3>7, <3>8
  <2> QED
    BY <2>1, <2>2
<1>8. r = Compacted(ms)
  BY <1>2 DEF r, h, t, Compacted
<1> QED
  BY <1>1, <1>5, <1>6, <1>7, <1>8 DEF Sound

-----------------------------------------------------------------------------
(* The invariant.                                                           *)

\* Where the loop stands, and what it has promised there.
PlaceInv ==
  /\ result # "none" <=> pc = "done"
  /\ pc \notin {"top", "done"} => step < Steps
  /\ armed > 0 => result = "suspended"
  /\ result = "green" => judged

\* Only a steer waits to be signalled.
TypedInv == \A m \in Messages : typed[m] = "queued" => m \in Steers

\* The conversation is in order, but for the call being dispatched.
ConvInv ==
  /\ pc \in {"top", "clear", "prepare", "call", "reply"} => Sound(msgs, FALSE)
  /\ pc \in {"hold", "act", "verify"} => Sound(msgs, proposal # <<>>)
  /\ pc = "act" /\ (todo # <<>> \/ finished) => proposal # <<>>
  /\ pc = "verify" => proposal # <<>>

\* A steer heard while a reply is awaited is still to be seen when the reply is there.
HeardInv ==
  /\ pc \in {"top", "clear", "prepare", "act", "verify"} => heard = {}
  /\ pc \in {"call", "reply"} /\ heard # {} => fired \/ signal

LoopInv == TypeOK /\ PlaceInv /\ TypedInv /\ ConvInv /\ HeardInv /\ FoldedInOrder

LEMMA InitLoopInv == Init => LoopInv
<1> SUFFICES ASSUME Init PROVE LoopInv
  OBVIOUS
<1>1. PICK seed \in Seeds : msgs = Append(seed, "goal")
  BY DEF Init
<1>2. seed \in Seq({"goal", "text"}) /\ (seed # <<>> => seed[1] = "goal")
  BY LoopAssumption
<1>3. Sound(msgs, FALSE)
  <2> DEFINE r == Append(seed, "goal")
  <2>1. /\ r \in Seq({"goal", "text"}) /\ Len(r) = Len(seed) + 1 /\ Len(seed) \in Nat
        /\ r[Len(seed) + 1] = "goal" /\ \A i \in 1 .. Len(seed) : r[i] = seed[i]
    BY <1>2, AppendProperties
  <2> HIDE DEF r
  <2>2. r \in Seq(All)
    BY <2>1, SeqMonotonic DEF All, Turns
  <2>3. r[1] = "goal"
    BY <1>2, <2>1
  <2>4. \A j \in 1 .. Len(r) : r[j] \in {"goal", "text"}
    BY <2>1
  <2>5. Sound(r, FALSE)
    BY <2>1, <2>2, <2>3, <2>4 DEF Sound
  <2> QED
    BY <1>1, <2>5 DEF r
<1>4. TypeOK
  <2>1. msgs \in Seq(Turns \union Messages)
    BY <1>3 DEF Sound, All
  <2>2. {} \subseteq Steers /\ 0 \in 0 .. Steps /\ 0 \in 0 .. MaxCap /\ MaxTok \in 0 .. MaxTok
        /\ 0 \in 0 .. MaxAsks
    BY LoopAssumption
  <2>3. typed \in [Messages -> {"no", "queued", "pushed"}]
    BY DEF Init
  <2>4. <<>> \in Seq(Tools) /\ <<>> \in Seq(Messages) /\ 0 \in 0 .. 1
    OBVIOUS
  <2>5. /\ streaming \in BOOLEAN /\ pc = "top" /\ step = 0 /\ wrapped = FALSE /\ over = FALSE
        /\ overflowStreak = 0 /\ capStreak = 0 /\ tok = MaxTok /\ fired = FALSE
        /\ proposal = <<>> /\ todo = <<>> /\ finished = FALSE /\ asked = 0 /\ judged = FALSE
        /\ armed = 0 /\ result = "none" /\ queued = <<>> /\ signal = FALSE
        /\ arrivals = <<>> /\ cancelled = FALSE /\ summarised = {} /\ heard = {}
    BY DEF Init
  <2> QED
    BY <2>1, <2>2, <2>3, <2>4, <2>5 DEF TypeOK, Results
<1>5. PlaceInv /\ TypedInv /\ HeardInv
  BY DEF Init, PlaceInv, TypedInv, HeardInv
<1>6. ConvInv
  BY <1>3 DEF Init, ConvInv
<1>7. FoldedInOrder
  <2>1. msgs \in Seq({"goal", "text"}) /\ <<>> \in Seq(Messages)
    BY <1>1, <1>2, AppendProperties
  <2>2. \A x \in ToSet(msgs) : x \in Turns
    BY <2>1 DEF ToSet, Turns
  <2>3. msgs \o queued = msgs /\ ToSet(arrivals) = {} /\ summarised = {}
    BY <2>1, ConcatEmptySeq DEF Init, ToSet
  <2>4. \A m, n \in Messages : ~Precedes(msgs, m, n)
    BY <2>2, TurnsAssumption DEF Precedes, ToSet
  <2> QED
    BY <2>2, <2>3, <2>4, TurnsAssumption DEF FoldedInOrder
<1> QED
  BY <1>4, <1>5, <1>6, <1>7 DEF LoopInv

\* The types of all but the conversation, whose type is part of its order.
Rest ==
  /\ streaming \in BOOLEAN /\ wrapped \in BOOLEAN /\ over \in BOOLEAN
  /\ fired \in BOOLEAN /\ finished \in BOOLEAN /\ signal \in BOOLEAN
  /\ cancelled \in BOOLEAN
  /\ pc \in {"top", "clear", "prepare", "call", "reply", "hold", "act", "verify", "done"}
  /\ step \in 0 .. Steps
  /\ overflowStreak \in 0 .. 1 /\ capStreak \in 0 .. MaxCap /\ tok \in 0 .. MaxTok
  /\ proposal \in Seq(Tools) /\ todo \in Seq(Tools)
  /\ asked \in 0 .. MaxAsks /\ judged \in BOOLEAN
  /\ armed \in 0 .. 1 /\ result \in Results
  /\ queued \in Seq(Messages) /\ arrivals \in Seq(Messages) /\ summarised \subseteq Messages
  /\ typed \in [Messages -> {"no", "queued", "pushed"}]
  /\ heard \subseteq Steers

LEMMA TypeParts == TypeOK <=> Rest /\ msgs \in Seq(All)
BY DEF TypeOK, Rest, All

\* What a step may rely on: there is a step more, and a drain keeps the types.
LEMMA Ready ==
  ASSUME LoopInv
  PROVE  /\ Rest /\ PlaceInv /\ TypedInv /\ HeardInv
         /\ pc \notin {"top", "done"} => step + 1 \in 0 .. Steps
         /\ <<>> \in Seq(Tools) /\ <<>> \in Seq(Messages) /\ {} \subseteq Steers
         /\ result = "none" <=> pc # "done"
<1>1. Rest /\ PlaceInv /\ TypedInv /\ HeardInv
  BY TypeParts DEF LoopInv
<1>2. pc \notin {"top", "done"} => step + 1 \in 0 .. Steps
  BY <1>1, LoopAssumption DEF Rest, PlaceInv
<1> QED
  BY <1>1, <1>2 DEF PlaceInv

\* The principal.
LEMMA PrincipalRest ==
  ASSUME LoopInv, Principal
  PROVE  Rest' /\ PlaceInv' /\ TypedInv' /\ HeardInv'
<1>0. Rest /\ PlaceInv /\ TypedInv /\ HeardInv
  BY TypeParts DEF LoopInv
<1>1. CASE Shutdown
  BY <1>0, <1>1 DEF Shutdown, loop, inbox, Rest, PlaceInv, TypedInv, HeardInv
<1>2. ASSUME NEW m \in Messages, PushQueue(m) PROVE Rest' /\ PlaceInv' /\ TypedInv' /\ HeardInv'
  <2>1. /\ queued' \in Seq(Messages) /\ arrivals' \in Seq(Messages)
        /\ typed' \in [Messages -> {"no", "queued", "pushed"}] /\ TypedInv'
    BY <1>0, <1>2 DEF PushQueue, Rest, TypedInv
  <2> QED
    BY <1>0, <1>2, <2>1 DEF PushQueue, loop, Rest, PlaceInv, HeardInv
<1>3. ASSUME NEW m \in Messages, PushSignal(m) PROVE Rest' /\ PlaceInv' /\ TypedInv' /\ HeardInv'
  <2>1. m \in Steers
    BY <1>0, <1>3 DEF PushSignal, TypedInv
  <2>2. /\ typed' \in [Messages -> {"no", "queued", "pushed"}] /\ TypedInv'
        /\ heard' \subseteq Steers
    BY <1>0, <1>3, <2>1 DEF PushSignal, Rest, TypedInv
  <2>3. HeardInv'
    BY <1>0, <1>3 DEF PushSignal, loop, HeardInv
  <2> QED
    BY <1>0, <1>3, <2>2, <2>3 DEF PushSignal, loop, Rest, PlaceInv
<1> QED
  BY <1>1, <1>2, <1>3 DEF Principal

\* The top of a step, up to the model call.
LEMMA TopRest ==
  ASSUME LoopInv, Top \/ ClearSignal \/ Prepare
  PROVE  Rest' /\ PlaceInv' /\ TypedInv' /\ HeardInv'
<1>0. /\ Rest /\ PlaceInv /\ TypedInv /\ HeardInv
      /\ pc \notin {"top", "done"} => step + 1 \in 0 .. Steps
      /\ <<>> \in Seq(Tools) /\ <<>> \in Seq(Messages) /\ {} \subseteq Steers
      /\ 0 \in 0 .. 1 /\ 1 \in 0 .. 1 /\ 0 \in 0 .. MaxCap
  BY Ready, LoopAssumption
<1>1. CASE Top
  <2>1. queued' \in Seq(Messages) /\ summarised' \subseteq Messages
    <3>1. (queued' = queued \/ queued' = <<>>) /\ summarised' = summarised
      BY <1>1 DEF Top, Drain, inbox
    <3> QED
      BY <1>0, <3>1 DEF Rest
  <2>2. CASE pc' = "done"
    BY <1>0, <1>1, <2>2 DEF Top, Return, inbox, user, Rest, Results, PlaceInv, TypedInv, HeardInv
  <2>3. CASE pc' # "done"
    <3>1. /\ pc' \in {"clear", "prepare"} /\ pc = "top" /\ ~(step >= Steps)
          /\ UNCHANGED <<streaming, step, wrapped, over, overflowStreak, capStreak, tok, fired,
                         proposal, todo, finished, asked, judged, armed, user, heard, signal,
                         result>>
      BY <1>1, <2>3 DEF Top, Return, inbox
    <3> QED
      BY <1>0, <2>1, <3>1, LoopAssumption DEF user, Rest, PlaceInv, TypedInv, HeardInv
  <2> QED
    BY <2>2, <2>3
<1>2. CASE ClearSignal
  BY <1>0, <1>2 DEF ClearSignal, user, Rest, PlaceInv, TypedInv, HeardInv
<1>3. CASE Prepare
  <2>1. summarised' \subseteq Messages /\ over' \in BOOLEAN
    BY <1>0, <1>3 DEF Prepare, Elided, Rest
  <2> QED
    BY <1>0, <1>3, <2>1 DEF Prepare, scratch, inbox, user, Rest, PlaceInv, TypedInv, HeardInv
<1> QED
  BY <1>1, <1>2, <1>3

\* The model call.
LEMMA CallRest ==
  ASSUME LoopInv, Call
  PROVE  Rest' /\ PlaceInv' /\ TypedInv' /\ HeardInv'
<1>0. /\ Rest /\ PlaceInv /\ TypedInv /\ HeardInv
      /\ pc \notin {"top", "done"} => step + 1 \in 0 .. Steps
      /\ <<>> \in Seq(Tools) /\ <<>> \in Seq(Messages) /\ {} \subseteq Steers
      /\ 0 \in 0 .. 1 /\ 1 \in 0 .. 1 /\ 0 \in 0 .. MaxCap
  BY Ready, LoopAssumption
<1> USE DEF CallEnds, Faulted, CutBySteer, NextStep, Forgotten, Return, inbox,
                           user, Results, PlaceInv, TypedInv, HeardInv
<1>1. CASE Watch
  BY <1>0, <1>1 DEF Watch, Rest
<1>2. CASE Truncated
  <2>1. /\ pc = "call" /\ pc' = "top" /\ step' = step + 1 /\ over' \in BOOLEAN
        /\ fired' = FALSE /\ finished' = FALSE /\ proposal' = <<>> /\ todo' = <<>> /\ heard' = {}
        /\ overflowStreak' = 0 /\ capStreak' = 0
        /\ UNCHANGED <<streaming, wrapped, tok, asked, judged, armed, result, inbox, user,
                       summarised>>
    BY <1>2 DEF Truncated
  <2> QED
    BY <1>0, <2>1 DEF Rest
<1>3. CASE Interrupted
  BY <1>0, <1>3 DEF Interrupted, Rest
<1>4. CASE SteerCut
  <2>1. queued' \in Seq(Messages)
    BY <1>0, <1>4 DEF SteerCut, Drain, Rest
  <2> QED
    BY <1>0, <1>4, <2>1 DEF SteerCut, Rest
<1>5. CASE Overflow
  <2>1. /\ pc = "call" /\ fired' = FALSE /\ finished' = FALSE /\ proposal' = <<>>
        /\ todo' = <<>> /\ heard' = {} /\ over' \in {over, FALSE}
        /\ UNCHANGED <<streaming, step, wrapped, capStreak, tok, asked, judged, armed, inbox,
                       user>>
        /\ \/ pc' = "top" /\ result' = result /\ overflowStreak = 0 /\ overflowStreak' = 1
           \/ pc' = "done" /\ result' = "fault" /\ overflowStreak' = overflowStreak
    <3>1. CASE overflowStreak = 0 /\ CanCompact(msgs)
      <4>1. overflowStreak' = overflowStreak + 1
        BY <1>5, <3>1 DEF Overflow, CountOverflow
      <4>2. overflowStreak' = 1
        BY <3>1, <4>1
      <4> QED
        BY <1>5, <3>1, <4>2 DEF Overflow
    <3>2. CASE ~(overflowStreak = 0 /\ CanCompact(msgs))
      BY <1>5, <3>2 DEF Overflow
    <3> QED
      BY <3>1, <3>2
  <2>2. summarised' \subseteq Messages
    BY <1>0, <1>5 DEF Overflow, Elided, Rest
  <2> QED
    BY <1>0, <2>1, <2>2 DEF Rest
<1>6. CASE CapRejected
  <2>1. /\ pc = "call" /\ fired' = FALSE /\ finished' = FALSE /\ proposal' = <<>>
        /\ todo' = <<>> /\ heard' = {}
        /\ UNCHANGED <<streaming, step, wrapped, over, overflowStreak, asked, judged, armed,
                       inbox, user, summarised>>
    BY <1>6 DEF CapRejected
  <2>2. \/ pc' = "top" /\ result' = result
        \/ pc' = "done" /\ result' = "fault"
    BY <1>6 DEF CapRejected
  <2>3. capStreak' \in 0 .. MaxCap /\ tok' \in 0 .. MaxTok
    BY <1>0, <1>6, LoopAssumption DEF CapRejected, CanReduce, Rest
  <2> QED
    BY <1>0, <2>1, <2>2, <2>3 DEF Rest
<1>7. CASE Fault
  BY <1>0, <1>7 DEF Fault, Rest
<1>8. ASSUME NEW p \in Proposals, Reply(p) PROVE Rest' /\ PlaceInv' /\ TypedInv' /\ HeardInv'
  <2>1. p \in Seq(Tools)
    BY LoopAssumption
  <2> QED
    BY <1>0, <1>8, <2>1 DEF Reply, Rest
<1> QED
  BY <1>1, <1>2, <1>3, <1>4, <1>5, <1>6, <1>7, <1>8 DEF Call

\* The check for a steer, the dispatch and the verdict.
LEMMA ActRest ==
  ASSUME LoopInv, CheckSteer \/ Hold \/ Dispatch \/ Verify
  PROVE  Rest' /\ PlaceInv' /\ TypedInv' /\ HeardInv'
<1>0. /\ Rest /\ PlaceInv /\ TypedInv /\ HeardInv
      /\ pc \notin {"top", "done"} => step + 1 \in 0 .. Steps
      /\ <<>> \in Seq(Tools) /\ <<>> \in Seq(Messages) /\ {} \subseteq Steers
      /\ 0 \in 0 .. 1 /\ 1 \in 0 .. 1 /\ 0 \in 0 .. MaxCap
  BY Ready, LoopAssumption
<1> USE DEF NextStep, Forgotten, Return, inbox, user, Results, PlaceInv, TypedInv,
                           HeardInv, Next1, acting, scratch
<1>1. CASE CheckSteer
  BY <1>0, <1>1 DEF CheckSteer, SteerPending, Rest
<1>2. CASE Hold
  <2>1. queued' \in Seq(Messages)
    BY <1>0, <1>2 DEF Hold, Drain, Rest
  <2> QED
    BY <1>0, <1>2, <2>1 DEF Hold, Rest
<1>t. todo # <<>> => Tail(todo) \in Seq(Tools)
  BY <1>0 DEF Rest
<1>3. CASE Run
  BY <1>0, <1>3, <1>t, ZenonT(40) DEF Run, Rest
<1>4. CASE Other
  BY <1>0, <1>4, <1>t DEF Other, Rest
<1>5. CASE Finish
  BY <1>0, <1>5, <1>t DEF Finish, Rest
<1>6. CASE Sleep
  BY <1>0, <1>6, <1>t DEF Sleep, Nap, Rest
<1>7. CASE Ask
  <2>1. asked' \in 0 .. MaxAsks
    BY <1>0, <1>7, LoopAssumption DEF Ask, Rest
  <2> QED
    BY <1>0, <1>7, <1>t, <2>1 DEF Ask, Rest
<1>8. CASE EndTurn
  BY <1>0, <1>8 DEF EndTurn, JudgeClaim, Rest
<1>9. CASE Verify
  BY <1>0, <1>9, ZenonT(40) DEF Verify, Rest
<1> QED
  BY <1>1, <1>2, <1>3, <1>4, <1>5, <1>6, <1>7, <1>8, <1>9 DEF Dispatch

-----------------------------------------------------------------------------
(* The conversation, step by step.                                          *)

Kept == msgs' \in Seq(All) /\ ConvInv'

\* While the loop stands between two calls, or ends, a sound conversation is all it takes.
LEMMA KeptBetween ==
  ASSUME Sound(msgs', FALSE), pc' \in {"top", "clear", "prepare", "call", "reply", "done"}
  PROVE  Kept
BY DEF Kept, ConvInv, Sound

LEMMA ConvFacts ==
  ASSUME LoopInv
  PROVE  /\ msgs \in Seq(All) /\ queued \in Seq(Plain) /\ ConvInv
         /\ <<>> \in Seq(Plain) /\ <<"text">> \in Seq(Plain) /\ <<"note">> \in Seq(Plain)
<1>1. queued \in Seq(Messages) /\ msgs \in Seq(All)
  BY TypeParts DEF LoopInv, Rest
<1>2. queued \in Seq(Plain)
  BY <1>1, PlainFacts, SeqMonotonic
<1>3. "text" \in Plain /\ "note" \in Plain
  BY PlainFacts
<1> QED
  BY <1>1, <1>2, <1>3 DEF LoopInv

LEMMA TopKept ==
  ASSUME LoopInv, Top \/ ClearSignal \/ Prepare
  PROVE  Kept
<1>0. /\ msgs \in Seq(All) /\ queued \in Seq(Plain)
      /\ pc \in {"top", "clear", "prepare"} => Sound(msgs, FALSE)
  BY ConvFacts DEF ConvInv
<1>1. CASE Top
  <2>1. pc = "top" /\ pc' \in {"clear", "prepare", "done"}
    BY <1>1 DEF Top, Return
  <2>2. msgs' = msgs \/ msgs' = msgs \o queued
    BY <1>1 DEF Top, Drained
  <2> QED
    BY <1>0, <2>1, <2>2, ConcatSound, KeptBetween
<1>2. CASE ClearSignal
  BY <1>0, <1>2, KeptBetween DEF ClearSignal
<1>3. CASE Prepare
  <2>1. Sound(Noticed, FALSE)
    <3>1. Sound(Append(msgs, "note"), FALSE)
      BY <1>0, <1>3, AppendSound, PlainFacts DEF Prepare
    <3> QED
      BY <1>0, <1>3, <3>1 DEF Noticed, Prepare
  <2>2. Sound(msgs', FALSE)
    <3>1. CanCompact(Noticed) => Sound(Compacted(Noticed), FALSE)
      BY <2>1, CompactedSound
    <3> QED
      BY <1>3, <2>1, <3>1 DEF Prepare
  <2> QED
    BY <1>3, <2>2, KeptBetween DEF Prepare
<1> QED
  BY <1>1, <1>2, <1>3

LEMMA CallKept ==
  ASSUME LoopInv, Call
  PROVE  Kept
<1>0. /\ queued \in Seq(Plain) /\ pc = "call" /\ Sound(msgs, FALSE)
  BY ConvFacts DEF ConvInv, Call, CallEnds, Faulted, Watch, Truncated, Interrupted, SteerCut,
                   Overflow, CapRejected, Fault, Reply
<1>p. ASSUME NEW kept \in Prose PROVE Sound(msgs \o kept, FALSE)
  BY <1>0, ConvFacts, ConcatSound DEF Prose
<1>1. CASE Watch \/ Interrupted \/ CapRejected \/ Fault \/ \E p \in Proposals : Reply(p)
  <2>1. msgs' = msgs /\ pc' \in {"call", "done", "top", "reply"}
    BY <1>0, <1>1 DEF Watch, Interrupted, CapRejected, Fault, Reply, Return
  <2> QED
    BY <1>0, <2>1, KeptBetween
<1>2. CASE Truncated
  <2>1. PICK kept \in Prose : msgs' = (msgs \o kept) \o <<"note">>
    BY <1>2 DEF Truncated
  <2>2. Sound(msgs', FALSE)
    BY <1>p, <2>1, ConvFacts, ConcatSound
  <2> QED
    BY <1>2, <2>2, KeptBetween DEF Truncated, NextStep
<1>3. CASE SteerCut
  <2>1. PICK kept \in Prose : msgs' = (msgs \o kept) \o queued
    BY <1>3 DEF SteerCut, Drained
  <2>2. Sound(msgs', FALSE)
    BY <1>0, <1>p, <2>1, ConcatSound
  <2> QED
    BY <1>3, <2>2, KeptBetween DEF SteerCut, NextStep
<1>4. CASE Overflow
  <2>1. \/ msgs' = msgs
        \/ CanCompact(msgs) /\ msgs' = Compacted(msgs)
    BY <1>4 DEF Overflow
  <2>2. pc' \in {"top", "done"}
    BY <1>4 DEF Overflow, Return
  <2> QED
    BY <1>0, <2>1, <2>2, CompactedSound, KeptBetween
<1> QED
  BY <1>1, <1>2, <1>3, <1>4 DEF Call

LEMMA ActKept ==
  ASSUME LoopInv, CheckSteer \/ Hold \/ Dispatch \/ Verify
  PROVE  Kept
<1>0. msgs \in Seq(All) /\ queued \in Seq(Plain) /\ ConvInv
  BY ConvFacts
<1>1. CASE CheckSteer
  <2>1. Sound(Append(msgs, Turn(proposal)), proposal # <<>>)
    <3>1. Sound(msgs, FALSE)
      BY <1>0, <1>1 DEF CheckSteer, ConvInv
    <3>2. Sound(Append(msgs, "text"), FALSE) /\ Sound(Append(msgs, "call"), TRUE)
      BY <3>1, AppendSound, PlainFacts
    <3>3. CASE proposal = <<>>
      <4>1. Turn(proposal) = "text" /\ (proposal # <<>>) = FALSE
        BY <3>3 DEF Turn
      <4> QED
        BY <3>2, <4>1
    <3>4. CASE proposal # <<>>
      <4>1. Turn(proposal) = "call" /\ (proposal # <<>>) = TRUE
        BY <3>4 DEF Turn
      <4> QED
        BY <3>2, <4>1
    <3> QED
      BY <3>3, <3>4
  <2>2. /\ msgs' = Append(msgs, Turn(proposal)) /\ proposal' = proposal
        /\ pc' \in {"hold", "act"}
        /\ pc' = "act" => todo' = proposal /\ finished' = FALSE
    BY <1>1 DEF CheckSteer
  <2> QED
    BY <2>1, <2>2 DEF Kept, ConvInv, Sound
\* What the end of a turn adds makes the conversation sound again.
<1>e. ASSUME pc \in {"hold", "act", "verify"}
      PROVE  /\ proposal = <<>> => Sound(msgs, FALSE) /\ Sound(Append(msgs, "note"), FALSE)
             /\ proposal # <<>> => Sound(Append(msgs, "results"), FALSE)
  <2>1. Sound(msgs, proposal # <<>>)
    BY <1>0, <1>e DEF ConvInv
  <2>2. CASE proposal = <<>>
    <3>1. (proposal # <<>>) = FALSE
      BY <2>2
    <3>2. Sound(msgs, FALSE)
      BY <2>1, <3>1
    <3> QED
      BY <2>2, <3>2, AppendSound, PlainFacts
  <2>3. CASE proposal # <<>>
    <3>1. (proposal # <<>>) = TRUE
      BY <2>3
    <3>2. Sound(msgs, TRUE)
      BY <2>1, <3>1
    <3> QED
      BY <2>3, <3>2, AppendSound
  <2> QED
    BY <2>2, <2>3
<1>2. CASE Hold
  <2> DEFINE r == IF proposal = <<>> THEN msgs ELSE Append(msgs, "results")
  <2>1. Sound(r, FALSE)
    BY <1>2, <1>e DEF Hold
  <2> HIDE DEF r
  <2>2. Sound(r \o queued, FALSE)
    BY <1>0, <2>1, ConcatSound
  <2>3. msgs' = r \o queued /\ pc' = "top"
    BY <1>2 DEF Hold, Drained, NextStep, r
  <2> QED
    BY <2>2, <2>3, KeptBetween
<1>3. CASE Run \/ Other \/ Finish \/ Sleep \/ Ask
  <2>1. /\ pc = "act" /\ todo # <<>> /\ msgs' = msgs /\ proposal' = proposal
        /\ pc' \in {"act", "done"}
    BY <1>3 DEF Run, Other, Finish, Sleep, Nap, Ask, Next1, acting, Return
  <2> QED
    BY <1>0, <2>1 DEF Kept, ConvInv
<1>4. CASE EndTurn
  <2>1. CASE finished
    <3>1. pc = "act" /\ pc' = "verify" /\ msgs' = msgs /\ proposal' = proposal
      BY <1>4, <2>1 DEF EndTurn, JudgeClaim, scratch
    <3> QED
      BY <1>0, <2>1, <3>1 DEF Kept, ConvInv
  <2>2. CASE ~finished
    <3>1. /\ pc = "act" /\ pc' = "top"
          /\ msgs' = Append(msgs, IF proposal = <<>> THEN "note" ELSE "results")
      BY <1>4, <2>2 DEF EndTurn, NextStep
    <3>2. Sound(msgs', FALSE)
      BY <1>e, <3>1
    <3> QED
      BY <3>1, <3>2, KeptBetween
  <2> QED
    BY <2>1, <2>2
<1>5. CASE Verify
  <2>1. CASE msgs' = msgs /\ pc' = "done"
    BY <1>0, <2>1 DEF Kept, ConvInv
  <2>2. CASE msgs' = Append(msgs, "results") /\ pc' = "top" /\ pc = "verify"
    <3>1. Sound(msgs', FALSE)
      BY <1>0, <1>e, <2>2 DEF ConvInv
    <3> QED
      BY <2>2, <3>1, KeptBetween
  <2> QED
    BY <1>5, <2>1, <2>2 DEF Verify, Return, NextStep
<1> QED
  BY <1>1, <1>2, <1>3, <1>4, <1>5 DEF Dispatch

-----------------------------------------------------------------------------
(* What the principal typed.                                                *)

\* The messages of s, after those a summary stands for, are those of arr in their order.
Ordered(s, gone, arr) ==
  /\ gone \union (ToSet(s) \cap Messages) = ToSet(arr)
  /\ \A m, n \in Messages :
       Precedes(s, m, n) \/ (m \in gone /\ n \in ToSet(s)) => Precedes(arr, m, n)

LEMMA FoldedIsOrdered == FoldedInOrder <=> Ordered(msgs \o queued, summarised, arrivals)
BY DEF FoldedInOrder, Ordered

LEMMA ToSetConcat ==
  ASSUME NEW s \in Seq(All), NEW t \in Seq(All)
  PROVE  ToSet(s \o t) = ToSet(s) \union ToSet(t)
<1> DEFINE r == s \o t
<1>1. /\ Len(s) \in Nat /\ Len(t) \in Nat /\ r \in Seq(All) /\ Len(r) = Len(s) + Len(t)
      /\ \A i \in 1 .. Len(r) : r[i] = IF i <= Len(s) THEN s[i] ELSE t[i - Len(s)]
  BY ConcatProperties
<1> HIDE DEF r
<1>2. /\ DOMAIN r = 1 .. Len(r) /\ DOMAIN s = 1 .. Len(s) /\ DOMAIN t = 1 .. Len(t)
  BY <1>1, LenProperties
<1>3. \A i \in 1 .. Len(s) : i \in 1 .. Len(r) /\ r[i] = s[i]
  BY <1>1
<1>4. \A i \in 1 .. Len(t) : i + Len(s) \in 1 .. Len(r) /\ r[i + Len(s)] = t[i]
  <2> SUFFICES ASSUME NEW i \in 1 .. Len(t), NEW k, k = i + Len(s)
               PROVE  k \in 1 .. Len(r) /\ r[k] = t[i]
    OBVIOUS
  <2>1. k \in 1 .. Len(r) /\ ~(k <= Len(s)) /\ k - Len(s) = i
    BY <1>1
  <2>2. r[k] = t[k - Len(s)]
    BY <1>1, <2>1
  <2> QED
    BY <2>1, <2>2
<1>5. \A i \in 1 .. Len(r) : i \in 1 .. Len(s) \/ i - Len(s) \in 1 .. Len(t)
  BY <1>1
<1>6. ToSet(r) \subseteq ToSet(s) \union ToSet(t)
  BY <1>1, <1>2, <1>5 DEF ToSet
<1>7. ToSet(s) \subseteq ToSet(r)
  BY <1>2, <1>3 DEF ToSet
<1>8. ToSet(t) \subseteq ToSet(r)
  BY <1>2, <1>4 DEF ToSet
<1> QED
  BY <1>6, <1>7, <1>8 DEF r

LEMMA PrecedesConcat ==
  ASSUME NEW s \in Seq(All), NEW t \in Seq(All), NEW m, NEW n
  PROVE  Precedes(s \o t, m, n) <=>
           Precedes(s, m, n) \/ Precedes(t, m, n) \/ (m \in ToSet(s) /\ n \in ToSet(t))
<1> DEFINE r == s \o t
<1>1. /\ Len(s) \in Nat /\ Len(t) \in Nat /\ r \in Seq(All) /\ Len(r) = Len(s) + Len(t)
      /\ \A i \in 1 .. Len(r) : r[i] = IF i <= Len(s) THEN s[i] ELSE t[i - Len(s)]
  BY ConcatProperties
<1> HIDE DEF r
<1>2. /\ DOMAIN r = 1 .. Len(r) /\ DOMAIN s = 1 .. Len(s) /\ DOMAIN t = 1 .. Len(t)
  BY <1>1, LenProperties
<1>3. \A i \in 1 .. Len(s) : i \in 1 .. Len(r) /\ r[i] = s[i]
  BY <1>1
<1>4. \A i \in 1 .. Len(t) : i + Len(s) \in 1 .. Len(r) /\ r[i + Len(s)] = t[i]
  <2> SUFFICES ASSUME NEW i \in 1 .. Len(t), NEW k, k = i + Len(s)
               PROVE  k \in 1 .. Len(r) /\ r[k] = t[i]
    OBVIOUS
  <2>1. k \in 1 .. Len(r) /\ ~(k <= Len(s)) /\ k - Len(s) = i
    BY <1>1
  <2>2. r[k] = t[k - Len(s)]
    BY <1>1, <2>1
  <2> QED
    BY <2>1, <2>2
<1>5. ASSUME Precedes(r, m, n)
      PROVE  Precedes(s, m, n) \/ Precedes(t, m, n) \/ (m \in ToSet(s) /\ n \in ToSet(t))
  <2>1. PICK i \in 1 .. Len(r), j \in 1 .. Len(r) : i < j /\ r[i] = m /\ r[j] = n
    BY <1>2, <1>5 DEF Precedes
  <2>2. CASE j <= Len(s)
    <3>1. i \in DOMAIN s /\ j \in DOMAIN s /\ s[i] = m /\ s[j] = n
      BY <1>1, <1>2, <2>1, <2>2
    <3> QED
      BY <2>1, <3>1 DEF Precedes
  <2>3. CASE i <= Len(s) /\ j > Len(s)
    <3>1. i \in DOMAIN s /\ j - Len(s) \in DOMAIN t /\ s[i] = m /\ t[j - Len(s)] = n
      BY <1>1, <1>2, <2>1, <2>3
    <3> QED
      BY <3>1 DEF ToSet
  <2>4. CASE i > Len(s)
    <3>1. /\ i - Len(s) \in DOMAIN t /\ j - Len(s) \in DOMAIN t /\ i - Len(s) < j - Len(s)
          /\ t[i - Len(s)] = m /\ t[j - Len(s)] = n
      BY <1>1, <1>2, <2>1, <2>4
    <3> QED
      BY <3>1 DEF Precedes
  <2> QED
    BY <1>1, <2>1, <2>2, <2>3, <2>4
<1>6. ASSUME Precedes(s, m, n) PROVE Precedes(r, m, n)
  <2>1. PICK i \in 1 .. Len(s), j \in 1 .. Len(s) : i < j /\ s[i] = m /\ s[j] = n
    BY <1>2, <1>6 DEF Precedes
  <2> QED
    BY <1>2, <1>3, <2>1 DEF Precedes
<1>7. ASSUME Precedes(t, m, n) PROVE Precedes(r, m, n)
  <2>1. PICK i \in 1 .. Len(t), j \in 1 .. Len(t) : i < j /\ t[i] = m /\ t[j] = n
    BY <1>2, <1>7 DEF Precedes
  <2>2. i + Len(s) < j + Len(s)
    BY <1>1, <2>1
  <2> QED
    BY <1>2, <1>4, <2>1, <2>2 DEF Precedes
<1>8. ASSUME m \in ToSet(s), n \in ToSet(t) PROVE Precedes(r, m, n)
  <2>1. PICK i \in 1 .. Len(s) : s[i] = m
    BY <1>2, <1>8 DEF ToSet
  <2>2. PICK j \in 1 .. Len(t) : t[j] = n
    BY <1>2, <1>8 DEF ToSet
  <2>3. i < j + Len(s)
    BY <1>1, <2>1, <2>2
  <2> QED
    BY <1>2, <1>3, <1>4, <2>1, <2>2, <2>3 DEF Precedes
<1> QED
  BY <1>5, <1>6, <1>7, <1>8 DEF r

\* Turns of the harness or the model hold no message.
LEMMA TurnsSayNothing ==
  ASSUME NEW u \in Seq(Turns)
  PROVE  /\ u \in Seq(All) /\ ToSet(u) \cap Messages = {}
         /\ \A m, n \in Messages : ~Precedes(u, m, n)
<1>1. u \in Seq(All)
  BY SeqMonotonic DEF All
<1>2. \A x \in ToSet(u) : x \in Turns
  BY DEF ToSet
<1>3. \A m, n \in Messages : ~Precedes(u, m, n)
  BY <1>2, TurnsAssumption DEF Precedes, ToSet
<1> QED
  BY <1>1, <1>2, <1>3, TurnsAssumption

\* They may be put anywhere.
LEMMA TurnsInside ==
  ASSUME NEW s \in Seq(All), NEW u \in Seq(Turns), NEW t \in Seq(All), NEW gone, NEW arr,
         Ordered(s \o t, gone, arr)
  PROVE  Ordered((s \o u) \o t, gone, arr)
<1>1. u \in Seq(All) /\ s \o u \in Seq(All)
  BY TurnsSayNothing, ConcatProperties
<1>2. /\ ToSet(s \o t) = ToSet(s) \union ToSet(t)
      /\ ToSet((s \o u) \o t) = ToSet(s) \union ToSet(u) \union ToSet(t)
  BY <1>1, ToSetConcat
<1>3. ToSet((s \o u) \o t) \cap Messages = ToSet(s \o t) \cap Messages
  BY <1>2, TurnsSayNothing
<1>4. ASSUME NEW m \in Messages, NEW n \in Messages
      PROVE  Precedes((s \o u) \o t, m, n) => Precedes(s \o t, m, n)
  <2>1. /\ m \notin ToSet(u) /\ n \notin ToSet(u) /\ ~Precedes(u, m, n)
    BY TurnsSayNothing
  <2>2. m \in ToSet(s \o u) <=> m \in ToSet(s)
    BY <1>1, <2>1, ToSetConcat
  <2>3. Precedes(s \o u, m, n) => Precedes(s, m, n)
    BY <1>1, <2>1, PrecedesConcat
  <2>4. Precedes((s \o u) \o t, m, n)
          => Precedes(s \o u, m, n) \/ Precedes(t, m, n) \/ (m \in ToSet(s \o u) /\ n \in ToSet(t))
    BY <1>1, PrecedesConcat
  <2>5. Precedes(s, m, n) \/ Precedes(t, m, n) \/ (m \in ToSet(s) /\ n \in ToSet(t))
          => Precedes(s \o t, m, n)
    BY PrecedesConcat
  <2> QED
    BY <2>2, <2>3, <2>4, <2>5
<1> QED
  BY <1>3, <1>4 DEF Ordered

\* A message that arrives is last.
LEMMA LastArrived ==
  ASSUME NEW s \in Seq(All), NEW arr \in Seq(Messages), NEW gone, NEW x \in Messages,
         Ordered(s, gone, arr)
  PROVE  Ordered(s \o <<x>>, gone, arr \o <<x>>)
<1>1. <<x>> \in Seq(All) /\ arr \in Seq(All)
  <2>1. x \in All /\ Messages \subseteq All
    BY DEF All
  <2> QED
    BY <2>1, SeqMonotonic
<1>2. ToSet(<<x>>) = {x} /\ \A m, n : ~Precedes(<<x>>, m, n)
  BY DEF ToSet, Precedes
<1>3. /\ ToSet(s \o <<x>>) = ToSet(s) \union {x}
      /\ ToSet(arr \o <<x>>) = ToSet(arr) \union {x}
  BY <1>1, <1>2, ToSetConcat
<1>4. ASSUME NEW m \in Messages, NEW n \in Messages,
             Precedes(s \o <<x>>, m, n) \/ (m \in gone /\ n \in ToSet(s \o <<x>>))
      PROVE  Precedes(arr \o <<x>>, m, n)
  <2>0. Precedes(s \o <<x>>, m, n)
          => Precedes(s, m, n) \/ Precedes(<<x>>, m, n) \/ (m \in ToSet(s) /\ n \in ToSet(<<x>>))
    BY <1>1, PrecedesConcat
  <2>1. Precedes(s, m, n) \/ (m \in ToSet(s) /\ n = x) \/ (m \in gone /\ n \in ToSet(s) \union {x})
    BY <1>2, <1>3, <1>4, <2>0
  <2>2. Precedes(arr, m, n) \/ (m \in ToSet(arr) /\ n = x)
    BY <2>1 DEF Ordered
  <2> QED
    BY <1>1, <1>2, <2>2, PrecedesConcat
<1> QED
  BY <1>3, <1>4 DEF Ordered

\* A compaction takes the messages it records, which are before those it keeps.
LEMMA CompactedOrdered ==
  ASSUME NEW ms, Sound(ms, FALSE), CanCompact(ms), NEW q \in Seq(All), NEW gone, NEW arr,
         Ordered(ms \o q, gone, arr)
  PROVE  Ordered(Compacted(ms) \o q, gone \union Elided(ms), arr)
<1>1. ms \in Seq(All) /\ Len(ms) \in Nat /\ ms[1] = "goal" /\ DOMAIN ms = 1 .. Len(ms)
  BY DEF Sound
<1>2. PICK c \in 3 .. Len(ms) : c = Cut(ms)
  BY <1>1, CutIsAssistant DEF Assistants, CanCompact
<1> DEFINE h == <<ms[1], "summary">>
           t == SubSeq(ms, c, Len(ms))
           gap == {ms[j] : j \in 2 .. c - 1}
<1>3. h \in Seq(Turns)
  BY <1>1 DEF Turns
<1>4. /\ t \in Seq(All) /\ Len(t) = Len(ms) - c + 1 /\ DOMAIN t = 1 .. Len(t)
      /\ \A i \in 1 .. Len(ms) - c + 1 : t[i] = ms[c + i - 1]
  BY <1>1, SubSeqProperties
<1>5. Compacted(ms) = h \o t /\ Elided(ms) = gap \cap Messages
  BY <1>2 DEF Compacted, Elided
<1> HIDE DEF h, t
<1>6. \A i \in DOMAIN t : c + i - 1 \in DOMAIN ms /\ c + i - 1 >= c /\ t[i] = ms[c + i - 1]
  BY <1>1, <1>4, SMTT(30)
<1>7. ToSet(ms) = {"goal"} \union gap \union ToSet(t)
  <2>1. \A j \in c .. Len(ms) : j - c + 1 \in DOMAIN t /\ t[j - c + 1] = ms[j]
    BY <1>1, <1>4
  <2>2. \A j \in 1 .. Len(ms) : j = 1 \/ j \in 2 .. c - 1 \/ j \in c .. Len(ms)
    BY <1>1
  <2>3. ToSet(ms) \subseteq {"goal"} \union gap \union ToSet(t)
    BY <1>1, <2>1, <2>2 DEF ToSet
  <2>4. {"goal"} \union gap \subseteq ToSet(ms)
    <3>1. 1 \in DOMAIN ms /\ \A j \in 2 .. c - 1 : j \in DOMAIN ms
      BY <1>1
    <3> QED
      BY <1>1, <3>1 DEF ToSet
  <2>5. ToSet(t) \subseteq ToSet(ms)
    BY <1>6 DEF ToSet
  <2> QED
    BY <2>3, <2>4, <2>5
<1>8. \A m, n : Precedes(t, m, n) => Precedes(ms, m, n)
  <2> SUFFICES ASSUME NEW m, NEW n, NEW i \in DOMAIN t, NEW j \in DOMAIN t,
                      i < j, t[i] = m, t[j] = n
               PROVE  Precedes(ms, m, n)
    BY DEF Precedes
  <2>1. c + i - 1 < c + j - 1
    BY <1>4
  <2> QED
    BY <1>6, <2>1 DEF Precedes
<1>9. \A m, n : m \in gap /\ n \in ToSet(t) => Precedes(ms, m, n)
  <2> SUFFICES ASSUME NEW k \in 2 .. c - 1, NEW j \in DOMAIN t
               PROVE  Precedes(ms, ms[k], t[j])
    BY DEF ToSet
  <2>1. k \in DOMAIN ms /\ k < c + j - 1
    BY <1>1, <1>4
  <2> QED
    BY <1>6, <2>1 DEF Precedes
<1> HIDE DEF gap
<1>10. h \in Seq(All) /\ ToSet(h) \cap Messages = {} /\ \A m, n \in Messages : ~Precedes(h, m, n)
  BY <1>3, TurnsSayNothing
<1>11. h \o t \in Seq(All)
  BY <1>4, <1>10, ConcatProperties
<1>12. /\ ToSet(ms \o q) = ToSet(ms) \union ToSet(q)
       /\ ToSet((h \o t) \o q) = ToSet(h) \union ToSet(t) \union ToSet(q)
       /\ ToSet(h \o t) = ToSet(h) \union ToSet(t)
  BY <1>1, <1>4, <1>10, <1>11, ToSetConcat
<1>13. "goal" \notin Messages
  BY TurnsAssumption DEF Turns
<1>14. (gone \union Elided(ms)) \union (ToSet((h \o t) \o q) \cap Messages) = ToSet(arr)
  BY <1>5, <1>7, <1>10, <1>12, <1>13 DEF Ordered
<1>15. ASSUME NEW m \in Messages, NEW n \in Messages,
              Precedes((h \o t) \o q, m, n)
                \/ (m \in gone \union Elided(ms) /\ n \in ToSet((h \o t) \o q))
       PROVE  Precedes(arr, m, n)
  <2>1. m \notin ToSet(h) /\ n \notin ToSet(h) /\ ~Precedes(h, m, n)
    BY <1>10
  <2>2. CASE Precedes((h \o t) \o q, m, n)
    <3>1. Precedes(t, m, n) \/ Precedes(q, m, n) \/ (m \in ToSet(t) /\ n \in ToSet(q))
      BY <1>4, <1>10, <1>11, <1>12, <2>1, <2>2, PrecedesConcat
    <3>2. Precedes(ms, m, n) \/ Precedes(q, m, n) \/ (m \in ToSet(ms) /\ n \in ToSet(q))
      BY <1>7, <1>8, <3>1
    <3> QED
      BY <1>1, <3>2, PrecedesConcat DEF Ordered
  <2>3. CASE m \in gone /\ n \in ToSet((h \o t) \o q)
    <3>1. n \in ToSet(ms \o q)
      BY <1>7, <1>12, <2>1, <2>3
    <3> QED
      BY <2>3, <3>1 DEF Ordered
  <2>4. CASE m \in Elided(ms) /\ n \in ToSet((h \o t) \o q)
    <3>1. m \in gap /\ (n \in ToSet(t) \/ n \in ToSet(q))
      BY <1>5, <1>12, <2>1, <2>4
    <3>2. Precedes(ms, m, n) \/ (m \in ToSet(ms) /\ n \in ToSet(q))
      BY <1>7, <1>9, <3>1
    <3> QED
      BY <1>1, <3>2, PrecedesConcat DEF Ordered
  <2> QED
    BY <1>15, <2>2, <2>3, <2>4
<1> QED
  BY <1>5, <1>14, <1>15 DEF Ordered

\* The ways a step may move what was typed.
Moves ==
  \/ UNCHANGED <<queued, summarised>> /\ \E u \in Seq(Turns) : msgs' = msgs \o u
  \/ /\ queued' = <<>> /\ summarised' = summarised
     /\ \E u \in Seq(Turns) : msgs' = (msgs \o u) \o queued
  \/ /\ queued' = queued
     /\ \E u \in Seq(Turns) :
          /\ Sound(msgs \o u, FALSE) /\ CanCompact(msgs \o u)
          /\ msgs' = Compacted(msgs \o u)
          /\ summarised' = summarised \union Elided(msgs \o u)

LEMMA MovesFold ==
  ASSUME LoopInv, Moves, arrivals' = arrivals
  PROVE  FoldedInOrder'
<1>0. /\ msgs \in Seq(All) /\ queued \in Seq(All) /\ Ordered(msgs \o queued, summarised, arrivals)
  <2>1. queued \in Seq(Messages) /\ msgs \in Seq(All) /\ Messages \subseteq All
    BY TypeParts DEF LoopInv, Rest, All
  <2> QED
    BY <2>1, SeqMonotonic, FoldedIsOrdered DEF LoopInv
<1>1. ASSUME NEW u \in Seq(Turns)
      PROVE  /\ msgs \o u \in Seq(All)
             /\ Ordered((msgs \o u) \o queued, summarised, arrivals)
  BY <1>0, TurnsSayNothing, TurnsInside, ConcatProperties
<1>2. Ordered(msgs' \o queued', summarised', arrivals')
  <2>1. CASE UNCHANGED <<queued, summarised>> /\ \E u \in Seq(Turns) : msgs' = msgs \o u
    BY <1>1, <2>1
  <2>2. CASE /\ queued' = <<>> /\ summarised' = summarised
             /\ \E u \in Seq(Turns) : msgs' = (msgs \o u) \o queued
    <3>1. PICK u \in Seq(Turns) : msgs' = (msgs \o u) \o queued
      BY <2>2
    <3>2. (msgs \o u) \o queued \in Seq(All)
      BY <1>0, <1>1, ConcatProperties
    <3>3. msgs' \o queued' = (msgs \o u) \o queued
      BY <2>2, <3>1, <3>2, ConcatEmptySeq
    <3> QED
      BY <1>1, <2>2, <3>3
  <2>3. CASE /\ queued' = queued
             /\ \E u \in Seq(Turns) :
                  /\ Sound(msgs \o u, FALSE) /\ CanCompact(msgs \o u)
                  /\ msgs' = Compacted(msgs \o u)
                  /\ summarised' = summarised \union Elided(msgs \o u)
    BY <1>0, <1>1, <2>3, CompactedOrdered
  <2> QED
    BY <2>1, <2>2, <2>3 DEF Moves
<1> QED
  BY <1>2 DEF FoldedInOrder, Ordered

LEMMA NextFolded ==
  ASSUME LoopInv, Next
  PROVE  FoldedInOrder'
<1>0. /\ msgs \in Seq(All) /\ queued \in Seq(Messages) /\ arrivals \in Seq(Messages)
      /\ Messages \subseteq All /\ queued \in Seq(All)
      /\ Ordered(msgs \o queued, summarised, arrivals)
  <2>1. /\ msgs \in Seq(All) /\ queued \in Seq(Messages) /\ arrivals \in Seq(Messages)
        /\ Messages \subseteq All
    BY TypeParts DEF LoopInv, Rest, All
  <2> QED
    BY <2>1, SeqMonotonic, FoldedIsOrdered DEF LoopInv
<1>u. /\ <<>> \in Seq(Turns) /\ <<"note">> \in Seq(Turns) /\ <<"text">> \in Seq(Turns)
      /\ <<"call">> \in Seq(Turns) /\ <<"results">> \in Seq(Turns)
      /\ <<"text", "note">> \in Seq(Turns)
      /\ msgs \o <<>> = msgs
  BY <1>0, ConcatEmptySeq DEF Turns
<1>a. \A x \in Turns : Append(msgs, x) = msgs \o <<x>> /\ <<x>> \in Seq(Turns)
  BY <1>0, AppendIsConcat DEF All
<1>s. UNCHANGED <<msgs, queued, summarised>> => Moves
  BY <1>u DEF Moves
<1>p. \A x \in Turns : msgs' = Append(msgs, x) /\ UNCHANGED <<queued, summarised>> => Moves
  BY <1>a DEF Moves
<1>1. ASSUME NEW m \in Messages, PushQueue(m) PROVE FoldedInOrder'
  <2>1. /\ Append(queued, m) = queued \o <<m>> /\ <<m>> \in Seq(All)
        /\ Append(arrivals, m) = arrivals \o <<m>> /\ msgs \o queued \in Seq(All)
    <3>1. m \in All
      BY <1>0
    <3> QED
      BY <1>0, <3>1, AppendIsConcat, ConcatProperties
  <2>2. msgs \o (queued \o <<m>>) = (msgs \o queued) \o <<m>>
    BY <1>0, <2>1, ConcatAssociative
  <2>3. Ordered((msgs \o queued) \o <<m>>, summarised, arrivals \o <<m>>)
    BY <1>0, <2>1, LastArrived
  <2>4. /\ queued' = queued \o <<m>> /\ arrivals' = arrivals \o <<m>>
        /\ msgs' = msgs /\ summarised' = summarised
    BY <1>1, <2>1 DEF PushQueue, loop
  <2>5. Ordered(msgs' \o queued', summarised', arrivals')
    BY <2>2, <2>3, <2>4
  <2> QED
    BY <2>5 DEF FoldedInOrder, Ordered
<1>2. CASE Top \/ ClearSignal \/ Prepare
  <2>1. CASE Prepare /\ over /\ CanCompact(Noticed)
    <3>1. PICK u \in Seq(Turns) : Noticed = msgs \o u
      BY <1>u, <1>a DEF Noticed, Turns
    <3>2. Sound(Noticed, FALSE)
      <4>1. Sound(msgs, FALSE)
        BY <2>1 DEF LoopInv, ConvInv, Prepare
      <4> QED
        BY <4>1, AppendSound, PlainFacts DEF Noticed
    <3>3. Moves /\ arrivals' = arrivals
      BY <2>1, <3>1, <3>2 DEF Prepare, Moves, inbox, user
    <3> QED
      BY <3>3, MovesFold
  <2>2. CASE Prepare /\ ~(over /\ CanCompact(Noticed))
    <3>1. /\ msgs' = msgs \/ msgs' = Append(msgs, "note")
          /\ UNCHANGED <<queued, summarised, arrivals>>
      BY <2>2 DEF Prepare, Noticed, inbox, user
    <3> QED
      BY <1>s, <1>p, <3>1, MovesFold DEF Turns
  <2>3. CASE Top
    <3>1. CASE queued' = <<>> /\ msgs' = msgs \o queued
      <4>1. msgs' = (msgs \o <<>>) \o queued /\ UNCHANGED <<summarised, arrivals>>
        BY <1>u, <2>3, <3>1 DEF Top, user
      <4> QED
        BY <1>u, <3>1, <4>1, MovesFold DEF Moves
    <3>2. CASE UNCHANGED <<msgs, queued>>
      BY <1>s, <2>3, <3>2, MovesFold DEF Top, user
    <3> QED
      BY <2>3, <3>1, <3>2 DEF Top, Drain, Drained, inbox
  <2>4. CASE ClearSignal
    BY <1>s, <2>4, MovesFold DEF ClearSignal, user
  <2> QED
    BY <1>2, <2>1, <2>2, <2>3, <2>4
<1>3. CASE Call
  <2>1. CASE Watch \/ Interrupted \/ CapRejected \/ Fault \/ \E p \in Proposals : Reply(p)
    <3>1. UNCHANGED <<msgs, queued, summarised, arrivals>>
      BY <2>1 DEF Watch, Interrupted, CapRejected, Fault, Reply, inbox, user
    <3> QED
      BY <1>s, <3>1, MovesFold
  <2>2. CASE Truncated
    <3>1. PICK kept \in Prose : msgs' = (msgs \o kept) \o <<"note">>
      BY <2>2 DEF Truncated
    <3>2. kept \in Seq(All) /\ <<"note">> \in Seq(All) /\ kept \o <<"note">> \in Seq(Turns)
      <4>1. kept \in Seq(Turns)
        BY <1>u DEF Prose
      <4> QED
        BY <1>u, <4>1, TurnsSayNothing, ConcatProperties
    <3>3. msgs' = msgs \o (kept \o <<"note">>)
      BY <1>0, <3>1, <3>2, ConcatAssociative, SMTT(30)
    <3> QED
      BY <2>2, <3>2, <3>3, MovesFold DEF Truncated, Moves, inbox, user
  <2>3. CASE SteerCut
    <3>1. PICK kept \in Prose : msgs' = (msgs \o kept) \o queued
      BY <2>3 DEF SteerCut, Drained
    <3>2. kept \in Seq(Turns)
      BY <1>u DEF Prose
    <3> QED
      BY <2>3, <3>1, <3>2, MovesFold DEF SteerCut, Drain, Moves, user
  <2>4. CASE Overflow
    <3>1. CASE overflowStreak = 0 /\ CanCompact(msgs)
      <4>1. Sound(msgs \o <<>>, FALSE)
        BY <1>u, <2>4 DEF LoopInv, ConvInv, Overflow, Faulted, CallEnds
      <4>2. /\ msgs' = Compacted(msgs \o <<>>) /\ CanCompact(msgs \o <<>>)
            /\ summarised' = summarised \union Elided(msgs \o <<>>)
            /\ queued' = queued /\ arrivals' = arrivals
        BY <1>u, <2>4, <3>1 DEF Overflow, inbox, user
      <4>3. Moves
        BY <1>u, <4>1, <4>2 DEF Moves
      <4> QED
        BY <4>2, <4>3, MovesFold
    <3>2. CASE ~(overflowStreak = 0 /\ CanCompact(msgs))
      BY <1>s, <2>4, <3>2, MovesFold DEF Overflow, inbox, user
    <3> QED
      BY <3>1, <3>2
  <2> QED
    BY <1>3, <2>1, <2>2, <2>3, <2>4 DEF Call
<1>4. CASE CheckSteer
  <2>1. /\ msgs' = Append(msgs, Turn(proposal)) /\ Turn(proposal) \in Turns
        /\ UNCHANGED <<queued, summarised, arrivals>>
    BY <1>4 DEF CheckSteer, Turn, Turns, user
  <2> QED
    BY <1>p, <2>1, MovesFold
<1>5. CASE Hold
  <2>1. PICK u \in {<<>>, <<"results">>} : msgs' = (msgs \o u) \o queued
    BY <1>5, <1>u, <1>a DEF Hold, Drained, Turns
  <2>2. u \in Seq(Turns)
    BY <1>u
  <2> QED
    BY <1>5, <2>1, <2>2, MovesFold DEF Hold, Drain, Moves, user
<1>6. CASE Dispatch \/ Verify
  <2>1. /\ msgs' = msgs \/ \E x \in Turns : msgs' = Append(msgs, x)
        /\ UNCHANGED <<queued, summarised, arrivals>>
    BY <1>6 DEF Dispatch, Run, Other, Finish, Sleep, Ask, EndTurn, Verify, acting, inbox, user,
                Turns
  <2> QED
    BY <1>s, <1>p, <2>1, MovesFold
<1>7. CASE Shutdown \/ Done \/ \E m \in Messages : PushSignal(m)
  <2>1. UNCHANGED <<msgs, queued, summarised, arrivals>>
    BY <1>7 DEF Shutdown, Done, PushSignal, vars, loop, inbox, user
  <2> QED
    BY <1>s, <2>1, MovesFold
<1> QED
  BY <1>1, <1>2, <1>3, <1>4, <1>5, <1>6, <1>7 DEF Next, Loop, Principal

LEMMA NextLoopInv == LoopInv /\ [Next]_vars => LoopInv'
<1> SUFFICES ASSUME LoopInv, [Next]_vars PROVE LoopInv'
  OBVIOUS
<1>1. CASE UNCHANGED vars
  <2>1. TypeOK'
    BY <1>1 DEF vars, loop, inbox, user, LoopInv, TypeOK
  <2>2. PlaceInv' /\ TypedInv' /\ HeardInv' /\ FoldedInOrder'
    BY <1>1 DEF vars, loop, inbox, user, LoopInv, PlaceInv, TypedInv, HeardInv, FoldedInOrder,
                Precedes
  <2>3. ConvInv'
    <3>1. UNCHANGED <<pc, msgs, proposal, todo, finished>>
      BY <1>1 DEF vars, loop
    <3> QED
      BY <3>1, ConvFacts DEF ConvInv
  <2> QED
    BY <2>1, <2>2, <2>3 DEF LoopInv
<1>2. CASE Next /\ ~UNCHANGED vars
  <2>1. Rest' /\ PlaceInv' /\ TypedInv' /\ HeardInv'
    BY <1>2, PrincipalRest, TopRest, CallRest, ActRest DEF Next, Loop, Done
  <2>2. Kept
    <3>1. CASE Principal
      <4>1. UNCHANGED <<msgs, pc, proposal, todo, finished>>
        BY <3>1 DEF Principal, Shutdown, PushQueue, PushSignal, loop
      <4> QED
        BY <4>1, ConvFacts DEF Kept, ConvInv
    <3> QED
      BY <1>2, <3>1, TopKept, CallKept, ActKept DEF Next, Loop, Done
  <2>3. FoldedInOrder'
    BY <1>2, NextFolded
  <2>4. TypeOK'
    BY <2>1, <2>2 DEF Rest, Kept, TypeOK, All
  <2> QED
    BY <2>1, <2>2, <2>3, <2>4 DEF LoopInv, Kept
<1> QED
  BY <1>1, <1>2

LEMMA LoopInvariant == Spec => []LoopInv
BY InitLoopInv, NextLoopInv, PTL DEF Spec

\* The types, and with them the bounds of every counter of the loop: the steps, the retries
\* that give a step back, the asks of a drive, and one timer (native.go:452-470).
THEOREM LoopTypeCorrect == Spec => []TypeOK
BY LoopInvariant, PTL DEF LoopInv

\* A conversation sent to the model starts with its goal, and every turn with calls is
\* followed at once by the results that answer them: the invariant says so of every place
\* the loop can stand, with the one call that is open while it is dispatched.
THEOREM CallsAreAnswered == Spec => []AnsweredAtCall
<1>1. LoopInv => AnsweredAtCall
  <2> SUFFICES ASSUME LoopInv, pc = "call"
               PROVE  /\ msgs[1] = "goal"
                      /\ \A j \in 1 .. Len(msgs) :
                           /\ msgs[j] = "call" => j < Len(msgs) /\ msgs[j + 1] = "results"
                           /\ msgs[j] = "results" => msgs[j - 1] = "call"
    BY DEF AnsweredAtCall
  <2>1. Sound(msgs, FALSE)
    BY DEF LoopInv, ConvInv
  <2> QED
    BY <2>1, SoundFacts DEF Sound
<1> QED
  BY <1>1, LoopInvariant, PTL

\* A steer heard while a reply is awaited is in the conversation before a call of that reply
\* runs: it leaves its mark on the signal or on the watcher, and the check sees either.
THEOREM SteersAreHeard == Spec => []HeardBeforeActing
<1>1. LoopInv => HeardBeforeActing
  BY DEF LoopInv, HeardInv, HeardBeforeActing
<1> QED
  BY <1>1, LoopInvariant, PTL

\* Nothing the principal typed is lost, doubled or reordered between the inbox and the
\* conversation the model is sent, compactions included: every step that touches the
\* conversation adds turns of the harness or the model, adds the whole queue, or cuts a
\* prefix that it records as summarised.
THEOREM TypedIsFolded == Spec => []FoldedInOrder
BY LoopInvariant, PTL DEF LoopInv

\* A green drive was judged on the tree it leaves, and a drive that armed its timer ends
\* there.
THEOREM ResultsEarned == Spec => []ResultsAreEarned
<1>1. LoopInv => ResultsAreEarned
  BY DEF LoopInv, TypeOK, PlaceInv, ResultsAreEarned
<1> QED
  BY <1>1, LoopInvariant, PTL

-----------------------------------------------------------------------------
(* The autonomy daemon: where its sources, its drain loop and its handlers  *)
(* stand, and what that says of the signals and the rows they hold.         *)

Places ==
  /\ \A s \in Sources : pump[s] = "enqueue" => held[s] \in Signal
  /\ pump["file"] = "next" => held["file"] = None
  /\ pump["backlog"] \in {"get", "put"} =>
       /\ held["backlog"] \in Objectives
       /\ rmw["pump"] \in Notes /\ rmw["pump"].o = held["backlog"]
  /\ IF drain = "slot" THEN got \in Signal ELSE got = None
  /\ \A h \in Slots : job[h] # None /\ job[h].pc # "run" =>
       job[h].sig \in Objectives /\ (job[h].pc = "put" => rmw[h] \in Notes)
  /\ closed => ctxDone
  /\ ~running => taken = {} /\ drain = "check" /\ ~ctxDone

\* A row's last run is no later than any attempt read from it, nor, as long as no change was
\* put back over, earlier than the objective's last selection; and the attempt the backlog
\* is about to mark is one that was due.
Spaced ==
  /\ \A o \in Objectives : rows[o].run <= now /\ (~raced => picked[o] <= rows[o].run)
  /\ \A h \in Slots : job[h] # None /\ job[h].pc = "put" =>
       rmw[h].row.run <= rmw[h].when /\ rmw[h].when <= now
  /\ pump["backlog"] \in {"get", "put"} =>
       LET o == held["backlog"]  when == rmw["pump"].when
       IN  when <= now /\ (~raced => picked[o] = 0 \/ when >= picked[o] + Shorter)

DaemonInv == DaemonTypeOK /\ Places /\ NothingIsDropped /\ Spaced

\* The period an objective is held to is at least the shorter one.
LEMMA SpacingIsEnough ==
  ASSUME NEW r \in Row
  PROVE  Spacing(r) \in Nat /\ Shorter \in Nat /\ Spacing(r) >= Shorter
BY AutosrcAssumption DEF Spacing, Shorter

LEMMA InitDaemon == DaemonInit => DaemonInv
<1> SUFFICES ASSUME DaemonInit PROVE DaemonInv
  OBVIOUS
<1>1. NewRow \in Row
  BY AutosrcAssumption DEF NewRow, Row
<1>2. <<>> \in Seq(Signal) /\ Len(<<>>) = 0 /\ 0 <= QueueCap
  BY AutosrcAssumption
<1>7. 1 \in 1 .. MaxTime /\ 0 \in 0 .. MaxTime /\ 0 \in 0 .. MaxRestarts
  BY AutosrcAssumption
<1>3. DaemonTypeOK
  BY <1>1, <1>2, <1>7, Zenon DEF DaemonInit, DaemonTypeOK
<1>4. Places
  BY DEF DaemonInit, Places, Sources
<1>5. NothingIsDropped
  BY DEF DaemonInit, NothingIsDropped
<1>6. Spaced
  BY DEF DaemonInit, Spaced, NewRow, Sources
<1> QED
  BY <1>3, <1>4, <1>5, <1>6 DEF DaemonInv

\* Reading a row takes a note of it.
LEMMA GetTakesNote ==
  ASSUME DaemonTypeOK, NEW w \in Writers, NEW o \in Objectives, NEW when \in 1 .. MaxTime,
         Get(w, o, when)
  PROVE  /\ rmw' \in [Writers -> Notes \union {None}]
         /\ rmw'[w] \in Notes /\ rmw'[w].o = o /\ rmw'[w].when = when
         /\ rmw'[w].row = rows[o]
         /\ \A v \in Writers \ {w} : rmw'[v] = rmw[v]
<1> DEFINE note == [o |-> o, row |-> rows[o], when |-> when]
<1>1. rows[o] \in Row
  BY DEF DaemonTypeOK
<1>2. note \in Notes
  BY <1>1 DEF Notes
<1>3. rmw \in [Writers -> Notes \union {None}] /\ rmw' = [rmw EXCEPT ![w] = note]
  BY DEF Get, DaemonTypeOK
<1>4. note.o = o /\ note.when = when /\ note.row = rows[o]
  OBVIOUS
<1> HIDE DEF note
<1> QED
  BY <1>2, <1>3, <1>4

\* Putting a row back changes that one and gives the note up.
LEMMA PutSpendsNote ==
  ASSUME DaemonTypeOK, NEW w \in Writers, NEW row \in Row, rmw[w] \in Notes, Put(w, row)
  PROVE  /\ rmw' \in [Writers -> Notes \union {None}]
         /\ \A v \in Writers \ {w} : rmw'[v] = rmw[v]
         /\ rows' \in [Objectives -> Row]
         /\ rmw[w].o \in Objectives /\ rows'[rmw[w].o] = row
         /\ \A o \in Objectives : o # rmw[w].o => rows'[o] = rows[o]
         /\ raced' \in BOOLEAN
         /\ ~raced' => ~raced /\ rows[rmw[w].o] = rmw[w].row
<1>1. rmw[w].o \in Objectives
  BY DEF Notes
<1> QED
  BY <1>1 DEF Put, DaemonTypeOK

-----------------------------------------------------------------------------
(* ... and one lemma for each step of it.                                   *)

LEMMA DisableKeeps ==
  ASSUME DaemonInv, NEW o \in Objectives, Disable(o)
  PROVE  DaemonInv'
<1> DEFINE row == [rows[o] EXCEPT !.enabled = FALSE]
<1>1. row \in Row /\ row.run = rows[o].run
  BY DEF DaemonInv, DaemonTypeOK, Row
<1>2. rows' = [rows EXCEPT ![o] = row]
  BY DEF Disable
<1> HIDE DEF row
<1>3. /\ rows' \in [Objectives -> Row]
      /\ \A p \in Objectives : rows'[p].run = rows[p].run
  BY <1>1, <1>2 DEF DaemonInv, DaemonTypeOK
<1>4. DaemonTypeOK' /\ Places'
  BY <1>3 DEF Disable, DaemonInv, DaemonTypeOK, Places, clock, intake, line
<1>5. NothingIsDropped'
  BY DEF Disable, DaemonInv, NothingIsDropped, Queued, clock, intake, line
<1>6. Spaced'
  BY <1>3 DEF Disable, DaemonInv, Spaced, clock, line
<1> QED
  BY <1>4, <1>5, <1>6 DEF DaemonInv

LEMMA FeederKeeps ==
  ASSUME DaemonInv, FeederStops \/ \E f \in Files : Feed(f)
  PROVE  DaemonInv'
<1>1. DaemonTypeOK'
  BY DEF Feed, FeederStops, DaemonInv, DaemonTypeOK, clock, objects, line
<1>2. Places' /\ Spaced'
  BY DEF Feed, FeederStops, DaemonInv, Places, Spaced, clock, objects, line
<1>3. NothingIsDropped'
  <2>1. CASE FeederStops
    BY <2>1 DEF FeederStops, NothingIsDropped, clock
  <2>2. CASE \E f \in Files : Feed(f)
    <3>1. PICK f \in Files : Feed(f)
      BY <2>2
    <3>2. None \notin taken
      BY AutosrcAssumption DEF DaemonInv, DaemonTypeOK
    <3>3. queue' = queue /\ got' = got /\ drain' = drain /\ ctxDone' = ctxDone
      BY <3>1 DEF Feed, clock, line
    <3> QED
      BY <3>1, <3>2, <3>3 DEF Feed, DaemonInv, NothingIsDropped, Queued
  <2> QED
    BY <2>1, <2>2
<1> QED
  BY <1>1, <1>2, <1>3 DEF DaemonInv

LEMMA NextFileKeeps ==
  ASSUME DaemonInv, NextFile
  PROVE  DaemonInv'
<1>1. held' = [held EXCEPT !["file"] = feeder] /\ feeder \in Signal
  BY DEF NextFile, Signal
<1>2. DaemonTypeOK'
  BY <1>1 DEF NextFile, DaemonInv, DaemonTypeOK, Sources, clock, objects, line
<1>3. Places' /\ Spaced'
  BY <1>1
  DEF NextFile, DaemonInv, DaemonTypeOK, Places, Spaced, Sources, clock, objects, line
<1>4. NothingIsDropped'
  BY AutosrcAssumption
  DEF NextFile, DaemonInv, DaemonTypeOK, Places, NothingIsDropped, Queued, Sources, clock, line
<1> QED
  BY <1>2, <1>3, <1>4 DEF DaemonInv

LEMMA SelectKeeps ==
  ASSUME DaemonInv, Select
  PROVE  DaemonInv'
<1>1. PICK o \in Objectives :
        Due(o) /\ held' = [held EXCEPT !["backlog"] = o] /\ Get("pump", o, now)
  BY DEF Select
<1>2. "pump" \in Writers /\ now \in 1 .. MaxTime /\ o \in Signal /\ DaemonTypeOK
  BY DEF DaemonInv, DaemonTypeOK, Writers, Signal
<1>3. /\ rmw' \in [Writers -> Notes \union {None}]
      /\ rmw'["pump"] \in Notes /\ rmw'["pump"].o = o /\ rmw'["pump"].when = now
      /\ \A h \in Slots : rmw'[h] = rmw[h]
  BY <1>1, <1>2, GetTakesNote, AutosrcAssumption DEF Writers
<1>4. DaemonTypeOK'
  BY <1>1, <1>2, <1>3 DEF Select, DaemonTypeOK, Sources, clock, intake, line
<1>5. Places'
  BY <1>1, <1>2, <1>3
  DEF Select, DaemonInv, DaemonTypeOK, Places, Sources, clock, intake, line
<1>6. NothingIsDropped'
  BY <1>1 DEF Select, DaemonInv, DaemonTypeOK, NothingIsDropped, Queued, Sources, clock, intake,
     line
<1>7. ~raced => picked[o] = 0 \/ now >= picked[o] + Shorter
  <2>1. rows[o] \in Row /\ picked[o] \in Nat /\ now \in Nat
    BY <1>2 DEF DaemonTypeOK
  <2>2. rows[o].run \in Nat
    BY <2>1 DEF Row
  <2>3. rows[o].run = 0 \/ now >= rows[o].run + Spacing(rows[o])
    BY <1>1 DEF Due
  <2>4. ~raced => picked[o] <= rows[o].run
    BY DEF DaemonInv, Spaced
  <2> QED
    BY <2>1, <2>2, <2>3, <2>4, SpacingIsEnough
<1>8. held'["backlog"] = o
  BY <1>1, <1>2 DEF DaemonTypeOK, Sources
<1>9. Spaced'
  BY <1>2, <1>3, <1>7, <1>8 DEF Select, DaemonInv, DaemonTypeOK, Spaced, clock, line, Shorter
<1> QED
  BY <1>4, <1>5, <1>6, <1>9 DEF DaemonInv

LEMMA MarkAttemptKeeps ==
  ASSUME DaemonInv, MarkAttempt
  PROVE  DaemonInv'
<1> DEFINE o == held["backlog"]  when == rmw["pump"].when
           row == Attempted(rmw["pump"].row, when)
<1>0. DaemonTypeOK /\ Places /\ Spaced /\ "pump" \in Writers
  BY DEF DaemonInv, Writers
<1>1. pump["backlog"] \in {"get", "put"} /\ running /\ ~ctxDone
  BY DEF MarkAttempt
<1>2. o \in Objectives /\ o \in Signal /\ rmw["pump"] \in Notes /\ rmw["pump"].o = o
  BY <1>0, <1>1 DEF Places, Signal
<1>3. rmw["pump"].row \in Row /\ when \in 1 .. MaxTime /\ when \in Nat /\ when \in 0 .. MaxTime
  BY <1>2, AutosrcAssumption DEF Notes
<1>4. row \in Row /\ row.run = when
  BY <1>3 DEF Attempted, Row
<1> HIDE DEF row
<1>5. now \in Nat /\ when <= now /\ (~raced => picked[o] = 0 \/ when >= picked[o] + Shorter)
  BY <1>0, <1>1 DEF Spaced, DaemonTypeOK
<1>6. CASE pump["backlog"] = "get"
  <2>1. Get("pump", o, when) /\ pump' = [pump EXCEPT !["backlog"] = "put"]
        /\ UNCHANGED <<rows, raced, picked, clock, intake, held, line, job, served>>
    BY <1>6 DEF MarkAttempt
  <2>2. /\ rmw' \in [Writers -> Notes \union {None}]
        /\ rmw'["pump"] \in Notes /\ rmw'["pump"].o = o /\ rmw'["pump"].when = when
        /\ \A h \in Slots : rmw'[h] = rmw[h]
    BY <1>0, <1>2, <1>3, <2>1, GetTakesNote, AutosrcAssumption, ZenonT(40) DEF Writers
  <2>3. DaemonTypeOK'
    BY <1>0, <2>1, <2>2 DEF DaemonTypeOK, Sources, clock, intake, line
  <2>4. Places'
    BY <1>0, <1>2, <2>1, <2>2 DEF DaemonTypeOK, Places, Sources, clock, intake, line
  <2>5. NothingIsDropped'
    BY <2>1 DEF DaemonInv, NothingIsDropped, Queued, clock, intake, line
  <2>6. Spaced'
    BY <1>0, <1>1, <1>2, <1>5, <2>1, <2>2 DEF Spaced, clock, line, Shorter
  <2> QED
    BY <2>3, <2>4, <2>5, <2>6 DEF DaemonInv
<1>7. CASE pump["backlog"] = "put"
  <2>1. Put("pump", row) /\ pump' = [pump EXCEPT !["backlog"] = "enqueue"]
        /\ picked' = [picked EXCEPT ![o] = when]
        /\ UNCHANGED <<clock, intake, held, line, job, served>>
    BY <1>7 DEF MarkAttempt, row
  <2>2. /\ rmw' \in [Writers -> Notes \union {None}]
        /\ \A h \in Slots : rmw'[h] = rmw[h]
        /\ rows' \in [Objectives -> Row] /\ rows'[o] = row
        /\ \A p \in Objectives : p # o => rows'[p] = rows[p]
        /\ raced' \in BOOLEAN /\ (~raced' => ~raced)
    BY <1>0, <1>2, <1>4, <2>1, PutSpendsNote, AutosrcAssumption, ZenonT(40) DEF Writers
  <2>3. DaemonTypeOK'
    <3>1. picked' \in [Objectives -> 0 .. MaxTime]
      BY <1>0, <1>3, <2>1 DEF DaemonTypeOK
    <3> QED
      BY <1>0, <2>1, <2>2, <3>1 DEF DaemonTypeOK, Sources, clock, intake, line
  <2>4. Places'
    BY <1>0, <1>2, <2>1, <2>2 DEF DaemonTypeOK, Places, Sources, clock, intake, line
  <2>5. NothingIsDropped'
    BY <2>1 DEF DaemonInv, NothingIsDropped, Queued, clock, intake, line
  <2>6. Spaced'
    <3>0. picked'[o] = when /\ \A p \in Objectives : p # o => picked'[p] = picked[p]
      BY <1>0, <1>2, <2>1 DEF DaemonTypeOK
    <3>1. \A p \in Objectives : rows'[p].run <= now' /\ (~raced' => picked'[p] <= rows'[p].run)
      BY <1>0, <1>2, <1>3, <1>4, <1>5, <2>1, <2>2, <3>0 DEF Spaced, clock
    <3>2. pump'["backlog"] = "enqueue"
      BY <1>0, <2>1 DEF DaemonTypeOK, Sources
    <3> QED
      BY <1>0, <2>1, <2>2, <3>1, <3>2 DEF Spaced, clock, Shorter
  <2> QED
    BY <2>3, <2>4, <2>5, <2>6 DEF DaemonInv
<1> QED
  BY <1>1, <1>6, <1>7

LEMMA StopsKeeps ==
  ASSUME DaemonInv, NEW s \in Sources, Stops(s), ctxDone \/ s = "backlog"
  PROVE  DaemonInv'
<1>1. DaemonTypeOK'
  BY DEF Stops, DaemonInv, DaemonTypeOK, Sources, Writers, clock, intake, line
<1>2. rmw' = rmw \/ (s = "backlog" /\ \A h \in Slots : rmw'[h] = rmw[h])
  BY AutosrcAssumption DEF Stops, DaemonInv, DaemonTypeOK, Writers
<1>3. Places' /\ Spaced'
  BY <1>2
  DEF Stops, DaemonInv, DaemonTypeOK, Places, Spaced, Shorter, Sources, clock, intake, line
<1>4. NothingIsDropped'
  BY DEF Stops, NothingIsDropped, Queued, DaemonInv, DaemonTypeOK, Sources, clock, intake, line
<1> QED
  BY <1>1, <1>3, <1>4 DEF DaemonInv

LEMMA EnqueueKeeps ==
  ASSUME DaemonInv, NEW s \in Sources, Enqueue(s)
  PROVE  DaemonInv'
<1>0. DaemonTypeOK /\ Places /\ pump[s] = "enqueue" /\ held[s] \in Signal
      /\ held' = [held EXCEPT ![s] = None]
      /\ UNCHANGED <<clock, objects, intake, closed, got, job, served>>
  BY DEF DaemonInv, Places, Enqueue
<1>1. CASE closed \/ (Full /\ GivesUp)
  <2>1. ctxDone
    BY <1>0, <1>1 DEF Places, GivesUp
  <2>2. /\ queue' \in Seq(Signal) /\ Len(queue') <= QueueCap
        /\ drain' \in {drain, Woken("enqueue")}
        /\ pump' = [pump EXCEPT ![s] = "stopped"] \/ pump' = [pump EXCEPT ![s] = "next"]
    <3>1. CASE UNCHANGED <<queue, drain>> /\ pump' = [pump EXCEPT ![s] = "stopped"]
      BY <1>0, <3>1 DEF DaemonTypeOK
    <3>2. CASE ~closed /\ ~Full
      BY <1>1, <3>2
    <3> QED
      BY <3>1, <3>2 DEF Enqueue
  <2>3. DaemonTypeOK'
    BY <1>0, <2>2 DEF DaemonTypeOK, Sources, Woken, clock, objects, intake
  <2>4. Places' /\ Spaced'
    BY <1>0, <2>2
    DEF DaemonInv, DaemonTypeOK, Places, Spaced, Shorter, Sources, Woken, clock, objects, intake
  <2>5. NothingIsDropped'
    BY <1>0, <2>1 DEF NothingIsDropped, clock
  <2> QED
    BY <2>3, <2>4, <2>5 DEF DaemonInv
<1>2. CASE ~closed /\ ~Full
  <2>1. /\ queue' = Append(queue, held[s]) /\ drain' = Woken("enqueue")
        /\ pump' = [pump EXCEPT ![s] = "next"]
    BY <1>2, ~(closed \/ (Full /\ GivesUp)) DEF Enqueue
  <2>2. /\ queue' \in Seq(Signal) /\ Len(queue') = Len(queue) + 1 /\ Len(queue') <= QueueCap
        /\ \A f : Queued(f)' <=> Queued(f) \/ f = held[s]
    <3>1. Len(queue) < QueueCap
      BY <1>0, <1>2, AutosrcAssumption DEF Full, DaemonTypeOK
    <3>2. /\ queue' \in Seq(Signal) /\ Len(queue') = Len(queue) + 1
          /\ \A i \in DOMAIN queue : i \in DOMAIN queue' /\ queue'[i] = queue[i]
          /\ Len(queue) + 1 \in DOMAIN queue' /\ queue'[Len(queue) + 1] = held[s]
          /\ \A i \in DOMAIN queue' : i \in DOMAIN queue \/ i = Len(queue) + 1
      BY <1>0, <2>1 DEF DaemonTypeOK
    <3>3. Len(queue') <= QueueCap
      BY <1>0, <3>1, <3>2, AutosrcAssumption, LenProperties DEF DaemonTypeOK
    <3>4. \A f : Queued(f)' <=> Queued(f) \/ f = held[s]
      BY <3>2, Zenon DEF Queued
    <3> QED
      BY <3>2, <3>3, <3>4
  <2>3. DaemonTypeOK'
    BY <1>0, <2>1, <2>2 DEF DaemonTypeOK, Sources, Woken, clock, objects, intake
  <2>4. Places' /\ Spaced'
    BY <1>0, <2>1
    DEF DaemonInv, DaemonTypeOK, Places, Spaced, Shorter, Sources, Woken, clock, objects, intake
  <2>5. NothingIsDropped'
    <3>1. drain' # "parked"
      BY <2>1 DEF Woken, Wakes
    <3>2. \A f \in taken : held["file"] = f => held'["file"] = f \/ Queued(f)'
      BY <1>0, <2>2 DEF DaemonTypeOK, Sources
    <3> QED
      BY <1>0, <2>2, <3>1, <3>2 DEF DaemonInv, NothingIsDropped, clock, intake
  <2> QED
    BY <2>3, <2>4, <2>5 DEF DaemonInv
<1> QED
  BY <1>1, <1>2 DEF Enqueue

\* What is left of the queue without one signal is all the others.
LEMMA WithoutKeepsOthers ==
  ASSUME NEW q \in Seq(Signal), NEW i \in DOMAIN q
  PROVE  /\ Without(q, i) \in Seq(Signal) /\ Len(Without(q, i)) = Len(q) - 1
         /\ \A j \in DOMAIN q \ {i} : \E k \in DOMAIN Without(q, i) : Without(q, i)[k] = q[j]
<1> DEFINE a == SubSeq(q, 1, i - 1)  b == SubSeq(q, i + 1, Len(q))
<1>1. /\ Len(q) \in Nat /\ i \in 1 .. Len(q) /\ DOMAIN q = 1 .. Len(q)
      /\ \A j \in 1 .. Len(q) : q[j] \in Signal
  BY LenProperties
<1>2. /\ a \in Seq(Signal) /\ Len(a) = i - 1 /\ \A j \in 1 .. (i - 1) : a[j] = q[j]
  BY <1>1
<1>3. /\ b \in Seq(Signal) /\ Len(b) = Len(q) - i
      /\ \A j \in 1 .. (Len(q) - i) : b[j] = q[i + j]
  <2>1. i \in Int /\ i + 1 \in 1 .. (Len(q) + 1) /\ Len(q) - (i + 1) + 1 = Len(q) - i
    BY <1>1
  <2>2. b \in Seq(Signal) /\ Len(b) = Len(q) - i
    BY <1>1, <2>1, SMTT(30)
  <2>3. \A j \in 1 .. (Len(q) - i) : b[j] = q[i + j]
    BY <1>1, <2>1, SMTT(30)
  <2> QED
    BY <2>2, <2>3
<1> HIDE DEF a, b
<1>4. /\ a \o b \in Seq(Signal) /\ Len(a \o b) = Len(q) - 1
      /\ \A k \in 1 .. (Len(q) - 1) : (a \o b)[k] = IF k <= i - 1 THEN a[k] ELSE b[k - (i - 1)]
  <2>1. Len(a) + Len(b) = Len(q) - 1
    BY <1>1, <1>2, <1>3
  <2>2. /\ a \o b \in Seq(Signal) /\ Len(a \o b) = Len(a) + Len(b)
        /\ \A k \in 1 .. (Len(a) + Len(b)) :
             (a \o b)[k] = IF k <= Len(a) THEN a[k] ELSE b[k - Len(a)]
    BY <1>2, <1>3, ConcatProperties, Zenon
  <2> QED
    BY <1>2, <2>1, <2>2
<1>5. DOMAIN (a \o b) = 1 .. (Len(q) - 1)
  BY <1>4
<1>6. ASSUME NEW j \in DOMAIN q \ {i}
      PROVE  \E k \in DOMAIN (a \o b) : (a \o b)[k] = q[j]
  <2>1. CASE j < i
    <3>1. j \in 1 .. (i - 1) /\ j \in 1 .. (Len(q) - 1) /\ j <= i - 1
      BY <1>1, <2>1
    <3> QED
      BY <1>2, <1>4, <1>5, <3>1
  <2>2. CASE j > i
    <3> DEFINE k == j - 1
    <3>1. k \in 1 .. (Len(q) - 1) /\ ~(k <= i - 1) /\ k - (i - 1) = j - i
      BY <1>1, <2>2
    <3>2. b[j - i] = q[i + (j - i)] /\ i + (j - i) = j
      BY <1>1, <1>3, <2>2
    <3> QED
      BY <1>4, <1>5, <3>1, <3>2
  <2> QED
    BY <1>1, <1>6, <2>1, <2>2
<1>7. Without(q, i) = a \o b
  BY DEF Without, a, b
<1> QED
  BY <1>4, <1>6, <1>7

LEMMA CloseKeeps ==
  ASSUME DaemonInv, Close \/ WakeOnCancel
  PROVE  DaemonInv'
<1>1. /\ UNCHANGED <<clock, objects, intake, pump, held, queue, got, job, served>>
      /\ drain' = (IF drain = "parked" THEN "check" ELSE drain) /\ running /\ ctxDone
      /\ closed' \in BOOLEAN
  BY DEF Close, WakeOnCancel, Woken, Wakes, DaemonInv, DaemonTypeOK
<1>2. DaemonTypeOK' /\ Places' /\ Spaced'
  BY <1>1
  DEF DaemonInv, DaemonTypeOK, Places, Spaced, Shorter, clock, objects, intake
<1>3. NothingIsDropped'
  BY <1>1 DEF NothingIsDropped, clock
<1> QED
  BY <1>2, <1>3 DEF DaemonInv

LEMMA DequeueKeeps ==
  ASSUME DaemonInv, Dequeue
  PROVE  DaemonInv'
<1>0. /\ running /\ drain = "check" /\ got = None /\ DaemonTypeOK /\ Places
      /\ UNCHANGED <<clock, objects, intake, pump, held, closed, job, served>>
  BY DEF Dequeue, DaemonInv, Places
<1>1. CASE UNCHANGED <<queue, got>>
  <2>1. (drain' = "leaving" /\ ctxDone) \/ (drain' = "parked" /\ queue = <<>>) \/ drain' = "slot"
    BY DEF Dequeue
  <2>2. CASE drain' = "slot"
    <3>1. \E i \in DOMAIN queue : queue' = Without(queue, i)
      BY <2>2 DEF Dequeue
    <3>2. Len(queue') = Len(queue) - 1 /\ Len(queue) \in Nat
      BY <1>0, <3>1, WithoutKeepsOthers, LenProperties DEF DaemonTypeOK
    <3> QED
      BY <1>1, <3>2
  <2>3. CASE drain' # "slot"
    <3>1. DaemonTypeOK' /\ Places' /\ Spaced'
      BY <1>0, <1>1, <2>1, <2>3
      DEF DaemonInv, DaemonTypeOK, Places, Spaced, Shorter, clock, objects, intake
    <3>2. NothingIsDropped'
      BY <1>0, <1>1, <2>1, <2>3 DEF DaemonInv, NothingIsDropped, Queued, clock, intake
    <3> QED
      BY <3>1, <3>2 DEF DaemonInv
  <2> QED
    BY <2>2, <2>3
<1>2. CASE ~UNCHANGED <<queue, got>>
  <2>1. PICK i \in DOMAIN queue :
          got' = queue[i] /\ queue' = Without(queue, i) /\ drain' = "slot" /\ ~ctxDone
    BY <1>2 DEF Dequeue
  <2>2. /\ queue' \in Seq(Signal) /\ Len(queue') = Len(queue) - 1 /\ Len(queue) \in Nat
        /\ \A j \in DOMAIN queue \ {i} : \E k \in DOMAIN queue' : queue'[k] = queue[j]
        /\ queue[i] \in Signal
    BY <1>0, <2>1, WithoutKeepsOthers, LenProperties DEF DaemonTypeOK
  <2>3. Len(queue') <= QueueCap
    BY <1>0, <2>2, AutosrcAssumption DEF DaemonTypeOK
  <2>4. DaemonTypeOK' /\ Places' /\ Spaced'
    BY <1>0, <2>1, <2>2, <2>3
    DEF DaemonInv, DaemonTypeOK, Places, Spaced, Shorter, clock, objects, intake
  <2>5. NothingIsDropped'
    <3>1. \A f : Queued(f) => Queued(f)' \/ got' = f
      BY <2>1, <2>2 DEF Queued
    <3>2. None \notin taken
      BY <1>0, AutosrcAssumption DEF DaemonTypeOK
    <3> QED
      BY <1>0, <2>1, <3>1, <3>2 DEF DaemonInv, NothingIsDropped, clock, intake
  <2> QED
    BY <2>4, <2>5 DEF DaemonInv
<1> QED
  BY <1>1, <1>2

LEMMA AcquireKeeps ==
  ASSUME DaemonInv, Acquire
  PROVE  DaemonInv'
<1>0. /\ running /\ drain = "slot" /\ got \in Signal /\ got' = None /\ DaemonTypeOK /\ Places
      /\ UNCHANGED <<clock, objects, intake, pump, held, queue, closed>>
  BY DEF Acquire, DaemonInv, Places
<1>1. CASE ctxDone /\ drain' = "leaving" /\ UNCHANGED <<job, served>>
  <2>1. DaemonTypeOK' /\ Places' /\ Spaced'
    BY <1>0, <1>1
    DEF DaemonInv, DaemonTypeOK, Places, Spaced, Shorter, clock, objects, intake
  <2>2. NothingIsDropped'
    BY <1>0, <1>1 DEF NothingIsDropped, clock
  <2> QED
    BY <2>1, <2>2 DEF DaemonInv
<1>2. CASE ~(ctxDone /\ drain' = "leaving" /\ UNCHANGED <<job, served>>)
  <2> DEFINE call == [sig |-> got, pc |-> "run"]
  <2>1. PICK h \in Slots : job' = [job EXCEPT ![h] = call]
    BY <1>2 DEF Acquire
  <2>2. served' = served \union ({got} \intersect Files) /\ drain' = "check"
    BY <1>2 DEF Acquire
  <2>3. call \in Jobs /\ call.pc = "run"
    BY <1>0 DEF Jobs
  <2> HIDE DEF call
  <2>4. /\ job' \in [Slots -> Jobs \union {None}] /\ job'[h] = call
        /\ \A k \in Slots : k # h => job'[k] = job[k]
    BY <1>0, <2>1, <2>3 DEF DaemonTypeOK
  <2>5. DaemonTypeOK'
    BY <1>0, <2>2, <2>4 DEF DaemonTypeOK, clock, objects, intake
  <2>6. Places' /\ Spaced'
    BY <1>0, <2>2, <2>3, <2>4
    DEF DaemonInv, Places, Spaced, Shorter, clock, objects, intake
  <2>7. NothingIsDropped'
    <3>1. \A f \in taken : got = f => f \in served'
      BY <1>0, <2>2 DEF DaemonTypeOK
    <3> QED
      BY <1>0, <2>2, <3>1 DEF DaemonInv, NothingIsDropped, Queued, clock, intake
  <2> QED
    BY <2>5, <2>6, <2>7 DEF DaemonInv
<1> QED
  BY <1>1, <1>2

LEMMA HandledKeeps ==
  ASSUME DaemonInv, NEW h \in Slots, Handled(h)
  PROVE  DaemonInv'
<1> DEFINE call == [job[h] EXCEPT !.pc = "get"]
<1>0. /\ job[h] \in Jobs /\ job[h].pc = "run" /\ DaemonTypeOK /\ Places
      /\ UNCHANGED <<clock, objects, intake, pump, held, line, served>>
  BY DEF Handled, DaemonInv, DaemonTypeOK
<1>1. PICK next \in Jobs \union {None} :
        /\ job' = [job EXCEPT ![h] = next]
        /\ next # None => next.pc = "get" /\ next.sig \in Objectives
  <2>1. call \in Jobs /\ call.pc = "get" /\ call.sig = job[h].sig
    BY <1>0 DEF Jobs
  <2> HIDE DEF call
  <2>2. Frees(h) \/ (job[h].sig \in Objectives /\ job' = [job EXCEPT ![h] = call])
    BY DEF Handled, call
  <2> QED
    BY <2>1, <2>2 DEF Frees
<1>2. /\ job' \in [Slots -> Jobs \union {None}] /\ job'[h] = next
      /\ \A k \in Slots : k # h => job'[k] = job[k]
  BY <1>0, <1>1 DEF DaemonTypeOK
<1>3. DaemonTypeOK'
  BY <1>0, <1>2 DEF DaemonTypeOK, clock, objects, intake, line
<1>4. Places' /\ Spaced'
  BY <1>0, <1>1, <1>2
  DEF DaemonInv, Places, Spaced, Shorter, clock, objects, intake, line
<1>5. NothingIsDropped'
  BY <1>0 DEF DaemonInv, NothingIsDropped, Queued, clock, intake, line
<1> QED
  BY <1>3, <1>4, <1>5 DEF DaemonInv

LEMMA MarkSuccessKeeps ==
  ASSUME DaemonInv, NEW h \in Slots, MarkSuccess(h)
  PROVE  DaemonInv'
<1> DEFINE o == job[h].sig  call == [job[h] EXCEPT !.pc = "put"]
           marked == [Attempted(rmw[h].row, rmw[h].when) EXCEPT !.success = rmw[h].when]
<1>0. /\ job[h] \in Jobs /\ job[h] # None /\ DaemonTypeOK /\ Places /\ Spaced
      /\ h \in Writers /\ h # "pump" /\ "pump" \in Writers
      /\ UNCHANGED <<clock, picked, intake, pump, held, line, served>>
  BY AutosrcAssumption DEF MarkSuccess, DaemonInv, DaemonTypeOK, Writers
<1>1. NothingIsDropped'
  BY <1>0 DEF DaemonInv, NothingIsDropped, Queued, clock, intake, line
<1>2. job[h].pc # "run" => o \in Objectives /\ (job[h].pc = "put" => rmw[h] \in Notes)
  BY <1>0 DEF Places
<1>3. CASE job[h].pc = "get" /\ ~ctxDone /\ Get(h, o, now) /\ UNCHANGED <<rows, raced>>
           /\ job' = [job EXCEPT ![h].pc = "put"]
  <2>0. call \in Jobs /\ call.pc = "put" /\ call.sig = o /\ job' = [job EXCEPT ![h] = call]
    BY <1>0, <1>3 DEF Jobs
  <2> HIDE DEF call
  <2>1. /\ job' \in [Slots -> Jobs \union {None}] /\ job'[h] = call
        /\ \A k \in Slots : k # h => job'[k] = job[k]
    BY <1>0, <2>0 DEF DaemonTypeOK
  <2>2. now \in 1 .. MaxTime /\ now \in Nat
    BY <1>0 DEF DaemonTypeOK
  <2>3. /\ rmw' \in [Writers -> Notes \union {None}]
        /\ rmw'[h] \in Notes /\ rmw'[h].o = o /\ rmw'[h].when = now /\ rmw'[h].row = rows[o]
        /\ \A v \in Writers \ {h} : rmw'[v] = rmw[v]
    BY <1>0, <1>2, <1>3, <2>2, GetTakesNote
  <2>4. /\ rmw'["pump"] = rmw["pump"]
        /\ \A k \in Slots : k # h => rmw'[k] = rmw[k]
    BY <1>0, <2>3 DEF Writers
  <2>5. DaemonTypeOK'
    BY <1>0, <1>3, <2>1, <2>3 DEF DaemonTypeOK, clock, intake, line
  <2>6. Places'
    BY <1>0, <1>2, <1>3, <2>0, <2>1, <2>3, <2>4 DEF Places, clock, intake, line
  <2>7. rows[o].run <= now
    BY <1>0, <1>2, <1>3 DEF Spaced
  <2>8. Spaced'
    BY <1>0, <1>3, <2>1, <2>2, <2>3, <2>4, <2>7 DEF Spaced, Shorter, clock
  <2> QED
    BY <1>1, <2>5, <2>6, <2>8 DEF DaemonInv
<1>4. CASE job[h].pc = "put" /\ ~ctxDone /\ Put(h, marked) /\ Frees(h)
  <2>1. rmw[h] \in Notes /\ rmw[h].when \in 1 .. MaxTime /\ rmw[h].row \in Row
    BY <1>2, <1>4 DEF Notes
  <2>2. /\ rmw[h].when \in 0 .. MaxTime /\ rmw[h].when \in Nat
        /\ rmw[h].row.run \in Nat /\ now \in Nat
    BY <1>0, <2>1, AutosrcAssumption DEF Row, DaemonTypeOK
  <2>3. marked \in Row /\ marked.run = rmw[h].when
    BY <2>1, <2>2 DEF Attempted, Row
  <2>4. Put(h, marked)
    BY <1>4
  <2> HIDE DEF marked
  <2>5. /\ rmw' \in [Writers -> Notes \union {None}]
        /\ \A v \in Writers \ {h} : rmw'[v] = rmw[v]
        /\ rows' \in [Objectives -> Row]
        /\ rmw[h].o \in Objectives /\ rows'[rmw[h].o] = marked
        /\ \A p \in Objectives : p # rmw[h].o => rows'[p] = rows[p]
        /\ raced' \in BOOLEAN /\ (~raced' => ~raced /\ rows[rmw[h].o] = rmw[h].row)
    BY <1>0, <2>1, <2>3, <2>4, PutSpendsNote
  <2>6. /\ rmw'["pump"] = rmw["pump"]
        /\ \A k \in Slots : k # h => rmw'[k] = rmw[k]
    BY <1>0, <2>5 DEF Writers
  <2>7. /\ job' \in [Slots -> Jobs \union {None}] /\ job'[h] = None
        /\ \A k \in Slots : k # h => job'[k] = job[k]
    BY <1>0, <1>4 DEF Frees, DaemonTypeOK
  <2>8. DaemonTypeOK'
    BY <1>0, <2>5, <2>7 DEF DaemonTypeOK, clock, intake, line
  <2>9. Places'
    BY <1>0, <2>6, <2>7 DEF Places, clock, intake, line
  <2>10. rmw[h].row.run <= rmw[h].when /\ rmw[h].when <= now
    BY <1>0, <1>4 DEF Spaced
  <2>11. ASSUME NEW p \in Objectives
         PROVE  rows'[p].run <= now /\ (~raced' => picked[p] <= rows'[p].run)
    <3>1. picked[p] \in Nat
      BY <1>0 DEF DaemonTypeOK
    <3> QED
      BY <1>0, <2>2, <2>3, <2>5, <2>10, <3>1 DEF Spaced
  <2>12. Spaced'
    BY <1>0, <2>5, <2>6, <2>7, <2>11 DEF Spaced, Shorter, clock
  <2> QED
    BY <1>1, <2>8, <2>9, <2>12 DEF DaemonInv
<1>5. CASE Frees(h) /\ rmw' = [rmw EXCEPT ![h] = None] /\ UNCHANGED <<rows, raced>>
  <2>1. /\ rmw' \in [Writers -> Notes \union {None}] /\ rmw'["pump"] = rmw["pump"]
        /\ \A k \in Slots : k # h => rmw'[k] = rmw[k]
    BY <1>0, <1>5 DEF DaemonTypeOK, Writers
  <2>2. /\ job' \in [Slots -> Jobs \union {None}] /\ job'[h] = None
        /\ \A k \in Slots : k # h => job'[k] = job[k]
    BY <1>0, <1>5 DEF Frees, DaemonTypeOK
  <2>3. DaemonTypeOK'
    BY <1>0, <1>5, <2>1, <2>2 DEF DaemonTypeOK, clock, intake, line
  <2>4. Places' /\ Spaced'
    BY <1>0, <1>5, <2>1, <2>2 DEF Places, Spaced, Shorter, clock, intake, line
  <2> QED
    BY <1>1, <2>3, <2>4 DEF DaemonInv
<1> QED
  BY <1>3, <1>4, <1>5 DEF MarkSuccess

LEMMA LeaveKeeps ==
  ASSUME DaemonInv, Leave
  PROVE  DaemonInv'
<1>1. /\ UNCHANGED <<clock, objects, intake, pump, held, queue, closed, got, job, served>>
      /\ drain \in {"leaving", "drained"} /\ drain' \in {"drained", "done"} /\ running
  BY DEF Leave
<1>2. DaemonTypeOK' /\ Places' /\ Spaced'
  BY <1>1 DEF DaemonInv, DaemonTypeOK, Places, Spaced, Shorter, clock, objects, intake
<1>3. NothingIsDropped'
  BY <1>1 DEF DaemonInv, NothingIsDropped, Queued, clock, intake
<1> QED
  BY <1>2, <1>3 DEF DaemonInv

LEMMA ProcessKeeps ==
  ASSUME DaemonInv, Tick \/ Cancel \/ Restart
  PROVE  DaemonInv'
<1>1. /\ UNCHANGED <<objects, intake, pump, held, line, job, served>>
      /\ now' \in 1 .. MaxTime /\ now <= now' /\ now \in Nat /\ now' \in Nat
      /\ ctxDone' \in BOOLEAN /\ running' \in BOOLEAN /\ restarts' \in 0 .. MaxRestarts
      /\ ctxDone => ctxDone'
  <2>0. /\ now \in 1 .. MaxTime /\ ctxDone \in BOOLEAN /\ running \in BOOLEAN
        /\ restarts \in 0 .. MaxRestarts /\ MaxTime \in Nat /\ MaxRestarts \in Nat
    BY AutosrcAssumption DEF DaemonInv, DaemonTypeOK
  <2>1. CASE Tick
    BY <2>0, <2>1 DEF Tick
  <2>2. CASE Cancel
    BY <2>0, <2>2 DEF Cancel
  <2>3. CASE Restart
    BY <2>0, <2>3 DEF Restart
  <2> QED
    BY <2>1, <2>2, <2>3
<1>2. DaemonTypeOK'
  BY <1>1 DEF DaemonInv, DaemonTypeOK, objects, intake, line
<1>3. Places'
  BY <1>1 DEF Tick, Cancel, Restart, DaemonInv, Places, objects, intake, line
<1>4. NothingIsDropped'
  BY <1>1 DEF Tick, Cancel, Restart, DaemonInv, Places, NothingIsDropped, Queued, intake, line
<1>5. Spaced'
  <2>1. \A o \in Objectives : rows[o].run \in Nat
    BY DEF DaemonInv, DaemonTypeOK, Row
  <2>2. \A h \in Slots : job[h] # None /\ job[h].pc = "put" => rmw[h].when \in Nat
    BY DEF DaemonInv, Places, Notes
  <2>3. pump["backlog"] \in {"get", "put"} => rmw["pump"].when \in Nat
    BY DEF DaemonInv, Places, Notes
  <2> QED
    BY <1>1, <2>1, <2>2, <2>3 DEF DaemonInv, Spaced, Shorter, objects
<1> QED
  BY <1>2, <1>3, <1>4, <1>5 DEF DaemonInv

LEMMA DieKeeps ==
  ASSUME DaemonInv, Die
  PROVE  DaemonInv'
<1>1. <<>> \in Seq(Signal) /\ Len(<<>>) <= QueueCap
  BY AutosrcAssumption
<1>2. DaemonTypeOK'
  BY <1>1, Zenon DEF Die, DaemonInv, DaemonTypeOK
<1>3. Places' /\ Spaced'
  BY DEF Die, DaemonInv, Places, Spaced, Shorter, Sources
<1>4. NothingIsDropped'
  BY DEF Die, NothingIsDropped
<1> QED
  BY <1>2, <1>3, <1>4 DEF DaemonInv

LEMMA StepDaemon == DaemonInv /\ [DaemonNext]_daemonVars => DaemonInv'
<1>1. ASSUME DaemonInv, UNCHANGED daemonVars PROVE DaemonInv'
  <2>1. DaemonTypeOK' /\ Places'
    BY <1>1 DEF DaemonInv, DaemonTypeOK, Places, daemonVars, clock, objects, intake, line
  <2>2. NothingIsDropped' /\ Spaced'
    BY <1>1
    DEF DaemonInv, NothingIsDropped, Queued, Spaced, Shorter, daemonVars, clock, objects, intake,
        line
  <2> QED
    BY <2>1, <2>2 DEF DaemonInv
<1> QED
  BY <1>1, DisableKeeps, FeederKeeps, NextFileKeeps, SelectKeeps, MarkAttemptKeeps,
     StopsKeeps, EnqueueKeeps, CloseKeeps, DequeueKeeps, AcquireKeeps, HandledKeeps,
     MarkSuccessKeeps, LeaveKeeps, ProcessKeeps, DieKeeps
  DEF DaemonNext, PumpStep, HandlerStep, DrainStep, SourceStops, SourceFails, Sources

-----------------------------------------------------------------------------
(* The theorems about the daemon.                                           *)

\* Every reachable state of the daemon has its type: in particular the queue never holds more
\* than its bound.
THEOREM DaemonTypeCorrect == DaemonSpec => []DaemonTypeOK
<1>1. DaemonInv => DaemonTypeOK
  BY DEF DaemonInv
<1> QED
  BY InitDaemon, StepDaemon, <1>1, PTL DEF DaemonSpec

\* Until the shutdown no signal file is lost between the directory and a handler, and the
\* drain loop does not sleep over a queued one.
THEOREM NothingDropped == DaemonSpec => []NothingIsDropped
<1>1. DaemonInv => NothingIsDropped
  BY DEF DaemonInv
<1> QED
  BY InitDaemon, StepDaemon, <1>1, PTL DEF DaemonSpec

\* An objective is not handed out again before the shorter of its periods has passed, as long
\* as no writer put a row back over the change of another.
THEOREM DebouncedHolds == DaemonSpec => Debounced
<1> DEFINE A == pump["backlog"] = "put" /\ pump'["backlog"] = "enqueue" /\ ~raced =>
                  \A o \in Objectives : o = held["backlog"] /\ picked[o] > 0 =>
                    picked'[o] >= picked[o] + Shorter
<1>1. DaemonInv /\ [DaemonNext]_daemonVars => [A]_daemonVars
  <2> SUFFICES ASSUME DaemonInv, DaemonNext, pump["backlog"] = "put",
                      pump'["backlog"] = "enqueue", ~raced, NEW o \in Objectives,
                      o = held["backlog"], picked[o] > 0
               PROVE  picked'[o] >= picked[o] + Shorter
    OBVIOUS
  <2>1. MarkAttempt
    <3>0. SourceFails => pump'["backlog"] # "enqueue"
      BY DEF SourceFails, Stops, DaemonInv, DaemonTypeOK, Sources
    <3>1. \A s \in Sources : PumpStep(s) => pump'["backlog"] # "enqueue"
      BY DEF PumpStep, Enqueue, SourceStops, Stops, DaemonInv, DaemonTypeOK, Sources
    <3>2. NextFile => pump'["backlog"] # "enqueue"
      BY DEF NextFile, DaemonInv, DaemonTypeOK, Sources
    <3>3. Select => pump'["backlog"] # "enqueue"
      BY DEF Select
    <3>4. pump' # pump
      OBVIOUS
    <3>5. \A h \in Slots : ~HandlerStep(h)
      BY <3>4 DEF HandlerStep, Handled, MarkSuccess
    <3>6. ~DrainStep
      BY <3>4 DEF DrainStep, Close, WakeOnCancel, Dequeue, Acquire, Leave
    <3>7. ~FeederStops /\ (\A f \in Files : ~Feed(f)) /\ (\A p \in Objectives : ~Disable(p))
      BY <3>4 DEF FeederStops, Feed, Disable
    <3>8. ~Tick /\ ~Cancel /\ ~Restart
      BY <3>4 DEF Tick, Cancel, Restart
    <3>9. ~Die
      BY DEF Die, Sources
    <3> QED
      BY <3>0, <3>1, <3>2, <3>3, <3>5, <3>6, <3>7, <3>8, <3>9 DEF DaemonNext
  <2>2. picked' = [picked EXCEPT ![o] = rmw["pump"].when]
    BY <2>1 DEF MarkAttempt
  <2>3. picked'[o] = rmw["pump"].when
    BY <2>2 DEF DaemonInv, DaemonTypeOK
  <2>4. picked[o] = 0 \/ rmw["pump"].when >= picked[o] + Shorter
    BY DEF DaemonInv, Spaced
  <2> QED
    BY <2>3, <2>4
<1> QED
  BY InitDaemon, StepDaemon, <1>1, PTL DEF DaemonSpec, Debounced

=============================================================================
