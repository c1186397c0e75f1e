--------------------------- MODULE EventLogProofs ---------------------------
(***************************************************************************)
(* EventLog's safety, for any number of appends, crashes, failing calls    *)
(* and rotations.                                                          *)
(*                                                                         *)
(* Two things carry the argument.  A line that parses is the event that    *)
(* landed there, so a generation without a torn line is what landed.  And  *)
(* the sequence numbers on disk, the unterminated record included, grow    *)
(* strictly and stay below the anchor, so reopening at the last readable   *)
(* line never hands one out again while its event can still be read.       *)
(*                                                                         *)
(* At the end, what else is durable of a conversation between its drives    *)
(* (Nap), for any number of drives, processes, timers and failing writes.   *)
(* A timer is delivered only once the store says so (TimerInv), a row that  *)
(* is in flight has a drive or waits for its re-drive (FlightInv), and a    *)
(* predecessor is retired before its ref goes (DriveInv).                   *)
(***************************************************************************)
EXTENDS EventLog, Nap, SequenceTheorems, FiniteSetTheorems, WellFoundedInduction, TLAPS

\* A generation without a torn line holds what landed.
CleanIsLanded(f, events) ==
  (\A i \in DOMAIN f.lines : Readable(f.lines[i])) => f.lines = events

LandedInv ==
  /\ CleanIsLanded(live, landed)
  /\ \A g \in DOMAIN rotated : CleanIsLanded(rotated[g].file, rotated[g].landed)

Sorted(ls) == \A i, j \in DOMAIN ls :
  i < j /\ Readable(ls[i]) /\ Readable(ls[j]) => ls[i].seq < ls[j].seq

Below(ls, n) == \A i \in DOMAIN ls : Readable(ls[i]) => ls[i].seq < n

\* What is on disk, the unterminated record included, is in order and, while
\* the log is open, its terminated lines are below the next event's number.
OrderInv ==
  /\ Sorted(Lines(live))
  /\ pc # "down" => Below(live.lines, anchor.seq)

\* Where a file without a torn line leaves the anchor.
EndOf(ls) == IF Len(ls) = 0 THEN Genesis ELSE After(ls[Len(ls)])

\* Without a failed call the terminated lines are chained, and an open log has
\* no tail and is anchored at their end.
CrashInv == faults = 0 =>
  /\ Chained(live.lines)
  /\ pc # "down" => live.tail = <<>> /\ anchor = EndOf(live.lines)

\* The row Append is about to insert is the event that landed last.
TypeInv == TypeOK /\ (pc = "mirror" => Len(landed) > 0)

-----------------------------------------------------------------------------
(* Type correctness                                                        *)

\* Facts about short sequences.
LEMMA NoneOrOne ==
  ASSUME NEW S
  PROVE  /\ <<>> \in Seq(S) /\ Len(<<>>) = 0
         /\ \A x \in S : <<x>> \in Seq(S) /\ Len(<<x>>) = 1
OBVIOUS

\* What an append links is an event, and what it may leave is a line.
LEMMA LinkedIsEvent ==
  ASSUME TypeOK
  PROVE  /\ Linked \in Event
         /\ After(Linked) \in [prev : Nat, seq : Nat]
         /\ Glued(Linked) \in Line
         /\ \A t \in Cut(Linked) : t \in Seq(Line) /\ Len(t) <= 1
<1>1. Linked \in Event
  BY DEF TypeOK, Linked, Event
<1>2. After(Linked) \in [prev : Nat, seq : Nat]
  BY <1>1 DEF After, Event
<1>3. Torn \in Line /\ Linked \in Line
  BY <1>1 DEF Line
<1>4. \A l \in Line : <<l>> \in Seq(Line) /\ Len(<<l>>) = 1
  BY NoneOrOne
<1>5. live.tail \in Seq(Line) /\ Len(live.tail) <= 1
  BY DEF TypeOK, File
<1>6. \A t \in Cut(Linked) : t \in Seq(Line) /\ Len(t) <= 1
  <2> SUFFICES ASSUME NEW t \in Cut(Linked)
               PROVE  t \in Seq(Line) /\ Len(t) <= 1
    OBVIOUS
  <2>1. t = live.tail \/ t = <<Torn>> \/ t = <<Linked>>
    BY DEF Cut
  <2>2. CASE t = live.tail
    BY <2>2, <1>5
  <2>3. CASE t = <<Torn>>
    BY <2>3, <1>3, <1>4
  <2>4. CASE t = <<Linked>>
    BY <2>4, <1>3, <1>4
  <2> QED
    BY <2>1, <2>2, <2>3, <2>4
<1> QED
  BY <1>1, <1>2, <1>3, <1>6 DEF Glued

\* The places Open may resume at are anchors.
LEMMA AnchorsAreTyped ==
  ASSUME TypeOK, NEW a \in Anchors
  PROVE  a \in [prev : Nat, seq : Nat]
<1>1. Genesis \in [prev : Nat, seq : Nat]
  BY DEF Genesis
<1>2. ASSUME NEW i \in DOMAIN Lines(live)
      PROVE  After(Lines(live)[i]) \in [prev : Nat, seq : Nat]
  <2>1. Lines(live) \in Seq(Line)
    BY DEF Lines, TypeOK, File
  <2>2. Lines(live)[i] \in Line
    BY <2>1
  <2>3. Lines(live)[i].id \in Nat /\ Lines(live)[i].seq \in Nat
    BY <2>2 DEF Line, Event, Torn
  <2> QED
    BY <2>3 DEF After
<1> QED
  BY <1>1, <1>2 DEF Anchors

\* A step keeps the types.
LEMMA NextTypeOK == TypeInv /\ [Next]_vars => TypeInv'
<1> SUFFICES ASSUME TypeInv, [Next]_vars PROVE TypeInv'
  OBVIOUS
<1> USE BoundsAssumption DEF TypeInv
<1>1. CASE Write
  <2>1. CASE Lands(Linked)
    <3>1. live' \in File /\ Len(live'.tail) <= 1
      BY <2>1, LinkedIsEvent, NoneOrOne DEF Lands, TypeOK, File
    <3>2. landed' \in Seq(Event) /\ Len(landed') > 0
      BY <2>1, LinkedIsEvent DEF Lands, TypeOK
    <3> QED
      BY <1>1, <2>1, <3>1, <3>2, LinkedIsEvent DEF Write, Lands, TypeOK
  <2>2. CASE FailsShort(Linked)
    BY <1>1, <2>2, LinkedIsEvent DEF Write, FailsShort, WithTail, TypeOK, File
  <2>3. CASE DiesWriting(Linked)
    BY <1>1, <2>3, LinkedIsEvent DEF Write, DiesWriting, WithTail, TypeOK, File
  <2> QED
    BY <1>1, <2>1, <2>2, <2>3 DEF Write
<1>2. CASE Mirror
  <2>1. landed[Len(landed)] \in Event
    BY <1>2 DEF Mirror, TypeOK
  <2>2. mirror' = Append(mirror, landed[Len(landed)]) \/ mirror' = mirror
    BY <1>2 DEF Mirror
  <2>3. mirror' \in Seq(Event)
    <3> DEFINE e == landed[Len(landed)]
    <3>1. mirror \in Seq(Event)
      BY DEF TypeOK
    <3>2. e \in Event
      BY <2>1
    <3> HIDE DEF e
    <3>3. Append(mirror, e) \in Seq(Event)
      BY <3>1, <3>2
    <3> QED
      BY <2>2, <3>1, <3>3 DEF e
  <2>4. failed' \in BOOLEAN
    BY <1>2 DEF Mirror, TypeOK
  <2>5. faults' \in 0 .. MaxFaults
    BY <1>2 DEF Mirror, TypeOK
  <2> QED
    BY <1>2, <2>3, <2>4, <2>5 DEF Mirror, TypeOK
<1>3. CASE Stop
  BY <1>3 DEF Stop, TypeOK
<1>4. CASE Open
  <2>1. live' \in File /\ Len(live'.tail) <= 1
    <3>1. CASE live' = WithTail(<<>>)
      <4>1. <<>> \in Seq(Line) /\ Len(<<>>) = 0
        BY NoneOrOne
      <4> QED
        BY <3>1, <4>1 DEF WithTail, TypeOK, File
    <3>2. CASE live' = live
      BY <3>2 DEF TypeOK
    <3> QED
      BY <1>4, <3>1, <3>2 DEF Open, Heal
  <2>2. faults' \in 0 .. MaxFaults
    BY <1>4 DEF Open, Heal, TypeOK
  <2>3. anchor' \in [prev : Nat, seq : Nat]
    BY <1>4, AnchorsAreTyped DEF Open
  <2> QED
    BY <1>4, <2>1, <2>2, <2>3 DEF Open, TypeOK
<1>5. CASE Rotate
  BY <1>5, NoneOrOne DEF Rotate, TypeOK, File, Empty
<1>6. CASE UNCHANGED vars
  BY <1>6 DEF vars, TypeOK
<1> QED
  BY <1>1, <1>2, <1>3, <1>4, <1>5, <1>6 DEF Next

LEMMA InitTypeOK == Init => TypeInv
<1> SUFFICES ASSUME Init PROVE TypeInv
  OBVIOUS
<1>1. live \in File /\ Len(live.tail) <= 1
  BY NoneOrOne DEF Init, Empty, File
<1>2. rotated \in Seq([file : File, landed : Seq(Event)])
  BY NoneOrOne DEF Init
<1>3. mirror \in Seq(Event) /\ landed \in Seq(Event)
  BY NoneOrOne DEF Init
<1>4. failed \in BOOLEAN
  BY DEF Init
<1> QED
  BY <1>1, <1>2, <1>3, <1>4, BoundsAssumption DEF Init, TypeInv, TypeOK, Genesis

\* Every variable keeps its type.
THEOREM TypeCorrect == Spec => []TypeOK
<1>1. TypeInv => TypeOK
  BY DEF TypeInv
<1> QED
  BY <1>1, InitTypeOK, NextTypeOK, PTL DEF Spec

-----------------------------------------------------------------------------
(* Verify is honest                                                        *)

\* The lines of a file are its terminated lines and then its tail.
LEMMA LinesOfFile ==
  ASSUME NEW f \in File
  PROVE  /\ Lines(f) \in Seq(Line)
         /\ Len(Lines(f)) = Len(f.lines) + Len(f.tail)
         /\ \A i \in 1 .. Len(f.lines) : Lines(f)[i] = f.lines[i]
         /\ \A i \in 1 .. Len(f.tail) : Lines(f)[Len(f.lines) + i] = f.tail[i]
<1> DEFINE a == f.lines  b == f.tail
<1>1. a \in Seq(Line) /\ b \in Seq(Line)
  BY DEF File
<1> HIDE DEF a, b
<1>2. /\ a \o b \in Seq(Line)
      /\ Len(a \o b) = Len(a) + Len(b)
      /\ Len(a) \in Nat /\ Len(b) \in Nat
      /\ \A i \in 1 .. Len(a) : (a \o b)[i] = a[i]
      /\ \A i \in 1 .. Len(b) : (a \o b)[Len(a) + i] = b[i]
  BY <1>1, ConcatProperties
<1> QED
  BY <1>2 DEF Lines, a, b

\* A file that verifies has no torn line.
LEMMA VerifiedIsClean ==
  ASSUME NEW f \in File, Verify(f)
  PROVE  \A i \in DOMAIN f.lines : Readable(f.lines[i])
<1> SUFFICES ASSUME NEW i \in DOMAIN f.lines PROVE Readable(f.lines[i])
  OBVIOUS
<1>1. i \in 1 .. Len(f.lines) /\ f.tail \in Seq(Line) /\ f.lines \in Seq(Line)
  BY DEF File
<1> DEFINE ls == Lines(f)  n == Len(f.lines)  m == Len(f.tail)
<1>2. /\ ls \in Seq(Line)
      /\ Len(ls) = n + m
      /\ ls[i] = f.lines[i]
  BY <1>1, LinesOfFile
<1>3. m \in Nat /\ n \in Nat /\ i \in 1 .. n
  BY <1>1
<1>4. \A k \in DOMAIN ls : Readable(ls[k])
  BY DEF Verify, Chained
<1> HIDE DEF ls, n, m
<1>5. i \in DOMAIN ls
  BY <1>2, <1>3
<1> QED
  BY <1>2, <1>4, <1>5

\* Writing a line keeps a clean generation equal to what landed.
LEMMA LandsKeepsClean ==
  ASSUME TypeOK, CleanIsLanded(live, landed), Lands(Linked)
  PROVE  CleanIsLanded(live, landed)'
<1> SUFFICES ASSUME \A i \in DOMAIN live'.lines : Readable(live'.lines[i])
             PROVE  live'.lines = landed'
  BY DEF CleanIsLanded
<1>1. live.lines \in Seq(Line) /\ Glued(Linked) \in Line
  BY LinkedIsEvent DEF TypeOK, File
<1>2. live'.lines = Append(live.lines, Glued(Linked))
  BY DEF Lands
<1>3. /\ \A i \in DOMAIN live.lines : live'.lines[i] = live.lines[i]
      /\ DOMAIN live.lines \subseteq DOMAIN live'.lines
      /\ Len(live.lines) + 1 \in DOMAIN live'.lines
      /\ live'.lines[Len(live.lines) + 1] = Glued(Linked)
  BY <1>1, <1>2
<1>4. Readable(Glued(Linked)) /\ \A i \in DOMAIN live.lines : Readable(live.lines[i])
  BY <1>3
<1>5. Glued(Linked) = Linked
  BY <1>4 DEF Glued, Readable
<1>6. live.lines = landed
  BY <1>4 DEF CleanIsLanded
<1> QED
  BY <1>2, <1>5, <1>6 DEF Lands

LEMMA NextLanded == TypeInv /\ LandedInv /\ [Next]_vars => LandedInv'
<1> SUFFICES ASSUME TypeInv, LandedInv, [Next]_vars PROVE LandedInv'
  OBVIOUS
<1>1. CASE Write
  <2>1. CASE Lands(Linked)
    BY <1>1, <2>1, LandsKeepsClean DEF Write, LandedInv, TypeInv
  <2>2. CASE FailsShort(Linked) \/ DiesWriting(Linked)
    <3>1. live'.lines = live.lines /\ landed' = landed /\ rotated' = rotated
      BY <1>1, <2>2 DEF Write, FailsShort, DiesWriting, WithTail
    <3> QED
      BY <3>1 DEF LandedInv, CleanIsLanded
  <2> QED
    BY <1>1, <2>1, <2>2 DEF Write
<1>2. CASE Mirror \/ Stop \/ UNCHANGED vars
  BY <1>2 DEF Mirror, Stop, vars, LandedInv, CleanIsLanded
<1>3. CASE Open
  <2>1. live'.lines = live.lines /\ landed' = landed /\ rotated' = rotated
    BY <1>3 DEF Open, Heal, WithTail
  <2> QED
    BY <2>1 DEF LandedInv, CleanIsLanded
<1>4. CASE Rotate
  <2> DEFINE new == [file |-> live, landed |-> landed]
  <2>1. CleanIsLanded(live, landed)'
    BY <1>4 DEF Rotate, Empty, CleanIsLanded
  <2>2. CleanIsLanded(new.file, new.landed)
    BY DEF LandedInv
  <2>3. /\ rotated' \in Seq([file : File, landed : Seq(Event)])
        /\ rotated'[1] = new
        /\ \A g \in DOMAIN rotated' : g # 1 => g - 1 \in DOMAIN rotated /\ rotated'[g] = rotated[g - 1]
    BY <1>4, SMTT(30) DEF Rotate, TypeInv, TypeOK
  <2>4. ASSUME NEW g \in DOMAIN rotated'
        PROVE  CleanIsLanded(rotated'[g].file, rotated'[g].landed)
    <3>1. CASE g = 1
      BY <2>2, <2>3, <3>1
    <3>2. CASE g # 1
      BY <2>3, <3>2 DEF LandedInv
    <3> QED
      BY <3>1, <3>2
  <2> QED
    BY <2>1, <2>4 DEF LandedInv, CleanIsLanded
<1> QED
  BY <1>1, <1>2, <1>3, <1>4 DEF Next

\* A log that passes Verify, live or rotated, has lost no event.
THEOREM VerifyNeverHidesALoss == Spec => []VerifyIsHonest
<1>1. Init => LandedInv
  BY DEF Init, Empty, LandedInv, CleanIsLanded
<1>2. TypeInv /\ LandedInv => VerifyIsHonest
  <2> SUFFICES ASSUME TypeInv, LandedInv PROVE VerifyIsHonest
    OBVIOUS
  <2>1. live \in File
    BY DEF TypeInv, TypeOK
  <2>2. \A g \in DOMAIN rotated : rotated[g].file \in File
    <3> DEFINE Generation == [file : File, landed : Seq(Event)]
    <3>1. rotated \in Seq(Generation)
      BY DEF TypeInv, TypeOK
    <3>2. \A g \in Generation : g.file \in File
      OBVIOUS
    <3> HIDE DEF Generation
    <3>3. \A g \in DOMAIN rotated : rotated[g] \in Generation
      BY <3>1
    <3> QED
      BY <3>2, <3>3
  <2> QED
    BY <2>1, <2>2, VerifiedIsClean DEF VerifyIsHonest, Honest, LandedInv, CleanIsLanded
<1> QED
  BY <1>1, <1>2, InitTypeOK, NextTypeOK, NextLanded, PTL DEF Spec

-----------------------------------------------------------------------------
(* The sequence never restarts                                             *)

\* A file's lines are its terminated lines, and at most one more.
LEMMA LinesWithTail ==
  ASSUME NEW f \in File, Len(f.tail) <= 1
  PROVE  \/ Len(f.tail) = 0 /\ Lines(f) = f.lines
         \/ Len(f.tail) = 1 /\ f.tail[1] \in Line /\ Lines(f) = Append(f.lines, f.tail[1])
<1> DEFINE a == f.lines  b == f.tail
<1>1. a \in Seq(Line) /\ b \in Seq(Line) /\ Len(b) <= 1
  BY DEF File
<1> HIDE DEF a, b
<1>2. CASE Len(b) = 0
  <2>1. b = <<>>
    BY <1>1, <1>2, EmptySeq
  <2>2. a \o b = a
    BY <1>1, <2>1, ConcatEmptySeq
  <2> QED
    BY <1>2, <2>2 DEF Lines, a, b
<1>3. CASE Len(b) = 1
  <2> DEFINE c == <<b[1]>>
  <2>1. b[1] \in Line /\ b = c
    <3>1. b[1] \in Line
      BY <1>1, <1>3, ElementOfSeq
    <3>2. c \in Seq(Line) /\ Len(c) = 1 /\ c[1] = b[1]
      BY <3>1
    <3> HIDE DEF c
    <3>3. b = c
      BY <1>1, <1>3, <3>2, SeqEqual
    <3> QED
      BY <3>1, <3>3
  <2>2. Append(a, b[1]) = a \o <<b[1]>>
    BY <1>1, <2>1, AppendIsConcat
  <2> QED
    BY <1>3, <2>1, <2>2 DEF Lines, a, b
<1>4. Len(b) = 0 \/ Len(b) = 1
  <2> DEFINE k == Len(b)
  <2>1. k \in Nat /\ k <= 1
    BY <1>1, LenProperties
  <2> HIDE DEF k
  <2>2. k = 0 \/ k = 1
    BY <2>1
  <2> QED
    BY <2>2 DEF k
<1> QED
  BY <1>2, <1>3, <1>4 DEF b

\* One more line keeps the order if it is torn or carries the next number.
LEMMA NextLineInOrder ==
  ASSUME NEW ls \in Seq(Line), NEW l \in Line, NEW n \in Nat,
         Sorted(ls), Below(ls, n), l = Torn \/ l.seq = n
  PROVE  /\ Sorted(Append(ls, l))
         /\ l = Torn => Below(Append(ls, l), n)
         /\ Below(Append(ls, l), n + 1)
<1> DEFINE ms == Append(ls, l)
<1>1. /\ ms \in Seq(Line)
      /\ Len(ms) = Len(ls) + 1
      /\ \A i \in 1 .. Len(ls) : ms[i] = ls[i]
      /\ ms[Len(ls) + 1] = l
  BY AppendProperties
<1>2. \A i \in 1 .. Len(ls) : Readable(ms[i]) => ms[i].seq < n /\ ms[i].seq \in Nat
  BY <1>1 DEF Below, Line, Event, Torn
<1>3. Readable(l) => l.seq = n
  BY DEF Readable
<1>4. \A i \in DOMAIN ms : i \in 1 .. Len(ls) \/ i = Len(ls) + 1
  BY <1>1
<1> HIDE DEF ms
<1>5. Sorted(ms)
  <2> SUFFICES ASSUME NEW i \in DOMAIN ms, NEW j \in DOMAIN ms,
                      i < j, Readable(ms[i]), Readable(ms[j])
               PROVE  ms[i].seq < ms[j].seq
    BY DEF Sorted
  <2>1. i \in 1 .. Len(ls)
    BY <1>1, <1>4
  <2>2. CASE j \in 1 .. Len(ls)
    BY <1>1, <2>1, <2>2 DEF Sorted
  <2>3. CASE j = Len(ls) + 1
    BY <1>1, <1>2, <1>3, <2>1, <2>3
  <2> QED
    BY <1>4, <2>2, <2>3
<1>6. (l = Torn => Below(ms, n)) /\ Below(ms, n + 1)
  BY <1>1, <1>2, <1>3, <1>4 DEF Below, Readable
<1> QED
  BY <1>5, <1>6 DEF ms

\* The terminated lines are in order when the whole file is.
LEMMA PrefixInOrder ==
  ASSUME NEW ls \in Seq(Line), NEW l \in Line, NEW n \in Nat
  PROVE  /\ Sorted(Append(ls, l)) => Sorted(ls)
         /\ Below(Append(ls, l), n) => Below(ls, n)
<1> DEFINE ms == Append(ls, l)
<1>1. \A i \in DOMAIN ls : i \in DOMAIN ms /\ ms[i] = ls[i]
  BY AppendProperties
<1> HIDE DEF ms
<1>2. Sorted(ms) => Sorted(ls)
  BY <1>1 DEF Sorted
<1>3. Below(ms, n) => Below(ls, n)
  BY <1>1 DEF Below
<1> QED
  BY <1>2, <1>3 DEF ms

\* What OrderInv says of the terminated lines alone.
LEMMA TerminatedInOrder ==
  ASSUME TypeOK, OrderInv
  PROVE  /\ live.lines \in Seq(Line)
         /\ anchor.seq \in Nat
         /\ Sorted(live.lines)
         /\ pc # "down" => Below(live.lines, anchor.seq)
<1>1. live \in File /\ Len(live.tail) <= 1 /\ live.lines \in Seq(Line) /\ anchor.seq \in Nat
  BY DEF TypeOK, File
<1> QED
  BY <1>1, LinesWithTail, PrefixInOrder DEF OrderInv

\* A new tail of at most one line, torn or with the next number.
LEMMA TailInOrder ==
  ASSUME TypeOK, OrderInv, pc # "down", NEW l \in Line,
         l = Torn \/ l.seq = anchor.seq
  PROVE  Sorted(Lines(WithTail(<<l>>)))
<1> DEFINE f == WithTail(<<l>>)
<1>1. f \in File /\ Len(f.tail) = 1 /\ f.tail[1] = l /\ f.lines = live.lines
  <2>1. <<l>> \in Seq(Line) /\ Len(<<l>>) = 1 /\ <<l>>[1] = l
    OBVIOUS
  <2> QED
    BY <2>1, TerminatedInOrder DEF WithTail, File
<1> HIDE DEF f
<1>2. Lines(f) = Append(live.lines, l)
  <2>1. Len(f.tail) <= 1 /\ Len(f.tail) # 0
    BY <1>1
  <2>2. \/ Len(f.tail) = 0 /\ Lines(f) = f.lines
        \/ Len(f.tail) = 1 /\ f.tail[1] \in Line /\ Lines(f) = Append(f.lines, f.tail[1])
    BY <1>1, <2>1, LinesWithTail
  <2> QED
    BY <1>1, <2>1, <2>2
<1> QED
  BY <1>2, TerminatedInOrder, NextLineInOrder DEF f

\* Whatever a write cut short leaves is in order.
LEMMA CutInOrder ==
  ASSUME TypeOK, OrderInv, pc = "idle", NEW t \in Cut(Linked)
  PROVE  Sorted(Lines(WithTail(t)))
<1>1. Linked \in Line /\ Torn \in Line
  BY LinkedIsEvent DEF Line
<1>2. CASE t = live.tail
  <2>1. WithTail(t) = live
    BY <1>2 DEF WithTail, TypeOK, File
  <2> QED
    BY <2>1 DEF OrderInv
<1>3. CASE t = <<Torn>>
  BY <1>1, <1>3, TailInOrder
<1>4. CASE t = <<Linked>>
  <2>1. Linked.seq = anchor.seq
    BY DEF Linked
  <2> QED
    BY <1>1, <1>4, <2>1, TailInOrder
<1> QED
  BY <1>2, <1>3, <1>4 DEF Cut

\* The anchor Open takes is above every readable line.
LEMMA ResumesAbove ==
  ASSUME NEW f, NEW a, Lines(f) \in Seq(Line), Sorted(Lines(f)), ResumesAt(f, a)
  PROVE  Below(Lines(f), a.seq)
<1> DEFINE ls == Lines(f)
<1>1. \A k \in DOMAIN ls : Readable(ls[k]) => ls[k].seq \in Nat /\ ls[k].id \in Nat
  <2>1. \A k \in DOMAIN ls : ls[k] \in Line
    BY DEF Line
  <2> QED
    BY <2>1 DEF Line, Event, Torn
<1>2. CASE \A i \in DOMAIN ls : ~Readable(ls[i])
  BY <1>2 DEF Below
<1>3. ASSUME NEW i \in DOMAIN ls, Readable(ls[i]),
             \A j \in DOMAIN ls : j > i => ~Readable(ls[j]),
             a = After(ls[i])
      PROVE  Below(ls, a.seq)
  <2> SUFFICES ASSUME NEW j \in DOMAIN ls, Readable(ls[j])
               PROVE  ls[j].seq < a.seq
    BY DEF Below
  <2>1. i \in Nat /\ j \in Nat
    OBVIOUS
  <2>2. ~(j > i)
    BY <1>3
  <2>3. j = i \/ j < i
    BY <2>1, <2>2
  <2>4. ls[j].seq <= ls[i].seq
    BY <1>1, <1>3, <2>3 DEF Sorted
  <2>5. a.seq = ls[i].seq + 1
    BY <1>3 DEF After
  <2> QED
    BY <1>1, <1>3, <2>4, <2>5
<1> QED
  BY <1>2, <1>3 DEF ResumesAt

\* A step keeps what is on disk in order.
LEMMA NextOrder == TypeInv /\ OrderInv /\ [Next]_vars => OrderInv'
<1> SUFFICES ASSUME TypeInv, OrderInv, [Next]_vars PROVE OrderInv'
  OBVIOUS
<1> USE DEF TypeInv
<1>0. TypeOK'
  BY NextTypeOK
<1>1. CASE Write
  <2>0. pc = "idle" /\ pc # "down"
    BY <1>1 DEF Write
  <2>1. CASE Lands(Linked)
    <3> DEFINE l == Glued(Linked)
    <3>1. l \in Line /\ (l = Torn \/ l.seq = anchor.seq)
      BY LinkedIsEvent DEF Glued, Linked
    <3>2. Lines(live') = Append(live.lines, l)
      <4>1. live'.lines = Append(live.lines, l) /\ live'.tail = <<>>
        BY <2>1 DEF Lands
      <4>2. live' \in File /\ Len(live'.tail) <= 1
        BY <1>0 DEF TypeOK
      <4>3. Len(live'.tail) = 0
        BY <4>1
      <4> QED
        BY <4>1, <4>2, <4>3, LinesWithTail
    <3>3. live'.lines = Append(live.lines, l) /\ anchor'.seq = anchor.seq + 1
      BY <2>1 DEF Lands, After, Linked
    <3> HIDE DEF l
    <3>4. Sorted(Append(live.lines, l)) /\ Below(Append(live.lines, l), anchor.seq + 1)
      BY <2>0, <3>1, TerminatedInOrder, NextLineInOrder
    <3> QED
      BY <3>2, <3>3, <3>4 DEF OrderInv
  <2>2. CASE FailsShort(Linked) \/ DiesWriting(Linked)
    <3>1. PICK t \in Cut(Linked) : live' = WithTail(t)
      BY <2>2 DEF FailsShort, DiesWriting
    <3>2. Sorted(Lines(live'))
      BY <2>0, <3>1, CutInOrder
    <3>3. anchor' = anchor /\ live'.lines = live.lines
      BY <2>2, <3>1 DEF FailsShort, DiesWriting, WithTail
    <3>4. Below(live.lines, anchor.seq)
      BY <2>0 DEF OrderInv
    <3> QED
      BY <3>2, <3>3, <3>4 DEF OrderInv
  <2> QED
    BY <1>1, <2>1, <2>2 DEF Write
<1>2. CASE Mirror \/ Stop \/ UNCHANGED vars
  <2>1. live' = live /\ anchor' = anchor /\ (pc' # "down" => pc # "down")
    BY <1>2 DEF Mirror, Stop, vars
  <2> QED
    BY <2>1 DEF OrderInv
<1>3. CASE Open
  <2>1. live' \in File /\ Len(live'.tail) <= 1 /\ live' \in File
    BY <1>0 DEF TypeOK
  <2>2. Sorted(Lines(live'))
    <3>1. CASE live' = WithTail(<<>>)
      <4>1. live'.tail = <<>> /\ live'.lines = live.lines
        BY <3>1 DEF WithTail
      <4>2. Len(live'.tail) = 0
        BY <4>1
      <4>3. Lines(live') = live.lines
        BY <2>1, <4>1, <4>2, LinesWithTail
      <4> QED
        BY <4>3, TerminatedInOrder
    <3>2. CASE live' = live
      BY <3>2 DEF OrderInv
    <3> QED
      BY <1>3, <3>1, <3>2 DEF Open, Heal
  <2>3. Lines(live') \in Seq(Line)
    BY <2>1, LinesOfFile
  <2>4. ResumesAt(live', anchor')
    BY <1>3 DEF Open
  <2>5. Below(Lines(live'), anchor'.seq)
    BY <2>2, <2>3, <2>4, ResumesAbove
  <2>6. live'.lines \in Seq(Line) /\ anchor'.seq \in Nat
    BY <1>0 DEF TypeOK, File
  <2>7. Below(live'.lines, anchor'.seq)
    BY <2>1, <2>5, <2>6, LinesWithTail, PrefixInOrder
  <2> QED
    BY <2>2, <2>7 DEF OrderInv
<1>4. CASE Rotate
  <2>1. live' = Empty /\ pc' = "down"
    BY <1>4 DEF Rotate
  <2>2. Lines(Empty) = <<>> \o <<>>
    BY DEF Lines, Empty
  <2>3. <<>> \o <<>> = <<>>
    BY EmptySeq, ConcatEmptySeq
  <2> QED
    BY <2>1, <2>2, <2>3 DEF OrderInv, Sorted
<1> QED
  BY <1>1, <1>2, <1>3, <1>4 DEF Next

\* Sequence numbers grow along the readable lines and none is handed out again
\* while its event can be read.
THEOREM SequenceNeverRestarts == Spec => []ReadableInOrder
<1>1. Init => OrderInv
  <2> SUFFICES ASSUME Init PROVE OrderInv
    OBVIOUS
  <2>1. <<>> \o <<>> = <<>>
    BY EmptySeq, ConcatEmptySeq
  <2>2. Lines(live) = <<>> /\ pc = "down"
    BY <2>1 DEF Init, Empty, Lines
  <2> QED
    BY <2>2 DEF OrderInv, Sorted
<1>2. TypeInv /\ OrderInv => ReadableInOrder
  <2> SUFFICES ASSUME TypeInv, OrderInv PROVE ReadableInOrder
    OBVIOUS
  <2>1. Sorted(live.lines) /\ (pc # "down" => Below(live.lines, anchor.seq))
    BY TerminatedInOrder DEF TypeInv
  <2> QED
    BY <2>1 DEF Sorted, Below, ReadableInOrder
<1> QED
  BY <1>1, <1>2, InitTypeOK, NextTypeOK, NextOrder, PTL DEF Spec

-----------------------------------------------------------------------------
(* Crashes alone never break the live log                                  *)

\* A file without a tail is its terminated lines.
LEMMA LinesWithoutTail ==
  ASSUME NEW f \in File, f.tail = <<>>
  PROVE  Lines(f) = f.lines
<1>1. Len(f.tail) = 0
  OBVIOUS
<1> QED
  BY <1>1, LinesWithTail

\* The next event extends a chain that ends at the anchor.
LEMMA NextEventChains ==
  ASSUME TypeOK, Chained(live.lines), anchor = EndOf(live.lines)
  PROVE  /\ Chained(Append(live.lines, Linked))
         /\ EndOf(Append(live.lines, Linked)) = After(Linked)
<1> DEFINE ls == live.lines  ms == Append(ls, Linked)
<1>1. ls \in Seq(Line) /\ Linked \in Line
  BY LinkedIsEvent DEF TypeOK, File, Line
<1>2. /\ ms \in Seq(Line) /\ Len(ms) = Len(ls) + 1 /\ Len(ls) \in Nat
      /\ \A i \in 1 .. Len(ls) : ms[i] = ls[i]
      /\ ms[Len(ls) + 1] = Linked
  BY <1>1, AppendProperties
<1>3. Readable(Linked)
  BY DEF Readable, Linked, Torn, TypeOK
<1>4. /\ Linked.seq = Len(ls)
      /\ Linked.prev = IF Len(ls) = 0 THEN 0 ELSE ls[Len(ls)].id
  <2>1. Linked.seq = anchor.seq /\ Linked.prev = anchor.prev
    BY DEF Linked
  <2>2. CASE Len(ls) = 0
    BY <2>1, <2>2 DEF EndOf, Genesis
  <2>3. CASE Len(ls) # 0
    <3>1. Len(ls) \in 1 .. Len(ls)
      BY <1>2, <2>3
    <3>2. ls[Len(ls)].seq = Len(ls) - 1
      BY <1>1, <3>1 DEF Chained
    <3>3. anchor.seq = ls[Len(ls)].seq + 1 /\ anchor.prev = ls[Len(ls)].id
      BY <2>3 DEF EndOf, After
    <3> QED
      BY <1>2, <2>1, <2>3, <3>2, <3>3
  <2> QED
    BY <2>2, <2>3
<1>5. \A i \in 1 .. Len(ls) :
        Readable(ls[i]) /\ ls[i].seq = i - 1 /\ ls[i].prev = IF i = 1 THEN 0 ELSE ls[i - 1].id
  BY <1>1, SMTT(30) DEF Chained
<1> HIDE DEF ls, ms
<1>6. Chained(ms)
  <2> SUFFICES ASSUME NEW i \in 1 .. Len(ls) + 1
               PROVE  /\ Readable(ms[i])
                      /\ ms[i].seq = i - 1
                      /\ ms[i].prev = IF i = 1 THEN 0 ELSE ms[i - 1].id
    BY <1>2 DEF Chained
  <2>1. CASE i \in 1 .. Len(ls)
    <3>1. i # 1 => i - 1 \in 1 .. Len(ls)
      BY <1>2, <2>1
    <3>2. ms[i] = ls[i] /\ (i # 1 => ms[i - 1] = ls[i - 1])
      BY <1>2, <2>1, <3>1
    <3> QED
      BY <1>5, <2>1, <3>2
  <2>2. CASE i = Len(ls) + 1
    <3>1. ms[i] = Linked /\ i - 1 = Len(ls) /\ (i = 1 <=> Len(ls) = 0)
      BY <1>2, <2>2
    <3>2. i # 1 => i - 1 \in 1 .. Len(ls)
      BY <1>2, <2>2
    <3>3. i # 1 => ms[i - 1] = ls[i - 1]
      BY <1>2, <3>2
    <3> QED
      BY <1>3, <1>4, <3>1, <3>3
  <2> QED
    BY <1>2, <2>1, <2>2
<1>7. EndOf(ms) = After(Linked)
  BY <1>2 DEF EndOf
<1> QED
  BY <1>6, <1>7 DEF ms, ls

\* Open resumes at the end of a chained file.
LEMMA ResumesAtEnd ==
  ASSUME NEW f, NEW a, Lines(f) \in Seq(Line), Chained(Lines(f)), ResumesAt(f, a)
  PROVE  a = EndOf(Lines(f))
<1> DEFINE ls == Lines(f)
<1>1. \A i \in DOMAIN ls : Readable(ls[i])
  BY DEF Chained
<1>2. CASE \A i \in DOMAIN ls : ~Readable(ls[i])
  <2>1. Len(ls) = 0
    BY <1>1, <1>2
  <2>2. \A i \in DOMAIN ls : FALSE
    BY <1>1, <1>2
  <2> QED
    BY <2>1, <2>2 DEF ResumesAt, EndOf
<1>3. ASSUME NEW i \in DOMAIN ls,
             \A j \in DOMAIN ls : j > i => ~Readable(ls[j]),
             a = After(ls[i])
      PROVE  a = EndOf(ls)
  <2>1. i \in 1 .. Len(ls) /\ Len(ls) \in 1 .. Len(ls)
    OBVIOUS
  <2>2. ~(Len(ls) > i)
    BY <1>1, <1>3, <2>1
  <2>3. i = Len(ls) /\ Len(ls) # 0
    BY <2>1, <2>2
  <2> QED
    BY <1>3, <2>3 DEF EndOf
<1> QED
  BY <1>2, <1>3 DEF ResumesAt

LEMMA NextCrash == TypeInv /\ CrashInv /\ [Next]_vars => CrashInv'
<1> SUFFICES ASSUME TypeInv, CrashInv, [Next]_vars, faults' = 0
             PROVE  /\ Chained(live.lines)'
                    /\ pc' # "down" => live'.tail = <<>> /\ anchor' = EndOf(live'.lines)
  BY DEF CrashInv
<1> USE DEF TypeInv
<1>0. faults = 0 /\ faults \in Nat
  <2>1. faults \in Nat /\ (faults' = faults \/ faults' = faults + 1)
    BY DEF TypeOK, Next, vars, Write, Lands, FailsShort, DiesWriting, Mirror, Stop, Open, Heal, Rotate
  <2> QED
    BY <2>1
<1>1. Chained(live.lines) /\ (pc # "down" => live.tail = <<>> /\ anchor = EndOf(live.lines))
  BY <1>0 DEF CrashInv
<1>2. live' \in File
  BY NextTypeOK DEF TypeOK
<1>3. CASE Write
  <2>1. CASE Lands(Linked)
    <3>1. live.tail = <<>> /\ anchor = EndOf(live.lines)
      BY <1>1, <1>3 DEF Write
    <3>2. live'.lines = Append(live.lines, Linked) /\ live'.tail = <<>> /\ anchor' = After(Linked)
      BY <2>1, <3>1 DEF Lands, Glued
    <3> QED
      BY <1>1, <3>1, <3>2, NextEventChains
  <2>2. CASE FailsShort(Linked)
    BY <1>0, <2>2 DEF FailsShort
  <2>3. CASE DiesWriting(Linked)
    <3>1. live'.lines = live.lines /\ pc' = "down"
      BY <2>3 DEF DiesWriting, WithTail
    <3> QED
      BY <1>1, <3>1
  <2> QED
    BY <1>3, <2>1, <2>2, <2>3 DEF Write
<1>4. CASE Mirror \/ Stop \/ UNCHANGED vars
  <2>1. live' = live /\ anchor' = anchor /\ (pc' # "down" => pc # "down")
    BY <1>4 DEF Mirror, Stop, vars
  <2> QED
    BY <1>1, <2>1
<1>5. CASE Open
  <2>1. live'.lines = live.lines /\ live'.tail = <<>>
    BY <1>0, <1>5 DEF Open, Heal, WithTail
  <2>2. Lines(live') = live'.lines /\ Lines(live') \in Seq(Line)
    BY <1>2, <2>1, LinesWithoutTail, LinesOfFile
  <2>3. Chained(Lines(live'))
    BY <1>1, <2>1, <2>2
  <2>4. ResumesAt(live', anchor')
    BY <1>5 DEF Open
  <2>5. anchor' = EndOf(Lines(live'))
    BY <2>2, <2>3, <2>4, ResumesAtEnd
  <2> QED
    BY <1>1, <2>1, <2>2, <2>5
<1>6. CASE Rotate
  <2>1. live'.lines = <<>> /\ pc' = "down"
    BY <1>6 DEF Rotate, Empty
  <2> QED
    BY <2>1 DEF Chained
<1> QED
  BY <1>3, <1>4, <1>5, <1>6 DEF Next

\* As long as no call failed, an open log verifies, however often the process
\* died in the middle of an append.
THEOREM CrashesNeverBreakTheLog == Spec => []LiveVerifies
<1>1. Init => CrashInv
  BY DEF Init, CrashInv, Empty, Chained
<1>2. TypeInv /\ CrashInv => LiveVerifies
  <2> SUFFICES ASSUME TypeInv, CrashInv, pc # "down", faults = 0 PROVE Verify(live)
    BY DEF LiveVerifies
  <2>1. live \in File /\ live.tail = <<>> /\ Chained(live.lines)
    BY DEF CrashInv, TypeInv, TypeOK
  <2> QED
    BY <2>1, LinesWithoutTail DEF Verify
<1> QED
  BY <1>1, <1>2, InitTypeOK, NextTypeOK, NextCrash, PTL DEF Spec

-----------------------------------------------------------------------------
(* Append-only                                                             *)

\* Terminated lines are never changed or dropped.
THEOREM HistoryIsAppendOnly == Spec => AppendOnly
<1> DEFINE Untouched ==
      \/ /\ rotated' = rotated
         /\ Len(live.lines) <= Len(live'.lines)
         /\ SubSeq(live'.lines, 1, Len(live.lines)) = live.lines
      \/ /\ Len(rotated') = Len(rotated) + 1
         /\ SubSeq(rotated', 2, Len(rotated')) = rotated
         /\ rotated'[1].file.lines = live.lines
<1>1. TypeInv /\ [Next]_vars => [Untouched]_vars
  <2> SUFFICES ASSUME TypeInv, Next PROVE Untouched
    OBVIOUS
  <2> DEFINE ls == live.lines
  <2>1. ls \in Seq(Line) /\ Len(ls) \in Nat
    BY DEF TypeInv, TypeOK, File
  <2>2. SubSeq(ls, 1, Len(ls)) = ls
    BY <2>1
  <2>3. CASE live'.lines = ls /\ rotated' = rotated
    BY <2>1, <2>2, <2>3
  <2>4. CASE Write /\ Lands(Linked)
    <3> DEFINE l == Glued(Linked)
    <3>1. live'.lines = Append(ls, l) /\ rotated' = rotated
      BY <2>4 DEF Write, Lands
    <3>2. l \in Line
      BY LinkedIsEvent DEF TypeInv
    <3> HIDE DEF l, ls
    <3>3. Append(ls, l) \in Seq(Line) /\ Len(Append(ls, l)) = Len(ls) + 1
          /\ \A i \in 1 .. Len(ls) : Append(ls, l)[i] = ls[i]
      BY <2>1, <3>2, AppendProperties
    <3>4. SubSeq(Append(ls, l), 1, Len(ls)) = ls
      BY <2>1, <3>2, <3>3
    <3> QED
      BY <2>1, <3>1, <3>3, <3>4 DEF ls
  <2>5. CASE Rotate
    <3> DEFINE new == [file |-> live, landed |-> landed]
               Generation == [file : File, landed : Seq(Event)]
    <3>1. rotated' = <<new>> \o rotated /\ new.file.lines = live.lines
      BY <2>5 DEF Rotate
    <3>2. new \in Generation /\ rotated \in Seq(Generation)
      BY DEF TypeInv, TypeOK
    <3> HIDE DEF new, Generation
    <3>3. /\ Len(<<new>> \o rotated) = Len(rotated) + 1
          /\ (<<new>> \o rotated)[1] = new
          /\ SubSeq(<<new>> \o rotated, 2, Len(<<new>> \o rotated)) = rotated
      BY <3>2
    <3> QED
      BY <3>1, <3>3
  <2>6. Next => \/ live'.lines = ls /\ rotated' = rotated
                \/ Write /\ Lands(Linked)
                \/ Rotate
    BY DEF Next, Write, FailsShort, DiesWriting, WithTail, Mirror, Stop, Open, Heal
  <2> QED
    BY <2>3, <2>4, <2>5, <2>6
<1>2. TypeInv /\ [Next]_vars => TypeInv'
  BY NextTypeOK
<1> QED
  BY <1>1, <1>2, InitTypeOK, PTL DEF Spec, AppendOnly

-----------------------------------------------------------------------------
(* The second backing                                                      *)

\* x is a line of the live file l or of a generation of r.
IsLine(x, l, r) ==
  \/ \E i \in DOMAIN l.lines : l.lines[i] = x
  \/ \E g \in DOMAIN r : \E i \in DOMAIN r[g].file.lines : r[g].file.lines[i] = x

\* No step takes a line away from the files.
LEMMA FilesKeepLines ==
  ASSUME TypeInv, [Next]_vars
  PROVE  \A x : IsLine(x, live, rotated) => IsLine(x, live', rotated')
<1>1. CASE live'.lines = live.lines /\ rotated' = rotated
  BY <1>1 DEF IsLine
<1>2. CASE Write /\ Lands(Linked)
  <2> DEFINE l == Glued(Linked)  ls == live.lines
  <2>1. live'.lines = Append(ls, l) /\ rotated' = rotated
    BY <1>2 DEF Write, Lands
  <2>2. l \in Line /\ ls \in Seq(Line)
    BY LinkedIsEvent DEF TypeInv, TypeOK, File, Glued, Line
  <2> HIDE DEF l
  <2>3. \A i \in DOMAIN ls : i \in DOMAIN live'.lines /\ live'.lines[i] = ls[i]
    BY <2>1, <2>2, AppendProperties
  <2> QED
    BY <2>1, <2>3 DEF IsLine
<1>3. CASE Rotate
  <2> DEFINE new == [file |-> live, landed |-> landed]
             Generation == [file : File, landed : Seq(Event)]
  <2>1. rotated' = <<new>> \o rotated /\ new.file.lines = live.lines
    BY <1>3 DEF Rotate
  <2>2. new \in Generation /\ rotated \in Seq(Generation)
    BY DEF TypeInv, TypeOK
  <2> HIDE DEF new, Generation
  <2>3. /\ 1 \in DOMAIN rotated' /\ rotated'[1] = new
        /\ \A g \in DOMAIN rotated : g + 1 \in DOMAIN rotated' /\ rotated'[g + 1] = rotated[g]
    BY <2>1, <2>2
  <2>4. ASSUME NEW x, \E i \in DOMAIN live.lines : live.lines[i] = x
        PROVE  IsLine(x, live', rotated')
    BY <2>1, <2>3, <2>4 DEF IsLine
  <2>5. ASSUME NEW x, NEW g \in DOMAIN rotated,
               \E i \in DOMAIN rotated[g].file.lines : rotated[g].file.lines[i] = x
        PROVE  IsLine(x, live', rotated')
    <3>1. g + 1 \in DOMAIN rotated' /\ rotated'[g + 1] = rotated[g]
      BY <2>3
    <3> QED
      BY <2>5, <3>1 DEF IsLine
  <2> QED
    BY <2>4, <2>5 DEF IsLine
<1>4. CASE UNCHANGED vars
  BY <1>1, <1>4 DEF vars
<1>5. CASE Write /\ (FailsShort(Linked) \/ DiesWriting(Linked))
  BY <1>1, <1>5 DEF Write, FailsShort, DiesWriting, WithTail
<1>6. CASE Mirror \/ Stop
  BY <1>1, <1>6 DEF Mirror, Stop
<1>7. CASE Open
  BY <1>1, <1>7 DEF Open, Heal, WithTail
<1> QED
  BY <1>2, <1>3, <1>4, <1>5, <1>6, <1>7 DEF Next, Write

LEMMA NextMirror ==
  TypeInv /\ LandedInv /\ CrashInv /\ MirrorNeverLeads /\ [Next]_vars
    => MirrorNeverLeads'
<1> SUFFICES ASSUME TypeInv, LandedInv, CrashInv, MirrorNeverLeads, [Next]_vars,
                    faults' = 0
             PROVE  MirrorIsReadable'
  BY DEF MirrorNeverLeads
<1>1. faults = 0 /\ MirrorIsReadable
  <2>1. faults \in Nat /\ (faults' = faults \/ faults' = faults + 1)
    BY DEF TypeInv, TypeOK, Next, vars, Write, Lands, FailsShort, DiesWriting,
           Mirror, Stop, Open, Heal, Rotate
  <2> QED
    BY <2>1 DEF MirrorNeverLeads
<1>2. \A r \in DOMAIN mirror : IsLine(mirror[r], live', rotated')
  <2>1. \A r \in DOMAIN mirror : IsLine(mirror[r], live, rotated)
    BY <1>1 DEF MirrorIsReadable, IsLine
  <2> QED
    BY <2>1, FilesKeepLines
<1>3. CASE mirror' = mirror
  BY <1>2, <1>3 DEF MirrorIsReadable, IsLine
<1>4. CASE pc = "mirror" /\ mirror' = Append(mirror, landed[Len(landed)])
            /\ live' = live /\ rotated' = rotated
  <2> DEFINE e == landed[Len(landed)]
  <2>1. landed = live.lines
    <3>1. Chained(live.lines)
      BY <1>1 DEF CrashInv
    <3> QED
      BY <3>1 DEF Chained, LandedInv, CleanIsLanded
  <2>2. Len(landed) \in DOMAIN landed /\ landed \in Seq(Event)
    BY <1>4 DEF TypeInv, TypeOK
  <2>3. IsLine(e, live', rotated')
    BY <1>4, <2>1, <2>2 DEF IsLine
  <2>4. e \in Event /\ mirror \in Seq(Event) /\ mirror' = Append(mirror, e)
    BY <1>4, <2>2 DEF TypeInv, TypeOK
  <2> HIDE DEF e
  <2>5. \A r \in DOMAIN mirror' :
          mirror'[r] = e \/ (r \in DOMAIN mirror /\ mirror'[r] = mirror[r])
    BY <2>4
  <2>6. \A r \in DOMAIN mirror' : IsLine(mirror'[r], live', rotated')
    BY <1>2, <2>3, <2>5
  <2> QED
    BY <2>6 DEF MirrorIsReadable, IsLine
<1>5. \/ mirror' = mirror
      \/ pc = "mirror" /\ mirror' = Append(mirror, landed[Len(landed)])
         /\ live' = live /\ rotated' = rotated
  BY DEF Next, vars, TypeInv, TypeOK, Write, Mirror, Stop, Open, Rotate
<1> QED
  BY <1>3, <1>4, <1>5

\* Without failing calls the store never holds an event the files do not
\* (MirrorNeverLeads: the insert follows the write).
THEOREM MirrorFollowsTheLog == Spec => []MirrorNeverLeads
<1>1. Init => LandedInv /\ CrashInv /\ MirrorNeverLeads
  BY DEF Init, Empty, LandedInv, CleanIsLanded, CrashInv, Chained,
         MirrorNeverLeads, MirrorIsReadable
<1>2. TypeInv /\ LandedInv /\ CrashInv /\ MirrorNeverLeads /\ [Next]_vars
        => (TypeInv /\ LandedInv /\ CrashInv /\ MirrorNeverLeads)'
  BY NextTypeOK, NextLanded, NextCrash, NextMirror
<1> QED
  BY <1>1, <1>2, InitTypeOK, PTL DEF Spec

\* Without failing calls, crashes leave the open log whole and the store behind it
\* (CrashesLoseNothing).
THEOREM CrashesAreHarmless == Spec => []CrashesLoseNothing
<1>1. LiveVerifies /\ MirrorNeverLeads => CrashesLoseNothing
  BY DEF CrashesLoseNothing
<1> QED
  BY <1>1, CrashesNeverBreakTheLog, MirrorFollowsTheLog, PTL

-----------------------------------------------------------------------------
(* Naps: where a drive, the waker and the process stand, and what that says *)
(* of the rows, the refs and the timer.                                     *)

\* The numbers of the drives: each process uses up at most two for each of the ids, one for
\* a re-drive and one for a drive of its own.
Numbers ==
  /\ phase = "down" => todo = {} /\ drive = None /\ born <= 2 * MaxSeq * boots
  /\ phase # "down" => born + Cardinality(todo) + (MaxSeq - seq) <= 2 * MaxSeq * boots

\* An arming whose delivery has been settled in the store.
Spent(n) == wakeRow.arm > n \/ (wakeRow.arm = n /\ wakeRow.status = "wake_done")

\* The waker delivers an arming it has read, that was not delivered, and only once the store
\* says so.
TimerInv ==
  /\ \A n \in 1 .. MaxArms : fired[n] <= 1 /\ (fired[n] # 0 => Spent(n))
  /\ waker.pc # "idle" =>
       phase = "serve" /\ waker.arm \in 1 .. wakeRow.arm /\ fired[waker.arm] = 0
  /\ waker.pc = "fire" => Spent(waker.arm)
  /\ wakeRow.status = "wake" => wakeRow.arm >= 1

\* A drive that is being cleaned up has settled its row, unless it was cancelled or the write
\* failed, and a row that says it runs has a drive or waits for its re-drive, unless again.
FlightInv ==
  /\ drive # None /\ drive.pc = "clean" =>
       drive.id \notin InFlight(rows) \/ drive.id \in cancelled \union stale
  /\ phase # "down" =>
       \A i \in InFlight(rows) :
         \/ i \in cancelled \union stale
         \/ drive # None /\ drive.id = i
         \/ phase = "resume" /\ i \in todo

\* A drive past its begin has a row that says it runs, a predecessor that is another task and
\* is retired before its ref goes, and, once pinned, its commits under its own ref. Either row
\* may be one that a failed write left as it was.
DriveInv ==
  drive # None =>
    /\ drive.pc \notin {"begin", "clean", "report"} =>
         rows[drive.id].status = "running" \/ drive.id \in stale
    /\ drive.pc \in {"create", "retire", "unpin"} => drive.from # drive.id
    /\ drive.pc \in {"retire", "unpin"} => drive.from \in Ids
    /\ drive.pc = "unpin" => rows[drive.from].status = "failed" \/ drive.from \in stale
    /\ drive.pc = "pinned" => anchors[drive.id] = drive.head
    /\ drive.pc \in {"begin", "lookup"} => drive.from = None

NapInv ==
  NapTypeOK /\ Numbers /\ TimerInv /\ FlightInv /\ DriveInv /\ SleeperKeepsItsAnchor

Steps == {"begin", "lookup", "create", "retire", "unpin", "work", "armed", "pin", "pinned",
          "unpinned", "clean", "report"}

\* A set of ids that is not empty has a greatest one.
LEMMA MaxOfIds ==
  ASSUME NEW S \in SUBSET Ids, S # {}
  PROVE  Max(S) \in S
<1> DEFINE T == {MaxSeq - x : x \in S}
<1>0. MaxSeq \in Nat /\ \A x \in S : x \in Nat /\ MaxSeq - x \in Nat
  BY NapAssumption DEF Ids
<1>1. T \in SUBSET Nat /\ T # {}
  BY <1>0
<1>2. PICK t \in T : \A u \in T : ~(<<u, t>> \in OpToRel(<, Nat))
  BY <1>1, WFMin, NatLessThanWellFounded, Zenon
<1>3. \A u \in T : u \in Nat /\ t \in Nat /\ ~(u < t)
  BY <1>1, <1>2 DEF OpToRel
<1>4. PICK x \in S : t = MaxSeq - x
  OBVIOUS
<1>5. ASSUME NEW y \in S PROVE x >= y
  <2>1. MaxSeq - y \in T
    OBVIOUS
  <2>2. ~(MaxSeq - y < MaxSeq - x)
    BY <1>3, <1>4, <2>1
  <2> QED
    BY <1>0, <2>2
<1> QED
  BY <1>5 DEF Max

\* A predecessor is another task.
LEMMA ResumeBranchIsAnother ==
  ASSUME NEW i \in Ids
  PROVE  ResumeBranch(i) \in Ids \union {None} /\ ResumeBranch(i) # i
<1>1. CASE Sleepers \ {i} = {}
  BY <1>1, NapAssumption DEF ResumeBranch
<1>2. CASE Sleepers \ {i} # {}
  <2>1. Max(Sleepers \ {i}) \in Sleepers \ {i}
    BY <1>2, MaxOfIds DEF Sleepers
  <2> QED
    BY <1>2, <2>1 DEF ResumeBranch, Sleepers
<1> QED
  BY <1>1, <1>2

\* Moving a drive on changes where it stands and nothing else of it.
LEMMA GotoMoves ==
  ASSUME drive \in Drives, NEW l \in Steps, Goto(l)
  PROVE  /\ drive' \in Drives /\ drive' # None /\ drive'.pc = l
         /\ drive'.id = drive.id /\ drive'.own = drive.own
         /\ drive'.from = drive.from /\ drive'.head = drive.head
BY NapAssumption DEF Goto, Drives, Steps

\* A failure is counted, within the bound.
LEMMA FaultCounts ==
  ASSUME failures \in 0 .. MaxFailures, Fault
  PROVE  failures' \in 0 .. MaxFailures
BY NapAssumption DEF Fault

\* A write replaces that row and no other, or leaves it as it was and marked as such.
LEMMA PutsReplaces ==
  ASSUME NapTypeOK, NEW i \in Ids, NEW row \in TaskRows, Puts(i, row)
  PROVE  /\ rows' \in [Ids -> TaskRows] /\ rows'[i] = row /\ i \notin stale'
         /\ stale' \subseteq Ids /\ failures' = failures
         /\ \A j \in Ids : j # i => rows'[j] = rows[j] /\ (j \in stale' <=> j \in stale)
BY DEF Puts, NapTypeOK

LEMMA DropsLeaves ==
  ASSUME NapTypeOK, NEW i \in Ids, Drops(i)
  PROVE  /\ rows' = rows /\ i \in stale' /\ stale \subseteq stale'
         /\ stale' \subseteq Ids /\ failures' \in 0 .. MaxFailures
         /\ \A j \in Ids : j # i => (j \in stale' <=> j \in stale)
BY FaultCounts DEF Drops, NapTypeOK

LEMMA RecordReplaces ==
  ASSUME NapTypeOK, NEW i \in Ids, NEW s \in {"running", "done", "failed"}, Record(i, s)
  PROVE  /\ rows' \in [Ids -> TaskRows] /\ stale' \subseteq Ids
         /\ failures' \in 0 .. MaxFailures
         /\ \/ rows'[i].status = s /\ ~rows'[i].named /\ i \notin stale'
            \/ rows'[i] = rows[i] /\ i \in stale'
         /\ \A j \in Ids : j # i => rows'[j] = rows[j] /\ (j \in stale' <=> j \in stale)
<1> DEFINE row == [status |-> s, named |-> FALSE]
<1>1. row \in TaskRows /\ row.status = s /\ ~row.named
  BY DEF TaskRows
<1>2. Puts(i, row) \/ Drops(i)
  BY DEF Record
<1> HIDE DEF row
<1>3. CASE Puts(i, row)
  BY <1>1, <1>3, PutsReplaces DEF NapTypeOK
<1>4. CASE Drops(i)
  BY <1>4, DropsLeaves DEF NapTypeOK
<1> QED
  BY <1>2, <1>3, <1>4

\* A drive has a number that none had before it, and there is always one left.
LEMMA LaunchStarts ==
  ASSUME NapTypeOK, NEW i \in Ids, Launch(i), born < 2 * MaxSeq * boots
  PROVE  /\ drive' \in Drives /\ drive' # None /\ drive'.id = i /\ drive'.pc = "begin"
         /\ drive'.from = None /\ born' \in Nat /\ born' = born + 1
<1> DEFINE new == [pc |-> "begin", id |-> i, own |-> born + 1, from |-> None, head |-> {}]
<1>1. MaxSeq \in Nat /\ MaxBoots \in Nat /\ boots \in Nat /\ boots <= MaxBoots /\ born \in Nat
  BY NapAssumption DEF NapTypeOK
<1>2. MaxSeq * boots <= MaxSeq * MaxBoots /\ MaxSeq * boots \in Nat /\ MaxSeq * MaxBoots \in Nat
  BY <1>1
<1>3. born + 1 \in Lots
  BY <1>1, <1>2 DEF Lots
<1>4. new \in Drives
  BY <1>3 DEF Drives
<1>5. drive' = new /\ born' = born + 1
  BY DEF Launch
<1> QED
  BY <1>1, <1>4, <1>5, NapAssumption, SMTT(30)

LEMMA InitNap == NapInit => NapInv
<1> SUFFICES ASSUME NapInit PROVE NapInv
  OBVIOUS
<1>1. /\ NoRow \in TaskRows /\ IdleWaker \in Wakers
      /\ [status |-> "none", arm |-> 0, due |-> FALSE] \in WakeRows
      /\ 0 \in 0 .. MaxBoots /\ 0 \in 0 .. MaxSeq /\ 0 \in 0 .. MaxFailures
  BY NapAssumption DEF NoRow, TaskRows, IdleWaker, Wakers, WakeRows
<1>2. NapTypeOK
  BY <1>1 DEF NapInit, NapTypeOK
<1>3. Numbers
  BY NapAssumption DEF NapInit, Numbers
<1>4. TimerInv
  BY DEF NapInit, TimerInv, IdleWaker
<1>5. FlightInv /\ DriveInv
  BY DEF NapInit, FlightInv, DriveInv
<1>6. SleeperKeepsItsAnchor
  BY DEF NapInit, SleeperKeepsItsAnchor, Sleepers, NoRow
<1> QED
  BY <1>2, <1>3, <1>4, <1>5, <1>6 DEF NapInv

-----------------------------------------------------------------------------
(* ... the steps of a drive.                                                *)

\* What a drive's step leaves alone outside of its rows, refs and record keeps these.
LEMMA StandsStill ==
  ASSUME NapInv, UNCHANGED <<process, born, timer, drive = None>>
  PROVE  Numbers' /\ TimerInv'
BY DEF NapInv, Numbers, TimerInv, Spent, process, timer

\* ... and so does the end of one.
LEMMA NeverDown ==
  ASSUME NapInv, drive # None, UNCHANGED <<process, born, timer>>
  PROVE  Numbers' /\ TimerInv'
<1>1. phase # "down"
  BY DEF NapInv, Numbers
<1> QED
  BY <1>1 DEF NapInv, Numbers, TimerInv, Spent, process, timer

LEMMA BeginKeeps ==
  ASSUME NapInv, Begin
  PROVE  NapInv'
<1>0. /\ NapTypeOK /\ drive \in Drives /\ drive # None /\ drive.pc = "begin" /\ drive.id \in Ids
      /\ UNCHANGED <<process, born, work, timer, napped, slept, capped>>
      /\ cancelled' = cancelled \ {drive.id} /\ drive.from = None
  BY DEF Begin, At, NapInv, NapTypeOK, Drives, DriveInv
<1>1. /\ rows' \in [Ids -> TaskRows] /\ stale' \subseteq Ids /\ failures' \in 0 .. MaxFailures
      /\ \/ rows'[drive.id].status = "running" /\ drive.id \notin stale'
         \/ rows'[drive.id] = rows[drive.id] /\ drive.id \in stale'
      /\ \A j \in Ids : j # drive.id => rows'[j] = rows[j] /\ (j \in stale' <=> j \in stale)
  BY <1>0, RecordReplaces DEF Begin
<1>2. /\ drive' \in Drives /\ drive' # None /\ drive'.pc = "lookup" /\ drive'.id = drive.id
      /\ drive'.from = None
  BY <1>0, GotoMoves DEF Begin, Steps
<1>3. NapTypeOK'
  BY <1>0, <1>1, <1>2 DEF NapTypeOK, process, work, timer
<1>4. FlightInv'
  BY <1>0, <1>1, <1>2 DEF NapInv, FlightInv, InFlight, process
<1>5. DriveInv'
  BY <1>0, <1>1, <1>2 DEF DriveInv
<1>6. SleeperKeepsItsAnchor'
  BY <1>0, <1>1 DEF NapInv, SleeperKeepsItsAnchor, Sleepers, work
<1>7. Numbers' /\ TimerInv'
  BY <1>0, <1>2, StandsStill
<1> QED
  BY <1>3, <1>4, <1>5, <1>6, <1>7 DEF NapInv

LEMMA LookupKeeps ==
  ASSUME NapInv, Lookup
  PROVE  NapInv'
<1>0. /\ NapTypeOK /\ drive \in Drives /\ drive # None /\ drive.pc = "lookup" /\ drive.id \in Ids
      /\ UNCHANGED <<process, born, rows, work, timer, history>>
      /\ drive.from = None
      /\ rows[drive.id].status = "running" \/ drive.id \in stale
  BY DEF Lookup, At, NapInv, NapTypeOK, Drives, DriveInv
<1>1. failures' \in 0 .. MaxFailures
  BY <1>0, FaultCounts DEF Lookup, NapTypeOK
<1>2. /\ drive' \in Drives /\ drive' # None /\ drive'.pc = "create" /\ drive'.id = drive.id
      /\ drive'.from # drive.id
  <2>1. CASE Goto("create")
    BY <1>0, <2>1, GotoMoves, NapAssumption DEF Steps
  <2>2. CASE drive' = [drive EXCEPT !.from = ResumeBranch(drive.id), !.pc = "create"]
    <3> DEFINE from == ResumeBranch(drive.id)
               next == [drive EXCEPT !.from = from, !.pc = "create"]
    <3>1. from \in Ids \union {None} /\ from # drive.id
      BY <1>0, ResumeBranchIsAnother
    <3>2. drive' = next
      BY <2>2
    <3> HIDE DEF from
    <3>3. next \in Drives /\ next.pc = "create" /\ next.id = drive.id /\ next.from = from
      BY <1>0, <3>1 DEF Drives
    <3> QED
      BY <3>1, <3>2, <3>3, NapAssumption
  <2> QED
    BY <2>1, <2>2 DEF Lookup
<1>3. NapTypeOK'
  BY <1>0, <1>1, <1>2 DEF NapTypeOK, process, work, timer, history
<1>4. FlightInv' /\ DriveInv'
  BY <1>0, <1>2 DEF NapInv, FlightInv, DriveInv, InFlight, process, history
<1>5. SleeperKeepsItsAnchor'
  BY <1>0 DEF NapInv, SleeperKeepsItsAnchor, Sleepers, work, history
<1>6. Numbers' /\ TimerInv'
  BY <1>0, <1>2, StandsStill
<1> QED
  BY <1>3, <1>4, <1>5, <1>6 DEF NapInv

LEMMA ReattachKeeps ==
  ASSUME NapInv, Reattach
  PROVE  NapInv'
<1>0. /\ NapTypeOK /\ drive \in Drives /\ drive # None /\ drive.pc = "create" /\ drive.id \in Ids
      /\ UNCHANGED <<process, born, rows, anchors, timer, failures, napped, capped, cancelled,
                     stale>>
      /\ rows[drive.id].status = "running" \/ drive.id \in stale
      /\ drive.from # drive.id
  BY DEF Reattach, At, NapInv, NapTypeOK, DriveInv, Drives
<1>1. drive.from \in Ids /\ anchors[drive.from] \in SUBSET Lots
  BY <1>0 DEF Reattach, CanReattach, Drives, NapTypeOK
<1>2. /\ drive' \in Drives /\ drive' # None /\ drive'.pc = "retire" /\ drive'.id = drive.id
      /\ drive'.from = drive.from
  <2> DEFINE head == anchors[drive.from]
             next == [drive EXCEPT !.head = head, !.pc = "retire"]
  <2>1. drive' = next
    BY DEF Reattach
  <2> HIDE DEF head
  <2>2. head \in SUBSET Lots
    BY <1>1 DEF head
  <2>3. next \in Drives /\ next.pc = "retire" /\ next.id = drive.id /\ next.from = drive.from
    BY <1>0, <2>2 DEF Drives
  <2> QED
    BY <2>1, <2>3, NapAssumption
<1>3. /\ branches' \in [Ids -> {None} \union SUBSET Lots] /\ slept' \subseteq Lots
  BY <1>0, <1>1 DEF Reattach, NapTypeOK
<1>4. NapTypeOK'
  BY <1>0, <1>2, <1>3 DEF NapTypeOK, process, timer
<1>5. FlightInv' /\ DriveInv'
  BY <1>0, <1>1, <1>2 DEF NapInv, FlightInv, DriveInv, InFlight, process
<1>6. SleeperKeepsItsAnchor'
  BY <1>0 DEF NapInv, SleeperKeepsItsAnchor, Sleepers
<1>7. Numbers' /\ TimerInv'
  BY <1>0, <1>2, StandsStill
<1> QED
  BY <1>4, <1>5, <1>6, <1>7 DEF NapInv

LEMMA RetireKeeps ==
  ASSUME NapInv, Retire
  PROVE  NapInv'
<1>0. /\ NapTypeOK /\ drive \in Drives /\ drive # None /\ drive.pc \in {"retire", "unpin"}
      /\ drive.id \in Ids /\ drive.from \in Ids /\ drive.from # drive.id
      /\ UNCHANGED <<process, born, branches, timer, napped, slept, capped, cancelled>>
      /\ rows[drive.id].status = "running" \/ drive.id \in stale
  BY DEF Retire, At, NapInv, NapTypeOK, DriveInv, Drives
<1>1. CASE drive.pc = "retire"
  <2>1. Record(drive.from, "failed") /\ UNCHANGED anchors /\ Goto("unpin")
    BY <1>1 DEF Retire, At, RetireStep, RetireOrder
  <2>2. /\ rows' \in [Ids -> TaskRows] /\ stale' \subseteq Ids /\ failures' \in 0 .. MaxFailures
        /\ \/ rows'[drive.from].status = "failed" /\ drive.from \notin stale'
           \/ rows'[drive.from] = rows[drive.from] /\ drive.from \in stale'
        /\ \A j \in Ids : j # drive.from => rows'[j] = rows[j] /\ (j \in stale' <=> j \in stale)
    BY <1>0, <2>1, RecordReplaces
  <2>3. /\ drive' \in Drives /\ drive' # None /\ drive'.pc = "unpin" /\ drive'.id = drive.id
        /\ drive'.from = drive.from
    BY <1>0, <2>1, GotoMoves DEF Steps
  <2>4. NapTypeOK'
    BY <1>0, <2>1, <2>2, <2>3 DEF NapTypeOK, process, timer
  <2>5. FlightInv' /\ DriveInv'
    BY <1>0, <2>2, <2>3 DEF NapInv, FlightInv, DriveInv, InFlight, process
  <2>6. SleeperKeepsItsAnchor'
    BY <1>0, <2>1, <2>2 DEF NapInv, SleeperKeepsItsAnchor, Sleepers
  <2>7. Numbers' /\ TimerInv'
    BY <1>0, <2>3, StandsStill
  <2> QED
    BY <2>4, <2>5, <2>6, <2>7 DEF NapInv
<1>2. CASE drive.pc = "unpin"
  <2>1. /\ UNCHANGED <<rows, stale>> /\ Goto("work")
        /\ anchors' = [anchors EXCEPT ![drive.from] = None] \/ anchors' = anchors
        /\ failures' \in 0 .. MaxFailures
    BY <1>0, <1>2, FaultCounts DEF Retire, At, RetireStep, RetireOrder, NapTypeOK
  <2>2. rows[drive.from].status = "failed" \/ drive.from \in stale
    BY <1>0, <1>2 DEF NapInv, DriveInv
  <2>3. /\ drive' \in Drives /\ drive' # None /\ drive'.pc = "work" /\ drive'.id = drive.id
    BY <1>0, <2>1, GotoMoves DEF Steps
  <2>4. /\ anchors' \in [Ids -> {None} \union SUBSET Lots]
        /\ \A j \in Ids : j # drive.from => anchors'[j] = anchors[j]
    BY <1>0, <2>1 DEF NapTypeOK
  <2>5. NapTypeOK'
    BY <1>0, <2>1, <2>3, <2>4 DEF NapTypeOK, process, timer
  <2>6. FlightInv' /\ DriveInv'
    BY <1>0, <2>1, <2>3 DEF NapInv, FlightInv, DriveInv, InFlight, process
  <2>7. SleeperKeepsItsAnchor'
    BY <1>0, <2>1, <2>2, <2>4 DEF NapInv, SleeperKeepsItsAnchor, Sleepers
  <2>8. Numbers' /\ TimerInv'
    BY <1>0, <2>3, StandsStill
  <2> QED
    BY <2>5, <2>6, <2>7, <2>8 DEF NapInv
<1> QED
  BY <1>0, <1>1, <1>2

\* A drive that returns is over, or waits for Resume's record of it.
LEMMA ReturnMoves ==
  ASSUME NapTypeOK, drive \in Drives, Return
  PROVE  /\ drive' \in {None} \union Drives
         /\ drive' # None => drive'.pc = "report" /\ drive'.id = drive.id
         /\ phase = "resume" => drive' # None
<1>1. CASE phase = "resume"
  BY <1>1, GotoMoves DEF Return, Goto, Steps
<1>2. CASE phase # "resume"
  BY <1>2 DEF Return
<1> QED
  BY <1>1, <1>2

LEMMA FreshKeeps ==
  ASSUME NapInv, Fresh
  PROVE  NapInv'
<1>0. /\ NapTypeOK /\ drive \in Drives /\ drive # None /\ drive.pc = "create" /\ drive.id \in Ids
      /\ UNCHANGED <<process, born, anchors, timer, napped, slept, capped, cancelled>>
      /\ rows[drive.id].status = "running" \/ drive.id \in stale
  BY DEF Fresh, At, NapInv, NapTypeOK, DriveInv, Drives
<1>1. CASE branches[drive.id] = None
  <2>1. /\ branches' = [branches EXCEPT ![drive.id] = {}] /\ Goto("work")
        /\ UNCHANGED <<rows, failures, stale>>
    BY <1>1 DEF Fresh
  <2>2. drive' \in Drives /\ drive' # None /\ drive'.pc = "work" /\ drive'.id = drive.id
    BY <1>0, <2>1, GotoMoves DEF Steps
  <2>3. NapTypeOK'
    BY <1>0, <2>1, <2>2 DEF NapTypeOK, process, timer
  <2>4. FlightInv' /\ DriveInv'
    BY <1>0, <2>1, <2>2 DEF NapInv, FlightInv, DriveInv, InFlight, process
  <2>5. SleeperKeepsItsAnchor'
    BY <1>0, <2>1 DEF NapInv, SleeperKeepsItsAnchor, Sleepers
  <2>6. Numbers' /\ TimerInv'
    BY <1>0, <2>2, StandsStill
  <2> QED
    BY <2>3, <2>4, <2>5, <2>6 DEF NapInv
<1>2. CASE branches[drive.id] # None
  <2>1. Record(drive.id, "failed") /\ Return /\ UNCHANGED branches
    BY <1>2 DEF Fresh, SetupFailed
  <2>2. /\ rows' \in [Ids -> TaskRows] /\ stale' \subseteq Ids /\ failures' \in 0 .. MaxFailures
        /\ \/ rows'[drive.id].status = "failed" /\ drive.id \notin stale'
           \/ rows'[drive.id] = rows[drive.id] /\ drive.id \in stale'
        /\ \A j \in Ids : j # drive.id => rows'[j] = rows[j] /\ (j \in stale' <=> j \in stale)
    BY <1>0, <2>1, RecordReplaces
  <2>3. /\ drive' \in {None} \union Drives
        /\ drive' # None => drive'.pc = "report" /\ drive'.id = drive.id
    BY <1>0, <2>1, ReturnMoves
  <2>4. NapTypeOK'
    BY <1>0, <2>1, <2>2, <2>3 DEF NapTypeOK, process, timer
  <2>5. FlightInv' /\ DriveInv'
    BY <1>0, <2>2, <2>3 DEF NapInv, FlightInv, DriveInv, InFlight, process
  <2>6. SleeperKeepsItsAnchor'
    BY <1>0, <2>1, <2>2 DEF NapInv, SleeperKeepsItsAnchor, Sleepers
  <2>7. Numbers' /\ TimerInv'
    BY <1>0, NeverDown
  <2> QED
    BY <2>4, <2>5, <2>6, <2>7 DEF NapInv
<1> QED
  BY <1>1, <1>2

LEMMA CommitKeeps ==
  ASSUME NapInv, Commit
  PROVE  NapInv'
<1> DEFINE head == drive.head \union {drive.own}
           next == [drive EXCEPT !.head = head]
<1>0. /\ NapTypeOK /\ drive \in Drives /\ drive # None /\ drive.pc = "work" /\ drive.id \in Ids
      /\ UNCHANGED <<process, born, rows, anchors, timer, failures, history>>
      /\ head \in SUBSET Lots
      /\ rows[drive.id].status = "running" \/ drive.id \in stale
  BY DEF Commit, At, NapInv, NapTypeOK, DriveInv, Drives
<1>1. drive' = next /\ branches' = [branches EXCEPT ![drive.id] = head]
  BY DEF Commit
<1> HIDE DEF head
<1>2. /\ drive' \in Drives /\ drive' # None /\ drive'.pc = "work" /\ drive'.id = drive.id
  <2>1. next \in Drives /\ next.pc = "work" /\ next.id = drive.id
    BY <1>0 DEF Drives
  <2> QED
    BY <1>1, <2>1, NapAssumption
<1>3. NapTypeOK'
  BY <1>0, <1>1, <1>2 DEF NapTypeOK, process, timer, history
<1>4. FlightInv' /\ DriveInv'
  BY <1>0, <1>2 DEF NapInv, FlightInv, DriveInv, InFlight, process, history
<1>5. SleeperKeepsItsAnchor'
  BY <1>0 DEF NapInv, SleeperKeepsItsAnchor, Sleepers, history
<1>6. Numbers' /\ TimerInv'
  BY <1>0, <1>2, StandsStill
<1> QED
  BY <1>3, <1>4, <1>5, <1>6 DEF NapInv

LEMMA SettleKeeps ==
  ASSUME NapInv, Settle
  PROVE  NapInv'
<1>0. /\ NapTypeOK /\ drive \in Drives /\ drive # None /\ drive.pc = "work" /\ drive.id \in Ids
      /\ UNCHANGED <<process, born, work, timer, napped, slept, capped, cancelled>>
  BY DEF Settle, At, NapInv, NapTypeOK, DriveInv, Drives
<1>1. /\ rows' \in [Ids -> TaskRows] /\ stale' \subseteq Ids /\ failures' \in 0 .. MaxFailures
      /\ \/ rows'[drive.id].status \in {"done", "failed"} /\ drive.id \notin stale'
         \/ rows'[drive.id] = rows[drive.id] /\ drive.id \in stale'
      /\ \A j \in Ids : j # drive.id => rows'[j] = rows[j] /\ (j \in stale' <=> j \in stale)
  <2>1. PICK s \in {"done", "failed"} : Record(drive.id, s)
    BY DEF Settle
  <2> QED
    BY <1>0, <2>1, RecordReplaces
<1>2. drive' \in Drives /\ drive' # None /\ drive'.pc = "clean" /\ drive'.id = drive.id
  BY <1>0, GotoMoves DEF Settle, Steps
<1>3. NapTypeOK'
  BY <1>0, <1>1, <1>2 DEF NapTypeOK, process, work, timer
<1>4. FlightInv' /\ DriveInv'
  BY <1>0, <1>1, <1>2 DEF NapInv, FlightInv, DriveInv, InFlight, process
<1>5. SleeperKeepsItsAnchor'
  BY <1>0, <1>1 DEF NapInv, SleeperKeepsItsAnchor, Sleepers, work
<1>6. Numbers' /\ TimerInv'
  BY <1>0, <1>2, StandsStill
<1> QED
  BY <1>3, <1>4, <1>5, <1>6 DEF NapInv

LEMMA CancelKeeps ==
  ASSUME NapInv, Cancel
  PROVE  NapInv'
<1>0. /\ NapTypeOK /\ drive \in Drives /\ drive # None /\ drive.id \in Ids
      /\ UNCHANGED <<process, born, rows, work, timer, failures, napped, slept, capped, stale>>
      /\ cancelled' = cancelled \union {drive.id}
  BY DEF Cancel, NapInv, NapTypeOK, Drives
<1>1. /\ drive' \in {None} \union Drives
      /\ drive' # None => drive'.pc = "clean" /\ drive'.id = drive.id
  BY <1>0, GotoMoves DEF Cancel, Steps
<1>2. NapTypeOK'
  BY <1>0, <1>1 DEF NapTypeOK, process, work, timer
<1>3. FlightInv' /\ DriveInv'
  BY <1>0, <1>1 DEF NapInv, FlightInv, DriveInv, InFlight, process
<1>4. SleeperKeepsItsAnchor'
  BY <1>0 DEF NapInv, SleeperKeepsItsAnchor, Sleepers, work
<1>5. Numbers' /\ TimerInv'
  BY <1>0, NeverDown
<1> QED
  BY <1>2, <1>3, <1>4, <1>5 DEF NapInv

LEMMA CleanKeeps ==
  ASSUME NapInv, Clean
  PROVE  NapInv'
<1>0. /\ NapTypeOK /\ drive \in Drives /\ drive # None /\ drive.pc = "clean" /\ drive.id \in Ids
      /\ UNCHANGED <<process, born, rows, anchors, timer, failures, history>>
      /\ Return /\ branches' = [branches EXCEPT ![drive.id] = None]
  BY DEF Clean, At, NapInv, NapTypeOK, Drives
<1>1. /\ drive' \in {None} \union Drives
      /\ drive' # None => drive'.pc = "report" /\ drive'.id = drive.id
  BY <1>0, ReturnMoves
<1>2. NapTypeOK'
  BY <1>0, <1>1 DEF NapTypeOK, process, timer, history
<1>3. FlightInv' /\ DriveInv'
  BY <1>0, <1>1 DEF NapInv, FlightInv, DriveInv, InFlight, process, history
<1>4. SleeperKeepsItsAnchor'
  BY <1>0 DEF NapInv, SleeperKeepsItsAnchor, Sleepers, history
<1>5. Numbers' /\ TimerInv'
  BY <1>0, NeverDown
<1> QED
  BY <1>2, <1>3, <1>4, <1>5 DEF NapInv

LEMMA ReportKeeps ==
  ASSUME NapInv, Report
  PROVE  NapInv'
<1>0. /\ NapTypeOK /\ drive \in Drives /\ drive # None /\ drive.id \in Ids /\ drive' = None
      /\ UNCHANGED <<phase, boots, seq, born, work, timer, napped, slept, capped, cancelled>>
  BY DEF Report, At, NapInv, NapTypeOK, Drives
<1>1. /\ rows' \in [Ids -> TaskRows] /\ stale' \subseteq Ids /\ failures' \in 0 .. MaxFailures
      /\ todo' = todo \/ (todo' = {} /\ todo \subseteq stale')
      /\ \/ rows'[drive.id].status \in {"done", "failed"} /\ ~rows'[drive.id].named
         \/ rows'[drive.id] = rows[drive.id] /\ drive.id \in stale'
      /\ \A j \in Ids : j # drive.id => rows'[j] = rows[j] /\ (j \in stale => j \in stale')
  <2>1. CASE UNCHANGED todo /\ \E s \in {"done", "failed"} : Record(drive.id, s)
    BY <1>0, <2>1, RecordReplaces
  <2>2. CASE /\ Fault /\ todo' = {} /\ stale' = stale \union todo \union {drive.id}
             /\ UNCHANGED rows
    BY <1>0, <2>2, FaultCounts DEF NapTypeOK
  <2> QED
    BY <2>1, <2>2 DEF Report
<1>2. NapTypeOK'
  BY <1>0, <1>1 DEF NapTypeOK, work, timer
<1>3. FlightInv' /\ DriveInv'
  BY <1>0, <1>1 DEF NapInv, FlightInv, DriveInv, InFlight
<1>4. SleeperKeepsItsAnchor'
  BY <1>0, <1>1 DEF NapInv, SleeperKeepsItsAnchor, Sleepers, work
<1>5. Numbers'
  <2>1. IsFiniteSet(todo) /\ Cardinality(todo) \in Nat
    <3>0. MaxSeq \in Nat
      BY NapAssumption
    <3>1. IsFiniteSet(Ids)
      BY <3>0, FS_Interval DEF Ids
    <3> QED
      BY <1>0, <3>1, FS_Subset, FS_CardinalityType DEF NapTypeOK
  <2>2. Cardinality({}) = 0
    BY FS_EmptySet
  <2>3. /\ born \in Nat /\ MaxSeq - seq \in Nat /\ 2 * MaxSeq * boots \in Nat
    BY <1>0, NapAssumption DEF NapTypeOK
  <2>4. phase # "down" /\ born + Cardinality(todo) + (MaxSeq - seq) <= 2 * MaxSeq * boots
    BY <1>0 DEF NapInv, Numbers
  <2>5. born + Cardinality(todo') + (MaxSeq - seq) <= 2 * MaxSeq * boots
    <3>1. CASE todo' = todo
      BY <2>4, <3>1
    <3>2. CASE todo' = {}
      <4>1. Cardinality(todo') = 0
        BY <2>2, <3>2
      <4>2. Cardinality(todo) \in Nat
        BY <2>1
      <4> QED
        BY <2>3, <2>4, <4>1, <4>2
    <3> QED
      BY <1>1, <3>1, <3>2
  <2> QED
    BY <1>0, <2>4, <2>5 DEF Numbers
<1>6. TimerInv'
  BY <1>0 DEF NapInv, TimerInv, Spent, timer
<1> QED
  BY <1>2, <1>3, <1>4, <1>5, <1>6 DEF NapInv

-----------------------------------------------------------------------------
(* ... going to sleep, ...                                                  *)

LEMMA ArmKeeps ==
  ASSUME NapInv, Arm
  PROVE  NapInv'
<1> DEFINE row == [status |-> "wake", arm |-> wakeRow.arm + 1, due |-> FALSE]
<1>0. /\ NapTypeOK /\ drive \in Drives /\ drive # None /\ drive.pc = "work" /\ drive.id \in Ids
      /\ UNCHANGED <<process, born, rows, work, claimed, waker, fired, lapsed, failures, history>>
      /\ wakeRow' = row
      /\ rows[drive.id].status = "running" \/ drive.id \in stale
  BY DEF Arm, At, NapInv, NapTypeOK, DriveInv, Drives
<1>1. /\ wakeRow.arm \in Nat /\ wakeRow.arm < MaxArms /\ row.status = "wake"
      /\ row \in WakeRows /\ row.arm = wakeRow.arm + 1
  BY <1>0, NapAssumption DEF Arm, NapTypeOK, WakeRows
<1> HIDE DEF row
<1>2. drive' \in Drives /\ drive' # None /\ drive'.pc = "armed" /\ drive'.id = drive.id
  BY <1>0, GotoMoves DEF Arm, Steps
<1>3. NapTypeOK'
  BY <1>0, <1>1, <1>2 DEF NapTypeOK, process, work, history
<1>4. FlightInv' /\ DriveInv'
  BY <1>0, <1>2 DEF NapInv, FlightInv, DriveInv, InFlight, process, history
<1>5. SleeperKeepsItsAnchor'
  BY <1>0 DEF NapInv, SleeperKeepsItsAnchor, Sleepers, work, history
<1>6. Numbers'
  BY <1>0, <1>2 DEF NapInv, Numbers, process
<1>7. TimerInv'
  <2>1. \A n \in Nat : Spent(n) => Spent(n)'
    BY <1>0, <1>1 DEF Spent
  <2>2. waker.arm \in Nat
    BY <1>0 DEF NapTypeOK, Wakers
  <2>3. waker.arm \in 1 .. wakeRow.arm => waker.arm \in 1 .. wakeRow'.arm
    BY <1>0, <1>1
  <2>4. \A n \in 1 .. MaxArms : n \in Nat
    BY NapAssumption
  <2> QED
    BY <1>0, <1>1, <2>1, <2>2, <2>3, <2>4 DEF NapInv, TimerInv, process
<1> QED
  BY <1>3, <1>4, <1>5, <1>6, <1>7 DEF NapInv

LEMMA ClearClaimKeeps ==
  ASSUME NapInv, ClearClaim
  PROVE  NapInv'
<1>0. /\ NapTypeOK /\ drive \in Drives /\ drive # None /\ drive.pc = "armed" /\ drive.id \in Ids
      /\ UNCHANGED <<process, born, rows, work, wakeRow, waker, fired, lapsed, failures, history>>
      /\ claimed' \in BOOLEAN
      /\ rows[drive.id].status = "running" \/ drive.id \in stale
  BY DEF ClearClaim, Unclaimed, At, NapInv, NapTypeOK, DriveInv, Drives
<1>1. drive' \in Drives /\ drive' # None /\ drive'.pc = "pin" /\ drive'.id = drive.id
  BY <1>0, GotoMoves DEF ClearClaim, Steps
<1>2. NapTypeOK'
  BY <1>0, <1>1 DEF NapTypeOK, process, work, history
<1>3. FlightInv' /\ DriveInv'
  BY <1>0, <1>1 DEF NapInv, FlightInv, DriveInv, InFlight, process, history
<1>4. SleeperKeepsItsAnchor'
  BY <1>0 DEF NapInv, SleeperKeepsItsAnchor, Sleepers, work, history
<1>5. Numbers' /\ TimerInv'
  BY <1>0, <1>1 DEF NapInv, Numbers, TimerInv, Spent, process
<1> QED
  BY <1>2, <1>3, <1>4, <1>5 DEF NapInv

LEMMA PinKeeps ==
  ASSUME NapInv, Pin
  PROVE  NapInv'
<1>0. /\ NapTypeOK /\ drive \in Drives /\ drive # None /\ drive.pc = "pin" /\ drive.id \in Ids
      /\ UNCHANGED <<process, born, rows, branches, timer, history>>
      /\ drive.head \in SUBSET Lots
      /\ rows[drive.id].status = "running" \/ drive.id \in stale
  BY DEF Pin, At, NapInv, NapTypeOK, DriveInv, Drives
<1>1. /\ anchors' \in [Ids -> {None} \union SUBSET Lots] /\ failures' \in 0 .. MaxFailures
      /\ \A j \in Ids : j # drive.id => anchors'[j] = anchors[j]
      /\ \/ Goto("pinned") /\ anchors'[drive.id] = drive.head
         \/ Goto("unpinned")
  <2>1. CASE anchors' = [anchors EXCEPT ![drive.id] = PinBranch(drive.id, drive.head)]
             /\ Goto("pinned") /\ UNCHANGED failures
    BY <1>0, <2>1 DEF PinBranch, NapTypeOK
  <2>2. CASE Fault /\ Goto("unpinned") /\ UNCHANGED anchors
    BY <1>0, <2>2, FaultCounts DEF NapTypeOK
  <2> QED
    BY <2>1, <2>2 DEF Pin
<1>2. /\ drive' \in Drives /\ drive' # None /\ drive'.id = drive.id
      /\ drive'.pc = "unpinned" \/ (drive'.pc = "pinned" /\ anchors'[drive'.id] = drive'.head)
  BY <1>0, <1>1, GotoMoves DEF Steps
<1>3. NapTypeOK'
  BY <1>0, <1>1, <1>2 DEF NapTypeOK, process, timer, history
<1>4. FlightInv' /\ DriveInv'
  BY <1>0, <1>2 DEF NapInv, FlightInv, DriveInv, InFlight, process, history
<1>5. SleeperKeepsItsAnchor'
  BY <1>0, <1>1 DEF NapInv, SleeperKeepsItsAnchor, Sleepers, history
<1>6. Numbers' /\ TimerInv'
  BY <1>0, <1>2, StandsStill
<1> QED
  BY <1>3, <1>4, <1>5, <1>6 DEF NapInv

LEMMA SuspendKeeps ==
  ASSUME NapInv, Suspend
  PROVE  NapInv'
<1> DEFINE row == [status |-> "suspended", named |-> drive.pc = "pinned"]
           kept == IF drive.pc = "pinned" THEN drive.head ELSE {}
<1>0. /\ NapTypeOK /\ drive \in Drives /\ drive # None /\ drive.pc \in {"pinned", "unpinned"}
      /\ drive.id \in Ids
      /\ UNCHANGED <<process, born, work, timer, cancelled>> /\ Goto("clean")
      /\ drive.head \in SUBSET Lots
      /\ drive.pc = "pinned" => anchors[drive.id] = drive.head
  BY DEF Suspend, At, NapInv, NapTypeOK, DriveInv, Drives
<1>1. drive' \in Drives /\ drive' # None /\ drive'.pc = "clean" /\ drive'.id = drive.id
  BY <1>0, GotoMoves DEF Steps
<1>2. Numbers' /\ TimerInv'
  BY <1>0, <1>1, StandsStill
<1>3. CASE /\ Puts(drive.id, row) /\ napped' = [napped EXCEPT ![drive.id] = kept]
           /\ slept' = slept \union kept /\ capped' = capped \ {drive.id}
  <2>1. /\ row \in TaskRows /\ row.status = "suspended" /\ row.named = (drive.pc = "pinned")
        /\ kept \in SUBSET Lots
    BY <1>0 DEF TaskRows
  <2>2. row.named => kept = anchors[drive.id]
    BY <1>0, <2>1
  <2> HIDE DEF row, kept
  <2>3. /\ rows' \in [Ids -> TaskRows] /\ rows'[drive.id] = row
        /\ stale' \subseteq Ids /\ failures' = failures
        /\ \A j \in Ids : j # drive.id => rows'[j] = rows[j] /\ (j \in stale' <=> j \in stale)
    BY <1>0, <1>3, <2>1, PutsReplaces
  <2>4. /\ napped' \in [Ids -> SUBSET Lots] /\ napped'[drive.id] = kept
        /\ \A j \in Ids : j # drive.id => napped'[j] = napped[j]
    BY <1>0, <1>3, <2>1 DEF NapTypeOK
  <2>5. NapTypeOK'
    BY <1>0, <1>1, <1>3, <2>1, <2>3, <2>4 DEF NapTypeOK, process, work, timer
  <2>6. FlightInv' /\ DriveInv'
    BY <1>0, <1>1, <2>1, <2>3 DEF NapInv, FlightInv, DriveInv, InFlight, process
  <2>7. SleeperKeepsItsAnchor'
    BY <1>0, <1>3, <2>2, <2>3, <2>4 DEF NapInv, SleeperKeepsItsAnchor, Sleepers, work
  <2> QED
    BY <1>2, <2>5, <2>6, <2>7 DEF NapInv
<1>4. CASE Drops(drive.id) /\ UNCHANGED <<napped, slept, capped>>
  <2>1. /\ rows' = rows /\ drive.id \in stale' /\ stale \subseteq stale'
        /\ stale' \subseteq Ids /\ failures' \in 0 .. MaxFailures
    BY <1>0, <1>4, DropsLeaves
  <2>2. NapTypeOK'
    BY <1>0, <1>1, <1>4, <2>1 DEF NapTypeOK, process, work, timer
  <2>3. FlightInv' /\ DriveInv'
    BY <1>0, <1>1, <2>1 DEF NapInv, FlightInv, DriveInv, InFlight, process
  <2>4. SleeperKeepsItsAnchor'
    BY <1>0, <1>4, <2>1 DEF NapInv, SleeperKeepsItsAnchor, Sleepers, work
  <2> QED
    BY <1>2, <2>2, <2>3, <2>4 DEF NapInv
<1> QED
  BY <1>3, <1>4 DEF Suspend

-----------------------------------------------------------------------------
(* ... the waker, ...                                                       *)

\* What touches only the timer leaves the rest as it was.
LEMMA OnlyTimerMoves ==
  ASSUME NapInv, UNCHANGED <<process, drive, born, rows, work, history>>
  PROVE  Numbers' /\ FlightInv' /\ DriveInv' /\ SleeperKeepsItsAnchor'
<1>1. Numbers' /\ FlightInv'
  BY DEF NapInv, Numbers, FlightInv, InFlight, process, history
<1>2. DriveInv' /\ SleeperKeepsItsAnchor'
  BY DEF NapInv, DriveInv, SleeperKeepsItsAnchor, Sleepers, work, history
<1> QED
  BY <1>1, <1>2

LEMMA DueKeeps ==
  ASSUME NapInv, Due
  PROVE  NapInv'
<1> DEFINE row == [wakeRow EXCEPT !.due = TRUE]
<1>0. /\ NapTypeOK /\ wakeRow' = row
      /\ UNCHANGED <<process, drive, born, rows, work, claimed, waker, fired, lapsed, failures,
                     history>>
  BY DEF Due, NapInv
<1>1. row \in WakeRows /\ row.status = wakeRow.status /\ row.arm = wakeRow.arm
  BY <1>0 DEF NapTypeOK, WakeRows
<1> HIDE DEF row
<1>2. NapTypeOK'
  BY <1>0, <1>1 DEF NapTypeOK, process, work, history
<1>3. TimerInv'
  BY <1>0, <1>1 DEF NapInv, TimerInv, Spent, process
<1> QED
  BY <1>0, <1>2, <1>3, OnlyTimerMoves DEF NapInv

LEMMA PollKeeps ==
  ASSUME NapInv, Poll
  PROVE  NapInv'
<1> DEFINE read == [pc |-> "claim", arm |-> wakeRow.arm]
<1>0. /\ NapTypeOK /\ waker' = read /\ phase = "serve" /\ wakeRow.status = "wake"
      /\ UNCHANGED <<process, drive, born, rows, work, wakeRow, claimed, fired, lapsed, failures,
                     history>>
  BY DEF Poll, NapInv
<1>1. read \in Wakers /\ read.pc = "claim" /\ read.arm = wakeRow.arm
      /\ wakeRow.arm \in 1 .. MaxArms /\ wakeRow.arm \in Nat
  BY <1>0, NapAssumption DEF NapInv, TimerInv, NapTypeOK, Wakers, WakeRows
<1> HIDE DEF read
<1>2. NapTypeOK'
  BY <1>0, <1>1 DEF NapTypeOK, process, work, history
<1>3. fired[wakeRow.arm] = 0
  BY <1>0, <1>1 DEF NapInv, TimerInv, Spent
<1>4. TimerInv'
  BY <1>0, <1>1, <1>3 DEF NapInv, TimerInv, Spent, process
<1> QED
  BY <1>0, <1>2, <1>4, OnlyTimerMoves DEF NapInv

LEMMA ClaimKeeps ==
  ASSUME NapInv, Claim
  PROVE  NapInv'
<1> DEFINE next == [waker EXCEPT !.pc = "disarm"]
<1>0. /\ NapTypeOK /\ waker \in Wakers /\ waker.pc = "claim" /\ claimed' \in BOOLEAN
      /\ waker' = IdleWaker \/ waker' = next
      /\ UNCHANGED <<process, drive, born, rows, work, wakeRow, fired, lapsed, failures, history>>
  BY DEF Claim, NapInv, NapTypeOK
<1>1. next \in Wakers /\ next.pc = "disarm" /\ next.arm = waker.arm
  BY <1>0 DEF Wakers
<1> HIDE DEF next
<1>2. IdleWaker \in Wakers /\ IdleWaker.pc = "idle"
  BY NapAssumption DEF IdleWaker, Wakers
<1>3. NapTypeOK'
  BY <1>0, <1>1, <1>2 DEF NapTypeOK, process, work, history
<1>4. TimerInv'
  BY <1>0, <1>1, <1>2 DEF NapInv, TimerInv, Spent, process
<1> QED
  BY <1>0, <1>3, <1>4, OnlyTimerMoves DEF NapInv

LEMMA DisarmKeeps ==
  ASSUME NapInv, Disarm
  PROVE  NapInv'
<1> DEFINE next == [waker EXCEPT !.pc = "fire"]  row == [wakeRow EXCEPT !.status = "wake_done"]
<1>0. /\ NapTypeOK /\ waker \in Wakers /\ wakeRow \in WakeRows /\ waker.pc = "disarm"
      /\ UNCHANGED <<process, drive, born, rows, work, fired, history>>
      /\ phase = "serve" /\ waker.arm \in 1 .. wakeRow.arm /\ fired[waker.arm] = 0
      /\ lapsed \subseteq 1 .. MaxArms
      /\ wakeRow.status = "wake" => wakeRow.arm >= 1
  BY DEF Disarm, NapInv, NapTypeOK, TimerInv
<1>1. CASE /\ wakeRow' = row /\ waker' = next /\ UNCHANGED <<claimed, failures>>
           /\ lapsed' = IF wakeRow.status = "wake" /\ wakeRow.arm # waker.arm
                          THEN lapsed \union {wakeRow.arm} ELSE lapsed
  <2>1. next \in Wakers /\ next.pc = "fire" /\ next.arm = waker.arm
    BY <1>0 DEF Wakers
  <2>2. row \in WakeRows /\ row.status = "wake_done" /\ row.arm = wakeRow.arm /\ row.arm \in Nat
    BY <1>0 DEF WakeRows
  <2> HIDE DEF next, row
  <2>0. lapsed' \subseteq 1 .. MaxArms
    <3>1. wakeRow.arm \in 0 .. MaxArms
      BY <1>0 DEF WakeRows
    <3>2. MaxArms \in Nat
      BY NapAssumption
    <3>3. wakeRow.status = "wake" => wakeRow.arm \in 1 .. MaxArms
      BY <1>0, <3>1, <3>2
    <3> QED
      BY <1>0, <1>1, <3>3
  <2>3. NapTypeOK'
    BY <1>0, <1>1, <2>0, <2>1, <2>2 DEF NapTypeOK, process, work, history
  <2>4. \A n : Spent(n) => Spent(n)'
    BY <1>1, <2>2 DEF Spent
  <2>5. Spent(waker.arm)'
    BY <1>0, <1>1, <2>1, <2>2 DEF Spent
  <2>6. TimerInv'
    <3>1. waker'.arm = waker.arm /\ waker'.pc = "fire"
      BY <1>1, <2>1
    <3>2. \A n \in 1 .. MaxArms : fired'[n] <= 1 /\ (fired'[n] # 0 => Spent(n)')
      BY <1>0, <2>4 DEF NapInv, TimerInv
    <3> QED
      BY <1>0, <1>1, <2>2, <2>5, <3>1, <3>2 DEF TimerInv, process
  <2> QED
    BY <1>0, <2>3, <2>6, OnlyTimerMoves DEF NapInv
<1>2. CASE Fault /\ claimed' = FALSE /\ waker' = IdleWaker /\ UNCHANGED <<wakeRow, lapsed>>
  <2>1. IdleWaker \in Wakers /\ IdleWaker.pc = "idle" /\ failures' \in 0 .. MaxFailures
    BY <1>0, <1>2, FaultCounts, NapAssumption DEF IdleWaker, Wakers, NapTypeOK
  <2>2. NapTypeOK'
    BY <1>0, <1>2, <2>1 DEF NapTypeOK, process, work, history
  <2>3. TimerInv'
    BY <1>0, <1>2, <2>1 DEF NapInv, TimerInv, Spent, process
  <2> QED
    BY <1>0, <2>2, <2>3, OnlyTimerMoves DEF NapInv
<1> QED
  BY <1>1, <1>2 DEF Disarm, DisarmWake

\* A drive of the conversation's own: its number is within the bound, and no row that is in
\* flight depends on a drive that was there before.
LEMMA TurnStarts ==
  ASSUME NapInv, phase = "serve", drive = None, Room, Launch(seq + 1), seq' = seq + 1,
         UNCHANGED <<phase, boots, todo, rows, cancelled, stale>>
  PROVE  /\ drive' \in Drives /\ born' \in Nat /\ seq' \in 0 .. MaxSeq
         /\ Numbers' /\ FlightInv' /\ DriveInv'
<1>0. /\ NapTypeOK /\ MaxSeq \in Nat /\ seq \in Nat /\ seq < MaxSeq /\ boots \in Nat
      /\ born \in Nat /\ seq + 1 \in Ids
      /\ born + Cardinality(todo) + (MaxSeq - seq) <= 2 * MaxSeq * boots
  <2>1. NapTypeOK /\ Numbers /\ MaxSeq \in Nat /\ seq < MaxSeq
    BY NapAssumption DEF NapInv, Room
  <2>2. seq \in Nat /\ boots \in Nat /\ born \in Nat
    BY <2>1 DEF NapTypeOK
  <2> QED
    BY <2>1, <2>2 DEF Numbers, Ids
<1>1. Cardinality(todo) \in Nat /\ 2 * MaxSeq * boots \in Nat
  <2>1. IsFiniteSet(Ids)
    BY <1>0, FS_Interval DEF Ids
  <2>2. IsFiniteSet(todo)
    BY <1>0, <2>1, FS_Subset DEF NapTypeOK
  <2> QED
    BY <1>0, <2>2, FS_CardinalityType
<1>2. born < 2 * MaxSeq * boots
  BY <1>0, <1>1
<1>3. /\ drive' \in Drives /\ drive' # None /\ drive'.id = seq + 1 /\ drive'.pc = "begin"
      /\ drive'.from = None /\ born' \in Nat /\ born' = born + 1
  BY <1>0, <1>2, LaunchStarts
<1>4. seq' \in 0 .. MaxSeq
  BY <1>0
<1>5. Numbers'
  <2>1. born' + Cardinality(todo) + (MaxSeq - (seq + 1)) <= 2 * MaxSeq * boots
    BY <1>0, <1>1, <1>3
  <2> QED
    BY <2>1 DEF Numbers
<1>6. FlightInv' /\ DriveInv'
  BY <1>3 DEF NapInv, FlightInv, DriveInv, InFlight
<1> QED
  BY <1>3, <1>4, <1>5, <1>6

LEMMA FireKeeps ==
  ASSUME NapInv, Fire
  PROVE  NapInv'
<1>0. /\ NapTypeOK /\ waker.pc = "fire" /\ waker' = IdleWaker /\ phase = "serve"
      /\ UNCHANGED <<phase, boots, todo, rows, work, wakeRow, claimed, lapsed, failures, history>>
      /\ fired' = [fired EXCEPT ![waker.arm] = fired[waker.arm] + 1]
      /\ waker.arm \in 1 .. wakeRow.arm /\ fired[waker.arm] = 0 /\ Spent(waker.arm)
      /\ MaxSeq \in Nat /\ MaxArms \in Nat
  BY NapAssumption DEF Fire, NapInv, TimerInv
<1>1. waker.arm \in 1 .. MaxArms
  BY <1>0 DEF NapTypeOK, WakeRows
<1>2. /\ fired' \in [1 .. MaxArms -> Nat] /\ fired'[waker.arm] = 1
      /\ \A n \in 1 .. MaxArms : n # waker.arm => fired'[n] = fired[n]
  BY <1>0, <1>1 DEF NapTypeOK
<1>3. IdleWaker \in Wakers /\ IdleWaker.pc = "idle"
  BY NapAssumption DEF IdleWaker, Wakers
<1>4. TimerInv'
  BY <1>0, <1>1, <1>2, <1>3 DEF NapInv, TimerInv, Spent
<1>5. SleeperKeepsItsAnchor'
  BY <1>0 DEF NapInv, SleeperKeepsItsAnchor, Sleepers, work, history
<1>6. CASE drive = None /\ Room /\ Launch(seq + 1) /\ seq' = seq + 1
  BY <1>0, <1>2, <1>3, <1>4, <1>5, <1>6, TurnStarts DEF NapInv, NapTypeOK, work, history
<1>7. CASE UNCHANGED <<drive, born, seq>>
  <2>1. NapTypeOK'
    BY <1>0, <1>2, <1>3, <1>7 DEF NapTypeOK, work, history
  <2>2. Numbers' /\ FlightInv'
    BY <1>0, <1>7 DEF NapInv, Numbers, FlightInv, InFlight, history
  <2>3. DriveInv'
    BY <1>0, <1>7 DEF NapInv, DriveInv, work, history
  <2> QED
    BY <1>4, <1>5, <2>1, <2>2, <2>3 DEF NapInv
<1> QED
  BY <1>6, <1>7 DEF Fire

-----------------------------------------------------------------------------
(* ... the conversation and the process.                                    *)

LEMMA TurnKeeps ==
  ASSUME NapInv, Turn
  PROVE  NapInv'
<1>0. /\ NapTypeOK /\ phase = "serve" /\ drive = None /\ Room /\ Launch(seq + 1)
      /\ seq' = seq + 1 /\ UNCHANGED <<phase, boots, todo, rows, work, timer, failures, history>>
  BY DEF Turn, NapInv
<1>1. TimerInv' /\ SleeperKeepsItsAnchor'
  BY <1>0
  DEF NapInv, TimerInv, Spent, SleeperKeepsItsAnchor, Sleepers, timer, work, history
<1> QED
  BY <1>0, <1>1, TurnStarts DEF NapInv, NapTypeOK, timer, work, history

LEMMA BootKeeps ==
  ASSUME NapInv, Boot
  PROVE  NapInv'
<1>0. /\ NapTypeOK /\ phase = "down" /\ phase' = "resume" /\ boots < MaxBoots
      /\ boots' = boots + 1 /\ seq' = 0
      /\ UNCHANGED <<drive, born, rows, branches, timer, napped, slept, cancelled>>
      /\ boots \in Nat /\ MaxBoots \in Nat /\ MaxSeq \in Nat /\ born \in Nat
      /\ drive = None /\ born <= 2 * MaxSeq * boots
  BY NapAssumption DEF Boot, NapInv, NapTypeOK, Numbers
<1>1. PICK left \in SUBSET (Refs \ Kept), read \in BOOLEAN :
        /\ IF left = {} /\ read THEN UNCHANGED failures ELSE Fault
        /\ anchors' = [i \in Ids |-> IF i \in Kept \union left THEN anchors[i] ELSE None]
        /\ capped' = capped \union ((Suspended \intersect Refs) \ (Kept \union left))
        /\ todo' = IF read THEN InFlight(rows) ELSE {}
        /\ stale' = IF read THEN stale ELSE stale \union InFlight(rows)
  BY DEF Boot
<1>2. /\ failures' \in 0 .. MaxFailures
      /\ todo' \subseteq Ids /\ stale \subseteq stale' /\ stale' \subseteq Ids
      /\ InFlight(rows) \subseteq todo' \union stale'
  BY <1>0, <1>1, FaultCounts DEF NapTypeOK, InFlight
<1>3. NapTypeOK'
  <2>1. anchors' \in [Ids -> {None} \union SUBSET Lots]
    BY <1>0, <1>1 DEF NapTypeOK
  <2>2. capped' \subseteq Ids
    BY <1>0, <1>1 DEF NapTypeOK, Suspended
  <2>3. boots' \in 0 .. MaxBoots /\ seq' \in 0 .. MaxSeq
    BY <1>0
  <2> QED
    BY <1>0, <1>2, <2>1, <2>2, <2>3 DEF NapTypeOK, timer
<1>4. Numbers'
  <2>1. Cardinality(todo') <= MaxSeq /\ Cardinality(todo') \in Nat
    <3>1. IsFiniteSet(Ids) /\ Cardinality(Ids) = MaxSeq
      BY <1>0, FS_Interval DEF Ids
    <3> QED
      BY <1>2, <3>1, FS_Subset, FS_CardinalityType
  <2>2. 2 * MaxSeq * (boots + 1) = 2 * MaxSeq * boots + MaxSeq + MaxSeq
        /\ 2 * MaxSeq * boots \in Nat
    BY <1>0
  <2>3. born + Cardinality(todo') + (MaxSeq - 0) <= 2 * MaxSeq * (boots + 1)
    BY <1>0, <2>1, <2>2
  <2> QED
    BY <1>0, <2>3 DEF Numbers
<1>5. TimerInv'
  BY <1>0 DEF NapInv, TimerInv, Spent, timer
<1>6. FlightInv' /\ DriveInv'
  BY <1>0, <1>2 DEF FlightInv, DriveInv, InFlight
<1>7. SleeperKeepsItsAnchor'
  <2> SUFFICES ASSUME NEW i \in Sleepers, i \notin capped', i \notin stale'
               PROVE  anchors'[i] = napped[i]
    BY <1>0 DEF SleeperKeepsItsAnchor, Sleepers
  <2>1. i \in Ids /\ i \in Suspended /\ anchors[i] = napped[i]
    BY <1>1, <1>2 DEF NapInv, SleeperKeepsItsAnchor, Sleepers, Suspended
  <2>2. napped[i] \in SUBSET Lots
    BY <1>0, <2>1 DEF NapTypeOK
  <2>3. i \in Refs
    BY <2>1, <2>2, NapAssumption DEF Refs
  <2>4. i \in Kept \union left
    BY <1>1, <2>1, <2>3
  <2> QED
    BY <1>1, <2>1, <2>4
<1> QED
  BY <1>3, <1>4, <1>5, <1>6, <1>7 DEF NapInv

LEMMA RedriveKeeps ==
  ASSUME NapInv, Redrive
  PROVE  NapInv'
<1>1. PICK i \in todo : Launch(i) /\ todo' = todo \ {i}
  BY DEF Redrive
<1>2. /\ NapTypeOK /\ phase = "resume" /\ drive = None /\ i \in Ids
      /\ UNCHANGED <<phase, boots, seq, rows, work, timer, failures, history>>
      /\ born \in Nat /\ seq \in Nat /\ seq <= MaxSeq /\ MaxSeq \in Nat /\ boots \in Nat
      /\ born + Cardinality(todo) + (MaxSeq - seq) <= 2 * MaxSeq * boots
  BY NapAssumption, SMTT(30) DEF Redrive, NapInv, NapTypeOK, Numbers
<1>3. Cardinality(todo) \in Nat /\ Cardinality(todo') = Cardinality(todo) - 1
      /\ Cardinality(todo') \in Nat
  <2>1. IsFiniteSet(Ids)
    BY <1>2, FS_Interval DEF Ids
  <2>2. IsFiniteSet(todo) /\ IsFiniteSet(todo \ {i})
    BY <1>2, <2>1, FS_Subset DEF NapTypeOK
  <2> QED
    BY <1>1, <2>2, FS_RemoveElement, FS_CardinalityType
<1>4. 2 * MaxSeq * boots \in Nat
  BY <1>2
<1>5. born < 2 * MaxSeq * boots
  BY <1>2, <1>3, <1>4
<1>6. /\ drive' \in Drives /\ drive' # None /\ drive'.id = i /\ drive'.pc = "begin"
      /\ drive'.from = None /\ born' \in Nat /\ born' = born + 1
  BY <1>1, <1>2, <1>5, LaunchStarts
<1>7. NapTypeOK'
  BY <1>1, <1>2, <1>6 DEF NapTypeOK, work, timer, history
<1>8. Numbers'
  <2>1. born' + Cardinality(todo') + (MaxSeq - seq) <= 2 * MaxSeq * boots
    BY <1>2, <1>3, <1>4, <1>6
  <2> QED
    BY <1>2, <2>1 DEF Numbers
<1>9. TimerInv' /\ SleeperKeepsItsAnchor'
  BY <1>2
  DEF NapInv, TimerInv, Spent, SleeperKeepsItsAnchor, Sleepers, timer, work, history
<1>10. FlightInv' /\ DriveInv'
  BY <1>1, <1>2, <1>6 DEF NapInv, FlightInv, DriveInv, InFlight, history
<1> QED
  BY <1>7, <1>8, <1>9, <1>10 DEF NapInv

LEMMA ServeKeeps ==
  ASSUME NapInv, Serve
  PROVE  NapInv'
<1>0. /\ NapTypeOK /\ phase = "resume" /\ phase' = "serve" /\ drive = None /\ todo = {}
      /\ UNCHANGED <<boots, todo, seq, drive, born, rows, work, timer, failures, history>>
  BY DEF Serve, NapInv
<1>1. NapTypeOK' /\ Numbers'
  BY <1>0 DEF NapInv, NapTypeOK, Numbers, work, timer, history
<1>2. TimerInv' /\ FlightInv'
  BY <1>0 DEF NapInv, TimerInv, Spent, FlightInv, InFlight, timer, history
<1>3. DriveInv' /\ SleeperKeepsItsAnchor'
  BY <1>0 DEF NapInv, DriveInv, SleeperKeepsItsAnchor, Sleepers, work, history
<1> QED
  BY <1>1, <1>2, <1>3 DEF NapInv

\* What an end of the process leaves, however it comes.
LEMMA DiesKeeps ==
  ASSUME NapInv, Dies, rows' \in [Ids -> TaskRows],
         branches' \in [Ids -> {None} \union SUBSET Lots],
         \A i \in Ids : i \in Sleepers' => i \in Sleepers
  PROVE  NapInv'
<1>0. /\ NapTypeOK /\ phase # "down" /\ phase' = "down" /\ drive' = None /\ todo' = {}
      /\ claimed' = FALSE /\ waker' = IdleWaker
      /\ UNCHANGED <<boots, seq, born, anchors, wakeRow, fired, failures, history>>
  BY DEF Dies, NapInv
<1>1. IdleWaker \in Wakers /\ IdleWaker.pc = "idle"
  BY NapAssumption DEF IdleWaker, Wakers
<1>7. lapsed' \subseteq 1 .. MaxArms
  <2>1. waker.pc = "fire" => waker.arm \in 1 .. MaxArms
    BY <1>0, NapAssumption DEF NapInv, TimerInv, NapTypeOK, WakeRows
  <2> QED
    BY <1>0, <2>1 DEF Dies, NapTypeOK
<1>2. NapTypeOK'
  BY <1>0, <1>1, <1>7 DEF NapTypeOK, history
<1>3. Numbers'
  <2>1. IsFiniteSet(todo)
    <3>0. MaxSeq \in Nat
      BY NapAssumption
    <3>1. IsFiniteSet(Ids)
      BY <3>0, FS_Interval DEF Ids
    <3> QED
      BY <1>0, <3>1, FS_Subset DEF NapTypeOK
  <2>0. Cardinality(todo) \in Nat
    BY <2>1, FS_CardinalityType
  <2>2. /\ Cardinality(todo) \in Nat /\ born \in Nat /\ MaxSeq - seq \in Nat
        /\ 2 * MaxSeq * boots \in Nat
    BY <1>0, <2>0, NapAssumption, SMTT(30) DEF NapTypeOK
  <2>3. born + Cardinality(todo) + (MaxSeq - seq) <= 2 * MaxSeq * boots
    BY <1>0 DEF NapInv, Numbers
  <2>4. born <= 2 * MaxSeq * boots
    BY <2>2, <2>3
  <2> QED
    BY <1>0, <2>4 DEF Numbers
<1>4. TimerInv'
  BY <1>0, <1>1 DEF NapInv, TimerInv, Spent
<1>5. FlightInv' /\ DriveInv'
  BY <1>0 DEF FlightInv, DriveInv
<1>6. SleeperKeepsItsAnchor'
  <2>1. \A i \in Sleepers' : i \in Ids
    BY DEF Sleepers
  <2> QED
    BY <1>0, <2>1 DEF NapInv, SleeperKeepsItsAnchor, history
<1> QED
  BY <1>2, <1>3, <1>4, <1>5, <1>6 DEF NapInv

LEMMA EndsKeep ==
  ASSUME NapInv, Crash \/ Terminate
  PROVE  NapInv'
<1>0. NapTypeOK
  BY DEF NapInv
<1>1. CASE Crash
  BY <1>0, <1>1, DiesKeeps DEF Crash, NapTypeOK, Sleepers
<1>2. CASE Terminate
  <2>1. ASSUME NEW i \in Ids
        PROVE  /\ rows'[i] \in TaskRows /\ rows'[i].named = rows[i].named
               /\ rows'[i].status = "suspended" => rows[i].status = "suspended"
    <3> DEFINE row == [rows[i] EXCEPT !.status = "interrupted"]
    <3>1. row \in TaskRows /\ row.named = rows[i].named /\ row.status = "interrupted"
      BY <1>0 DEF NapTypeOK, TaskRows
    <3>2. rows'[i] = IF rows[i].status = "running" THEN row ELSE rows[i]
      BY <1>2 DEF Terminate
    <3> HIDE DEF row
    <3> QED
      BY <1>0, <3>1, <3>2 DEF NapTypeOK
  <2>2. rows' \in [Ids -> TaskRows]
    <3>1. rows' = [i \in Ids |-> rows'[i]]
      BY <1>2 DEF Terminate
    <3> QED
      BY <2>1, <3>1
  <2>3. branches' \in [Ids -> {None} \union SUBSET Lots]
    BY <1>0, <1>2 DEF Terminate, NapTypeOK
  <2>4. \A i \in Ids : i \in Sleepers' => i \in Sleepers
    BY <2>1 DEF Sleepers
  <2>5. Dies
    BY <1>2 DEF Terminate
  <2> QED
    BY <2>2, <2>3, <2>4, <2>5, DiesKeeps
<1> QED
  BY <1>1, <1>2

LEMMA StepNap == NapInv /\ [NapNext]_napVars => NapInv'
<1>1. ASSUME NapInv, UNCHANGED napVars PROVE NapInv'
  <2>1. NapTypeOK'
    BY <1>1 DEF NapInv, NapTypeOK, napVars, process, work, timer, history
  <2>2. TimerInv'
    BY <1>1 DEF NapInv, TimerInv, Spent, napVars, process, timer
  <2> QED
    BY <1>1, <2>1, <2>2, OnlyTimerMoves DEF NapInv, napVars
<1> QED
  BY <1>1, BeginKeeps, ReattachKeeps, RetireKeeps, FreshKeeps, CommitKeeps, SettleKeeps,
     CancelKeeps, CleanKeeps, ReportKeeps, LookupKeeps, ArmKeeps, ClearClaimKeeps, PinKeeps,
     SuspendKeeps, DueKeeps,
     PollKeeps, ClaimKeeps, DisarmKeeps, FireKeeps, TurnKeeps, BootKeeps, RedriveKeeps,
     ServeKeeps, EndsKeep
  DEF NapNext, DriveStep, WakerStep

-----------------------------------------------------------------------------
(* The theorems about naps.                                                 *)

\* Every reachable state of the conversation's durable part has its type: in particular the
\* numbers of its drives never run out.
THEOREM NapTypeCorrect == NapSpec => []NapTypeOK
<1>1. NapInv => NapTypeOK
  BY DEF NapInv
<1> QED
  BY InitNap, StepNap, <1>1, PTL DEF NapSpec

\* A timer is delivered at most once, whatever fails and however often the process is
\* restarted between the claim, the disarm and the Turn.
THEOREM WakeOnce == NapSpec => []WakeFiresOnce
<1>1. NapInv => WakeFiresOnce
  BY DEF NapInv, TimerInv, WakeFiresOnce
<1> QED
  BY InitNap, StepNap, <1>1, PTL DEF NapSpec

\* As long as a task's row says that it sleeps and names its branch, that ref exists and holds
\* what the drive had committed, unless the bound of the sweep took it or a write of that very
\* row failed, however many other writes fail.
THEOREM AnchorKept == NapSpec => []SleeperKeepsItsAnchor
<1>1. NapInv => SleeperKeepsItsAnchor
  BY DEF NapInv
<1> QED
  BY InitNap, StepNap, <1>1, PTL DEF NapSpec

\* Once the process serves, a row that a restart would re-drive belongs to the drive that
\* runs, unless the operator cancelled it, a write of that row failed or such a failure kept
\* Resume from coming to it.
THEOREM FlightIsLive == NapSpec => []InFlightIsLive
<1>1. NapInv => InFlightIsLive
  BY DEF NapInv, FlightInv, InFlightIsLive
<1> QED
  BY InitNap, StepNap, <1>1, PTL DEF NapSpec

=============================================================================
