------------------------------ MODULE EventLog ------------------------------
(***************************************************************************)
(* The append-only, hash-chained audit log of internal/eventlog and the    *)
(* rotation serve applies to it (internal/maint), through short writes,    *)
(* crashes in the middle of an append, reopening and rotation.             *)
(*                                                                         *)
(* A file is its newline-terminated lines and the unterminated bytes after *)
(* them.  An event's hash is its `id', unique per append; a line json      *)
(* cannot parse is Torn.  A crash loses the process, not what it wrote.    *)
(* Redaction, keys and tampering are not modelled, nor is a second writer, *)
(* which Open's comment rules out.                                         *)
(***************************************************************************)
EXTENDS Integers, Sequences

CONSTANTS
  MaxAppends,     \* bound: calls of Append
  MaxFaults,      \* bound: writes, mirror inserts and heals that fail
  MaxRotations    \* bound: rotations

ASSUME BoundsAssumption ==
  MaxAppends \in Nat /\ MaxFaults \in Nat /\ MaxRotations \in Nat

VARIABLES
  live,       \* the file at the log's path
  rotated,    \* the generations moved aside: <path>.1 first
  pc,         \* "down", "idle", or "mirror": in Append, after the write
  anchor,     \* l.prev and l.seq
  failed,     \* l.err # nil
  mirror,     \* the rows of the store's events table
  landed,     \* history: the events of this generation whose write returned
  appends,    \* calls of Append so far
  faults      \* faults so far

vars == <<live, rotated, pc, anchor, failed, mirror, landed, appends, faults>>

Event == [id : Nat \ {0}, prev : Nat, seq : Nat]
Torn == [id |-> 0, prev |-> 0, seq |-> 0]
Line == Event \cup {Torn}
File == [lines : Seq(Line), tail : Seq(Line)]

Empty == [lines |-> <<>>, tail |-> <<>>]
WithTail(t) == [lines |-> live.lines, tail |-> t]
Readable(l) == l # Torn

\* strings.Split of the trimmed file: an unterminated tail is a line too
Lines(f) == f.lines \o f.tail

\* every line parses, has the next sequence number and links to the last
Chained(ls) == \A i \in DOMAIN ls :
  /\ Readable(ls[i])
  /\ ls[i].seq = i - 1
  /\ ls[i].prev = IF i = 1 THEN 0 ELSE ls[i - 1].id

\* Verify returns nil
Verify(f) == Chained(Lines(f))

-----------------------------------------------------------------------------
(* Append                                                                  *)

Genesis == [prev |-> 0, seq |-> 0]
After(e) == [prev |-> e.id, seq |-> e.seq + 1]

\* the event Append links to the chain
Linked == [id |-> appends + 1, prev |-> anchor.prev, seq |-> anchor.seq]

\* what a write leaves as the file's last line: its bytes follow whatever an
\* earlier write left unterminated
Glued(e) == IF live.tail = <<>> THEN e ELSE Torn

\* what a write cut short leaves after the last terminator: nothing more, a
\* prefix of the record, or the record without its terminator
Cut(e) == {live.tail, <<Torn>>} \cup (IF live.tail = <<>> THEN {<<e>>} ELSE {})

\* the write returned all its bytes: only now the chain advances
Lands(e) ==
  /\ live' = [lines |-> Append(live.lines, Glued(e)), tail |-> <<>>]
  /\ landed' = Append(landed, e)
  /\ anchor' = After(e)
  /\ pc' = "mirror"
  /\ UNCHANGED <<failed, faults>>

\* an error or a short write: l.prev and l.seq stay, the failure is kept
FailsShort(e) ==
  /\ faults < MaxFaults
  /\ faults' = faults + 1
  /\ \E t \in Cut(e) : live' = WithTail(t)
  /\ failed' = TRUE
  /\ UNCHANGED <<pc, anchor, landed>>

\* the process dies in the write
DiesWriting(e) ==
  /\ \E t \in Cut(e) : live' = WithTail(t)
  /\ pc' = "down"
  /\ UNCHANGED <<anchor, failed, landed, faults>>

Write ==
  /\ pc = "idle"
  /\ appends < MaxAppends
  /\ appends' = appends + 1
  /\ \/ Lands(Linked)
     \/ FailsShort(Linked)
     \/ DiesWriting(Linked)
  /\ UNCHANGED <<rotated, mirror>>

\* the rest of Append, still under the lock: the row in the second backing
Mirror ==
  /\ pc = "mirror"
  /\ pc' = "idle"
  /\ \/ /\ mirror' = Append(mirror, landed[Len(landed)])
        /\ UNCHANGED <<failed, faults>>
     \/ /\ faults < MaxFaults
        /\ faults' = faults + 1
        /\ failed' = TRUE
        /\ UNCHANGED mirror
  /\ UNCHANGED <<live, rotated, anchor, landed, appends>>

-----------------------------------------------------------------------------
(* Open, rotation and the end of the process                               *)

\* Close between two appends, or a crash there or before the mirror's insert
Stop ==
  /\ pc # "down"
  /\ pc' = "down"
  /\ UNCHANGED <<live, rotated, anchor, failed, mirror, landed, appends, faults>>

\* lastEvent: the last line that parses, wherever it is
ResumesAt(f, a) ==
  \/ /\ \A i \in DOMAIN Lines(f) : ~Readable(Lines(f)[i])
     /\ a = Genesis
  \/ \E i \in DOMAIN Lines(f) :
       /\ Readable(Lines(f)[i])
       /\ \A j \in DOMAIN Lines(f) : j > i => ~Readable(Lines(f)[j])
       /\ a = After(Lines(f)[i])

\* Mutant: the heal trims the last line, terminated or not.
Heal_LastLine ==
  /\ live' = [lines |-> SubSeq(live.lines, 1, Len(live.lines) - 1), tail |-> <<>>]
  /\ UNCHANGED faults

\* Mutant: a torn tail is left in place.
Heal_Nothing == UNCHANGED <<live, faults>>

\* healTornTail, whose errors Open ignores
Heal ==
  \/ /\ live' = WithTail(<<>>)
     /\ UNCHANGED faults
  \/ /\ live.tail # <<>>
     /\ faults < MaxFaults
     /\ faults' = faults + 1
     /\ UNCHANGED live

Anchors == {Genesis} \cup {After(Lines(live)[i]) : i \in DOMAIN Lines(live)}

Open ==
  /\ pc = "down"
  /\ Heal
  /\ \E a \in Anchors : ResumesAt(live', a) /\ anchor' = a
  /\ failed' = FALSE
  /\ pc' = "idle"
  /\ UNCHANGED <<rotated, mirror, landed, appends>>

\* serve boots over a log above its size cap: RotateLog, before Open
Rotate ==
  /\ pc = "down"
  /\ Len(rotated) < MaxRotations
  /\ live.lines # <<>>
  /\ rotated' = <<[file |-> live, landed |-> landed]>> \o rotated
  /\ live' = Empty
  /\ landed' = <<>>
  /\ UNCHANGED <<pc, anchor, failed, mirror, appends, faults>>

Init ==
  /\ live = Empty
  /\ rotated = <<>>
  /\ pc = "down"
  /\ anchor = Genesis
  /\ failed = FALSE
  /\ mirror = <<>>
  /\ landed = <<>>
  /\ appends = 0
  /\ faults = 0

Next == Write \/ Mirror \/ Stop \/ Open \/ Rotate

Spec == Init /\ [][Next]_vars

-----------------------------------------------------------------------------
(* Properties                                                              *)

\* Every variable has its type.
TypeOK ==
  /\ live \in File /\ Len(live.tail) <= 1
  /\ rotated \in Seq([file : File, landed : Seq(Event)])
  /\ pc \in {"down", "idle", "mirror"}
  /\ anchor \in [prev : Nat, seq : Nat]
  /\ failed \in BOOLEAN
  /\ mirror \in Seq(Event)
  /\ landed \in Seq(Event)
  /\ appends \in 0 .. MaxAppends
  /\ faults \in 0 .. MaxFaults

\* A file whose events all verify holds exactly the events that landed in it,
\* in order, and at most one more whose terminator did not reach the disk.
Honest(f, events) ==
  Verify(f) => f.lines = events

\* A log, live or rotated, that passes Verify has lost no event: whatever
\* short writes, crashes and failed heals happened, a loss breaks the chain
\* (Append eventlog.go:277-282, "never a silent gap").
VerifyIsHonest ==
  /\ Honest(live, landed)
  /\ \A g \in DOMAIN rotated : Honest(rotated[g].file, rotated[g].landed)

\* The sequence numbers of the readable lines grow strictly and lie below the
\* next one Append hands out: a corrupt tail never restarts the sequence
\* (lastEvent eventlog.go:394-402).
ReadableInOrder ==
  /\ \A i, j \in DOMAIN live.lines :
       i < j /\ Readable(live.lines[i]) /\ Readable(live.lines[j])
         => live.lines[i].seq < live.lines[j].seq
  /\ pc # "down" => \A i \in DOMAIN live.lines :
       Readable(live.lines[i]) => live.lines[i].seq < anchor.seq

\* As long as no system call failed, an open log verifies end to end, however
\* often the process died in the middle of an append (healTornTail).
LiveVerifies == pc # "down" /\ faults = 0 => Verify(live)

\* A row of the store is a line of the log or of a rotated generation: "Only
\* after the file write landed, so the two backings agree" (eventlog.go:287).
\* It fails after a short write: the next record lands behind the partial one,
\* where nobody can read it, and gets its row all the same.
MirrorIsReadable ==
  \A r \in DOMAIN mirror :
    \/ \E i \in DOMAIN live.lines : live.lines[i] = mirror[r]
    \/ \E g \in DOMAIN rotated :
         \E i \in DOMAIN rotated[g].file.lines : rotated[g].file.lines[i] = mirror[r]

\* As long as no system call failed, the second backing never holds an event
\* the files do not, through crashes, reopening and rotation (the insert
\* follows the write, eventlog.go:286-288).
MirrorNeverLeads == faults = 0 => MirrorIsReadable

\* Both at once: crashes alone, wherever they fall, leave an open log whole and the store
\* behind it (eventlog.go:221-248, 286-288).
CrashesLoseNothing == LiveVerifies /\ MirrorNeverLeads

\* Terminated lines are never changed or dropped, by an append, a heal or a
\* rotation, which moves them as they are (I5, healTornTail, RotateLog).
AppendOnly == [][
  \/ /\ rotated' = rotated
     /\ Len(live.lines) <= Len(live'.lines)
     /\ SubSeq(live'.lines, 1, Len(live.lines)) = live.lines
  \/ /\ Len(rotated') = Len(rotated) + 1
     /\ SubSeq(rotated', 2, Len(rotated')) = rotated
     /\ rotated'[1].file.lines = live.lines
  ]_vars

=============================================================================
