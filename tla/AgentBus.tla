------------------------------ MODULE AgentBus ------------------------------
(***************************************************************************)
(* The message bus between a supervisor and its workers                     *)
(* (internal/agent/bus), with the supervisor's reader goroutine             *)
(* (internal/super/reader.go).                                              *)
(*                                                                         *)
(* Three kinds of actor send: a worker asks (and waits) or shares a         *)
(* finding, the reader replies to what it took out of the supervisor's      *)
(* mailbox, the supervisor's own loop steers workers and at last stops the  *)
(* reader.  A mailbox is a channel; the lock of the bus is a Go RWMutex, a   *)
(* delivery holds it for reading while it waits for room, and an actor that *)
(* waits to write keeps new readers out.  Nobody takes from the mailbox of  *)
(* a worker, in the code as here.  Broadcasts and relays are not used by    *)
(* the program: every message has one recipient and hops to spare.          *)
(***************************************************************************)
EXTENDS Integers, Sequences, FiniteSets

CONSTANTS
  Workers,      \* spawned workers
  Supervisor,   \* the supervisor's loop; also the name of its mailbox
  Reader,       \* the reader goroutine
  Depth,        \* mailboxDepth
  MaxMessages,  \* maxMessages; 0 is no ceiling
  MaxSends,     \* messages sent but for the replies (bound)
  None          \* nothing in hand; nobody waits

ASSUME BusAssumption ==
  /\ IsFiniteSet(Workers) /\ Depth \in Nat \ {0}
  /\ MaxMessages \in Nat /\ MaxSends \in Nat
  /\ Supervisor \notin Workers /\ Reader \notin Workers \union {Supervisor}

Actors == Workers \union {Supervisor, Reader}
Boxes  == Workers \union {Supervisor}

Message == [kind : {"finding", "question", "answer", "steer"}, of : Boxes, n : 1 .. MaxSends,
            to : Boxes]

ASSUME NoneAssumption == None \notin Nat /\ None \notin Message

VARIABLES
  pc,        \* each actor: where it stands
  hand,      \* the message it is sending, or the question the reader answers
  registered,\* b.boxes: the mailboxes in the map
  box,       \* the channel of a mailbox
  closed,    \* its channel has been closed
  readers,   \* who holds the lock for reading
  waiters,   \* b.waiters, of the ask in progress: the correlated worker's, or None
  reply,     \* the reply channel of that ask: the reply it holds, or None
  msgCount,
  stopc,     \* the reader's stop channel is closed
  ctxDone,   \* the run's context is over
  findings,  \* the reader's queue of findings
  seq        \* the number of the last of them

locking == <<registered, box, closed, readers>>
asking  == <<waiters, reply>>
reading == <<stopc, findings>>
vars    == <<pc, hand, locking, asking, msgCount, reading, ctxDone, seq>>

Init ==
  /\ pc = [a \in Actors |-> IF a \in Workers THEN "register" ELSE "idle"]
  /\ hand = [a \in Actors |-> None]
  /\ registered = {Supervisor}
  /\ box = [b \in Boxes |-> <<>>] /\ closed = [b \in Boxes |-> FALSE]
  /\ readers = {} /\ msgCount = 0
  /\ waiters = [w \in Workers |-> None] /\ reply = [w \in Workers |-> None]
  /\ stopc = FALSE /\ ctxDone = FALSE /\ findings = <<>>
  /\ seq = 0

Goto(a, l) == pc' = [pc EXCEPT ![a] = l]

-----------------------------------------------------------------------------
(* The lock.                                                                *)

\* Where an actor has called Lock.
LockPoints == {"register", "waiter", "retire", "deregister", "reply"}

WriterWaits == \E a \in Actors : pc[a] \in LockPoints

\* Mutant: a mailbox is closed under nobody's lock.
MayWrite_Always == TRUE

MayWrite == readers = {}

-----------------------------------------------------------------------------
(* What a worker does.                                                      *)

\* NewPeer.
Register(w) ==
  /\ pc[w] = "register" /\ MayWrite
  /\ registered' = registered \union {w}
  /\ Goto(w, "idle")
  /\ UNCHANGED <<hand, box, closed, readers, asking, msgCount, reading, ctxDone, seq>>

\* Mutant: the question is on its way before its waiter is in the map.
AskSteps_SendFirst == <<"count", "waiter">>

AskSteps == <<"waiter", "count">>

\* A message is known by the number the bus mints for it.
Share(w) ==
  /\ pc[w] = "idle" /\ seq < MaxSends
  /\ seq' = seq + 1
  /\ hand' = [hand EXCEPT ![w] = [kind |-> "finding", of |-> w, n |-> seq + 1,
                                   to |-> Supervisor]]
  /\ Goto(w, "count")
  /\ UNCHANGED <<locking, asking, msgCount, reading, ctxDone>>

Ask(w) ==
  /\ pc[w] = "idle" /\ seq < MaxSends
  /\ seq' = seq + 1
  /\ hand' = [hand EXCEPT ![w] = [kind |-> "question", of |-> w, n |-> seq + 1,
                                   to |-> Supervisor]]
  /\ reply' = [reply EXCEPT ![w] = None]
  /\ Goto(w, AskSteps[1])
  /\ UNCHANGED <<locking, waiters, msgCount, reading, ctxDone>>

\* Where an ask goes from a step: the next of its steps, and then to wait.
After(s) == IF AskSteps[1] = s THEN AskSteps[2] ELSE "wait"

AddWaiter(w) ==
  /\ pc[w] = "waiter" /\ MayWrite
  /\ waiters' = [waiters EXCEPT ![w] = hand[w].n]
  /\ Goto(w, After("waiter"))
  /\ UNCHANGED <<hand, locking, reply, msgCount, reading, ctxDone, seq>>

\* The reply, or the timeout, or the end of the context: whichever is seen first.
Answered(w) ==
  /\ pc[w] = "wait"
  /\ Goto(w, "retire")
  /\ UNCHANGED <<hand, locking, asking, msgCount, reading, ctxDone, seq>>

RetireWaiter(w) ==
  /\ pc[w] = "retire" /\ MayWrite
  /\ waiters' = [waiters EXCEPT ![w] = None] /\ reply' = [reply EXCEPT ![w] = None]
  /\ hand' = [hand EXCEPT ![w] = None]
  /\ Goto(w, "idle")
  /\ UNCHANGED <<locking, msgCount, reading, ctxDone, seq>>

\* A worker that ends, and the supervisor once it stops the reader, call Deregister.
Leave(w) ==
  /\ pc[w] = "idle"
  /\ Goto(w, "deregister")
  /\ UNCHANGED <<hand, locking, asking, msgCount, reading, ctxDone, seq>>

Deregister(b) ==
  /\ pc[b] = "deregister" /\ MayWrite
  /\ registered' = registered \ {b} /\ closed' = [closed EXCEPT ![b] = TRUE]
  /\ Goto(b, "left")
  /\ UNCHANGED <<hand, box, readers, asking, msgCount, reading, ctxDone, seq>>

-----------------------------------------------------------------------------
(* Send.                                                                    *)

\* Where an actor goes when its message is sent or dropped.
Back(a) ==
  IF a \in Workers /\ hand[a].kind = "question" THEN After("count") ELSE "idle"

Done(a) ==
  /\ Goto(a, Back(a))
  /\ hand' = IF Back(a) = "idle" THEN [hand EXCEPT ![a] = None] ELSE hand

\* The ceiling. A correlated reply goes to its waiter first.
Count(a) ==
  /\ pc[a] = "count"
  /\ msgCount' = IF MaxMessages > 0 THEN msgCount + 1 ELSE msgCount
  /\ \/ MaxMessages > 0 /\ msgCount + 1 > MaxMessages /\ Done(a)
     \/ /\ MaxMessages = 0 \/ msgCount + 1 <= MaxMessages
        /\ Goto(a, IF hand[a].kind = "answer" THEN "reply" ELSE "deliver")
        /\ UNCHANGED hand
  /\ UNCHANGED <<locking, asking, reading, ctxDone, seq>>

\* deliverReply.
DeliverReply(a) ==
  LET w == hand[a].of IN
  /\ pc[a] = "reply" /\ MayWrite
  /\ \/ /\ waiters[w] = hand[a].n
        /\ waiters' = [waiters EXCEPT ![w] = None]
        /\ reply' = [reply EXCEPT ![w] = hand[a].n]
        /\ Done(a)
     \/ waiters[w] # hand[a].n /\ Goto(a, "deliver") /\ UNCHANGED <<hand, asking>>
  /\ UNCHANGED <<locking, msgCount, reading, ctxDone, seq>>

\* deliverOne takes the lock for reading and looks the mailbox up.
Lookup(a) ==
  /\ pc[a] = "deliver" /\ ~WriterWaits
  /\ \/ /\ hand[a].to \in registered
        /\ readers' = readers \union {a} /\ Goto(a, "send") /\ UNCHANGED hand
     \/ hand[a].to \notin registered /\ Done(a) /\ UNCHANGED readers
  /\ UNCHANGED <<registered, box, closed, asking, msgCount, reading, ctxDone, seq>>

HasRoom(b) == Len(box[b]) < Depth

\* Mutant: a delivery waits for room as long as it takes.
MayDrop_Never == FALSE

MayDrop == TRUE

\* The message enters the mailbox, or the wait is over; the lock is released.
Deliver(a) ==
  LET b == hand[a].to IN
  /\ pc[a] = "send"
  /\ \/ HasRoom(b) /\ box' = [box EXCEPT ![b] = Append(@, hand[a])]
     \/ ~HasRoom(b) /\ MayDrop /\ UNCHANGED box
  /\ readers' = readers \ {a}
  /\ Done(a)
  /\ UNCHANGED <<registered, closed, asking, msgCount, reading, ctxDone, seq>>

-----------------------------------------------------------------------------
(* The reader.                                                              *)

\* A message is taken; a closed mailbox still gives what it holds.
Handle ==
  /\ pc[Reader] = "idle" /\ box[Supervisor] # <<>>
  /\ LET m == Head(box[Supervisor]) IN
       \/ /\ m.kind = "finding"
          /\ findings' = Append(findings, m)
          /\ UNCHANGED <<pc, hand>>
       \/ /\ m.kind = "question"
          /\ hand' = [hand EXCEPT ![Reader] = [m EXCEPT !.kind = "answer", !.to = m.of]]
          /\ Goto(Reader, "count")
          /\ UNCHANGED findings
  /\ box' = [box EXCEPT ![Supervisor] = Tail(@)]
  /\ UNCHANGED <<registered, closed, readers, asking, msgCount, stopc, ctxDone, seq>>

Exit ==
  /\ pc[Reader] = "idle"
  /\ stopc \/ ctxDone \/ (closed[Supervisor] /\ box[Supervisor] = <<>>)
  /\ Goto(Reader, "done")
  /\ UNCHANGED <<hand, locking, asking, msgCount, reading, ctxDone, seq>>

-----------------------------------------------------------------------------
(* The supervisor's loop.                                                   *)

\* takeFindings.
TakeFindings ==
  /\ pc[Supervisor] = "idle" /\ findings # <<>>
  /\ findings' = <<>>
  /\ UNCHANGED <<pc, hand, locking, asking, msgCount, stopc, ctxDone, seq>>

Steer ==
  /\ pc[Supervisor] = "idle" /\ seq < MaxSends
  /\ seq' = seq + 1
  /\ \E w \in Workers :
       hand' = [hand EXCEPT ![Supervisor] = [kind |-> "steer", of |-> Supervisor,
                                              n |-> seq + 1, to |-> w]]
  /\ Goto(Supervisor, "count")
  /\ UNCHANGED <<locking, asking, msgCount, reading, ctxDone>>

\* stop: the channel is closed, the mailbox deregistered, the goroutine awaited.
Stop ==
  /\ pc[Supervisor] = "idle"
  /\ stopc' = TRUE
  /\ Goto(Supervisor, "deregister")
  /\ UNCHANGED <<hand, locking, asking, msgCount, findings, ctxDone, seq>>

Join ==
  /\ pc[Supervisor] = "left" /\ pc[Reader] = "done"
  /\ Goto(Supervisor, "joined")
  /\ UNCHANGED <<hand, locking, asking, msgCount, reading, ctxDone, seq>>

Cancel ==
  /\ ~ctxDone /\ ctxDone' = TRUE
  /\ UNCHANGED <<pc, hand, locking, asking, msgCount, reading, seq>>

-----------------------------------------------------------------------------

\* What an actor does once it has begun.
Step(a) == Count(a) \/ DeliverReply(a) \/ Lookup(a) \/ Deliver(a)

WorkerStep(w) ==
  Register(w) \/ AddWaiter(w) \/ Answered(w) \/ RetireWaiter(w) \/ Deregister(w)

Moves ==
  \/ \E a \in Actors : Step(a)
  \/ \E w \in Workers : WorkerStep(w)
  \/ Handle \/ Exit \/ Deregister(Supervisor) \/ Join

Choices ==
  \/ \E w \in Workers : Share(w) \/ Ask(w) \/ Leave(w)
  \/ TakeFindings \/ Steer \/ Stop \/ Cancel

Next == Moves \/ Choices

\* Every goroutine runs, and the lock is handed to a writer that waits; that a wait for
\* room or for a reply ends is the business of the timers.
Fairness ==
  /\ \A a \in Actors : WF_vars(Step(a))
  /\ \A w \in Workers : WF_vars(WorkerStep(w))
  /\ WF_vars(Handle) /\ WF_vars(Exit) /\ WF_vars(Deregister(Supervisor)) /\ WF_vars(Join)

Spec == Init /\ [][Next]_vars /\ Fairness

-----------------------------------------------------------------------------
(* Properties.                                                              *)

\* Type invariant.
TypeOK ==
  /\ pc \in [Actors -> LockPoints \union {"idle", "count", "wait", "deliver", "send", "left",
                                           "done", "joined"}]
  /\ hand \in [Actors -> Message \union {None}]
  /\ registered \subseteq Boxes /\ closed \in [Boxes -> BOOLEAN]
  /\ box \in [Boxes -> Seq(Message)] /\ \A b \in Boxes : Len(box[b]) <= Depth
  /\ readers \subseteq Actors
  /\ waiters \in [Workers -> (1 .. MaxSends) \union {None}]
  /\ reply \in [Workers -> (1 .. MaxSends) \union {None}]
  /\ msgCount \in Nat /\ stopc \in BOOLEAN /\ ctxDone \in BOOLEAN
  /\ findings \in Seq(Message)
  /\ seq \in 0 .. MaxSends

\* No delivery is under way into a channel that was closed, which would panic, whoever
\* deregisters meanwhile (bus.go:239-245).
NeverIntoClosed == \A a \in Actors : pc[a] = "send" => ~closed[hand[a].to]

\* A reply that an asker holds is the reply to the question it asked; and the reply to a
\* question lies in no mailbox while the one who asked still waits for it: nobody takes
\* from that mailbox, so it would be parked there for good (bus.go:158-166, 197-203).
ReplyFindsItsAsk ==
  \A w \in Workers :
    /\ reply[w] # None => hand[w] # None /\ reply[w] = hand[w].n
    /\ pc[w] = "wait" =>
         \A b \in Boxes : \A i \in DOMAIN box[b] :
           ~(box[b][i].kind = "answer" /\ box[b][i].of = w /\ box[b][i].n = hand[w].n)

\* A supervisor that stops its reader gets to the end of it, although deliveries hold the
\* lock that its Deregister needs and the reader may be about to take it (bus.go:13-19,
\* reader.go:140-150).
StopEnds == stopc ~> pc[Supervisor] = "joined"

=============================================================================
