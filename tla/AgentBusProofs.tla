--------------------------- MODULE AgentBusProofs ---------------------------
(***************************************************************************)
(* Proofs about the agent bus, for any workers, depth of a mailbox and      *)
(* ceiling: no delivery is under way into a closed channel, and an ask gets  *)
(* the reply to its own question.                                           *)
(*                                                                         *)
(* The first argument is the one of the lock: who delivers holds it for     *)
(* reading and found the mailbox in the map, a mailbox leaves the map and   *)
(* is closed in one step that needs the lock for writing, and a mailbox     *)
(* that was closed is never put back, since its owner is gone (BInv).       *)
(*                                                                         *)
(* The second follows one question: it is in one place at a time, the hand  *)
(* of its asker, the mailbox of the supervisor or the hand of the reader,   *)
(* and its waiter is in the map before it can be in the second.  So the     *)
(* answer that the reader makes of it finds the waiter, or an asker that    *)
(* has left (RInv).                                                         *)
(***************************************************************************)
EXTENDS AgentBus, TLAPS

\* What of the types the argument needs.
Shapes ==
  /\ DOMAIN pc = Actors
  /\ DOMAIN hand = Actors
  /\ closed \in [Boxes -> BOOLEAN]
  /\ registered \subseteq Boxes

\* Who delivers holds the lock, and its mailbox is in the map.
Delivering == \A a \in Actors : pc[a] = "send" => a \in readers /\ hand[a].to \in registered

\* A closed mailbox is out of the map and its owner is gone.
ClosedIsGone ==
  \A b \in Boxes : closed[b] => b \notin registered /\ pc[b] \in {"left", "joined"}

BInv == Shapes /\ Delivering /\ ClosedIsGone

-----------------------------------------------------------------------------

LEMMA InitBInv == Init => BInv
<1> SUFFICES ASSUME Init PROVE BInv
  OBVIOUS
<1>1. \A a \in Actors : pc[a] # "send"
  BY DEF Init
<1>2. DOMAIN pc = Actors
  BY <1>1 DEF Init
<1>3. DOMAIN hand = Actors /\ closed \in [Boxes -> BOOLEAN] /\ registered \subseteq Boxes
  BY DEF Init, Boxes
<1>4. ClosedIsGone
  BY DEF Init, ClosedIsGone
<1> QED
  BY <1>1, <1>2, <1>3, <1>4 DEF BInv, Shapes, Delivering

LEMMA BInvImplies == BInv => NeverIntoClosed
BY DEF BInv, Shapes, Delivering, ClosedIsGone, NeverIntoClosed

\* An actor that is not gone goes on: nothing is closed, and it does not begin to deliver.
LEMMA MovesOn ==
  ASSUME BInv, NEW a \in Actors, NEW l, l # "send",
         pc[a] # "left", pc[a] # "joined", pc' = [pc EXCEPT ![a] = l],
         registered' = registered, closed' = closed,
         DOMAIN hand' = Actors,
         \A c \in Actors \ {a} : hand'[c] = hand[c],
         \A c \in Actors \ {a} : c \in readers => c \in readers'
  PROVE  BInv'
<1>1. /\ DOMAIN pc' = Actors /\ pc'[a] = l
      /\ \A c \in Actors \ {a} : pc'[c] = pc[c]
  BY DEF BInv, Shapes
<1>2. Shapes'
  BY <1>1 DEF BInv, Shapes
<1>3. Delivering'
  BY <1>1 DEF BInv, Delivering
<1>4. ClosedIsGone'
  BY <1>1 DEF BInv, ClosedIsGone, Boxes, Actors
<1> QED
  BY <1>2, <1>3, <1>4 DEF BInv

\* Nobody moves.
LEMMA StaysPut ==
  ASSUME BInv, UNCHANGED <<pc, registered, closed, readers>>,
         DOMAIN hand' = Actors, \A a \in Actors : pc[a] = "send" => hand'[a] = hand[a]
  PROVE  BInv'
BY DEF BInv, Shapes, Delivering, ClosedIsGone

LEMMA Places ==
  /\ AskSteps[1] = "waiter" /\ AskSteps[2] = "count"
  /\ After("waiter") = "count" /\ After("count") = "wait"
  /\ \A a \in Actors : Back(a) \in {"wait", "idle"}
<1>1. AskSteps[1] = "waiter" /\ AskSteps[2] = "count"
  BY DEF AskSteps
<1>2. After("waiter") = "count" /\ After("count") = "wait"
  BY <1>1 DEF After
<1> QED
  BY <1>1, <1>2 DEF Back

\* A message that is sent or dropped ends the sending.
LEMMA DoneKeeps ==
  ASSUME BInv, NEW a \in Actors, pc[a] # "left", pc[a] # "joined", Done(a),
         registered' = registered, closed' = closed,
         \A c \in Actors \ {a} : c \in readers => c \in readers'
  PROVE  BInv'
<1>1. pc' = [pc EXCEPT ![a] = Back(a)] /\ Back(a) # "send"
  BY Places DEF Done, Goto
<1>2. DOMAIN hand' = Actors /\ \A c \in Actors \ {a} : hand'[c] = hand[c]
  BY DEF Done, BInv, Shapes
<1> QED
  BY <1>1, <1>2, MovesOn

-----------------------------------------------------------------------------
(* One lemma for each group of actions.                                     *)

LEMMA StepKeeps ==
  ASSUME BInv, NEW a \in Actors, Step(a)
  PROVE  BInv'
<1>0. DOMAIN hand = Actors /\ DOMAIN pc = Actors
  BY DEF BInv, Shapes
<1>1. CASE Count(a)
  <2>1. /\ pc[a] = "count"
        /\ registered' = registered /\ closed' = closed /\ readers' = readers
    BY <1>1 DEF Count, locking
  <2>2. CASE Done(a)
    BY <2>1, <2>2, DoneKeeps
  <2>3. CASE Goto(a, IF hand[a].kind = "answer" THEN "reply" ELSE "deliver") /\ UNCHANGED hand
    <3> DEFINE l == IF hand[a].kind = "answer" THEN "reply" ELSE "deliver"
    <3>1. l # "send" /\ pc' = [pc EXCEPT ![a] = l]
      BY <2>3 DEF Goto
    <3> HIDE DEF l
    <3> QED
      BY <1>0, <2>1, <2>3, <3>1, MovesOn
  <2> QED
    BY <1>1, <2>2, <2>3 DEF Count
<1>2. CASE DeliverReply(a)
  <2>1. /\ pc[a] = "reply"
        /\ registered' = registered /\ closed' = closed /\ readers' = readers
    BY <1>2 DEF DeliverReply, locking
  <2>2. CASE Done(a)
    BY <2>1, <2>2, DoneKeeps
  <2>3. CASE Goto(a, "deliver") /\ UNCHANGED hand
    BY <1>0, <2>1, <2>3, MovesOn DEF Goto
  <2> QED
    BY <1>2, <2>2, <2>3 DEF DeliverReply
<1>3. CASE Lookup(a)
  <2>1. pc[a] = "deliver" /\ registered' = registered /\ closed' = closed
    BY <1>3 DEF Lookup
  <2>2. CASE Done(a) /\ UNCHANGED readers
    BY <2>1, <2>2, DoneKeeps
  <2>3. CASE /\ hand[a].to \in registered
             /\ readers' = readers \union {a} /\ Goto(a, "send") /\ UNCHANGED hand
    <3>1. /\ DOMAIN pc' = Actors /\ pc'[a] = "send"
          /\ \A c \in Actors \ {a} : pc'[c] = pc[c]
      BY <1>0, <2>3 DEF Goto
    <3>2. Shapes' /\ Delivering'
      BY <2>1, <2>3, <3>1 DEF BInv, Shapes, Delivering
    <3>3. ClosedIsGone'
      BY <2>1, <3>1 DEF BInv, ClosedIsGone, Boxes, Actors
    <3> QED
      BY <3>2, <3>3 DEF BInv
  <2> QED
    BY <1>3, <2>2, <2>3 DEF Lookup
<1>4. CASE Deliver(a)
  <2>1. /\ pc[a] = "send" /\ registered' = registered /\ closed' = closed /\ Done(a)
        /\ readers' = readers \ {a}
    BY <1>4 DEF Deliver
  <2> QED
    BY <2>1, DoneKeeps
<1> QED
  BY <1>1, <1>2, <1>3, <1>4 DEF Step

\* The write side: nobody delivers meanwhile.
LEMMA RegisterKeeps ==
  ASSUME BInv, NEW w \in Workers, Register(w)
  PROVE  BInv'
<1>1. /\ pc[w] = "register" /\ readers = {} /\ registered' = registered \union {w}
      /\ Goto(w, "idle") /\ UNCHANGED <<hand, closed, readers>> /\ w \in Actors /\ w \in Boxes
  BY DEF Register, MayWrite, Actors, Boxes
<1>2. /\ DOMAIN pc' = Actors /\ pc'[w] = "idle"
      /\ \A c \in Actors \ {w} : pc'[c] = pc[c]
  BY <1>1 DEF BInv, Shapes, Goto
<1>3. Shapes' /\ Delivering'
  BY <1>1, <1>2 DEF BInv, Shapes, Delivering
<1>4. ClosedIsGone'
  BY <1>1, <1>2 DEF BInv, ClosedIsGone, Boxes, Actors
<1> QED
  BY <1>3, <1>4 DEF BInv

LEMMA DeregisterKeeps ==
  ASSUME BInv, NEW b \in Boxes, Deregister(b)
  PROVE  BInv'
<1>1. /\ pc[b] = "deregister" /\ readers = {} /\ registered' = registered \ {b}
      /\ closed' = [closed EXCEPT ![b] = TRUE]
      /\ Goto(b, "left") /\ UNCHANGED <<hand, readers>> /\ b \in Actors
  BY DEF Deregister, MayWrite, Actors, Boxes
<1>2. /\ DOMAIN pc' = Actors /\ pc'[b] = "left"
      /\ \A c \in Actors \ {b} : pc'[c] = pc[c]
  BY <1>1 DEF BInv, Shapes, Goto
<1>3. Shapes'
  BY <1>1, <1>2 DEF BInv, Shapes
<1>4. Delivering'
  <2>1. \A c \in Actors : pc[c] # "send"
    BY <1>1 DEF BInv, Delivering
  <2> QED
    BY <1>2, <2>1 DEF Delivering
<1>5. ClosedIsGone'
  BY <1>1, <1>2 DEF BInv, Shapes, ClosedIsGone, Boxes, Actors
<1> QED
  BY <1>3, <1>4, <1>5 DEF BInv

LEMMA WorkerKeeps ==
  ASSUME BInv, NEW w \in Workers, WorkerStep(w) \/ Share(w) \/ Ask(w) \/ Leave(w)
  PROVE  BInv'
<1>0. w \in Actors /\ w \in Boxes /\ DOMAIN hand = Actors
  BY DEF Actors, Boxes, BInv, Shapes
<1>1. CASE Register(w)
  BY <1>1, RegisterKeeps
<1>2. CASE Deregister(w)
  BY <1>0, <1>2, DeregisterKeeps
<1>3. CASE AddWaiter(w)
  <2>1. /\ pc[w] # "left" /\ pc[w] # "joined" /\ pc' = [pc EXCEPT ![w] = "count"]
        /\ registered' = registered /\ closed' = closed /\ readers' = readers
    BY <1>3, Places DEF AddWaiter, Goto, locking
  <2>2. DOMAIN hand' = Actors /\ \A c \in Actors \ {w} : hand'[c] = hand[c]
    BY <1>0, <1>3 DEF AddWaiter
  <2> QED
    BY <1>0, <2>1, <2>2, MovesOn
<1>4. CASE Answered(w)
  <2>1. /\ pc[w] # "left" /\ pc[w] # "joined" /\ pc' = [pc EXCEPT ![w] = "retire"]
        /\ registered' = registered /\ closed' = closed /\ readers' = readers
    BY <1>4 DEF Answered, Goto, locking
  <2>2. DOMAIN hand' = Actors /\ \A c \in Actors \ {w} : hand'[c] = hand[c]
    BY <1>0, <1>4 DEF Answered
  <2> QED
    BY <1>0, <2>1, <2>2, MovesOn
<1>5. CASE RetireWaiter(w)
  <2>1. /\ pc[w] # "left" /\ pc[w] # "joined" /\ pc' = [pc EXCEPT ![w] = "idle"]
        /\ registered' = registered /\ closed' = closed /\ readers' = readers
    BY <1>5 DEF RetireWaiter, Goto, locking
  <2>2. DOMAIN hand' = Actors /\ \A c \in Actors \ {w} : hand'[c] = hand[c]
    BY <1>0, <1>5 DEF RetireWaiter
  <2> QED
    BY <1>0, <2>1, <2>2, MovesOn
<1>6. CASE Share(w)
  <2>1. /\ pc[w] # "left" /\ pc[w] # "joined" /\ pc' = [pc EXCEPT ![w] = "count"]
        /\ registered' = registered /\ closed' = closed /\ readers' = readers
    BY <1>6 DEF Share, Goto, locking
  <2>2. DOMAIN hand' = Actors /\ \A c \in Actors \ {w} : hand'[c] = hand[c]
    BY <1>0, <1>6 DEF Share
  <2> QED
    BY <1>0, <2>1, <2>2, MovesOn
<1>7. CASE Ask(w)
  <2>1. /\ pc[w] # "left" /\ pc[w] # "joined" /\ pc' = [pc EXCEPT ![w] = "waiter"]
        /\ registered' = registered /\ closed' = closed /\ readers' = readers
    BY <1>7, Places DEF Ask, Goto, locking
  <2>2. DOMAIN hand' = Actors /\ \A c \in Actors \ {w} : hand'[c] = hand[c]
    BY <1>0, <1>7 DEF Ask
  <2> QED
    BY <1>0, <2>1, <2>2, MovesOn
<1>8. CASE Leave(w)
  <2>1. /\ pc[w] # "left" /\ pc[w] # "joined" /\ pc' = [pc EXCEPT ![w] = "deregister"]
        /\ registered' = registered /\ closed' = closed /\ readers' = readers
    BY <1>8 DEF Leave, Goto, locking
  <2>2. DOMAIN hand' = Actors /\ \A c \in Actors \ {w} : hand'[c] = hand[c]
    BY <1>0, <1>8 DEF Leave
  <2> QED
    BY <1>0, <2>1, <2>2, MovesOn
<1> QED
  BY <1>1, <1>2, <1>3, <1>4, <1>5, <1>6, <1>7, <1>8 DEF WorkerStep

LEMMA ReaderKeeps ==
  ASSUME BInv, Handle \/ Exit
  PROVE  BInv'
<1>0. Reader \in Actors /\ DOMAIN hand = Actors
  BY DEF Actors, BInv, Shapes
<1>1. CASE Handle
  <2>1. /\ pc[Reader] = "idle"
        /\ registered' = registered /\ closed' = closed /\ readers' = readers
    BY <1>1 DEF Handle
  <2>2. CASE UNCHANGED <<pc, hand>>
    BY <1>0, <2>1, <2>2, StaysPut
  <2>3. CASE /\ DOMAIN hand' = Actors /\ \A c \in Actors \ {Reader} : hand'[c] = hand[c]
             /\ Goto(Reader, "count")
    BY <1>0, <2>1, <2>3, MovesOn DEF Goto
  <2>4. ASSUME NEW m, hand' = [hand EXCEPT ![Reader] = m]
        PROVE  DOMAIN hand' = Actors /\ \A c \in Actors \ {Reader} : hand'[c] = hand[c]
    BY <1>0, <2>4
  <2> DEFINE m == Head(box[Supervisor])
             a == [m EXCEPT !.kind = "answer", !.to = m.of]
  <2>5. \/ UNCHANGED <<pc, hand>>
        \/ hand' = [hand EXCEPT ![Reader] = a] /\ Goto(Reader, "count")
    BY <1>1 DEF Handle
  <2> HIDE DEF a
  <2> QED
    BY <2>2, <2>3, <2>4, <2>5
<1>2. CASE Exit
  <2>1. /\ pc[Reader] # "left" /\ pc[Reader] # "joined" /\ pc' = [pc EXCEPT ![Reader] = "done"]
        /\ registered' = registered /\ closed' = closed /\ readers' = readers
    BY <1>2 DEF Exit, Goto, locking
  <2>2. DOMAIN hand' = Actors /\ \A c \in Actors \ {Reader} : hand'[c] = hand[c]
    BY <1>0, <1>2 DEF Exit
  <2> QED
    BY <1>0, <2>1, <2>2, MovesOn
<1> QED
  BY <1>1, <1>2

\* Once gone the supervisor may still be joined by its reader.
LEMMA JoinKeeps ==
  ASSUME BInv, Join
  PROVE  BInv'
<1>1. /\ pc[Supervisor] = "left" /\ Goto(Supervisor, "joined") /\ Supervisor \in Actors
      /\ UNCHANGED <<hand, registered, closed, readers>>
  BY DEF Join, locking, Actors
<1>2. /\ DOMAIN pc' = Actors /\ pc'[Supervisor] = "joined"
      /\ \A c \in Actors \ {Supervisor} : pc'[c] = pc[c]
  BY <1>1 DEF BInv, Shapes, Goto
<1>3. Shapes' /\ Delivering'
  BY <1>1, <1>2 DEF BInv, Shapes, Delivering
<1>4. ClosedIsGone'
  BY <1>1, <1>2 DEF BInv, ClosedIsGone, Boxes, Actors
<1> QED
  BY <1>3, <1>4 DEF BInv

LEMMA SupervisorKeeps ==
  ASSUME BInv, Deregister(Supervisor) \/ TakeFindings \/ Steer \/ Stop \/ Cancel
  PROVE  BInv'
<1>0. Supervisor \in Actors /\ Supervisor \in Boxes /\ DOMAIN hand = Actors
  BY DEF Actors, Boxes, BInv, Shapes
<1>1. CASE Deregister(Supervisor)
  BY <1>0, <1>1, DeregisterKeeps
<1>2. CASE TakeFindings
  BY <1>0, <1>2, StaysPut DEF TakeFindings, locking
<1>3. CASE Steer
  <2>1. /\ pc[Supervisor] # "left" /\ pc[Supervisor] # "joined" /\ pc' = [pc EXCEPT ![Supervisor] = "count"]
        /\ registered' = registered /\ closed' = closed /\ readers' = readers
    BY <1>3 DEF Steer, Goto, locking
  <2>2. DOMAIN hand' = Actors /\ \A c \in Actors \ {Supervisor} : hand'[c] = hand[c]
    BY <1>0, <1>3 DEF Steer
  <2> QED
    BY <1>0, <2>1, <2>2, MovesOn
<1>4. CASE Stop
  <2>1. /\ pc[Supervisor] # "left" /\ pc[Supervisor] # "joined" /\ pc' = [pc EXCEPT ![Supervisor] = "deregister"]
        /\ registered' = registered /\ closed' = closed /\ readers' = readers
    BY <1>4 DEF Stop, Goto, locking
  <2>2. DOMAIN hand' = Actors /\ \A c \in Actors \ {Supervisor} : hand'[c] = hand[c]
    BY <1>0, <1>4 DEF Stop
  <2> QED
    BY <1>0, <2>1, <2>2, MovesOn
<1>5. CASE Cancel
  BY <1>0, <1>5, StaysPut DEF Cancel, locking
<1> QED
  BY <1>1, <1>2, <1>3, <1>4, <1>5

LEMMA NextKeeps == BInv /\ [Next]_vars => BInv'
<1> SUFFICES ASSUME BInv, [Next]_vars PROVE BInv'
  OBVIOUS
<1>1. CASE \E a \in Actors : Step(a)
  BY <1>1, StepKeeps
<1>2. CASE \E w \in Workers : WorkerStep(w) \/ Share(w) \/ Ask(w) \/ Leave(w)
  BY <1>2, WorkerKeeps
<1>3. CASE Handle \/ Exit
  BY <1>3, ReaderKeeps
<1>4. CASE Join
  BY <1>4, JoinKeeps
<1>5. CASE Deregister(Supervisor) \/ TakeFindings \/ Steer \/ Stop \/ Cancel
  BY <1>5, SupervisorKeeps
<1>6. CASE UNCHANGED vars
  <2>1. UNCHANGED <<pc, hand, registered, closed, readers>>
    BY <1>6 DEF vars, locking
  <2> QED
    BY <2>1, StaysPut DEF BInv, Shapes
<1> QED
  BY <1>1, <1>2, <1>3, <1>4, <1>5, <1>6 DEF Next, Moves, Choices

\* No delivery is under way into a channel that was closed, whoever deregisters meanwhile:
\* a send on a closed channel would bring the process down (bus.go:239-245).
THEOREM NeverClosed == Spec => []NeverIntoClosed
<1>1. Spec => []BInv
  BY InitBInv, NextKeeps, PTL DEF Spec
<1> QED
  BY <1>1, BInvImplies, PTL

-----------------------------------------------------------------------------
(* The reply to a question.                                                 *)

Sending == {"count", "reply", "deliver", "send"}

\* What an actor holds, by where it stands.
HandInv ==
  /\ \A a \in Actors : /\ pc[a] \in Sending => hand[a] \in Message
                       /\ hand[a] # None =>
                            /\ hand[a].n <= seq
                            /\ hand[a].kind = "answer" <=> a = Reader
                            /\ hand[a].kind = "question" => a \in Workers
                       /\ pc[a] = "reply" => a = Reader
  /\ \A w \in Workers : hand[w] # None => hand[w].of = w /\ hand[w].to = Supervisor
  /\ \A w \in Workers : pc[w] \in {"waiter", "wait", "retire"} =>
                          hand[w] # None /\ hand[w].kind = "question"
  /\ hand[Reader] # None => pc[Reader] \in Sending /\ hand[Reader].of \in Workers

\* What lies in a mailbox was sent, and a question by a worker.
BoxInv ==
  \A b \in Boxes : \A i \in 1 .. Len(box[b]) :
    /\ box[b][i].n <= seq
    /\ box[b][i].kind = "question" => box[b][i].of \in Workers

\* A waiter or a reply belongs to the ask its worker is in.
MapInv ==
  \A w \in Workers :
    /\ waiters[w] # None =>
         /\ pc[w] \in {"count", "deliver", "send", "wait", "retire"}
         /\ hand[w] # None /\ hand[w].kind = "question" /\ waiters[w] = hand[w].n
    /\ reply[w] # None =>
         pc[w] \in {"wait", "retire"} /\ hand[w] # None /\ reply[w] = hand[w].n

\* Where the question and its reply can be, while the worker waits: in one place.
Is(m, kind, w)    == m.kind = kind /\ m.of = w /\ m.n = hand[w].n
Holds(b, kind, w) == \E i \in 1 .. Len(box[b]) : Is(box[b][i], kind, w)
Once(w) == \A i, j \in 1 .. Len(box[Supervisor]) :
             Is(box[Supervisor][i], "question", w) /\ Is(box[Supervisor][j], "question", w)
               => i = j
ReaderAnswers(w) == hand[Reader] # None /\ hand[Reader].of = w /\ hand[Reader].n = hand[w].n

Waits(w) ==
  /\ hand[w] # None /\ hand[w].kind = "question"
  /\ pc[w] \in {"waiter", "count", "deliver", "send", "wait"}

AskOK(w) ==
  Waits(w) =>
    /\ \A b \in Boxes : ~Holds(b, "answer", w)
    /\ pc[w] # "wait" => ~Holds(Supervisor, "question", w) /\ ~ReaderAnswers(w)
    /\ Once(w)
    /\ Holds(Supervisor, "question", w) => ~ReaderAnswers(w) /\ reply[w] = None
    /\ ReaderAnswers(w) => reply[w] = None /\ pc[Reader] \in {"count", "reply"}
    /\ pc[w] # "waiter" => waiters[w] = hand[w].n \/ reply[w] = hand[w].n

AskInv == \A w \in Workers : AskOK(w)

RInv == TypeOK /\ HandInv /\ BoxInv /\ MapInv /\ AskInv

-----------------------------------------------------------------------------
(* Type correctness.                                                        *)

Spots == LockPoints \union {"idle", "count", "wait", "deliver", "send", "left",
                            "done", "joined"}

\* A message is not None, and neither is its number.
LEMMA MessageFacts ==
  \A m \in Message : /\ m # None
                     /\ m.n \in 1 .. MaxSends /\ m.n \in Nat /\ m.n # None
                     /\ m.of \in Boxes /\ m.to \in Boxes
                     /\ m.kind \in {"finding", "question", "answer", "steer"}
BY NoneAssumption, BusAssumption DEF Message

\* Who goes on, and nobody else.
LEMMA GotoEffect ==
  ASSUME TypeOK, NEW a \in Actors, NEW l \in Spots, Goto(a, l)
  PROVE  /\ pc' \in [Actors -> Spots]
         /\ \A c \in Actors : pc'[c] = IF c = a THEN l ELSE pc[c]
BY DEF TypeOK, Goto, Spots

\* The end of a sending: an asker waits, and anyone else has nothing in hand.
LEMMA DoneEffect ==
  ASSUME TypeOK, NEW a \in Actors, Done(a)
  PROVE  /\ pc' \in [Actors -> Spots]
         /\ hand' \in [Actors -> Message \union {None}]
         /\ \A c \in Actors :
              /\ pc'[c] = IF c # a THEN pc[c]
                          ELSE IF a \in Workers /\ hand[a].kind = "question" THEN "wait"
                          ELSE "idle"
              /\ hand'[c] = IF c # a \/ (a \in Workers /\ hand[a].kind = "question")
                            THEN hand[c] ELSE None
<1>1. Back(a) = IF a \in Workers /\ hand[a].kind = "question" THEN "wait" ELSE "idle"
  BY Places DEF Back
<1>2. Back(a) \in Spots
  BY <1>1 DEF Spots
<1>3. /\ pc' \in [Actors -> Spots]
      /\ \A c \in Actors : pc'[c] = IF c = a THEN Back(a) ELSE pc[c]
  BY <1>2, GotoEffect DEF Done
<1>4. CASE Back(a) = "idle"
  <2>1. hand' = [hand EXCEPT ![a] = None]
    BY <1>4 DEF Done
  <2>2. ~(a \in Workers /\ hand[a].kind = "question")
    BY <1>1, <1>4
  <2> QED
    BY <1>1, <1>3, <2>1, <2>2 DEF TypeOK
<1>5. CASE Back(a) # "idle"
  BY <1>1, <1>3, <1>5 DEF Done, TypeOK
<1> QED
  BY <1>4, <1>5

LEMMA InitBusTypeOK == Init => TypeOK
<1> SUFFICES ASSUME Init PROVE TypeOK
  OBVIOUS
<1>1. pc \in [Actors -> Spots]
  BY DEF Init, Spots, LockPoints
<1>2. \A b \in Boxes : box[b] = <<>> /\ box[b] \in Seq(Message) /\ Len(box[b]) <= Depth
  BY BusAssumption DEF Init
<1>3. box \in [Boxes -> Seq(Message)]
  BY DEF Init
<1>4. registered \subseteq Boxes /\ closed \in [Boxes -> BOOLEAN] /\ seq \in 0 .. MaxSends
  BY BusAssumption DEF Init, Boxes
<1> QED
  BY <1>1, <1>2, <1>3, <1>4 DEF Init, TypeOK, Spots

\* A mailbox that takes a message, and one that gives its oldest.
LEMMA BoxTypes ==
  ASSUME NEW q \in Seq(Message), NEW m \in Message
  PROVE  /\ Append(q, m) \in Seq(Message) /\ Len(Append(q, m)) = Len(q) + 1
         /\ q # <<>> => /\ Tail(q) \in Seq(Message) /\ Head(q) \in Message
                        /\ Len(Tail(q)) <= Len(q)
         /\ Len(q) \in Nat
OBVIOUS

LEMMA StepTypeOK ==
  ASSUME TypeOK, HandInv, NEW a \in Actors, Step(a)
  PROVE  TypeOK'
<1> USE DEF TypeOK
<1>1. CASE Count(a)
  <2>1. /\ pc' \in [Actors -> Spots] /\ hand' \in [Actors -> Message \union {None}]
    <3>1. CASE Done(a)
      BY <3>1, DoneEffect
    <3>2. CASE UNCHANGED hand /\ \E l \in {"reply", "deliver"} : Goto(a, l)
      BY <3>2, GotoEffect DEF Spots, LockPoints
    <3> QED
      BY <1>1, <3>1, <3>2 DEF Count
  <2> QED
    BY <1>1, <2>1 DEF Count, locking, asking, reading, Spots
<1>2. CASE DeliverReply(a)
  <2>1. hand[a] \in Message /\ a = Reader /\ hand[a].of \in Workers
    BY <1>2, MessageFacts DEF DeliverReply, HandInv, Sending
  <2>2. /\ waiters' \in [Workers -> (1 .. MaxSends) \union {None}]
        /\ reply' \in [Workers -> (1 .. MaxSends) \union {None}]
    BY <1>2, <2>1, MessageFacts DEF DeliverReply, asking
  <2>3. /\ pc' \in [Actors -> Spots] /\ hand' \in [Actors -> Message \union {None}]
    BY <1>2, DoneEffect, GotoEffect DEF DeliverReply, Spots
  <2> QED
    BY <1>2, <2>2, <2>3 DEF DeliverReply, locking, reading, Spots
<1>3. CASE Lookup(a)
  <2>1. /\ pc' \in [Actors -> Spots] /\ hand' \in [Actors -> Message \union {None}]
    BY <1>3, DoneEffect, GotoEffect DEF Lookup, Spots
  <2> QED
    BY <1>3, <2>1 DEF Lookup, asking, reading, Spots
<1>4. CASE Deliver(a)
  <2>1. hand[a] \in Message /\ hand[a].to \in Boxes
    BY <1>4, MessageFacts DEF Deliver, HandInv, Sending
  <2>2. /\ box' \in [Boxes -> Seq(Message)] /\ \A b \in Boxes : Len(box'[b]) <= Depth
    <3>1. CASE UNCHANGED box
      BY <3>1
    <3>2. CASE HasRoom(hand[a].to)
               /\ box' = [box EXCEPT ![hand[a].to] = Append(@, hand[a])]
      <4>1. /\ Append(box[hand[a].to], hand[a]) \in Seq(Message)
            /\ Len(Append(box[hand[a].to], hand[a])) <= Depth
        BY <2>1, <3>2, BoxTypes, BusAssumption DEF HasRoom
      <4> QED
        BY <2>1, <3>2, <4>1
    <3> QED
      BY <1>4, <3>1, <3>2 DEF Deliver
  <2>3. /\ pc' \in [Actors -> Spots] /\ hand' \in [Actors -> Message \union {None}]
    BY <1>4, DoneEffect DEF Deliver
  <2> QED
    BY <1>4, <2>2, <2>3 DEF Deliver, asking, reading, Spots
<1> QED
  BY <1>1, <1>2, <1>3, <1>4 DEF Step

LEMMA WorkerTypeOK ==
  ASSUME TypeOK, HandInv, NEW w \in Workers,
         WorkerStep(w) \/ Share(w) \/ Ask(w) \/ Leave(w)
  PROVE  TypeOK'
<1>0. w \in Actors /\ w \in Boxes /\ Supervisor \in Boxes
  BY DEF Actors, Boxes
<1> USE DEF TypeOK
<1>1. CASE Register(w)
  BY <1>0, <1>1, GotoEffect DEF Register, asking, reading, Spots
<1>2. CASE Deregister(w)
  BY <1>0, <1>2, GotoEffect DEF Deregister, asking, reading, Spots
<1>3. CASE AddWaiter(w)
  <2>1. hand[w].n \in 1 .. MaxSends
    BY <1>0, <1>3, MessageFacts DEF AddWaiter, HandInv
  <2> QED
    BY <1>0, <1>3, <2>1, GotoEffect, Places DEF AddWaiter, locking, reading, Spots
<1>4. CASE Answered(w)
  BY <1>0, <1>4, GotoEffect DEF Answered, locking, asking, reading, Spots, LockPoints
<1>5. CASE RetireWaiter(w)
  BY <1>0, <1>5, GotoEffect DEF RetireWaiter, locking, reading, Spots
<1>6. CASE Share(w) \/ Ask(w)
  <2>1. seq + 1 \in 1 .. MaxSends
    BY <1>6, BusAssumption DEF Share, Ask
  <2>2. \A k \in {"finding", "question"} :
          [kind |-> k, of |-> w, n |-> seq + 1, to |-> Supervisor] \in Message
    BY <1>0, <2>1 DEF Message
  <2>3. hand' \in [Actors -> Message \union {None}]
    BY <1>6, <2>2 DEF Share, Ask
  <2>4. pc' \in [Actors -> Spots]
    BY <1>0, <1>6, GotoEffect, Places DEF Share, Ask, Spots, LockPoints
  <2>5. /\ reply' \in [Workers -> (1 .. MaxSends) \union {None}]
        /\ seq' \in 0 .. MaxSends /\ UNCHANGED waiters
    <3>1. UNCHANGED waiters /\ seq' = seq + 1
      BY <1>6 DEF Share, Ask, asking
    <3>2. reply' = reply \/ reply' = [reply EXCEPT ![w] = None]
      BY <1>6 DEF Share, Ask, asking
    <3> QED
      BY <2>1, <3>1, <3>2
  <2> QED
    BY <1>6, <2>3, <2>4, <2>5 DEF Share, Ask, locking, reading, Spots
<1>7. CASE Leave(w)
  BY <1>0, <1>7, GotoEffect DEF Leave, locking, asking, reading, Spots, LockPoints
<1> QED
  BY <1>1, <1>2, <1>3, <1>4, <1>5, <1>6, <1>7 DEF WorkerStep

LEMMA OthersTypeOK ==
  ASSUME TypeOK,
         Handle \/ Exit \/ Deregister(Supervisor) \/ Join \/ TakeFindings \/ Steer \/ Stop
         \/ Cancel \/ UNCHANGED vars
  PROVE  TypeOK'
<1>0. Reader \in Actors /\ Supervisor \in Actors /\ Supervisor \in Boxes
  BY DEF Actors, Boxes
<1> USE DEF TypeOK
<1>1. CASE Handle
  <2> DEFINE q == box[Supervisor]
             m == Head(q)
  <2>1. m \in Message /\ Tail(q) \in Seq(Message) /\ Len(Tail(q)) <= Depth
    BY <1>0, <1>1, BusAssumption DEF Handle
  <2>2. box' \in [Boxes -> Seq(Message)] /\ \A b \in Boxes : Len(box'[b]) <= Depth
    BY <1>0, <1>1, <2>1 DEF Handle
  <2>3. m.kind = "question" => [m EXCEPT !.kind = "answer", !.to = m.of] \in Message
    BY <2>1 DEF Message
  <2>4. findings' \in Seq(Message)
    <3>1. findings' = findings \/ findings' = Append(findings, m)
      BY <1>1 DEF Handle
    <3> QED
      BY <2>1, <3>1, BoxTypes
  <2>5. hand' \in [Actors -> Message \union {None}] /\ pc' \in [Actors -> Spots]
    <3>1. CASE UNCHANGED <<pc, hand>>
      BY <3>1 DEF Spots
    <3>2. CASE /\ m.kind = "question"
               /\ hand' = [hand EXCEPT ![Reader] = [m EXCEPT !.kind = "answer", !.to = m.of]]
               /\ Goto(Reader, "count")
      BY <1>0, <2>3, <3>2, GotoEffect DEF Spots
    <3> QED
      BY <1>1, <3>1, <3>2 DEF Handle
  <2> QED
    BY <1>1, <2>2, <2>4, <2>5 DEF Handle, asking, Spots
<1>2. CASE Exit
  BY <1>0, <1>2, GotoEffect DEF Exit, locking, asking, reading, Spots
<1>3. CASE Deregister(Supervisor)
  BY <1>0, <1>3, GotoEffect DEF Deregister, asking, reading, Spots
<1>4. CASE Join
  BY <1>0, <1>4, GotoEffect DEF Join, locking, asking, reading, Spots
<1>5. CASE TakeFindings
  BY <1>5 DEF TakeFindings, locking, asking
<1>6. CASE Steer
  <2>1. seq + 1 \in 1 .. MaxSends
    BY <1>6, BusAssumption DEF Steer
  <2>2. \A w \in Workers :
          [kind |-> "steer", of |-> Supervisor, n |-> seq + 1, to |-> w] \in Message
    BY <1>0, <2>1 DEF Message, Boxes
  <2>3. hand' \in [Actors -> Message \union {None}]
    BY <1>6, <2>2 DEF Steer
  <2>4. pc' \in [Actors -> Spots]
    BY <1>0, <1>6, GotoEffect DEF Steer, Spots
  <2> QED
    BY <1>6, <2>1, <2>3, <2>4 DEF Steer, locking, asking, reading, Spots
<1>7. CASE Stop
  BY <1>0, <1>7, GotoEffect DEF Stop, locking, asking, Spots, LockPoints
<1>8. CASE Cancel
  BY <1>8 DEF Cancel, locking, asking, reading
<1>9. CASE UNCHANGED vars
  BY <1>9 DEF vars, locking, asking, reading
<1> QED
  BY <1>1, <1>2, <1>3, <1>4, <1>5, <1>6, <1>7, <1>8, <1>9

LEMMA NextBusTypeOK == TypeOK /\ HandInv /\ [Next]_vars => TypeOK'
BY StepTypeOK, WorkerTypeOK, OthersTypeOK DEF Next, Moves, Choices

-----------------------------------------------------------------------------
(* How an ask is carried on.                                                *)

LEMMA Names ==
  /\ Reader \in Actors /\ Supervisor \in Actors /\ Supervisor \in Boxes
  /\ Reader \notin Workers /\ Supervisor \notin Workers /\ Reader # Supervisor
  /\ Workers \subseteq Actors /\ Workers \subseteq Boxes
BY BusAssumption DEF Actors, Boxes

\* The ask of w goes on while nothing is put in a mailbox or taken from one.
LEMMA AskKept ==
  ASSUME AskInv, NEW w \in Workers, UNCHANGED box,
         Waits(w)' =>
           /\ Waits(w) /\ hand'[w] = hand[w] /\ reply'[w] = reply[w]
           /\ pc[w] = "wait" => pc'[w] = "wait"
           /\ pc'[w] # "waiter" => waiters'[w] = hand[w].n \/ reply[w] = hand[w].n
           /\ ReaderAnswers(w)' =>
                /\ ReaderAnswers(w)
                /\ pc[Reader] \in {"count", "reply"} => pc'[Reader] \in {"count", "reply"}
  PROVE  AskOK(w)'
<1> SUFFICES ASSUME Waits(w)' PROVE AskOK(w)'
  BY DEF AskOK
<1>1. Waits(w) /\ hand'[w] = hand[w] /\ reply'[w] = reply[w] /\ AskOK(w)
  BY DEF AskInv
<1>2. /\ \A b \in Boxes : Holds(b, "answer", w)' <=> Holds(b, "answer", w)
      /\ Holds(Supervisor, "question", w)' <=> Holds(Supervisor, "question", w)
      /\ Once(w)' <=> Once(w)
  BY <1>1 DEF Holds, Once, Is
<1> QED
  BY <1>1, <1>2 DEF AskOK

\* The step of an actor that is not the reader leaves the asks of the others alone.
LEMMA AskBystander ==
  ASSUME AskInv, NEW w \in Workers, UNCHANGED box,
         waiters'[w] = waiters[w], reply'[w] = reply[w], pc'[w] = pc[w], hand'[w] = hand[w],
         hand'[Reader] = None
           \/ (hand'[Reader] = hand[Reader] /\ pc'[Reader] = pc[Reader])
  PROVE  AskOK(w)'
<1>1. Waits(w)' => Waits(w) /\ (pc[w] # "waiter" => waiters[w] = hand[w].n
                                                     \/ reply[w] = hand[w].n)
  BY DEF Waits, AskInv, AskOK
<1>2. ReaderAnswers(w)' => ReaderAnswers(w) /\ pc'[Reader] = pc[Reader]
  BY DEF ReaderAnswers
<1> QED
  BY <1>1, <1>2, AskKept

LEMMA InitRInv == Init => RInv
<1> SUFFICES ASSUME Init PROVE RInv
  OBVIOUS
<1>1. TypeOK
  BY InitBusTypeOK
<1>2. \A a \in Actors : hand[a] = None /\ pc[a] \in {"register", "idle"}
  BY DEF Init
<1>3. HandInv
  BY <1>2, Names DEF HandInv, Sending
<1>4. BoxInv
  BY DEF Init, BoxInv
<1>5. MapInv
  BY DEF Init, MapInv
<1>6. AskInv
  BY <1>2, Names DEF AskInv, AskOK, Waits
<1> QED
  BY <1>1, <1>3, <1>4, <1>5, <1>6 DEF RInv

-----------------------------------------------------------------------------
(* A message on its way.                                                    *)

\* An actor goes on sending, or is done with what it sent.
LEMMA SendingOn ==
  ASSUME RInv, NEW a \in Actors, hand[a] \in Message, hand[a] # None,
         UNCHANGED seq,
         \/ Done(a)
         \/ /\ UNCHANGED hand
            /\ \E l \in {"reply", "deliver", "send"} :
                 Goto(a, l) /\ (l = "reply" => a = Reader)
  PROVE  /\ HandInv'
         /\ UNCHANGED <<waiters, reply>> /\ (pc[a] \in Sending \ {"reply"} \/ a = Reader)
              => MapInv'
<1> DEFINE asks == a \in Workers /\ hand[a].kind = "question"
<1>0. TypeOK /\ a \in Actors
  BY DEF RInv
<1>1. \/ \A c \in Actors :
           /\ pc'[c] = IF c # a THEN pc[c] ELSE IF asks THEN "wait" ELSE "idle"
           /\ hand'[c] = IF c # a \/ asks THEN hand[c] ELSE None
      \/ /\ UNCHANGED hand
         /\ \E l \in {"reply", "deliver", "send"} :
              /\ \A c \in Actors : pc'[c] = IF c = a THEN l ELSE pc[c]
              /\ l = "reply" => a = Reader
  BY <1>0, DoneEffect, GotoEffect DEF Spots, LockPoints
<1> HIDE DEF asks
<1>2. HandInv'
  <2>1. asks => hand[a].kind = "question" /\ a \in Workers
    BY DEF asks
  <2> QED
    BY <1>1, <2>1, Names DEF RInv, HandInv, Sending
<1>3. ASSUME UNCHANGED <<waiters, reply>>, pc[a] \in Sending \ {"reply"} \/ a = Reader
      PROVE  MapInv'
  <2> SUFFICES ASSUME NEW w \in Workers, waiters' = waiters, reply' = reply
               PROVE  /\ waiters[w] # None =>
                           /\ pc'[w] \in {"count", "deliver", "send", "wait", "retire"}
                           /\ hand'[w] # None /\ hand'[w].kind = "question"
                           /\ waiters[w] = hand'[w].n
                      /\ reply[w] # None =>
                           /\ pc'[w] \in {"wait", "retire"} /\ hand'[w] # None
                           /\ reply[w] = hand'[w].n
    BY <1>3 DEF MapInv
  <2>1. CASE w # a
    BY <1>1, <1>3, <2>1, Names DEF RInv, MapInv
  <2>2. CASE w = a
    <3>1. pc[a] \in Sending \ {"reply"}
      BY <1>3, <2>2, Names
    <3>2. reply[w] = None
      BY <2>2, <3>1 DEF RInv, MapInv, Sending
    <3>3. waiters[w] # None =>
            asks /\ hand[w] # None /\ hand[w].kind = "question" /\ waiters[w] = hand[w].n
      BY <2>2 DEF RInv, MapInv, asks
    <3> QED
      BY <1>1, <2>2, <3>2, <3>3, Names DEF RInv, HandInv
  <2> QED
    BY <2>1, <2>2
<1> QED
  BY <1>2, <1>3

LEMMA CountReply ==
  ASSUME RInv, NEW a \in Actors, Count(a) \/ Lookup(a)
  PROVE  RInv'
<1> DEFINE next == IF pc[a] = "deliver" THEN "send"
                   ELSE IF hand[a].kind = "answer" THEN "reply" ELSE "deliver"
<1>0. /\ pc[a] \in {"count", "deliver"} /\ hand[a] \in Message /\ hand[a] # None
      /\ UNCHANGED <<box, waiters, reply, seq>>
      /\ Done(a) \/ (UNCHANGED hand /\ Goto(a, next))
      /\ hand[a].kind = "answer" <=> a = Reader
  <2>1. pc[a] \in {"count", "deliver"} /\ UNCHANGED <<box, waiters, reply, seq>>
    BY DEF Count, Lookup, asking, locking
  <2>2. Done(a) \/ (UNCHANGED hand /\ Goto(a, next))
    <3>1. CASE Count(a)
      BY <3>1 DEF Count
    <3>2. CASE Lookup(a)
      BY <3>2 DEF Lookup
    <3> QED
      BY <3>1, <3>2
  <2>3. hand[a] \in Message /\ hand[a] # None
    BY <2>1, MessageFacts DEF RInv, HandInv, Sending
  <2> QED
    BY <2>1, <2>2, <2>3 DEF RInv, HandInv
<1>. next \in {"reply", "deliver", "send"} /\ (next = "reply" => a = Reader)
  BY <1>0
<1> HIDE DEF next
<1>1. TypeOK'
  BY NextBusTypeOK DEF RInv, Next, Moves, Step
<1>2. HandInv' /\ MapInv'
  BY <1>0, SendingOn DEF RInv, HandInv, Sending
<1>3. BoxInv'
  BY <1>0 DEF RInv, BoxInv
<1>4. ASSUME NEW w \in Workers PROVE AskOK(w)'
  <2> DEFINE asks == a \in Workers /\ hand[a].kind = "question"
  <2>1. \/ \A c \in Actors :
             /\ pc'[c] = IF c # a THEN pc[c] ELSE IF asks THEN "wait" ELSE "idle"
             /\ hand'[c] = IF c # a \/ asks THEN hand[c] ELSE None
        \/ /\ UNCHANGED hand
           /\ \A c \in Actors : pc'[c] = IF c = a THEN next ELSE pc[c]
    BY <1>0, DoneEffect, GotoEffect DEF RInv, Spots, LockPoints
  <2> HIDE DEF asks
  <2>2. CASE w = a
    <3>1. Waits(w)' => asks /\ hand'[w] = hand[w] /\ Waits(w) /\ pc'[w] # "waiter"
      BY <1>0, <2>1, <2>2, Names DEF Waits, asks
    <3>2. Waits(w) => waiters[w] = hand[w].n \/ reply[w] = hand[w].n
      BY <1>0, <2>2 DEF RInv, AskInv, AskOK
    <3>3. Waits(w)' /\ ReaderAnswers(w)'
            => ReaderAnswers(w) /\ pc'[Reader] = pc[Reader]
      BY <2>1, <2>2, <3>1, Names DEF ReaderAnswers
    <3> QED
      BY <1>0, <2>2, <3>1, <3>2, <3>3, AskKept, Names DEF RInv
  <2>3. CASE w # a
    <3>1. pc'[w] = pc[w] /\ hand'[w] = hand[w]
      BY <2>1, <2>3, Names
    <3>2. CASE a # Reader
      <4>1. hand'[Reader] = hand[Reader] /\ pc'[Reader] = pc[Reader]
        BY <2>1, <3>2, Names
      <4> QED
        BY <1>0, <3>1, <4>1, AskBystander DEF RInv
    <3>3. CASE a = Reader
      <4>1. ~asks /\ hand[Reader].kind = "answer"
        BY <1>0, <3>3, Names DEF asks, RInv, HandInv
      <4>2. Waits(w)' => Waits(w) /\ (pc[w] # "waiter" => waiters[w] = hand[w].n
                                                           \/ reply[w] = hand[w].n)
        BY <3>1 DEF Waits, RInv, AskInv, AskOK
      <4>3. ReaderAnswers(w)' => ReaderAnswers(w)
        BY <2>1, <3>1, <3>3, <4>1 DEF ReaderAnswers
      <4>4. pc[Reader] \in {"count", "reply"} /\ hand'[Reader] # None
              => pc'[Reader] \in {"count", "reply"}
        BY <1>0, <2>1, <3>3, <4>1 DEF next
      <4>5. ReaderAnswers(w)' => hand'[Reader] # None
        BY DEF ReaderAnswers
      <4> QED
        BY <1>0, <3>1, <4>2, <4>3, <4>4, <4>5, AskKept DEF RInv
    <3> QED
      BY <3>2, <3>3
  <2> QED
    BY <2>2, <2>3
<1> QED
  BY <1>1, <1>2, <1>3, <1>4 DEF RInv, AskInv

\* A reply finds its waiter in the map, or there is none left who waits for it.
LEMMA ReplyKeeps ==
  ASSUME RInv, NEW a \in Actors, DeliverReply(a)
  PROVE  RInv'
<1>a. /\ a = Reader /\ pc[Reader] = "reply" /\ hand[Reader] \in Message /\ hand[Reader] # None
      /\ hand[Reader].kind = "answer" /\ hand[Reader].of \in Workers
      /\ hand[Reader].n # None /\ hand[Reader].n \in 1 .. MaxSends
      /\ UNCHANGED <<box, seq>>
  BY MessageFacts DEF DeliverReply, RInv, HandInv, Sending, locking
<1>b. PICK w \in Workers, n \in 1 .. MaxSends :
        hand[Reader].of = w /\ hand[Reader].n = n /\ n # None
  BY <1>a
<1>0. /\ a = Reader /\ pc[Reader] = "reply" /\ hand[Reader] \in Message /\ hand[Reader] # None
      /\ hand[Reader].kind = "answer" /\ hand[Reader].of = w /\ hand[Reader].n = n
      /\ n # None /\ UNCHANGED <<box, seq>>
  BY <1>a, <1>b
<1>1. TypeOK'
  BY NextBusTypeOK DEF RInv, Next, Moves, Step
<1>2. BoxInv'
  BY <1>0 DEF RInv, BoxInv
<1>3. CASE /\ waiters[w] = n /\ Done(Reader)
           /\ waiters' = [waiters EXCEPT ![w] = None] /\ reply' = [reply EXCEPT ![w] = n]
  <2>1. HandInv'
    BY <1>0, <1>3, SendingOn
  <2>2. /\ hand'[Reader] = None
        /\ \A v \in Workers : pc'[v] = pc[v] /\ hand'[v] = hand[v]
    BY <1>0, <1>3, DoneEffect, Names DEF RInv
  <2>3. hand[w] # None /\ hand[w].kind = "question" /\ hand[w].n = n
        /\ pc[w] \in {"count", "deliver", "send", "wait", "retire"}
    BY <1>0, <1>3 DEF RInv, MapInv
  <2>4. ReaderAnswers(w)
    BY <1>0, <2>3 DEF ReaderAnswers
  <2>5. pc[w] \in {"wait", "retire"}
    BY <1>0, <2>3, <2>4 DEF RInv, AskInv, AskOK, Waits
  <2>6. /\ \A v \in Workers \ {w} : waiters'[v] = waiters[v] /\ reply'[v] = reply[v]
        /\ waiters'[w] = None /\ reply'[w] = n
    BY <1>0, <1>3 DEF RInv, TypeOK
  <2>7. MapInv'
    BY <1>0, <2>2, <2>3, <2>5, <2>6 DEF RInv, MapInv
  <2>8. AskOK(w)'
    <3> SUFFICES ASSUME Waits(w)' PROVE AskOK(w)'
      BY DEF AskOK
    <3>1. Waits(w) /\ pc'[w] = "wait" /\ AskOK(w)
      BY <1>0, <2>2, <2>3, <2>5 DEF Waits, RInv, AskInv
    <3>2. /\ \A b \in Boxes : Holds(b, "answer", w)' <=> Holds(b, "answer", w)
          /\ Holds(Supervisor, "question", w)' <=> Holds(Supervisor, "question", w)
          /\ Once(w)' <=> Once(w)
      BY <1>0, <2>2 DEF Holds, Once, Is
    <3>3. ~ReaderAnswers(w)'
      BY <2>2 DEF ReaderAnswers
    <3> QED
      BY <1>0, <2>2, <2>3, <2>4, <2>6, <3>1, <3>2, <3>3 DEF AskOK
  <2>9. ASSUME NEW v \in Workers, v # w PROVE AskOK(v)'
    <3>1. AskInv
      BY DEF RInv
    <3>2. /\ UNCHANGED box /\ waiters'[v] = waiters[v] /\ reply'[v] = reply[v]
          /\ pc'[v] = pc[v] /\ hand'[v] = hand[v] /\ hand'[Reader] = None
      BY <2>9, <1>0, <2>2, <2>6, <3>1
    <3> QED
      BY <2>9, <3>1, <3>2, AskBystander
  <2> QED
    BY <1>1, <1>2, <2>1, <2>7, <2>8, <2>9 DEF RInv, AskInv
<1>4. CASE waiters[w] # n /\ Goto(Reader, "deliver") /\ UNCHANGED <<hand, asking>>
  <2>0. UNCHANGED <<hand, waiters, reply>>
    BY <1>4 DEF asking
  <2>1. HandInv' /\ MapInv'
    BY <1>0, <1>4, <2>0, SendingOn
  <2>2. \A v \in Workers : pc'[v] = pc[v]
    BY <1>0, <1>4, GotoEffect, Names DEF RInv, Spots
  <2>3. ASSUME NEW v \in Workers PROVE AskOK(v)'
    <3>1. Waits(v)' => Waits(v) /\ (pc[v] # "waiter" => waiters[v] = hand[v].n
                                                         \/ reply[v] = hand[v].n)
      BY <2>0, <2>2, <2>3 DEF Waits, RInv, AskInv, AskOK
    <3>2. Waits(v) => ~ReaderAnswers(v)
      <4> SUFFICES ASSUME Waits(v), ReaderAnswers(v) PROVE FALSE
        OBVIOUS
      <4>1. v = w /\ hand[v].n = n /\ reply[v] = None /\ pc[v] # "waiter"
        BY <1>0, <2>3 DEF ReaderAnswers, RInv, AskInv, AskOK
      <4> QED
        BY <1>0, <1>4, <2>3, <4>1 DEF RInv, AskInv, AskOK
    <3>3. ReaderAnswers(v)' => ReaderAnswers(v)
      BY <2>0 DEF ReaderAnswers
    <3> QED
      BY <1>0, <2>0, <2>2, <2>3, <3>1, <3>2, <3>3, AskKept DEF RInv
  <2> QED
    BY <1>1, <1>2, <2>1, <2>3 DEF RInv, AskInv
<1> QED
  BY <1>0, <1>3, <1>4 DEF DeliverReply

\* What a mailbox holds once a message is put at its end.
LEMMA AppendHolds ==
  ASSUME NEW q \in Seq(Message), NEW m \in Message
  PROVE  \A i \in 1 .. Len(Append(q, m)) :
           \/ i \in 1 .. Len(q) /\ Append(q, m)[i] = q[i]
           \/ i = Len(q) + 1 /\ Append(q, m)[i] = m
OBVIOUS

\* What it holds once its oldest message is taken.
LEMMA TailHolds ==
  ASSUME NEW q \in Seq(Message), q # <<>>
  PROVE  /\ 1 \in 1 .. Len(q) /\ Head(q) = q[1]
         /\ \A i \in 1 .. Len(Tail(q)) : i + 1 \in 1 .. Len(q) /\ Tail(q)[i] = q[i + 1]
OBVIOUS

\* A message enters the mailbox: of those that matter here, a question, once.
LEMMA DeliverKeeps ==
  ASSUME RInv, NEW a \in Actors, Deliver(a)
  PROVE  RInv'
<1>a. /\ pc[a] = "send" /\ hand[a] \in Message /\ hand[a] # None /\ hand[a].to \in Boxes
      /\ UNCHANGED <<waiters, reply, seq>> /\ Done(a)
  BY MessageFacts DEF Deliver, asking, RInv, HandInv, Sending
<1>b. PICK m \in Message, to \in Boxes : hand[a] = m /\ m.to = to
  BY <1>a
<1>1. TypeOK'
  BY NextBusTypeOK DEF RInv, Next, Moves, Step
<1>2. HandInv' /\ MapInv'
  BY <1>a, SendingOn DEF Sending
<1>3. /\ m.n <= seq
      /\ m.kind = "answer" <=> a = Reader
      /\ m.kind = "question" => a \in Workers
      /\ a \in Workers => m.of = a /\ m.to = Supervisor
  BY <1>a, <1>b DEF RInv, HandInv
<1>4. \A b \in Boxes : \A i \in 1 .. Len(box'[b]) :
        \/ i \in 1 .. Len(box[b]) /\ box'[b][i] = box[b][i]
        \/ b = to /\ i = Len(box[b]) + 1 /\ box'[b][i] = m
  <2>1. CASE UNCHANGED box
    BY <2>1
  <2>2. CASE box' = [box EXCEPT ![to] = Append(@, m)]
    <3> SUFFICES ASSUME NEW b \in Boxes, NEW i \in 1 .. Len(box'[b])
                 PROVE  \/ i \in 1 .. Len(box[b]) /\ box'[b][i] = box[b][i]
                        \/ b = to /\ i = Len(box[b]) + 1 /\ box'[b][i] = m
      OBVIOUS
    <3>1. box[b] \in Seq(Message) /\ box'[b] = IF b = to THEN Append(box[b], m) ELSE box[b]
      BY <2>2 DEF RInv, TypeOK
    <3> QED
      BY <3>1, AppendHolds
  <2> QED
    BY <1>b, <2>1, <2>2 DEF Deliver
<1>5. BoxInv'
  BY <1>a, <1>3, <1>4 DEF RInv, BoxInv
<1>6. /\ \A c \in Actors : /\ c # a => pc'[c] = pc[c] /\ hand'[c] = hand[c]
                           /\ pc'[c] \in {pc[c], "wait", "idle"}
      /\ a = Reader => hand'[Reader] = None
      /\ hand'[a] # None => a \in Workers /\ m.kind = "question" /\ hand'[a] = m
                             /\ pc'[a] = "wait"
  BY <1>a, <1>b, <1>3, DoneEffect, Names DEF RInv
<1>7. ASSUME NEW w \in Workers, Waits(w)' PROVE AskOK(w)'
  <2>1. Waits(w) /\ hand'[w] = hand[w] /\ AskOK(w)
    BY <1>a, <1>b, <1>6, <1>7, Names DEF Waits, RInv, AskInv
  <2>2. ~Is(m, "answer", w)
    <3> SUFFICES ASSUME Is(m, "answer", w) PROVE FALSE
      OBVIOUS
    <3>1. ReaderAnswers(w) /\ pc[Reader] = "send"
      BY <1>a, <1>b, <1>3 DEF ReaderAnswers, Is
    <3> QED
      BY <2>1, <3>1 DEF AskOK
  <2>3. Is(m, "question", w) => w = a
    BY <1>3 DEF Is
  <2>4. \A b \in Boxes : ~Holds(b, "answer", w)'
    BY <1>4, <2>1, <2>2 DEF Holds, Is, AskOK
  <2>5. ReaderAnswers(w)' =>
          ReaderAnswers(w) /\ a # Reader /\ pc'[Reader] = pc[Reader]
    BY <1>6, <2>1, Names DEF ReaderAnswers
  <2>6. CASE w = a
    <3>1. pc'[w] = "wait" /\ pc[w] = "send"
      BY <1>a, <1>6, <2>1, <2>6 DEF Waits
    <3>2. ~Holds(Supervisor, "question", w) /\ ~ReaderAnswers(w)
      BY <2>1, <3>1 DEF AskOK
    <3>3. \A i \in 1 .. Len(box'[Supervisor]) :
            Is(box'[Supervisor][i], "question", w) => i = Len(box[Supervisor]) + 1
      BY <1>4, <3>2, Names DEF Holds
    <3>4. Once(w)'
      BY <2>1, <3>3 DEF Once, Is
    <3>5. waiters[w] = hand[w].n \/ reply[w] = hand[w].n
      BY <2>1, <3>1 DEF RInv, MapInv, AskOK
    <3>6. reply[w] = None
      BY <3>1 DEF RInv, MapInv
    <3> QED
      BY <1>a, <2>1, <2>4, <2>5, <3>1, <3>2, <3>4, <3>5, <3>6 DEF AskOK
  <2>7. CASE w # a
    <3>1. pc'[w] = pc[w] /\ ~Is(m, "question", w)
      BY <1>6, <2>3, <2>7, Names
    <3>2. \A i \in 1 .. Len(box'[Supervisor]) :
            Is(box'[Supervisor][i], "question", w) =>
              i \in 1 .. Len(box[Supervisor]) /\ box'[Supervisor][i] = box[Supervisor][i]
      BY <1>4, <3>1, Names
    <3>3. Once(w)' /\ (Holds(Supervisor, "question", w)' => Holds(Supervisor, "question", w))
      BY <2>1, <3>2, SMTT(30) DEF Once, Holds, Is, AskOK
    <3> QED
      BY <1>a, <2>1, <2>4, <2>5, <3>1, <3>3 DEF AskOK
  <2> QED
    BY <2>6, <2>7
<1>8. AskInv'
  BY <1>7 DEF AskInv, AskOK
<1> QED
  BY <1>1, <1>2, <1>5, <1>8 DEF RInv

\* A question that the reader takes out is the one it answers now.
LEMMA HandleKeeps ==
  ASSUME RInv, Handle
  PROVE  RInv'
<1>a. /\ pc[Reader] = "idle" /\ box[Supervisor] # <<>> /\ box[Supervisor] \in Seq(Message)
      /\ hand[Reader] = None /\ UNCHANGED <<waiters, reply, seq>>
  BY Names DEF Handle, asking, RInv, TypeOK, HandInv, Sending
<1>b. PICK m \in Message : m = Head(box[Supervisor]) /\ m = box[Supervisor][1]
  BY <1>a
<1>1. TypeOK'
  BY NextBusTypeOK DEF RInv, Next, Moves
<1>2. /\ \A b \in Boxes \ {Supervisor} : box'[b] = box[b]
      /\ \A i \in 1 .. Len(box'[Supervisor]) :
           i + 1 \in 1 .. Len(box[Supervisor]) /\ box'[Supervisor][i] = box[Supervisor][i + 1]
      /\ 1 \in 1 .. Len(box[Supervisor])
  <2>1. box'[Supervisor] = Tail(box[Supervisor])
    BY Names DEF Handle, RInv, TypeOK
  <2>2. \A b \in Boxes \ {Supervisor} : box'[b] = box[b]
    BY DEF Handle, RInv, TypeOK
  <2> QED
    BY <1>a, <2>1, <2>2, TailHolds
<1>3. BoxInv'
  <2> SUFFICES ASSUME NEW b \in Boxes, NEW i \in 1 .. Len(box'[b])
               PROVE  /\ box'[b][i].n <= seq'
                      /\ box'[b][i].kind = "question" => box'[b][i].of \in Workers
    BY DEF BoxInv
  <2> QED
    BY <1>a, <1>2, Names, SMTT(30) DEF RInv, BoxInv
<1>4. m.n <= seq /\ (m.kind = "question" => m.of \in Workers)
  BY <1>b, <1>2, Names DEF RInv, BoxInv
<1>5. \/ UNCHANGED <<pc, hand>> /\ m.kind = "finding"
      \/ /\ m.kind = "question" /\ hand'[Reader] # None /\ hand'[Reader] \in Message
         /\ hand'[Reader].kind = "answer"
         /\ hand'[Reader].of = m.of /\ hand'[Reader].n = m.n
         /\ \A c \in Actors : /\ pc'[c] = IF c = Reader THEN "count" ELSE pc[c]
                              /\ c # Reader => hand'[c] = hand[c]
  <2>1. CASE UNCHANGED <<pc, hand>> /\ m.kind = "finding"
    BY <2>1
  <2>2. CASE /\ m.kind = "question" /\ Goto(Reader, "count")
             /\ hand' = [hand EXCEPT ![Reader] = [m EXCEPT !.kind = "answer", !.to = m.of]]
    <3> DEFINE r == [m EXCEPT !.kind = "answer", !.to = m.of]
    <3>1. r \in Message /\ r.kind = "answer" /\ r.of = m.of /\ r.n = m.n
      BY DEF Message
    <3> HIDE DEF r
    <3>2. hand'[Reader] = r /\ \A c \in Actors : c # Reader => hand'[c] = hand[c]
      BY <2>2, Names DEF RInv, TypeOK, r
    <3>3. \A c \in Actors : pc'[c] = IF c = Reader THEN "count" ELSE pc[c]
      BY <2>2, Names, GotoEffect DEF RInv, Spots
    <3> QED
      BY <2>2, <3>1, <3>2, <3>3, MessageFacts
  <2> QED
    BY <1>b, <2>1, <2>2 DEF Handle
<1>6. HandInv'
  BY <1>a, <1>4, <1>5, Names DEF RInv, HandInv, Sending
<1>7. \A w \in Workers : pc'[w] = pc[w] /\ hand'[w] = hand[w]
  BY <1>5, Names
<1>8. MapInv'
  BY <1>a, <1>7 DEF RInv, MapInv
<1>9. ASSUME NEW w \in Workers, Waits(w)' PROVE AskOK(w)'
  <2>1. Waits(w) /\ hand'[w] = hand[w] /\ AskOK(w) /\ ~ReaderAnswers(w)
    BY <1>a, <1>7, <1>9 DEF Waits, RInv, AskInv, ReaderAnswers
  <2>2. /\ \A b \in Boxes : ~Holds(b, "answer", w)'
        /\ Holds(Supervisor, "question", w)' => Holds(Supervisor, "question", w)
    <3>1. \A b \in Boxes : \A k \in {"answer", "question"} :
            Holds(b, k, w)' => Holds(b, k, w)
      BY <1>2, <2>1 DEF Holds, Is
    <3> QED
      BY <2>1, <3>1, Names DEF AskOK
  <2>3. Once(w)'
    <3> SUFFICES ASSUME NEW i \in 1 .. Len(box'[Supervisor]),
                        NEW j \in 1 .. Len(box'[Supervisor]),
                        Is(box[Supervisor][i + 1], "question", w),
                        Is(box[Supervisor][j + 1], "question", w)
                 PROVE  i = j
      BY <1>2, <2>1 DEF Once, Is
    <3>1. i + 1 \in 1 .. Len(box[Supervisor]) /\ j + 1 \in 1 .. Len(box[Supervisor])
      BY <1>2
    <3>2. i + 1 = j + 1
      BY <2>1, <3>1 DEF Once, AskOK
    <3> QED
      BY <3>2
  <2>4. ReaderAnswers(w)' => Is(m, "question", w) /\ pc'[Reader] = "count"
    BY <1>5, <2>1, Names DEF ReaderAnswers, Is
  <2>5. Is(m, "question", w) =>
          /\ Holds(Supervisor, "question", w)
          /\ ~Holds(Supervisor, "question", w)'
    <3> SUFFICES ASSUME Is(m, "question", w)
                 PROVE  /\ Holds(Supervisor, "question", w)
                        /\ ~Holds(Supervisor, "question", w)'
      OBVIOUS
    <3>1. Holds(Supervisor, "question", w)
      BY <1>b, <1>2 DEF Holds
    <3>2. ASSUME NEW i \in 1 .. Len(box'[Supervisor]), Is(box[Supervisor][i + 1], "question", w)
          PROVE  FALSE
      BY <1>b, <1>2, <2>1, <3>2 DEF Once, AskOK
    <3> QED
      BY <1>2, <2>1, <3>1, <3>2 DEF Holds, Is
  <2> QED
    BY <1>a, <1>7, <2>1, <2>2, <2>3, <2>4, <2>5 DEF AskOK
<1>10. AskInv'
  BY <1>9 DEF AskInv, AskOK
<1> QED
  BY <1>1, <1>3, <1>6, <1>8, <1>10 DEF RInv

\* The moves of a worker: an ask begins with a number that nobody has, its waiter is in
\* the map before the question goes out, and it ends with nothing left of it there.
LEMMA AskerKeeps ==
  ASSUME RInv, NEW w \in Workers,
         WorkerStep(w) \/ Share(w) \/ Ask(w) \/ Leave(w)
  PROVE  RInv'
<1>0. /\ w \in Actors /\ w \in Boxes /\ w # Reader /\ Reader \in Actors
      /\ TypeOK /\ HandInv /\ MapInv /\ AskInv /\ seq \in Nat
  BY Names, BusAssumption DEF RInv, TypeOK
<1>1. TypeOK'
  BY <1>0, NextBusTypeOK DEF RInv, Next, Moves, Choices
<1>2. UNCHANGED box /\ seq' \in {seq, seq + 1}
  BY DEF WorkerStep, Register, AddWaiter, Answered, RetireWaiter, Deregister, Share, Ask,
         Leave, locking
<1>3. BoxInv'
  <2> SUFFICES ASSUME NEW b \in Boxes, NEW i \in 1 .. Len(box[b])
               PROVE  /\ box[b][i].n <= seq'
                      /\ box[b][i].kind = "question" => box[b][i].of \in Workers
    BY <1>2 DEF BoxInv
  <2>1. box[b][i] \in Message
    BY <1>0 DEF TypeOK
  <2>2. box[b][i].n <= seq /\ (box[b][i].kind = "question" => box[b][i].of \in Workers)
    BY DEF RInv, BoxInv
  <2> QED
    BY <1>0, <1>2, <2>1, <2>2, MessageFacts
<1>4. /\ \A c \in Actors \ {w} : pc'[c] = pc[c] /\ hand'[c] = hand[c]
      /\ \A v \in Workers \ {w} : waiters'[v] = waiters[v] /\ reply'[v] = reply[v]
  <2>1. \A c \in Actors \ {w} : pc'[c] = pc[c]
    BY <1>0 DEF WorkerStep, Register, AddWaiter, Answered, RetireWaiter, Deregister, Share,
                Ask, Leave, Goto, TypeOK
  <2>2. \A c \in Actors \ {w} : hand'[c] = hand[c]
    BY <1>0 DEF WorkerStep, Register, AddWaiter, Answered, RetireWaiter, Deregister, Share,
                Ask, Leave, TypeOK
  <2>3. \A v \in Workers \ {w} : waiters'[v] = waiters[v] /\ reply'[v] = reply[v]
    BY <1>0 DEF WorkerStep, Register, AddWaiter, Answered, RetireWaiter, Deregister, Share,
                Ask, Leave, asking, TypeOK
  <2> QED
    BY <2>1, <2>2, <2>3
<1>5. ASSUME NEW v \in Workers, v # w PROVE AskOK(v)'
  <2>1. /\ pc'[v] = pc[v] /\ hand'[v] = hand[v]
        /\ waiters'[v] = waiters[v] /\ reply'[v] = reply[v]
        /\ hand'[Reader] = hand[Reader] /\ pc'[Reader] = pc[Reader]
    BY <1>0, <1>4, <1>5, Names
  <2> QED
    BY <1>0, <1>2, <2>1, AskBystander
\* What is left to show, of w itself.
<1> DEFINE Own ==
      /\ pc'[w] \in Sending => hand'[w] \in Message
      /\ hand'[w] # None => /\ hand'[w].n <= seq' /\ hand'[w].kind # "answer"
                            /\ hand'[w].of = w /\ hand'[w].to = Supervisor
      /\ pc'[w] # "reply"
      /\ pc'[w] \in {"waiter", "wait", "retire"} =>
           hand'[w] # None /\ hand'[w].kind = "question"
      /\ waiters'[w] # None =>
           /\ pc'[w] \in {"count", "deliver", "send", "wait", "retire"}
           /\ hand'[w] # None /\ hand'[w].kind = "question" /\ waiters'[w] = hand'[w].n
      /\ reply'[w] # None =>
           pc'[w] \in {"wait", "retire"} /\ hand'[w] # None /\ reply'[w] = hand'[w].n
<1>6. ASSUME Own, AskOK(w)' PROVE RInv'
  <2>1. HandInv'
    <3>1. \A c \in Actors \ {w} : hand'[c] # None => hand'[c].n <= seq'
      <4> SUFFICES ASSUME NEW c \in Actors \ {w}, hand'[c] # None PROVE hand'[c].n <= seq'
        OBVIOUS
      <4>1. hand'[c] = hand[c] /\ hand[c] \in Message /\ hand[c].n <= seq
        BY <1>0, <1>4 DEF HandInv, TypeOK
      <4> QED
        BY <1>0, <1>2, <4>1, MessageFacts
    <3> QED
      BY <1>0, <1>4, <1>6, <3>1, Names DEF HandInv
  <2>2. MapInv'
    BY <1>0, <1>4, <1>6, Names DEF MapInv
  <2> QED
    BY <1>1, <1>3, <1>5, <1>6, <2>1, <2>2 DEF RInv, AskInv
<1>7. ASSUME pc'[w] \in {"idle", "deregister", "left", "retire"} \/ hand'[w].kind # "question"
      PROVE  AskOK(w)'
  BY <1>7 DEF AskOK, Waits
<1>8. CASE Register(w) \/ Deregister(w) \/ Leave(w)
  <2>1. /\ pc[w] \in {"register", "deregister", "idle"}
        /\ pc'[w] \in {"idle", "deregister", "left"}
        /\ UNCHANGED <<hand, waiters, reply, seq>>
    BY <1>0, <1>8 DEF Register, Deregister, Leave, Goto, asking, TypeOK
  <2>2. Own
    BY <1>0, <2>1 DEF HandInv, MapInv, Sending
  <2> QED
    BY <1>6, <1>7, <2>1, <2>2
<1>9. CASE Share(w)
  <2>1. /\ pc[w] = "idle" /\ pc'[w] = "count" /\ UNCHANGED <<waiters, reply>>
        /\ seq' = seq + 1 /\ seq < MaxSends
        /\ hand'[w] = [kind |-> "finding", of |-> w, n |-> seq + 1, to |-> Supervisor]
    BY <1>0, <1>9 DEF Share, Goto, asking, TypeOK
  <2>2. hand'[w] \in Message
    BY <1>0, <2>1, Names, BusAssumption DEF Message
  <2>3. Own
    BY <1>0, <2>1, <2>2 DEF MapInv
  <2> QED
    BY <1>6, <1>7, <2>1, <2>3
<1>10. CASE Ask(w)
  <2>1. /\ pc[w] = "idle" /\ pc'[w] = "waiter" /\ waiters' = waiters /\ reply'[w] = None
        /\ seq' = seq + 1 /\ seq < MaxSends
        /\ hand'[w] = [kind |-> "question", of |-> w, n |-> seq + 1, to |-> Supervisor]
    BY <1>0, <1>10, Places DEF Ask, Goto, TypeOK
  <2>2. Own
    <3>1. waiters'[w] = None
      BY <1>0, <2>1 DEF MapInv
    <3>2. hand'[w].n = seq + 1 /\ hand'[w].kind = "question"
          /\ hand'[w].of = w /\ hand'[w].to = Supervisor
      BY <2>1
    <3>3. hand'[w] # None
      <4>1. hand'[w] \in Message
        BY <1>0, <2>1, Names, BusAssumption DEF Message
      <4> QED
        BY <4>1, MessageFacts
    <3> QED
      BY <1>0, <2>1, <3>1, <3>2, <3>3 DEF Sending
  <2>3. \A b \in Boxes : \A i \in 1 .. Len(box[b]) : box[b][i].n # seq + 1
    <3> SUFFICES ASSUME NEW b \in Boxes, NEW i \in 1 .. Len(box[b]), box[b][i].n = seq + 1
                 PROVE  FALSE
      OBVIOUS
    <3> QED
      BY <1>0 DEF RInv, BoxInv
  <2>4. hand[Reader] # None => hand[Reader].n # seq + 1
    <3> SUFFICES ASSUME hand[Reader] # None, hand[Reader].n = seq + 1 PROVE FALSE
      OBVIOUS
    <3> QED
      BY <1>0 DEF HandInv
  <2>5. hand'[w].n = seq + 1 /\ hand'[Reader] = hand[Reader]
    BY <1>0, <1>4, <2>1
  <2>6. /\ \A b \in Boxes : \A i \in 1 .. Len(box'[b]) : box'[b][i].n # hand'[w].n
        /\ hand'[Reader] # None => hand'[Reader].n # hand'[w].n
    BY <1>2, <2>3, <2>4, <2>5
  <2>7. AskOK(w)'
    BY <2>1, <2>6, Names DEF AskOK, Holds, Is, Once, ReaderAnswers
  <2> QED
    BY <1>6, <2>2, <2>7
<1>11. CASE AddWaiter(w)
  <2>1. /\ pc[w] = "waiter" /\ pc'[w] = "count" /\ UNCHANGED <<hand, reply, seq>>
        /\ waiters'[w] = hand[w].n
    BY <1>0, <1>11, Places DEF AddWaiter, Goto, TypeOK
  <2>2. hand[w] # None /\ hand[w].kind = "question" /\ reply[w] = None
    BY <1>0, <2>1 DEF HandInv, MapInv
  <2>3. Own
    BY <1>0, <2>1, <2>2 DEF HandInv, TypeOK
  <2>4. AskOK(w)'
    <3>1. Waits(w) /\ (ReaderAnswers(w)' => ReaderAnswers(w)) /\ pc'[Reader] = pc[Reader]
      BY <1>0, <1>4, <2>1, <2>2 DEF Waits, ReaderAnswers
    <3> QED
      BY <1>0, <1>2, <2>1, <3>1, AskKept
  <2> QED
    BY <1>6, <2>3, <2>4
<1>12. CASE Answered(w)
  <2>1. /\ pc[w] = "wait" /\ pc'[w] = "retire" /\ UNCHANGED <<hand, waiters, reply, seq>>
    BY <1>0, <1>12 DEF Answered, Goto, asking, TypeOK
  <2>2. Own
    BY <1>0, <2>1 DEF HandInv, MapInv, Sending
  <2> QED
    BY <1>6, <1>7, <2>1, <2>2
<1>13. CASE RetireWaiter(w)
  <2>1. pc'[w] = "idle" /\ hand'[w] = None /\ waiters'[w] = None /\ reply'[w] = None
    BY <1>0, <1>13 DEF RetireWaiter, Goto, TypeOK
  <2>2. Own
    BY <2>1 DEF Sending
  <2> QED
    BY <1>6, <1>7, <2>1, <2>2
<1> QED
  BY <1>8, <1>9, <1>10, <1>11, <1>12, <1>13 DEF WorkerStep

\* What the supervisor does of itself, and the end of the reader, touch nobody's ask.
LEMMA OthersKeep ==
  ASSUME RInv,
         Exit \/ Deregister(Supervisor) \/ Join \/ TakeFindings \/ Steer \/ Stop \/ Cancel
           \/ UNCHANGED vars
  PROVE  RInv'
<1>0. /\ TypeOK /\ HandInv /\ MapInv /\ AskInv /\ seq \in Nat
  BY BusAssumption DEF RInv, TypeOK
<1>1. TypeOK'
  BY <1>0, NextBusTypeOK DEF Next, Moves, Choices
<1>2. UNCHANGED <<box, waiters, reply>> /\ seq' \in {seq, seq + 1}
  BY DEF Exit, Deregister, Join, TakeFindings, Steer, Stop, Cancel, vars, locking, asking
<1>3. BoxInv'
  <2> SUFFICES ASSUME NEW b \in Boxes, NEW i \in 1 .. Len(box[b])
               PROVE  /\ box[b][i].n <= seq'
                      /\ box[b][i].kind = "question" => box[b][i].of \in Workers
    BY <1>2 DEF BoxInv
  <2>1. box[b][i] \in Message
    BY <1>0 DEF TypeOK
  <2>2. box[b][i].n <= seq /\ (box[b][i].kind = "question" => box[b][i].of \in Workers)
    BY DEF RInv, BoxInv
  <2> QED
    BY <1>0, <1>2, <2>1, <2>2, MessageFacts
<1>4. /\ \A w \in Workers : pc'[w] = pc[w] /\ hand'[w] = hand[w]
      /\ hand'[Reader] = hand[Reader]
      /\ pc'[Reader] = pc[Reader] \/ (hand[Reader] = None /\ pc'[Reader] = "done")
  <2>1. CASE Exit
    BY <1>0, <2>1, Names DEF Exit, Goto, TypeOK, HandInv, Sending
  <2>2. CASE ~Exit
    BY <1>0, <2>2, Names DEF Deregister, Join, TakeFindings, Steer, Stop, Cancel, vars, Goto,
                            TypeOK
  <2> QED
    BY <2>1, <2>2
<1>5. ASSUME NEW w \in Workers PROVE AskOK(w)'
  <2>1. /\ waiters'[w] = waiters[w] /\ reply'[w] = reply[w]
        /\ pc'[w] = pc[w] /\ hand'[w] = hand[w] /\ UNCHANGED box
        /\ hand'[Reader] = None
             \/ (hand'[Reader] = hand[Reader] /\ pc'[Reader] = pc[Reader])
    BY <1>2, <1>4
  <2> QED
    BY <1>0, <2>1, AskBystander
<1>6. MapInv'
  BY <1>0, <1>2, <1>4 DEF MapInv
<1>7. \/ hand'[Supervisor] = hand[Supervisor]
        /\ pc'[Supervisor] \in {pc[Supervisor], "left", "deregister", "joined"}
      \/ /\ hand'[Supervisor] \in Message /\ hand'[Supervisor].n <= seq'
         /\ hand'[Supervisor].kind = "steer" /\ pc'[Supervisor] = "count"
  <2>1. CASE Steer
    <3>1. PICK v \in Workers :
            hand' = [hand EXCEPT ![Supervisor] = [kind |-> "steer", of |-> Supervisor,
                                                  n |-> seq + 1, to |-> v]]
      BY <2>1 DEF Steer
    <3>2. [kind |-> "steer", of |-> Supervisor, n |-> seq + 1, to |-> v] \in Message
      BY <1>0, <2>1, Names, BusAssumption DEF Message, Steer
    <3> QED
      BY <1>0, <2>1, <3>1, <3>2, Names DEF Steer, Goto, TypeOK
  <2>2. CASE ~Steer
    BY <1>0, <2>2, Names DEF Exit, Deregister, Join, TakeFindings, Stop, Cancel, vars, Goto,
                            TypeOK
  <2> QED
    BY <2>1, <2>2
<1>8. \A c \in Actors : hand'[c] # None => hand'[c].n <= seq'
  <2> SUFFICES ASSUME NEW c \in Actors, hand'[c] # None PROVE hand'[c].n <= seq'
    OBVIOUS
  <2>1. CASE hand'[c] = hand[c]
    <3>1. hand[c] \in Message /\ hand[c].n <= seq
      BY <1>0, <2>1 DEF HandInv, TypeOK
    <3> QED
      BY <1>0, <1>2, <2>1, <3>1, MessageFacts
  <2> QED
    BY <1>4, <1>7, <2>1 DEF Actors
<1>9. HandInv'
  BY <1>0, <1>4, <1>7, <1>8, Names DEF HandInv, Sending, Actors
<1> QED
  BY <1>1, <1>3, <1>5, <1>6, <1>9 DEF RInv, AskInv

LEMMA NextRInv == RInv /\ [Next]_vars => RInv'
BY CountReply, ReplyKeeps, DeliverKeeps, HandleKeeps, AskerKeeps, OthersKeep
   DEF Next, Moves, Choices, Step

LEMMA RInvImplies == RInv => ReplyFindsItsAsk
<1> SUFFICES ASSUME RInv, NEW w \in Workers
             PROVE  /\ reply[w] # None => hand[w] # None /\ reply[w] = hand[w].n
                    /\ pc[w] = "wait" =>
                         \A b \in Boxes : \A i \in DOMAIN box[b] :
                           ~(box[b][i].kind = "answer" /\ box[b][i].of = w
                             /\ box[b][i].n = hand[w].n)
  BY DEF ReplyFindsItsAsk
<1>1. reply[w] # None => hand[w] # None /\ reply[w] = hand[w].n
  BY DEF RInv, MapInv
<1>2. \A b \in Boxes : DOMAIN box[b] = 1 .. Len(box[b])
  BY DEF RInv, TypeOK
<1>3. pc[w] = "wait" => Waits(w) /\ AskOK(w)
  BY Names DEF RInv, HandInv, AskInv, Waits
<1> QED
  BY <1>1, <1>2, <1>3 DEF AskOK, Holds, Is

\* The types of the bus, which the argument below rests on.
THEOREM BusTypeCorrect == Spec => []TypeOK
<1>1. Spec => []RInv
  BY InitRInv, NextRInv, PTL DEF Spec
<1> QED
  BY <1>1, PTL DEF RInv

\* The reply that an asker holds is the one to its question, and while it waits no reply to
\* it is parked in a mailbox that nobody reads: the waiter is in the map before the question
\* is sent, so the reader cannot be too early for it, and what the reader answers it took
\* out of the one mailbox the question was in (bus.go:158-166, 197-203).
THEOREM RepliesFindTheirAsk == Spec => []ReplyFindsItsAsk
<1>1. Spec => []RInv
  BY InitRInv, NextRInv, PTL DEF Spec
<1> QED
  BY <1>1, RInvImplies, PTL

=============================================================================
