--------------------------- MODULE ApprovalProofs ---------------------------
(***************************************************************************)
(* Proofs about graded approval, for any deciders, approvers, families and  *)
(* ceilings, with decisions interleaved and the process restarting at any   *)
(* point.                                                                   *)
(*                                                                         *)
(* The arguments count decisions in the middle: the irreversible meter is   *)
(* what the run approved and what is held, a rate window is at most what    *)
(* the log explains and what is held in it, and the dollars of a day are    *)
(* what was approved and what decisions past the gate are about to log.     *)
(*                                                                         *)
(* At the end, the calls of the models behind it (ModelCalls), for any      *)
(* callers, budgets, breakers and prices.  Text that was painted is of the  *)
(* attempt in hand, of the response, or of none (WalkInv); the ledger is    *)
(* the sum of the spenders' bills; and a breaker has counted no more than   *)
(* the provider's own failures (BreakersLag).                               *)
(***************************************************************************)
EXTENDS Approval, ModelCalls, FiniteSetTheorems, WellFoundedInduction, TLAPS

Labels == {"idle", "rate", "fence", "dollars", "credit", "release", "emit"}

\* The labels at which a rate slot is held, and those who hold one of a window.
Taken == {"fence", "dollars", "credit", "release", "emit"}

Takers(a, w) == {d \in Deciders : pc[d] \in Taken /\ of[d].by = a /\ Window(d) = w}

\* What of the types the arguments need.
Shapes ==
  /\ DOMAIN pc = Deciders /\ DOMAIN of = Deciders
  /\ \A d \in Deciders : pc[d] \in Labels
  /\ \A d \in Deciders :
       pc[d] # "idle" => of[d].by \in Approvers /\ of[d].fam \in Families /\ of[d].day \in 1 .. Days
  /\ clock \in 1 .. Days
  /\ DOMAIN approvals = Windows /\ \A w \in Windows : approvals[w].lines \in Nat
  /\ strays \in [Windows -> Nat] /\ missing \in [Windows -> Nat]
  /\ rateCount \in [Approvers -> [Windows -> Nat \union {None}]]
  /\ irrev \in Nat /\ ofRun \in Nat

SlotsAreHeld ==
  \A a \in Approvers, w \in Windows :
    rateCount[a][w] # None =>
      rateCount[a][w] <= approvals[w].lines + strays[w] + missing[w] + Cardinality(Takers(a, w))

AInv == Shapes /\ FenceIsExact /\ SlotsAreHeld

-----------------------------------------------------------------------------
(* Counting.                                                                *)

LEMMA Finite ==
  /\ IsFiniteSet(Holders) /\ Cardinality(Holders) \in Nat
  /\ \A a, w : IsFiniteSet(Takers(a, w)) /\ Cardinality(Takers(a, w)) \in Nat
BY ApprovalAssumption, FS_Subset, FS_CardinalityType DEF Holders, Takers

\* One decision moves: who holds an irreversible slot.
LEMMA HoldersMove ==
  ASSUME Shapes, NEW d \in Deciders, NEW l, pc' = [pc EXCEPT ![d] = l]
  PROVE  Holders' = IF l \in {"dollars", "credit", "emit"} THEN Holders \union {d}
                                                           ELSE Holders \ {d}
BY DEF Shapes, Holders

LEMMA HoldersCount ==
  ASSUME Shapes, NEW d \in Deciders, NEW l, pc' = [pc EXCEPT ![d] = l]
  PROVE  LET held == pc[d] \in {"dollars", "credit", "emit"}
             holds == l \in {"dollars", "credit", "emit"}
         IN  /\ held /\ holds => Cardinality(Holders') = Cardinality(Holders)
             /\ ~held /\ ~holds => Cardinality(Holders') = Cardinality(Holders)
             /\ ~held /\ holds => Cardinality(Holders') = Cardinality(Holders) + 1
             /\ held /\ ~holds => Cardinality(Holders') = Cardinality(Holders) - 1
<1> DEFINE held == pc[d] \in {"dollars", "credit", "emit"}
           holds == l \in {"dollars", "credit", "emit"}
<1>1. held <=> d \in Holders
  BY DEF Holders
<1>2. Holders' = IF holds THEN Holders \union {d} ELSE Holders \ {d}
  BY HoldersMove
<1>3. IsFiniteSet(Holders)
  BY Finite
<1> HIDE DEF held, holds
<1>4. held /\ holds => Holders' = Holders
  BY <1>1, <1>2
<1>5. ~held /\ ~holds => Holders' = Holders
  BY <1>1, <1>2
<1>6. ~held /\ holds => Cardinality(Holders') = Cardinality(Holders) + 1
  BY <1>1, <1>2, <1>3, FS_AddElement
<1>7. held /\ ~holds => Cardinality(Holders') = Cardinality(Holders) - 1
  BY <1>1, <1>2, <1>3, FS_RemoveElement
<1> QED
  BY <1>4, <1>5, <1>6, <1>7 DEF held, holds

\* ... and gives it back.
LEMMA HoldersLeave ==
  ASSUME Shapes, NEW d \in Deciders, NEW l, pc' = [pc EXCEPT ![d] = l],
         d \in Holders, l \notin {"dollars", "credit", "emit"}
  PROVE  Cardinality(Holders') = Cardinality(Holders) - 1
<1>1. Holders' = Holders \ {d}
  BY HoldersMove
<1> QED
  BY <1>1, Finite, FS_RemoveElement

\* A decision that stays in its window: the takers are the same, but for itself.
LEMMA TakersSame ==
  ASSUME Shapes, NEW d \in Deciders, NEW l, pc' = [pc EXCEPT ![d] = l],
         \A e \in Deciders \ {d} : of'[e] = of[e],
         \/ pc[d] \notin Taken /\ l \notin Taken
         \/ pc[d] \in Taken /\ l \in Taken /\ of'[d] = of[d]
  PROVE  \A a \in Approvers, w \in Windows : Takers(a, w)' = Takers(a, w)
BY DEF Shapes, Takers, Window

LEMMA TakersJoin ==
  ASSUME Shapes, NEW d \in Deciders, pc[d] \notin Taken, NEW l \in Taken,
         pc' = [pc EXCEPT ![d] = l], of' = of
  PROVE  \A a \in Approvers, w \in Windows :
           /\ d \notin Takers(a, w)
           /\ a = of[d].by /\ w = Window(d) => Takers(a, w)' = Takers(a, w) \union {d}
           /\ ~(a = of[d].by /\ w = Window(d)) => Takers(a, w)' = Takers(a, w)
BY DEF Shapes, Takers, Window

LEMMA TakersLeave ==
  ASSUME Shapes, NEW d \in Deciders, pc[d] \in Taken, NEW l, l \notin Taken,
         pc' = [pc EXCEPT ![d] = l], \A e \in Deciders \ {d} : of'[e] = of[e]
  PROVE  \A a \in Approvers, w \in Windows :
           IF a = of[d].by /\ w = Window(d)
           THEN d \in Takers(a, w) /\ Takers(a, w)' = Takers(a, w) \ {d}
           ELSE Takers(a, w)' = Takers(a, w)
BY DEF Shapes, Takers, Window

\* The window of a decision under way is a window.
LEMMA OwnWindow ==
  ASSUME Shapes, NEW d \in Deciders, pc[d] # "idle"
  PROVE  of[d].by \in Approvers /\ Window(d) \in Windows /\ of[d].fam \in Families
BY DEF Shapes, Window, Windows

-----------------------------------------------------------------------------
(* Each step.                                                               *)

\* A step that moves a decision on, and touches neither the rate windows nor the log.
LEMMA QuietStep ==
  ASSUME AInv, NEW d \in Deciders, NEW l \in Labels, pc' = [pc EXCEPT ![d] = l],
         DOMAIN of' = Deciders, \A e \in Deciders \ {d} : of'[e] = of[e],
         l # "idle" => /\ of'[d].by \in Approvers /\ of'[d].fam \in Families
                       /\ of'[d].day \in 1 .. Days,
         \/ pc[d] \notin Taken /\ l \notin Taken
         \/ pc[d] \in Taken /\ l \in Taken /\ of'[d] = of[d],
         UNCHANGED <<clock, approvals, strays, missing, rateCount, ofRun>>,
         irrev' \in Nat, FenceIsExact'
  PROVE  AInv'
<1>1. Shapes'
  BY DEF AInv, Shapes
<1>2. \A a \in Approvers, w \in Windows : Takers(a, w)' = Takers(a, w)
  BY TakersSame DEF AInv
<1>3. SlotsAreHeld'
  BY <1>2 DEF AInv, SlotsAreHeld
<1> QED
  BY <1>1, <1>3 DEF AInv

\* The fence after a step that leaves the meter alone.
LEMMA FenceStays ==
  ASSUME AInv, NEW d \in Deciders, NEW l, pc' = [pc EXCEPT ![d] = l],
         UNCHANGED <<irrev, ofRun>>,
         (pc[d] \in {"dollars", "credit", "emit"}) <=> (l \in {"dollars", "credit", "emit"})
  PROVE  FenceIsExact'
<1>1. Cardinality(Holders') = Cardinality(Holders)
  BY HoldersCount DEF AInv
<1> QED
  BY <1>1 DEF AInv, FenceIsExact

LEMMA BeginKeeps == ASSUME AInv, NEW d \in Deciders, Begin(d) PROVE AInv'
<1>1. PICK a \in Approvers, f \in Families, c \in Costs :
        of' = [of EXCEPT ![d] = [by |-> a, fam |-> f, usd |-> c, day |-> clock]]
  BY DEF Begin
<1>2. /\ pc[d] = "idle" /\ pc' = [pc EXCEPT ![d] = "rate"]
      /\ UNCHANGED <<clock, approvals, strays, missing, rateCount, ofRun, irrev>>
  BY DEF Begin, Goto, counters, world, log, history
<1>3. DOMAIN of = Deciders /\ clock \in 1 .. Days /\ irrev \in Nat
  BY DEF AInv, Shapes
<1>4. /\ DOMAIN of' = Deciders /\ \A e \in Deciders \ {d} : of'[e] = of[e]
      /\ of'[d].by \in Approvers /\ of'[d].fam \in Families /\ of'[d].day \in 1 .. Days
  BY <1>1, <1>3
<1>5. FenceIsExact'
  BY <1>2, FenceStays
<1> QED
  BY <1>2, <1>3, <1>4, <1>5, QuietStep DEF Labels, Taken

\* A denied seed, or a full window: nothing is taken.
LEMMA RateKeeps == ASSUME AInv, NEW d \in Deciders, Rate(d) PROVE AInv'
<1> DEFINE a == of[d].by
           w == Window(d)
           cur == IF rateCount[a][w] = None THEN countAutoApprovalsToday(w) ELSE rateCount[a][w]
<1>1. /\ pc[d] = "rate" /\ UNCHANGED <<clock, approvals, strays, missing, ofRun, irrev>>
  BY DEF Rate, world, log
<1>2. /\ DOMAIN of = Deciders /\ a \in Approvers /\ w \in Windows /\ Shapes
      /\ of[d].fam \in Families /\ of[d].day \in 1 .. Days /\ irrev \in Nat
  BY <1>1, OwnWindow DEF AInv, Shapes
<1>3. cur \in Nat /\ cur <= approvals[w].lines + strays[w] + missing[w] + Cardinality(Takers(a, w))
  <2>1. /\ approvals[w].lines \in Nat /\ strays[w] \in Nat /\ missing[w] \in Nat
        /\ Cardinality(Takers(a, w)) \in Nat
        /\ rateCount[a][w] \in Nat \union {None}
    BY <1>2, Finite DEF Shapes
  <2>2. CASE rateCount[a][w] = None
    BY <2>1, <2>2 DEF countAutoApprovalsToday
  <2>3. CASE rateCount[a][w] # None
    BY <1>2, <2>1, <2>3 DEF AInv, SlotsAreHeld
  <2> QED
    BY <2>2, <2>3
<1> HIDE DEF a, w, cur
<1>4. CASE Goto(d, "fence") /\ UNCHANGED <<of, rateCount>>
  <2>1. pc' = [pc EXCEPT ![d] = "fence"] /\ of' = of /\ rateCount' = rateCount
    BY <1>4 DEF Goto
  <2>2. FenceIsExact'
    BY <1>1, <2>1, FenceStays
  <2>3. Shapes'
    BY <1>1, <1>2, <2>1 DEF Shapes, Labels, a
  <2>4. ASSUME NEW b \in Approvers, NEW v \in Windows, rateCount'[b][v] # None
        PROVE  rateCount'[b][v]
                 <= approvals'[v].lines + strays'[v] + missing'[v] + Cardinality(Takers(b, v)')
    <3>0. /\ approvals[v].lines \in Nat /\ strays[v] \in Nat /\ missing[v] \in Nat
          /\ Cardinality(Takers(b, v)) \in Nat
          /\ rateCount[b][v] \in Nat /\ rateCount'[b][v] = rateCount[b][v]
      BY <1>2, <2>1, <2>4, Finite DEF Shapes
    <3>1. /\ d \notin Takers(b, v)
          /\ Takers(b, v)' = Takers(b, v) \union {d} \/ Takers(b, v)' = Takers(b, v)
      BY <1>1, <1>2, <2>1, TakersJoin DEF Taken
    <3>2. \/ Cardinality(Takers(b, v)') = Cardinality(Takers(b, v)) + 1
          \/ Cardinality(Takers(b, v)') = Cardinality(Takers(b, v))
      BY <3>1, Finite, FS_AddElement
    <3>3. rateCount[b][v] <= approvals[v].lines + strays[v] + missing[v] + Cardinality(Takers(b, v))
      BY <2>4, <3>0 DEF AInv, SlotsAreHeld
    <3> QED
      BY <1>1, <3>0, <3>2, <3>3
  <2>5. SlotsAreHeld'
    BY <2>4 DEF SlotsAreHeld
  <2> QED
    BY <2>2, <2>3, <2>5 DEF AInv
<1>5. CASE /\ rateCount' = [rateCount EXCEPT ![a][w] = cur + 1]
           /\ Goto(d, "fence") /\ UNCHANGED of
  <2>1. pc' = [pc EXCEPT ![d] = "fence"] /\ of' = of
    BY <1>5 DEF Goto
  <2>2. FenceIsExact'
    BY <1>1, <2>1, FenceStays
  <2>3. Shapes'
    BY <1>1, <1>2, <1>3, <1>5, <2>1 DEF Shapes, Labels, a
  <2>4. ASSUME NEW b \in Approvers, NEW v \in Windows, rateCount'[b][v] # None
        PROVE  rateCount'[b][v]
                 <= approvals'[v].lines + strays'[v] + missing'[v] + Cardinality(Takers(b, v)')
    <3>0. /\ approvals[v].lines \in Nat /\ strays[v] \in Nat /\ missing[v] \in Nat
          /\ Cardinality(Takers(b, v)) \in Nat
          /\ rateCount \in [Approvers -> [Windows -> Nat \union {None}]]
      BY <1>2, Finite DEF Shapes
    <3>1. CASE b = a /\ v = w
      <4>1. Takers(b, v)' = Takers(b, v) \union {d} /\ d \notin Takers(b, v)
        BY <1>1, <1>2, <2>1, <3>1, TakersJoin DEF Taken, a, w
      <4>2. Cardinality(Takers(b, v)') = Cardinality(Takers(b, v)) + 1
        BY <4>1, Finite, FS_AddElement
      <4>3. rateCount'[b][v] = cur + 1
        BY <1>2, <1>5, <3>0, <3>1
      <4> QED
        BY <1>1, <1>3, <3>0, <3>1, <4>2, <4>3
    <3>2. CASE ~(b = a /\ v = w)
      <4>1. Takers(b, v)' = Takers(b, v)
        <5>1. b # of[d].by \/ v # Window(d)
          BY <3>2 DEF a, w
        <5>2. \A c \in Approvers, u \in Windows :
                ~(c = of[d].by /\ u = Window(d)) => Takers(c, u)' = Takers(c, u)
          BY <1>2, <2>1 DEF Shapes, Takers, Window
        <5> QED
          BY <5>1, <5>2
      <4>2. rateCount'[b][v] = rateCount[b][v]
        BY <1>2, <1>5, <3>0, <3>2
      <4> QED
        BY <1>1, <2>4, <4>1, <4>2 DEF AInv, SlotsAreHeld
    <3> QED
      BY <3>1, <3>2
  <2>5. SlotsAreHeld'
    BY <2>4 DEF SlotsAreHeld
  <2> QED
    BY <2>2, <2>3, <2>5 DEF AInv
<1>6. CASE rateCount' = [rateCount EXCEPT ![a][w] = cur] /\ Ends(d)
  <2>1. /\ pc' = [pc EXCEPT ![d] = "idle"] /\ DOMAIN of' = Deciders
        /\ \A e \in Deciders \ {d} : of'[e] = of[e]
    BY <1>2, <1>6 DEF Ends
  <2>2. FenceIsExact'
    BY <1>1, <2>1, FenceStays
  <2>3. Shapes'
    BY <1>1, <1>2, <1>3, <1>6, <2>1 DEF Shapes, Labels
  <2>4. \A b \in Approvers, v \in Windows : Takers(b, v)' = Takers(b, v)
    BY <1>1, <1>2, <2>1, TakersSame DEF Taken
  <2>5. SlotsAreHeld'
    BY <1>1, <1>2, <1>3, <1>6, <2>4 DEF AInv, SlotsAreHeld, Shapes
  <2> QED
    BY <2>2, <2>3, <2>5 DEF AInv
<1>7. CASE Ends(d) /\ UNCHANGED rateCount
  <2>1. /\ pc' = [pc EXCEPT ![d] = "idle"] /\ DOMAIN of' = Deciders
        /\ \A e \in Deciders \ {d} : of'[e] = of[e]
    BY <1>2, <1>7 DEF Ends
  <2>2. FenceIsExact'
    BY <1>1, <2>1, FenceStays
  <2> QED
    BY <1>1, <1>2, <1>7, <2>1, <2>2, QuietStep DEF Labels, Taken
<1> QED
  BY <1>4, <1>5, <1>6, <1>7 DEF Rate, a, w, cur

LEMMA FenceKeeps == ASSUME AInv, NEW d \in Deciders, Fence(d) PROVE AInv'
<1>1. /\ pc[d] = "fence" /\ of' = of
      /\ UNCHANGED <<clock, approvals, strays, missing, rateCount, ofRun>>
      /\ DOMAIN of = Deciders /\ irrev \in Nat /\ ofRun \in Nat
  BY DEF Fence, world, log, history, AInv, Shapes
<1>2. of[d].by \in Approvers /\ of[d].fam \in Families /\ of[d].day \in 1 .. Days
  BY <1>1 DEF AInv, Shapes
<1>3. CASE HasSlot /\ irrev' = irrev + 1 /\ Goto(d, "dollars")
  <2>1. pc' = [pc EXCEPT ![d] = "dollars"]
    BY <1>3 DEF Goto
  <2>2. Cardinality(Holders') = Cardinality(Holders) + 1
    BY <1>1, <2>1, HoldersCount DEF AInv
  <2>3. FenceIsExact' /\ irrev' \in Nat
    BY <1>1, <1>3, <2>2, Finite DEF AInv, FenceIsExact, HasSlot
  <2> QED
    BY <1>1, <1>2, <2>1, <2>3, QuietStep DEF Labels, Taken
<1>4. CASE Goto(d, "release") /\ UNCHANGED irrev
  <2>1. pc' = [pc EXCEPT ![d] = "release"]
    BY <1>4 DEF Goto
  <2>2. FenceIsExact'
    BY <1>1, <1>4, <2>1, FenceStays
  <2> QED
    BY <1>1, <1>2, <1>4, <2>1, <2>2, QuietStep DEF Labels, Taken
<1> QED
  BY <1>3, <1>4 DEF Fence

LEMMA ChargeKeeps == ASSUME AInv, NEW d \in Deciders, Charge(d) PROVE AInv'
<1>1. /\ pc[d] = "dollars" /\ of' = of
      /\ UNCHANGED <<clock, approvals, strays, missing, rateCount, ofRun, irrev>>
      /\ DOMAIN of = Deciders /\ irrev \in Nat
  BY DEF Charge, world, log, history, AInv, Shapes
<1>2. of[d].by \in Approvers /\ of[d].fam \in Families /\ of[d].day \in 1 .. Days
  BY <1>1 DEF AInv, Shapes
<1>3. PICK l \in {"emit", "credit"} : pc' = [pc EXCEPT ![d] = l]
  BY DEF Charge, Goto
<1>4. FenceIsExact'
  BY <1>1, <1>3, FenceStays
<1> QED
  BY <1>1, <1>2, <1>3, <1>4, QuietStep DEF Labels, Taken

\* The clamp never bites: the decision itself holds a slot.
LEMMA CreditKeeps == ASSUME AInv, NEW d \in Deciders, Credit(d) PROVE AInv'
<1>1. /\ pc[d] = "credit" /\ of' = of /\ pc' = [pc EXCEPT ![d] = "release"]
      /\ UNCHANGED <<clock, approvals, strays, missing, rateCount, ofRun>>
      /\ irrev' = IF irrev > 0 THEN irrev - 1 ELSE 0
      /\ DOMAIN of = Deciders /\ irrev \in Nat /\ ofRun \in Nat
  BY DEF Credit, Goto, world, log, history, AInv, Shapes
<1>2. of[d].by \in Approvers /\ of[d].fam \in Families /\ of[d].day \in 1 .. Days
  BY <1>1 DEF AInv, Shapes
<1>3. Cardinality(Holders') = Cardinality(Holders) - 1
  <2>1. d \in Holders /\ Shapes
    BY <1>1 DEF Holders, AInv
  <2> QED
    BY <1>1, <2>1, HoldersLeave
<1>4. Cardinality(Holders) \in Nat /\ Cardinality(Holders) # 0
  <2>1. d \in Holders
    BY <1>1 DEF Holders
  <2> QED
    BY <2>1, Finite, FS_EmptySet
<1>5. irrev' = irrev - 1 /\ irrev' \in Nat
  BY <1>1, <1>4 DEF AInv, FenceIsExact
<1>6. FenceIsExact'
  BY <1>1, <1>3, <1>4, <1>5, ApprovalAssumption DEF AInv, FenceIsExact
<1> QED
  BY <1>1, <1>2, <1>5, <1>6, QuietStep DEF Labels, Taken

LEMMA ReleaseKeeps == ASSUME AInv, NEW d \in Deciders, Release(d) PROVE AInv'
<1> DEFINE a == of[d].by
           w == Window(d)
           n == rateCount[a][w]
<1>1. /\ pc[d] = "release" /\ Ends(d) /\ rateCount' = [rateCount EXCEPT ![a][w] = Freed(n)]
      /\ UNCHANGED <<clock, approvals, strays, missing, ofRun, irrev>>
      /\ DOMAIN of = Deciders /\ Shapes
  BY DEF Release, world, log, history, AInv, Shapes
<1>2. a \in Approvers /\ w \in Windows
  BY <1>1, OwnWindow
<1>3. /\ pc' = [pc EXCEPT ![d] = "idle"] /\ DOMAIN of' = Deciders
      /\ \A e \in Deciders \ {d} : of'[e] = of[e]
  BY <1>1 DEF Ends
<1>4. FenceIsExact'
  BY <1>1, <1>3, FenceStays
<1>5. n \in Nat \union {None} /\ Freed(n) \in Nat \union {None}
  BY <1>1, <1>2 DEF Shapes, Freed
<1> HIDE DEF a, w, n
<1>6. Shapes'
  BY <1>1, <1>2, <1>3, <1>5 DEF Shapes, Labels
<1>7. ASSUME NEW b \in Approvers, NEW v \in Windows, rateCount'[b][v] # None
      PROVE  rateCount'[b][v]
               <= approvals'[v].lines + strays'[v] + missing'[v] + Cardinality(Takers(b, v)')
  <2>0. /\ approvals[v].lines \in Nat /\ strays[v] \in Nat /\ missing[v] \in Nat
        /\ Cardinality(Takers(b, v)) \in Nat
        /\ rateCount \in [Approvers -> [Windows -> Nat \union {None}]]
    BY <1>1, Finite DEF Shapes
  <2>1. CASE b = a /\ v = w
    <3>1. d \in Takers(b, v) /\ Takers(b, v)' = Takers(b, v) \ {d}
      BY <1>1, <1>3, <2>1, TakersLeave DEF Taken, a, w
    <3>2. Cardinality(Takers(b, v)') = Cardinality(Takers(b, v)) - 1
      BY <3>1, Finite, FS_RemoveElement
    <3>3. rateCount'[b][v] = Freed(n) /\ n = rateCount[b][v]
      BY <1>1, <1>2, <2>0, <2>1 DEF n
    <3>4. n # None => n <= approvals[v].lines + strays[v] + missing[v] + Cardinality(Takers(b, v))
      BY <3>3 DEF AInv, SlotsAreHeld
    <3>5. Freed(n) # None /\ n # None
      BY <1>7, <3>3 DEF Freed
    <3>6. Cardinality(Takers(b, v)) # 0
      BY <3>1, Finite, FS_EmptySet
    <3>7. CASE n > 0
      BY <1>1, <1>5, <2>0, <3>2, <3>3, <3>4, <3>5, <3>7 DEF Freed
    <3>8. CASE n = 0
      <4>1. rateCount'[b][v] = 0 /\ Cardinality(Takers(b, v)') \in Nat
        BY <2>0, <3>2, <3>3, <3>5, <3>6, <3>8 DEF Freed
      <4>2. approvals'[v] = approvals[v] /\ strays'[v] = strays[v] /\ missing'[v] = missing[v]
        BY <1>1
      <4> QED
        BY <2>0, <4>1, <4>2
    <3> QED
      BY <1>5, <3>5, <3>7, <3>8
  <2>2. CASE ~(b = a /\ v = w)
    <3>1. Takers(b, v)' = Takers(b, v)
      BY <1>1, <1>3, <2>2, TakersLeave DEF Taken, a, w
    <3>2. rateCount'[b][v] = rateCount[b][v]
      BY <1>1, <1>2, <2>0, <2>2
    <3> QED
      BY <1>1, <1>7, <3>1, <3>2 DEF AInv, SlotsAreHeld
  <2> QED
    BY <2>1, <2>2
<1>8. SlotsAreHeld'
  BY <1>7 DEF SlotsAreHeld
<1> QED
  BY <1>4, <1>6, <1>8 DEF AInv

\* The slot becomes a line of the log, of its own day or as a stray.
LEMMA EmitKeeps == ASSUME AInv, NEW d \in Deciders, Emit(d) PROVE AInv'
<1> DEFINE a == of[d].by
           w == Window(d)
           t == <<of[d].fam, clock>>
<1>1. /\ pc[d] = "emit" /\ Ends(d)
      /\ \/ /\ approvals' = With(approvals, t, of[d].usd)
            /\ strays' = [strays EXCEPT ![w] = IF of[d].day = clock THEN @ ELSE @ + 1]
            /\ missing' = missing
         \/ /\ missing' = [missing EXCEPT ![w] = @ + 1]
            /\ approvals' = approvals /\ strays' = strays
      /\ ofRun' = ofRun + 1 /\ UNCHANGED <<clock, rateCount, irrev>>
      /\ DOMAIN of = Deciders /\ Shapes /\ irrev \in Nat /\ ofRun \in Nat
  BY DEF Emit, counters, world, AInv, Shapes
<1>2. a \in Approvers /\ w \in Windows /\ t \in Windows /\ (of[d].day = clock => t = w)
  BY <1>1, OwnWindow DEF Shapes, Windows, Window
<1>3. /\ pc' = [pc EXCEPT ![d] = "idle"] /\ DOMAIN of' = Deciders
      /\ \A e \in Deciders \ {d} : of'[e] = of[e]
  BY <1>1 DEF Ends
<1>4. FenceIsExact'
  <2>1. d \in Holders /\ pc' = [pc EXCEPT ![d] = "idle"] /\ Shapes
    BY <1>1, <1>3 DEF Holders
  <2>2. Cardinality(Holders') = Cardinality(Holders) - 1
    BY <2>1, HoldersLeave
  <2> QED
    BY <1>1, <2>2, Finite DEF AInv, FenceIsExact
<1> HIDE DEF a, w, t
<1>5. /\ DOMAIN approvals' = Windows
      /\ \A v \in Windows : /\ approvals'[v].lines \in Nat
                            /\ approvals'[v].lines >= approvals[v].lines
      /\ strays' \in [Windows -> Nat] /\ missing' \in [Windows -> Nat]
      /\ \A v \in Windows : strays'[v] >= strays[v] /\ missing'[v] >= missing[v]
      /\ approvals'[w].lines + strays'[w] + missing'[w]
           >= approvals[w].lines + strays[w] + missing[w] + 1
  <2>0. /\ DOMAIN approvals = Windows /\ \A v \in Windows : approvals[v].lines \in Nat
        /\ strays \in [Windows -> Nat] /\ missing \in [Windows -> Nat]
    BY <1>1 DEF Shapes
  <2>1. CASE /\ approvals' = With(approvals, t, of[d].usd)
             /\ strays' = [strays EXCEPT ![w] = IF of[d].day = clock THEN @ ELSE @ + 1]
             /\ missing' = missing
    <3>1. /\ DOMAIN approvals' = Windows
          /\ \A v \in Windows : approvals'[v].lines = IF v = t THEN approvals[v].lines + 1
                                                               ELSE approvals[v].lines
      BY <1>2, <2>0, <2>1 DEF With
    <3>2. /\ strays' \in [Windows -> Nat]
          /\ \A v \in Windows : strays'[v] = IF v = w /\ of[d].day # clock THEN strays[v] + 1
                                                                           ELSE strays[v]
      BY <1>2, <2>0, <2>1
    <3> QED
      BY <1>2, <2>0, <2>1, <3>1, <3>2
  <2>2. CASE /\ missing' = [missing EXCEPT ![w] = @ + 1]
             /\ approvals' = approvals /\ strays' = strays
    <3>1. /\ missing' \in [Windows -> Nat]
          /\ \A v \in Windows : missing'[v] = IF v = w THEN missing[v] + 1 ELSE missing[v]
      BY <1>2, <2>0, <2>2
    <3> QED
      BY <1>2, <2>0, <2>2, <3>1
  <2> QED
    BY <1>1, <2>1, <2>2
<1>7. Shapes'
  BY <1>1, <1>3, <1>5 DEF Shapes, Labels
<1>8. ASSUME NEW b \in Approvers, NEW v \in Windows, rateCount'[b][v] # None
      PROVE  rateCount'[b][v]
               <= approvals'[v].lines + strays'[v] + missing'[v] + Cardinality(Takers(b, v)')
  <2>0. /\ approvals[v].lines \in Nat /\ strays[v] \in Nat /\ missing[v] \in Nat
        /\ Cardinality(Takers(b, v)) \in Nat /\ rateCount[b][v] \in Nat \union {None}
    BY <1>1, Finite DEF Shapes
  <2>1. rateCount'[b][v] = rateCount[b][v] /\ rateCount[b][v] \in Nat
    BY <1>1, <1>8, <2>0
  <2>2. rateCount[b][v] <= approvals[v].lines + strays[v] + missing[v] + Cardinality(Takers(b, v))
    BY <1>8, <2>1 DEF AInv, SlotsAreHeld
  <2>3. /\ approvals'[v].lines \in Nat /\ strays'[v] \in Nat /\ missing'[v] \in Nat
        /\ approvals'[v].lines >= approvals[v].lines /\ strays'[v] >= strays[v]
        /\ missing'[v] >= missing[v]
    BY <1>5
  <2>4. CASE b = a /\ v = w
    <3>1. d \in Takers(b, v) /\ Takers(b, v)' = Takers(b, v) \ {d}
      BY <1>1, <1>3, <2>4, TakersLeave DEF Taken, a, w
    <3>2. Cardinality(Takers(b, v)') = Cardinality(Takers(b, v)) - 1
      BY <3>1, Finite, FS_RemoveElement
    <3>3. approvals'[v].lines + strays'[v] + missing'[v]
            >= approvals[v].lines + strays[v] + missing[v] + 1
      BY <1>5, <2>4
    <3> QED
      BY <2>0, <2>1, <2>2, <2>3, <3>2, <3>3
  <2>5. CASE ~(b = a /\ v = w)
    <3>1. Takers(b, v)' = Takers(b, v)
      BY <1>1, <1>3, <2>5, TakersLeave DEF Taken, a, w
    <3> QED
      BY <2>0, <2>1, <2>2, <2>3, <3>1
  <2> QED
    BY <2>4, <2>5
<1>9. SlotsAreHeld'
  BY <1>8 DEF SlotsAreHeld
<1> QED
  BY <1>4, <1>7, <1>9 DEF AInv

LEMMA RestartKeeps == ASSUME AInv, Restart PROVE AInv'
<1>1. /\ pc' = [d \in Deciders |-> "idle"] /\ of' = [d \in Deciders |-> None]
      /\ rateCount' = [b \in Approvers |-> [w \in Windows |-> None]]
      /\ irrev' = 0 /\ ofRun' = 0 /\ UNCHANGED <<clock, approvals, strays, missing>>
  BY DEF Restart, NoWindows, log
<1>2. Shapes' /\ SlotsAreHeld'
  BY <1>1 DEF AInv, Shapes, SlotsAreHeld, Labels
<1>3. Cardinality(Holders') = 0
  <2>1. Holders' = {}
    BY <1>1 DEF Holders
  <2> QED
    BY <2>1, FS_EmptySet
<1>4. FenceIsExact'
  BY <1>1, <1>3, ApprovalAssumption DEF FenceIsExact
<1> QED
  BY <1>2, <1>4 DEF AInv

\* Nothing of the argument moves.
LEMMA OthersKeep ==
  ASSUME AInv, (\E f \in Families : Outcome(f)) \/ Midnight \/ UNCHANGED vars
  PROVE  AInv'
<1>1. /\ UNCHANGED <<pc, of, approvals, strays, missing, rateCount, irrev, ofRun>>
      /\ (clock' = clock \/ (clock' = clock + 1 /\ clock < Days))
  BY DEF Outcome, Midnight, vars, decision, counters, world, log, history
<1>2. Shapes'
  BY <1>1, ApprovalAssumption DEF AInv, Shapes
<1>3. FenceIsExact' /\ SlotsAreHeld'
  BY <1>1 DEF AInv, FenceIsExact, SlotsAreHeld, Holders, Takers, Window
<1> QED
  BY <1>2, <1>3 DEF AInv

LEMMA InitAInv == Init => AInv
<1> SUFFICES ASSUME Init PROVE AInv
  OBVIOUS
<1>1. /\ pc = [d \in Deciders |-> "idle"] /\ of = [d \in Deciders |-> None] /\ clock = 1
      /\ approvals = [w \in Windows |-> [lines |-> 0, usd |-> 0]]
      /\ strays = [w \in Windows |-> 0] /\ missing = [w \in Windows |-> 0]
      /\ rateCount = [b \in Approvers |-> [w \in Windows |-> None]] /\ irrev = 0 /\ ofRun = 0
  BY DEF Init, NoWindows, NoGrants
<1>2. Shapes /\ SlotsAreHeld
  BY <1>1, ApprovalAssumption DEF Shapes, SlotsAreHeld, Labels
<1>3. Holders = {}
  BY <1>1 DEF Holders
<1>4. FenceIsExact
  BY <1>1, <1>3, FS_EmptySet, ApprovalAssumption DEF FenceIsExact
<1> QED
  BY <1>2, <1>4 DEF AInv

LEMMA NextAInv == AInv /\ [Next]_vars => AInv'
<1> SUFFICES ASSUME AInv, [Next]_vars PROVE AInv'
  OBVIOUS
<1>1. CASE \E d \in Deciders : Decide(d)
  <2>1. PICK d \in Deciders : Decide(d)
    BY <1>1
  <2> QED
    BY <2>1, BeginKeeps, RateKeeps, FenceKeeps, ChargeKeeps, CreditKeeps, ReleaseKeeps,
       EmitKeeps DEF Decide
<1>2. CASE Restart
  BY <1>2, RestartKeeps
<1>3. CASE (\E f \in Families : Outcome(f)) \/ Midnight \/ UNCHANGED vars
  BY <1>3, OthersKeep
<1> QED
  BY <1>1, <1>2, <1>3 DEF Next

\* When nobody decides, nothing is held in any window.
LEMMA AInvImplies == AInv => FenceIsExact /\ SlotsComeBack
<1> SUFFICES ASSUME AInv PROVE FenceIsExact /\ SlotsComeBack
  OBVIOUS
<1>1. FenceIsExact
  BY DEF AInv
<1>2. ASSUME \A d \in Deciders : pc[d] = "idle", NEW a \in Approvers, NEW w \in Windows,
             rateCount[a][w] # None
      PROVE  rateCount[a][w] <= approvals[w].lines + strays[w] + missing[w]
  <2>1. Takers(a, w) = {}
    BY <1>2 DEF Takers, Taken
  <2>2. Cardinality(Takers(a, w)) = 0
    BY <2>1, FS_EmptySet
  <2>3. approvals[w].lines \in Nat /\ strays[w] \in Nat /\ missing[w] \in Nat
    BY DEF AInv, Shapes
  <2> QED
    BY <1>2, <2>2, <2>3 DEF AInv, SlotsAreHeld
<1> QED
  BY <1>1, <1>2 DEF SlotsComeBack

\* The irreversible meter counts the approvals of the run and the decisions that hold a
\* slot, exactly, and never passes its ceiling.
THEOREM FenceExact == Spec => []FenceIsExact
<1>1. Spec => []AInv
  BY InitAInv, NextAInv, PTL DEF Spec
<1> QED
  BY <1>1, AInvImplies, PTL

\* A denied action consumes nothing: once no decision is under way, a window holds no more
\* slots than the log has approvals for it, those logged past midnight, and those whose line
\* was not written.
THEOREM SlotsReturn == Spec => []SlotsComeBack
<1>1. Spec => []AInv
  BY InitAInv, NextAInv, PTL DEF Spec
<1> QED
  BY <1>1, AInvImplies, PTL

-----------------------------------------------------------------------------
(* Sums over a finite set.                                                  *)

\* A set of numbers that is not empty has a least one.
LEMMA LeastElement ==
  ASSUME NEW S \in SUBSET Nat, S # {}
  PROVE  \E j \in S : \A k \in S : j <= k
<1>1. PICK j \in S : \A k \in S : ~(<<k, j>> \in OpToRel(<, Nat))
  BY WFMin, NatLessThanWellFounded, Zenon
<1>2. \A k \in S : ~(k < j)
  BY <1>1 DEF OpToRel
<1> QED
  BY <1>2

\* Induction over the subsets of a finite set, for a property given as the set of those
\* that have it.
LEMMA SubsetInduction ==
  ASSUME NEW S, IsFiniteSet(S), NEW P,
         \A T \in SUBSET S : (\A U \in SUBSET T : U # T => U \in P) => T \in P
  PROVE  \A T \in SUBSET S : T \in P
<1> SUFFICES ASSUME NEW B \in SUBSET S, B \notin P PROVE FALSE
  OBVIOUS
<1> DEFINE Bad == {n \in Nat : \E T \in SUBSET S : T \notin P /\ Cardinality(T) = n}
<1>1. \A T \in SUBSET S : IsFiniteSet(T) /\ Cardinality(T) \in Nat
  BY FS_Subset, FS_CardinalityType
<1>2. Bad \in SUBSET Nat /\ Bad # {}
  BY <1>1
<1>4. PICK n \in Bad : \A k \in Bad : n <= k
  BY <1>2, LeastElement
<1>5. PICK T \in SUBSET S : T \notin P /\ Cardinality(T) = n
  BY <1>4
<1>6. ASSUME NEW U \in SUBSET T, U # T PROVE U \in P
  <2>1. Cardinality(U) <= n /\ Cardinality(U) # n /\ Cardinality(U) \in Nat /\ n \in Nat
    BY <1>1, <1>5, <1>6, FS_Subset
  <2> QED
    BY <1>4, <2>1
<1> QED
  BY <1>5, <1>6

\* A sum is the number of units in it, so the order of the summands is of no matter.
Units(g, T) == UNION {{x} \X (1 .. g[x]) : x \in T}

LEMMA UnitsAdd ==
  ASSUME NEW g, NEW T, NEW x, x \notin T, g[x] \in Nat, IsFiniteSet(Units(g, T))
  PROVE  /\ IsFiniteSet(Units(g, T \union {x}))
         /\ Cardinality(Units(g, T \union {x})) = Cardinality(Units(g, T)) + g[x]
<1> DEFINE own == {x} \X (1 .. g[x])
<1>1. IsFiniteSet(own) /\ Cardinality(own) = g[x]
  <2>1. IsFiniteSet(1 .. g[x]) /\ Cardinality(1 .. g[x]) = g[x]
    BY FS_Interval, SMTT(30)
  <2>2. IsFiniteSet({x}) /\ Cardinality({x}) = 1
    BY FS_Singleton
  <2>3. IsFiniteSet(own) /\ Cardinality(own) = Cardinality({x}) * Cardinality(1 .. g[x])
    BY <2>1, <2>2, FS_Product, Zenon
  <2> QED
    BY <2>1, <2>2, <2>3
<1>2. Units(g, T \union {x}) = Units(g, T) \union own
  BY DEF Units
<1>3. Units(g, T) \cap own = {}
  BY DEF Units
<1>4. Cardinality(Units(g, T) \cap own) = 0
  BY <1>3, FS_EmptySet
<1>5. Cardinality(Units(g, T)) \in Nat
  BY FS_CardinalityType
<1> HIDE DEF own
<1>6. /\ IsFiniteSet(Units(g, T) \union own)
      /\ Cardinality(Units(g, T) \union own)
           = Cardinality(Units(g, T)) + Cardinality(own) - Cardinality(Units(g, T) \cap own)
  BY <1>1, FS_Union, Zenon
<1>7. Cardinality(Units(g, T) \union own) = Cardinality(Units(g, T)) + g[x]
  BY <1>1, <1>4, <1>5, <1>6
<1> QED
  BY <1>2, <1>6, <1>7, Zenon

LEMMA UnitsFinite ==
  ASSUME NEW D, IsFiniteSet(D), NEW g \in [D -> Nat]
  PROVE  \A T \in SUBSET D : IsFiniteSet(Units(g, T)) /\ Cardinality(Units(g, T)) \in Nat
<1> DEFINE P == {T \in SUBSET D : IsFiniteSet(Units(g, T))}
<1>1. ASSUME NEW T \in SUBSET D, \A U \in SUBSET T : U # T => U \in P
      PROVE  T \in P
  <2>1. CASE T = {}
    <3>1. Units(g, {}) = {}
      BY DEF Units
    <3> QED
      BY <2>1, <3>1, FS_EmptySet
  <2>2. CASE T # {}
    <3>1. PICK x : x \in T
      BY <2>2
    <3>2. T \ {x} \in P /\ (T \ {x}) \union {x} = T /\ x \notin T \ {x} /\ g[x] \in Nat
      BY <1>1, <3>1
    <3>3. IsFiniteSet(Units(g, (T \ {x}) \union {x}))
      BY <3>2, UnitsAdd
    <3> QED
      BY <3>2, <3>3
  <2> QED
    BY <2>1, <2>2
<1> HIDE DEF P
<1>2. \A T \in SUBSET D : T \in P
  BY <1>1, SubsetInduction
<1> QED
  BY <1>2, FS_CardinalityType DEF P

LEMMA SumIsCount ==
  ASSUME NEW D, IsFiniteSet(D), NEW g \in [D -> Nat]
  PROVE  SumFunction(g) = Cardinality(Units(g, D))
<1> DEFINE pick(s) == CHOOSE x \in s : TRUE
           Sums(it) == it = [s \in SUBSET D |-> IF s = {} THEN 0
                                                ELSE g[pick(s)] + it[s \ {pick(s)}]]
           iter == CHOOSE it : Sums(it)
           count == [s \in SUBSET D |-> Cardinality(Units(g, s))]
<1>1. SumFunction(g) = iter[D]
  BY Zenon DEF SumFunction, SumFunctionOnSet, FoldFunctionOnSet, MapThenFoldSet
<1>2. Units(g, {}) = {} /\ Cardinality(Units(g, {})) = 0
  BY FS_EmptySet DEF Units
<1>3. ASSUME NEW s \in SUBSET D, NEW x \in s
      PROVE  Cardinality(Units(g, s)) = g[x] + Cardinality(Units(g, s \ {x}))
  <2>1. (s \ {x}) \union {x} = s /\ x \notin s \ {x} /\ s \ {x} \in SUBSET D /\ g[x] \in Nat
    OBVIOUS
  <2>2. IsFiniteSet(Units(g, s \ {x})) /\ Cardinality(Units(g, s \ {x})) \in Nat
    BY <2>1, UnitsFinite
  <2>3. Cardinality(Units(g, (s \ {x}) \union {x})) = Cardinality(Units(g, s \ {x})) + g[x]
    BY <2>1, <2>2, UnitsAdd
  <2>4. Cardinality(Units(g, s)) = Cardinality(Units(g, s \ {x})) + g[x]
    BY <2>1, <2>3, Zenon
  <2> QED
    BY <2>1, <2>2, <2>4
<1>4. \A s \in SUBSET D : s # {} => pick(s) \in s
  OBVIOUS
<1> HIDE DEF pick
<1>5. Sums(count)
  BY <1>2, <1>3, <1>4
<1> HIDE DEF count
<1>6. Sums(iter)
  BY <1>5, Zenon
<1> HIDE DEF iter
<1> DEFINE P == {T \in SUBSET D : iter[T] = Cardinality(Units(g, T))}
<1>7. ASSUME NEW T \in SUBSET D, \A U \in SUBSET T : U # T => U \in P
      PROVE  T \in P
  <2>1. CASE T = {}
    BY <1>2, <1>6, <2>1
  <2>2. CASE T # {}
    <3>1. pick(T) \in T /\ T \ {pick(T)} \in SUBSET T /\ T \ {pick(T)} # T
      BY <1>4, <2>2
    <3>2. iter[T] = g[pick(T)] + iter[T \ {pick(T)}]
      BY <1>6, <2>2
    <3>3. iter[T \ {pick(T)}] = Cardinality(Units(g, T \ {pick(T)}))
      BY <1>7, <3>1
    <3> QED
      BY <1>3, <3>1, <3>2, <3>3
  <2> QED
    BY <2>1, <2>2
<1> HIDE DEF P
<1>8. \A T \in SUBSET D : T \in P
  BY <1>7, SubsetInduction
<1> QED
  BY <1>1, <1>8 DEF P

\* A sum is a number, grows by what one summand grows, and with all of them.
LEMMA SumIsNat ==
  ASSUME NEW D, IsFiniteSet(D), NEW g \in [D -> Nat]
  PROVE  SumFunction(g) \in Nat
BY SumIsCount, UnitsFinite

LEMMA SumAt ==
  ASSUME NEW D, IsFiniteSet(D), NEW g \in [D -> Nat], NEW h \in [D -> Nat], NEW x \in D,
         \A y \in D \ {x} : h[y] = g[y]
  PROVE  SumFunction(h) - h[x] = SumFunction(g) - g[x]
<1>1. Units(h, D \ {x}) = Units(g, D \ {x})
  BY DEF Units
<1>2. (D \ {x}) \union {x} = D /\ x \notin D \ {x} /\ D \ {x} \in SUBSET D
  OBVIOUS
<1>3. ASSUME NEW f \in [D -> Nat]
      PROVE  /\ SumFunction(f) = Cardinality(Units(f, D \ {x})) + f[x]
             /\ Cardinality(Units(f, D \ {x})) \in Nat /\ f[x] \in Nat
  <2>1. /\ IsFiniteSet(Units(f, D \ {x})) /\ Cardinality(Units(f, D \ {x})) \in Nat
        /\ f[x] \in Nat
    BY <1>2, UnitsFinite
  <2>2. Cardinality(Units(f, (D \ {x}) \union {x})) = Cardinality(Units(f, D \ {x})) + f[x]
    BY <1>2, <2>1, UnitsAdd
  <2> QED
    BY <1>2, <2>1, <2>2, SumIsCount
<1> QED
  BY <1>1, <1>3

LEMMA SumGrows ==
  ASSUME NEW D, IsFiniteSet(D), NEW g \in [D -> Nat], NEW h \in [D -> Nat],
         \A x \in D : g[x] <= h[x]
  PROVE  SumFunction(g) <= SumFunction(h)
<1>1. Units(g, D) \in SUBSET Units(h, D)
  BY DEF Units
<1>2. IsFiniteSet(Units(h, D))
  BY UnitsFinite
<1> QED
  BY <1>1, <1>2, SumIsCount, FS_Subset

LEMMA SumOfNothing ==
  ASSUME NEW D, IsFiniteSet(D), NEW g \in [D -> Nat], \A x \in D : g[x] = 0
  PROVE  SumFunction(g) = 0
<1>1. Units(g, D) = {}
  BY DEF Units
<1> QED
  BY <1>1, SumIsCount, FS_EmptySet
-----------------------------------------------------------------------------
(* Type correctness.                                                        *)

TypeInv == TypeOK /\ \A f \in Families : outcomes[f].green <= outcomes[f].total

\* One more line, with its dollars.
LEMMA WithTypes ==
  ASSUME NEW counts \in [Windows -> [lines : Nat, usd : Nat]], NEW w \in Windows, NEW c \in Nat
  PROVE  /\ With(counts, w, c) \in [Windows -> [lines : Nat, usd : Nat]]
         /\ \A v \in Windows :
              /\ With(counts, w, c)[v].lines = IF v = w THEN counts[v].lines + 1
                                                        ELSE counts[v].lines
              /\ With(counts, w, c)[v].usd = IF v = w THEN counts[v].usd + c ELSE counts[v].usd
BY DEF With

\* Who decides has a call of its own.
LEMMA CallFacts ==
  ASSUME TypeOK, NEW d \in Deciders, pc[d] # "idle"
  PROVE  /\ of[d] \in Calls /\ of[d].by \in Approvers /\ of[d].fam \in Families
         /\ of[d].usd \in Nat /\ of[d].day \in 1 .. Days /\ Window(d) \in Windows
         /\ Window(d) = <<of[d].fam, of[d].day>>
<1>1. of[d] \in Calls
  BY DEF TypeOK
<1> QED
  BY <1>1, ApprovalAssumption DEF Calls, Window, Windows

LEMMA EndsTypes ==
  ASSUME TypeOK, NEW d \in Deciders, Ends(d)
  PROVE  /\ pc' \in [Deciders -> {"idle", "rate", "fence", "dollars", "credit", "release", "emit"}]
         /\ of' \in [Deciders -> Calls \union {None}]
         /\ \A e \in Deciders : of'[e] = None <=> pc'[e] = "idle"
         /\ pc'[d] = "idle" /\ \A e \in Deciders \ {d} : pc'[e] = pc[e] /\ of'[e] = of[e]
BY DEF TypeOK, Ends

LEMMA GotoTypes ==
  ASSUME TypeOK, NEW d \in Deciders, pc[d] # "idle", of' = of,
         NEW l \in {"rate", "fence", "dollars", "credit", "release", "emit"}, Goto(d, l)
  PROVE  /\ pc' \in [Deciders -> {"idle", "rate", "fence", "dollars", "credit", "release", "emit"}]
         /\ of' \in [Deciders -> Calls \union {None}]
         /\ \A e \in Deciders : of'[e] = None <=> pc'[e] = "idle"
         /\ pc'[d] = l /\ \A e \in Deciders \ {d} : pc'[e] = pc[e]
BY DEF TypeOK, Goto

\* A window that is set to a number.
LEMMA WindowTypes ==
  ASSUME NEW counts \in [Approvers -> [Windows -> Nat \union {None}]],
         NEW a \in Approvers, NEW w \in Windows, NEW n \in Nat \union {None}
  PROVE  /\ [counts EXCEPT ![a][w] = n] \in [Approvers -> [Windows -> Nat \union {None}]]
         /\ \A b \in Approvers, v \in Windows :
              [counts EXCEPT ![a][w] = n][b][v] = IF b = a /\ v = w THEN n ELSE counts[b][v]
OBVIOUS

\* The dollars of a day.
LEMMA DayTypes ==
  ASSUME NEW counts \in [Windows -> [lines : Nat, usd : Nat]], NEW n \in 1 .. Days
  PROVE  /\ [f \in Families |-> counts[<<f, n>>].usd] \in [Families -> Nat]
         /\ DayDollars(counts, n) \in Nat
<1>1. [f \in Families |-> counts[<<f, n>>].usd] \in [Families -> Nat]
  BY DEF Windows
<1> QED
  BY <1>1, SumIsNat, ApprovalAssumption, Zenon DEF DayDollars

LEMMA DecideTypes ==
  ASSUME TypeInv, NEW d \in Deciders, Decide(d)
  PROVE  TypeInv'
<1> USE DEF TypeInv, TypeOK
<1>1. CASE Begin(d)
  <2>1. PICK a \in Approvers, f \in Families, c \in Costs :
          of' = [of EXCEPT ![d] = [by |-> a, fam |-> f, usd |-> c, day |-> clock]]
    BY <1>1 DEF Begin
  <2>2. [by |-> a, fam |-> f, usd |-> c, day |-> clock] \in Calls
    BY DEF Calls
  <2>3. /\ pc' = [pc EXCEPT ![d] = "rate"] /\ UNCHANGED <<counters, world, log, history>>
    BY <1>1 DEF Begin, Goto
  <2> HIDE DEF Calls
  <2>4. \A e \in Deciders : of'[e] = None <=> pc'[e] = "idle"
    BY <2>1, <2>2, <2>3, NoneAssumption
  <2> QED
    BY <2>1, <2>2, <2>3, <2>4 DEF counters, world, log, history
<1>2. CASE Rate(d)
  <2> DEFINE a == of[d].by
             w == Window(d)
             cur == IF rateCount[a][w] = None THEN countAutoApprovalsToday(w) ELSE rateCount[a][w]
  <2>1. /\ a \in Approvers /\ w \in Windows /\ pc[d] # "idle"
        /\ UNCHANGED <<dollarsDay, irrev, blastDay, world, log,
                       granted, strays, missing, unfenced, ofRun>>
        /\ split' = split \union Shared(rateCount')
    BY <1>2, CallFacts DEF Rate
  <2>2. cur \in Nat
    BY <2>1 DEF countAutoApprovalsToday
  <2>3. \/ Ends(d)
        \/ of' = of /\ Goto(d, "fence")
    BY <1>2 DEF Rate
  <2>4. \/ UNCHANGED rateCount
        \/ rateCount' = [rateCount EXCEPT ![a][w] = cur + 1]
        \/ rateCount' = [rateCount EXCEPT ![a][w] = cur]
    BY <1>2 DEF Rate
  <2> HIDE DEF a, w, cur
  <2>5. rateCount' \in [Approvers -> [Windows -> Nat \union {None}]]
    <3>1. cur \in Nat \union {None} /\ cur + 1 \in Nat \union {None}
      BY <2>2
    <3>2. rateCount \in [Approvers -> [Windows -> Nat \union {None}]]
      OBVIOUS
    <3>3. \A k \in Nat \union {None} :
            [rateCount EXCEPT ![a][w] = k] \in [Approvers -> [Windows -> Nat \union {None}]]
      BY <2>1, <3>2, WindowTypes
    <3> QED
      BY <2>4, <3>1, <3>2, <3>3, Zenon
  <2>6. /\ pc' \in [Deciders -> {"idle", "rate", "fence", "dollars", "credit", "release", "emit"}]
        /\ of' \in [Deciders -> Calls \union {None}]
        /\ \A e \in Deciders : of'[e] = None <=> pc'[e] = "idle"
    BY <2>1, <2>3, EndsTypes, GotoTypes
  <2>7. split' \subseteq Windows
    BY <2>1 DEF Shared
  <2> QED
    BY <2>1, <2>5, <2>6, <2>7 DEF world, log
<1>3. CASE Fence(d)
  <2>1. /\ pc[d] # "idle" /\ of' = of /\ irrev' \in Nat
        /\ Goto(d, "dollars") \/ Goto(d, "release")
        /\ UNCHANGED <<rateCount, dollarsDay, blastDay, world, log, history>>
    BY <1>3 DEF Fence
  <2>2. /\ pc' \in [Deciders -> {"idle", "rate", "fence", "dollars", "credit", "release", "emit"}]
        /\ of' \in [Deciders -> Calls \union {None}]
        /\ \A e \in Deciders : of'[e] = None <=> pc'[e] = "idle"
    BY <2>1, GotoTypes
  <2> QED
    BY <2>1, <2>2 DEF world, log, history
<1>4. CASE Charge(d)
  <2> DEFINE a == of[d].by
             w == Window(d)
             n == of[d].day
             sum == IF dollarsDay[a][w] = None THEN sumAutoApprovalDollarsToday(w)
                                               ELSE dollarsDay[a][w]
  <2>1. /\ a \in Approvers /\ w \in Windows /\ n \in 1 .. Days /\ of[d].usd \in Nat
        /\ pc[d] # "idle" /\ of' = of
        /\ Goto(d, "emit") \/ Goto(d, "credit")
        /\ UNCHANGED <<rateCount, irrev, world, log, history>>
    BY <1>4, CallFacts DEF Charge
  <2>2. sum \in Nat
    BY <2>1 DEF sumAutoApprovalDollarsToday
  <2>3. \/ UNCHANGED dollarsDay
        \/ dollarsDay' = [dollarsDay EXCEPT ![a][w] = sum + of[d].usd]
        \/ dollarsDay' = [dollarsDay EXCEPT ![a][w] = sum]
    BY <1>4 DEF Charge
  <2>4. \/ UNCHANGED blastDay
        \/ blastDay' = [blastDay EXCEPT ![n] = @ + of[d].usd]
    BY <1>4 DEF Charge
  <2> HIDE DEF a, w, n, sum
  <2>5. dollarsDay' \in [Approvers -> [Windows -> Nat \union {None}]]
    <3>1. sum \in Nat \union {None} /\ sum + of[d].usd \in Nat \union {None}
      BY <2>1, <2>2, SMTT(30)
    <3>2. dollarsDay \in [Approvers -> [Windows -> Nat \union {None}]]
      OBVIOUS
    <3>3. \A k \in Nat \union {None} :
            [dollarsDay EXCEPT ![a][w] = k] \in [Approvers -> [Windows -> Nat \union {None}]]
      BY <2>1, <3>2, WindowTypes
    <3> QED
      BY <2>3, <3>1, <3>2, <3>3, Zenon
  <2>7. blastDay' \in [1 .. Days -> Nat]
    BY <2>1, <2>4
  <2>6. /\ pc' \in [Deciders -> {"idle", "rate", "fence", "dollars", "credit", "release", "emit"}]
        /\ of' \in [Deciders -> Calls \union {None}]
        /\ \A e \in Deciders : of'[e] = None <=> pc'[e] = "idle"
    BY <2>1, GotoTypes
  <2> QED
    BY <2>1, <2>5, <2>6, <2>7 DEF world, log, history
<1>5. CASE Credit(d)
  <2>1. /\ pc[d] # "idle" /\ of' = of /\ irrev' \in Nat /\ Goto(d, "release")
        /\ UNCHANGED <<rateCount, dollarsDay, blastDay, world, log, history>>
    BY <1>5 DEF Credit
  <2>2. /\ pc' \in [Deciders -> {"idle", "rate", "fence", "dollars", "credit", "release", "emit"}]
        /\ of' \in [Deciders -> Calls \union {None}]
        /\ \A e \in Deciders : of'[e] = None <=> pc'[e] = "idle"
    BY <2>1, GotoTypes
  <2> QED
    BY <2>1, <2>2 DEF world, log, history
<1>6. CASE Release(d)
  <2>1. /\ pc[d] # "idle" /\ Ends(d)
        /\ rateCount' = [rateCount EXCEPT ![of[d].by][Window(d)] =
                           Freed(rateCount[of[d].by][Window(d)])]
        /\ UNCHANGED <<dollarsDay, irrev, blastDay, world, log, history>>
    BY <1>6 DEF Release
  <2>2. of[d].by \in Approvers /\ Window(d) \in Windows
    BY <2>1, CallFacts
  <2>3. Freed(rateCount[of[d].by][Window(d)]) \in Nat \union {None}
    BY <2>2 DEF Freed
  <2>4. rateCount' \in [Approvers -> [Windows -> Nat \union {None}]]
    BY <2>1, <2>2, <2>3, WindowTypes
  <2> QED
    BY <2>1, <2>4, EndsTypes DEF world, log, history
<1>7. CASE Emit(d)
  <2>1. /\ pc[d] # "idle" /\ Ends(d)
        /\ \/ /\ approvals' = With(approvals, <<of[d].fam, clock>>, of[d].usd)
              /\ strays' = [strays EXCEPT ![Window(d)] = IF of[d].day = clock THEN @ ELSE @ + 1]
              /\ missing' = missing
           \/ /\ missing' = [missing EXCEPT ![Window(d)] = @ + 1]
              /\ approvals' = approvals /\ strays' = strays
        /\ granted' = With(granted, Window(d), of[d].usd)
        /\ ofRun' = ofRun + 1
        /\ UNCHANGED <<counters, world, outcomes, split, unfenced>>
    BY <1>7 DEF Emit
  <2>2. /\ Window(d) \in Windows /\ <<of[d].fam, clock>> \in Windows /\ of[d].usd \in Nat
    BY <2>1, CallFacts DEF Windows
  <2>3. /\ approvals' \in [Windows -> [lines : Nat, usd : Nat]]
        /\ granted' \in [Windows -> [lines : Nat, usd : Nat]]
    <3>1. /\ approvals \in [Windows -> [lines : Nat, usd : Nat]]
          /\ granted \in [Windows -> [lines : Nat, usd : Nat]]
      OBVIOUS
    <3>2. /\ With(approvals, <<of[d].fam, clock>>, of[d].usd)
                 \in [Windows -> [lines : Nat, usd : Nat]]
          /\ With(granted, Window(d), of[d].usd) \in [Windows -> [lines : Nat, usd : Nat]]
      BY <2>2, <3>1, WithTypes
    <3>3. \/ approvals' = With(approvals, <<of[d].fam, clock>>, of[d].usd)
          \/ approvals' = approvals
      BY <2>1
    <3> QED
      BY <2>1, <3>1, <3>2, <3>3, Zenon
  <2>4. strays' \in [Windows -> Nat] /\ missing' \in [Windows -> Nat]
    <3>1. strays \in [Windows -> Nat] /\ missing \in [Windows -> Nat]
      OBVIOUS
    <3> DEFINE k == IF of[d].day = clock THEN strays[Window(d)] ELSE strays[Window(d)] + 1
               s == [strays EXCEPT ![Window(d)] = k]
               m == [missing EXCEPT ![Window(d)] = @ + 1]
    <3>5. k \in Nat
      BY <2>2, <3>1, SMTT(30)
    <3>3. (strays' = s /\ missing' = missing) \/ (strays' = strays /\ missing' = m)
      BY <2>1
    <3> HIDE DEF k
    <3>2. s \in [Windows -> Nat]
      BY <2>2, <3>1, <3>5
    <3>4. m \in [Windows -> Nat]
      BY <2>2, <3>1, SMTT(30)
    <3> HIDE DEF s, m
    <3> QED
      BY <3>1, <3>2, <3>3, <3>4
  <2>5. /\ pc' \in [Deciders -> {"idle", "rate", "fence", "dollars", "credit", "release", "emit"}]
        /\ of' \in [Deciders -> Calls \union {None}]
        /\ \A e \in Deciders : of'[e] = None <=> pc'[e] = "idle"
    BY <2>1, EndsTypes
  <2>6. /\ UNCHANGED <<rateCount, dollarsDay, irrev, blastDay, clock, runs, outcomes,
                       split, unfenced>>
        /\ ofRun' \in Nat
    BY <2>1 DEF counters, world
  <2> QED
    BY <2>3, <2>4, <2>5, <2>6
<1> QED
  BY <1>1, <1>2, <1>3, <1>4, <1>5, <1>6, <1>7 DEF Decide

LEMMA WorldTypes ==
  ASSUME TypeInv, (\E f \in Families : Outcome(f)) \/ Midnight \/ Restart \/ UNCHANGED vars
  PROVE  TypeInv'
<1> USE DEF TypeInv, TypeOK
<1>1. CASE \E f \in Families : Outcome(f)
  <2>1. PICK f \in Families, v \in {0, 1} :
          /\ outcomes[f].total < MaxOutcomes
          /\ outcomes' = [outcomes EXCEPT ![f] = [total |-> @.total + 1, green |-> @.green + v]]
          /\ UNCHANGED <<decision, counters, world, approvals, history>>
    BY <1>1 DEF Outcome
  <2>3. /\ outcomes[f].total + 1 \in 0 .. MaxOutcomes
        /\ outcomes[f].green + v \in 0 .. MaxOutcomes
        /\ outcomes[f].green + v <= outcomes[f].total + 1
    <3>1. outcomes[f] \in [total : 0 .. MaxOutcomes, green : 0 .. MaxOutcomes]
      OBVIOUS
    <3>2. /\ outcomes[f].total \in Nat /\ outcomes[f].green \in Nat /\ MaxOutcomes \in Nat
          /\ outcomes[f].green <= outcomes[f].total /\ outcomes[f].total < MaxOutcomes
      BY <2>1, <3>1, ApprovalAssumption
    <3> QED
      BY <3>2
  <2>2. /\ outcomes' \in [Families -> [total : 0 .. MaxOutcomes, green : 0 .. MaxOutcomes]]
        /\ \A e \in Families : outcomes'[e].green <= outcomes'[e].total
    BY <2>1, <2>3
  <2> QED
    BY <2>1, <2>2 DEF decision, counters, world, history
<1>2. CASE Midnight
  <2>1. clock' \in 1 .. Days
    BY <1>2, ApprovalAssumption, SMTT(30) DEF Midnight
  <2>2. UNCHANGED <<decision, counters, runs, log, history>>
    BY <1>2 DEF Midnight
  <2> QED
    BY <2>1, <2>2 DEF decision, counters, log, history
<1>3. CASE Restart
  <2>1. /\ runs' \in 1 .. MaxRuns /\ UNCHANGED <<clock, log, granted, strays, missing, split>>
        /\ pc' = [d \in Deciders |-> "idle"] /\ of' = [d \in Deciders |-> None]
        /\ rateCount' = NoWindows /\ dollarsDay' = NoWindows
        /\ irrev' = 0 /\ ofRun' = 0
    BY <1>3, ApprovalAssumption DEF Restart
  <2>2. blastDay' \in [1 .. Days -> Nat] /\ unfenced' \subseteq 1 .. Days
    <3>1. PICK sum \in rebuildBlastDay :
            /\ blastDay' = [n \in 1 .. Days |-> IF n = clock THEN sum ELSE 0]
            /\ unfenced' = unfenced \/ unfenced' = unfenced \union {clock}
      BY <1>3 DEF Restart
    <3>2. DayDollars(approvals, clock) \in Nat /\ DayCeiling \in Nat
      BY DayTypes, ApprovalAssumption
    <3>3. sum \in Nat
      BY <3>2 DEF rebuildBlastDay
    <3> QED
      BY <3>1, <3>3
  <2>3. NoWindows \in [Approvers -> [Windows -> Nat \union {None}]]
    BY DEF NoWindows
  <2> QED
    BY <2>1, <2>2, <2>3 DEF log
<1>4. CASE UNCHANGED vars
  BY <1>4 DEF vars, decision, counters, world, log, history
<1> QED
  BY <1>1, <1>2, <1>3, <1>4

LEMMA InitTypes == Init => TypeInv
<1> SUFFICES ASSUME Init PROVE TypeInv
  OBVIOUS
<1>1. NoGrants \in [Windows -> [lines : Nat, usd : Nat]]
  BY DEF NoGrants
<1>2. NoWindows \in [Approvers -> [Windows -> Nat \union {None}]]
  BY DEF NoWindows
<1> QED
  BY <1>1, <1>2, ApprovalAssumption DEF Init, TypeInv, TypeOK

\* Every reachable state of the approvers, the meter and the log has its type.
THEOREM ApprovalTypeCorrect == Spec => []TypeOK
<1>1. TypeInv /\ [Next]_vars => TypeInv'
  <2> SUFFICES ASSUME TypeInv, [Next]_vars PROVE TypeInv'
    OBVIOUS
  <2> QED
    BY DecideTypes, WorldTypes DEF Next
<1>2. TypeInv => TypeOK
  BY DEF TypeInv
<1> QED
  BY <1>1, <1>2, InitTypes, PTL DEF Spec

-----------------------------------------------------------------------------
(* The ceilings of a day.                                                   *)

\* Decisions are of today or of a day before, and until its day is over the log has every
\* approval decided on it, unless a line was lost.
LogInv ==
  /\ \A d \in Deciders : pc[d] # "idle" => of[d].day <= clock
  /\ \A w \in Windows :
       /\ w[2] >= clock /\ missing[w] = 0 => /\ granted[w].lines <= approvals[w].lines
                                              /\ granted[w].usd <= approvals[w].usd
       /\ w[2] > clock => granted[w].usd = 0

Holding(w) == {d \in Deciders : pc[d] \in Taken /\ Window(d) = w}
Seeded(w)  == {a \in Approvers : rateCount[a][w] # None}
Open(w)    == w[2] >= clock \/ \E d \in Deciders : pc[d] # "idle" /\ Window(d) = w

\* The slots of a window that are used, over all approvers.
Used(n)  == IF n = None THEN 0 ELSE IF n <= MaxPerDay THEN n ELSE MaxPerDay
Slots(w) == SumFunction([a \in Approvers |-> Used(rateCount[a][w])])

\* What is allowed of a window.
Ceil(w) == MaxPerDay * Approving(w)

\* A window that no approver has seeded is one whose approvals the log has.  Once it is
\* seeded, approvals and decisions under way use slots of it; or it was found full, and no
\* decision passes.
RateAt(w) ==
  /\ granted[w].lines <= Ceil(w)
  /\ Seeded(w) = {} /\ Open(w) => granted[w].lines <= approvals[w].lines
  /\ Seeded(w) # {} =>
       \/ granted[w].lines + Cardinality(Holding(w)) <= Slots(w)
       \/ /\ Holding(w) = {} /\ approvals[w].lines >= MaxPerDay
          /\ \A a \in Seeded(w) : rateCount[a][w] >= MaxPerDay

HeldAreSeeded ==
  \A d \in Deciders : pc[d] \in Taken =>
    /\ rateCount[of[d].by][Window(d)] # None
    /\ rateCount[of[d].by][Window(d)] <= MaxPerDay

RateInv ==
  MaxPerDay > 0 =>
    /\ HeldAreSeeded /\ Shared(rateCount) \subseteq split
    /\ \A w \in Windows : missing[w] = 0 => RateAt(w)

\* What decisions that passed the dollar gate are about to log.
Pledge(d, n) == IF pc[d] = "emit" /\ of[d].day = n THEN of[d].usd ELSE 0
Pledged(n)   == SumFunction([d \in Deciders |-> Pledge(d, n)])
Busy(n)      == n >= clock \/ \E d \in Deciders : pc[d] # "idle" /\ of[d].day = n

DollarAt(n) ==
  /\ DayDollars(granted, n) + Pledged(n) <= DayCeiling
  /\ Busy(n) => DayDollars(granted, n) + Pledged(n) <= blastDay[n]

DollarInv == DayCeiling > 0 => \A n \in 1 .. Days : Fenced(n) => DollarAt(n)

CInv == TypeInv /\ LogInv /\ RateInv /\ DollarInv

\* A sum of bounded summands.
LEMMA SumIsBounded ==
  ASSUME NEW D, IsFiniteSet(D), NEW m \in Nat, NEW g \in [D -> 0 .. m]
  PROVE  SumFunction(g) <= m * Cardinality(D)
<1>1. g \in [D -> Nat]
  OBVIOUS
<1>2. Units(g, D) \in SUBSET (D \X (1 .. m))
  BY DEF Units
<1>3. IsFiniteSet(1 .. m) /\ Cardinality(1 .. m) = m
  BY FS_Interval
<1>4. IsFiniteSet(D \X (1 .. m)) /\ Cardinality(D \X (1 .. m)) = Cardinality(D) * m
  BY <1>3, FS_Product
<1>5. Cardinality(Units(g, D)) <= Cardinality(D \X (1 .. m))
  BY <1>2, <1>4, FS_Subset
<1>6. Cardinality(D) \in Nat
  BY FS_CardinalityType
<1>7. Cardinality(D) * m = m * Cardinality(D)
  BY <1>6
<1> QED
  BY <1>1, <1>4, <1>5, <1>7, SumIsCount

\* The used slots of a window that one approver at most has seeded are within one rate; those
\* of any window, within a rate for each.
LEMMA SlotsOf ==
  ASSUME NEW counts \in [Approvers -> [Windows -> Nat \union {None}]], NEW w \in Windows
  PROVE  LET h == [a \in Approvers |-> Used(counts[a][w])]
         IN  /\ h \in [Approvers -> Nat] /\ SumFunction(h) \in Nat
             /\ SumFunction(h) <= MaxPerDay * Cardinality(Approvers)
             /\ w \notin Shared(counts) => SumFunction(h) <= MaxPerDay
<1> DEFINE h == [a \in Approvers |-> Used(counts[a][w])]
<1>1. MaxPerDay \in Nat /\ IsFiniteSet(Approvers)
  BY ApprovalAssumption
<1>2. h \in [Approvers -> 0 .. MaxPerDay] /\ h \in [Approvers -> Nat]
  BY <1>1 DEF Used
<1>3. \A a \in Approvers : counts[a][w] = None => h[a] = 0
  BY DEF Used
<1> HIDE DEF h
<1>4. SumFunction(h) \in Nat /\ SumFunction(h) <= MaxPerDay * Cardinality(Approvers)
  BY <1>1, <1>2, SumIsNat, SumIsBounded
<1>5. ASSUME w \notin Shared(counts) PROVE SumFunction(h) <= MaxPerDay
  <2>1. CASE \A a \in Approvers : counts[a][w] = None
    BY <1>1, <1>2, <1>3, <2>1, SumOfNothing
  <2>2. CASE \E a \in Approvers : counts[a][w] # None
    <3>1. PICK a \in Approvers : counts[a][w] # None
      BY <2>2
    <3>2. \A b \in Approvers \ {a} : h[b] = 0
      BY <1>3, <1>5, <3>1 DEF Shared
    <3> DEFINE z == [b \in Approvers |-> 0]
    <3>3. z \in [Approvers -> Nat] /\ \A b \in Approvers : z[b] = 0
      OBVIOUS
    <3> HIDE DEF z
    <3>4. SumFunction(z) = 0
      BY <1>1, <3>3, SumOfNothing
    <3>5. SumFunction(h) - h[a] = SumFunction(z) - z[a]
      <4>1. \A b \in Approvers \ {a} : h[b] = z[b]
        BY <3>2, <3>3
      <4> QED
        BY <1>1, <1>2, <3>3, <4>1, SumAt, SMTT(30)
    <3>6. h[a] \in Nat /\ h[a] <= MaxPerDay
      BY <1>1, <1>2
    <3> QED
      BY <1>1, <1>4, <3>3, <3>4, <3>5, <3>6
  <2> QED
    BY <2>1, <2>2
<1> QED
  BY <1>2, <1>4, <1>5 DEF h

\* The used slots of a window are within what is allowed of it.
LEMMA SlotsBound ==
  ASSUME TypeOK, Shared(rateCount) \subseteq split, NEW w \in Windows
  PROVE  /\ Slots(w) \in Nat /\ Slots(w) <= Ceil(w) /\ Ceil(w) \in Nat
         /\ [a \in Approvers |-> Used(rateCount[a][w])] \in [Approvers -> Nat]
<1>1. rateCount \in [Approvers -> [Windows -> Nat \union {None}]]
  BY DEF TypeOK
<1>2. /\ MaxPerDay \in Nat /\ Cardinality(Approvers) \in Nat
      /\ MaxPerDay * Cardinality(Approvers) \in Nat /\ MaxPerDay * 1 = MaxPerDay
  BY ApprovalAssumption, FS_CardinalityType
<1>3. Ceil(w) = IF w \in split THEN MaxPerDay * Cardinality(Approvers) ELSE MaxPerDay
  BY <1>2 DEF Ceil, Approving
<1> QED
  BY <1>1, <1>2, <1>3, SlotsOf DEF Slots

LEMMA SlotsBoundNext ==
  ASSUME TypeOK', Shared(rateCount') \subseteq split', NEW w \in Windows
  PROVE  Slots(w)' \in Nat /\ Slots(w)' <= Ceil(w)' /\ Ceil(w)' \in Nat
<1> DEFINE h == [a \in Approvers |-> Used(rateCount'[a][w])]
<1>1. rateCount' \in [Approvers -> [Windows -> Nat \union {None}]]
  BY DEF TypeOK
<1>2. /\ MaxPerDay \in Nat /\ Cardinality(Approvers) \in Nat
      /\ MaxPerDay * Cardinality(Approvers) \in Nat /\ MaxPerDay * 1 = MaxPerDay
  BY ApprovalAssumption, FS_CardinalityType
<1>3. Ceil(w)' = IF w \in split' THEN MaxPerDay * Cardinality(Approvers) ELSE MaxPerDay
  BY <1>2 DEF Ceil, Approving
<1>4. /\ SumFunction(h) \in Nat /\ SumFunction(h) <= MaxPerDay * Cardinality(Approvers)
      /\ w \notin Shared(rateCount') => SumFunction(h) <= MaxPerDay
  BY <1>1, SlotsOf
<1>5. Slots(w)' = SumFunction(h)
  BY DEF Slots, Used
<1> HIDE DEF h
<1> QED
  BY <1>2, <1>3, <1>4, <1>5

\* What is allowed of a window only grows.
LEMMA CeilGrows ==
  ASSUME split \subseteq split', split' # split => Approvers # {}, NEW w \in Windows
  PROVE  Ceil(w) \in Nat /\ Ceil(w)' \in Nat /\ Ceil(w) <= Ceil(w)'
<1>1. MaxPerDay \in Nat /\ Cardinality(Approvers) \in Nat
  BY ApprovalAssumption, FS_CardinalityType
<1>2. MaxPerDay * Cardinality(Approvers) \in Nat /\ MaxPerDay * 1 = MaxPerDay
  BY <1>1
<1>3. Ceil(w) = IF w \in split THEN MaxPerDay * Cardinality(Approvers) ELSE MaxPerDay
  BY <1>2 DEF Ceil, Approving
<1>4. Ceil(w)' = IF w \in split' THEN MaxPerDay * Cardinality(Approvers) ELSE MaxPerDay
  BY <1>2 DEF Ceil, Approving
<1>5. CASE split' = split
  BY <1>1, <1>2, <1>3, <1>4, <1>5
<1>6. CASE Approvers # {}
  <2>1. Cardinality(Approvers) # 0
    BY <1>6, ApprovalAssumption, FS_EmptySet
  <2>2. PICK k \in Nat : Cardinality(Approvers) = k + 1
    <3>1. Cardinality(Approvers) - 1 \in Nat
      BY <1>1, <2>1
    <3> QED
      BY <1>1, <3>1
  <2>3. MaxPerDay * (k + 1) = MaxPerDay * k + MaxPerDay /\ MaxPerDay * k \in Nat
    BY <1>1
  <2>4. MaxPerDay <= MaxPerDay * Cardinality(Approvers)
    BY <1>1, <2>2, <2>3
  <2> QED
    BY <1>1, <1>2, <1>3, <1>4, <2>4
<1> QED
  BY <1>5, <1>6

\* One approver's count of one window moves, and the used slots with it.
LEMMA SlotsMove ==
  ASSUME TypeOK, TypeOK', NEW a \in Approvers, NEW w \in Windows,
         \A b \in Approvers \ {a} : rateCount'[b][w] = rateCount[b][w]
  PROVE  Slots(w)' - Used(rateCount'[a][w]) = Slots(w) - Used(rateCount[a][w])
<1> DEFINE g == [b \in Approvers |-> Used(rateCount[b][w])]
           h == [b \in Approvers |-> Used(rateCount'[b][w])]
<1>1. g \in [Approvers -> Nat] /\ h \in [Approvers -> Nat]
  <2>1. MaxPerDay \in Nat
    BY ApprovalAssumption
  <2>2. /\ rateCount \in [Approvers -> [Windows -> Nat \union {None}]]
        /\ rateCount' \in [Approvers -> [Windows -> Nat \union {None}]]
    BY DEF TypeOK
  <2> QED
    BY <2>1, <2>2 DEF Used
<1>2. \A b \in Approvers \ {a} : h[b] = g[b]
  OBVIOUS
<1>3. g[a] = Used(rateCount[a][w]) /\ h[a] = Used(rateCount'[a][w])
  OBVIOUS
<1>4. Slots(w) = SumFunction(g) /\ Slots(w)' = SumFunction(h)
  BY DEF Slots, Used
<1> HIDE DEF g, h
<1>5. SumFunction(h) - h[a] = SumFunction(g) - g[a]
  BY <1>1, <1>2, SumAt, ApprovalAssumption
<1> QED
  BY <1>3, <1>4, <1>5

\* One decision moves: who holds a slot of a window.
LEMMA HoldingFinite ==
  \A w : IsFiniteSet(Holding(w)) /\ Cardinality(Holding(w)) \in Nat
BY ApprovalAssumption, FS_Subset, FS_CardinalityType DEF Holding

LEMMA HoldingMove ==
  ASSUME NEW d \in Deciders, NEW w,
         \A e \in Deciders \ {d} : pc'[e] = pc[e] /\ of'[e] = of[e]
  PROVE  /\ d \in Holding(w) /\ d \notin Holding(w)' =>
              Cardinality(Holding(w)') = Cardinality(Holding(w)) - 1
         /\ d \notin Holding(w) /\ d \in Holding(w)' =>
              Cardinality(Holding(w)') = Cardinality(Holding(w)) + 1
         /\ (d \in Holding(w) <=> d \in Holding(w)') => Holding(w)' = Holding(w)
<1>1. \A e \in Deciders \ {d} : e \in Holding(w)' <=> e \in Holding(w)
  BY DEF Holding, Window
<1>2. Holding(w) \subseteq Deciders /\ Holding(w)' \subseteq Deciders
  BY DEF Holding
<1>3. IsFiniteSet(Holding(w))
  BY HoldingFinite
<1>4. CASE d \in Holding(w) /\ d \notin Holding(w)'
  <2>1. Holding(w)' = Holding(w) \ {d}
    BY <1>1, <1>2, <1>4
  <2> QED
    BY <1>3, <1>4, <2>1, FS_RemoveElement
<1>5. CASE d \notin Holding(w) /\ d \in Holding(w)'
  <2>1. Holding(w)' = Holding(w) \union {d}
    BY <1>1, <1>2, <1>5
  <2> QED
    BY <1>3, <1>5, <2>1, FS_AddElement
<1>6. CASE d \in Holding(w) <=> d \in Holding(w)'
  <2>1. Holding(w)' = Holding(w)
    BY <1>1, <1>2, <1>6
  <2> QED
    BY <1>6, <2>1
<1> QED
  BY <1>4, <1>5, <1>6

\* A window that a step leaves alone, but for lines that are logged.
LEMMA RateFrame ==
  ASSUME TypeOK, TypeOK', NEW w \in Windows, RateAt(w),
         \A a \in Approvers : rateCount'[a][w] = rateCount[a][w],
         Holding(w)' = Holding(w), granted'[w].lines = granted[w].lines,
         approvals'[w].lines >= approvals[w].lines, Open(w)' => Open(w),
         split \subseteq split', split' # split => Approvers # {}
  PROVE  RateAt(w)'
<1>1. Seeded(w)' = Seeded(w)
  BY DEF Seeded
<1>2. Slots(w)' = Slots(w)
  BY DEF Slots, Used
<1>3. /\ approvals[w].lines \in Nat /\ approvals'[w].lines \in Nat
      /\ granted[w].lines \in Nat /\ MaxPerDay \in Nat
  BY ApprovalAssumption DEF TypeOK
<1>4. granted'[w].lines <= Ceil(w)'
  <2>1. granted[w].lines <= Ceil(w)
    BY DEF RateAt
  <2> QED
    BY <1>3, <2>1, CeilGrows
<1>5. Seeded(w)' = {} /\ Open(w)' => granted'[w].lines <= approvals'[w].lines
  BY <1>1, <1>3 DEF RateAt
<1>6. ASSUME Seeded(w)' # {}
      PROVE  \/ granted'[w].lines + Cardinality(Holding(w)') <= Slots(w)'
             \/ /\ Holding(w)' = {} /\ approvals'[w].lines >= MaxPerDay
                /\ \A a \in Seeded(w)' : rateCount'[a][w] >= MaxPerDay
  <2>1. CASE granted[w].lines + Cardinality(Holding(w)) <= Slots(w)
    BY <1>2, <2>1
  <2>2. CASE /\ Holding(w) = {} /\ approvals[w].lines >= MaxPerDay
             /\ \A a \in Seeded(w) : rateCount[a][w] >= MaxPerDay
    BY <1>1, <1>3, <2>2 DEF Seeded
  <2> QED
    BY <1>1, <1>6, <2>1, <2>2 DEF RateAt
<1> QED
  BY <1>4, <1>5, <1>6 DEF RateAt

\* What a step of a decision that takes, keeps or gives back no slot leaves alone.
LEMMA RateQuiet ==
  ASSUME TypeOK, TypeOK', RateInv, MaxPerDay > 0, NEW d \in Deciders,
         \A e \in Deciders \ {d} : pc'[e] = pc[e] /\ of'[e] = of[e],
         \/ pc[d] \notin Taken /\ pc'[d] \notin Taken
         \/ pc[d] \in Taken /\ pc'[d] \in Taken /\ of'[d] = of[d],
         rateCount' = rateCount, granted' = granted, approvals' = approvals, missing' = missing,
         split \subseteq split', split' # split => Approvers # {},
         \A w \in Windows : Open(w)' => Open(w)
  PROVE  RateInv'
<1>1. \A w \in Windows : Holding(w)' = Holding(w)
  <2> SUFFICES ASSUME NEW w \in Windows PROVE Holding(w)' = Holding(w)
    OBVIOUS
  <2>1. d \in Holding(w) <=> d \in Holding(w)'
    BY DEF Holding, Window
  <2> QED
    BY <2>1, HoldingMove
<1>2. HeldAreSeeded'
  BY DEF RateInv, HeldAreSeeded, Window
<1>3. ASSUME NEW w \in Windows, missing[w] = 0 PROVE RateAt(w)'
  <2>1. approvals[w].lines \in Nat /\ approvals'[w].lines >= approvals[w].lines
    BY DEF TypeOK
  <2>2. RateAt(w)
    BY <1>3 DEF RateInv
  <2> QED
    BY <1>1, <2>1, <2>2, RateFrame
<1>4. Shared(rateCount)' \subseteq split'
  BY DEF RateInv, Shared
<1> QED
  BY <1>2, <1>3, <1>4 DEF RateInv

\* A step of a decision that opens no window: it begins no decision.
LEMMA StaysOpen ==
  ASSUME NEW d \in Deciders, clock' = clock, pc[d] # "idle",
         \A e \in Deciders \ {d} : pc'[e] = pc[e] /\ of'[e] = of[e],
         pc'[d] = "idle" \/ of'[d] = of[d]
  PROVE  /\ \A w \in Windows : Open(w)' => Open(w)
         /\ \A n \in 1 .. Days : Busy(n)' => Busy(n)
BY DEF Open, Busy, Window

\* A window that is seeded after a step, and no approval was decided on it.
LEMMA RateSeeded ==
  ASSUME NEW w \in Windows, RateAt(w), granted'[w].lines = granted[w].lines,
         NEW x \in Approvers, rateCount'[x][w] # None,
         granted[w].lines \in Nat, split \subseteq split',
         \/ granted'[w].lines + Cardinality(Holding(w)') <= Slots(w)'
         \/ /\ Holding(w)' = {} /\ approvals'[w].lines >= MaxPerDay
            /\ \A b \in Seeded(w)' : rateCount'[b][w] >= MaxPerDay
  PROVE  RateAt(w)'
<1>1. granted'[w].lines <= Ceil(w)'
  <2>1. granted[w].lines <= Ceil(w) /\ Approvers # {}
    BY DEF RateAt
  <2>2. Ceil(w) \in Nat /\ Ceil(w)' \in Nat /\ Ceil(w) <= Ceil(w)'
    BY <2>1, CeilGrows
  <2> QED
    BY <2>1, <2>2
<1>2. Seeded(w)' # {}
  BY DEF Seeded
<1> QED
  BY <1>1, <1>2, Zenon DEF RateAt

\* A rate slot is taken, or the window is found full.
LEMMA RateRate ==
  ASSUME CInv, TypeOK', MaxPerDay > 0, NEW d \in Deciders, Rate(d)
  PROVE  RateInv'
<1>1. /\ TypeOK /\ RateInv /\ HeldAreSeeded /\ Shared(rateCount) \subseteq split
      /\ \A w \in Windows : missing[w] = 0 => RateAt(w)
      /\ MaxPerDay \in Nat
  BY ApprovalAssumption DEF CInv, TypeInv, RateInv
<1>2. PICK a \in Approvers, u \in Windows : a = of[d].by /\ u = Window(d)
  BY <1>1, CallFacts DEF Rate
<1>3. PICK r \in Nat \union {None} : r = rateCount[a][u]
  <2>1. rateCount \in [Approvers -> [Windows -> Nat \union {None}]]
    BY <1>1 DEF TypeOK
  <2>2. rateCount[a][u] \in Nat \union {None}
    BY <2>1, Zenon
  <2> QED
    BY <2>2
<1>20. PICK cur \in Nat : cur = IF r = None THEN approvals[u].lines ELSE r
  BY <1>1, <1>3 DEF TypeOK
<1>21. /\ pc[d] = "rate" /\ UNCHANGED <<clock, approvals, granted, missing>>
       /\ split' = split \union Shared(rateCount') /\ split \subseteq split'
       /\ Shared(rateCount') \subseteq split' /\ Approvers # {}
  BY <1>1, <1>2 DEF Rate, world, log
<1>4. /\ pc'[d] = "idle" \/ (of' = of /\ pc'[d] = "fence")
      /\ \A e \in Deciders \ {d} : pc'[e] = pc[e] /\ of'[e] = of[e]
  BY <1>1, <1>2, <1>21 DEF Rate, Ends, Goto, TypeOK
<1>5. /\ \A w \in Windows : Open(w)' => Open(w)
      /\ Open(u)
  <2>1. \A w \in Windows : Open(w)' => Open(w)
    BY <1>2, <1>21, <1>4, StaysOpen
  <2> QED
    BY <1>2, <1>21, <2>1 DEF Open
<1>6. CASE UNCHANGED rateCount /\ Ends(d)
  <2>1. pc'[d] = "idle"
    BY <1>1, <1>6 DEF Ends, TypeOK
  <2> QED
    BY <1>1, <1>2, <1>21, <1>4, <1>5, <1>6, <2>1, RateQuiet DEF Taken
<1>7. CASE \/ cur < MaxPerDay /\ rateCount' = [rateCount EXCEPT ![a][u] = cur + 1] /\ of' = of
              /\ Goto(d, "fence")
           \/ cur >= MaxPerDay /\ rateCount' = [rateCount EXCEPT ![a][u] = cur] /\ Ends(d)
  <2>0. PICK m \in Nat : m = IF cur < MaxPerDay THEN cur + 1 ELSE cur
    OBVIOUS
  <2>15. rateCount' = [rateCount EXCEPT ![a][u] = m]
    BY <1>1, <1>7, <2>0
  <2>16. \/ cur < MaxPerDay /\ m = cur + 1 /\ of' = of /\ pc'[d] = "fence"
         \/ cur >= MaxPerDay /\ m = cur /\ pc'[d] = "idle"
    BY <1>1, <1>7, <2>0, SMTT(30) DEF Goto, Ends, TypeOK
  <2>1. \A b \in Approvers, w \in Windows :
          rateCount'[b][w] = IF b = a /\ w = u THEN m ELSE rateCount[b][w]
    <3>1. rateCount \in [Approvers -> [Windows -> Nat \union {None}]]
      BY <1>1 DEF TypeOK
    <3>2. m \in Nat \union {None}
      OBVIOUS
    <3>3. \A b \in Approvers, w \in Windows :
            [rateCount EXCEPT ![a][u] = m][b][w]
              = IF b = a /\ w = u THEN m ELSE rateCount[b][w]
      BY <3>1, <3>2, WindowTypes
    <3> QED
      BY <2>15, <3>3, Zenon
  <2>2. \A w \in Windows \ {u} : Holding(w)' = Holding(w)
    <3> SUFFICES ASSUME NEW w \in Windows, w # u PROVE Holding(w)' = Holding(w)
      OBVIOUS
    <3>1. d \in Holding(w) <=> d \in Holding(w)'
      BY <1>2, <1>21, <2>16 DEF Holding, Taken, Window
    <3> QED
      BY <1>4, <3>1, HoldingMove
  <2>3. d \notin Holding(u) /\ (d \in Holding(u)' <=> pc'[d] = "fence")
    BY <1>2, <1>21, <2>16 DEF Holding, Taken, Window
  <2>4. /\ pc'[d] = "fence" => Cardinality(Holding(u)') = Cardinality(Holding(u)) + 1
        /\ pc'[d] # "fence" => Holding(u)' = Holding(u)
    BY <1>4, <2>3, HoldingMove
  <2>5. ASSUME NEW w \in Windows, w # u, missing[w] = 0 PROVE RateAt(w)'
    <3>1. approvals[w].lines \in Nat /\ approvals'[w].lines >= approvals[w].lines
      BY <1>1, <1>2, <1>21 DEF TypeOK
    <3>2. \A b \in Approvers : rateCount'[b][w] = rateCount[b][w]
      BY <2>1, <2>5
    <3>3. Holding(w)' = Holding(w) /\ granted'[w].lines = granted[w].lines
      BY <1>2, <1>21, <2>2, <2>5
    <3> QED
      BY <1>1, <1>5, <1>21, <2>5, <3>1, <3>2, <3>3, RateFrame
  <2>6. Slots(u)' - Used(m) = Slots(u) - Used(r)
    <3>1. \A b \in Approvers \ {a} : rateCount'[b][u] = rateCount[b][u]
      BY <1>2, <1>21, <2>1
    <3>2. rateCount'[a][u] = m /\ rateCount[a][u] = r
      BY <1>3, <2>1
    <3> QED
      BY <1>1, <1>2, <1>21, <3>1, <3>2, SlotsMove
  <2>7. /\ Slots(u) \in Nat /\ Slots(u)' \in Nat /\ Cardinality(Holding(u)) \in Nat
        /\ granted[u].lines \in Nat /\ approvals[u].lines \in Nat
    <3>1. Slots(u) \in Nat
      BY <1>1, <1>2, <1>21, SlotsBound
    <3>2. Slots(u)' \in Nat
      BY <1>2, <1>21, SlotsBoundNext
    <3> QED
      BY <1>1, <1>2, <1>21, <3>1, <3>2, HoldingFinite DEF TypeOK
  <2>17. m # None /\ rateCount'[a][u] = m /\ rateCount[a][u] = r
    BY <1>3, <2>1, NoneAssumption
  <2>8. a \in Seeded(u)' /\ Seeded(u)' # {} /\ Seeded(u)' = Seeded(u) \union {a}
    BY <2>1, <2>17 DEF Seeded
  <2>18. r # None <=> a \in Seeded(u)
    BY <2>17 DEF Seeded
  <2>9. m >= MaxPerDay \/ (m = cur + 1 /\ m <= MaxPerDay /\ pc'[d] = "fence")
    BY <1>1, <1>3, <1>20, <2>16
  <2>10. ASSUME RateAt(u), Seeded(u) = {} PROVE RateAt(u)'
    <3>1. r = None /\ cur = approvals[u].lines /\ granted[u].lines <= approvals[u].lines
      BY <1>1, <1>2, <1>21, <1>3, <1>20, <1>5, <2>18, <2>10 DEF RateAt
    <3>2. Holding(u) = {}
      <4>1. ASSUME NEW e \in Deciders, pc[e] \in Taken, Window(e) = u PROVE FALSE
        <5>1. of[e].by \in Approvers /\ rateCount[of[e].by][u] # None
          BY <1>1, <4>1, CallFacts DEF HeldAreSeeded, Taken
        <5> QED
          BY <2>10, <5>1 DEF Seeded
      <4> QED
        BY <4>1 DEF Holding
    <3>3. CASE cur < MaxPerDay
      <4>1. m = cur + 1 /\ pc'[d] = "fence" /\ m <= MaxPerDay /\ Used(m) = m /\ Used(r) = 0
        BY <1>1, <1>3, <1>20, <2>16, <3>1, <3>3, NoneAssumption DEF Used
      <4>2. Cardinality(Holding(u)') = 1
        BY <2>4, <3>2, <4>1, FS_EmptySet
      <4>3. granted[u].lines + 1 <= Slots(u)'
        BY <1>3, <1>20, <2>6, <2>7, <3>1, <4>1
      <4>4. granted'[u].lines + Cardinality(Holding(u)') <= Slots(u)'
        BY <1>2, <1>21, <4>2, <4>3
      <4> QED
        BY <1>1, <1>2, <1>21, <2>7, <2>10, <2>17, <4>4, RateSeeded
    <3>4. CASE cur >= MaxPerDay
      <4>1. m = cur /\ Holding(u)' = {} /\ approvals'[u].lines >= MaxPerDay
        BY <1>1, <1>2, <1>21, <1>3, <1>20, <2>16, <2>4, <3>1, <3>2, <3>4
      <4>2. \A b \in Seeded(u)' : rateCount'[b][u] >= MaxPerDay
        BY <1>2, <1>21, <2>1, <2>8, <2>10, <3>4, <4>1
      <4> QED
        BY <1>1, <1>2, <1>21, <2>7, <2>10, <2>17, <4>1, <4>2, RateSeeded
    <3> QED
      BY <1>1, <1>3, <1>20, <3>3, <3>4
  <2>11. ASSUME RateAt(u), granted[u].lines + Cardinality(Holding(u)) <= Slots(u)
         PROVE  RateAt(u)'
    <3>1. \/ pc'[d] = "fence" /\ Used(m) >= Used(r) + 1
          \/ pc'[d] # "fence" /\ Used(m) >= Used(r)
      BY <1>1, <1>3, <1>20, <2>16, NoneAssumption DEF Used
    <3>2. Used(m) \in Nat /\ Used(r) \in Nat
      BY <1>1, <1>3, <1>20 DEF Used
    <3>3. granted[u].lines + Cardinality(Holding(u)') <= Slots(u)'
      BY <2>4, <2>6, <2>7, <2>11, <3>1, <3>2
    <3> QED
      BY <1>1, <1>2, <1>21, <2>7, <2>11, <2>17, <3>3, RateSeeded
  <2>12. ASSUME RateAt(u), Seeded(u) # {}, Holding(u) = {}, approvals[u].lines >= MaxPerDay,
                \A b \in Seeded(u) : rateCount[b][u] >= MaxPerDay
         PROVE  RateAt(u)'
    <3>1. cur >= MaxPerDay
      BY <1>3, <1>20, <2>12, <2>17, <2>18, NoneAssumption
    <3>2. m = cur /\ pc'[d] = "idle"
      BY <1>1, <1>3, <1>20, <2>16, <3>1
    <3>3. \A b \in Seeded(u)' : rateCount'[b][u] >= MaxPerDay
      BY <1>2, <1>21, <2>1, <2>8, <2>12, <3>1, <3>2 DEF Seeded
    <3>4. Holding(u)' = {} /\ approvals'[u].lines >= MaxPerDay
      BY <1>2, <1>21, <2>4, <2>12, <3>2
    <3> QED
      BY <1>1, <1>2, <1>21, <2>7, <2>12, <2>17, <3>3, <3>4, RateSeeded
  <2>13. ASSUME missing[u] = 0 PROVE RateAt(u)'
    <3>2. RateAt(u)
      BY <1>1, <1>2, <2>13
    <3>1. \/ Seeded(u) = {}
          \/ granted[u].lines + Cardinality(Holding(u)) <= Slots(u)
          \/ /\ Holding(u) = {} /\ approvals[u].lines >= MaxPerDay
             /\ \A b \in Seeded(u) : rateCount[b][u] >= MaxPerDay
      BY <3>2, Zenon DEF RateAt
    <3> QED
      BY <3>1, <3>2, <2>10, <2>11, <2>12
  <2>14. HeldAreSeeded'
    <3> SUFFICES ASSUME NEW e \in Deciders, pc'[e] \in Taken
                 PROVE  /\ rateCount'[of'[e].by][Window(e)'] # None
                        /\ rateCount'[of'[e].by][Window(e)'] <= MaxPerDay
      BY DEF HeldAreSeeded
    <3>1. CASE e = d
      <4>1. pc'[d] = "fence" /\ m <= MaxPerDay /\ of'[d] = of[d]
        BY <1>1, <1>3, <1>20, <2>16, <3>1 DEF Taken
      <4>2. of'[d].by = a /\ Window(d)' = u
        BY <1>2, <4>1 DEF Window
      <4> QED
        BY <1>2, <1>21, <2>1, <3>1, <4>1, <4>2, NoneAssumption
    <3>2. CASE e # d
      <4>1. /\ pc[e] \in Taken /\ of'[e] = of[e] /\ Window(e)' = Window(e)
        BY <1>4, <3>2 DEF Window
      <4>2. of[e].by \in Approvers /\ Window(e) \in Windows
        BY <1>1, <4>1, CallFacts DEF Taken
      <4>3. /\ rateCount[of[e].by][Window(e)] # None
            /\ rateCount[of[e].by][Window(e)] <= MaxPerDay
        BY <1>1, <4>1 DEF HeldAreSeeded
      <4>4. CASE of[e].by = a /\ Window(e) = u
        <5>1. r # None /\ r <= MaxPerDay
          BY <1>3, <4>3, <4>4
        <5>2. m <= MaxPerDay
          BY <1>1, <1>3, <1>20, <2>16, <5>1
        <5> QED
          BY <2>1, <4>1, <4>2, <4>4, <5>2, NoneAssumption
      <4>5. CASE ~(of[e].by = a /\ Window(e) = u)
        BY <2>1, <4>1, <4>2, <4>3, <4>5
      <4> QED
        BY <4>4, <4>5
    <3> QED
      BY <3>1, <3>2
  <2> QED
    BY <1>21, <2>5, <2>13, <2>14 DEF RateInv, Shared
<1> QED
  BY <1>2, <1>3, <1>20, <1>6, <1>7 DEF Rate, countAutoApprovalsToday

\* A slot is given back.
LEMMA RateRelease ==
  ASSUME CInv, TypeOK', MaxPerDay > 0, NEW d \in Deciders, Release(d)
  PROVE  RateInv'
<1>1. /\ TypeOK /\ RateInv /\ HeldAreSeeded /\ Shared(rateCount) \subseteq split
      /\ \A w \in Windows : missing[w] = 0 => RateAt(w)
      /\ MaxPerDay \in Nat
  BY ApprovalAssumption DEF CInv, TypeInv, RateInv
<1>2. PICK a \in Approvers, u \in Windows : a = of[d].by /\ u = Window(d)
  BY <1>1, CallFacts DEF Release
<1>21. /\ pc[d] = "release" /\ UNCHANGED <<clock, approvals, granted, missing, split>>
       /\ rateCount' = [rateCount EXCEPT ![a][u] = Freed(rateCount[a][u])]
  BY <1>2 DEF Release, world, log, history
<1>3. PICK r \in Nat : r = rateCount[a][u] /\ r # None /\ r <= MaxPerDay
  BY <1>1, <1>2, <1>21 DEF HeldAreSeeded, Taken, TypeOK
<1>22. PICK m \in Nat : m = Freed(r)
  BY <1>3 DEF Freed
<1>4. /\ m <= MaxPerDay /\ m # None
      /\ (r = 0 /\ m = 0) \/ (r > 0 /\ m = r - 1)
  BY <1>1, <1>3, <1>22, NoneAssumption DEF Freed
<1>5. /\ pc'[d] = "idle"
      /\ \A e \in Deciders \ {d} : pc'[e] = pc[e] /\ of'[e] = of[e]
  BY <1>1 DEF Release, Ends, TypeOK
<1>6. \A w \in Windows : Open(w)' => Open(w)
  BY <1>2, <1>21, <1>5, StaysOpen
<1>7. \A b \in Approvers, w \in Windows :
        rateCount'[b][w] = IF b = a /\ w = u THEN m ELSE rateCount[b][w]
  <2>1. rateCount \in [Approvers -> [Windows -> Nat \union {None}]]
    BY <1>1 DEF TypeOK
  <2>2. m \in Nat \union {None} /\ rateCount' = [rateCount EXCEPT ![a][u] = m]
    BY <1>3, <1>21, <1>22
  <2>3. \A b \in Approvers, w \in Windows :
          [rateCount EXCEPT ![a][u] = m][b][w] = IF b = a /\ w = u THEN m ELSE rateCount[b][w]
    BY <2>1, <2>2, WindowTypes
  <2> QED
    BY <2>2, <2>3, Zenon
<1>11. Shared(rateCount') \subseteq split'
  <2>1. \A b \in Approvers, w \in Windows : rateCount[b][w] = None => rateCount'[b][w] = None
    BY <1>3, <1>7
  <2>2. Shared(rateCount') \subseteq Shared(rateCount)
    BY <2>1 DEF Shared
  <2> QED
    BY <1>1, <1>21, <2>2
<1>8. ASSUME NEW w \in Windows, w # u, missing[w] = 0 PROVE RateAt(w)'
  <2>1. d \in Holding(w) <=> d \in Holding(w)'
    BY <1>2, <1>21, <1>5, <1>8 DEF Holding, Taken, Window
  <2>2. Holding(w)' = Holding(w)
    BY <1>5, <2>1, HoldingMove
  <2>3. approvals[w].lines \in Nat /\ approvals'[w].lines >= approvals[w].lines
    BY <1>1, <1>2, <1>21 DEF TypeOK
  <2>4. \A b \in Approvers : rateCount'[b][w] = rateCount[b][w]
    BY <1>7, <1>8
  <2> QED
    BY <1>1, <1>2, <1>21, <1>6, <1>8, <2>2, <2>3, <2>4, RateFrame
<1>9. ASSUME missing[u] = 0 PROVE RateAt(u)'
  <2>0. RateAt(u)
    BY <1>1, <1>2, <1>9
  <2>1. d \in Holding(u) /\ d \notin Holding(u)'
    BY <1>2, <1>21, <1>5 DEF Holding, Taken, Window
  <2>2. Cardinality(Holding(u)') = Cardinality(Holding(u)) - 1
    BY <1>5, <2>1, HoldingMove
  <2>3. Slots(u)' - Used(m) = Slots(u) - Used(r)
    <3>1. \A b \in Approvers \ {a} : rateCount'[b][u] = rateCount[b][u]
      BY <1>2, <1>21, <1>7
    <3>2. rateCount'[a][u] = m /\ rateCount[a][u] = r
      BY <1>3, <1>7
    <3> QED
      BY <1>1, <1>2, <1>21, <3>1, <3>2, SlotsMove
  <2>4. Used(m) = m /\ Used(r) = r
    BY <1>3, <1>22, <1>4 DEF Used
  <2>5. a \in Seeded(u) /\ a \in Seeded(u)'
    BY <1>2, <1>21, <1>3, <1>22, <1>4, <1>7 DEF Seeded
  <2>6. granted[u].lines + Cardinality(Holding(u)) <= Slots(u)
    BY <2>0, <2>1, <2>5 DEF RateAt
  <2>7. /\ Slots(u) \in Nat /\ Cardinality(Holding(u)) \in Nat /\ granted[u].lines \in Nat
    BY <1>1, <1>2, <1>21, SlotsBound, HoldingFinite DEF TypeOK
  <2>8. Slots(u)' \in Nat
    BY <1>2, <1>11, SlotsBoundNext
  <2>9. granted[u].lines + Cardinality(Holding(u)') <= Slots(u)'
    BY <1>3, <1>22, <1>4, <2>2, <2>3, <2>4, <2>6, <2>7, <2>8
  <2>10. granted'[u].lines <= Ceil(u)'
    BY <1>21, <2>0 DEF RateAt, Ceil, Approving
  <2> QED
    BY <1>2, <1>21, <2>5, <2>9, <2>10 DEF RateAt
<1>10. HeldAreSeeded'
  <2> SUFFICES ASSUME NEW e \in Deciders, pc'[e] \in Taken
               PROVE  /\ rateCount'[of'[e].by][Window(e)'] # None
                      /\ rateCount'[of'[e].by][Window(e)'] <= MaxPerDay
    BY DEF HeldAreSeeded
  <2>1. e # d
    BY <1>5 DEF Taken
  <2>2. /\ pc[e] \in Taken /\ of'[e] = of[e] /\ Window(e)' = Window(e)
    BY <1>5, <2>1 DEF Window
  <2>3. of[e].by \in Approvers /\ Window(e) \in Windows
    BY <1>1, <2>2, CallFacts DEF Taken
  <2>4. /\ rateCount[of[e].by][Window(e)] # None
        /\ rateCount[of[e].by][Window(e)] <= MaxPerDay
    BY <1>1, <2>2 DEF HeldAreSeeded
  <2> QED
    BY <1>4, <1>7, <2>2, <2>3, <2>4
<1> QED
  BY <1>8, <1>9, <1>10, <1>11, <1>21 DEF RateInv, Shared

\* A line that was not written is never written later, and a day not fenced stays so.
LEMMA LinesStayLost ==
  ASSUME TypeOK, NEW d \in Deciders, Decide(d)
  PROVE  /\ \A w \in Windows : missing'[w] = 0 => missing[w] = 0
         /\ \A n \in 1 .. Days : Fenced(n)' => Fenced(n)
<1>1. ASSUME NEW w \in Windows, missing'[w] = 0 PROVE missing[w] = 0
  <2>1. missing[w] \in Nat
    BY DEF TypeOK
  <2>2. missing' = missing \/ (Emit(d) /\ Window(d) \in Windows)
    BY CallFacts DEF Decide, Begin, Rate, Fence, Charge, Credit, Release, Emit, history
  <2>3. missing'[w] = missing[w] \/ missing'[w] = missing[w] + 1
    BY <2>2 DEF Emit, TypeOK
  <2> QED
    BY <1>1, <2>1, <2>3
<1>2. unfenced' = unfenced
  BY DEF Decide, Begin, Rate, Fence, Charge, Credit, Release, Emit, history
<1>3. ASSUME NEW n \in 1 .. Days, Fenced(n)' PROVE Fenced(n)
  <2>1. \A f \in Families : <<f, n>> \in Windows
    BY DEF Windows
  <2> QED
    BY <1>1, <1>2, <1>3, <2>1 DEF Fenced
<1> QED
  BY <1>1, <1>3

\* An approval is logged: its slot stays used, and no decision holds it any more.
LEMMA RateEmit ==
  ASSUME CInv, TypeOK', MaxPerDay > 0, NEW d \in Deciders, Emit(d)
  PROVE  RateInv'
<1>1. /\ TypeOK /\ RateInv /\ HeldAreSeeded /\ Shared(rateCount) \subseteq split
      /\ \A w \in Windows : missing[w] = 0 => RateAt(w)
      /\ MaxPerDay \in Nat
  BY ApprovalAssumption DEF CInv, TypeInv, RateInv
<1>2. PICK a \in Approvers, u \in Windows, v \in Windows, c \in Nat :
        a = of[d].by /\ u = Window(d) /\ v = <<of[d].fam, clock>> /\ c = of[d].usd
  <2>1. /\ of[d].by \in Approvers /\ Window(d) \in Windows /\ of[d].fam \in Families
        /\ of[d].usd \in Nat
    BY <1>1, CallFacts DEF Emit
  <2>2. <<of[d].fam, clock>> \in Windows
    BY <1>1, <2>1 DEF TypeOK, Windows
  <2> QED
    BY <2>1, <2>2
<1>3. /\ pc[d] = "emit" /\ clock' = clock /\ rateCount' = rateCount /\ split' = split
      /\ granted' = With(granted, u, c)
      /\ approvals' = With(approvals, v, c) \/ approvals' = approvals
  BY <1>2 DEF Emit, counters, world
<1>10. \A w \in Windows : missing'[w] = 0 => missing[w] = 0
  BY <1>1, LinesStayLost DEF Decide
<1>4. /\ pc'[d] = "idle"
      /\ \A e \in Deciders \ {d} : pc'[e] = pc[e] /\ of'[e] = of[e]
  BY <1>1 DEF Emit, Ends, TypeOK
<1>5. \A w \in Windows : Open(w)' => Open(w)
  BY <1>3, <1>4, StaysOpen
<1>6. \A w \in Windows :
        /\ approvals'[w].lines >= approvals[w].lines
        /\ granted'[w].lines = IF w = u THEN granted[w].lines + 1 ELSE granted[w].lines
        /\ approvals[w].lines \in Nat /\ granted[w].lines \in Nat
  <2> SUFFICES ASSUME NEW w \in Windows
               PROVE  /\ approvals'[w].lines >= approvals[w].lines
                      /\ granted'[w].lines = IF w = u THEN granted[w].lines + 1
                                                      ELSE granted[w].lines
                      /\ approvals[w].lines \in Nat /\ granted[w].lines \in Nat
    OBVIOUS
  <2>1. /\ approvals \in [Windows -> [lines : Nat, usd : Nat]]
        /\ granted \in [Windows -> [lines : Nat, usd : Nat]]
    BY <1>1 DEF TypeOK
  <2>2. /\ With(approvals, v, c)[w].lines
             = IF w = v THEN approvals[w].lines + 1 ELSE approvals[w].lines
        /\ With(granted, u, c)[w].lines
             = IF w = u THEN granted[w].lines + 1 ELSE granted[w].lines
    <3>1. With(approvals, v, c)[w].lines
            = IF w = v THEN approvals[w].lines + 1 ELSE approvals[w].lines
      BY <2>1, WithTypes, ZenonT(40)
    <3>2. With(granted, u, c)[w].lines
            = IF w = u THEN granted[w].lines + 1 ELSE granted[w].lines
      BY <2>1, WithTypes, ZenonT(40)
    <3> QED
      BY <3>1, <3>2
  <2>3. approvals[w].lines \in Nat /\ granted[w].lines \in Nat
    BY <2>1
  <2> QED
    BY <1>3, <2>2, <2>3
<1>7. ASSUME NEW w \in Windows, w # u, missing[w] = 0 PROVE RateAt(w)'
  <2>1. d \in Holding(w) <=> d \in Holding(w)'
    BY <1>2, <1>3, <1>4, <1>7 DEF Holding, Taken
  <2>2. Holding(w)' = Holding(w)
    BY <1>4, <2>1, HoldingMove
  <2> QED
    BY <1>1, <1>3, <1>5, <1>6, <1>7, <2>2, RateFrame
<1>8. ASSUME missing[u] = 0 PROVE RateAt(u)'
  <2>0. RateAt(u)
    BY <1>1, <1>2, <1>8
  <2>1. d \in Holding(u) /\ d \notin Holding(u)'
    BY <1>2, <1>3, <1>4 DEF Holding, Taken
  <2>2. Cardinality(Holding(u)') = Cardinality(Holding(u)) - 1
    BY <1>4, <2>1, HoldingMove
  <2>3. a \in Seeded(u) /\ Seeded(u)' = Seeded(u)
    BY <1>1, <1>2, <1>3 DEF HeldAreSeeded, Seeded, Taken
  <2>4. granted[u].lines + Cardinality(Holding(u)) <= Slots(u)
    BY <2>0, <2>1, <2>3 DEF RateAt
  <2>5. Slots(u)' = Slots(u)
    BY <1>3 DEF Slots, Used
  <2>6. /\ Slots(u) \in Nat /\ Slots(u) <= Ceil(u) /\ Ceil(u) \in Nat
        /\ Cardinality(Holding(u)) \in Nat
    BY <1>1, <1>2, SlotsBound, HoldingFinite
  <2>7. granted'[u].lines = granted[u].lines + 1
    BY <1>2, <1>6
  <2>8. granted'[u].lines + Cardinality(Holding(u)') <= Slots(u)'
    BY <1>2, <1>6, <2>2, <2>4, <2>5, <2>6, <2>7
  <2>9. Cardinality(Holding(u)) >= 1
    BY <2>1, <2>6, HoldingFinite, FS_EmptySet
  <2>10. Ceil(u)' = Ceil(u)
    BY <1>3 DEF Ceil, Approving
  <2>11. granted'[u].lines <= Ceil(u)'
    BY <1>2, <1>6, <2>4, <2>6, <2>7, <2>9, <2>10
  <2>12. Seeded(u)' # {}
    BY <2>3
  <2> QED
    BY <2>8, <2>11, <2>12, Zenon DEF RateAt
<1>9. HeldAreSeeded'
  BY <1>1, <1>3, <1>4 DEF HeldAreSeeded, Taken, Window
<1>11. Shared(rateCount)' \subseteq split'
  BY <1>1, <1>3 DEF Shared
<1> QED
  BY <1>7, <1>8, <1>9, <1>10, <1>11 DEF RateInv

\* A decision begins: of today, whose window is open already.
LEMMA RateBegin ==
  ASSUME CInv, TypeOK', MaxPerDay > 0, NEW d \in Deciders, Begin(d)
  PROVE  RateInv'
<1>1. TypeOK /\ RateInv
  BY DEF CInv, TypeInv
<1>2. /\ pc[d] = "idle" /\ pc'[d] = "rate" /\ of'[d].day = clock
      /\ \A e \in Deciders \ {d} : pc'[e] = pc[e] /\ of'[e] = of[e]
      /\ rateCount' = rateCount /\ granted' = granted /\ approvals' = approvals /\ clock' = clock
      /\ missing' = missing /\ split' = split
  BY <1>1 DEF Begin, Goto, TypeOK, counters, log, history, world
<1>3. ASSUME NEW w \in Windows, Open(w)' PROVE Open(w)
  <2>1. CASE w[2] >= clock'
    BY <1>2, <2>1 DEF Open
  <2>2. CASE \E e \in Deciders : pc'[e] # "idle" /\ Window(e)' = w
    <3>1. PICK e \in Deciders : pc'[e] # "idle" /\ Window(e)' = w
      BY <2>2
    <3>2. CASE e = d
      <4>1. clock \in Nat
        BY <1>1, ApprovalAssumption DEF TypeOK
      <4>2. w = <<of'[d].fam, of'[d].day>>
        BY <3>1, <3>2 DEF Window
      <4>3. w[2] = clock
        BY <1>2, <4>2
      <4> QED
        BY <4>1, <4>3 DEF Open
    <3>3. CASE e # d
      BY <1>2, <3>1, <3>3 DEF Open, Window
    <3> QED
      BY <3>2, <3>3
  <2> QED
    BY <1>3, <2>1, <2>2 DEF Open
<1>4. pc[d] \notin Taken /\ pc'[d] \notin Taken
  BY <1>2 DEF Taken
<1> QED
  BY <1>1, <1>2, <1>3, <1>4, RateQuiet

\* Every step of a decision.
LEMMA RateDecide ==
  ASSUME CInv, TypeOK', NEW d \in Deciders, Decide(d)
  PROVE  RateInv'
<1> SUFFICES ASSUME MaxPerDay > 0 PROVE RateInv'
  BY DEF RateInv
<1>1. TypeOK /\ RateInv
  BY DEF CInv, TypeInv
<1>2. CASE Fence(d) \/ Charge(d) \/ Credit(d)
  <2>1. /\ pc[d] \in Taken /\ pc'[d] \in Taken /\ of' = of /\ clock' = clock
        /\ pc[d] # "idle"
        /\ \A e \in Deciders \ {d} : pc'[e] = pc[e] /\ of'[e] = of[e]
        /\ rateCount' = rateCount /\ granted' = granted /\ approvals' = approvals
        /\ missing' = missing /\ split' = split
    BY <1>1, <1>2 DEF Fence, Charge, Credit, Goto, TypeOK, Taken, world, log, history
  <2>2. \A w \in Windows : Open(w)' => Open(w)
    BY <2>1, StaysOpen
  <2> QED
    BY <1>1, <2>1, <2>2, RateQuiet
<1> QED
  BY <1>2, RateBegin, RateRate, RateRelease, RateEmit DEF Decide

-----------------------------------------------------------------------------
(* The log and the approvals.                                               *)

LEMMA LogDecide ==
  ASSUME TypeOK, LogInv, NEW d \in Deciders, Decide(d)
  PROVE  LogInv'
<1>0. clock \in Nat /\ clock' = clock
  BY ApprovalAssumption DEF TypeOK, Decide, Begin, Rate, Fence, Charge, Credit, Release, Emit, world
<1>1. ASSUME NEW e \in Deciders, pc'[e] # "idle" PROVE of'[e].day <= clock'
  <2>1. CASE pc[e] # "idle" /\ of'[e] = of[e]
    BY <1>0, <2>1 DEF LogInv
  <2>2. CASE Begin(d) /\ e = d
    BY <1>0, <2>2 DEF Begin, TypeOK
  <2>3. \/ pc'[e] = pc[e] /\ of'[e] = of[e]
        \/ e = d /\ pc[d] # "idle" /\ of' = of
        \/ e = d /\ pc'[d] = "idle"
        \/ Begin(d) /\ e = d
    BY DEF Decide, Begin, Rate, Fence, Charge, Credit, Release, Emit, Goto, Ends, TypeOK
  <2> QED
    BY <1>1, <2>1, <2>2, <2>3
<1>2. CASE approvals' = approvals /\ granted' = granted /\ missing' = missing
  BY <1>0, <1>1, <1>2 DEF LogInv
<1>3. CASE Emit(d)
  <2>1. PICK u \in Windows, v \in Windows, c \in Nat :
          /\ u = Window(d) /\ v = <<of[d].fam, clock>> /\ c = of[d].usd
          /\ u[2] <= clock /\ (u[2] = clock => u = v)
          /\ u[2] = of[d].day /\ v[2] = clock
    <3>1. /\ Window(d) \in Windows /\ of[d].fam \in Families /\ of[d].usd \in Nat
          /\ Window(d) = <<of[d].fam, of[d].day>> /\ of[d].day <= clock
      BY <1>3, CallFacts DEF Emit, LogInv
    <3>2. <<of[d].fam, clock>> \in Windows
      BY <3>1 DEF TypeOK, Windows
    <3> QED
      BY <3>1, <3>2
  <2>2. /\ granted' = With(granted, u, c)
        /\ \/ approvals' = With(approvals, v, c) /\ missing' = missing
           \/ approvals' = approvals /\ missing' = [missing EXCEPT ![u] = @ + 1]
    BY <1>3, <2>1 DEF Emit
  <2>3. ASSUME NEW w \in Windows, w[2] >= clock
        PROVE  /\ missing'[w] = 0 => /\ granted'[w].lines <= approvals'[w].lines
                                     /\ granted'[w].usd <= approvals'[w].usd
               /\ w[2] > clock => granted'[w].usd = 0
    <3>1. /\ approvals \in [Windows -> [lines : Nat, usd : Nat]]
          /\ granted \in [Windows -> [lines : Nat, usd : Nat]]
      BY DEF TypeOK
    <3>2. \/ /\ approvals'[w].lines = IF w = v THEN approvals[w].lines + 1
                                               ELSE approvals[w].lines
             /\ approvals'[w].usd = IF w = v THEN approvals[w].usd + c ELSE approvals[w].usd
          \/ /\ approvals'[w] = approvals[w]
             /\ missing'[u] # 0
      <4>1. \A y \in Windows :
              /\ With(approvals, v, c)[y].lines = IF y = v THEN approvals[y].lines + 1
                                                    ELSE approvals[y].lines
              /\ With(approvals, v, c)[y].usd = IF y = v THEN approvals[y].usd + c
                                                  ELSE approvals[y].usd
        BY <3>1, WithTypes, ZenonT(40)
      <4>2. missing \in [Windows -> Nat]
        BY DEF TypeOK
      <4>3. missing' = [missing EXCEPT ![u] = @ + 1] => missing'[u] # 0
        BY <4>2
      <4> QED
        BY <2>2, <4>1, <4>3
    <3>3. /\ granted'[w].lines = IF w = u THEN granted[w].lines + 1 ELSE granted[w].lines
          /\ granted'[w].usd = IF w = u THEN granted[w].usd + c ELSE granted[w].usd
      <4>1. \A y \in Windows :
              /\ With(granted, u, c)[y].lines = IF y = u THEN granted[y].lines + 1
                                                    ELSE granted[y].lines
              /\ With(granted, u, c)[y].usd = IF y = u THEN granted[y].usd + c ELSE granted[y].usd
        BY <3>1, WithTypes, ZenonT(40)
      <4> QED
        BY <2>2, <4>1
    <3>4. /\ approvals[w].lines \in Nat /\ approvals[w].usd \in Nat
          /\ granted[w].lines \in Nat /\ granted[w].usd \in Nat
      BY <3>1
    <3>5. /\ missing[w] = 0 => /\ granted[w].lines <= approvals[w].lines
                               /\ granted[w].usd <= approvals[w].usd
          /\ w[2] > clock => granted[w].usd = 0
      BY <2>3 DEF LogInv
    <3>6. u[2] \in Nat /\ w[2] \in Nat
      BY ApprovalAssumption DEF Windows
    <3>9. missing'[w] = 0 => missing[w] = 0
      BY LinesStayLost
    <3>7. CASE w = u
      <4>1. w[2] = clock /\ w = v
        BY <1>0, <2>1, <2>3, <3>6, <3>7
      <4> QED
        BY <1>0, <3>2, <3>3, <3>4, <3>5, <3>7, <3>9, <4>1
    <3>8. CASE w # u
      BY <3>2, <3>3, <3>4, <3>5, <3>8, <3>9
    <3> QED
      BY <3>7, <3>8
  <2>4. \A w \in Windows : w[2] \in Nat
    BY ApprovalAssumption DEF Windows
  <2> QED
    BY <1>0, <1>1, <2>3, <2>4 DEF LogInv
<1>4. Emit(d) \/ (approvals' = approvals /\ granted' = granted /\ missing' = missing)
  BY DEF Decide, Begin, Rate, Fence, Charge, Credit, Release, log, history
<1> QED
  BY <1>2, <1>3, <1>4

-----------------------------------------------------------------------------
(* The dollars of a day.                                                    *)

LEMMA PledgeTypes ==
  ASSUME TypeOK, NEW n \in 1 .. Days
  PROVE  /\ [d \in Deciders |-> Pledge(d, n)] \in [Deciders -> Nat]
         /\ Pledged(n) \in Nat
<1>1. ASSUME NEW d \in Deciders PROVE Pledge(d, n) \in Nat
  <2>1. CASE pc[d] = "emit"
    BY <2>1, CallFacts DEF Pledge
  <2>2. CASE pc[d] # "emit"
    BY <2>2 DEF Pledge
  <2> QED
    BY <2>1, <2>2
<1>2. [d \in Deciders |-> Pledge(d, n)] \in [Deciders -> Nat]
  BY <1>1
<1> QED
  BY <1>2, SumIsNat, ApprovalAssumption, Zenon DEF Pledged

LEMMA PledgeTypesNext ==
  ASSUME TypeOK', NEW n \in 1 .. Days
  PROVE  /\ [d \in Deciders |-> Pledge(d, n)'] \in [Deciders -> Nat]
         /\ Pledged(n)' = SumFunction([d \in Deciders |-> Pledge(d, n)'])
         /\ Pledged(n)' \in Nat
<1>1. ASSUME NEW d \in Deciders PROVE Pledge(d, n)' \in Nat
  <2>1. CASE pc'[d] = "emit"
    <3>1. of'[d] \in Calls
      BY <2>1 DEF TypeOK
    <3> QED
      BY <2>1, <3>1, ApprovalAssumption DEF Pledge, Calls
  <2>2. CASE pc'[d] # "emit"
    BY <2>2 DEF Pledge
  <2> QED
    BY <2>1, <2>2
<1>2. [d \in Deciders |-> Pledge(d, n)'] \in [Deciders -> Nat]
  BY <1>1
<1>3. Pledged(n)' = SumFunction([d \in Deciders |-> Pledge(d, n)'])
  BY Zenon DEF Pledged
<1> QED
  BY <1>2, <1>3, SumIsNat, ApprovalAssumption, Zenon

\* One decision moves, and what is pledged with it.
LEMMA PledgeMoves ==
  ASSUME TypeOK, TypeOK', NEW d \in Deciders, NEW n \in 1 .. Days,
         \A e \in Deciders \ {d} : pc'[e] = pc[e] /\ of'[e] = of[e]
  PROVE  Pledged(n)' - Pledge(d, n)' = Pledged(n) - Pledge(d, n)
<1> DEFINE g == [e \in Deciders |-> Pledge(e, n)]
           h == [e \in Deciders |-> Pledge(e, n)']
<1>1. g \in [Deciders -> Nat] /\ h \in [Deciders -> Nat]
  BY PledgeTypes, PledgeTypesNext
<1>2. \A e \in Deciders \ {d} : h[e] = g[e]
  BY DEF Pledge
<1>3. g[d] = Pledge(d, n) /\ h[d] = Pledge(d, n)'
  OBVIOUS
<1>4. Pledged(n) = SumFunction(g) /\ Pledged(n)' = SumFunction(h)
  BY PledgeTypesNext DEF Pledged
<1> HIDE DEF g, h
<1>5. SumFunction(h) - h[d] = SumFunction(g) - g[d]
  BY <1>1, <1>2, SumAt, ApprovalAssumption
<1> QED
  BY <1>3, <1>4, <1>5

LEMMA DollarFrame ==
  ASSUME NEW n \in 1 .. Days, DollarAt(n), granted' = granted, Pledged(n)' = Pledged(n),
         blastDay'[n] = blastDay[n], Busy(n)' => Busy(n)
  PROVE  DollarAt(n)'
<1>1. DayDollars(granted, n)' = DayDollars(granted, n)
  BY DEF DayDollars
<1> QED
  BY <1>1 DEF DollarAt

\* A step of a decision that neither passes the dollar gate nor logs an approval.
LEMMA DollarQuiet ==
  ASSUME TypeOK, TypeOK', NEW d \in Deciders, NEW n \in 1 .. Days, DollarAt(n),
         \A e \in Deciders \ {d} : pc'[e] = pc[e] /\ of'[e] = of[e],
         pc[d] # "emit", pc'[d] # "emit",
         granted' = granted, blastDay' = blastDay, Busy(n)' => Busy(n)
  PROVE  DollarAt(n)'
<1>1. Pledge(d, n) = 0 /\ Pledge(d, n)' = 0
  BY DEF Pledge
<1>2. Pledged(n)' - 0 = Pledged(n) - 0
  BY <1>1, PledgeMoves
<1>3. Pledged(n)' \in Nat /\ Pledged(n) \in Nat
  BY PledgeTypes, PledgeTypesNext
<1>4. Pledged(n)' = Pledged(n)
  BY <1>2, <1>3
<1> QED
  BY <1>4, DollarFrame

\* A charge that both meters admit is a pledge.
LEMMA DollarPass ==
  ASSUME TypeOK, TypeOK', NEW d \in Deciders, NEW n \in 1 .. Days, DollarAt(n), DayCeiling > 0,
         pc[d] = "dollars", pc' = [pc EXCEPT ![d] = "emit"], of' = of, clock' = clock,
         DayCeiling = 0 \/ blastDay[of[d].day] + of[d].usd <= DayCeiling,
         blastDay' = [blastDay EXCEPT ![of[d].day] = @ + of[d].usd], granted' = granted
  PROVE  DollarAt(n)'
<1>1. PICK k \in 1 .. Days, c \in Nat, b \in Nat :
        k = of[d].day /\ c = of[d].usd /\ b = blastDay[k]
  <2>1. of[d].day \in 1 .. Days /\ of[d].usd \in Nat
    BY CallFacts
  <2>2. blastDay[of[d].day] \in Nat
    BY <2>1 DEF TypeOK
  <2> QED
    BY <2>1, <2>2
<1>2. \A e \in Deciders \ {d} : pc'[e] = pc[e] /\ of'[e] = of[e]
  BY DEF TypeOK
<1>3. pc'[d] = "emit"
  BY DEF TypeOK
<1>4. Busy(n)' => Busy(n)
  BY <1>3, <1>2, StaysOpen
<1>5. CASE n # k
  <2>1. Pledge(d, n) = 0 /\ Pledge(d, n)' = 0
    BY <1>1, <1>5 DEF Pledge
  <2>2. Pledged(n)' - 0 = Pledged(n) - 0
    BY <1>2, <2>1, PledgeMoves
  <2>3. Pledged(n)' \in Nat /\ Pledged(n) \in Nat
    BY PledgeTypes, PledgeTypesNext
  <2>4. Pledged(n)' = Pledged(n)
    BY <2>2, <2>3
  <2>5. blastDay'[n] = blastDay[n]
    BY <1>1, <1>5 DEF TypeOK
  <2> QED
    BY <1>4, <2>4, <2>5, DollarFrame
<1>6. CASE n = k
  <2>1. Pledge(d, n) = 0 /\ Pledge(d, n)' = c
    BY <1>1, <1>3, <1>6 DEF Pledge
  <2>2. Pledged(n)' - c = Pledged(n) - 0
    BY <1>2, <2>1, PledgeMoves
  <2>3. Pledged(n)' \in Nat /\ Pledged(n) \in Nat
    BY PledgeTypes, PledgeTypesNext
  <2>4. DayDollars(granted, n)' = DayDollars(granted, n) /\ DayDollars(granted, n) \in Nat
    BY DayTypes DEF DayDollars, TypeOK
  <2>5. blastDay'[n] = b + c /\ blastDay[n] = b /\ b + c <= DayCeiling
    BY <1>1, <1>6 DEF TypeOK
  <2>6. Busy(n)
    BY <1>1, <1>6 DEF Busy
  <2>7. DayDollars(granted, n) + Pledged(n) <= b
    BY <2>5, <2>6 DEF DollarAt
  <2>8. /\ DayDollars(granted, n)' + Pledged(n)' <= b + c
        /\ DayDollars(granted, n)' + Pledged(n)' <= DayCeiling
    BY <1>1, <2>2, <2>3, <2>4, <2>5, <2>7, ApprovalAssumption
  <2> QED
    BY <2>5, <2>8 DEF DollarAt
<1> QED
  BY <1>5, <1>6

\* An approval is logged: what was pledged is spent.
LEMMA DollarEmit ==
  ASSUME TypeOK, TypeOK', NEW d \in Deciders, NEW n \in 1 .. Days, DollarAt(n), Emit(d)
  PROVE  DollarAt(n)'
<1>1. PICK f \in Families, k \in 1 .. Days, c \in Nat, u \in Windows :
        f = of[d].fam /\ k = of[d].day /\ c = of[d].usd /\ u = Window(d) /\ u = <<f, k>>
  BY CallFacts DEF Emit
<1>2. /\ pc[d] = "emit" /\ granted' = With(granted, u, c) /\ blastDay' = blastDay
      /\ clock' = clock
  BY <1>1 DEF Emit, counters, world
<1>3. /\ pc'[d] = "idle" /\ \A e \in Deciders \ {d} : pc'[e] = pc[e] /\ of'[e] = of[e]
  BY DEF Emit, Ends, TypeOK
<1>4. Busy(n)' => Busy(n)
  BY <1>2, <1>3, StaysOpen
<1>5. Pledge(d, n) = (IF n = k THEN c ELSE 0) /\ Pledge(d, n)' = 0
  BY <1>1, <1>2, <1>3 DEF Pledge
<1>6. Pledged(n)' - 0 = Pledged(n) - (IF n = k THEN c ELSE 0)
  BY <1>3, <1>5, PledgeMoves
<1>7. Pledged(n)' \in Nat /\ Pledged(n) \in Nat
  BY PledgeTypes, PledgeTypesNext
<1>8. granted \in [Windows -> [lines : Nat, usd : Nat]]
  BY DEF TypeOK
<1>9. granted' \in [Windows -> [lines : Nat, usd : Nat]]
  BY DEF TypeOK
<1>10. \A v \in Windows :
         granted'[v].usd = IF v = u THEN granted[v].usd + c ELSE granted[v].usd
  <2>1. \A v \in Windows :
          /\ With(granted, u, c)[v].lines = IF v = u THEN granted[v].lines + 1
                                                      ELSE granted[v].lines
          /\ With(granted, u, c)[v].usd = IF v = u THEN granted[v].usd + c ELSE granted[v].usd
    BY <1>8, WithTypes
  <2> QED
    BY <1>2, <2>1
<1> DEFINE g == [x \in Families |-> granted[<<x, n>>].usd]
           h == [x \in Families |-> granted'[<<x, n>>].usd]
<1>11. g \in [Families -> Nat] /\ h \in [Families -> Nat]
  BY <1>8, <1>9, DayTypes
<1>12. \A x \in Families :
         h[x] = IF x = f /\ n = k THEN g[x] + c ELSE g[x]
  <2> SUFFICES ASSUME NEW x \in Families
               PROVE  h[x] = IF x = f /\ n = k THEN g[x] + c ELSE g[x]
    OBVIOUS
  <2>1. <<x, n>> \in Windows /\ (<<x, n>> = u <=> x = f /\ n = k)
    BY <1>1 DEF Windows
  <2>2. granted'[<<x, n>>].usd
          = IF <<x, n>> = u THEN granted[<<x, n>>].usd + c ELSE granted[<<x, n>>].usd
    BY <1>10, <2>1
  <2> QED
    BY <2>1, <2>2
<1>13. DayDollars(granted, n) = SumFunction(g) /\ DayDollars(granted, n)' = SumFunction(h)
  BY DEF DayDollars
<1> HIDE DEF g, h
<1>14. SumFunction(h) - h[f] = SumFunction(g) - g[f]
  <2>1. \A y \in Families \ {f} : h[y] = g[y]
    BY <1>12
  <2> QED
    BY <1>1, <1>11, <2>1, SumAt, ApprovalAssumption
<1>15. /\ SumFunction(g) \in Nat /\ SumFunction(h) \in Nat /\ g[f] \in Nat
       /\ h[f] = IF n = k THEN g[f] + c ELSE g[f]
  BY <1>1, <1>11, <1>12, SumIsNat, ApprovalAssumption
<1>16. DayDollars(granted, n)' + Pledged(n)' = DayDollars(granted, n) + Pledged(n)
  BY <1>1, <1>6, <1>7, <1>13, <1>14, <1>15
<1> QED
  BY <1>2, <1>4, <1>16 DEF DollarAt

LEMMA DollarDecide ==
  ASSUME CInv, TypeOK', NEW d \in Deciders, Decide(d)
  PROVE  DollarInv'
<1> SUFFICES ASSUME DayCeiling > 0, NEW n \in 1 .. Days, Fenced(n)' PROVE DollarAt(n)'
  BY DEF DollarInv
<1>1. TypeOK /\ DollarAt(n)
  <2>1. TypeOK /\ DollarInv /\ n \in Nat
    BY ApprovalAssumption DEF CInv, TypeInv
  <2>2. Fenced(n)
    BY <2>1, LinesStayLost
  <2> QED
    BY <2>1, <2>2 DEF DollarInv
<1>2. CASE Rate(d) \/ Fence(d) \/ Credit(d) \/ Release(d) \/ (Charge(d) /\ blastDay' = blastDay
                                                              /\ Goto(d, "credit"))
  <2>1. /\ pc[d] # "emit" /\ pc[d] # "idle" /\ pc'[d] # "emit" /\ clock' = clock
        /\ \A e \in Deciders \ {d} : pc'[e] = pc[e] /\ of'[e] = of[e]
        /\ pc'[d] = "idle" \/ of'[d] = of[d]
        /\ blastDay' = blastDay /\ granted' = granted
    BY <1>1, <1>2 DEF Rate, Fence, Charge, Credit, Release, Goto, Ends, TypeOK, world, history
  <2>2. Busy(n)' => Busy(n)
    BY <2>1, StaysOpen
  <2> QED
    BY <1>1, <2>1, <2>2, DollarQuiet
<1>3. CASE Begin(d)
  <2>1. /\ pc[d] = "idle" /\ pc'[d] = "rate" /\ clock' = clock /\ of'[d].day = clock
        /\ \A e \in Deciders \ {d} : pc'[e] = pc[e] /\ of'[e] = of[e]
        /\ blastDay' = blastDay /\ granted' = granted
    BY <1>1, <1>3 DEF Begin, Goto, TypeOK, world, history, counters
  <2>2. clock \in Nat
    BY <1>1, ApprovalAssumption, SMTT(30) DEF TypeOK
  <2>3. Busy(n)' => Busy(n)
    BY <2>1, <2>2 DEF Busy
  <2> QED
    BY <1>1, <2>1, <2>3, DollarQuiet
<1>4. CASE Charge(d) /\ ~(blastDay' = blastDay /\ Goto(d, "credit"))
  <2>1. /\ pc[d] = "dollars" /\ pc' = [pc EXCEPT ![d] = "emit"] /\ of' = of /\ clock' = clock
        /\ DayCeiling = 0 \/ blastDay[of[d].day] + of[d].usd <= DayCeiling
        /\ blastDay' = [blastDay EXCEPT ![of[d].day] = @ + of[d].usd] /\ granted' = granted
    BY <1>4 DEF Charge, Goto, Fits, world, history
  <2> QED
    BY <1>1, <2>1, DollarPass
<1> QED
  BY <1>1, <1>2, <1>3, <1>4, DollarEmit DEF Decide

-----------------------------------------------------------------------------
(* The ceilings, over every step.                                           *)

\* The log grows, or a day passes: no decision moves.
LEMMA CeilingsOfTheWorld ==
  ASSUME CInv, TypeOK', UNCHANGED <<decision, counters, approvals, history>>,
         clock' = clock \/ clock' = clock + 1
  PROVE  LogInv' /\ RateInv' /\ DollarInv'
<1>1. TypeOK /\ LogInv /\ RateInv /\ DollarInv /\ clock \in Nat /\ clock' >= clock
  <2>1. TypeOK /\ LogInv /\ RateInv /\ DollarInv
    BY DEF CInv, TypeInv
  <2>2. clock \in Nat
    BY <2>1, ApprovalAssumption, SMTT(30) DEF TypeOK
  <2> QED
    BY <2>1, <2>2
<1>2. /\ pc' = pc /\ of' = of /\ approvals' = approvals /\ granted' = granted
      /\ rateCount' = rateCount /\ blastDay' = blastDay /\ missing' = missing
      /\ split' = split /\ unfenced' = unfenced
  BY DEF decision, counters, history
<1>3. LogInv'
  <2>1. \A w \in Windows : w[2] \in Nat
    BY ApprovalAssumption DEF Windows
  <2>2. \A d \in Deciders : pc[d] # "idle" => of[d].day \in Nat
    BY <1>1, CallFacts, ApprovalAssumption
  <2>3. clock' \in Nat /\ (clock' = clock \/ clock' = clock + 1)
    BY <1>1
  <2> QED
    BY <1>1, <1>2, <2>1, <2>2, <2>3 DEF LogInv
<1>4. ASSUME MaxPerDay > 0 PROVE RateInv'
  <2>1. ASSUME NEW w \in Windows, missing[w] = 0 PROVE RateAt(w)'
    <3>1. w[2] \in Nat /\ approvals[w].lines \in Nat
      <4>1. w[2] \in Nat
        BY ApprovalAssumption DEF Windows
      <4>2. approvals[w].lines \in Nat
        BY <1>1 DEF TypeOK
      <4> QED
        BY <4>1, <4>2
    <3>2. Open(w)' => Open(w)
      BY <1>1, <1>2, <3>1 DEF Open, Window
    <3>3. Holding(w)' = Holding(w)
      BY <1>2 DEF Holding, Window
    <3>4. RateAt(w)
      BY <1>1, <1>4, <2>1 DEF RateInv
    <3> QED
      BY <1>1, <1>2, <1>4, <3>1, <3>2, <3>3, <3>4, RateFrame
  <2>2. HeldAreSeeded'
    BY <1>1, <1>2, <1>4 DEF RateInv, HeldAreSeeded, Window
  <2>3. Shared(rateCount)' \subseteq split'
    BY <1>1, <1>2, <1>4 DEF RateInv, Shared
  <2> QED
    BY <1>2, <2>1, <2>2, <2>3 DEF RateInv
<1>5. ASSUME DayCeiling > 0, NEW n \in 1 .. Days, Fenced(n)' PROVE DollarAt(n)'
  <2>3. DollarAt(n)
    BY <1>1, <1>2, <1>5 DEF DollarInv, Fenced
  <2>1. Busy(n)' => Busy(n)
    BY <1>1, <1>2 DEF Busy
  <2>2. Pledged(n)' = Pledged(n)
    BY <1>2 DEF Pledged, Pledge
  <2> QED
    BY <1>2, <2>1, <2>2, <2>3, DollarFrame
<1> QED
  BY <1>3, <1>4, <1>5 DEF RateInv, DollarInv

\* A new process: the log has every approval of today, and the meter is rebuilt from it.
LEMMA CeilingsOfARestart ==
  ASSUME CInv, TypeOK', Restart
  PROVE  LogInv' /\ RateInv' /\ DollarInv'
<1>1. TypeOK /\ LogInv /\ RateInv /\ DollarInv
  BY DEF CInv, TypeInv
<1>2. /\ pc' = [d \in Deciders |-> "idle"] /\ rateCount' = NoWindows
      /\ clock' = clock /\ approvals' = approvals /\ granted' = granted
      /\ missing' = missing /\ split' = split
  BY DEF Restart, log
<1>7. PICK sum \in rebuildBlastDay :
        /\ blastDay' = [n \in 1 .. Days |-> IF n = clock THEN sum ELSE 0]
        /\ unfenced' = IF sum < DayCeiling /\ sum < DayDollars(approvals, clock)
                         THEN unfenced \union {clock} ELSE unfenced
  BY DEF Restart
<1>3. LogInv'
  BY <1>1, <1>2 DEF LogInv
<1>4. ASSUME MaxPerDay > 0, NEW w \in Windows, missing[w] = 0 PROVE RateAt(w)'
  <2>1. Seeded(w)' = {}
    BY <1>2 DEF Seeded, NoWindows
  <2>2. Open(w)' => w[2] >= clock
    BY <1>2 DEF Open
  <2>3. Open(w)' => granted'[w].lines <= approvals'[w].lines
    BY <1>1, <1>2, <1>4, <2>2 DEF LogInv
  <2>4. granted'[w].lines <= Ceil(w)'
    BY <1>1, <1>2, <1>4 DEF RateInv, RateAt, Ceil, Approving
  <2> QED
    BY <2>1, <2>3, <2>4, Zenon DEF RateAt
<1>5. HeldAreSeeded'
  BY <1>2 DEF HeldAreSeeded, Taken
<1>6. ASSUME DayCeiling > 0, NEW n \in 1 .. Days, Fenced(n)' PROVE DollarAt(n)'
  <2>0. Fenced(n) /\ DollarAt(n)
    BY <1>1, <1>2, <1>6, <1>7 DEF DollarInv, Fenced
  <2>1. Pledged(n)' = 0
    <3> DEFINE h == [d \in Deciders |-> Pledge(d, n)']
    <3>1. h \in [Deciders -> Nat] /\ Pledged(n)' = SumFunction(h)
      BY PledgeTypesNext
    <3>2. \A d \in Deciders : h[d] = 0
      BY <1>2 DEF Pledge
    <3> HIDE DEF h
    <3> QED
      BY <3>1, <3>2, SumOfNothing, ApprovalAssumption
  <2>2. DayDollars(granted, n)' = DayDollars(granted, n)
    BY <1>2 DEF DayDollars
  <2>3. /\ granted \in [Windows -> [lines : Nat, usd : Nat]]
        /\ approvals \in [Windows -> [lines : Nat, usd : Nat]]
    BY <1>1 DEF TypeOK
  <2>4. DayDollars(granted, n) \in Nat /\ Pledged(n) \in Nat /\ DayCeiling \in Nat
    BY <1>1, <2>3, DayTypes, PledgeTypes, ApprovalAssumption
  <2>5. DayDollars(granted, n) + Pledged(n) <= DayCeiling
    BY <2>0 DEF DollarAt
  <2>6. DayDollars(granted, n)' + Pledged(n)' <= DayCeiling
    BY <2>1, <2>2, <2>4, <2>5
  <2>7. ASSUME Busy(n)' PROVE DayDollars(granted, n) <= blastDay'[n]
    <3> DEFINE g == [f \in Families |-> granted[<<f, n>>].usd]
               h == [f \in Families |-> approvals[<<f, n>>].usd]
    <3>1. n >= clock /\ n \in Nat /\ clock \in Nat
      BY <1>1, <1>2, <2>7, ApprovalAssumption DEF Busy, TypeOK
    <3>2. g \in [Families -> Nat] /\ h \in [Families -> Nat]
      BY <2>3, DayTypes
    <3>3. \A f \in Families : g[f] <= h[f] /\ (n > clock => g[f] = 0)
      <4> SUFFICES ASSUME NEW f \in Families
                   PROVE  g[f] <= h[f] /\ (n > clock => g[f] = 0)
        OBVIOUS
      <4>1. <<f, n>> \in Windows /\ <<f, n>>[2] = n
        BY DEF Windows
      <4>2. /\ granted[<<f, n>>].usd <= approvals[<<f, n>>].usd
            /\ n > clock => granted[<<f, n>>].usd = 0
        BY <1>1, <2>0, <3>1, <4>1 DEF LogInv, Fenced
      <4> QED
        BY <4>2
    <3>4. DayDollars(granted, n) = SumFunction(g) /\ DayDollars(approvals, n) = SumFunction(h)
      BY DEF DayDollars
    <3>5. blastDay'[n] = IF n = clock THEN sum ELSE 0
      BY <1>7
    <3> HIDE DEF g, h
    <3>6. SumFunction(g) <= SumFunction(h)
      BY <3>2, <3>3, SumGrows, ApprovalAssumption
    <3>8. SumFunction(g) \in Nat /\ SumFunction(h) \in Nat
      BY <3>2, SumIsNat, ApprovalAssumption
    <3>9. n = clock => sum \in Nat /\ (sum >= SumFunction(h) \/ sum >= DayCeiling)
      <4>1. n = clock => ~(sum < DayCeiling /\ sum < DayDollars(approvals, clock))
        BY <1>6, <1>7 DEF Fenced
      <4>2. n = clock => sum \in Nat
        BY <2>4, <3>4, <3>8 DEF rebuildBlastDay
      <4> QED
        BY <2>4, <3>4, <3>8, <4>1, <4>2
    <3>7. n > clock => SumFunction(g) = 0
      BY <3>2, <3>3, SumOfNothing, ApprovalAssumption
    <3> QED
      BY <2>4, <2>5, <3>1, <3>4, <3>5, <3>6, <3>7, <3>8, <3>9
  <2>8. Busy(n)' => DayDollars(granted, n)' + Pledged(n)' <= blastDay'[n]
    <3>1. blastDay'[n] \in Nat
      BY DEF TypeOK
    <3> QED
      BY <2>1, <2>2, <2>4, <2>7, <3>1
  <2> QED
    BY <2>6, <2>8 DEF DollarAt
<1>8. Shared(rateCount)' \subseteq split'
  BY <1>2 DEF Shared, NoWindows
<1> QED
  BY <1>2, <1>3, <1>4, <1>5, <1>6, <1>8 DEF RateInv, DollarInv

LEMMA NextCInv ==
  ASSUME CInv, [Next]_vars
  PROVE  CInv'
<1>1. TypeInv
  BY DEF CInv
<1>2. CASE \E d \in Deciders : Decide(d)
  <2>1. PICK d \in Deciders : Decide(d)
    BY <1>2
  <2>2. TypeInv'
    BY <1>1, <2>1, DecideTypes
  <2> QED
    BY <2>1, <2>2, LogDecide, RateDecide, DollarDecide DEF CInv, TypeInv
<1>3. CASE (\E f \in Families : Outcome(f)) \/ Midnight \/ UNCHANGED vars
  <2>1. TypeInv'
    BY <1>1, <1>3, WorldTypes
  <2>2. /\ UNCHANGED <<decision, counters, approvals, history>>
        /\ clock' = clock \/ clock' = clock + 1
    BY <1>3 DEF Outcome, Midnight, vars, world, log
  <2> QED
    BY <2>1, <2>2, CeilingsOfTheWorld DEF CInv, TypeInv
<1>4. CASE Restart
  <2>1. TypeInv'
    BY <1>1, <1>4, WorldTypes
  <2> QED
    BY <1>4, <2>1, CeilingsOfARestart DEF CInv, TypeInv
<1> QED
  BY <1>2, <1>3, <1>4 DEF Next

LEMMA InitCInv == Init => CInv
<1> SUFFICES ASSUME Init PROVE CInv
  OBVIOUS
<1>1. TypeInv /\ TypeOK
  BY InitTypes DEF TypeInv
<1>2. \A w \in Windows : granted[w].lines = 0 /\ approvals[w].lines = 0
                         /\ granted[w].usd = 0 /\ approvals[w].usd = 0
  BY DEF Init, NoGrants
<1>3. LogInv
  BY <1>2 DEF LogInv, Init
<1>4. ASSUME NEW w \in Windows PROVE RateAt(w)
  <2>1. Seeded(w) = {}
    BY DEF Seeded, Init, NoWindows
  <2>2. Ceil(w) \in Nat
    BY ApprovalAssumption DEF Ceil, Approving, Init
  <2> QED
    BY <1>2, <2>1, <2>2 DEF RateAt
<1>5. HeldAreSeeded
  BY DEF HeldAreSeeded, Taken, Init
<1>6. ASSUME DayCeiling > 0, NEW n \in 1 .. Days PROVE DollarAt(n)
  <2> DEFINE g == [f \in Families |-> granted[<<f, n>>].usd]
             h == [d \in Deciders |-> Pledge(d, n)]
  <2>1. g \in [Families -> Nat] /\ h \in [Deciders -> Nat]
    <3>1. granted \in [Windows -> [lines : Nat, usd : Nat]]
      BY <1>1 DEF TypeOK
    <3> QED
      BY <1>1, <3>1, DayTypes, PledgeTypes
  <2>2. (\A f \in Families : g[f] = 0) /\ (\A d \in Deciders : h[d] = 0)
    BY <1>2 DEF Windows, Pledge, Init
  <2>3. DayDollars(granted, n) = SumFunction(g) /\ Pledged(n) = SumFunction(h)
    BY DEF DayDollars, Pledged
  <2> HIDE DEF g, h
  <2>4. SumFunction(g) = 0 /\ SumFunction(h) = 0
    BY <2>1, <2>2, SumOfNothing, ApprovalAssumption
  <2>5. blastDay[n] = 0 /\ DayCeiling \in Nat
    BY ApprovalAssumption DEF Init
  <2> QED
    BY <2>3, <2>4, <2>5 DEF DollarAt
<1>7. Shared(rateCount) \subseteq split
  BY DEF Shared, Init, NoWindows
<1> QED
  BY <1>1, <1>3, <1>4, <1>5, <1>6, <1>7 DEF CInv, RateInv, DollarInv

\* However decisions interleave and however often the process restarts on the same log, at
\* most MaxPerDay automatic approvals of one family are decided on one day, unless two
\* approvers of one process count the window, or a line of it was not written; and the dollars
\* approved on a day stay within the blast ceiling, unless a line of the day was not written
\* or a new meter recorded less of the day than the log has.
THEOREM CeilingsAreKept == Spec => []CeilingsHold
<1>1. Spec => []CInv
  BY InitCInv, NextCInv, PTL DEF Spec
<1>2. CInv => CeilingsHold
  <2> SUFFICES ASSUME CInv PROVE CeilingsHold
    OBVIOUS
  <2>1. MaxPerDay > 0 =>
          \A w \in Windows : missing[w] = 0 => granted[w].lines <= MaxPerDay * Approving(w)
    BY DEF CInv, RateInv, RateAt, Ceil
  <2>2. ASSUME DayCeiling > 0, NEW n \in 1 .. Days, Fenced(n)
        PROVE  DayDollars(granted, n) <= DayCeiling
    <3>1. granted \in [Windows -> [lines : Nat, usd : Nat]] /\ TypeOK
      BY DEF CInv, TypeInv, TypeOK
    <3>2. DayDollars(granted, n) \in Nat /\ Pledged(n) \in Nat /\ DayCeiling \in Nat
      BY <3>1, DayTypes, PledgeTypes, ApprovalAssumption
    <3>3. DayDollars(granted, n) + Pledged(n) <= DayCeiling
      BY <2>2 DEF CInv, DollarInv, DollarAt
    <3> QED
      BY <3>2, <3>3
  <2> QED
    BY <2>1, <2>2 DEF CeilingsHold
<1> QED
  BY <1>1, <1>2, PTL

-----------------------------------------------------------------------------
(* Model calls: the types.                                                  *)

\* A call that has an attempt behind it is at a provider, and backs off while it has retries.
AtProvider ==
  \A c \in Callers :
    /\ stage[c] \in {"call", "heard", "after", "sleep"} => walk[c].at \in Providers
    /\ stage[c] = "sleep" => walk[c].try < MaxRetries

TInv == CallsTypeOK /\ AtProvider

\* The fields of a call.
LEMMA Fields ==
  ASSUME CallsTypeOK, NEW c \in Callers
  PROVE  /\ stage[c] \in Stages
         /\ walk[c].at \in 1 .. N + 1 /\ walk[c].try \in 0 .. MaxRetries
         /\ result[c].n \in Nat /\ result[c].usd \in Nat /\ result[c].said \in BOOLEAN
         /\ resp[c].usd \in Nat /\ cancelled[c] \in BOOLEAN
BY DEF CallsTypeOK, Walks, Results, Responses

LEMMA Blank == NoWalk \in Walks /\ NoResult \in Results /\ NoAnswer \in Responses /\ <<>> \in Seq(Nat)
<1>1. NoWalk \in Walks
  BY CallsAssumption DEF NoWalk, Walks
<1>2. NoResult \in Results
  BY DEF NoResult, Results
<1>3. <<>> \in Seq(Nat)
  OBVIOUS
<1> QED
  BY <1>1, <1>2, <1>3 DEF NoAnswer, Responses

LEMMA InitTInv == CallsInit => TInv
<1> SUFFICES ASSUME CallsInit PROVE TInv
  OBVIOUS
<1> USE CallsAssumption DEF CallsInit
<1>1. CallsTypeOK
  BY Blank DEF CallsTypeOK, Stages
<1>2. AtProvider
  BY DEF AtProvider
<1> QED
  BY <1>1, <1>2 DEF TInv

\* What a walk may return is a response.
LEMMA Returned ==
  ASSUME TInv, NEW c \in Callers
  PROVE  Answer(c) \in Responses /\ Partial(c) \in Responses
<1>1. Text(c) \in Seq(Nat)
  BY Fields DEF Text, TInv
<1> QED
  BY <1>1, Fields, Blank DEF Responses, Answer, Partial, TInv

\* A step of the walk of one call keeps the types, if the new values have them.
LEMMA WalkTyped ==
  ASSUME TInv, NEW c \in Callers, NEW l \in Stages, stage' = [stage EXCEPT ![c] = l],
         \/ UNCHANGED walk
         \/ \E w \in Walks : walk' = [walk EXCEPT ![c] = w],
         \/ UNCHANGED result
         \/ \E r \in Results : result' = [result EXCEPT ![c] = r],
         \/ UNCHANGED resp
         \/ \E r \in Responses : resp' = [resp EXCEPT ![c] = r],
         UNCHANGED <<painted, cancelled, made, breakers, now, ledger, faults>>,
         l \in {"call", "heard", "after", "sleep"} => walk'[c].at \in Providers,
         l = "sleep" => walk'[c].try < MaxRetries
  PROVE  TInv'
<1>1. CallsTypeOK'
  BY ZenonT(40) DEF TInv, CallsTypeOK, breakers, ledger
<1>2. AtProvider'
  BY DEF TInv, CallsTypeOK, AtProvider
<1> QED
  BY <1>1, <1>2 DEF TInv

LEMMA BeginCallT == ASSUME TInv, NEW c \in Callers, BeginCall(c) PROVE TInv'
<1>1. PICK how \in {"complete", "stream"} : walk' = [walk EXCEPT ![c] = [NoWalk EXCEPT !.how = how]]
  BY DEF BeginCall
<1>2. [NoWalk EXCEPT !.how = how] \in Walks
  BY CallsAssumption DEF NoWalk, Walks
<1>3. /\ stage' = [stage EXCEPT ![c] = "gate"] /\ made' = made + 1 /\ made < MaxCalls
      /\ UNCHANGED <<result, painted, resp, cancelled, breakers, now, ledger, faults>>
  BY DEF BeginCall, MoveTo
<1>6. made' \in 0 .. MaxCalls
  BY <1>3, CallsAssumption DEF TInv, CallsTypeOK
<1>4. CallsTypeOK'
  BY <1>1, <1>2, <1>3, <1>6 DEF TInv, CallsTypeOK, breakers, ledger, Stages
<1>5. AtProvider'
  BY <1>1, <1>3 DEF TInv, CallsTypeOK, AtProvider
<1> QED
  BY <1>4, <1>5 DEF TInv

LEMMA AdmitT == ASSUME TInv, NEW c \in Callers, Admit(c) PROVE TInv'
<1>1. UNCHANGED <<walk, result, painted, cancelled, made, breakers, now, ledger, faults>>
  BY DEF Admit
<1>2. CASE MoveTo(c, "pick") /\ UNCHANGED resp
  BY <1>1, <1>2, WalkTyped DEF MoveTo, Stages
<1>3. CASE Return(c, NoAnswer)
  BY <1>1, <1>3, WalkTyped, Blank DEF MoveTo, Return, Stages
<1> QED
  BY <1>2, <1>3 DEF Admit

\* A fresh attempt.
LEMMA Attempts ==
  ASSUME TInv, NEW c \in Callers, Attempt(c)
  PROVE  /\ stage' = [stage EXCEPT ![c] = "call"]
         /\ \E r \in Results : r.said = FALSE /\ result' = [result EXCEPT ![c] = r]
<1> DEFINE r == [NoResult EXCEPT !.n = result[c].n + 1]
<1>1. result[c].n + 1 \in Nat
  BY Fields DEF TInv
<1>2. r \in Results /\ r.said = FALSE
  BY <1>1 DEF Results, NoResult
<1>3. result' = [result EXCEPT ![c] = r]
  BY DEF Attempt
<1> HIDE DEF r
<1> QED
  BY <1>2, <1>3 DEF Attempt, MoveTo

LEMMA PickT == ASSUME TInv, NEW c \in Callers, Pick(c) PROVE TInv'
<1>0. /\ stage[c] = "pick" /\ walk[c].at \in 1 .. N + 1 /\ walk[c] \in Walks
      /\ UNCHANGED <<painted, cancelled, made, breakers, now, ledger, faults>>
  BY Fields DEF Pick, TInv, CallsTypeOK
<1>1. CASE walk[c].at <= N /\ Attempt(c) /\ UNCHANGED <<walk, resp>>
  <2>1. walk[c].at \in Providers
    BY <1>0, <1>1, CallsAssumption DEF Providers
  <2> QED
    BY <1>0, <1>1, <2>1, Attempts, WalkTyped DEF Stages
<1>2. CASE /\ walk[c].at <= N
           /\ walk' = [walk EXCEPT ![c].at = walk[c].at + 1]
           /\ UNCHANGED <<stage, result, resp>>
  <2> DEFINE w == [walk[c] EXCEPT !.at = walk[c].at + 1]
  <2>1. w \in Walks
    BY <1>0, <1>2, CallsAssumption DEF Walks
  <2>2. walk' = [walk EXCEPT ![c] = w]
    BY <1>2
  <2>3. stage' = [stage EXCEPT ![c] = "pick"]
    BY <1>0, <1>2 DEF TInv, CallsTypeOK
  <2> HIDE DEF w
  <2> QED
    BY <1>0, <1>2, <2>1, <2>2, <2>3, WalkTyped DEF Stages
<1>3. CASE Return(c, NoAnswer) /\ UNCHANGED <<walk, result>>
  BY <1>0, <1>3, Blank, WalkTyped DEF Return, MoveTo, Stages
<1> QED
  BY <1>1, <1>2, <1>3 DEF Pick

LEMMA SayT == ASSUME TInv, NEW c \in Callers, Say(c) PROVE TInv'
<1> DEFINE r == [result[c] EXCEPT !.said = TRUE]
<1>1. <<result[c].n>> \in Seq(Nat)
  BY Fields DEF TInv
<1>2. painted' \in [Callers -> Seq(Nat)]
  BY <1>1 DEF Say, Forward, TInv, CallsTypeOK
<1>3. r \in Results
  BY ZenonT(40) DEF TInv, CallsTypeOK, Results
<1>4. result' = [result EXCEPT ![c] = r]
  BY DEF Say
<1> HIDE DEF r
<1>5. CallsTypeOK'
  BY <1>2, <1>3, <1>4 DEF TInv, CallsTypeOK, Say, breakers, ledger
<1>6. AtProvider'
  BY DEF TInv, AtProvider, Say
<1> QED
  BY <1>5, <1>6 DEF TInv

LEMMA FinishT == ASSUME TInv, NEW c \in Callers, Finish(c) PROVE TInv'
<1>1. PICK end \in {"ok", "fault", "terminal"}, usd \in Prices \cup {0}, more \in BOOLEAN :
        /\ result' = [result EXCEPT ![c].end = end, ![c].usd = usd, ![c].said = @ \/ more]
        /\ IF more THEN Forward(c) ELSE UNCHANGED painted
        /\ faults' = IF end # "ok" /\ ~cancelled[c]
                     THEN [faults EXCEPT ![walk[c].at] = Least(@ + 1, Threshold)] ELSE faults
  BY DEF Finish
<1>2. /\ stage[c] = "call" /\ stage' = [stage EXCEPT ![c] = "heard"]
      /\ UNCHANGED <<walk, resp, cancelled, made, breakers, now, ledger>>
  BY DEF Finish, MoveTo
<1>3. result[c].n \in Nat /\ <<result[c].n>> \in Seq(Nat) /\ result[c].said \in BOOLEAN
  BY Fields DEF TInv
<1>4. painted' \in [Callers -> Seq(Nat)]
  BY <1>1, <1>3 DEF Forward, TInv, CallsTypeOK
<1>5. usd \in Nat
  BY CallsAssumption
<1> DEFINE r == [result[c] EXCEPT !.end = end, !.usd = usd, !.said = result[c].said \/ more]
<1>6. result' = [result EXCEPT ![c] = r]
  BY <1>1
<1>7. r \in Results
  BY <1>3, <1>5, ZenonT(40) DEF Results, TInv, CallsTypeOK
<1> HIDE DEF r
<1>8. faults' \in [Providers -> 0 .. Threshold]
  <2>1. walk[c].at \in Providers /\ faults \in [Providers -> 0 .. Threshold]
    BY <1>2 DEF TInv, CallsTypeOK, AtProvider
  <2>2. Least(faults[walk[c].at] + 1, Threshold) \in 0 .. Threshold
    BY <2>1, CallsAssumption DEF Least
  <2> QED
    BY <1>1, <2>1, <2>2
<1>9. CallsTypeOK'
  BY <1>2, <1>4, <1>6, <1>7, <1>8 DEF TInv, CallsTypeOK, breakers, ledger, Stages
<1>10. AtProvider'
  BY <1>2 DEF TInv, CallsTypeOK, AtProvider
<1> QED
  BY <1>9, <1>10 DEF TInv

\* What an attempt does to the breaker of its provider.
LEMMA BreakersT ==
  ASSUME TInv, NEW i \in Providers, recordSuccess(i) \/ recordFailure(i)
  PROVE  failures' \in [Providers -> Nat] /\ openUntil' \in [Providers -> Int]
<1>1. /\ failures \in [Providers -> Nat] /\ openUntil \in [Providers -> Int]
      /\ now + Cooldown \in Int /\ failures[i] + 1 \in Nat
  BY CallsAssumption DEF TInv, CallsTypeOK
<1>2. CASE recordSuccess(i)
  BY <1>1, <1>2 DEF recordSuccess
<1>3. CASE recordFailure(i)
  BY <1>1, <1>3 DEF recordFailure
<1> QED
  BY <1>2, <1>3

LEMMA HearT == ASSUME TInv, NEW c \in Callers, Hear(c) PROVE TInv'
<1>1. /\ stage[c] = "heard" /\ walk[c].at \in Providers
      /\ UNCHANGED <<walk, result, painted, cancelled, made, now, ledger, faults>>
  BY DEF Hear, TInv, AtProvider
<1>2. failures' \in [Providers -> Nat] /\ openUntil' \in [Providers -> Int]
  <2>1. \/ recordSuccess(walk[c].at) \/ recordFailure(walk[c].at) \/ UNCHANGED breakers
    BY DEF Hear
  <2> QED
    BY <1>1, <2>1, BreakersT DEF breakers, TInv, CallsTypeOK
<1>3. \/ \E r \in Responses : resp' = [resp EXCEPT ![c] = r] /\ stage' = [stage EXCEPT ![c] = "charge"]
      \/ stage' = [stage EXCEPT ![c] = "after"] /\ UNCHANGED resp
  BY Returned, Blank DEF Hear, Return, MoveTo
<1>4. CallsTypeOK'
  BY <1>1, <1>2, <1>3 DEF TInv, CallsTypeOK, ledger, Stages
<1>5. AtProvider'
  BY <1>1, <1>3 DEF TInv, CallsTypeOK, AtProvider
<1> QED
  BY <1>4, <1>5 DEF TInv

LEMMA AfterT == ASSUME TInv, NEW c \in Callers, After(c) PROVE TInv'
<1>1. /\ stage[c] = "after" /\ walk[c].at \in Providers /\ walk[c] \in Walks
      /\ walk[c].try \in 0 .. MaxRetries
      /\ UNCHANGED <<result, painted, cancelled, made, breakers, now, ledger, faults>>
  BY Fields DEF After, TInv, CallsTypeOK, AtProvider
<1>2. CASE (\E r \in {NoAnswer, Partial(c)} : Return(c, r)) /\ UNCHANGED walk
  BY <1>1, <1>2, Returned, Blank, WalkTyped DEF Return, MoveTo, Stages
<1>3. CASE /\ walk' = [walk EXCEPT ![c].at = @ + 1, ![c].try = 0]
           /\ MoveTo(c, "pick") /\ UNCHANGED resp
  <2> DEFINE w == [walk[c] EXCEPT !.at = walk[c].at + 1, !.try = 0]
  <2>1. walk[c].at + 1 \in 1 .. N + 1 /\ 0 \in 0 .. MaxRetries
    BY <1>1, CallsAssumption DEF Providers
  <2>3. w \in Walks
    BY <1>1, <2>1 DEF Walks
  <2>2. walk' = [walk EXCEPT ![c] = w]
    BY <1>3
  <2> HIDE DEF w
  <2> QED
    BY <1>1, <1>3, <2>3, <2>2, WalkTyped DEF MoveTo, Stages
<1>4. CASE walk[c].try < MaxRetries /\ MoveTo(c, "sleep") /\ UNCHANGED <<walk, resp>>
  BY <1>1, <1>4, WalkTyped DEF MoveTo, Stages
<1> QED
  BY <1>1, <1>2, <1>3, <1>4 DEF After, NextProvider

LEMMA SleepT == ASSUME TInv, NEW c \in Callers, Sleep(c) PROVE TInv'
<1>1. /\ stage[c] = "sleep" /\ walk[c].at \in Providers /\ walk[c] \in Walks
      /\ walk[c].try \in 0 .. MaxRetries /\ walk[c].try < MaxRetries
      /\ UNCHANGED <<painted, cancelled, made, breakers, now, ledger, faults>>
  BY Fields DEF Sleep, TInv, CallsTypeOK, AtProvider
<1>2. CASE walk' = [walk EXCEPT ![c].try = @ + 1] /\ Attempt(c) /\ UNCHANGED resp
  <2> DEFINE w == [walk[c] EXCEPT !.try = @ + 1]
  <2>1. w \in Walks /\ w.at = walk[c].at
    BY <1>1, CallsAssumption DEF Walks
  <2>2. walk' = [walk EXCEPT ![c] = w] /\ walk'[c] = w
    BY <1>2 DEF TInv, CallsTypeOK
  <2> HIDE DEF w
  <2> QED
    BY <1>1, <1>2, <2>1, <2>2, Attempts, WalkTyped DEF Stages
<1>3. CASE Return(c, NoAnswer) /\ UNCHANGED <<walk, result>>
  BY <1>1, <1>3, Blank, WalkTyped DEF Return, MoveTo, Stages
<1> QED
  BY <1>2, <1>3 DEF Sleep

LEMMA ChargeCallT == ASSUME TInv, NEW c \in Callers, ChargeCall(c) PROVE TInv'
<1>1. /\ stage' = [stage EXCEPT ![c] = "idle"]
      /\ walk' = [walk EXCEPT ![c] = NoWalk] /\ result' = [result EXCEPT ![c] = NoResult]
      /\ painted' = [painted EXCEPT ![c] = <<>>] /\ resp' = [resp EXCEPT ![c] = NoAnswer]
      /\ cancelled' = [cancelled EXCEPT ![c] = FALSE]
      /\ produced' = [produced EXCEPT ![c] = @ + resp[c].usd]
      /\ UNCHANGED <<made, breakers, now, faults>>
  BY DEF ChargeCall, MoveTo
<1>2. resp[c].usd \in Nat /\ TInv
  BY Fields DEF TInv
<1>3. /\ spent' \in [Callers -> Nat] /\ total' \in Nat /\ refused' \in [Callers -> Nat]
      /\ produced' \in [Callers -> Nat]
  <2>1. /\ spent \in [Callers -> Nat] /\ total \in Nat /\ refused \in [Callers -> Nat]
        /\ produced \in [Callers -> Nat]
    BY DEF TInv, CallsTypeOK
  <2>2. produced' \in [Callers -> Nat]
    BY <1>1, <1>2, <2>1
  <2>3. \/ /\ spent' = [spent EXCEPT ![c] = @ + resp[c].usd] /\ total' = total + resp[c].usd
           /\ UNCHANGED refused
        \/ refused' = [refused EXCEPT ![c] = @ + resp[c].usd] /\ UNCHANGED <<spent, total>>
        \/ UNCHANGED <<spent, total, refused>>
    BY DEF ChargeCall
  <2> QED
    BY <1>2, <2>1, <2>2, <2>3
<1>4. CallsTypeOK'
  BY <1>1, <1>3, Blank DEF TInv, CallsTypeOK, breakers, Stages
<1>5. AtProvider'
  BY <1>1 DEF TInv, CallsTypeOK, AtProvider
<1> QED
  BY <1>4, <1>5 DEF TInv

LEMMA CallStepT == ASSUME TInv, [CallsNext]_callsVars PROVE TInv'
<1>1. ASSUME NEW c \in Callers, Cancel(c) PROVE TInv'
  BY <1>1 DEF TInv, CallsTypeOK, AtProvider, Cancel, calling, breakers, ledger
<1>2. CASE Tick
  BY <1>2, CallsAssumption DEF TInv, CallsTypeOK, AtProvider, Tick, calling, breakers, ledger
<1>3. CASE UNCHANGED callsVars
  BY <1>3 DEF TInv, CallsTypeOK, AtProvider, callsVars, calling, breakers, ledger
<1> QED
  BY <1>1, <1>2, <1>3, BeginCallT, AdmitT, PickT, SayT, FinishT, HearT, AfterT, SleepT,
     ChargeCallT DEF CallsNext, Step

-----------------------------------------------------------------------------
(* Model calls: what was painted, and what is billed.                       *)

\* What the caller of c has seen is the text of the attempt in hand, and then of the response;
\* before a retry, or another provider, it has seen nothing.
PaintAt(c) ==
  /\ stage[c] \in {"call", "heard", "after"} /\ Streaming(c) => painted[c] = Text(c)
  /\ stage[c] = "charge" /\ Streaming(c) => painted[c] = resp[c].text
  /\ stage[c] \notin {"call", "heard", "after", "charge"} \/ ~Streaming(c) => painted[c] = <<>>

\* A response that is not billed has cost nothing.
BillAt(c) == stage[c] = "charge" /\ ~Billable(c) => resp[c].usd = 0

WalkInv == TInv /\ \A c \in Callers : PaintAt(c) /\ BillAt(c)

\* A step of one call leaves the others where they are.
LEMMA OthersStay ==
  ASSUME TInv, NEW c \in Callers, Step(c), NEW d \in Callers \ {c}
  PROVE  /\ stage'[d] = stage[d] /\ walk'[d] = walk[d] /\ result'[d] = result[d]
         /\ painted'[d] = painted[d] /\ resp'[d] = resp[d] /\ cancelled'[d] = cancelled[d]
         /\ (PaintAt(d) => PaintAt(d)') /\ (BillAt(d) => BillAt(d)')
<1>1. /\ stage'[d] = stage[d] /\ walk'[d] = walk[d] /\ result'[d] = result[d]
      /\ painted'[d] = painted[d] /\ resp'[d] = resp[d] /\ cancelled'[d] = cancelled[d]
  <2>1. CASE BeginCall(c)
    BY <2>1 DEF TInv, CallsTypeOK, BeginCall, MoveTo
  <2>2. CASE Admit(c)
    BY <2>2 DEF TInv, CallsTypeOK, Admit, Return, MoveTo
  <2>3. CASE Pick(c)
    BY <2>3 DEF TInv, CallsTypeOK, Pick, Attempt, Return, MoveTo
  <2>4. CASE Say(c)
    BY <2>4 DEF TInv, CallsTypeOK, Say, Forward
  <2>5. CASE Finish(c)
    BY <2>5 DEF TInv, CallsTypeOK, Finish, Forward, MoveTo
  <2>6. CASE Hear(c)
    BY <2>6 DEF TInv, CallsTypeOK, Hear, Return, MoveTo
  <2>7. CASE After(c)
    BY <2>7 DEF TInv, CallsTypeOK, After, NextProvider, Return, MoveTo
  <2>8. CASE Sleep(c)
    BY <2>8 DEF TInv, CallsTypeOK, Sleep, Attempt, Return, MoveTo
  <2>9. CASE ChargeCall(c)
    BY <2>9 DEF TInv, CallsTypeOK, ChargeCall, MoveTo
  <2>10. CASE Cancel(c)
    BY <2>10 DEF TInv, CallsTypeOK, Cancel, calling
  <2> QED
    BY <2>1, <2>2, <2>3, <2>4, <2>5, <2>6, <2>7, <2>8, <2>9, <2>10 DEF Step
<1>2. (PaintAt(d) => PaintAt(d)') /\ (BillAt(d) => BillAt(d)')
  BY <1>1 DEF PaintAt, BillAt, Billable, Streaming, Text
<1> QED
  BY <1>1, <1>2

\* A call that hands over a response: it owes what that response says.
LEMMA Returns ==
  ASSUME TInv, TInv', NEW c \in Callers, NEW r \in Responses, Return(c, r),
         UNCHANGED <<walk, painted>>,
         Streaming(c) => painted[c] = r.text,
         ~Streaming(c) => painted[c] = <<>> /\ (~r.ok => r.usd = 0)
  PROVE  PaintAt(c)' /\ BillAt(c)'
<1>1. /\ stage'[c] = "charge" /\ resp'[c] = r
      /\ walk'[c] = walk[c] /\ painted'[c] = painted[c]
  BY DEF Return, MoveTo, TInv, CallsTypeOK
<1> QED
  BY <1>1 DEF PaintAt, BillAt, Billable, Streaming

LEMMA NoAnswers == NoAnswer.text = <<>> /\ NoAnswer.usd = 0 /\ NoAnswer.ok = FALSE
BY DEF NoAnswer

\* A fresh attempt after which nothing was painted.
LEMMA AttemptPaints ==
  ASSUME TInv, NEW c \in Callers, painted[c] = <<>>, Attempt(c), UNCHANGED painted
  PROVE  PaintAt(c)' /\ BillAt(c)'
<1>1. stage'[c] = "call" /\ result'[c].said = FALSE /\ painted'[c] = <<>>
  BY Attempts DEF TInv, CallsTypeOK
<1> QED
  BY <1>1 DEF PaintAt, BillAt, Text

\* The call that takes the step.
LEMMA StepPaints ==
  ASSUME WalkInv, TInv', NEW c \in Callers, Step(c)
  PROVE  PaintAt(c)' /\ BillAt(c)'
<1>0. TInv /\ PaintAt(c) /\ BillAt(c)
  BY DEF WalkInv
<1>1. CASE BeginCall(c)
  <2>1. stage[c] = "idle" /\ stage'[c] = "gate" /\ painted'[c] = painted[c]
    BY <1>0, <1>1 DEF BeginCall, MoveTo, TInv, CallsTypeOK
  <2> QED
    BY <1>0, <2>1 DEF PaintAt, BillAt
<1>2. CASE Admit(c)
  <2>1. stage[c] = "gate" /\ UNCHANGED <<walk, painted>> /\ painted[c] = <<>>
    BY <1>0, <1>2 DEF Admit, PaintAt
  <2>2. CASE MoveTo(c, "pick")
    <3>1. stage'[c] = "pick" /\ painted'[c] = <<>>
      BY <1>0, <2>1, <2>2 DEF MoveTo, TInv, CallsTypeOK
    <3> QED
      BY <3>1 DEF PaintAt, BillAt
  <2>3. CASE Return(c, NoAnswer)
    BY <1>0, <2>1, <2>3, Returns, Blank, NoAnswers
  <2> QED
    BY <1>2, <2>2, <2>3 DEF Admit
<1>3. CASE Pick(c)
  <2>1. stage[c] = "pick" /\ UNCHANGED painted /\ painted[c] = <<>>
    BY <1>0, <1>3 DEF Pick, PaintAt
  <2>2. CASE Attempt(c)
    BY <1>0, <2>1, <2>2, AttemptPaints
  <2>3. CASE UNCHANGED stage
    BY <2>1, <2>3 DEF PaintAt, BillAt
  <2>4. CASE Return(c, NoAnswer) /\ UNCHANGED walk
    BY <1>0, <2>1, <2>4, Returns, Blank, NoAnswers
  <2> QED
    BY <1>3, <2>2, <2>3, <2>4 DEF Pick
<1>4. CASE Say(c)
  <2>1. /\ stage'[c] = "call" /\ Streaming(c) /\ ~result[c].said /\ walk'[c] = walk[c]
        /\ result'[c].said = TRUE /\ result'[c].n = result[c].n
    BY <1>0, <1>4 DEF Say, TInv, CallsTypeOK, Results
  <2>2. painted[c] = <<>>
    BY <1>0, <1>4, <2>1 DEF Say, PaintAt, Text
  <2>3. painted'[c] = <<result[c].n>>
    BY <1>0, <1>4, <2>1, <2>2 DEF Say, Forward, Committed, TInv, CallsTypeOK
  <2> QED
    BY <2>1, <2>3 DEF PaintAt, BillAt, Text, Streaming
<1>5. CASE Finish(c)
  <2>1. PICK end \in {"ok", "fault", "terminal"}, usd \in Prices \cup {0}, more \in BOOLEAN :
          /\ more => end = "ok" /\ ~result[c].said
          /\ result' = [result EXCEPT ![c].end = end, ![c].usd = usd, ![c].said = @ \/ more]
          /\ IF more THEN Forward(c) ELSE UNCHANGED painted
    BY <1>5 DEF Finish
  <2>2. /\ stage[c] = "call" /\ stage'[c] = "heard" /\ walk'[c] = walk[c]
        /\ result'[c].said = (result[c].said \/ more) /\ result'[c].n = result[c].n
    BY <1>0, <1>5, <2>1 DEF Finish, MoveTo, TInv, CallsTypeOK, Results
  <2>3. CASE Streaming(c)
    <3>1. painted[c] = Text(c)
      BY <1>0, <2>2, <2>3 DEF PaintAt
    <3>2. CASE more
      <4>1. painted[c] = <<>> /\ ~result[c].said
        BY <2>1, <3>1, <3>2 DEF Text
      <4>2. painted'[c] = <<result[c].n>>
        BY <1>0, <2>1, <2>3, <3>2, <4>1 DEF Forward, Committed, TInv, CallsTypeOK
      <4> QED
        BY <2>2, <2>3, <3>2, <4>2 DEF PaintAt, BillAt, Text, Streaming
    <3>3. CASE ~more
      <4>1. painted'[c] = painted[c] /\ result'[c].said = result[c].said
        BY <1>0, <2>1, <2>2, <3>3, Fields DEF TInv
      <4> QED
        BY <2>2, <2>3, <3>1, <4>1 DEF PaintAt, BillAt, Text, Streaming
    <3> QED
      BY <3>2, <3>3
  <2>4. CASE ~Streaming(c)
    <3>1. painted'[c] = <<>>
      BY <1>0, <2>1, <2>4 DEF PaintAt, Forward
    <3> QED
      BY <2>2, <2>4, <3>1 DEF PaintAt, BillAt, Streaming
  <2> QED
    BY <2>3, <2>4
<1>6. CASE Hear(c)
  <2>1. /\ stage[c] = "heard" /\ UNCHANGED <<walk, result, painted>>
        /\ Streaming(c) => painted[c] = Text(c)
        /\ ~Streaming(c) => painted[c] = <<>>
    BY <1>0, <1>6 DEF Hear, PaintAt
  <2>2. /\ Answer(c).ok /\ Answer(c).text = Text(c)
        /\ Streaming(c) => Partial(c).text = Text(c)
        /\ ~Streaming(c) => Partial(c) = NoAnswer
    BY DEF Answer, Partial
  <2>3. CASE Return(c, Answer(c))
    BY <1>0, <2>1, <2>2, <2>3, Returned, Returns
  <2>4. CASE Return(c, NoAnswer) /\ ~Committed(c)
    <3>1. painted[c] = <<>>
      BY <2>4 DEF Committed
    <3> QED
      BY <1>0, <2>1, <2>4, <3>1, Blank, Returns, NoAnswers
  <2>5. CASE Return(c, Partial(c))
    BY <1>0, <2>1, <2>2, <2>5, Returned, Returns, NoAnswers
  <2>6. CASE MoveTo(c, "after")
    <3>1. stage'[c] = "after" /\ walk'[c] = walk[c] /\ result'[c] = result[c]
          /\ painted'[c] = painted[c]
      BY <1>0, <2>1, <2>6 DEF MoveTo, TInv, CallsTypeOK
    <3> QED
      BY <2>1, <3>1 DEF PaintAt, BillAt, Text, Streaming
  <2> QED
    BY <1>6, <2>3, <2>4, <2>5, <2>6 DEF Hear
<1>7. CASE After(c)
  <2>1. /\ stage[c] = "after" /\ UNCHANGED <<result, painted>>
        /\ Streaming(c) => painted[c] = Text(c)
        /\ ~Streaming(c) => painted[c] = <<>>
        /\ ~Final(c) => painted[c] = <<>>
    BY <1>0, <1>7 DEF After, PaintAt, Final, Committed
  <2>2. CASE Final(c) /\ Return(c, Partial(c)) /\ UNCHANGED walk
    <3>1. Streaming(c) /\ Partial(c).text = Text(c)
      BY <2>2 DEF Final, Partial
    <3> QED
      BY <1>0, <2>1, <2>2, <3>1, Returned, Returns
  <2>3. CASE ~Final(c) /\ Return(c, NoAnswer) /\ UNCHANGED walk
    BY <1>0, <2>1, <2>3, Blank, Returns, NoAnswers
  <2>4. CASE ~Final(c) /\ \E l \in {"pick", "sleep"} : MoveTo(c, l)
    <3>1. stage'[c] \in {"pick", "sleep"} /\ painted'[c] = <<>>
      BY <1>0, <2>1, <2>4 DEF MoveTo, TInv, CallsTypeOK
    <3> QED
      BY <3>1 DEF PaintAt, BillAt
  <2> QED
    BY <1>7, <2>2, <2>3, <2>4 DEF After, NextProvider
<1>8. CASE Sleep(c)
  <2>1. stage[c] = "sleep" /\ UNCHANGED painted /\ painted[c] = <<>>
    BY <1>0, <1>8 DEF Sleep, PaintAt
  <2>2. CASE Attempt(c)
    BY <1>0, <2>1, <2>2, AttemptPaints
  <2>3. CASE Return(c, NoAnswer) /\ UNCHANGED walk
    BY <1>0, <2>1, <2>3, Returns, Blank, NoAnswers
  <2> QED
    BY <1>8, <2>2, <2>3 DEF Sleep
<1>9. CASE ChargeCall(c)
  <2>1. stage'[c] = "idle" /\ painted'[c] = <<>>
    BY <1>0, <1>9 DEF ChargeCall, MoveTo, TInv, CallsTypeOK
  <2> QED
    BY <2>1 DEF PaintAt, BillAt
<1>10. CASE Cancel(c)
  BY <1>0, <1>10 DEF Cancel, calling, PaintAt, BillAt, Billable, Streaming, Text
<1> QED
  BY <1>1, <1>2, <1>3, <1>4, <1>5, <1>6, <1>7, <1>8, <1>9, <1>10 DEF Step

LEMMA InitWalkInv == CallsInit => WalkInv
<1> SUFFICES ASSUME CallsInit PROVE WalkInv
  OBVIOUS
<1>1. \A c \in Callers : stage[c] = "idle" /\ painted[c] = <<>>
  BY DEF CallsInit
<1>2. \A c \in Callers : PaintAt(c) /\ BillAt(c)
  BY <1>1 DEF PaintAt, BillAt
<1> QED
  BY <1>2, InitTInv DEF WalkInv

LEMMA StepWalkInv == ASSUME WalkInv, [CallsNext]_callsVars PROVE WalkInv'
<1>1. TInv /\ TInv'
  BY CallStepT DEF WalkInv
<1>2. ASSUME NEW c \in Callers, Step(c) PROVE \A d \in Callers : PaintAt(d)' /\ BillAt(d)'
  <2>1. ASSUME NEW d \in Callers \ {c} PROVE PaintAt(d)' /\ BillAt(d)'
    BY <1>1, <1>2, <2>1, OthersStay DEF WalkInv
  <2> QED
    BY <1>1, <1>2, <2>1, StepPaints
<1>3. CASE Tick \/ UNCHANGED callsVars
  <2>1. UNCHANGED <<stage, walk, result, painted, resp>>
    BY <1>3 DEF Tick, callsVars, calling
  <2>2. ASSUME NEW c \in Callers PROVE PaintAt(c)' /\ BillAt(c)'
    BY <2>1 DEF WalkInv, PaintAt, BillAt, Billable, Streaming, Text
  <2> QED
    BY <1>1, <2>2 DEF WalkInv
<1> QED
  BY <1>1, <1>2, <1>3 DEF WalkInv, CallsNext

-----------------------------------------------------------------------------
(* Model calls: the ledger.                                                 *)

LEMMA InitLedger == CallsInit => LedgerIsExact
<1> SUFFICES ASSUME CallsInit PROVE LedgerIsExact
  OBVIOUS
<1>1. \A c \in Callers : spent[c] = 0 /\ produced[c] = 0 /\ refused[c] = 0
  BY DEF CallsInit
<1>2. total = 0 /\ spent \in [Callers -> Nat]
  BY DEF CallsInit
<1>3. SumFunction(spent) = 0
  BY <1>1, <1>2, CallsAssumption, SumOfNothing
<1>4. TaskCeiling \in Nat /\ GlobalCeiling \in Nat
  BY CallsAssumption
<1> QED
  BY <1>1, <1>2, <1>3, <1>4 DEF LedgerIsExact

\* A charge is recorded, refused, or is of a response that has cost nothing.
LEMMA ChargeLedger ==
  ASSUME WalkInv, WalkInv', LedgerIsExact, NEW c \in Callers, ChargeCall(c)
  PROVE  LedgerIsExact'
<1> DEFINE usd == resp[c].usd
<1>1. /\ usd \in Nat /\ total \in Nat
      /\ spent \in [Callers -> Nat] /\ refused \in [Callers -> Nat] /\ produced \in [Callers -> Nat]
      /\ TaskCeiling \in Nat /\ GlobalCeiling \in Nat
  BY Fields, CallsAssumption DEF WalkInv, TInv, CallsTypeOK
<1>2. /\ stage[c] = "charge" /\ produced' = [produced EXCEPT ![c] = @ + usd]
      /\ ~Billable(c) => usd = 0
  BY DEF ChargeCall, WalkInv, BillAt
<1>3. CASE /\ Affords(c, usd) /\ spent' = [spent EXCEPT ![c] = @ + usd] /\ total' = total + usd
           /\ UNCHANGED refused
  <2>1. /\ spent' \in [Callers -> Nat] /\ spent'[c] = spent[c] + usd
        /\ \A d \in Callers \ {c} : spent'[d] = spent[d]
    BY <1>1, <1>3
  <2>2. SumFunction(spent') - spent'[c] = SumFunction(spent) - spent[c]
    BY <1>1, <2>1, CallsAssumption, SumAt
  <2>3. SumFunction(spent') \in Nat /\ SumFunction(spent) \in Nat
    BY <1>1, <2>1, CallsAssumption, SumIsNat
  <2>4. total' = SumFunction(spent')
    BY <1>1, <1>3, <2>1, <2>2, <2>3 DEF LedgerIsExact
  <2>5. \A d \in Callers : produced'[d] = spent'[d] + refused'[d]
    BY <1>1, <1>2, <1>3, <2>1 DEF LedgerIsExact
  <2>6. \A d \in Callers : TaskCeiling > 0 => spent'[d] <= TaskCeiling
    BY <1>1, <1>3, <2>1 DEF LedgerIsExact, Affords
  <2>7. GlobalCeiling > 0 => total' <= GlobalCeiling
    BY <1>1, <1>3 DEF LedgerIsExact, Affords
  <2> QED
    BY <2>4, <2>5, <2>6, <2>7 DEF LedgerIsExact
<1>4. CASE refused' = [refused EXCEPT ![c] = @ + usd] /\ UNCHANGED <<spent, total>>
  <2>1. /\ refused'[c] = refused[c] + usd /\ produced'[c] = produced[c] + usd
        /\ \A d \in Callers \ {c} : refused'[d] = refused[d] /\ produced'[d] = produced[d]
    BY <1>1, <1>2, <1>4
  <2>2. \A d \in Callers : produced'[d] = spent'[d] + refused'[d]
    BY <1>1, <1>4, <2>1 DEF LedgerIsExact
  <2> QED
    BY <1>4, <2>2 DEF LedgerIsExact
<1>5. CASE ~Billable(c) /\ UNCHANGED <<spent, total, refused>>
  BY <1>1, <1>2, <1>5 DEF LedgerIsExact
<1> QED
  BY <1>3, <1>4, <1>5 DEF ChargeCall, chargeCtxDone

LEMMA StepLedger ==
  ASSUME WalkInv, WalkInv', LedgerIsExact, [CallsNext]_callsVars
  PROVE  LedgerIsExact'
<1>1. ASSUME NEW c \in Callers, Step(c), ~ChargeCall(c) PROVE UNCHANGED ledger
  BY <1>1 DEF Step, BeginCall, Admit, Pick, Say, Finish, Hear, After, Sleep, Cancel
<1>2. CASE Tick \/ UNCHANGED callsVars
  BY <1>2 DEF Tick, callsVars, ledger, LedgerIsExact
<1>3. CASE UNCHANGED ledger
  BY <1>3 DEF ledger, LedgerIsExact
<1> QED
  BY <1>1, <1>2, <1>3, ChargeLedger DEF CallsNext

-----------------------------------------------------------------------------
(* Model calls: the breakers.                                               *)

\* Live calls that failed at a provider and have not told its breaker yet.
Unheard(i) ==
  {c \in Callers : stage[c] = "heard" /\ walk[c].at = i /\ result[c].end # "ok" /\ ~cancelled[c]}

\* While a provider has had fewer faults than its threshold, its breaker has counted no more
\* than the faults it was told of.
Counted(i) == faults[i] < Threshold => failures[i] + Cardinality(Unheard(i)) <= faults[i]

BreakersLag == \A i \in Providers : Counted(i)

LEMMA UnheardFinite ==
  \A i : IsFiniteSet(Unheard(i)) /\ Cardinality(Unheard(i)) \in Nat
BY CallsAssumption, FS_Subset, FS_CardinalityType DEF Unheard

\* Nobody joins those who wait.
LEMMA FewerUnheard ==
  ASSUME TInv, TInv', NEW i \in Providers, Counted(i), Unheard(i)' \subseteq Unheard(i),
         faults'[i] = faults[i], failures'[i] <= failures[i]
  PROVE  Counted(i)'
<1>1. Cardinality(Unheard(i)') <= Cardinality(Unheard(i))
  BY UnheardFinite, FS_Subset
<1>2. Cardinality(Unheard(i)') \in Nat /\ Cardinality(Unheard(i)) \in Nat
  <2>1. IsFiniteSet(Unheard(i)')
    BY UnheardFinite, FS_Subset
  <2> QED
    BY <2>1, UnheardFinite, FS_CardinalityType
<1>3. /\ faults[i] \in Nat /\ failures[i] \in Nat /\ failures'[i] \in Nat /\ Threshold \in Nat
  BY CallsAssumption DEF TInv, CallsTypeOK
<1> QED
  BY <1>1, <1>2, <1>3 DEF Counted

LEMMA FinishCounts ==
  ASSUME TInv, TInv', NEW c \in Callers, Finish(c), NEW i \in Providers, Counted(i)
  PROVE  Counted(i)'
<1>1. PICK end \in {"ok", "fault", "terminal"}, usd \in Prices \cup {0}, more \in BOOLEAN :
        /\ result' = [result EXCEPT ![c].end = end, ![c].usd = usd, ![c].said = @ \/ more]
        /\ faults' = IF end # "ok" /\ ~cancelled[c]
                     THEN [faults EXCEPT ![walk[c].at] = Least(@ + 1, Threshold)] ELSE faults
  BY DEF Finish
<1>2. /\ stage[c] = "call" /\ stage' = [stage EXCEPT ![c] = "heard"]
      /\ UNCHANGED <<walk, cancelled, failures>>
  BY DEF Finish, MoveTo, breakers
<1>3. /\ result'[c].end = end
      /\ \A d \in Callers \ {c} : result'[d] = result[d] /\ stage'[d] = stage[d]
      /\ stage'[c] = "heard" /\ c \notin Unheard(i)
  BY <1>1, <1>2 DEF TInv, CallsTypeOK, Results, Unheard
<1>4. CASE end # "ok" /\ ~cancelled[c] /\ walk[c].at = i
  <2>1. Unheard(i)' = Unheard(i) \union {c}
    BY <1>2, <1>3, <1>4 DEF Unheard
  <2>2. Cardinality(Unheard(i)') = Cardinality(Unheard(i)) + 1
    BY <1>3, <2>1, UnheardFinite, FS_AddElement
  <2>3. /\ faults[i] \in Nat /\ failures[i] \in Nat /\ Threshold \in Nat
        /\ Cardinality(Unheard(i)) \in Nat
    <3>1. faults[i] \in Nat /\ failures[i] \in Nat /\ Threshold \in Nat
      BY CallsAssumption DEF TInv, CallsTypeOK
    <3> QED
      BY <3>1, UnheardFinite
  <2>4. faults'[i] = Least(faults[i] + 1, Threshold)
    BY <1>1, <1>4 DEF TInv, CallsTypeOK
  <2>5. faults'[i] < Threshold => faults'[i] = faults[i] + 1
    BY <2>3, <2>4 DEF Least
  <2> QED
    BY <1>2, <2>2, <2>3, <2>5 DEF Counted
<1>5. CASE ~(end # "ok" /\ ~cancelled[c] /\ walk[c].at = i)
  <2>1. Unheard(i)' \subseteq Unheard(i)
    BY <1>2, <1>3, <1>5 DEF Unheard
  <2>2. faults'[i] = faults[i]
    BY <1>1, <1>5 DEF TInv, CallsTypeOK
  <2>3. failures'[i] = failures[i] /\ failures[i] \in Nat
    BY <1>2 DEF TInv, CallsTypeOK
  <2> QED
    BY <2>1, <2>2, <2>3, FewerUnheard
<1> QED
  BY <1>4, <1>5

LEMMA HearCounts ==
  ASSUME TInv, TInv', NEW c \in Callers, Hear(c), NEW i \in Providers, Counted(i)
  PROVE  Counted(i)'
<1>1. /\ stage[c] = "heard" /\ walk[c].at \in Providers /\ stage'[c] # "heard"
      /\ \A d \in Callers \ {c} : stage'[d] = stage[d]
      /\ UNCHANGED <<walk, result, cancelled, faults>>
  BY DEF Hear, Return, MoveTo, TInv, AtProvider, CallsTypeOK
<1>2. Unheard(i)' = Unheard(i) \ {c}
  BY <1>1 DEF Unheard
<1>3. failures[i] \in Nat /\ faults[i] \in Nat /\ Threshold \in Nat
  BY CallsAssumption DEF TInv, CallsTypeOK
<1>4. CASE /\ result[c].end # "ok" /\ ~Interrupted(c) /\ walk[c].at = i
           /\ recordFailure(walk[c].at)
  <2>1. c \in Unheard(i)
    BY <1>1, <1>4 DEF Unheard, Interrupted
  <2>2. Cardinality(Unheard(i)') = Cardinality(Unheard(i)) - 1
    BY <1>2, <2>1, UnheardFinite, FS_RemoveElement
  <2>3. failures'[i] = failures[i] + 1
    BY <1>4 DEF recordFailure, TInv, CallsTypeOK
  <2>4. Cardinality(Unheard(i)) \in Nat
    BY UnheardFinite
  <2> QED
    BY <1>1, <1>3, <2>2, <2>3, <2>4 DEF Counted
<1>5. CASE \/ recordSuccess(walk[c].at) \/ UNCHANGED breakers
           \/ walk[c].at # i /\ recordFailure(walk[c].at)
  <2>1. failures'[i] <= failures[i]
    <3>1. failures \in [Providers -> Nat]
      BY DEF TInv, CallsTypeOK
    <3>2. CASE recordSuccess(walk[c].at)
      BY <1>1, <1>3, <3>1, <3>2 DEF recordSuccess
    <3>3. CASE walk[c].at # i /\ recordFailure(walk[c].at)
      BY <1>1, <1>3, <3>1, <3>3 DEF recordFailure
    <3>4. CASE UNCHANGED breakers
      BY <1>3, <3>4 DEF breakers
    <3> QED
      BY <1>5, <3>2, <3>3, <3>4
  <2> QED
    BY <1>1, <1>2, <2>1, FewerUnheard
<1> QED
  BY <1>4, <1>5 DEF Hear

\* Every other step of a call leaves the breakers alone, and the call waits for none after it.
LEMMA QuietCounts ==
  ASSUME TInv, TInv', NEW c \in Callers, Step(c), ~Finish(c), ~Hear(c),
         NEW i \in Providers, Counted(i)
  PROVE  Counted(i)'
<1>1. UNCHANGED <<failures, faults>>
  BY DEF Step, BeginCall, Admit, Pick, Say, After, Sleep, ChargeCall, Cancel, breakers
<1>2. \/ stage'[c] # "heard"
      \/ UNCHANGED <<stage, walk, result>> /\ cancelled'[c]
  <2>1. CASE BeginCall(c) \/ Admit(c) \/ After(c) \/ Sleep(c) \/ ChargeCall(c)
    BY <2>1 DEF BeginCall, Admit, After, NextProvider, Sleep, Attempt, ChargeCall, Return, MoveTo,
                TInv, CallsTypeOK
  <2>2. CASE Pick(c) \/ Say(c)
    BY <2>2 DEF Pick, Say, Attempt, Return, MoveTo, TInv, CallsTypeOK
  <2>3. CASE Cancel(c)
    BY <2>3 DEF Cancel, calling, TInv, CallsTypeOK
  <2> QED
    BY <2>1, <2>2, <2>3 DEF Step
<1>3. c \notin Unheard(i)'
  BY <1>2 DEF Unheard
<1>4. \A d \in Callers \ {c} : d \in Unheard(i)' => d \in Unheard(i)
  BY OthersStay DEF Unheard
<1>5. Unheard(i)' \subseteq Unheard(i)
  BY <1>3, <1>4 DEF Unheard
<1>6. failures[i] \in Nat
  BY DEF TInv, CallsTypeOK
<1> QED
  BY <1>1, <1>5, <1>6, FewerUnheard

LEMMA InitBreakers == CallsInit => BreakersLag
<1> SUFFICES ASSUME CallsInit, NEW i \in Providers PROVE Counted(i)
  BY DEF BreakersLag
<1>1. Unheard(i) = {}
  BY DEF Unheard, CallsInit
<1>2. failures[i] = 0 /\ faults[i] = 0
  BY DEF CallsInit
<1> QED
  BY <1>1, <1>2, FS_EmptySet DEF Counted

LEMMA StepBreakers ==
  ASSUME TInv, TInv', BreakersLag, [CallsNext]_callsVars
  PROVE  BreakersLag'
<1> SUFFICES ASSUME NEW i \in Providers PROVE Counted(i)'
  BY DEF BreakersLag
<1>0. Counted(i)
  BY DEF BreakersLag
<1>1. ASSUME NEW c \in Callers, Step(c) PROVE Counted(i)'
  BY <1>0, <1>1, FinishCounts, HearCounts, QuietCounts
<1>2. CASE Tick \/ UNCHANGED callsVars
  BY <1>0, <1>2 DEF Tick, callsVars, calling, breakers, Counted, Unheard
<1> QED
  BY <1>1, <1>2 DEF CallsNext

-----------------------------------------------------------------------------
(* The theorems about model calls.                                          *)

\* Every reachable state of the model calls has its type.
THEOREM CallsTypeCorrect == CallsSpec => []CallsTypeOK
<1>1. TInv => CallsTypeOK
  BY DEF TInv
<1> QED
  BY InitTInv, CallStepT, <1>1, PTL DEF CallsSpec

\* What a stream returns is what was painted on the way, through retries, failover, faults in
\* the middle and a cancellation at any instant.
THEOREM PaintedReturned == CallsSpec => []PaintedIsReturned
<1>1. WalkInv => PaintedIsReturned
  BY DEF WalkInv, PaintAt, PaintedIsReturned
<1> QED
  BY InitWalkInv, StepWalkInv, <1>1, PTL DEF CallsSpec

\* A cancelled call never opens a breaker, whenever the cancellation meets the end of the
\* attempt.
THEOREM CancelsAreNoFaults == CallsSpec => []CancelsDontTrip
<1>1. TInv /\ BreakersLag => CancelsDontTrip
  <2> SUFFICES ASSUME TInv, BreakersLag, NEW i \in Providers, faults[i] < Threshold
               PROVE  allow(i)
    BY DEF CancelsDontTrip
  <2>1. /\ failures[i] \in Nat /\ faults[i] \in Nat /\ Threshold \in Nat
        /\ Cardinality(Unheard(i)) \in Nat
    BY CallsAssumption, UnheardFinite DEF TInv, CallsTypeOK
  <2>2. failures[i] + Cardinality(Unheard(i)) <= faults[i]
    BY DEF BreakersLag, Counted
  <2> QED
    BY <2>1, <2>2 DEF allow
<1> QED
  BY InitTInv, CallStepT, InitBreakers, StepBreakers, <1>1, PTL DEF CallsSpec

\* What the meters were handed is recorded or met a ceiling, and the tasks add up.
THEOREM LedgerKept == CallsSpec => []LedgerIsExact
BY InitWalkInv, StepWalkInv, InitLedger, StepLedger, PTL DEF CallsSpec

=============================================================================
