------------------------------ MODULE Approval ------------------------------
(***************************************************************************)
(* Graded approval (internal/graapprove) over the shared blast meter        *)
(* (internal/blastbudget): a gated action passes without a human when its   *)
(* class has earned trust and the day's rate, the run's irreversible slots  *)
(* and the day's dollars all have room; else what was taken is given back   *)
(* and the human decides.                                                   *)
(*                                                                         *)
(* Decisions run concurrently, each through one of the approvers of the     *)
(* process: serve builds one for every conversation thread, and all share   *)
(* the blast meter and the log.  One class of action is modelled, over      *)
(* several scope families.  The kill-switch, the scope gates and the        *)
(* recency of the trust deny before anything is taken: they are part of the *)
(* choice to begin.                                                         *)
(***************************************************************************)
EXTENDS Integers, FiniteSets, Functions

CONSTANTS
  Deciders,      \* concurrent gate calls
  None,          \* no decision; a window that is not seeded yet
  Approvers,     \* GradedApprovers of a process
  Families,      \* scope families (trustScope)
  MinSuccesses, MinSample,  \* the trust bar of the clause
  MaxPerDay,     \* rate of the clause; 0 is uncapped
  MaxDollarsDay, \* dollar ceiling of the clause; 0 admits only what costs nothing
  IrrevCeiling,  \* irreversible slots of a run; 0 is unlimited
  DayCeiling,    \* blast dollars of a day; 0 is unlimited
  Costs,         \* what one action may cost (perActionCost)
  Days,          \* days that pass (bound)
  MaxRuns,       \* processes, one after the other (bound)
  MaxLost,       \* log lines of approvals that are not written (bound)
  MaxOutcomes    \* boundary outcomes logged of a family (bound)

ASSUME ApprovalAssumption ==
  /\ IsFiniteSet(Deciders) /\ IsFiniteSet(Approvers) /\ IsFiniteSet(Families)
  /\ {MinSuccesses, MinSample, MaxPerDay, MaxDollarsDay, IrrevCeiling, DayCeiling} \subseteq Nat
  /\ Costs \subseteq Nat
  /\ Days \in Nat \ {0} /\ MaxRuns \in Nat \ {0} /\ {MaxLost, MaxOutcomes} \subseteq Nat

Calls == [by : Approvers, fam : Families, usd : Costs, day : 1 .. Days]

ASSUME NoneAssumption == None \notin Nat /\ None \notin Calls

VARIABLES
  pc,            \* each decision: where it stands
  of,            \* its approver, the family of its scope, its dollars, the day it began on
  clock,         \* today
  outcomes,      \* the log: boundary outcomes of a family, and those that passed
  approvals,     \* the log: auto_approve lines of a family and a day, and their dollars
  rateCount,     \* each approver: slots of a window, or not seeded yet
  dollarsDay,    \* each approver: dollars of a window, or not seeded yet
  irrev,         \* blast meter: irreversible slots of this run
  blastDay,      \* blast meter: dollars of each day
  runs,          \* the process this is
  granted,       \* history: approvals by the window they were decided in, and their dollars
  strays,        \* history: those of them that were logged on a later day
  missing,       \* history: those whose line was not written
  split,         \* history: windows that two approvers of one process counted
  unfenced,      \* history: days of which a new meter recorded less than the log has
  ofRun          \* history: approvals of this process

decision == <<pc, of>>
counters == <<rateCount, dollarsDay, irrev, blastDay>>
log      == <<outcomes, approvals>>
world    == <<clock, runs>>
history  == <<granted, strays, missing, split, unfenced, ofRun>>
vars     == <<decision, counters, world, log, history>>

Windows == Families \X (1 .. Days)

NoGrants == [w \in Windows |-> [lines |-> 0, usd |-> 0]]

NoWindows == [a \in Approvers |-> [w \in Windows |-> None]]

Init ==
  /\ pc = [d \in Deciders |-> "idle"]
  /\ of = [d \in Deciders |-> None]
  /\ clock = 1 /\ runs = 1
  /\ outcomes = [f \in Families |-> [total |-> 0, green |-> 0]]
  /\ approvals = NoGrants /\ granted = NoGrants
  /\ strays = [w \in Windows |-> 0] /\ missing = [w \in Windows |-> 0]
  /\ split = {} /\ unfenced = {} /\ ofRun = 0
  /\ rateCount = NoWindows /\ dollarsDay = NoWindows
  /\ irrev = 0 /\ blastDay = [n \in 1 .. Days |-> 0]

Goto(d, l) == pc' = [pc EXCEPT ![d] = l]

Ends(d) == pc' = [pc EXCEPT ![d] = "idle"] /\ of' = [of EXCEPT ![d] = None]

Window(d) == <<of[d].fam, of[d].day>>

With(counts, w, c) == [counts EXCEPT ![w] = [lines |-> @.lines + 1, usd |-> @.usd + c]]

-----------------------------------------------------------------------------
(* What is folded from the log.                                             *)

\* Mutant: the windows of a new process start empty.
countAutoApprovalsToday_Empty(w) == 0

countAutoApprovalsToday(w) == approvals[w].lines

sumAutoApprovalDollarsToday(w) == approvals[w].usd

\* Approvals earn nothing: only boundary outcomes do, and only those that passed.
Trusted(f) == outcomes[f].green >= MinSuccesses /\ outcomes[f].total >= MinSample

-----------------------------------------------------------------------------
(* ApproveStructured.                                                       *)

\* The clock is read once for the whole decision.
Begin(d) ==
  /\ pc[d] = "idle"
  /\ \E a \in Approvers, f \in Families, c \in Costs :
       /\ Trusted(f)
       /\ of' = [of EXCEPT ![d] = [by |-> a, fam |-> f, usd |-> c, day |-> clock]]
  /\ Goto(d, "rate")
  /\ UNCHANGED <<counters, world, log, history>>

\* History: the windows of which two approvers keep a count.
Shared(counts) ==
  {w \in Windows : \E a, b \in Approvers : a # b /\ None \notin {counts[a][w], counts[b][w]}}

\* reserveRate, under rateMu: seed the window once, then take a slot if there is one. A
\* log that cannot be read denies.
Rate(d) ==
  LET a   == of[d].by
      w   == Window(d)
      cur == IF rateCount[a][w] = None THEN countAutoApprovalsToday(w) ELSE rateCount[a][w]
  IN  /\ pc[d] = "rate"
      /\ \/ MaxPerDay = 0 /\ Goto(d, "fence") /\ UNCHANGED <<of, rateCount>>
         \/ /\ MaxPerDay > 0 /\ cur < MaxPerDay
            /\ rateCount' = [rateCount EXCEPT ![a][w] = cur + 1]
            /\ Goto(d, "fence") /\ UNCHANGED of
         \/ /\ MaxPerDay > 0 /\ cur >= MaxPerDay
            /\ rateCount' = [rateCount EXCEPT ![a][w] = cur]
            /\ Ends(d)
         \/ MaxPerDay > 0 /\ rateCount[a][w] = None /\ Ends(d) /\ UNCHANGED rateCount
      /\ split' = split \union Shared(rateCount')
      /\ UNCHANGED <<dollarsDay, irrev, blastDay, world, log,
                     granted, strays, missing, unfenced, ofRun>>

\* Mutant: a full meter still admits one more.
HasSlot_OneMore == IrrevCeiling = 0 \/ irrev <= IrrevCeiling

HasSlot == IrrevCeiling = 0 \/ irrev + 1 <= IrrevCeiling

\* ChargeIrreversible.
Fence(d) ==
  /\ pc[d] = "fence"
  /\ \/ HasSlot /\ irrev' = irrev + 1 /\ Goto(d, "dollars")
     \/ ~HasSlot /\ Goto(d, "release") /\ UNCHANGED irrev
  /\ UNCHANGED <<of, rateCount, dollarsDay, blastDay, world, log, history>>

Fits(total, n, c) ==
  /\ IF MaxDollarsDay = 0 THEN c = 0 ELSE total + c <= MaxDollarsDay
  /\ DayCeiling = 0 \/ blastDay[n] + c <= DayCeiling

\* chargeDay, under rateMu: the clause first, then the blast meter; only a charge both
\* admit is kept.
Charge(d) ==
  LET a     == of[d].by
      w     == Window(d)
      n     == of[d].day
      total == IF dollarsDay[a][w] = None THEN sumAutoApprovalDollarsToday(w)
                                              ELSE dollarsDay[a][w]
      fits  == Fits(total, n, of[d].usd)
  IN  /\ pc[d] = "dollars"
      /\ \/ /\ fits
            /\ dollarsDay' = [dollarsDay EXCEPT ![a][w] = total + of[d].usd]
            /\ blastDay' = [blastDay EXCEPT ![n] = @ + of[d].usd]
            /\ Goto(d, "emit")
         \/ /\ ~fits
            /\ dollarsDay' = [dollarsDay EXCEPT ![a][w] = total]
            /\ Goto(d, "credit") /\ UNCHANGED blastDay
         \/ /\ dollarsDay[a][w] = None
            /\ Goto(d, "credit") /\ UNCHANGED <<dollarsDay, blastDay>>
      /\ UNCHANGED <<of, rateCount, irrev, world, log, history>>

\* CreditIrreversible, clamped at zero.
Credit(d) ==
  /\ pc[d] = "credit"
  /\ irrev' = IF irrev > 0 THEN irrev - 1 ELSE 0
  /\ Goto(d, "release")
  /\ UNCHANGED <<of, rateCount, dollarsDay, blastDay, world, log, history>>

\* Mutant: the slot of a denied action is not given back.
Freed_Kept(n) == n

Freed(n) == IF n # None /\ n > 0 THEN n - 1 ELSE n

\* releaseRate, and the human is asked.
Release(d) ==
  /\ pc[d] = "release"
  /\ rateCount' = [rateCount EXCEPT ![of[d].by][Window(d)] = Freed(@)]
  /\ Ends(d)
  /\ UNCHANGED <<dollarsDay, irrev, blastDay, world, log, history>>

\* The auto_approve line carries the time it is appended at.  Nobody is told when it could
\* not be written: the action is approved all the same.
Emit(d) ==
  LET w == Window(d) IN
  /\ pc[d] = "emit"
  /\ granted' = With(granted, w, of[d].usd)
  /\ \/ /\ approvals' = With(approvals, <<of[d].fam, clock>>, of[d].usd)
        /\ strays' = [strays EXCEPT ![w] = IF of[d].day = clock THEN @ ELSE @ + 1]
        /\ UNCHANGED missing
     \/ /\ SumFunction(missing) < MaxLost
        /\ missing' = [missing EXCEPT ![w] = @ + 1]
        /\ UNCHANGED <<approvals, strays>>
  /\ ofRun' = ofRun + 1
  /\ Ends(d)
  /\ UNCHANGED <<counters, world, outcomes, split, unfenced>>

-----------------------------------------------------------------------------
(* Around the decisions.                                                    *)

Outcome(f) ==
  /\ outcomes[f].total < MaxOutcomes
  /\ \E v \in {0, 1} :
       outcomes' = [outcomes EXCEPT ![f] = [total |-> @.total + 1, green |-> @.green + v]]
  /\ UNCHANGED <<decision, counters, world, approvals, history>>

Midnight ==
  /\ clock < Days /\ clock' = clock + 1
  /\ UNCHANGED <<decision, counters, runs, log, history>>

\* The dollars of a day, over all families.
DayDollars(lines, n) == SumFunction([f \in Families |-> lines[<<f, n>>].usd])

\* What the log says was spent today goes through the meter like any charge: over the
\* ceiling it is refused, and nothing is recorded.  If the log cannot be read to its end,
\* the day is pinned at its ceiling; if it cannot be opened, it is taken for a new one.
rebuildBlastDay ==
  LET sum == DayDollars(approvals, clock)
  IN  {IF DayCeiling = 0 \/ sum <= DayCeiling THEN sum ELSE 0, DayCeiling, 0}

\* A new process on the same log: what is in memory is gone, and the blast meter is
\* rebuilt.  (serve first renames away a log of 64 MiB, and with it the windows: not here.)
Restart ==
  /\ runs < MaxRuns /\ runs' = runs + 1
  /\ pc' = [d \in Deciders |-> "idle"] /\ of' = [d \in Deciders |-> None]
  /\ rateCount' = NoWindows /\ dollarsDay' = NoWindows
  /\ irrev' = 0
  /\ \E total \in rebuildBlastDay :
       /\ blastDay' = [n \in 1 .. Days |-> IF n = clock THEN total ELSE 0]
       /\ unfenced' = IF total < DayCeiling /\ total < DayDollars(approvals, clock)
                        THEN unfenced \union {clock} ELSE unfenced
  /\ ofRun' = 0
  /\ UNCHANGED <<clock, log, granted, strays, missing, split>>

Decide(d) ==
  \/ Begin(d) \/ Rate(d) \/ Fence(d) \/ Charge(d) \/ Credit(d) \/ Release(d) \/ Emit(d)

Next ==
  \/ \E d \in Deciders : Decide(d)
  \/ (\E f \in Families : Outcome(f)) \/ Midnight \/ Restart

Spec == Init /\ [][Next]_vars

-----------------------------------------------------------------------------
(* Properties.                                                              *)

TypeOK ==
  /\ pc \in [Deciders -> {"idle", "rate", "fence", "dollars", "credit", "release", "emit"}]
  /\ of \in [Deciders -> Calls \union {None}]
  /\ \A d \in Deciders : of[d] = None <=> pc[d] = "idle"
  /\ clock \in 1 .. Days /\ runs \in 1 .. MaxRuns
  /\ outcomes \in [Families -> [total : 0 .. MaxOutcomes, green : 0 .. MaxOutcomes]]
  /\ approvals \in [Windows -> [lines : Nat, usd : Nat]]
  /\ granted \in [Windows -> [lines : Nat, usd : Nat]]
  /\ strays \in [Windows -> Nat] /\ missing \in [Windows -> Nat] /\ ofRun \in Nat
  /\ split \subseteq Windows /\ unfenced \subseteq 1 .. Days
  /\ rateCount \in [Approvers -> [Windows -> Nat \union {None}]]
  /\ dollarsDay \in [Approvers -> [Windows -> Nat \union {None}]]
  /\ irrev \in Nat /\ blastDay \in [1 .. Days -> Nat]

\* What the counts of a window allow together.
Approving(w) == IF w \in split THEN Cardinality(Approvers) ELSE 1

\* The log has every line of the day, and no new meter started below it.
Fenced(n) == n \notin unfenced /\ \A f \in Families : missing[<<f, n>>] = 0

\* However decisions interleave and however often the process restarts on the same log, at
\* most MaxPerDay automatic approvals of one family are decided on one day
\* (graded.go:223-229, 474-491), and the dollars approved on a day, by all approvers and
\* processes together, stay within the blast ceiling (blast.go:61-66).  The ways past a
\* ceiling that the code has are left out by name: a window that two approvers of one
\* process count (split), each up to MaxPerDay; an approval whose line was not written
\* (missing); and a day of which a new meter recorded less than the log has (unfenced),
\* because the log was not opened, or because approvals of the evening before that were
\* logged past midnight take its sum over the ceiling, and the charge is refused.
CeilingsHold ==
  /\ MaxPerDay > 0 =>
       \A w \in Windows : missing[w] = 0 => granted[w].lines <= MaxPerDay * Approving(w)
  /\ DayCeiling > 0 =>
       \A n \in 1 .. Days : Fenced(n) => DayDollars(granted, n) <= DayCeiling

\* The irreversible meter counts the approvals of the run and the decisions that hold a
\* slot, exactly: none is lost between concurrent decisions, and it never passes its ceiling.
Holders == {d \in Deciders : pc[d] \in {"dollars", "credit", "emit"}}

FenceIsExact ==
  /\ irrev = Cardinality(Holders) + ofRun
  /\ IrrevCeiling > 0 => irrev <= IrrevCeiling

\* A denied action consumes nothing: once no decision is under way, a window holds no
\* more slots than the log has approvals for it, those that took their slot before
\* midnight and were logged after it, and those whose line was not written.
SlotsComeBack ==
  (\A d \in Deciders : pc[d] = "idle") =>
    \A a \in Approvers, w \in Windows :
      rateCount[a][w] # None =>
        rateCount[a][w] <= approvals[w].lines + strays[w] + missing[w]

=============================================================================
