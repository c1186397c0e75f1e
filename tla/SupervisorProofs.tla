--------------------------- MODULE SupervisorProofs ---------------------------
(***************************************************************************)
(* Proofs about one call of Integrate and about the supervised run around   *)
(* it, for any items, dependencies and orders, any command or write failing *)
(* and a cancellation or an end of the process at any instant.              *)
(*                                                                         *)
(* The call: while no rollback has failed, the commit last judged green is  *)
(* the rollback target at every step of a merge, and is the base with the   *)
(* branches reported merged.  A merge that is kept makes its own commit the *)
(* green one; every other way out of it goes back to the target.            *)
(*                                                                         *)
(* The run: whatever rolled back or failed to, HEAD and the rollback target *)
(* hold the base and every item reported merged, and nothing but the base   *)
(* and what passed workers left (CommitsHold).  A result names a commit on  *)
(* the base, and the last one of a complete call holds every kept item and  *)
(* answers for every item of the order (ResultsSay).  So what an earlier    *)
(* call had merged and this one did not reach can only be work of the base  *)
(* the run resumed from, which the tip holds too (Carried).                 *)
(***************************************************************************)
EXTENDS Supervisor, TLAPS

\* The green commit is the rollback target, and the tip until the merge is committed.
TargetIsGreen ==
  /\ step \in {"tip", "handed"} => tip = green
  /\ step \in {"contained", "merge", "failed", "abort", "commit"} => pre = green /\ tip = green
  /\ step \in {"head", "check"} => pre = green /\ tip = green \union branch[Item]
  /\ step = "undo" => pre = green

\* The strengthening.
IInv ==
  /\ CallTypeOK
  /\ step # "handed" => pos \in DOMAIN order
  /\ ~unrolled => TargetIsGreen /\ green = Reported

-----------------------------------------------------------------------------
(* The results grow by the item in turn.                                    *)

LEMMA KeptGrows ==
  ASSUME results \in Results, pos \in DOMAIN order, order \in Seq(Items),
         NEW sha \in {None} \union Commits, NEW k \in BOOLEAN,
         Record(sha, k)
  PROVE  /\ results' \in Results
         /\ Kept' = IF k THEN Kept \union {Item} ELSE Kept
<1> DEFINE r == [id |-> Item, sha |-> sha, kept |-> k]
<1>1. Item \in Items
  BY DEF Item
<1>2. r \in [id : Items, sha : {None} \union Commits, kept : BOOLEAN]
  BY <1>1
<1>3. results' = Append(results, r)
  BY DEF Record
<1>4. results' \in Results
  BY <1>2, <1>3 DEF Results
<1>5. /\ DOMAIN results' = DOMAIN results \union {Len(results) + 1}
      /\ \A i \in DOMAIN results : results'[i] = results[i] /\ i # Len(results) + 1
      /\ results'[Len(results) + 1] = r
  BY <1>2, <1>3 DEF Results
<1>6. {j \in DOMAIN results' : results'[j].kept}
        = {j \in DOMAIN results : results[j].kept}
            \union (IF k THEN {Len(results) + 1} ELSE {})
  BY <1>5
<1>7. Kept' = {results'[i].id : i \in {j \in DOMAIN results' : results'[j].kept}}
  BY DEF Kept
<1>8. ASSUME k PROVE Kept' = Kept \union {Item}
  BY <1>5, <1>6, <1>7, <1>8 DEF Kept
<1>9. ASSUME ~k PROVE Kept' = Kept
  BY <1>5, <1>6, <1>7, <1>9 DEF Kept
<1> QED
  BY <1>4, <1>8, <1>9

\* ... so what they report grows by its branch, or stays.
LEMMA ReportedGrows ==
  ASSUME results \in Results, pos \in DOMAIN order, order \in Seq(Items),
         NEW sha \in {None} \union Commits, NEW k \in BOOLEAN,
         Record(sha, k), UNCHANGED <<branch, base>>
  PROVE  Reported' = IF k THEN Reported \union branch[Item] ELSE Reported
<1>1. Kept' = IF k THEN Kept \union {Item} ELSE Kept
  BY KeptGrows
<1>2. Reported' = base \union UNION {branch[i] : i \in Kept'}
  BY DEF Reported
<1>3. CASE k
  BY <1>1, <1>2, <1>3 DEF Reported
<1>4. CASE ~k
  BY <1>1, <1>2, <1>4 DEF Reported
<1> QED
  BY <1>3, <1>4

-----------------------------------------------------------------------------
(* The ways on: a step goes on within the merge, or records and leaves it.  *)

LEMMA FaultsBounded ==
  ASSUME CallTypeOK, Ok \/ Fault
  PROVE  dead' \in BOOLEAN /\ faults' \in 0 .. MaxFaults
BY IntegratorAssumption DEF CallTypeOK, Ok, Fault, run

LEMMA GotoKeeps ==
  ASSUME IInv, step # "handed", NEW s \in Steps \ {"handed"}, Goto(s), UNCHANGED given
  PROVE  /\ results' \in Results /\ step' \in Steps
         /\ pos' \in 1 .. Len(order') + 1 /\ pos' \in DOMAIN order'
         /\ Reported' = Reported /\ Item' = Item /\ branch' = branch
BY DEF IInv, CallTypeOK, Goto, given, Reported, Kept, Item

LEMMA ReturnKeeps ==
  ASSUME IInv, step # "handed", NEW sha \in Commits, NEW k \in BOOLEAN,
         Return(sha, k), UNCHANGED given
  PROVE  /\ results' \in Results /\ step' \in {"tip", "handed"}
         /\ pos' \in 1 .. Len(order') + 1 /\ (step' # "handed" => pos' \in DOMAIN order')
         /\ Reported' = IF k THEN Reported \union branch[Item] ELSE Reported
<1>1. /\ results \in Results /\ order \in Seq(Items) /\ pos \in DOMAIN order
      /\ order' = order /\ branch' = branch /\ base' = base /\ Record(sha, k)
      /\ pos' = pos + 1 /\ step' = IF pos = Len(order) THEN "handed" ELSE "tip"
  BY DEF IInv, CallTypeOK, given, Return
<1>2. results' \in Results
  BY <1>1, KeptGrows
<1>3. Reported' = IF k THEN Reported \union branch[Item] ELSE Reported
  BY <1>1, ReportedGrows
<1>4. Len(order) \in Nat /\ DOMAIN order = 1 .. Len(order)
  BY <1>1
<1> QED
  BY <1>1, <1>2, <1>3, <1>4

LEMMA StopKeeps ==
  ASSUME IInv, step # "handed", NEW sha \in {None} \union Commits,
         Stop(sha), UNCHANGED given
  PROVE  /\ results' \in Results /\ step' = "handed"
         /\ pos' \in 1 .. Len(order') + 1
         /\ Reported' = Reported
<1>1. /\ results \in Results /\ order \in Seq(Items) /\ pos \in DOMAIN order
      /\ order' = order /\ branch' = branch /\ base' = base /\ Record(sha, FALSE)
      /\ pos' = pos /\ step' = "handed" /\ pos \in 1 .. Len(order) + 1
  BY DEF IInv, CallTypeOK, given, Stop
<1>2. results' \in Results
  BY <1>1, KeptGrows
<1>3. Reported' = Reported
  BY <1>1, ReportedGrows
<1> QED
  BY <1>1, <1>2, <1>3

-----------------------------------------------------------------------------
(* Every step keeps the invariant.                                          *)

LEMMA InitIInv == CallInit => IInv
<1> SUFFICES ASSUME CallInit PROVE IInv
  OBVIOUS
<1>1. /\ branch \in [Items -> Commits] /\ base \in Commits /\ order \in Orders /\ order # <<>>
      /\ pos = 1 /\ step = "tip" /\ tip = base /\ mid = FALSE /\ pre = base
      /\ results = <<>> /\ dead = FALSE /\ faults = 0 /\ green = base /\ unrolled = FALSE
  BY DEF CallInit
<1>2. PICK n \in 0 .. Cardinality(Items) : order \in [1 .. n -> Items]
  BY <1>1 DEF Orders
<1>3. n \in Nat /\ order \in Seq(Items) /\ Len(order) = n /\ DOMAIN order = 1 .. n
  BY <1>2
<1>4. n # 0
  BY <1>1, <1>2, <1>3
<1>5. pos \in DOMAIN order /\ pos \in 1 .. Len(order) + 1
  BY <1>1, <1>3, <1>4
<1>6. results \in Results /\ Reported = base
  BY <1>1 DEF Results, Reported, Kept
<1>7. CallTypeOK
  <2>1. step \in Steps /\ faults \in 0 .. MaxFaults
    BY <1>1, IntegratorAssumption DEF Steps
  <2>2. tip \in Commits /\ pre \in Commits /\ green \in Commits
    BY <1>1
  <2>3. mid \in BOOLEAN /\ dead \in BOOLEAN /\ unrolled \in BOOLEAN
    BY <1>1
  <2> QED
    BY <1>1, <1>3, <1>5, <1>6, <2>1, <2>2, <2>3 DEF CallTypeOK
<1> QED
  BY <1>1, <1>5, <1>6, <1>7 DEF IInv, TargetIsGreen

LEMMA ReadTipKeeps == IInv /\ ReadTip => IInv'
<1> SUFFICES ASSUME IInv, ReadTip PROVE IInv'
  OBVIOUS
<1>1. step = "tip" /\ UNCHANGED <<given, tip, mid, green, unrolled>> /\ CallTypeOK
  BY DEF ReadTip, IInv
<1>2. dead' \in BOOLEAN /\ faults' \in 0 .. MaxFaults
  BY <1>1, FaultsBounded DEF ReadTip
<1>3. CASE pre' = tip /\ Goto("contained")
  <2>1. step' = "contained" /\ "contained" \in Steps \ {"handed"}
    BY <1>3 DEF Goto, Steps
  <2>2. /\ results' \in Results /\ step' \in Steps
        /\ pos' \in 1 .. Len(order') + 1 /\ pos' \in DOMAIN order'
        /\ Reported' = Reported
    BY <1>1, <1>3, <2>1, GotoKeeps
  <2>3. ~unrolled => pre' = green' /\ tip' = green'
    BY <1>1, <1>3 DEF IInv, TargetIsGreen
  <2> QED
    BY <1>1, <1>2, <1>3, <2>1, <2>2, <2>3 DEF IInv, CallTypeOK, TargetIsGreen, given
<1>4. CASE LostTip /\ UNCHANGED pre
  <2>1. Stop(None) /\ None \in {None} \union Commits
    BY <1>4 DEF LostTip
  <2>2. /\ results' \in Results /\ step' = "handed" /\ pos' \in 1 .. Len(order') + 1
        /\ Reported' = Reported
    BY <1>1, <2>1, StopKeeps
  <2> QED
    BY <1>1, <1>2, <1>4, <2>2 DEF IInv, CallTypeOK, TargetIsGreen, given, Steps
<1> QED
  BY <1>3, <1>4 DEF ReadTip

LEMMA ContainedKeeps == IInv /\ Contained => IInv'
<1> SUFFICES ASSUME IInv, Contained PROVE IInv'
  OBVIOUS
<1>1. step = "contained" /\ UNCHANGED <<given, git>> /\ CallTypeOK /\ pre \in Commits
  BY DEF Contained, IInv, CallTypeOK
<1>2. dead' \in BOOLEAN /\ faults' \in 0 .. MaxFaults
  BY <1>1, FaultsBounded DEF Contained
<1>3. CASE branch[Item] \subseteq pre /\ Return(pre, TRUE)
  BY <1>1, <1>2, <1>3, ReturnKeeps DEF IInv, CallTypeOK, TargetIsGreen, given, git, Steps
<1>4. CASE Goto("merge")
  <2>1. step' = "merge"
    BY <1>4 DEF Goto
  <2> QED
    BY <1>1, <1>2, <1>4, <2>1, GotoKeeps DEF IInv, CallTypeOK, TargetIsGreen, given, git, Steps
<1> QED
  BY <1>3, <1>4 DEF Contained

LEMMA MergeKeeps == IInv /\ Merge => IInv'
<1> SUFFICES ASSUME IInv, Merge PROVE IInv'
  OBVIOUS
<1>1. /\ step = "merge" /\ UNCHANGED <<given, tip, pre, green, unrolled>> /\ CallTypeOK
      /\ mid' \in BOOLEAN
  BY DEF Merge, IInv, CallTypeOK
<1>2. dead' \in BOOLEAN /\ faults' \in 0 .. MaxFaults
  BY <1>1, FaultsBounded DEF Merge
<1>3. PICK s \in {"commit", "failed"} : Goto(s) /\ step' = s
  BY DEF Merge, Goto
<1> QED
  BY <1>1, <1>2, <1>3, GotoKeeps DEF IInv, CallTypeOK, TargetIsGreen, given, Steps

LEMMA ProbeKeeps == IInv /\ Probe => IInv'
<1> SUFFICES ASSUME IInv, Probe PROVE IInv'
  OBVIOUS
<1>1. step = "failed" /\ UNCHANGED <<given, git>> /\ CallTypeOK /\ pre \in Commits
  BY DEF Probe, IInv, CallTypeOK
<1>2. dead' \in BOOLEAN /\ faults' \in 0 .. MaxFaults
  BY <1>1, FaultsBounded DEF Probe
<1>3. CASE Goto("abort")
  <2>1. step' = "abort"
    BY <1>3 DEF Goto
  <2> QED
    BY <1>1, <1>2, <1>3, <2>1, GotoKeeps DEF IInv, CallTypeOK, TargetIsGreen, given, git, Steps
<1>4. CASE Return(pre, FALSE)
  BY <1>1, <1>2, <1>4, ReturnKeeps DEF IInv, CallTypeOK, TargetIsGreen, given, git, Steps
<1> QED
  BY <1>3, <1>4 DEF Probe

LEMMA AbortKeeps == IInv /\ Abort => IInv'
<1> SUFFICES ASSUME IInv, Abort PROVE IInv'
  OBVIOUS
<1>1. /\ step = "abort" /\ UNCHANGED <<given, tip, pre, green, unrolled>> /\ CallTypeOK
      /\ mid' \in BOOLEAN /\ pre \in Commits
  BY DEF Abort, IInv, CallTypeOK
<1>2. dead' \in BOOLEAN /\ faults' \in 0 .. MaxFaults
  BY <1>1, FaultsBounded DEF Abort
<1>3. CASE Return(pre, FALSE)
  BY <1>1, <1>2, <1>3, ReturnKeeps DEF IInv, CallTypeOK, TargetIsGreen, given, Steps
<1>4. CASE Stop(pre)
  BY <1>1, <1>2, <1>4, StopKeeps DEF IInv, CallTypeOK, TargetIsGreen, given, Steps
<1> QED
  BY <1>3, <1>4 DEF Abort

LEMMA CommitKeeps == IInv /\ Commit => IInv'
<1> SUFFICES ASSUME IInv, Commit PROVE IInv'
  OBVIOUS
<1>1. /\ step = "commit" /\ UNCHANGED <<given, pre, green, unrolled>> /\ CallTypeOK
      /\ pos \in DOMAIN order
  BY DEF Commit, IInv
<1>2. dead' \in BOOLEAN /\ faults' \in 0 .. MaxFaults
  BY <1>1, FaultsBounded DEF Commit
<1>3. CASE tip' = Merged /\ mid' = FALSE /\ Goto("head")
  <2>1. step' = "head" /\ tip' = tip \union branch[Item]
    BY <1>3 DEF Goto, Merged
  <2>2. tip' \in Commits
    BY <1>1, <2>1 DEF CallTypeOK, Commits, Item
  <2> QED
    BY <1>1, <1>2, <1>3, <2>1, <2>2, GotoKeeps
    DEF IInv, CallTypeOK, TargetIsGreen, given, Steps
<1>4. CASE Goto("undo") /\ UNCHANGED <<tip, mid>>
  <2>1. step' = "undo"
    BY <1>4 DEF Goto
  <2> QED
    BY <1>1, <1>2, <1>4, <2>1, GotoKeeps DEF IInv, CallTypeOK, TargetIsGreen, given, Steps
<1> QED
  BY <1>3, <1>4 DEF Commit

LEMMA ReadMergeKeeps == IInv /\ ReadMerge => IInv'
<1> SUFFICES ASSUME IInv, ReadMerge PROVE IInv'
  OBVIOUS
<1>1. step = "head" /\ UNCHANGED <<given, git>> /\ CallTypeOK
  BY DEF ReadMerge, IInv
<1>2. dead' \in BOOLEAN /\ faults' \in 0 .. MaxFaults
  BY <1>1, FaultsBounded DEF ReadMerge
<1>3. PICK s \in {"check", "undo"} : Goto(s) /\ step' = s
  BY DEF ReadMerge, Goto
<1> QED
  BY <1>1, <1>2, <1>3, GotoKeeps DEF IInv, CallTypeOK, TargetIsGreen, given, git, Steps

LEMMA CheckKeeps == IInv /\ Check => IInv'
<1> SUFFICES ASSUME IInv, Check PROVE IInv'
  OBVIOUS
<1>1. step = "check" /\ UNCHANGED <<given, tip, mid, pre, unrolled, run>> /\ CallTypeOK
  BY DEF Check, IInv
<1>2. dead' \in BOOLEAN /\ faults' \in 0 .. MaxFaults /\ tip \in Commits
  BY <1>1 DEF CallTypeOK, run
<1>3. CASE Return(tip, TRUE) /\ green' = tip
  BY <1>1, <1>2, <1>3, ReturnKeeps DEF IInv, CallTypeOK, TargetIsGreen, given, Steps
<1>4. CASE Goto("undo") /\ UNCHANGED green
  <2>1. step' = "undo"
    BY <1>4 DEF Goto
  <2> QED
    BY <1>1, <1>2, <1>4, <2>1, GotoKeeps DEF IInv, CallTypeOK, TargetIsGreen, given, Steps
<1> QED
  BY <1>3, <1>4 DEF Check

LEMMA UndoKeeps == IInv /\ Undo => IInv'
<1> SUFFICES ASSUME IInv, Undo PROVE IInv'
  OBVIOUS
<1>1. /\ step = "undo" /\ UNCHANGED <<given, pre, green>> /\ CallTypeOK
      /\ Return(pre, FALSE) /\ pre \in Commits
  BY DEF Undo, IInv, CallTypeOK
<1>2. dead' \in BOOLEAN /\ faults' \in 0 .. MaxFaults
  BY <1>1, FaultsBounded DEF Undo
<1>3. \/ tip' = pre /\ mid' = FALSE /\ UNCHANGED unrolled
      \/ unrolled' = TRUE /\ UNCHANGED <<tip, mid>>
  BY DEF Undo, Rollback
<1> QED
  BY <1>1, <1>2, <1>3, ReturnKeeps DEF IInv, CallTypeOK, TargetIsGreen, given, Steps

LEMMA CancelKeeps == IInv /\ (Cancel \/ UNCHANGED ivars) => IInv'
<1> SUFFICES ASSUME IInv, Cancel \/ UNCHANGED ivars PROVE IInv'
  OBVIOUS
<1>1. UNCHANGED <<branch, base, order, pos, step, tip, mid, pre, green, unrolled, results, faults>>
      /\ dead' \in {dead, TRUE}
  BY DEF Cancel, ivars, call, run, given, git
<1>2. CallTypeOK'
  BY <1>1 DEF IInv, CallTypeOK
<1>3. Item' = Item /\ Reported' = Reported
  BY <1>1 DEF Item, Reported, Kept
<1>4. (~unrolled => TargetIsGreen) => (~unrolled' => TargetIsGreen')
  BY <1>1, <1>3 DEF TargetIsGreen
<1> QED
  BY <1>1, <1>2, <1>3, <1>4 DEF IInv

LEMMA StepIInv == IInv /\ [CallNext]_ivars => IInv'
BY ReadTipKeeps, ContainedKeeps, MergeKeeps, ProbeKeeps, AbortKeeps, CommitKeeps, ReadMergeKeeps,
   CheckKeeps, UndoKeeps, CancelKeeps DEF CallNext, Integrate

-----------------------------------------------------------------------------
(* The theorems.                                                            *)

\* Every reachable state of a call has its type.
THEOREM CallTypeCorrect == CallSpec => []CallTypeOK
<1>1. IInv => CallTypeOK
  BY DEF IInv
<1> QED
  BY InitIInv, StepIInv, <1>1, PTL DEF CallSpec

\* At every boundary of a call HEAD is the commit last judged green and holds what was
\* reported merged, and nothing else, whatever failed and whenever it was cancelled.
THEOREM GreenTip == CallSpec => []TipIsGreen
<1>1. IInv => TipIsGreen
  BY DEF IInv, TargetIsGreen, TipIsGreen, Between
<1> QED
  BY InitIInv, StepIInv, <1>1, PTL DEF CallSpec

-----------------------------------------------------------------------------
(* The run around the calls.                                                *)

\* Where the run stands: a call is open only in a process that is not saving, it goes from
\* the base of the run, over the items that passed, and it keeps its own invariant.
RunPlace ==
  /\ ~up => step = "off" /\ ~saving
  /\ saving => step = "off"
  /\ step # "off" => IInv /\ base = runBase /\ ToSet(order) = Passed
  /\ \A i \in Passed : i \in branch[i]

\* What passed workers left, on top of the base.
Allowed == base \union UNION {branch[i] : i \in Passed}

Inside == step \notin {"off", "tip", "handed"}

\* What HEAD, and the rollback target, hold at the least and at the most.
CommitsHold ==
  /\ step # "off" => base \subseteq tip /\ Kept \subseteq tip /\ tip \subseteq Allowed
  /\ Inside => base \subseteq pre /\ Kept \subseteq pre /\ pre \subseteq tip
  /\ step \in {"head", "check"} => branch[Item] \subseteq tip

\* What the results say: of every item whose turn is over, and of no other; each names a
\* commit on the base, and the last of a complete call one that holds whatever was kept.
ResultsSay ==
  /\ \A k \in DOMAIN results :
       results[k].id \in ToSet(order) /\ (results[k].sha # None => base \subseteq results[k].sha)
  /\ \A n \in DOMAIN order : n < pos => \E k \in DOMAIN results : results[k].id = order[n]
  /\ step = "handed" => results # <<>>
  /\ step = "handed" /\ pos > Len(order) =>
       Last(results).sha # None /\ Kept \subseteq Last(results).sha

\* What is carried from one call to the next, and to the next process.
Carried ==
  /\ up /\ tipSHA # None => runBase \subseteq tipSHA
  /\ ~cut /\ saving => tipSHA # None
  /\ ~cut /\ up => \A i \in Merged_(nodeStates) : i \in runBase \/ i \in Passed
  /\ MergedIsOnTip
  /\ ResumedWorkIsKept

\* The strengthening.
SInv == TypeOK /\ RunPlace /\ CommitsHold /\ ResultsSay /\ Carried

-----------------------------------------------------------------------------
(* Within a call.                                                           *)

\* What Integrate leaves alone.
LEMMA CallFrame ==
  ASSUME SInv, step # "off", UNCHANGED <<given, slice, project, durable, saving, cut>>
  PROVE  /\ base' = base /\ order' = order /\ branch' = branch
         /\ Passed' = Passed /\ Allowed' = Allowed
         /\ order \in Seq(Items) /\ results \in Results
         /\ ToSet(order) = Passed /\ Kept \subseteq Passed
<1>1. /\ base' = base /\ order' = order /\ branch' = branch /\ handles' = handles
  BY DEF given, slice
<1>2. Passed' = Passed /\ Allowed' = Allowed
  BY <1>1 DEF Passed, Allowed
<1>3. order \in Seq(Items) /\ results \in Results /\ ToSet(order) = Passed
  BY DEF SInv, TypeOK, CallTypeOK, RunPlace
<1>4. Kept \subseteq Passed
  BY <1>3 DEF SInv, ResultsSay, Kept
<1> QED
  BY <1>1, <1>2, <1>3, <1>4

\* The item in turn passed, and its branch holds it.
LEMMA InTurn ==
  ASSUME SInv, step \notin {"off", "handed"}
  PROVE  /\ pos \in DOMAIN order /\ Item \in Items /\ Item \in ToSet(order) /\ Item \in Passed
         /\ Item \in branch[Item] /\ branch[Item] \subseteq Allowed
<1>1. pos \in DOMAIN order /\ ToSet(order) = Passed /\ order \in Seq(Items)
  BY DEF SInv, RunPlace, IInv, TypeOK, CallTypeOK
<1>2. Item \in ToSet(order) /\ Item \in Items
  BY <1>1 DEF Item, ToSet
<1> QED
  BY <1>1, <1>2 DEF SInv, RunPlace, Allowed

\* A record adds the item in turn, with a commit on the base.
LEMMA RecordSays ==
  ASSUME SInv, step \notin {"off", "handed"}, NEW sha \in {None} \union Commits,
         NEW k \in BOOLEAN, Record(sha, k), UNCHANGED <<branch, base, order>>,
         sha # None => base \subseteq sha
  PROVE  /\ \A n \in DOMAIN results' :
              /\ results'[n].id \in ToSet(order')
              /\ results'[n].sha # None => base' \subseteq results'[n].sha
         /\ \A n \in DOMAIN order : n < pos \/ n = pos =>
              \E m \in DOMAIN results' : results'[m].id = order'[n]
         /\ results' # <<>> /\ Last(results').sha = sha
         /\ Kept' = IF k THEN Kept \union {Item} ELSE Kept
<1> DEFINE r == [id |-> Item, sha |-> sha, kept |-> k]
<1>1. /\ Item \in Items /\ Item \in ToSet(order) /\ pos \in DOMAIN order
      /\ order \in Seq(Items) /\ results \in Results
  BY InTurn DEF SInv, TypeOK, CallTypeOK
<1>2. r \in [id : Items, sha : {None} \union Commits, kept : BOOLEAN]
  BY <1>1
<1>3. results' = Append(results, r)
  BY DEF Record
<1>4. /\ DOMAIN results' = DOMAIN results \union {Len(results) + 1}
      /\ \A n \in DOMAIN results : results'[n] = results[n] /\ n # Len(results) + 1
      /\ results'[Len(results) + 1] = r
      /\ Len(results') = Len(results) + 1 /\ results' # <<>>
  BY <1>2, <1>3, <1>1 DEF Results
<1>5. r.id = Item /\ r.sha = sha
  OBVIOUS
<1>6. \A n \in DOMAIN results :
        results[n].id \in ToSet(order) /\ (results[n].sha # None => base \subseteq results[n].sha)
  BY DEF SInv, ResultsSay
<1>7. \A n \in DOMAIN order : n < pos => \E m \in DOMAIN results : results[m].id = order[n]
  BY DEF SInv, ResultsSay
<1>8. ASSUME NEW n \in DOMAIN results'
      PROVE  /\ results'[n].id \in ToSet(order')
             /\ results'[n].sha # None => base' \subseteq results'[n].sha
  <2>1. CASE n \in DOMAIN results
    BY <1>4, <1>6, <2>1
  <2>2. CASE n = Len(results) + 1
    <3>1. results'[n] = r
      BY <1>4, <2>2
    <3> QED
      BY <1>1, <1>5, <3>1
  <2> QED
    BY <1>4, <2>1, <2>2
<1>9. ASSUME NEW n \in DOMAIN order, n < pos \/ n = pos
      PROVE  \E m \in DOMAIN results' : results'[m].id = order'[n]
  <2>1. CASE n < pos
    BY <1>4, <1>7, <2>1
  <2>2. CASE n = pos
    BY <1>4, <1>5, <2>2 DEF Item
  <2> QED
    BY <1>9, <2>1, <2>2
<1>10. Last(results').sha = sha
  <2>1. Last(results') = r
    BY <1>4 DEF Last
  <2> QED
    BY <1>5, <2>1
<1>11. Kept' = IF k THEN Kept \union {Item} ELSE Kept
  BY <1>1, KeptGrows
<1> QED
  BY <1>4, <1>8, <1>9, <1>10, <1>11

\* Within a merge, the results stay.
LEMMA GotoSays ==
  ASSUME SInv, step \notin {"off", "handed"}, NEW s, s # "handed", Goto(s),
         UNCHANGED <<branch, base, order>>
  PROVE  ResultsSay' /\ Kept' = Kept /\ Item' = Item /\ step' = s
<1>1. results' = results /\ pos' = pos /\ step' = s /\ order' = order /\ base' = base
  BY DEF Goto
<1>2. ResultsSay'
  BY <1>1 DEF SInv, ResultsSay
<1> QED
  BY <1>1, <1>2 DEF Kept, Item

\* Out of a merge to the next item: the commit reported holds what was kept.
LEMMA ReturnSays ==
  ASSUME SInv, Inside, NEW sha \in Commits, NEW k \in BOOLEAN, Return(sha, k),
         UNCHANGED <<branch, base, order>>,
         base \subseteq sha, Kept \subseteq sha, k => branch[Item] \subseteq sha
  PROVE  /\ ResultsSay' /\ Kept' \subseteq sha
         /\ step' \in {"tip", "handed"}
<1>1. step \notin {"off", "handed"} /\ Record(sha, k) /\ pos' = pos + 1
      /\ step' = IF pos = Len(order) THEN "handed" ELSE "tip"
  BY DEF Inside, Return
<1>2. /\ \A n \in DOMAIN results' :
           /\ results'[n].id \in ToSet(order')
           /\ results'[n].sha # None => base' \subseteq results'[n].sha
      /\ \A n \in DOMAIN order : n < pos \/ n = pos =>
           \E m \in DOMAIN results' : results'[m].id = order'[n]
      /\ results' # <<>> /\ Last(results').sha = sha
      /\ Kept' = IF k THEN Kept \union {Item} ELSE Kept
  BY <1>1, RecordSays
<1>3. Kept' \subseteq sha
  BY <1>1, <1>2, InTurn
<1>4. pos \in Int /\ \A n \in DOMAIN order : n \in Int
  BY DEF SInv, TypeOK, CallTypeOK
<1>5. \A n \in DOMAIN order' : n < pos' => n < pos \/ n = pos
  BY <1>1, <1>4
<1>6. sha # None
  BY IntegratorAssumption DEF Commits
<1>7. ResultsSay'
  BY <1>2, <1>3, <1>5, <1>6 DEF ResultsSay
<1> QED
  BY <1>1, <1>3, <1>7

\* Out of the loop: the call is not complete.
LEMMA StopSays ==
  ASSUME SInv, step \notin {"off", "handed"}, NEW sha \in {None} \union Commits, Stop(sha),
         UNCHANGED <<branch, base, order>>, sha # None => base \subseteq sha
  PROVE  ResultsSay' /\ Kept' = Kept /\ step' = "handed"
<1>1. Record(sha, FALSE) /\ pos' = pos /\ step' = "handed"
  BY DEF Stop
<1>2. /\ \A n \in DOMAIN results' :
           /\ results'[n].id \in ToSet(order')
           /\ results'[n].sha # None => base' \subseteq results'[n].sha
      /\ \A n \in DOMAIN order : n < pos \/ n = pos =>
           \E m \in DOMAIN results' : results'[m].id = order'[n]
      /\ results' # <<>> /\ Last(results').sha = sha
      /\ Kept' = Kept
  BY <1>1, RecordSays
<1>3. ~(pos' > Len(order'))
  <2>1. pos \in DOMAIN order /\ order \in Seq(Items)
    BY InTurn DEF SInv, TypeOK, CallTypeOK
  <2> QED
    BY <1>1, <2>1
<1> QED
  BY <1>1, <1>2, <1>3 DEF ResultsSay

\* Every command of a call keeps what its commits and its results hold.
LEMMA CallKeeps ==
  ASSUME SInv, Integrate, UNCHANGED <<slice, project, durable, saving, cut>>
  PROVE  CommitsHold' /\ ResultsSay' /\ step' # "off"
<1>1. step \notin {"off", "handed"} /\ UNCHANGED given
  BY DEF Integrate, ReadTip, Contained, Merge, Probe, Abort, Commit, ReadMerge, Check, Undo
<1>2. /\ base' = base /\ order' = order /\ branch' = branch /\ Allowed' = Allowed
      /\ Kept \subseteq Passed
  BY <1>1, CallFrame
<1>3. /\ base \subseteq tip /\ Kept \subseteq tip /\ tip \subseteq Allowed
      /\ Inside => base \subseteq pre /\ Kept \subseteq pre /\ pre \subseteq tip
      /\ step \in {"head", "check"} => branch[Item] \subseteq tip
      /\ tip \in Commits /\ pre \in Commits
  BY <1>1 DEF SInv, CommitsHold, TypeOK, CallTypeOK
<1>4. UNCHANGED <<branch, base, order>>
  BY <1>2
<1>5. CASE ReadTip
  <2>1. step = "tip" /\ tip' = tip
    BY <1>5 DEF ReadTip
  <2>2. CASE pre' = tip /\ Goto("contained")
    <3>1. ResultsSay' /\ Kept' = Kept /\ step' = "contained"
      BY <1>1, <1>4, <2>2, GotoSays
    <3> QED
      BY <1>2, <1>3, <2>1, <2>2, <3>1 DEF CommitsHold, Inside
  <2>3. CASE LostTip
    <3>1. ResultsSay' /\ Kept' = Kept /\ step' = "handed"
      BY <1>1, <1>4, <2>3, StopSays DEF LostTip
    <3> QED
      BY <1>2, <1>3, <2>1, <3>1 DEF CommitsHold, Inside
  <2> QED
    BY <1>5, <2>2, <2>3 DEF ReadTip
<1>6. CASE Contained
  <2>1. step = "contained" /\ tip' = tip /\ pre' = pre
    BY <1>6 DEF Contained, git
  <2>2. CASE branch[Item] \subseteq pre /\ Return(pre, TRUE)
    <3>1. ResultsSay' /\ Kept' \subseteq pre /\ step' \in {"tip", "handed"}
      BY <1>3, <1>4, <2>1, <2>2, ReturnSays DEF Inside
    <3> QED
      BY <1>2, <1>3, <2>1, <3>1 DEF CommitsHold, Inside
  <2>3. CASE Goto("merge")
    <3>1. ResultsSay' /\ Kept' = Kept /\ step' = "merge"
      BY <1>1, <1>4, <2>3, GotoSays
    <3> QED
      BY <1>2, <1>3, <2>1, <3>1 DEF CommitsHold, Inside
  <2> QED
    BY <1>6, <2>2, <2>3 DEF Contained
<1>7. CASE Merge \/ ReadMerge
  <2>1. /\ step \in {"merge", "head"} /\ tip' = tip /\ pre' = pre
        /\ step = "merge" => Merge
        /\ step = "head" => ReadMerge
    BY <1>7 DEF Merge, ReadMerge, git
  <2>2. PICK s \in {"commit", "failed", "check", "undo"} :
          Goto(s) /\ (s = "check" => step = "head")
    BY <1>7, <2>1 DEF Merge, ReadMerge
  <2>3. ResultsSay' /\ Kept' = Kept /\ Item' = Item /\ step' = s
    BY <1>1, <1>4, <2>2, GotoSays
  <2> QED
    BY <1>2, <1>3, <2>1, <2>2, <2>3 DEF CommitsHold, Inside
<1>8. CASE Probe \/ Abort
  <2>1. step \in {"failed", "abort"} /\ tip' = tip /\ pre' = pre
    BY <1>8 DEF Probe, Abort, git
  <2>2. CASE Goto("abort")
    <3>1. ResultsSay' /\ Kept' = Kept /\ step' = "abort"
      BY <1>1, <1>4, <2>2, GotoSays
    <3> QED
      BY <1>2, <1>3, <2>1, <3>1 DEF CommitsHold, Inside
  <2>3. CASE Return(pre, FALSE)
    <3>1. ResultsSay' /\ Kept' \subseteq pre /\ step' \in {"tip", "handed"}
      BY <1>3, <1>4, <2>1, <2>3, ReturnSays DEF Inside
    <3> QED
      BY <1>2, <1>3, <2>1, <3>1 DEF CommitsHold, Inside
  <2>4. CASE Stop(pre)
    <3>1. ResultsSay' /\ Kept' = Kept /\ step' = "handed"
      BY <1>1, <1>3, <1>4, <2>1, <2>4, StopSays DEF Inside
    <3> QED
      BY <1>2, <1>3, <2>1, <3>1 DEF CommitsHold, Inside
  <2> QED
    BY <1>8, <2>2, <2>3, <2>4 DEF Probe, Abort
<1>9. CASE Commit
  <2>1. step = "commit" /\ pre' = pre
    BY <1>9 DEF Commit
  <2>2. CASE tip' = Merged /\ Goto("head")
    <3>1. ResultsSay' /\ Kept' = Kept /\ Item' = Item /\ step' = "head"
      BY <1>1, <1>4, <2>2, GotoSays
    <3>2. tip' = tip \union branch[Item] /\ branch[Item] \subseteq Allowed
      BY <1>1, <2>2, InTurn DEF Merged
    <3> QED
      BY <1>2, <1>3, <2>1, <3>1, <3>2 DEF CommitsHold, Inside
  <2>3. CASE tip' = tip /\ Goto("undo")
    <3>1. ResultsSay' /\ Kept' = Kept /\ step' = "undo"
      BY <1>1, <1>4, <2>3, GotoSays
    <3> QED
      BY <1>2, <1>3, <2>1, <2>3, <3>1 DEF CommitsHold, Inside
  <2> QED
    BY <1>9, <2>2, <2>3 DEF Commit
<1>10. CASE Check
  <2>1. step = "check" /\ tip' = tip /\ pre' = pre
    BY <1>10 DEF Check
  <2>2. CASE Return(tip, TRUE)
    <3>1. ResultsSay' /\ Kept' \subseteq tip /\ step' \in {"tip", "handed"}
      BY <1>3, <1>4, <2>1, <2>2, ReturnSays DEF Inside
    <3> QED
      BY <1>2, <1>3, <2>1, <3>1 DEF CommitsHold, Inside
  <2>3. CASE Goto("undo")
    <3>1. ResultsSay' /\ Kept' = Kept /\ step' = "undo"
      BY <1>1, <1>4, <2>3, GotoSays
    <3> QED
      BY <1>2, <1>3, <2>1, <3>1 DEF CommitsHold, Inside
  <2> QED
    BY <1>10, <2>2, <2>3 DEF Check
<1>11. CASE Undo
  <2>1. step = "undo" /\ tip' \in {tip, pre} /\ pre' = pre /\ Return(pre, FALSE)
    BY <1>11 DEF Undo, Rollback
  <2>2. ResultsSay' /\ Kept' \subseteq pre /\ step' \in {"tip", "handed"}
    BY <1>3, <1>4, <2>1, ReturnSays DEF Inside
  <2> QED
    BY <1>2, <1>3, <2>1, <2>2 DEF CommitsHold, Inside
<1> QED
  BY <1>5, <1>6, <1>7, <1>8, <1>9, <1>10, <1>11 DEF Integrate, CommitsHold

-----------------------------------------------------------------------------
(* Around the calls.                                                        *)

\* Without a call the facts about it hold of themselves.
LEMMA NoCall ==
  ASSUME step' = "off", results' = <<>>, order' = <<>>
  PROVE  CommitsHold' /\ ResultsSay'
BY DEF CommitsHold, ResultsSay, Inside

LEMMA InitSInv == Init => SInv
<1> SUFFICES ASSUME Init PROVE SInv
  OBVIOUS
<1>1. CallTypeOK
  <2>1. branch \in [Items -> Commits] /\ base \in Commits /\ tip \in Commits
        /\ pre \in Commits /\ green \in Commits
    BY DEF Init, Commits
  <2>2. order \in Seq(Items) /\ pos \in 1 .. Len(order) + 1 /\ results \in Results
    BY DEF Init, Results
  <2>3. step \in Steps /\ faults \in 0 .. MaxFaults
    BY IntegratorAssumption DEF Init, Steps
  <2>4. mid \in BOOLEAN /\ dead \in BOOLEAN /\ unrolled \in BOOLEAN
    BY DEF Init
  <2> QED
    BY <2>1, <2>2, <2>3, <2>4 DEF CallTypeOK
<1>2. TypeOK
  <2>1. runBase \in Commits /\ hint = None /\ tipSHA = None /\ projectTip = None
    BY DEF Init, Commits
  <2>2. /\ nodeStates \in [Items -> NodeStates] /\ row.nodes \in [Items -> NodeStates]
        /\ row.status = "none" /\ row.tip = None
        /\ handles \in [Items -> {"none", "passed", "failed"}]
    BY DEF Init, Unknown, NodeStates, NoRow
  <2>3. slices \in 1 .. MaxSlices /\ crashes \in 0 .. MaxCrashes
    BY SupervisorAssumption DEF Init
  <2>4. up \in BOOLEAN /\ saving \in BOOLEAN /\ cut \in BOOLEAN
    BY DEF Init
  <2> QED
    BY <1>1, <2>1, <2>2, <2>3, <2>4 DEF TypeOK
<1>3. RunPlace
  BY DEF Init, RunPlace, Passed
<1>4. CommitsHold /\ ResultsSay
  BY DEF Init, CommitsHold, ResultsSay, Inside
<1>5. Carried
  BY DEF Init, Carried, MergedIsOnTip, ResumedWorkIsKept, Merged_, Unknown, NoRow
<1> QED
  BY <1>2, <1>3, <1>4, <1>5 DEF SInv

\* A call of Integrate takes one command further.
LEMMA IntegratingKeeps == SInv /\ Integrating => SInv'
<1> SUFFICES ASSUME SInv, Integrating PROVE SInv'
  OBVIOUS
<1>1. Integrate /\ UNCHANGED <<slice, project, durable, saving, cut>>
  BY DEF Integrating
<1>2. CommitsHold' /\ ResultsSay' /\ step' # "off"
  BY <1>1, CallKeeps
<1>3. step \notin {"off", "handed"} /\ UNCHANGED given
  BY <1>1 DEF Integrate, ReadTip, Contained, Merge, Probe, Abort, Commit, ReadMerge, Check, Undo
<1>4. IInv'
  BY <1>1, <1>3, StepIInv DEF SInv, RunPlace, CallNext
<1>5. /\ base' = base /\ order' = order /\ branch' = branch /\ Passed' = Passed
  BY <1>1, <1>3, CallFrame
<1>6. /\ up' = up /\ runBase' = runBase /\ handles' = handles /\ hint' = hint
      /\ nodeStates' = nodeStates /\ tipSHA' = tipSHA /\ slices' = slices
      /\ projectTip' = projectTip /\ saving' = saving /\ row' = row /\ crashes' = crashes
      /\ cut' = cut
  BY <1>1 DEF slice, project, durable
<1>7. TypeOK'
  BY <1>4, <1>6 DEF IInv, SInv, TypeOK
<1>8. RunPlace'
  BY <1>3, <1>4, <1>5, <1>6 DEF SInv, RunPlace
<1>9. Carried'
  BY <1>5, <1>6 DEF SInv, Carried, MergedIsOnTip, ResumedWorkIsKept, Merged_
<1> QED
  BY <1>2, <1>7, <1>8, <1>9 DEF SInv

\* Calls, handles and what is carried do not see the context.
LEMMA ShutdownKeeps == SInv /\ (Shutdown \/ UNCHANGED vars) => SInv'
<1> SUFFICES ASSUME SInv, Shutdown \/ UNCHANGED vars PROVE SInv'
  OBVIOUS
<1>1. Cancel \/ UNCHANGED ivars
  BY DEF Shutdown, vars
<1>2. /\ branch' = branch /\ base' = base /\ order' = order /\ pos' = pos /\ step' = step
      /\ tip' = tip /\ mid' = mid /\ pre' = pre /\ results' = results /\ green' = green
      /\ unrolled' = unrolled /\ faults' = faults /\ dead' \in {dead, TRUE}
  BY <1>1 DEF Cancel, ivars, call, run, given, git
<1>3. /\ up' = up /\ runBase' = runBase /\ handles' = handles /\ hint' = hint
      /\ nodeStates' = nodeStates /\ tipSHA' = tipSHA /\ slices' = slices
      /\ projectTip' = projectTip /\ saving' = saving /\ row' = row /\ crashes' = crashes
      /\ cut' = cut
  BY DEF Shutdown, vars, slice, project, durable
<1>4. CallTypeOK'
  BY <1>2 DEF SInv, TypeOK, CallTypeOK
<1>5. TypeOK'
  BY <1>3, <1>4 DEF SInv, TypeOK
<1>6. step # "off" => IInv'
  BY <1>1, CancelKeeps DEF SInv, RunPlace
<1>7. Passed' = Passed
  BY <1>3 DEF Passed
<1>8. RunPlace'
  BY <1>2, <1>3, <1>6, <1>7 DEF SInv, RunPlace
<1>9. CommitsHold'
  BY <1>2, <1>7 DEF SInv, CommitsHold, Inside, Allowed, Kept, Item
<1>10. ResultsSay'
  BY <1>2 DEF SInv, ResultsSay, Kept
<1>11. Carried'
  BY <1>3, <1>7 DEF SInv, Carried, MergedIsOnTip, ResumedWorkIsKept, Merged_
<1> QED
  BY <1>5, <1>8, <1>9, <1>10, <1>11 DEF SInv

\* Where a worker is cut, there is a commit.
LEMMA BasesAreCommits ==
  ASSUME TypeOK, NEW i \in Items
  PROVE  Bases(i) \subseteq Commits
<1>1. branch \in [Items -> Commits] /\ runBase \in Commits
  BY DEF TypeOK, CallTypeOK
<1>2. UNION {branch[d] : d \in DependsOn[i] \intersect Passed} \in Commits
  BY <1>1 DEF Commits, Passed
<1>3. CutFrom(i) \subseteq {UNION {branch[d] : d \in DependsOn[i] \intersect Passed}, runBase}
  BY DEF CutFrom
<1>4. {branch[j] : j \in Spawned} \subseteq Commits
  BY <1>1 DEF Spawned
<1> QED
  BY <1>1, <1>2, <1>3, <1>4 DEF Bases

LEMMA SpawnKeeps == SInv /\ (\E i \in Items : Spawn(i)) => SInv'
<1> SUFFICES ASSUME SInv, NEW i \in Items, Spawn(i) PROVE SInv'
  OBVIOUS
<1>1. /\ up /\ step = "off" /\ ~saving /\ handles[i] = "none"
      /\ UNCHANGED <<base, order, pos, step, git, results, run, nodeStates, tipSHA, project,
                     durable, saving, cut>>
  BY DEF Spawn, Turn
<1>2. PICK h \in {"passed", "failed"}, b \in Commits :
        /\ handles' = [handles EXCEPT ![i] = h]
        /\ branch' = [branch EXCEPT ![i] = b]
        /\ h = "passed" => i \in b
        /\ hint' \in {hint} \union Commits
  <2>1. CASE WorkerPasses(i)
    <3>1. PICK from \in Bases(i) :
            /\ handles' = [handles EXCEPT ![i] = "passed"]
            /\ branch' = [branch EXCEPT ![i] = from \union {i}]
            /\ hint' = from \union {i}
      BY <2>1 DEF WorkerPasses
    <3>2. from \union {i} \in Commits
      BY BasesAreCommits DEF SInv, Commits
    <3> QED
      BY <3>1, <3>2
  <2>2. CASE WorkerFails(i)
    <3>1. PICK left \in {runBase} \union {from \union {i} : from \in Bases(i)} :
            /\ handles' = [handles EXCEPT ![i] = "failed"]
            /\ branch' = [branch EXCEPT ![i] = left]
            /\ hint' = hint
      BY <2>2 DEF WorkerFails
    <3>2. left \in Commits
      BY BasesAreCommits DEF SInv, Commits, TypeOK
    <3> QED
      BY <3>1, <3>2
  <2> QED
    BY <2>1, <2>2 DEF Spawn
<1>3. /\ base' = base /\ order' = order /\ pos' = pos /\ step' = step
      /\ tip' = tip /\ mid' = mid /\ pre' = pre /\ results' = results /\ green' = green
      /\ unrolled' = unrolled /\ faults' = faults /\ dead' = dead
      /\ up' = up /\ runBase' = runBase
      /\ nodeStates' = nodeStates /\ tipSHA' = tipSHA /\ slices' = slices
      /\ projectTip' = projectTip /\ saving' = saving /\ row' = row /\ crashes' = crashes
      /\ cut' = cut
  BY <1>1 DEF git, run, project, durable
<1>4. branch \in [Items -> Commits] /\ handles \in [Items -> {"none", "passed", "failed"}]
  BY DEF SInv, TypeOK, CallTypeOK
<1>5. /\ branch' \in [Items -> Commits] /\ handles' \in [Items -> {"none", "passed", "failed"}]
      /\ \A j \in Items : j # i => branch'[j] = branch[j] /\ handles'[j] = handles[j]
      /\ branch'[i] = b /\ handles'[i] = h
  BY <1>2, <1>4
<1>6. CallTypeOK'
  BY <1>3, <1>5 DEF SInv, TypeOK, CallTypeOK
<1>7. hint' \in {None} \union Commits
  BY <1>2 DEF SInv, TypeOK
<1>8. TypeOK'
  BY <1>3, <1>5, <1>6, <1>7 DEF SInv, TypeOK
<1>9. Passed \subseteq Passed' /\ \A j \in Passed' : j \in branch'[j]
  BY <1>1, <1>2, <1>5 DEF SInv, RunPlace, Passed
<1>10. RunPlace'
  BY <1>1, <1>3, <1>9 DEF SInv, RunPlace
<1>11. CommitsHold'
  BY <1>1, <1>3 DEF CommitsHold, Inside
<1>12. ResultsSay'
  <2>1. Kept' = Kept
    BY <1>3 DEF Kept
  <2> QED
    BY <1>3, <2>1 DEF SInv, ResultsSay
<1>13. Carried'
  BY <1>3, <1>9 DEF SInv, Carried, MergedIsOnTip, ResumedWorkIsKept, Merged_
<1> QED
  BY <1>8, <1>10, <1>11, <1>12, <1>13 DEF SInv

\* A call begins at the base of the run, over what passed.
LEMMA BeginKeeps == SInv /\ BeginIntegrate => SInv'
<1> SUFFICES ASSUME SInv, BeginIntegrate PROVE SInv'
  OBVIOUS
<1>1. /\ up /\ step = "off" /\ ~saving /\ Passed # {}
      /\ UNCHANGED <<branch, run, slice, project, durable, saving, cut>>
  BY DEF BeginIntegrate, Turn, Included
<1>2. PICK o \in MergeOrders : Start(runBase, o)
  BY DEF BeginIntegrate, IntegrationBase
<1>3. o \in Orders /\ ToSet(o) = Passed
  BY DEF MergeOrders, Included
<1>4. PICK n \in 0 .. Cardinality(Items) : o \in [1 .. n -> Items]
  BY <1>3 DEF Orders
<1>5. n \in Nat /\ o \in Seq(Items) /\ Len(o) = n /\ DOMAIN o = 1 .. n
  BY <1>4
<1>6. n # 0
  BY <1>1, <1>3, <1>5 DEF ToSet
<1>7. /\ base' = runBase /\ order' = o /\ pos' = 1 /\ step' = "tip" /\ tip' = runBase
      /\ mid' = FALSE /\ pre' = runBase /\ results' = <<>> /\ green' = runBase
      /\ unrolled' = FALSE
  BY <1>2 DEF Start
<1>8. /\ branch' = branch /\ dead' = dead /\ faults' = faults
      /\ up' = up /\ runBase' = runBase /\ handles' = handles /\ hint' = hint
      /\ nodeStates' = nodeStates /\ tipSHA' = tipSHA /\ slices' = slices
      /\ projectTip' = projectTip /\ saving' = saving /\ row' = row /\ crashes' = crashes
      /\ cut' = cut
  BY <1>1 DEF run, slice, project, durable
<1>9. runBase \in Commits /\ pos' \in DOMAIN order' /\ pos' \in 1 .. Len(order') + 1
  BY <1>5, <1>6, <1>7 DEF SInv, TypeOK
<1>10. CallTypeOK'
  <2>1. results' \in Results
    BY <1>7 DEF Results
  <2>2. branch' \in [Items -> Commits] /\ dead' \in BOOLEAN /\ faults' \in 0 .. MaxFaults
    BY <1>8 DEF SInv, TypeOK, CallTypeOK
  <2>3. step' \in Steps /\ mid' \in BOOLEAN /\ unrolled' \in BOOLEAN
    BY <1>7 DEF Steps
  <2> QED
    BY <1>5, <1>7, <1>9, <2>1, <2>2, <2>3 DEF CallTypeOK
<1>11. TypeOK'
  BY <1>8, <1>10 DEF SInv, TypeOK
<1>12. Kept' = {} /\ Reported' = runBase
  <2>1. Kept' = {}
    BY <1>7 DEF Kept
  <2> QED
    BY <1>7, <2>1 DEF Reported
<1>13. IInv'
  BY <1>7, <1>9, <1>10, <1>12 DEF IInv, TargetIsGreen
<1>14. Passed' = Passed
  BY <1>8 DEF Passed
<1>15. RunPlace'
  BY <1>1, <1>3, <1>7, <1>8, <1>13, <1>14 DEF SInv, RunPlace
<1>16. CommitsHold'
  BY <1>7, <1>12 DEF CommitsHold, Inside, Allowed
<1>17. ResultsSay'
  BY <1>5, <1>7 DEF ResultsSay
<1>18. Carried'
  BY <1>8, <1>14 DEF SInv, Carried, MergedIsOnTip, ResumedWorkIsKept, Merged_
<1> QED
  BY <1>11, <1>15, <1>16, <1>17, <1>18 DEF SInv

\* What the worktree being released leaves of the type of a call.
LEMMA ReleasedType ==
  ASSUME CallTypeOK, Released, branch' \in [Items -> Commits],
         dead' \in BOOLEAN, faults' \in 0 .. MaxFaults
  PROVE  CallTypeOK'
<1>1. results' \in Results
  BY DEF Results, Released
<1>2. step' \in Steps
  BY DEF Steps, Released
<1>3. order' \in Seq(Items) /\ pos' \in 1 .. Len(order') + 1
  BY DEF Released
<1> QED
  BY <1>1, <1>2, <1>3 DEF Released, CallTypeOK, Commits

LEMMA LastResult ==
  ASSUME results \in Results, results # <<>>
  PROVE  /\ Last(results).sha \in {None} \union Commits
         /\ \E k \in DOMAIN results : Last(results) = results[k]
<1> DEFINE R == [id : Items, sha : {None} \union Commits, kept : BOOLEAN]
<1>0. results \in Seq(R)
  BY DEF Results
<1>1. Len(results) \in DOMAIN results /\ Last(results) = results[Len(results)]
  BY <1>0 DEF Last
<1>2. results[Len(results)] \in R
  <2> HIDE DEF R
  <2> QED
    BY <1>0, <1>1
<1>3. results[Len(results)].sha \in {None} \union Commits
  BY <1>2
<1> QED
  BY <1>1, <1>3

\* The bookkeeping of a call that went through its whole order believes only what is on
\* the tip of its last result, whatever an earlier call left there.
LEMMA RecordKeeps == SInv /\ RecordIntegration => SInv'
<1> SUFFICES ASSUME SInv, RecordIntegration PROVE SInv'
  OBVIOUS
<1> DEFINE Done(i) == \E k \in DOMAIN results : results[k].id = i
           At(i) == results[CHOOSE k \in DOMAIN results : results[k].id = i]
<1>1. /\ up /\ step = "handed" /\ Released
      /\ hint' = tip
      /\ nodeStates' = [i \in Items |-> IF Done(i) THEN Disposition(At(i)) ELSE nodeStates[i]]
      /\ tipSHA' = Last(results).sha /\ saving' = TRUE
      /\ cut' = (cut \/ pos <= Len(order))
      /\ UNCHANGED <<branch, run, handles, project, durable>>
  BY DEF RecordIntegration
<1>2. /\ branch' = branch /\ dead' = dead /\ faults' = faults
      /\ up' = up /\ runBase' = runBase /\ handles' = handles /\ slices' = slices
      /\ projectTip' = projectTip /\ row' = row /\ crashes' = crashes
  BY <1>1 DEF run, project, durable
<1>3. results \in Results /\ results # <<>> /\ base = runBase /\ ToSet(order) = Passed
      /\ order \in Seq(Items) /\ pos \in Int /\ tip \in Commits
  BY <1>1 DEF SInv, TypeOK, CallTypeOK, RunPlace, ResultsSay
<1>4. /\ tipSHA' \in {None} \union Commits
      /\ tipSHA' # None => runBase \subseteq tipSHA'
  BY <1>1, <1>3, LastResult DEF SInv, ResultsSay
<1>5. \A i \in Items : Done(i) =>
        At(i) \in {results[k] : k \in DOMAIN results} /\ At(i).id = i
  OBVIOUS
<1>6. \A i \in Items : Disposition(At(i)) \in NodeStates
  BY DEF Disposition, NodeStates
<1>7. nodeStates' \in [Items -> NodeStates]
  BY <1>1, <1>6 DEF SInv, TypeOK
<1>8. CallTypeOK'
  BY <1>1, <1>2, ReleasedType DEF SInv, TypeOK, CallTypeOK
<1>9. TypeOK'
  <2>1. hint' \in {None} \union Commits
    BY <1>1, <1>3
  <2>2. saving' \in BOOLEAN /\ cut' \in BOOLEAN
    BY <1>1 DEF SInv, TypeOK
  <2> QED
    BY <1>2, <1>4, <1>7, <1>8, <2>1, <2>2 DEF SInv, TypeOK
<1>10. Passed' = Passed
  BY <1>2 DEF Passed
<1>11. RunPlace'
  BY <1>1, <1>2, <1>10 DEF SInv, RunPlace, Released
<1>12. CommitsHold' /\ ResultsSay'
  BY <1>1, NoCall DEF Released
<1>13. ASSUME ~cut'
       PROVE  /\ tipSHA' # None
              /\ \A i \in Merged_(nodeStates') :
                   i \in tipSHA' /\ (i \in runBase \/ i \in Passed)
  <2>1. ~cut /\ ~(pos <= Len(order))
    BY <1>1, <1>13
  <2>2. Len(order) \in Int /\ DOMAIN order = 1 .. Len(order)
    BY <1>3
  <2>3. pos > Len(order) /\ \A n \in DOMAIN order : n < pos
    BY <1>3, <2>1, <2>2
  <2>4. tipSHA' # None /\ Kept \subseteq tipSHA'
    BY <1>1, <2>3 DEF SInv, ResultsSay
  <2>5. \A i \in Passed : Done(i)
    <3>1. \A i \in Passed : \E n \in DOMAIN order : order[n] = i
      BY <1>3 DEF ToSet
    <3> QED
      BY <2>3, <3>1 DEF SInv, ResultsSay
  <2>6. SUFFICES ASSUME NEW i \in Items, nodeStates'[i] = "merged"
                 PROVE  i \in tipSHA' /\ (i \in runBase \/ i \in Passed)
    BY <2>4 DEF Merged_
  <2>7. CASE Done(i)
    <3>1. Disposition(At(i)) = "merged"
      BY <1>1, <2>6, <2>7
    <3>2. At(i).kept
      BY <3>1 DEF Disposition
    <3>3. PICK k \in DOMAIN results : results[k] = At(i)
      BY <1>5, <2>7
    <3>4. results[k].id = i /\ results[k].kept
      BY <1>5, <2>7, <3>2, <3>3
    <3>5. i \in Kept
      BY <3>4 DEF Kept
    <3>6. i \in Passed
      BY <1>3, <3>4 DEF SInv, ResultsSay
    <3> QED
      BY <2>4, <3>5, <3>6
  <2>8. CASE ~Done(i)
    <3>1. nodeStates[i] = "merged" /\ i \notin Passed
      BY <1>1, <2>5, <2>6, <2>8
    <3>2. i \in runBase
      BY <1>1, <2>1, <3>1 DEF SInv, Carried, Merged_
    <3> QED
      BY <1>4, <2>4, <3>2
  <2> QED
    BY <2>7, <2>8
<1>14. ~cut' => ~cut
  BY <1>1
<1>15. MergedIsOnTip'
  <2>1. ~cut' => (row'.status = "supervise" =>
                    row'.tip # None /\ Merged_(row'.nodes) \subseteq row'.tip)
    BY <1>2, <1>14 DEF SInv, Carried, MergedIsOnTip, Merged_
  <2>2. ~cut' => Merged_(nodeStates') \subseteq tipSHA' /\ tipSHA' # None
    BY <1>13
  <2>3. Merged_(nodeStates)' = Merged_(nodeStates') /\ Merged_(row.nodes)' = Merged_(row'.nodes)
    BY DEF Merged_
  <2> QED
    BY <2>1, <2>2, <2>3 DEF MergedIsOnTip
<1>16. Carried'
  <2>1. Merged_(nodeStates)' = Merged_(nodeStates')
    BY DEF Merged_
  <2>2. ~cut' => \A i \in Merged_(nodeStates)' : i \in runBase' \/ i \in Passed'
    BY <1>2, <1>10, <1>13, <2>1
  <2>3. ResumedWorkIsKept'
    BY <1>2 DEF SInv, Carried, ResumedWorkIsKept
  <2>4. up' /\ tipSHA' # None => runBase' \subseteq tipSHA'
    BY <1>2, <1>4
  <2> QED
    BY <1>13, <1>15, <2>2, <2>3, <2>4 DEF Carried
<1> QED
  BY <1>9, <1>11, <1>12, <1>16 DEF SInv

\* Outside a call, what is carried from one to the next is all that can change.
LEMMA NoCallStays ==
  ASSUME SInv, step = "off", UNCHANGED <<ivars, up, runBase>>, saving' \in {saving, FALSE}
  PROVE  CallTypeOK' /\ CommitsHold' /\ ResultsSay' /\ step' = "off" /\ dead' \in BOOLEAN
<1>1. /\ branch' = branch /\ base' = base /\ order' = order /\ pos' = pos /\ step' = step
      /\ tip' = tip /\ mid' = mid /\ pre' = pre /\ results' = results /\ green' = green
      /\ unrolled' = unrolled /\ faults' = faults /\ dead' = dead
  BY DEF ivars, call, run, given, git
<1>2. CallTypeOK'
  BY <1>1 DEF SInv, TypeOK, CallTypeOK
<1>3. CommitsHold'
  BY <1>1 DEF CommitsHold, Inside
<1>4. ResultsSay'
  BY <1>1 DEF SInv, ResultsSay, Kept
<1> QED
  BY <1>1, <1>2, <1>3, <1>4 DEF SInv, TypeOK, CallTypeOK

\* A save writes what is carried.
LEMMA SaveKeeps == SInv /\ SaveRow => SInv'
<1> SUFFICES ASSUME SInv, SaveRow PROVE SInv'
  OBVIOUS
<1>1. /\ up /\ saving /\ saving' = FALSE /\ step = "off"
      /\ UNCHANGED <<call, slice, project, crashes, cut>>
      /\ Ok \/ Fault
  BY DEF SaveRow, SInv, RunPlace
<1>2. \/ row' = [status |-> "supervise", tip |-> tipSHA, nodes |-> Snapshot]
      \/ row' = row
  BY DEF SaveRow
<1>3. /\ branch' = branch /\ base' = base /\ order' = order /\ pos' = pos /\ step' = step
      /\ tip' = tip /\ mid' = mid /\ pre' = pre /\ results' = results /\ green' = green
      /\ unrolled' = unrolled
      /\ up' = up /\ runBase' = runBase /\ handles' = handles /\ hint' = hint
      /\ nodeStates' = nodeStates /\ tipSHA' = tipSHA /\ slices' = slices
      /\ projectTip' = projectTip /\ crashes' = crashes /\ cut' = cut
  BY <1>1 DEF call, given, git, slice, project
<1>4. dead' \in BOOLEAN /\ faults' \in 0 .. MaxFaults
  BY <1>1, FaultsBounded DEF SInv, TypeOK
<1>5. CallTypeOK'
  BY <1>3, <1>4 DEF SInv, TypeOK, CallTypeOK
<1>6. Snapshot \in [Items -> NodeStates] /\ Merged_(Snapshot) = Merged_(nodeStates)
  BY DEF SInv, TypeOK, Snapshot, NodeStates, Merged_
<1>7. /\ row'.status \in {"none", "supervise", "terminal"}
      /\ row'.tip \in {None} \union Commits
      /\ row'.nodes \in [Items -> NodeStates]
      /\ \/ row'.tip = tipSHA /\ row'.nodes = Snapshot
         \/ row' = row
  BY <1>2, <1>6 DEF SInv, TypeOK
<1>8. TypeOK'
  BY <1>1, <1>3, <1>5, <1>7 DEF SInv, TypeOK
<1>9. Passed' = Passed
  BY <1>3 DEF Passed
<1>10. RunPlace'
  BY <1>1, <1>3, <1>9 DEF SInv, RunPlace
<1>11. CommitsHold' /\ ResultsSay'
  <2>1. CommitsHold'
    BY <1>1, <1>3 DEF CommitsHold, Inside
  <2>2. ResultsSay'
    BY <1>3 DEF SInv, ResultsSay, Kept
  <2> QED
    BY <2>1, <2>2
<1>12. /\ Merged_(nodeStates)' = Merged_(nodeStates)
       /\ Merged_(row.nodes)' = Merged_(row'.nodes)
  BY <1>3 DEF Merged_
<1>13. MergedIsOnTip'
  <2>1. ASSUME ~cut, row'.status = "supervise"
        PROVE  row'.tip # None /\ Merged_(row'.nodes) \subseteq row'.tip
    BY <1>1, <1>6, <1>7, <2>1 DEF SInv, Carried, MergedIsOnTip
  <2> QED
    BY <1>3, <1>12, <2>1 DEF SInv, Carried, MergedIsOnTip
<1>14. ResumedWorkIsKept'
  BY <1>1, <1>3, <1>7 DEF SInv, Carried, ResumedWorkIsKept
<1>15. Carried'
  BY <1>1, <1>3, <1>9, <1>12, <1>13, <1>14 DEF SInv, Carried
<1> QED
  BY <1>8, <1>10, <1>11, <1>15 DEF SInv

\* A new slice believes nothing.
LEMMA NewSliceType ==
  ASSUME NewSlice
  PROVE  /\ handles' \in [Items -> {"none", "passed", "failed"}] /\ Passed' = {}
         /\ hint' = None /\ tipSHA' = None /\ nodeStates' \in [Items -> NodeStates]
         /\ Merged_(nodeStates)' = {}
BY DEF NewSlice, Passed, NodeStates, Unknown, Merged_

LEMMA SliceEndsKeeps == SInv /\ SliceEnds => SInv'
<1> SUFFICES ASSUME SInv, SliceEnds PROVE SInv'
  OBVIOUS
<1>1. /\ up /\ step = "off" /\ ~saving /\ slices < MaxSlices
      /\ projectTip' \in {projectTip} \union (IF hint = None THEN {} ELSE {hint})
      /\ slices' = slices + 1 /\ NewSlice
      /\ UNCHANGED <<ivars, up, runBase, durable, saving, cut>>
  BY DEF SliceEnds, Turn
<1>2. CallTypeOK' /\ CommitsHold' /\ ResultsSay' /\ step' = "off"
  BY <1>1, NoCallStays
<1>3. /\ up' = up /\ runBase' = runBase /\ saving' = saving /\ row' = row
      /\ crashes' = crashes /\ cut' = cut
  BY <1>1 DEF durable
<1>4. /\ handles' \in [Items -> {"none", "passed", "failed"}] /\ Passed' = {}
      /\ hint' = None /\ tipSHA' = None /\ nodeStates' \in [Items -> NodeStates]
      /\ Merged_(nodeStates)' = {}
  BY <1>1, NewSliceType
<1>5. slices' \in 1 .. MaxSlices /\ projectTip' \in {None} \union Commits
  BY <1>1, SupervisorAssumption DEF SInv, TypeOK
<1>6. TypeOK'
  BY <1>2, <1>3, <1>4, <1>5 DEF SInv, TypeOK
<1>7. RunPlace'
  BY <1>1, <1>2, <1>3, <1>4 DEF RunPlace
<1>8. Carried'
  <2>1. Merged_(row.nodes)' = Merged_(row.nodes)
    BY <1>3 DEF Merged_
  <2> QED
    BY <1>1, <1>3, <1>4, <2>1 DEF SInv, Carried, MergedIsOnTip, ResumedWorkIsKept
<1> QED
  BY <1>2, <1>6, <1>7, <1>8 DEF SInv

\* The process ends: what stays is the row.
LEMMA ExitKeeps ==
  ASSUME SInv, Exits, dead' \in BOOLEAN, faults' \in 0 .. MaxFaults,
         crashes' \in 0 .. MaxCrashes, cut' = cut,
         row' = row \/ row' = [NoRow EXCEPT !.status = "terminal"]
  PROVE  SInv'
<1>1. /\ up' = FALSE /\ Released /\ saving' = FALSE /\ NewSlice /\ slices' = 1
      /\ projectTip' = None /\ runBase' = {} /\ branch' = [i \in Items |-> {i}]
      /\ step' = "off" /\ results' = <<>> /\ order' = <<>>
  BY DEF Exits, Released
<1>2. branch' \in [Items -> Commits] /\ runBase' \in Commits
  BY <1>1 DEF Commits
<1>3. CallTypeOK'
  BY <1>1, <1>2, ReleasedType DEF SInv, TypeOK
<1>4. /\ handles' \in [Items -> {"none", "passed", "failed"}] /\ Passed' = {}
      /\ hint' = None /\ tipSHA' = None /\ nodeStates' \in [Items -> NodeStates]
      /\ Merged_(nodeStates)' = {}
  BY <1>1, NewSliceType
<1>5. /\ row'.status \in {"none", "supervise", "terminal"}
      /\ row'.tip \in {None} \union Commits
      /\ row'.nodes \in [Items -> NodeStates]
      /\ row'.status = "supervise" => row' = row
  BY DEF SInv, TypeOK, NoRow, Unknown, NodeStates
<1>6. slices' \in 1 .. MaxSlices
  BY <1>1, SupervisorAssumption
<1>7. TypeOK'
  BY <1>1, <1>2, <1>3, <1>4, <1>5, <1>6 DEF SInv, TypeOK
<1>8. RunPlace'
  BY <1>1, <1>4 DEF RunPlace
<1>9. CommitsHold' /\ ResultsSay'
  BY <1>1, NoCall
<1>10. Carried'
  <2>1. row' = row => Merged_(row.nodes)' = Merged_(row.nodes)
    BY DEF Merged_
  <2> QED
    BY <1>1, <1>4, <1>5, <2>1 DEF SInv, Carried, MergedIsOnTip, ResumedWorkIsKept
<1> QED
  BY <1>7, <1>8, <1>9, <1>10 DEF SInv

LEMMA EndsKeep == SInv /\ (RunEnds \/ Dies) => SInv'
<1> SUFFICES ASSUME SInv, RunEnds \/ Dies PROVE SInv'
  OBVIOUS
<1>1. CASE RunEnds
  <2>1. Exits /\ crashes' = crashes /\ cut' = cut /\ (Ok \/ Fault)
        /\ (row' = row \/ row' = [NoRow EXCEPT !.status = "terminal"])
    BY <1>1 DEF RunEnds
  <2>2. dead' \in BOOLEAN /\ faults' \in 0 .. MaxFaults /\ crashes' \in 0 .. MaxCrashes
    BY <2>1, FaultsBounded DEF SInv, TypeOK
  <2> QED
    BY <2>1, <2>2, ExitKeeps
<1>2. CASE Dies
  <2>1. Exits /\ crashes < MaxCrashes /\ crashes' = crashes + 1 /\ dead' = FALSE
        /\ faults' = faults /\ cut' = cut /\ row' = row
    BY <1>2 DEF Dies
  <2>2. dead' \in BOOLEAN /\ faults' \in 0 .. MaxFaults
    BY <2>1 DEF SInv, TypeOK, CallTypeOK
  <2>3. crashes' \in 0 .. MaxCrashes
    BY <2>1, SupervisorAssumption DEF SInv, TypeOK
  <2> QED
    BY <2>1, <2>2, <2>3, ExitKeeps
<1> QED
  BY <1>1, <1>2

\* The next process believes the row, if the tip it names verifies, and then builds on it.
LEMMA BootKeeps == SInv /\ Boot => SInv'
<1> SUFFICES ASSUME SInv, Boot PROVE SInv'
  OBVIOUS
<1>1. PICK ok \in {row.tip # None, FALSE} :
        /\ ~up /\ row.status = "supervise" /\ up' = TRUE
        /\ runBase' = (IF ok THEN row.tip ELSE {})
        /\ tipSHA' = (IF ok THEN row.tip ELSE None)
        /\ hint' = tipSHA'
        /\ nodeStates' = Seed(ok)
        /\ UNCHANGED <<ivars, handles, slices, projectTip, durable, saving, cut>>
  BY DEF Boot
<1>2. step = "off" /\ ~saving
  BY <1>1 DEF SInv, RunPlace
<1>3. /\ branch' = branch /\ base' = base /\ order' = order /\ pos' = pos /\ step' = step
      /\ tip' = tip /\ mid' = mid /\ pre' = pre /\ results' = results /\ green' = green
      /\ unrolled' = unrolled /\ faults' = faults /\ dead' = dead
      /\ handles' = handles /\ slices' = slices /\ projectTip' = projectTip
      /\ row' = row /\ crashes' = crashes /\ saving' = saving /\ cut' = cut
  BY <1>1 DEF ivars, call, run, given, git, durable
<1>4. CASE ok /\ row.tip # None
  <2>1. runBase' = row.tip /\ tipSHA' = row.tip /\ nodeStates' = row.nodes
    BY <1>1, <1>4 DEF Seed
  <2>2. row.tip \in Commits /\ row.nodes \in [Items -> NodeStates]
    BY <1>4 DEF SInv, TypeOK
  <2>3. CallTypeOK'
    BY <1>3 DEF SInv, TypeOK, CallTypeOK
  <2>4. TypeOK'
    BY <1>1, <1>3, <2>1, <2>2, <2>3 DEF SInv, TypeOK
  <2>5. Merged_(nodeStates)' = Merged_(row.nodes) /\ Merged_(row.nodes)' = Merged_(row.nodes)
    BY <1>3, <2>1 DEF Merged_
  <2>6. ~cut => Merged_(row.nodes) \subseteq row.tip
    BY <1>1 DEF SInv, Carried, MergedIsOnTip
  <2>7. MergedIsOnTip'
    BY <1>3, <1>4, <2>1, <2>5, <2>6 DEF MergedIsOnTip
  <2>8. ResumedWorkIsKept'
    BY <1>3, <2>1 DEF ResumedWorkIsKept
  <2>9. Carried'
    BY <1>2, <1>3, <2>1, <2>5, <2>6, <2>7, <2>8 DEF Carried
  <2> QED
    BY <1>1, <1>2, <1>3, <2>4, <2>9
    DEF SInv, RunPlace, Passed, CommitsHold, Inside, ResultsSay, Kept
<1>5. CASE ~ok
  <2>1. runBase' = {} /\ tipSHA' = None /\ nodeStates' = Unknown
    BY <1>1, <1>5 DEF Seed
  <2>2. runBase' \in Commits /\ nodeStates' \in [Items -> NodeStates]
    BY <2>1 DEF Commits, Unknown, NodeStates
  <2>3. CallTypeOK'
    BY <1>3 DEF SInv, TypeOK, CallTypeOK
  <2>4. TypeOK'
    BY <1>1, <1>3, <2>1, <2>2, <2>3 DEF SInv, TypeOK
  <2>5. Merged_(nodeStates)' = {} /\ Merged_(row.nodes)' = Merged_(row.nodes)
    BY <1>3, <2>1 DEF Merged_, Unknown
  <2>6. Carried'
    BY <1>1, <1>2, <1>3, <2>1, <2>5 DEF SInv, Carried, MergedIsOnTip, ResumedWorkIsKept
  <2> QED
    BY <1>1, <1>2, <1>3, <2>4, <2>6
    DEF SInv, RunPlace, Passed, CommitsHold, Inside, ResultsSay, Kept
<1> QED
  BY <1>1, <1>4, <1>5

LEMMA StepSInv == SInv /\ [Next]_vars => SInv'
BY IntegratingKeeps, RecordKeeps, SaveKeeps, SpawnKeeps, BeginKeeps, SliceEndsKeeps, EndsKeep,
   ShutdownKeeps, BootKeeps DEF Next, Work

-----------------------------------------------------------------------------
(* The theorems about the run.                                              *)

\* Every reachable state of a supervised run has its type.
THEOREM RunTypeCorrect == Spec => []TypeOK
<1>1. SInv => TypeOK
  BY DEF SInv
<1> QED
  BY InitSInv, StepSInv, <1>1, PTL DEF Spec

\* In every call a run makes, through every slice, resume and end of the process, HEAD is
\* at each boundary the commit last judged green and holds what was reported merged.
THEOREM GreenTipInRun == Spec => []TipIsGreen
<1>1. SInv => TipIsGreen
  BY DEF SInv, RunPlace, IInv, TargetIsGreen, TipIsGreen, Between
<1> QED
  BY InitSInv, StepSInv, <1>1, PTL DEF Spec

\* No failed attempt reaches the integration tip, but inside the branch of one that passed.
THEOREM PassedWorkOnly == Spec => []OnlyPassedWorkIsOnTip
<1>1. SInv => OnlyPassedWorkIsOnTip
  BY DEF SInv, CommitsHold, Allowed, OnlyPassedWorkIsOnTip
<1> QED
  BY InitSInv, StepSInv, <1>1, PTL DEF Spec

\* What the durable row, or the running process, calls merged is on the tip it names, while
\* no call of Integrate has ended before its loop did.
THEOREM MergedOnTip == Spec => []MergedIsOnTip
<1>1. SInv => MergedIsOnTip
  BY DEF SInv, Carried
<1> QED
  BY InitSInv, StepSInv, <1>1, PTL DEF Spec

\* No snapshot of a resumed run is without the work it resumed from.
THEOREM ResumedKept == Spec => []ResumedWorkIsKept
<1>1. SInv => ResumedWorkIsKept
  BY DEF SInv, Carried
<1> QED
  BY InitSInv, StepSInv, <1>1, PTL DEF Spec

=============================================================================
