----------------------------- MODULE Integrator -----------------------------
(***************************************************************************)
(* One call of Integrate of internal/integrate: the branches of an order   *)
(* are merged one at a time into a fresh worktree, each merge is committed *)
(* and verified, and one that conflicts or turns the tree red is undone.   *)
(*                                                                         *)
(* A commit is the set of the items whose work it holds; the branch of an  *)
(* item is the commit it points to, which holds the items it was cut from. *)
(* Every git command may fail, one by one, and once the context is         *)
(* cancelled all of them do: exec.CommandContext starts nothing then.      *)
(***************************************************************************)
EXTENDS Integers, Sequences, FiniteSets, SequencesExt

CONSTANTS
  Items,         \* what may be merged
  MaxFaults,     \* git commands and writes that fail though nothing is cancelled (bound)
  None           \* no commit

ASSUME IntegratorAssumption ==
  /\ MaxFaults \in Nat
  /\ \A C \in SUBSET Items : C # None

VARIABLES
  branch,        \* the commit each item's branch points to
  base,          \* BaseRef, resolved
  order,         \* the items left to merge and done, in turn
  pos,           \* the turn
  step,          \* the git command, or check, that comes next
  tip,           \* HEAD of the integration worktree
  mid,           \* MERGE_HEAD is set
  pre,           \* PreSHA of the item in turn
  results,       \* the results so far: item, SHA, and whether it was merged and verified
  dead,          \* the context is cancelled
  faults,        \* failures spent
  green,         \* history: the base, or the commit last judged green
  unrolled       \* history: a rollback failed

git   == <<tip, mid, pre, green, unrolled>>
given == <<branch, base, order>>
run   == <<dead, faults>>
call  == <<given, pos, step, git, results>>
ivars == <<call, run>>

Commits == SUBSET Items

Orders == {o \in UNION {[1 .. n -> Items] : n \in 0 .. Cardinality(Items)} : IsInjective(o)}

Start(b, o) ==
  /\ base' = b /\ order' = o /\ pos' = 1
  /\ step' = "tip" /\ tip' = b /\ mid' = FALSE /\ pre' = b
  /\ results' = <<>>
  /\ green' = b /\ unrolled' = FALSE

\* A command succeeds, or fails.
Ok    == ~dead /\ UNCHANGED run
Fault ==
  /\ dead \/ faults < MaxFaults
  /\ faults' = IF dead THEN faults ELSE faults + 1
  /\ UNCHANGED dead

Item == order[pos]

Record(sha, kept) == results' = Append(results, [id |-> Item, sha |-> sha, kept |-> kept])

\* mergeOne returns, and the loop goes on to the next item, if there is one.
Return(sha, kept) ==
  /\ Record(sha, kept)
  /\ pos' = pos + 1
  /\ step' = IF pos = Len(order) THEN "handed" ELSE "tip"

\* mergeOne returns, and the loop ends.
Stop(sha) ==
  /\ Record(sha, FALSE)
  /\ pos' = pos
  /\ step' = "handed"

Goto(s) == step' = s /\ UNCHANGED <<pos, results>>

\* No tip, no rollback target: the loop ends.
LostTip == Stop(None)

ReadTip ==
  /\ step = "tip"
  /\ \/ Ok /\ pre' = tip /\ Goto("contained")
     \/ Fault /\ LostTip /\ UNCHANGED pre
  /\ UNCHANGED <<given, tip, mid, green, unrolled>>

\* Nothing to do for a branch the tip holds already.
Contained ==
  /\ step = "contained"
  /\ \/ Ok /\ branch[Item] \subseteq pre /\ Return(pre, TRUE)
     \/ Ok /\ ~(branch[Item] \subseteq pre) /\ Goto("merge")
     \/ Fault /\ Goto("merge")
  /\ UNCHANGED <<given, git>>

\* Clean, or a conflict, or refused: either of the first leaves MERGE_HEAD set, and git
\* merges nothing into a tree where it is set.
Merge ==
  /\ step = "merge"
  /\ \/ Ok /\ ~mid /\ mid' = TRUE /\ (Goto("commit") \/ Goto("failed"))
     \/ Ok /\ mid /\ Goto("failed") /\ UNCHANGED mid
     \/ Fault /\ Goto("failed") /\ UNCHANGED mid
  /\ UNCHANGED <<given, tip, pre, green, unrolled>>

\* mergeInProgress: its own failure reads as no.
Probe ==
  /\ step = "failed"
  /\ \/ Ok /\ mid /\ Goto("abort")
     \/ Ok /\ ~mid /\ Return(pre, FALSE)
     \/ Fault /\ Return(pre, FALSE)
  /\ UNCHANGED <<given, git>>

Abort ==
  /\ step = "abort"
  /\ \/ Ok /\ mid' = FALSE /\ Return(pre, FALSE)
     \/ Fault /\ Stop(pre) /\ UNCHANGED mid
  /\ UNCHANGED <<given, tip, pre, green, unrolled>>

Merged == tip \union branch[Item]

Commit ==
  /\ step = "commit"
  /\ \/ Ok /\ tip' = Merged /\ mid' = FALSE /\ Goto("head")
     \/ Fault /\ Goto("undo") /\ UNCHANGED <<tip, mid>>
  /\ UNCHANGED <<given, pre, green, unrolled>>

ReadMerge ==
  /\ step = "head"
  /\ \/ Ok /\ Goto("check")
     \/ Fault /\ Goto("undo")
  /\ UNCHANGED <<given, git>>

\* Nothing is green once the context is cancelled.
Check ==
  /\ step = "check"
  /\ \/ ~dead /\ Return(tip, TRUE) /\ green' = tip
     \/ Goto("undo") /\ UNCHANGED green
  /\ UNCHANGED <<given, tip, mid, pre, unrolled, run>>

\* Mutant: the tree goes back to where the call began.
Rollback_ToBase == base

Rollback == pre

\* reset --hard; its failure is reported at most.
Undo ==
  /\ step = "undo"
  /\ \/ Ok /\ tip' = Rollback /\ mid' = FALSE /\ UNCHANGED unrolled
     \/ Fault /\ unrolled' = TRUE /\ UNCHANGED <<tip, mid>>
  /\ Return(pre, FALSE)
  /\ UNCHANGED <<given, pre, green>>

Cancel ==
  /\ ~dead
  /\ dead' = TRUE
  /\ UNCHANGED <<call, faults>>

Integrate ==
  \/ ReadTip \/ Contained \/ Merge \/ Probe \/ Abort
  \/ Commit \/ ReadMerge \/ Check \/ Undo

-----------------------------------------------------------------------------
(* The call by itself: any base, any order, any branches.                   *)

CallInit ==
  /\ branch \in [Items -> Commits]
  /\ \A i \in Items : i \in branch[i]
  /\ base \in Commits /\ order \in Orders \ {<<>>}
  /\ pos = 1 /\ step = "tip" /\ tip = base /\ mid = FALSE /\ pre = base
  /\ results = <<>> /\ dead = FALSE /\ faults = 0
  /\ green = base /\ unrolled = FALSE

CallNext == Integrate \/ Cancel

CallSpec == CallInit /\ [][CallNext]_ivars

-----------------------------------------------------------------------------
(* Properties.                                                              *)

Steps == {"tip", "contained", "merge", "failed", "abort", "commit", "head", "check",
          "undo", "handed", "off"}

Results == Seq([id : Items, sha : {None} \union Commits, kept : BOOLEAN])

CallTypeOK ==
  /\ branch \in [Items -> Commits] /\ base \in Commits /\ order \in Seq(Items)
  /\ pos \in 1 .. Len(order) + 1 /\ step \in Steps
  /\ tip \in Commits /\ mid \in BOOLEAN /\ pre \in Commits
  /\ results \in Results
  /\ dead \in BOOLEAN /\ faults \in 0 .. MaxFaults
  /\ green \in Commits /\ unrolled \in BOOLEAN

Between == step \in {"tip", "handed"}

Kept == {results[i].id : i \in {j \in DOMAIN results : results[j].kept}}

\* What the results report, on top of the base.
Reported == base \union UNION {branch[i] : i \in Kept}

\* Whenever a branch is about to be merged, and when the worktree is handed back, its HEAD
\* is the base or the commit last judged green, through conflicts, red merges, failed
\* commits and a cancellation at any command, unless the rollback itself could not run.
\* And it holds the work of every branch reported merged and verified, and of no other: an
\* undone merge leaves nothing, a kept one is never dropped by a later rollback.
TipIsGreen == Between /\ ~unrolled => tip = green /\ tip = Reported

=============================================================================
