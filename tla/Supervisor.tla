----------------------------- MODULE Supervisor -----------------------------
(***************************************************************************)
(* A supervised run around the Integrator: internal/super spawns workers,   *)
(* folds their branches, and snapshots what merged; internal/project runs   *)
(* one supervisor slice after another over it; cmd/nilcore wires both and   *)
(* resumes a run that a crash or a shutdown left in the store.              *)
(*                                                                         *)
(* One goroutine owns the run: a worker runs inside its Spawn step.  A wave *)
(* of concurrent workers is DagScheduler's matter and ends in the same      *)
(* handles.  What the model of the planner proposes is a choice.            *)
(***************************************************************************)
EXTENDS Integrator

CONSTANTS
  DependsOn,     \* the dependencies each item is spawned with
  MaxSlices,     \* slices of a project (bound)
  MaxCrashes     \* ends of the process (bound)

ASSUME SupervisorAssumption ==
  /\ DependsOn \in [Items -> SUBSET Items]
  /\ MaxSlices \in Nat \ {0} /\ MaxCrashes \in Nat

VARIABLES
  up,            \* a process runs the project
  runBase,       \* d.baseRef: nothing on a fresh run, the preserved tip on a resumed one
  handles,       \* each item: not spawned, or what its worker came to
  hint,          \* st.branch: what the slice would hand back
  nodeStates, tipSHA,   \* the bookkeeping for a resume
  slices,        \* slices begun
  projectTip,    \* the project's integration tip
  saving,        \* a snapshot is on its way to the store
  row,           \* the durable row of the run
  crashes,
  cut            \* history: some Integrate ended before its loop did

slice   == <<handles, hint, nodeStates, tipSHA>>
project == <<up, runBase, slices, projectTip>>
durable == <<row, crashes>>
vars    == <<ivars, slice, project, durable, saving, cut>>

NodeStates == {"none", "pending", "merged", "failed"}

Unknown == [i \in Items |-> "none"]

NoRow == [status |-> "none", tip |-> None, nodes |-> Unknown]

\* The worktree is released, or dies with the process.
Released ==
  /\ step' = "off" /\ base' = {} /\ order' = <<>> /\ pos' = 1
  /\ tip' = {} /\ mid' = FALSE /\ pre' = {} /\ results' = <<>>
  /\ green' = {} /\ unrolled' = FALSE

NewSlice ==
  /\ handles' = [i \in Items |-> "none"] /\ hint' = None
  /\ nodeStates' = Unknown /\ tipSHA' = None

Init ==
  /\ branch = [i \in Items |-> {i}] /\ base = {} /\ order = <<>> /\ pos = 1
  /\ step = "off" /\ tip = {} /\ mid = FALSE /\ pre = {} /\ results = <<>>
  /\ dead = FALSE /\ faults = 0 /\ green = {} /\ unrolled = FALSE
  /\ up = TRUE /\ runBase = {} /\ slices = 1 /\ projectTip = None
  /\ handles = [i \in Items |-> "none"] /\ hint = None
  /\ nodeStates = Unknown /\ tipSHA = None
  /\ saving = FALSE /\ row = NoRow /\ crashes = 0 /\ cut = FALSE

\* The planner's turn: nothing is under way.
Turn == up /\ step = "off" /\ ~saving

-----------------------------------------------------------------------------
(* Workers.                                                                 *)

Spawned == {i \in Items : handles[i] # "none"}

Passed == {i \in Items : handles[i] = "passed"}

\* Where a worker is cut: from the branch of its one dependency, from a throwaway merge
\* of two or more, else, or if that merge conflicts, from the base of the run.
CutFrom(i) ==
  LET deps   == DependsOn[i] \intersect Passed
      merged == UNION {branch[d] : d \in deps}
  IN  CASE Cardinality(deps) > 1                    -> {merged, runBase}
        [] deps # {} /\ Cardinality(DependsOn[i]) = 1 -> {merged}
        [] OTHER                                    -> {runBase}

\* A retry is cut from the attempt it continues, whose branch keeps the unverified work
\* of a failed one; an attempt that left no branch stands for the base of the run.
Bases(i) == CutFrom(i) \union {branch[j] : j \in Spawned}

WorkerPasses(i) ==
  \E from \in Bases(i) :
    /\ handles' = [handles EXCEPT ![i] = "passed"]
    /\ branch' = [branch EXCEPT ![i] = from \union {i}]
    /\ hint' = from \union {i}

WorkerFails(i) ==
  \E left \in {runBase} \union {from \union {i} : from \in Bases(i)} :
    /\ handles' = [handles EXCEPT ![i] = "failed"]
    /\ branch' = [branch EXCEPT ![i] = left]
    /\ UNCHANGED hint

Spawn(i) ==
  /\ Turn /\ ~dead /\ handles[i] = "none"
  /\ WorkerPasses(i) \/ WorkerFails(i)
  /\ UNCHANGED <<base, order, pos, step, git, results, run, nodeStates, tipSHA, project,
                 durable, saving, cut>>

-----------------------------------------------------------------------------
(* Folding the branches.                                                    *)

\* Mutant: every finished attempt is merged.
Included_Failed == Spawned

Included == Passed

\* mergeOrder: a map's order, dependencies first.
MergeOrders ==
  {o \in Orders :
     /\ ToSet(o) = Included
     /\ \A n, m \in DOMAIN o : o[n] \in DependsOn[o[m]] => n < m}

\* Mutant: a resumed run integrates from base HEAD.
IntegrationBase_Head == {}

IntegrationBase == runBase

BeginIntegrate ==
  /\ Turn /\ ~dead /\ Included # {}
  /\ \E o \in MergeOrders : Start(IntegrationBase, o)
  /\ UNCHANGED <<branch, run, slice, project, durable, saving, cut>>

Integrating ==
  /\ up /\ Integrate
  /\ UNCHANGED <<slice, project, durable, saving, cut>>

Shutdown ==
  /\ up /\ Cancel
  /\ UNCHANGED <<slice, project, durable, saving, cut>>

\* Mutant: an item is recorded as merged when its turn came.
Disposition_Optimistic(r) == "merged"

Disposition(r) == IF r.kept THEN "merged" ELSE "failed"

\* recordIntegration: items that were not reached keep what an earlier call said of them.
RecordIntegration ==
  /\ up /\ step = "handed"
  /\ Released
  /\ hint' = tip
  /\ nodeStates' = [i \in Items |->
       IF \E k \in DOMAIN results : results[k].id = i
         THEN Disposition(results[CHOOSE k \in DOMAIN results : results[k].id = i])
         ELSE nodeStates[i]]
  /\ tipSHA' = Last(results).sha
  /\ saving' = TRUE
  /\ cut' = (cut \/ pos <= Len(order))
  /\ UNCHANGED <<branch, run, handles, project, durable>>

\* Every handle and every node of the run that was resumed.
Snapshot == [i \in Items |->
  IF i \in Spawned /\ nodeStates[i] = "none" THEN "pending" ELSE nodeStates[i]]

SaveRow ==
  /\ up /\ saving /\ saving' = FALSE
  /\ \/ Ok /\ row' = [status |-> "supervise", tip |-> tipSHA, nodes |-> Snapshot]
     \/ Fault /\ UNCHANGED row
  /\ UNCHANGED <<call, slice, project, crashes, cut>>

-----------------------------------------------------------------------------
(* Slices, the end of the run, the end of the process and the next one.     *)

\* The slice hands back its branch, which counts if its finish check passed.
SliceEnds ==
  /\ Turn /\ ~dead /\ slices < MaxSlices
  /\ projectTip' \in {projectTip} \union (IF hint = None THEN {} ELSE {hint})
  /\ slices' = slices + 1
  /\ NewSlice
  /\ UNCHANGED <<ivars, up, runBase, durable, saving, cut>>

\* The process ends, and what it held with it.
Exits ==
  /\ up' = FALSE
  /\ Released /\ saving' = FALSE /\ NewSlice
  /\ slices' = 1 /\ projectTip' = None /\ runBase' = {}
  /\ branch' = [i \in Items |-> {i}]

\* finalizeSupervise, on a run that was not cancelled.
RunEnds ==
  /\ Turn /\ ~dead
  /\ Exits
  /\ \/ Ok /\ row' = [NoRow EXCEPT !.status = "terminal"]
     \/ Fault /\ UNCHANGED row
  /\ UNCHANGED <<crashes, cut>>

\* A crash at any step, or the exit of a cancelled run.
Dies ==
  /\ up /\ crashes < MaxCrashes
  /\ Exits
  /\ crashes' = crashes + 1 /\ dead' = FALSE
  /\ UNCHANGED <<faults, row, cut>>

Seed(ok) == IF ok THEN row.nodes ELSE Unknown

\* resumeSupervise: the preserved tip is verified again, or the run starts afresh.
Boot ==
  /\ ~up /\ row.status = "supervise"
  /\ up' = TRUE
  /\ \E ok \in {row.tip # None, FALSE} :
       /\ runBase' = IF ok THEN row.tip ELSE {}
       /\ tipSHA' = IF ok THEN row.tip ELSE None
       /\ hint' = tipSHA'
       /\ nodeStates' = Seed(ok)
  /\ UNCHANGED <<ivars, handles, slices, projectTip, durable, saving, cut>>

Work ==
  \/ Integrating \/ RecordIntegration \/ SaveRow

Next ==
  \/ Work
  \/ (\E i \in Items : Spawn(i)) \/ BeginIntegrate
  \/ SliceEnds \/ RunEnds \/ Shutdown \/ Dies \/ Boot

\* The goroutine of the run keeps going; what the planner proposes is not assumed.
Spec == Init /\ [][Next]_vars /\ WF_vars(Work)

-----------------------------------------------------------------------------
(* Properties.                                                              *)

TypeOK ==
  /\ CallTypeOK
  /\ up \in BOOLEAN /\ runBase \in Commits
  /\ handles \in [Items -> {"none", "passed", "failed"}]
  /\ hint \in {None} \union Commits /\ tipSHA \in {None} \union Commits
  /\ nodeStates \in [Items -> NodeStates]
  /\ slices \in 1 .. MaxSlices /\ projectTip \in {None} \union Commits
  /\ saving \in BOOLEAN
  /\ row.status \in {"none", "supervise", "terminal"} /\ row.tip \in {None} \union Commits
  /\ row.nodes \in [Items -> NodeStates]
  /\ crashes \in 0 .. MaxCrashes /\ cut \in BOOLEAN

\* No failed attempt reaches the integration tip, except inside the branch of a passing
\* one that was cut from it.
OnlyPassedWorkIsOnTip ==
  up /\ step # "off" => tip \subseteq base \union UNION {branch[i] : i \in Passed}

Merged_(nodes) == {i \in Items : nodes[i] = "merged"}

\* What the durable row calls merged is on the tip it names, since a resumed run is told
\* not to redo it; nor does a running process believe of a node that it merged, unless the
\* base it resumed from or its own last tip holds it.  Excused is a run in which an
\* Integrate ended early.
MergedIsOnTip ==
  ~cut =>
    /\ row.status = "supervise" => row.tip # None /\ Merged_(row.nodes) \subseteq row.tip
    /\ up => Merged_(nodeStates) \subseteq (IF tipSHA = None THEN {} ELSE tipSHA)

\* A resumed run builds on the preserved tip: no snapshot it writes is without its work.
ResumedWorkIsKept ==
  up /\ row.status = "supervise" /\ row.tip # None => runBase \subseteq row.tip

=============================================================================
