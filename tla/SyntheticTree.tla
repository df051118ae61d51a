---------------------------- MODULE SyntheticTree ----------------------------
(***************************************************************************)
(* The tree a clean-tree record is about (materialize.go, diff_census.go,  *)
(* snapshot.go, inputs.go of internal/cleantreeevidence): a base commit    *)
(* with the reviewed paths taken from the worktree, and the census of      *)
(* everything that differs from that base.                                 *)
(*                                                                         *)
(* A commit is the sequence of the trees committed up to it.  Nothing is   *)
(* staged without being committed: the index is that of HEAD.  Ignored     *)
(* files and the evidence file are no paths of the model.                  *)
(***************************************************************************)
EXTENDS Sequences, SequencesExt

CONSTANTS Paths,        \* the repository's paths
          Contents,     \* what each path may hold; Absent for no file
          Plans,        \* plan and ownership manifest, by the content of "plan"
          Selections,   \* selected paths, by the content of "paths"
          Pending,      \* pending tasks, by the content of the ledger "ledger"
          Executable    \* paths a gate executes or reads

Absent == 0

ProofInputs == {"plan", "paths", "ledger"}

ASSUME SyntheticTreeAssumption ==
    /\ ProofInputs \subseteq Paths /\ Executable \subseteq Paths
    /\ DOMAIN Contents = Paths
    /\ Contents["plan"] \subseteq DOMAIN Plans
    /\ Contents["paths"] \subseteq DOMAIN Selections
    /\ Contents["ledger"] \subseteq DOMAIN Pending

Trees == {t \in [Paths -> UNION {Contents[p] : p \in Paths}] :
            \A p \in Paths : t[p] \in Contents[p]}

PlanOf(tree) == Plans[tree["plan"]]
SelectedBy(tree) == Selections[tree["paths"]]

\* validateProofInputsSelected.
ProofInputsSelected(tree) == ProofInputs \subseteq SelectedBy(tree)

\* SnapshotCallerState: the index and every file git sees.
Snapshot(files, head) == [index |-> Last(head), worktree |-> files]

\* WorkspaceDigest of the gate: every tracked path, deleted or not, and every other file.
WorkspaceDigest(files, index) ==
    [p \in {q \in Paths : files[q] # Absent \/ index[q] # Absent} |-> files[p]]

-----------------------------------------------------------------------------
(* materializeFromBase.                                                    *)

\* Decode and Validate of the ownership manifest: what a gate executes or reads is not
\* documentation.
ManifestIsValid(tree) == PlanOf(tree).documentation \cap Executable = {}

\* classTreeDigests, by the manifest of the tree itself.
Semantic(tree) == [p \in Paths \ PlanOf(tree).documentation |-> tree[p]]
Prose(tree) == [p \in PlanOf(tree).documentation |-> tree[p]]

\* git read-tree of the base, then git add -A of the selected paths.
Staged(files, base) ==
    [p \in Paths |-> IF p \in SelectedBy(files) THEN files[p] ELSE Last(base)[p]]

\* The identity of the materialization, if there is one: git add refuses a path that matches
\* nothing.
Materialized(files, base) ==
    LET tree == Staged(files, base)
        matches(p) == files[p] # Absent \/ Last(base)[p] # Absent
    IN  IF (\A p \in SelectedBy(files) : matches(p)) /\ ManifestIsValid(tree)
        THEN {[base |-> base, tree |-> tree, selected |-> SelectedBy(files)]}
        ELSE {}

\* requireRetainedBaseAncestor.
IsAncestor(base, head) == IsPrefix(base, head)

-----------------------------------------------------------------------------
(* collectDiffCensus.                                                      *)

IsTracked(p, head) == Last(head)[p] # Absent

\* git diff --name-status against the base, for the paths of the base and of the index.
TrackedStatus(p, files, head, base) ==
    LET then == Last(base)[p]
        now == IF IsTracked(p, head) THEN files[p] ELSE Absent
    IN  CASE then = now -> "unchanged"
          [] then # now /\ then = Absent -> "A"
          [] then # now /\ now = Absent -> "D"
          [] OTHER -> "M"

IsUntracked(p, files, head) == ~IsTracked(p, head) /\ files[p] # Absent

\* Mutant of ChangedPaths: the files that were never added are not looked for.
TrackedChangedPaths(files, head, base) ==
    {p \in Paths : TrackedStatus(p, files, head, base) # "unchanged"}

\* changedPathStatuses.
ChangedPaths(files, head, base) ==
    {p \in Paths : \/ TrackedStatus(p, files, head, base) # "unchanged"
                   \/ IsUntracked(p, files, head)}

\* A path that is deleted in the index and there again is listed twice.
ListedTwice(p, files, head, base) ==
    TrackedStatus(p, files, head, base) # "unchanged" /\ IsUntracked(p, files, head)

\* changedPathIdentity.
ChangedPathIdentity(p, files, head, base, selected) ==
    [status |-> IF IsUntracked(p, files, head) THEN "A" ELSE TrackedStatus(p, files, head, base),
     content |-> files[p],
     disposition |-> IF p \in selected THEN "selected" ELSE "reviewed-exclusion"]

\* The census, if every changed path is selected or reviewed and every review is needed.
Census(files, head, base, selected, excluded) ==
    LET changed == ChangedPaths(files, head, base)
    IN  IF /\ excluded \cap selected = {}
           /\ \A p \in changed : ~ListedTwice(p, files, head, base)
           /\ changed \subseteq selected \cup excluded
           /\ excluded \subseteq changed
        THEN {[base |-> base, excluded |-> excluded,
               changes |-> [p \in changed |->
                              ChangedPathIdentity(p, files, head, base, selected)]]}
        ELSE {}

-----------------------------------------------------------------------------
(* inputs.go.                                                              *)

\* collectInputs.
Inputs(tree) == [p \in ProofInputs |-> tree[p]]

\* collectTaskLedgers: the plan says which tasks of the ledger are pending.
LedgersMatch(tree, plan) == Pending[tree["ledger"]] = plan.pending
=============================================================================
