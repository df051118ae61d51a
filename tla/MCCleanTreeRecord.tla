-------------------------- MODULE MCCleanTreeRecord --------------------------
(***************************************************************************)
(* A repository of five paths, three plans, two selections of reviewed     *)
(* paths, and three interchangeable invocations.                           *)
(***************************************************************************)
EXTENDS CleanTreeRecord, TLC

\* notes is not there at first, and no path the first selection names.
MCPaths == {"code", "ledger", "notes", "plan", "paths"}

MCContents ==
    [p \in MCPaths |-> CASE p = "notes" -> {Absent, 1} [] p = "ledger" -> {1, 2, 3}
                         [] p = "plan" -> {1, 2, 3} [] OTHER -> {1, 2}]

\* The second plan reviews notes as an exclusion; the third one calls the selection
\* documentation.
MCPlans ==
    [c \in {1, 2, 3} |-> [excluded |-> IF c = 2 THEN {"notes"} ELSE {},
                         documentation |-> {"ledger"} \cup IF c = 3 THEN {"paths"} ELSE {},
                         pending |-> {"1.1"}]]

MCSelections ==
    [c \in {1, 2} |-> {"code", "ledger", "plan", "paths"} \cup IF c = 2 THEN {"notes"} ELSE {}]

\* The third content of the ledger has its last task done.
MCPending == [c \in {1, 2, 3} |-> IF c = 3 THEN {} ELSE {"1.1"}]

MCInitialTree == [p \in MCPaths |-> IF p = "notes" THEN Absent ELSE 1]

Symmetry == Permutations(Ops)
=============================================================================
