CONSTANTS
    Ops = {o1, o2, o3}
    None = None
    Torn = Torn
    Paths <- MCPaths
    Contents <- MCContents
    Plans <- MCPlans
    Selections <- MCSelections
    Pending <- MCPending
    Executable = {"plan", "paths"}
    InitialTree <- MCInitialTree
    MaxReports = 1
    MaxEvents = 2
SPECIFICATION Spec
SYMMETRY Symmetry
INVARIANTS
    VerifiedMeansExecuted
    AcceptedIsTheWorktree
    ReuseIsExact
CHECK_DEADLOCK FALSE
