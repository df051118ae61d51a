CONSTANTS
    Graphs <- SoundGraphs
    WorklistOrders = {"fifo", "lifo"}
    StateBudgets = {4, 40}
    DefaultMaxStates = 40
    WitnessLimit = 3
    IterationBudget = 2
    QueryBudget = 4
    Values <- SmallValues
    MaxDepth = 3
    AlternativeLimit = 3
    Branchings <- ConditionBlocks
    Subjects = {"x", "b", "c", "o"}
    MaxPrefix = 1
    MaxSuffix = 2
    NoTag = NoTag
    FunctionBodies <- AliasPrograms
    MaxForeign = 1
    MaxInstructions = 22
SPECIFICATION AnalyzerSpec
INVARIANTS
    SolverMatchesPaths
    SafeIsFeasiblySafe
    ViolationIsFeasible
    WitnessesReplay
    UnsatIsInfeasible
    VerdictsAreBacked
    MustIsSound
    MatchIsGenuine
PROPERTIES
    Terminates
    WorklistsRunDry
