CONSTANTS
    Graphs <- LoopFirst
    WorklistOrders = {"fifo", "lifo"}
    StateBudgets = {4, 40}
    DefaultMaxStates = 40
    WitnessLimit = 3
    IterationBudget = 2
    QueryBudget = 4
    Values <- SmallValues
    MaxDepth = 3
SPECIFICATION Spec
INVARIANT SafeIsFeasiblySafe
