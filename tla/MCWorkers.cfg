CONSTANTS
    Inputs <- MCInputs
    MaxEdits <- MCMaxEdits
    LexicalPosition <- MCLexicalPosition
    Systems <- SummarySystems
    InitiallyValid = {FALSE}
    MaxDepth = 3
    MaxSteps = 20
SPECIFICATION WorkersSpec
INVARIANTS
    PlanIsExactAndBalanced
    OutcomeIsGenuine
    OrderIndependent
    AnswersAreSound
    ConstructorsAreSound
PROPERTIES
    EventuallyReturns
    EveryAskIsAnswered
