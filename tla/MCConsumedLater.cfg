CONSTANTS
    Systems <- ConsumedLater
    InitiallyValid = {FALSE}
    MaxDepth = 3
    MaxSteps = 20
SPECIFICATION Spec
INVARIANT OrderIndependent
CHECK_DEADLOCK FALSE
