CONSTANTS
    Systems <- Logged
    InitiallyValid = {FALSE}
    MaxDepth = 3
    MaxSteps = 20
SPECIFICATION Spec
INVARIANT ConstructorsAreSound
CHECK_DEADLOCK FALSE
