SPECIFICATION Spec
CONSTANTS
    NumRegs = 16
    Width = 2
    Fuel = 12
    Functions0 <- EmptyLoop
    Levels = {1}
    Gates = {TRUE}
    MaxIterations = 4
    Inputs <- MCInputs
INVARIANT SameBehaviour
CHECK_DEADLOCK FALSE
