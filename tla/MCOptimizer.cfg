SPECIFICATION Spec
CONSTANTS
    NumRegs = 16
    Width = 2
    Fuel = 12
    Functions0 <- MCFunctions
    Levels = {1, 2}
    Gates = {FALSE, TRUE}
    MaxIterations = 4
    Inputs <- MCInputs
INVARIANTS DominatorsCorrect StrictSSA PhisComplete SameBehaviour Settled
CHECK_DEADLOCK FALSE
