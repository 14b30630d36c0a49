CONSTANTS
    VReg = {0, 1, 2}
    MaxIterations = 100
    AllocOrder <- MCOrder
    Reserved <- MCReserved
    CalleeSaved <- MCCalleeSaved
    Scratch = "r11"
    MaxIntervals = 3
    MaxPos = 12
    Locals = 8
    MachineFuncs <- MCFuncs
SPECIFICATION Spec
INVARIANTS LivenessCorrect FewPasses IntervalsCoverLiveness ReadsAgree
CHECK_DEADLOCK FALSE
