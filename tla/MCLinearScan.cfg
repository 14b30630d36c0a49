CONSTANTS
    AllocOrder <- MCOrder
    Reserved <- MCReserved
    CalleeSaved <- MCCalleeSaved
    MaxIntervals = 5
    MaxPos = 4
    Locals = 16
SPECIFICATION MCSpec
INVARIANTS NoConflict CallSafe OneHome FrameContract
CHECK_DEADLOCK FALSE
