CONSTANTS
    NumRegs = 4
    MaxCopies = 4
    Val <- MCVal
    Functions0 <- MCFunctions
SPECIFICATION Spec
INVARIANTS ParallelValues CopiesAreParallel SameBehaviour
PROPERTY PassTerminates
CHECK_DEADLOCK FALSE
