CONSTANTS
    Handles <- MCHandles
    Pids <- MCPids
    Plans <- MCPlans
    ExitCodes = {7}
    Foreign = Foreign
    Alive = Alive
    h1 = h1
    h2 = h2
    p1 = p1
    p2 = p2
SPECIFICATION Spec
INVARIANTS ChildrenAreOwned NothingWrittenOver
PROPERTIES AnswersAreTrue OnlyWaitBlocks
CHECK_DEADLOCK FALSE
