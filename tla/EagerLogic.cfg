CONSTANTS
    Programs <- EagerLogic
    Slips <- NoSlips
    CheckSets <- Checks
    ParseText <- Parsed
    AnalyzeTree <- Analyzed
    LowerTree <- Lowered
    VerifyIR <- Verified
    RunIR <- Executed
    WrittenAs <- Tokens
    MeaningOf <- Meant
    IsTurnedDown <- TurnedDown
    IsMeantOtherwise <- LosesMeaning
    MaxScopes = 7
    MaxSymbols = 6
    MaxLocals = 9
    MaxControl = 7
    Fuel = 60
SPECIFICATION Spec
INVARIANT AlwaysSameMeaning
CHECK_DEADLOCK FALSE
