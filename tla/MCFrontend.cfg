CONSTANTS
    Programs <- Language
    Slips <- SomeSlips
    CheckSets <- Checks
    ParseText <- Parsed
    AnalyzeTree <- Analyzed
    LowerTree <- Lowered
    VerifyIR <- Verified
    RunIR <- Executed
    WrittenAs <- Tokens
    MeaningOf <- Meant
    IsTurnedDown <- TurnedDown
    IsMeantOtherwise <- LosesMeaning
    MaxScopes = 7
    MaxSymbols = 6
    MaxLocals = 9
    MaxControl = 7
    Fuel = 60
SPECIFICATION Spec
INVARIANTS ReadsAsWritten RecoveryEnds AcceptedLowers SameMeaning ChecksStop NoSilentLoss
CHECK_DEADLOCK FALSE
