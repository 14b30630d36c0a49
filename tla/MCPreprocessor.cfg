CONSTANTS
    Units <- MCUnits
    Home <- MCHome
    Stdlib <- MCStdlib
    IncludeDirs <- MCDirs
    MaxIncludes = 2
    MaxConditions = 3
    MaxMacros = 3
SPECIFICATION Spec
INVARIANT DependenciesAreFilesRead
PROPERTIES DeliversTheText ReadingEnds
CHECK_DEADLOCK FALSE
