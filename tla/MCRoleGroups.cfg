SPECIFICATION GSpec
CONSTANTS
    NewPermissions <- NextPermissions
    NewLists <- NextLists
    MaxFailures = 2
    MaxStarts = 4
    MaxEdits = 1
CHECK_DEADLOCK FALSE
INVARIANTS
    NothingExtra
    OnlyFreshIsMissing
    EveryoneHasGroup
