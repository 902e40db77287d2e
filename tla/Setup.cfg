CONSTANTS
    c1 = c1
    c2 = c2
    k1 = k1
    NoHome = NoHome
    CodexHomes <- OneCodex
    ClaudeHomes <- OneClaude
    Disks <- MCDisks
    MaxRuns = 2
    MaxErrors = 2
SPECIFICATION Spec
INVARIANT TypeOK
INVARIANT NothingLost
INVARIANT FailureRestores
INVARIANT ForeignUntouched
INVARIANT OwnershipHolds
CHECK_DEADLOCK FALSE
