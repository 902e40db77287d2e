CONSTANTS
    c1 = c1
    c2 = c2
    k1 = k1
    NoHome = NoHome
    CodexHomes <- TwoCodex
    ClaudeHomes <- OneClaude
    Disks <- EmptyDisk
    MaxRuns = 3
    MaxErrors = 0
SPECIFICATION FailureFree
INVARIANT SharedOutlives
CHECK_DEADLOCK FALSE
