CONSTANTS
    t1 = t1
    t2 = t2
    NoThread = NoThread
    Threads <- TwoThreads
    Opener = t1
    Closers <- TwoThreads
    Capacity = 2
    LineKinds <- AllKinds
    MaxCalls = 2
    MaxLines = 3
SPECIFICATION Spec
INVARIANT TypeOK
INVARIANT OneRequestAtATime
INVARIANT AnswersMatch
INVARIANT FlagIsTruthful
PROPERTY FailClosedAfterOverflow
PROPERTY RequestIdsIncrease
