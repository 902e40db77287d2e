CONSTANTS
    t1 = t1
    t2 = t2
    NoThread = NoThread
    Threads <- TwoThreads
    Opener = t1
    Closers <- OneThread
    Capacity = 1
    LineKinds <- ShortKinds
    MaxCalls = 2
    MaxLines = 2
SPECIFICATION FairSpec
INVARIANT CloseCleansUp
PROPERTY OperationsReturn
PROPERTY ImplementsSerialRpc
