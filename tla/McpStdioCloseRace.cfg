CONSTANTS
    t1 = t1
    t2 = t2
    NoThread = NoThread
    Threads <- TwoThreads
    Opener = t1
    Closers <- TwoThreads
    Capacity = 1
    LineKinds <- ShortKinds
    MaxCalls = 1
    MaxLines = 1
SPECIFICATION Spec
INVARIANT CloseCleansUp
