CONSTANTS
    Names <- MCNames
    Plans <- MCPlans
    Receipts <- MCReceipts
    ModeMayChange = FALSE
SPECIFICATION FairSpec
INVARIANT OnlyFitPlansDispatched
INVARIANT DispatchesAccounted
PROPERTY ImplementsPlanExecution
CHECK_DEADLOCK FALSE
