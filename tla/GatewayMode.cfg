CONSTANTS
    Names <- MCNames
    Plans <- OneReadPlans
    Receipts <- GoodReceipts
    ModeMayChange = TRUE
SPECIFICATION Spec
CHECK_DEADLOCK FALSE
INVARIANT LiveCompletion
