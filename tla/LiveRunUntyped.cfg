CONSTANTS
    d1 = d1
    Document = d1
    None = None
    Nested = Nested
    Identifiers <- MCIdentifiers
    Names <- MCNames
    Plans <- MCPlans
    ModeMayChange = FALSE
    Commands <- MCCommands
    Results <- UntypedResults
    Errors <- MCErrors
    Receipts = {}
SPECIFICATION SpecRun
INVARIANT NoHiddenRequest
