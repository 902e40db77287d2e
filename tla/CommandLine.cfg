CONSTANTS
    d1 = d1
    w1 = w1
    w2 = w2
    Document = d1
    None = None
    Nested = Nested
    Identifiers <- MCIdentifiers
    Names <- CommandIds
    Plans <- CommandPlans
    ModeMayChange = FALSE
    Commands <- MCCommands
    Results <- MCResults
    Errors <- MCErrors
    Receipts = {}
    Writers <- MCWriters
    Configs <- MCConfigs
    Invocations <- MCInvocations
SPECIFICATION CommandSpec
INVARIANT CommandTypeOK
INVARIANT FilesAgree
INVARIANT NoHiddenRequest
INVARIANT SuccessIsWhole
INVARIANT ExitIsTruthful
INVARIANT DoctorTellsTheTruth
INVARIANT DemoLogTruthful
INVARIANT ConfigWhole
INVARIANT WritersLeaveCleanly
INVARIANT StatusSeesConfig
PROPERTY CommandEnds
