CONSTANTS
    d1 = d1
    d2 = d2
    w1 = w1
    e1 = e1
    None = None
    Nested = Nested
    Identifiers <- MCIdentifiers
    Scopes <- MCScopes
    Actions <- MCActions
    Results <- MCResults
SPECIFICATION Spec
INVARIANT RequestsStayInScope
INVARIANT PreflightSuffices
INVARIANT ReceiptsTruthful
INVARIANT NoErrorPasses
INVARIANT ErrorsKeepTheirCode
INVARIANT LoginUncontradicted
INVARIANT DocumentIsTheOneAsked
