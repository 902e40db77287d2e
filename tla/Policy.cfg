CONSTANTS
    Names <- MCNames
    Plans <- MCPlans
    Nodes <- MCNodes
    Graphs <- MCGraphs
SPECIFICATION MCSpec
INVARIANT OrderRespectsDependencies
INVARIANT PolicyExact
INVARIANT GraphVerdictExact
INVARIANT VisitsInOrder
PROPERTY ValidationsEnd
CHECK_DEADLOCK FALSE
