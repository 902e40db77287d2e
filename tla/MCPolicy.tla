------------------------------ MODULE MCPolicy ------------------------------
(* Instances of Policy and TaskGraphs for TLC. *)
EXTENDS Policy, TaskGraphs
LOCAL INSTANCE SequencesExt

Ensure(a, deps) ==
    [id |-> a, type |-> "ensure", values |-> "settled", depends_on |-> deps]
Simulated(actions) ==
    [mode |-> "simulated", scope |-> "none", assumptions |-> "settled", actions |-> actions]

\* Sequences of at most two dependencies: repeated, unknown (9) and self ones too.
Deps(S) == {<<>>} \union {<<a>> : a \in S} \union {<<a, b>> : a \in S, b \in S}

\* Every graph on three actions with at most two dependencies each.
MCNames == {1, 2, 3, 4, 9}
ThreeActionPlans ==
    {Simulated(<<Ensure(2, d), Ensure(3, e), Ensure(1, f)>>) :
        d \in Deps({1, 2, 3, 9}), e \in Deps({1, 2, 3, 9}), f \in Deps({1, 2, 3, 9})}

\* Every graph on four actions without repetitions or self dependencies.
Others(a) == {SetToSeq(S) : S \in SUBSET ({1, 2, 3, 4} \ {a})}
FourActionPlans ==
    {Simulated(<<Ensure(3, d), Ensure(1, e), Ensure(4, f), Ensure(2, g)>>) :
        d \in Others(3), e \in Others(1), f \in Others(4), g \in Others(2)}

\* One- and two-action plans with every defect a static check looks for.
MixedActions == [id : {1, 2}, type : Types, values : Values, depends_on : {<<>>, <<1>>}]
DefectivePlans ==
    [mode : Modes, scope : Scopes, assumptions : Values,
     actions : {<<>>} \union {<<a>> : a \in MixedActions}
                      \union {<<a, b>> : a \in MixedActions, b \in MixedActions}]

MCPlans == ThreeActionPlans \union FourActionPlans \union DefectivePlans

-----------------------------------------------------------------------------
\* The graphs of the orchestrator, and every graph of up to three nodes (one of
\* them maybe twice) with up to four edges, repeated ones and unknown ends too.
MCNodes == {1, 2, 3, 4, 5, 6, 9}
SmallEdges == [source : {1, 2, 3}, target : {1, 2, 3}]
MCGraphs ==
    {SelectGraph(kind) : kind \in DOMAIN Capabilities}
    \union [nodes : {<<1, 2, 3>>}, edges : UNION {[1..n -> SmallEdges] : n \in 0..4}]
    \union [nodes : {<<1>>, <<1, 1>>, <<1, 2>>, <<2, 1, 2>>},
            edges : UNION {[1..n -> [source : {1, 2, 9}, target : {1, 2, 9}]] : n \in 0..2}]

\* One of the two validations; the other rests.
EmptyPlan == Simulated(<<>>)
MCInit ==
    \/ PolicyInit /\ graph = NoGraph /\ verdict = "valid" /\ pending = <<>>
                  /\ queue = {} /\ visited = <<>>
    \/ GraphInit /\ plan = EmptyPlan /\ phase = "ordered" /\ code = "none"
                 /\ indegree = <<>> /\ ready = {} /\ ordered = <<>>
MCNext ==
    \/ PolicyNext /\ UNCHANGED graphVars
    \/ GraphNext /\ UNCHANGED policyVars
MCSpec == MCInit /\ [][MCNext]_<<policyVars, graphVars>> /\ WF_<<policyVars, graphVars>>(MCNext)

\* The validation of every plan and of every task graph ends, with a verdict.
GraphDecides == <>(verdict \notin {"made", "visiting"})
ValidationsEnd == PolicyDecides /\ GraphDecides
=============================================================================
