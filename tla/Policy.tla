------------------------------- MODULE Policy -------------------------------
(***************************************************************************)
(* validate_and_order (src/onshape_agent/policy.py): the checks every      *)
(* execution plan passes before any of its actions may reach a transport,  *)
(* and the loop that puts them in a dependency-safe order.                 *)
(***************************************************************************)
EXTENDS ExecutionPlans

VARIABLES
    plan,      \* the plan under validation
    phase,     \* "submitted", "ordering", "ordered" or "denied"
    code,      \* the PolicyDenied code, "none" before
    indegree,  \* per action, its dependencies not yet ordered
    ready,     \* queue: it is kept sorted, so the set of its members
    ordered    \* the ids in the order returned

policyVars == <<plan, phase, code, indegree, ready, ordered>>

-----------------------------------------------------------------------------
Emitted == {ordered[i] : i \in DOMAIN ordered}

-----------------------------------------------------------------------------
PolicyInit ==
    /\ plan \in Plans
    /\ phase = "submitted"
    /\ code = "none"
    /\ indegree = [a \in {} |-> 0]
    /\ ready = {}
    /\ ordered = <<>>

Deny ==
    /\ phase = "submitted" /\ StaticDenial(plan) # "none"
    /\ phase' = "denied"
    /\ code' = StaticDenial(plan)
    /\ UNCHANGED <<plan, indegree, ready, ordered>>

InitialDegree(p, a) == Len(Dependencies(p, a))

CountDependencies ==
    /\ phase = "submitted" /\ StaticDenial(plan) = "none"
    /\ phase' = "ordering"
    /\ indegree' = [a \in Ids(plan) |-> InitialDegree(plan, a)]
    /\ ready' = {a \in Ids(plan) : InitialDegree(plan, a) = 0}
    /\ UNCHANGED <<plan, code, ordered>>

\* queue.sort() and queue.pop(0).
NextUp(a) == a \in ready /\ \A b \in ready : a <= b

\* Mutant: an action becomes ready as soon as one of its dependencies is ordered.
BecomesReadyEarly(b, a) == Mentions(plan, b, a) > 0 /\ b \notin Emitted

\* The count of `b` reaches zero when `a` is ordered.
BecomesReady(b, a) ==
    Mentions(plan, b, a) > 0 /\ indegree[b] - Mentions(plan, b, a) = 0

Pop(a) ==
    /\ phase = "ordering" /\ NextUp(a)
    /\ ordered' = Append(ordered, a)
    /\ indegree' = [b \in DOMAIN indegree |-> indegree[b] - Mentions(plan, b, a)]
    /\ ready' = (ready \ {a}) \union {b \in DOMAIN indegree : BecomesReady(b, a)}
    /\ UNCHANGED <<plan, phase, code>>

\* Mutant: an order that misses actions is returned.
FinishPartial ==
    /\ phase = "ordering" /\ ready = {}
    /\ phase' = "ordered"
    /\ UNCHANGED <<plan, code, indegree, ready, ordered>>

Finish ==
    /\ phase = "ordering" /\ ready = {}
    /\ IF Len(ordered) # Len(plan.actions)
       THEN phase' = "denied" /\ code' = "ACTION_CYCLE"
       ELSE phase' = "ordered" /\ UNCHANGED code
    /\ UNCHANGED <<plan, indegree, ready, ordered>>

PolicyNext == Deny \/ CountDependencies \/ (\E a \in ready : Pop(a)) \/ Finish

PolicySpec == PolicyInit /\ [][PolicyNext]_policyVars
FairPolicySpec == PolicySpec /\ WF_policyVars(PolicyNext)

-----------------------------------------------------------------------------
(* Properties.                                                             *)

\* Every variable has its type.
PolicyTypeOK ==
    /\ plan \in Plans
    /\ phase \in {"submitted", "ordering", "ordered", "denied"}
    /\ code \in {"none", "SCOPE_DENIED", "UNRESOLVED_REQUIREMENT",
                 "UNAPPROVED_ASSUMPTION", "OPERATION_NOT_ALLOWED",
                 "DUPLICATE_ACTION_ID", "UNKNOWN_DEPENDENCY", "ACTION_CYCLE"}
    /\ ready \subseteq Ids(plan)
    /\ ordered \in Seq(Ids(plan))
    /\ phase # "submitted" /\ code \in {"none", "ACTION_CYCLE"} =>
          indegree \in [Ids(plan) -> Nat]

Once == \A i, k \in DOMAIN ordered : ordered[i] = ordered[k] => i = k

AfterDependencies ==
    \A i \in DOMAIN ordered : \A j \in DOMAIN Dependencies(plan, ordered[i]) :
        \E k \in 1..(i - 1) : ordered[k] = Dependencies(plan, ordered[i])[j]

\* No action is ordered twice, and each comes after all its dependencies, at
\* every point of the loop and so in the order returned; a repeated dependency
\* does not release it early.
OrderRespectsDependencies == Once /\ AfterDependencies

\* ACTION_CYCLE is the verdict on the plans that have a cycle, and on no others;
\* a plan that is ordered is ordered whole, each action once.
CycleVerdictExact ==
    /\ code = "ACTION_CYCLE" => Cyclic(plan)
    /\ phase = "ordered" =>
          /\ ~Cyclic(plan)
          /\ Emitted = Ids(plan) /\ Once

Topological(p, s) ==
    \A i \in DOMAIN s : \A j \in DOMAIN Dependencies(p, s[i]) :
        \E k \in 1..(i - 1) : s[k] = Dependencies(p, s[i])[j]

Before(s, r) ==
    \E k \in DOMAIN s : s[k] < r[k] /\ \A h \in 1..(k - 1) : s[h] = r[h]

\* The order returned is the least of all the dependency-safe orders of the
\* plan: it depends on the ids and dependencies alone, never on how the plan
\* lists its actions, so equal plans are executed alike.
OrderIsCanonical ==
    phase = "ordered" =>
        \A s \in [1..Len(plan.actions) -> Ids(plan)] :
            Topological(plan, s) /\ s # ordered
            /\ (\A i, k \in DOMAIN s : s[i] = s[k] => i = k) => Before(ordered, s)

\* The verdict is exact and the order canonical: validate is a function of the
\* plan's dependencies, whatever state the loop goes through.
PolicyExact == CycleVerdictExact /\ OrderIsCanonical

\* Validation ends, in an order or a denial.
PolicyDecides == <>(phase \in {"ordered", "denied"})
=============================================================================
