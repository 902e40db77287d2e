--------------------------- MODULE ExecutionPlans ---------------------------
(***************************************************************************)
(* Execution plans (ExecutionPlan and CadAction of                         *)
(* src/onshape_agent/contracts.py) and what validate_and_order             *)
(* (src/onshape_agent/policy.py) checks of a plan before it orders it.     *)
(*                                                                         *)
(* Action ids are strings that the code sorts: here they are integers.  A  *)
(* design value, however deeply nested, is abstracted to what the policy   *)
(* decides of it; an action type to the allowlists it belongs to; a scope  *)
(* to whether _validate_live_scope accepts it.                             *)
(***************************************************************************)
EXTENDS Integers, Sequences, FiniteSets

CONSTANTS
    Names,  \* the ids actions and dependencies may have
    Plans   \* the plans that may be submitted

Modes  == {"simulated", "live"}
Scopes == {"none", "invalid", "valid"}
\* "settled": KNOWN or an approved ASSUMPTION; "unresolved": UNKNOWN or
\* NEEDS_CONFIRMATION; "unapproved": an ASSUMPTION whose approved is not True.
Values == {"settled", "unresolved", "unapproved"}
Types  == {"read_back", "ensure", "other"}

Action == [id : Names, type : Types, values : Values, depends_on : Seq(Names)]
Plan   == [mode : Modes, scope : Scopes, assumptions : Values, actions : Seq(Action)]

ASSUME NamesAssumption == Names \subseteq Int
ASSUME PlansAssumption == Plans \subseteq Plan

-----------------------------------------------------------------------------
Positions(p) == DOMAIN p.actions
Ids(p) == {p.actions[i].id : i \in Positions(p)}

\* by_id: the action of an id, when ids are unique.
ById(p, a) == p.actions[CHOOSE i \in Positions(p) : p.actions[i].id = a]
Dependencies(p, a) == ById(p, a).depends_on

\* How many times `b` lists `a`: depends_on may repeat an id.
Mentions(p, b, a) ==
    Cardinality({j \in DOMAIN Dependencies(p, b) : Dependencies(p, b)[j] = a})

-----------------------------------------------------------------------------
(* The static checks, in the order the code makes them.                    *)

Allowed(mode) == IF mode = "live" THEN {"read_back"} ELSE {"read_back", "ensure"}

ValueDenial(v) == IF v = "unresolved" THEN "UNRESOLVED_REQUIREMENT"
                                      ELSE "UNAPPROVED_ASSUMPTION"

\* Mutant: only the first action is checked.
Offends1(p, i) ==
    i = 1 /\ (p.actions[i].values # "settled" \/ p.actions[i].type \notin Allowed(p.mode))

Offends(p, i) ==
    p.actions[i].values # "settled" \/ p.actions[i].type \notin Allowed(p.mode)

ActionDenial(p) ==
    LET i == CHOOSE k \in Positions(p) :
                Offends(p, k) /\ \A h \in 1..(k - 1) : ~Offends(p, h)
    IN  IF p.actions[i].values # "settled"
        THEN ValueDenial(p.actions[i].values)
        ELSE "OPERATION_NOT_ALLOWED"

UniqueIds(p) ==
    \A i, k \in Positions(p) : p.actions[i].id = p.actions[k].id => i = k

KnownDependencies(p) ==
    \A i \in Positions(p) : \A j \in DOMAIN p.actions[i].depends_on :
        p.actions[i].depends_on[j] \in Ids(p)

StaticDenial(p) ==
    IF p.mode = "live" /\ p.scope # "valid" THEN "SCOPE_DENIED"
    ELSE IF p.assumptions # "settled" THEN ValueDenial(p.assumptions)
    ELSE IF \E i \in Positions(p) : Offends(p, i) THEN ActionDenial(p)
    ELSE IF ~UniqueIds(p) THEN "DUPLICATE_ACTION_ID"
    ELSE IF ~KnownDependencies(p) THEN "UNKNOWN_DEPENDENCY"
    ELSE "none"

-----------------------------------------------------------------------------
\* A set of actions each of which waits for another of the set: what a finite
\* dependency graph has exactly when it has a cycle.
Knot(p, S) ==
    /\ S # {} /\ S \subseteq Ids(p)
    /\ \A a \in S : \E j \in DOMAIN Dependencies(p, a) : Dependencies(p, a)[j] \in S

Cyclic(p) == \E S \in SUBSET Ids(p) : Knot(p, S)
=============================================================================
