--------------------------- MODULE PlanExecution ---------------------------
(***************************************************************************)
(* What the CAD Gateway promises about a plan, whatever the transport does:*)
(* only a plan that is fit is performed at all; each action is performed   *)
(* at most once and after everything it depends on; the plan is completed  *)
(* only when every action has been; it is completed or stopped in the end. *)
(***************************************************************************)
EXTENDS ExecutionPlans

VARIABLES
    job,     \* the plan
    done,    \* the ids of the actions performed and confirmed
    verdict  \* "running", "completed" or "stopped"

abstractVars == <<job, done, verdict>>

\* Said of a plan without reference to how the policy finds it out.
Fit(p) ==
    /\ p.mode = "live" => p.scope = "valid"
    /\ p.assumptions = "settled"
    /\ \A i \in Positions(p) : p.actions[i].values = "settled"
    /\ \A i \in Positions(p) :
          p.actions[i].type \in IF p.mode = "live" THEN {"read_back"}
                                                   ELSE {"read_back", "ensure"}
    /\ UniqueIds(p)
    /\ KnownDependencies(p)
    /\ ~Cyclic(p)

Init ==
    /\ job \in Plans
    /\ done = {}
    /\ verdict = "running"

Perform(a) ==
    /\ verdict = "running" /\ Fit(job)
    /\ a \in Ids(job) \ done
    /\ \A j \in DOMAIN Dependencies(job, a) : Dependencies(job, a)[j] \in done
    /\ done' = done \union {a}
    /\ UNCHANGED <<job, verdict>>

Complete ==
    /\ verdict = "running" /\ Fit(job)
    /\ done = Ids(job)
    /\ verdict' = "completed"
    /\ UNCHANGED <<job, done>>

Stop ==
    /\ verdict = "running"
    /\ verdict' = "stopped"
    /\ UNCHANGED <<job, done>>

Next == (\E a \in Ids(job) : Perform(a)) \/ Complete \/ Stop

Spec == Init /\ [][Next]_abstractVars /\ WF_abstractVars(Next)
=============================================================================
