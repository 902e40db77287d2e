------------------------------ MODULE Gateway ------------------------------
(***************************************************************************)
(* CadGateway.execute (src/onshape_agent/gateway.py): validate and order   *)
(* the plan, snapshot its actions, let the transport preflight all of      *)
(* them, dispatch them one by one, and report.                             *)
(*                                                                         *)
(* The transport is whatever implements the CadTransport protocol: its     *)
(* preflight may accept, refuse, fail or alter the actions it was handed,  *)
(* its dispatch may refuse, fail, return something that is no receipt, or  *)
(* any receipt of Receipts.  While the transport runs, the caller's plan   *)
(* object may change under the gateway: `current` is that object now.      *)
(***************************************************************************)
EXTENDS Policy

CONSTANTS
    Receipts,      \* the receipts a dispatch may return
    ModeMayChange  \* whether the plan object's execution_mode changes too

\* _SAFE_TRANSPORT_CODES; "UNLISTED" stands for every other code, and for none.
SafeCodes == {"AUTH_REQUIRED", "SCOPE_DENIED", "NOT_FOUND", "RATE_LIMITED",
              "INVALID_RESPONSE", "TRANSPORT_UNAVAILABLE", "TRANSPORT_TIMEOUT",
              "TRANSPORT_FAILED", "RESPONSE_TOO_LARGE", "RESPONSE_QUEUE_FULL",
              "VERIFICATION_FAILED"}
ErrorCodes == SafeCodes \union {"UNLISTED"}

\* matches: the receipt names the operation dispatched.
Receipt == [matches : BOOLEAN, status : {"SUCCEEDED", "FAILED"}, sent : BOOLEAN,
            verified : BOOLEAN, error : ErrorCodes]

ASSUME ReceiptsAssumption == Receipts \subseteq Receipt
ASSUME ModeAssumption == ModeMayChange \in BOOLEAN

VARIABLES
    current,     \* the caller's plan object
    stage,       \* "policy", "preflight", "dispatch" or "reported"
    snapshot,    \* the deep copies of the ordered actions
    dispatched,  \* the actions handed to transport.dispatch, in order
    executed,    \* executed: the ids confirmed
    receipts,    \* receipts
    report       \* the GatewayReport returned

runVars == <<current, stage, snapshot, dispatched, executed, receipts, report>>
vars == <<policyVars, runVars>>

NoReport == [status |-> "NONE", code |-> "none", mode |-> "simulated", sent |-> FALSE,
             verified |-> FALSE, executed |-> <<>>, receipts |-> <<>>]

Init ==
    /\ PolicyInit
    /\ current = plan
    /\ stage = "policy"
    /\ snapshot = <<>>
    /\ dispatched = <<>>
    /\ executed = <<>>
    /\ receipts = <<>>
    /\ report = NoReport

-----------------------------------------------------------------------------
(* Reports. They read execution_mode from the plan object as it is then.   *)

NetworkSent(rs) == \E i \in DOMAIN rs : rs[i].sent
ReadbackVerified(rs) == rs # <<>> /\ \A i \in DOMAIN rs : rs[i].verified

SafeCode(c) == IF c \in SafeCodes THEN c ELSE "TRANSPORT_FAILED"

Report(status, why, mode, ids, rs) ==
    /\ stage' = "reported"
    /\ report' = [status |-> status, code |-> why, mode |-> mode,
                  sent |-> NetworkSent(rs), verified |-> ReadbackVerified(rs),
                  executed |-> ids, receipts |-> rs]

Denied(why, mode, ids, rs) == Report("DENIED", why, mode, ids, rs)
Failed(why, mode, ids, rs) == Report("FAILED", SafeCode(why), mode, ids, rs)

-----------------------------------------------------------------------------
(* Before the first dispatch.                                              *)

Validate ==
    /\ stage = "policy"
    /\ PolicyNext
    /\ UNCHANGED runVars

Refuse ==
    /\ stage = "policy" /\ phase = "denied"
    /\ Denied(code, plan.mode, <<>>, <<>>)
    /\ UNCHANGED <<policyVars, current, snapshot, dispatched, executed, receipts>>

TakeSnapshot ==
    /\ stage = "policy" /\ phase = "ordered"
    /\ snapshot' = [i \in DOMAIN ordered |-> ById(plan, ordered[i])]
    /\ stage' = "preflight"
    /\ UNCHANGED <<policyVars, current, dispatched, executed, receipts, report>>

\* The caller's plan object while the transport has control.
PlanMayChange ==
    current' \in {p \in Plans : ModeMayChange \/ p.mode = current.mode}

PreflightAccepts ==
    /\ stage = "preflight"
    /\ PlanMayChange
    /\ stage' = "dispatch"
    /\ UNCHANGED <<policyVars, snapshot, dispatched, executed, receipts, report>>

PreflightDenies ==
    /\ stage = "preflight"
    /\ PlanMayChange
    /\ Denied("TRANSPORT_POLICY", current'.mode, <<>>, <<>>)
    /\ UNCHANGED <<policyVars, snapshot, dispatched, executed, receipts>>

PreflightFails ==
    /\ stage = "preflight"
    /\ PlanMayChange
    /\ \E why \in ErrorCodes : Failed(why, current'.mode, <<>>, <<>>)
    /\ UNCHANGED <<policyVars, snapshot, dispatched, executed, receipts>>

\* The transport altered the actions it was handed: the fingerprints differ.
PreflightAlters ==
    /\ stage = "preflight" /\ snapshot # <<>>
    /\ PlanMayChange
    /\ \E p \in Plans, i \in DOMAIN snapshot :
          /\ p.actions # <<>> /\ p.actions[1] # snapshot[i]
          /\ snapshot' = [snapshot EXCEPT ![i] = p.actions[1]]
    /\ Denied("PLAN_MUTATED", current'.mode, <<>>, <<>>)
    /\ UNCHANGED <<policyVars, dispatched, executed, receipts>>

-----------------------------------------------------------------------------
(* The dispatch loop.                                                      *)

\* Mutant: the loop runs over the plan's own actions.
NextActionOfPlan ==
    IF Len(dispatched) < Len(current.actions) THEN current.actions[Len(dispatched) + 1]
                                              ELSE snapshot[Len(dispatched) + 1]

NextAction == snapshot[Len(dispatched) + 1]

Dispatch ==
    /\ stage = "dispatch" /\ Len(dispatched) < Len(snapshot)
    /\ dispatched' = Append(dispatched, NextAction)
    /\ PlanMayChange

DispatchDenied ==
    /\ Dispatch
    /\ Denied("TRANSPORT_POLICY", current'.mode, executed, receipts)
    /\ UNCHANGED <<policyVars, snapshot, executed, receipts>>

DispatchRaises ==
    /\ Dispatch
    /\ \E why \in ErrorCodes : Failed(why, current'.mode, executed, receipts)
    /\ UNCHANGED <<policyVars, snapshot, executed, receipts>>

DispatchUntyped ==
    /\ Dispatch
    /\ Failed("TRANSPORT_FAILED", current'.mode, executed, receipts)
    /\ UNCHANGED <<policyVars, snapshot, executed, receipts>>

\* What is wrong with the receipt of an action of a plan in this mode.
Shortfall(r, mode) ==
    IF ~r.matches THEN "TRANSPORT_FAILED"
    ELSE IF r.status = "FAILED" THEN SafeCode(r.error)
    ELSE IF mode = "live" /\ ~r.verified THEN "VERIFICATION_FAILED"
    ELSE "none"

\* Mutant: an action counts as executed before its receipt is judged.
DispatchCountsFirst(r) ==
    /\ Dispatch
    /\ receipts' = Append(receipts, r)
    /\ executed' = Append(executed, NextAction.id)
    /\ LET why == Shortfall(r, current'.mode) IN
          IF why # "none" THEN Failed(why, current'.mode, executed', receipts')
                          ELSE UNCHANGED <<stage, report>>
    /\ UNCHANGED <<policyVars, snapshot>>

DispatchReturns(r) ==
    /\ Dispatch
    /\ receipts' = Append(receipts, r)
    /\ LET why == Shortfall(r, current'.mode) IN
          IF why # "none"
          THEN Failed(why, current'.mode, executed, receipts') /\ UNCHANGED executed
          ELSE executed' = Append(executed, NextAction.id) /\ UNCHANGED <<stage, report>>
    /\ UNCHANGED <<policyVars, snapshot>>

Complete ==
    /\ stage = "dispatch" /\ Len(dispatched) = Len(snapshot)
    /\ IF current.mode = "live" /\ ~NetworkSent(receipts)
       THEN Failed("TRANSPORT_FAILED", current.mode, executed, receipts)
       ELSE Report("EXECUTED", "PLAN_EXECUTED", current.mode, executed, receipts)
    /\ UNCHANGED <<policyVars, current, snapshot, dispatched, executed, receipts>>

-----------------------------------------------------------------------------
Preflight == PreflightAccepts \/ PreflightDenies \/ PreflightFails \/ PreflightAlters

DispatchNext == \/ DispatchDenied
                \/ DispatchRaises
                \/ DispatchUntyped
                \/ \E r \in Receipts : DispatchReturns(r)

Next == Validate \/ Refuse \/ TakeSnapshot \/ Preflight \/ DispatchNext \/ Complete

Spec == Init /\ [][Next]_vars

\* The gateway keeps running, and the transport returns from every call.
FairSpec == Spec /\ WF_vars(Next)

-----------------------------------------------------------------------------
(* Properties.                                                             *)

TypeOK ==
    /\ PolicyTypeOK
    /\ current \in Plans
    /\ stage \in {"policy", "preflight", "dispatch", "reported"}
    /\ snapshot \in Seq(Action)
    /\ dispatched \in Seq(Action)
    /\ executed \in Seq(Names)
    /\ receipts \in Seq(Receipt)
    /\ report.status \in {"NONE", "DENIED", "FAILED", "EXECUTED"}

Promise == INSTANCE PlanExecution WITH
    job <- plan, done <- {executed[i] : i \in DOMAIN executed},
    verdict <- CASE stage # "reported" -> "running"
                 [] stage = "reported" /\ report.status = "EXECUTED" -> "completed"
                 [] OTHER -> "stopped"

\* One bad value, type, scope, id, dependency or cycle anywhere in the plan
\* keeps every one of its actions from the transport, and what is dispatched is
\* always an action of the plan that was validated, whatever the transport's
\* preflight or the caller did to their copies in between.
OnlyFitPlansDispatched ==
    \A i \in DOMAIN dispatched :
        /\ Promise!Fit(plan)
        /\ \E k \in Positions(plan) : plan.actions[k] = dispatched[i]

\* An action reaches the transport only after a good receipt for everything it
\* depends on.
DependenciesExecutedFirst ==
    \A i \in DOMAIN dispatched : \A j \in DOMAIN dispatched[i].depends_on :
        \E k \in DOMAIN executed : k < i /\ executed[k] = dispatched[i].depends_on[j]

\* The report accounts for every dispatch: all were executed and have a good
\* receipt, except that the last one may have failed, and nothing follows it.
ReportAccountsForDispatches ==
    stage = "reported" =>
        /\ report.executed = executed
        /\ Len(executed) \in {Len(dispatched), Len(dispatched) - 1}
        /\ \A i \in DOMAIN executed :
              /\ executed[i] = dispatched[i].id
              /\ report.receipts[i].matches /\ report.receipts[i].status = "SUCCEEDED"
        /\ report.status = "EXECUTED" => Len(executed) = Len(ordered)

\* Whatever goes wrong at the k-th dispatch, the actions before it, and only they,
\* were executed in order and are reported.
DispatchesAccounted == DependenciesExecutedFirst /\ ReportAccountsForDispatches

\* A plan submitted as live is reported EXECUTED only as a live execution in
\* which a request was sent and every readback was verified.
LiveCompletion ==
    report.status = "EXECUTED" /\ plan.mode = "live" =>
        report.mode = "live" /\ report.sent /\ report.verified

\* The gateway performs plans as PlanExecution promises, and always reports.
ImplementsPlanExecution == Promise!Spec
=============================================================================
