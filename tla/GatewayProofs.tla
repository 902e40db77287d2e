--------------------------- MODULE GatewayProofs ---------------------------
(***************************************************************************)
(* Theorems about Gateway for every plan, and for every transport: whatever*)
(* it answers, alters, refuses or raises, and however the caller's plan    *)
(* object changes meanwhile.                                               *)
(***************************************************************************)
EXTENDS Gateway, PolicyProofs

(* The inductive invariant.                                                *)

\* What the deep copies of the ordered actions are.
Copies == [i \in DOMAIN ordered |-> ById(plan, ordered[i])]

\* Nothing is dispatched before the dispatch loop, and only of a plan that was
\* ordered; the snapshot is what was taken of it as long as it is used.
Staged ==
    /\ stage \in {"policy", "preflight"} =>
          dispatched = <<>> /\ executed = <<>> /\ receipts = <<>>
    /\ stage \in {"preflight", "dispatch"} => phase = "ordered" /\ snapshot = Copies
    /\ dispatched # <<>> => phase = "ordered"
    /\ stage # "reported" => report.status = "NONE"

\* The loop dispatches in the order found; all it dispatched is executed and has
\* a good receipt, but for the last one when the loop has stopped.
InOrder ==
    /\ Len(dispatched) <= Len(ordered)
    /\ Len(executed) \in {Len(dispatched), Len(dispatched) - 1}
    /\ Len(receipts) \in Len(executed)..Len(dispatched)
    /\ stage # "reported" => Len(executed) = Len(dispatched)
    /\ \A i \in DOMAIN dispatched : dispatched[i] = ById(plan, ordered[i])
    /\ \A i \in DOMAIN executed :
          /\ executed[i] = ordered[i]
          /\ receipts[i].matches /\ receipts[i].status = "SUCCEEDED"

\* The report says what was done.
Reported ==
    stage = "reported" =>
        /\ report.executed = executed /\ report.receipts = receipts
        /\ report.status = "EXECUTED" => phase = "ordered" /\ Len(executed) = Len(ordered)

GatewayInv == TypeOK /\ OrderInv /\ Staged /\ InOrder /\ Reported

\* In a run whose plan keeps its execution mode, every receipt of an executed
\* action of a live plan is verified, and completion was judged as live.
ModeKept ==
    /\ current.mode = plan.mode
    /\ plan.mode = "live" => \A i \in DOMAIN executed : receipts[i].verified
    /\ report.status = "EXECUTED" =>
          /\ report.mode = plan.mode
          /\ Len(receipts) = Len(executed)
          /\ report.sent = NetworkSent(receipts)
          /\ report.verified = ReadbackVerified(receipts)
          /\ plan.mode = "live" => NetworkSent(receipts)

-----------------------------------------------------------------------------
(* Facts the actions share.                                                *)

\* The policy's variables change only while the policy runs, and its invariant
\* is kept throughout.
LEMMA PolicyKept == OrderInv /\ UNCHANGED policyVars => OrderInv' /\ PolicyTypeOK'
BY OrderInvNext DEF OrderInv

\* The copy of the i-th ordered action is an action of the plan, the one with
\* that id.
LEMMA CopyIsAction ==
  ASSUME OrderInv, NEW i \in DOMAIN ordered
  PROVE  /\ ordered[i] \in Ids(plan)
         /\ ById(plan, ordered[i]) \in Action
         /\ ById(plan, ordered[i]).id = ordered[i]
         /\ \E k \in Positions(plan) : plan.actions[k] = ById(plan, ordered[i])
<1>1. plan \in Plan /\ ordered[i] \in Ids(plan)
  BY PlansAssumption DEF OrderInv, PolicyTypeOK
<1>2. PICK k \in Positions(plan) :
         plan.actions[k].id = ordered[i] /\ ById(plan, ordered[i]) = plan.actions[k]
  BY <1>1, ByIdFinds
<1>3. plan.actions \in Seq(Action)
  BY <1>1 DEF Plan
<1>4. plan.actions[k] \in Action
  BY <1>2, <1>3 DEF Positions
<1> QED
  BY <1>1, <1>2, <1>4

\* An id of a plan is a name.
LEMMA IdIsName == ASSUME NEW p \in Plan, NEW a \in Ids(p) PROVE a \in Names
<1>1. p.actions \in Seq(Action)
  BY DEF Plan
<1>2. \A i \in Positions(p) : p.actions[i] \in Action
  BY <1>1 DEF Positions
<1> QED
  BY <1>2 DEF Ids, Action

\* What a report is made of.
LEMMA ReportFacts ==
  ASSUME NEW status \in {"DENIED", "FAILED", "EXECUTED"}, NEW why, NEW mode, NEW ids, NEW rs,
         Report(status, why, mode, ids, rs)
  PROVE  /\ stage' = "reported" /\ report'.status = status /\ report'.mode = mode
         /\ report'.executed = ids /\ report'.receipts = rs
         /\ report'.sent = NetworkSent(rs) /\ report'.verified = ReadbackVerified(rs)
BY DEF Report

\* A report that is not of completion, with what was executed.
LEMMA StopReport ==
  ASSUME NEW why, NEW mode, NEW ids, NEW rs,
         Denied(why, mode, ids, rs) \/ Failed(why, mode, ids, rs)
  PROVE  /\ stage' = "reported" /\ report'.status \in {"DENIED", "FAILED"}
         /\ report'.executed = ids /\ report'.receipts = rs
BY ReportFacts DEF Denied, Failed

\* The next dispatch hands over the copy of the next ordered action.
LEMMA Dispatching ==
  ASSUME GatewayInv, Dispatch
  PROVE  /\ stage = "dispatch" /\ phase = "ordered"
         /\ Len(dispatched) \in Nat /\ Len(ordered) \in Nat
         /\ Len(dispatched) < Len(ordered)
         /\ Len(executed) = Len(dispatched) /\ Len(receipts) = Len(dispatched)
         /\ NextAction = ById(plan, ordered[Len(dispatched) + 1])
         /\ NextAction \in Action
         /\ NextAction.id = ordered[Len(dispatched) + 1] /\ NextAction.id \in Names
         /\ dispatched' \in Seq(Action) /\ Len(dispatched') = Len(dispatched) + 1
         /\ dispatched' # <<>>
         /\ \A i \in DOMAIN dispatched' : dispatched'[i] = ById(plan, ordered[i])
         /\ current' \in Plans
<1>1. /\ stage = "dispatch" /\ phase = "ordered" /\ snapshot = Copies
      /\ dispatched \in Seq(Action) /\ ordered \in Seq(Ids(plan)) /\ plan \in Plan
      /\ executed \in Seq(Names) /\ receipts \in Seq(Receipt)
      /\ Len(dispatched) < Len(snapshot) /\ OrderInv /\ Len(executed) = Len(dispatched)
      /\ Len(receipts) \in Len(executed)..Len(dispatched)
  BY PlansAssumption DEF Dispatch, GatewayInv, Staged, InOrder, TypeOK, OrderInv, PolicyTypeOK
<1>2. /\ Len(snapshot) = Len(ordered) /\ DOMAIN ordered = 1..Len(ordered)
      /\ Len(ordered) \in Nat /\ Len(dispatched) \in Nat
      /\ \A i \in 1..Len(ordered) : snapshot[i] = ById(plan, ordered[i])
  BY <1>1 DEF Copies
<1>3. Len(dispatched) + 1 \in DOMAIN ordered
  BY <1>1, <1>2
<1>4. NextAction = ById(plan, ordered[Len(dispatched) + 1])
  BY <1>2, <1>3 DEF NextAction
<1>5. /\ NextAction \in Action /\ NextAction.id = ordered[Len(dispatched) + 1]
      /\ NextAction.id \in Names
  BY <1>1, <1>3, <1>4, CopyIsAction DEF Action
<1>6. /\ dispatched' \in Seq(Action) /\ Len(dispatched') = Len(dispatched) + 1
      /\ DOMAIN dispatched' = 1..(Len(dispatched) + 1)
      /\ dispatched'[Len(dispatched) + 1] = NextAction
      /\ \A i \in 1..Len(dispatched) : dispatched'[i] = dispatched[i]
  BY <1>1, <1>5 DEF Dispatch
<1>7. \A i \in DOMAIN dispatched' : dispatched'[i] = ById(plan, ordered[i])
  <2>1. \A i \in 1..Len(dispatched) : dispatched[i] = ById(plan, ordered[i])
    BY <1>1 DEF GatewayInv, InOrder
  <2> QED
    BY <1>2, <1>4, <1>6, <2>1
<1>8. current' \in Plans
  BY DEF Dispatch, PlanMayChange
<1>9. Len(receipts) = Len(dispatched)
  BY <1>1, <1>2
<1> QED
  BY <1>1, <1>2, <1>4, <1>5, <1>6, <1>7, <1>8, <1>9

-----------------------------------------------------------------------------
(* Every step keeps the invariant.                                         *)

\* The invariant holds of a plan that is submitted.
LEMMA GatewayInvInit == Init => GatewayInv
<1> SUFFICES ASSUME Init PROVE GatewayInv
  OBVIOUS
<1>1. OrderInv
  BY OrderInvInit DEF Init
<1>2. TypeOK
  BY <1>1 DEF OrderInv, TypeOK, Init, PolicyInit, NoReport
<1> QED
  BY <1>1, <1>2 DEF GatewayInv, Init, PolicyInit, NoReport, Staged, InOrder, Reported

\* Before the loop: the policy, the snapshot and the preflight.
LEMMA BeforeLoopKeeps ==
  GatewayInv /\ (Validate \/ Refuse \/ TakeSnapshot \/ Preflight) => GatewayInv'
<1> SUFFICES ASSUME GatewayInv, Validate \/ Refuse \/ TakeSnapshot \/ Preflight
             PROVE  GatewayInv'
  OBVIOUS
<1>1. OrderInv' /\ PolicyTypeOK'
  <2>1. [PolicyNext]_policyVars
    BY DEF Validate, Refuse, TakeSnapshot, Preflight, PreflightAccepts, PreflightDenies,
       PreflightFails, PreflightAlters
  <2> QED
    BY <2>1, OrderInvNext DEF GatewayInv, OrderInv
<1>2. stage \in {"policy", "preflight"}
      /\ dispatched = <<>> /\ executed = <<>> /\ receipts = <<>>
  BY DEF GatewayInv, Staged, Validate, Refuse, TakeSnapshot, Preflight, PreflightAccepts,
     PreflightDenies, PreflightFails, PreflightAlters
<1>3. /\ dispatched' = <<>> /\ executed' = <<>> /\ receipts' = <<>>
  BY <1>2 DEF Validate, runVars, Refuse, TakeSnapshot, Preflight, PreflightAccepts,
     PreflightDenies, PreflightFails, PreflightAlters
<1>4. InOrder'
  <2>1. Len(ordered') \in Nat
    BY <1>1 DEF PolicyTypeOK
  <2> QED
    BY <1>3, <2>1 DEF InOrder
<1>5. CASE Validate
  BY <1>1, <1>2, <1>3, <1>4, <1>5 DEF Validate, runVars, GatewayInv, TypeOK, Staged, Reported
<1>6. CASE Refuse
  <2>1. /\ stage' = "reported" /\ report'.status \in {"DENIED", "FAILED"}
        /\ report'.executed = <<>> /\ report'.receipts = <<>>
    BY <1>6, StopReport DEF Refuse
  <2> QED
    BY <1>1, <1>2, <1>3, <1>4, <1>6, <2>1
       DEF Refuse, GatewayInv, TypeOK, Staged, Reported
<1>7. CASE TakeSnapshot
  <2>1. snapshot' = Copies /\ snapshot' = Copies'
    BY <1>7 DEF TakeSnapshot, Copies, policyVars
  <2>2. Copies \in Seq(Action)
    <3>1. \A i \in DOMAIN ordered : ById(plan, ordered[i]) \in Action
      BY CopyIsAction DEF GatewayInv
    <3>2. DOMAIN ordered = 1..Len(ordered) /\ Len(ordered) \in Nat
      BY DEF GatewayInv, OrderInv, PolicyTypeOK
    <3> QED
      BY <3>1, <3>2 DEF Copies
  <2> QED
    BY <1>1, <1>2, <1>3, <1>4, <1>7, <2>1, <2>2
       DEF TakeSnapshot, policyVars, GatewayInv, TypeOK, Staged, Reported
<1>8. CASE PreflightAccepts
  <2>1. Copies' = Copies
    BY <1>8 DEF PreflightAccepts, policyVars, Copies
  <2> QED
    BY <1>1, <1>2, <1>3, <1>4, <1>8, <2>1
       DEF PreflightAccepts, PlanMayChange, policyVars, GatewayInv, TypeOK, Staged, Reported
<1>9. CASE PreflightDenies \/ PreflightFails \/ PreflightAlters
  <2>1. /\ stage' = "reported" /\ report'.status \in {"DENIED", "FAILED"}
        /\ report'.executed = <<>> /\ report'.receipts = <<>>
    BY <1>9, StopReport DEF PreflightDenies, PreflightFails, PreflightAlters
  <2>2. current' \in Plans
    BY <1>9 DEF PreflightDenies, PreflightFails, PreflightAlters, PlanMayChange
  <2>3. snapshot' \in Seq(Action)
    <3>1. CASE PreflightAlters
      <4>1. PICK p \in Plans, i \in DOMAIN snapshot :
               p.actions # <<>> /\ snapshot' = [snapshot EXCEPT ![i] = p.actions[1]]
        BY <3>1 DEF PreflightAlters
      <4>2. p.actions \in Seq(Action)
        BY PlansAssumption DEF Plan
      <4>3. p.actions[1] \in Action
        BY <4>1, <4>2
      <4>4. snapshot \in Seq(Action)
        BY DEF GatewayInv, TypeOK
      <4> QED
        BY <4>1, <4>3, <4>4
    <3> QED
      BY <1>9, <3>1 DEF PreflightDenies, PreflightFails, GatewayInv, TypeOK
  <2> QED
    BY <1>1, <1>3, <1>4, <2>1, <2>2, <2>3 DEF GatewayInv, TypeOK, Staged, Reported
<1> QED
  BY <1>5, <1>6, <1>7, <1>8, <1>9 DEF Preflight

\* A dispatch that is refused, raises or returns no receipt stops the run.
LEMMA DispatchStopKeeps ==
  GatewayInv /\ (DispatchDenied \/ DispatchRaises \/ DispatchUntyped) => GatewayInv'
<1> SUFFICES ASSUME GatewayInv, DispatchDenied \/ DispatchRaises \/ DispatchUntyped
             PROVE  GatewayInv'
  OBVIOUS
<1>1. /\ Dispatch /\ UNCHANGED policyVars /\ executed' = executed
      /\ receipts' = receipts /\ snapshot' = snapshot
      /\ plan' = plan /\ ordered' = ordered /\ phase' = phase
  BY DEF DispatchDenied, DispatchRaises, DispatchUntyped, policyVars
<1>2. /\ stage' = "reported" /\ report'.status \in {"DENIED", "FAILED"}
      /\ report'.executed = executed /\ report'.receipts = receipts
  BY StopReport DEF DispatchDenied, DispatchRaises, DispatchUntyped
<1>3. OrderInv' /\ PolicyTypeOK'
  BY <1>1, PolicyKept DEF GatewayInv
<1>4. TypeOK'
  BY <1>1, <1>2, <1>3, Dispatching DEF GatewayInv, TypeOK
<1>5. InOrder'
  <2>1. \A i \in DOMAIN dispatched' : dispatched'[i] = ById(plan', ordered'[i])
    BY <1>1, Dispatching
  <2>2. /\ Len(dispatched') <= Len(ordered')
        /\ Len(executed') = Len(dispatched') - 1
        /\ Len(receipts') \in Len(executed')..Len(dispatched')
    BY <1>1, Dispatching
  <2> QED
    BY <1>1, <1>2, <2>1, <2>2 DEF GatewayInv, InOrder
<1> QED
  BY <1>1, <1>2, <1>3, <1>4, <1>5, Dispatching DEF GatewayInv, Staged, Reported

\* A receipt is judged: the action is executed, or the run stops at it.
LEMMA DispatchReturnsKeeps ==
  ASSUME GatewayInv, NEW r \in Receipt, DispatchReturns(r)
  PROVE  GatewayInv'
<1> DEFINE n == Len(dispatched)
           why == Shortfall(r, current'.mode)
<1>1. /\ Dispatch /\ UNCHANGED policyVars /\ receipts' = Append(receipts, r)
      /\ snapshot' = snapshot /\ plan' = plan /\ ordered' = ordered /\ phase' = phase
  BY DEF DispatchReturns, policyVars
<1>2. OrderInv' /\ PolicyTypeOK'
  BY <1>1, PolicyKept DEF GatewayInv
<1>3. /\ r \in Receipt /\ receipts \in Seq(Receipt) /\ executed \in Seq(Names)
      /\ receipts' \in Seq(Receipt) /\ Len(receipts') = Len(receipts) + 1
      /\ receipts'[Len(receipts) + 1] = r
      /\ \A i \in 1..Len(receipts) : receipts'[i] = receipts[i]
  BY <1>1 DEF GatewayInv, TypeOK
<1>4. \A i \in DOMAIN dispatched' : dispatched'[i] = ById(plan', ordered'[i])
  BY <1>1, Dispatching
<1>5. \A i \in DOMAIN executed : /\ executed[i] = ordered'[i]
                                 /\ receipts'[i].matches /\ receipts'[i].status = "SUCCEEDED"
  BY <1>1, <1>3, Dispatching DEF GatewayInv, InOrder
<1>6. CASE why # "none"
  <2>1. executed' = executed /\ Failed(why, current'.mode, executed, receipts')
    BY <1>6 DEF DispatchReturns
  <2>2. /\ stage' = "reported" /\ report'.status \in {"DENIED", "FAILED"}
        /\ report'.executed = executed' /\ report'.receipts = receipts'
    BY <2>1, StopReport
  <2>3. TypeOK'
    BY <1>1, <1>2, <1>3, <2>1, <2>2, Dispatching DEF GatewayInv, TypeOK
  <2>4. InOrder'
    BY <1>1, <1>3, <1>4, <1>5, <2>1, <2>2, Dispatching DEF InOrder
  <2> QED
    BY <1>1, <1>2, <2>2, <2>3, <2>4, Dispatching DEF GatewayInv, Staged, Reported
<1>7. CASE why = "none"
  <2>1. executed' = Append(executed, NextAction.id) /\ stage' = stage /\ report' = report
    BY <1>7 DEF DispatchReturns
  <2>2. r.matches /\ r.status = "SUCCEEDED"
    BY <1>3, <1>7 DEF Shortfall, SafeCode, SafeCodes, Receipt
  <2>3. /\ executed' \in Seq(Names) /\ Len(executed') = n + 1
        /\ executed'[n + 1] = ordered[n + 1]
        /\ \A i \in 1..n : executed'[i] = executed[i]
    BY <1>1, <1>3, <2>1, Dispatching
  <2>4. TypeOK'
    BY <1>1, <1>2, <1>3, <2>1, <2>3, Dispatching DEF GatewayInv, TypeOK
  <2>5. \A i \in DOMAIN executed' : /\ executed'[i] = ordered'[i]
                                    /\ receipts'[i].matches
                                    /\ receipts'[i].status = "SUCCEEDED"
    BY <1>1, <1>3, <1>5, <2>2, <2>3, Dispatching
  <2>6. InOrder'
    BY <1>1, <1>3, <1>4, <2>3, <2>5, Dispatching DEF InOrder
  <2>7. Copies' = Copies
    BY <1>1 DEF Copies
  <2> QED
    BY <1>1, <1>2, <2>1, <2>4, <2>6, <2>7, Dispatching DEF GatewayInv, Staged, Reported
<1> QED
  BY <1>6, <1>7

\* The loop ends: everything ordered has been executed.
LEMMA CompleteKeeps == GatewayInv /\ Complete => GatewayInv'
<1> SUFFICES ASSUME GatewayInv, Complete PROVE GatewayInv'
  OBVIOUS
<1>1. /\ UNCHANGED policyVars /\ executed' = executed /\ receipts' = receipts
      /\ dispatched' = dispatched /\ snapshot' = snapshot /\ current' = current
      /\ plan' = plan /\ ordered' = ordered /\ phase' = phase
      /\ stage = "dispatch" /\ Len(dispatched) = Len(snapshot)
  BY DEF Complete, policyVars
<1>2. OrderInv' /\ PolicyTypeOK'
  BY <1>1, PolicyKept DEF GatewayInv
<1>3. /\ stage' = "reported" /\ report'.status \in {"DENIED", "FAILED", "EXECUTED"}
      /\ report'.executed = executed /\ report'.receipts = receipts
  BY ReportFacts, StopReport DEF Complete
<1>4. phase = "ordered" /\ Len(executed) = Len(ordered)
  <2>1. snapshot = Copies /\ Len(executed) = Len(snapshot) /\ phase = "ordered"
    BY <1>1 DEF GatewayInv, Staged, InOrder
  <2>2. ordered \in Seq(Ids(plan))
    BY DEF GatewayInv, OrderInv, PolicyTypeOK
  <2> QED
    BY <2>1, <2>2 DEF Copies
<1> QED
  BY <1>1, <1>2, <1>3, <1>4 DEF GatewayInv, TypeOK, Staged, InOrder, Reported

\* Validation, preflight, dispatch and report keep the invariant.
LEMMA GatewayInvNext == GatewayInv /\ [Next]_vars => GatewayInv'
<1> SUFFICES ASSUME GatewayInv, [Next]_vars PROVE GatewayInv'
  OBVIOUS
<1>1. CASE UNCHANGED vars
  <2>1. OrderInv' /\ PolicyTypeOK'
    BY <1>1, PolicyKept DEF vars, GatewayInv
  <2>2. Copies' = Copies
    BY <1>1 DEF vars, policyVars, Copies
  <2> QED
    BY <1>1, <2>1, <2>2
       DEF vars, policyVars, runVars, GatewayInv, TypeOK, Staged, InOrder, Reported
<1> QED
  BY <1>1, BeforeLoopKeeps, DispatchStopKeeps, DispatchReturnsKeeps, CompleteKeeps,
     ReceiptsAssumption DEF Next, DispatchNext

\* The invariant holds throughout every run of the gateway.
LEMMA GatewayInvariant == Spec => []GatewayInv
BY GatewayInvInit, GatewayInvNext, PTL DEF Spec

-----------------------------------------------------------------------------
(* What the invariant says of the gateway.                                 *)

\* PlanExecution says what a plan is in the same words.
LEMMA SameWords ==
  ASSUME NEW p
  PROVE  /\ Promise!Positions(p) = Positions(p) /\ Promise!Ids(p) = Ids(p)
         /\ \A a : Promise!Dependencies(p, a) = Dependencies(p, a)
         /\ Promise!UniqueIds(p) <=> UniqueIds(p)
         /\ Promise!KnownDependencies(p) <=> KnownDependencies(p)
         /\ Promise!Cyclic(p) <=> Cyclic(p)
<1>1. Promise!Positions(p) = Positions(p)
  BY DEF Promise!Positions, Positions
<1>2. Promise!Ids(p) = Ids(p)
  BY <1>1 DEF Promise!Ids, Ids
<1>3. \A a : Promise!Dependencies(p, a) = Dependencies(p, a)
  BY <1>1 DEF Promise!Dependencies, Dependencies, Promise!ById, ById
<1>4. Promise!UniqueIds(p) <=> UniqueIds(p)
  BY <1>1 DEF Promise!UniqueIds, UniqueIds
<1>5. Promise!KnownDependencies(p) <=> KnownDependencies(p)
  BY <1>1, <1>2 DEF Promise!KnownDependencies, KnownDependencies
<1>6. \A S : Promise!Knot(p, S) <=> Knot(p, S)
  BY <1>2, <1>3 DEF Promise!Knot, Knot
<1>7. Promise!Cyclic(p) <=> Cyclic(p)
  BY <1>2, <1>6 DEF Promise!Cyclic, Cyclic
<1> QED
  BY <1>1, <1>2, <1>3, <1>4, <1>5, <1>7

\* A plan that was ordered is fit.
LEMMA OrderedIsFit == OrderInv /\ phase = "ordered" => Promise!Fit(plan)
<1> SUFFICES ASSUME OrderInv, phase = "ordered" PROVE Promise!Fit(plan)
  OBVIOUS
<1>1. plan \in Plan /\ StaticDenial(plan) = "none" /\ ~Cyclic(plan)
  BY VerdictOfInv, PlansAssumption
     DEF OrderInv, PolicyTypeOK, Counts, Looped, CycleVerdictExact
<1>2. /\ plan.mode = "live" => plan.scope = "valid"
      /\ plan.assumptions = "settled"
      /\ \A i \in Positions(plan) : ~Offends(plan, i)
      /\ UniqueIds(plan) /\ KnownDependencies(plan)
  BY <1>1, StaticDenialExact
<1>3. \A i \in Positions(plan) :
         /\ plan.actions[i].values = "settled"
         /\ plan.actions[i].type \in IF plan.mode = "live" THEN {"read_back"}
                                     ELSE {"read_back", "ensure"}
  BY <1>2 DEF Offends, Allowed
<1> QED
  BY <1>1, <1>2, <1>3, SameWords DEF Promise!Fit

\* What was dispatched belongs to a plan that was ordered and so is fit.
LEMMA FitOfInv == GatewayInv => OnlyFitPlansDispatched
<1> SUFFICES ASSUME GatewayInv, NEW i \in DOMAIN dispatched
             PROVE  /\ Promise!Fit(plan)
                    /\ \E k \in Positions(plan) : plan.actions[k] = dispatched[i]
  BY DEF OnlyFitPlansDispatched
<1>1. dispatched # <<>> /\ i \in DOMAIN ordered
  <2>1. /\ dispatched \in Seq(Action) /\ ordered \in Seq(Ids(plan))
        /\ Len(dispatched) <= Len(ordered)
    BY DEF GatewayInv, TypeOK, PolicyTypeOK, InOrder
  <2> QED
    BY <2>1
<1>2. Promise!Fit(plan)
  BY <1>1, OrderedIsFit DEF GatewayInv, Staged
<1>3. dispatched[i] = ById(plan, ordered[i])
  BY DEF GatewayInv, InOrder
<1> QED
  BY <1>1, <1>2, <1>3, CopyIsAction DEF GatewayInv

\* The report lists what was dispatched, and no more.
LEMMA AccountOfInv == GatewayInv => DispatchesAccounted
<1> SUFFICES ASSUME GatewayInv PROVE DependenciesExecutedFirst /\ ReportAccountsForDispatches
  BY DEF DispatchesAccounted
<1>1. /\ dispatched \in Seq(Action) /\ ordered \in Seq(Ids(plan)) /\ executed \in Seq(Names)
      /\ Len(dispatched) <= Len(ordered)
      /\ Len(executed) \in {Len(dispatched), Len(dispatched) - 1}
  BY DEF GatewayInv, TypeOK, PolicyTypeOK, InOrder
<1>2. DependenciesExecutedFirst
  <2> SUFFICES ASSUME NEW i \in DOMAIN dispatched, NEW j \in DOMAIN dispatched[i].depends_on
               PROVE  \E k \in DOMAIN executed :
                         k < i /\ executed[k] = dispatched[i].depends_on[j]
    BY DEF DependenciesExecutedFirst
  <2>1. i \in DOMAIN ordered /\ dispatched[i].depends_on = Dependencies(plan, ordered[i])
    BY <1>1 DEF GatewayInv, InOrder, Dependencies
  <2>2. PICK k \in 1..(i - 1) : ordered[k] = dispatched[i].depends_on[j]
    BY <2>1 DEF GatewayInv, OrderInv, AfterDependencies
  <2>3. k \in DOMAIN executed /\ k < i
    BY <1>1, <2>2
  <2> QED
    BY <2>2, <2>3 DEF GatewayInv, InOrder
<1>3. ReportAccountsForDispatches
  <2> SUFFICES ASSUME stage = "reported" PROVE ReportAccountsForDispatches
    BY DEF ReportAccountsForDispatches
  <2>1. ASSUME NEW i \in DOMAIN executed PROVE executed[i] = dispatched[i].id
    <3>1. i \in DOMAIN dispatched /\ i \in DOMAIN ordered
      BY <1>1
    <3>2. dispatched[i] = ById(plan, ordered[i]) /\ executed[i] = ordered[i]
      BY <3>1 DEF GatewayInv, InOrder
    <3> QED
      BY <3>1, <3>2, CopyIsAction DEF GatewayInv
  <2> QED
    BY <1>1, <2>1 DEF ReportAccountsForDispatches, GatewayInv, Reported, InOrder
<1> QED
  BY <1>2, <1>3

-----------------------------------------------------------------------------
\* Every variable of the gateway keeps its type.
THEOREM GatewayTyped == Spec => []TypeOK
BY GatewayInvariant, PTL DEF GatewayInv

\* Whatever the transport and the caller do, only actions of the plan that was
\* validated are dispatched, and only if nothing at all is wrong with that plan.
THEOREM OnlyFitDispatched == Spec => []OnlyFitPlansDispatched
BY GatewayInvariant, FitOfInv, PTL

\* Whatever goes wrong and where, an action is dispatched after a good receipt
\* for all it depends on, and the report accounts for every dispatch.
THEOREM EveryDispatchAccounted == Spec => []DispatchesAccounted
BY GatewayInvariant, AccountOfInv, PTL

-----------------------------------------------------------------------------
(* The gateway performs plans as PlanExecution promises.                   *)

Done == {executed[i] : i \in DOMAIN executed}
Verdict == CASE stage # "reported" -> "running"
             [] stage = "reported" /\ report.status = "EXECUTED" -> "completed"
             [] OTHER -> "stopped"

\* A submitted plan is one of which nothing was performed.
LEMMA PromisedInit == Init => Promise!Init
BY DEF Init, PolicyInit, Promise!Init

\* A step that leaves executed and the stage's verdict alone is no step of the
\* promise.
LEMMA PromisedStutter ==
  ASSUME plan' = plan, executed' = executed, Verdict' = Verdict
  PROVE  UNCHANGED Promise!abstractVars
BY DEF Verdict, Promise!abstractVars

\* A report that is not of completion stops the plan.
LEMMA PromisedStop ==
  ASSUME stage # "reported", stage' = "reported", report'.status \in {"DENIED", "FAILED"},
         plan' = plan, executed' = executed
  PROVE  Promise!Next
BY DEF Promise!Next, Promise!Stop

\* An action is confirmed: it is fit, new, and all it depends on is confirmed.
LEMMA PromisedPerform ==
  ASSUME GatewayInv, NEW r \in Receipts, DispatchReturns(r),
         Shortfall(r, current'.mode) = "none"
  PROVE  Promise!Next
<1> DEFINE n == Len(dispatched)
<1> PICK a : a = ordered[n + 1]
  OBVIOUS
<1>1. /\ plan' = plan /\ stage' = stage /\ executed' = Append(executed, NextAction.id)
      /\ Dispatch
  BY DEF DispatchReturns, policyVars
<1>2. /\ stage = "dispatch" /\ phase = "ordered" /\ n \in Nat /\ n < Len(ordered)
      /\ Len(executed) = n /\ NextAction.id = a /\ a \in Names
  BY <1>1, Dispatching
<1>3. /\ ordered \in Seq(Ids(plan)) /\ executed \in Seq(Names)
      /\ \A i \in 1..n : executed[i] = ordered[i]
  BY <1>2 DEF GatewayInv, TypeOK, PolicyTypeOK, InOrder
<1>4. Done = {ordered[i] : i \in 1..n} /\ Done' = Done \union {a}
  <2>1. /\ DOMAIN executed = 1..n /\ DOMAIN executed' = 1..(n + 1)
        /\ executed'[n + 1] = a /\ \A i \in 1..n : executed'[i] = executed[i]
    BY <1>1, <1>2, <1>3
  <2> QED
    BY <1>2, <1>3, <2>1 DEF Done
<1>5. n + 1 \in DOMAIN ordered
  BY <1>2, <1>3
<1>6. a \in Ids(plan) \ Done
  <2>1. \A i \in 1..n : ordered[i] # a
    BY <1>2, <1>3, <1>5 DEF GatewayInv, OrderInv, Once
  <2> QED
    BY <1>3, <1>4, <1>5, <2>1
<1>7. \A j \in DOMAIN Dependencies(plan, a) : Dependencies(plan, a)[j] \in Done
  <2>1. \A j \in DOMAIN Dependencies(plan, a) :
           \E k \in 1..((n + 1) - 1) : ordered[k] = Dependencies(plan, a)[j]
    BY <1>5 DEF GatewayInv, OrderInv, AfterDependencies
  <2>2. (n + 1) - 1 = n
    BY <1>2
  <2> QED
    BY <1>4, <2>1, <2>2
<1>8. Promise!Fit(plan)
  BY <1>2, OrderedIsFit DEF GatewayInv
<1>9. Promise!Perform(a)
  <2>1. Verdict = "running" /\ Verdict' = "running"
    BY <1>1, <1>2 DEF Verdict
  <2> QED
    BY <1>1, <1>2, <1>4, <1>6, <1>7, <1>8, <2>1, SameWords
       DEF Promise!Perform, Done, Verdict
<1>10. a \in Promise!Ids(plan)
  BY <1>6, SameWords
<1> QED
  BY <1>9, <1>10 DEF Promise!Next

\* A report of completion completes: everything ordered, so everything the plan
\* has, is confirmed.
LEMMA PromisedComplete ==
  ASSUME GatewayInv, GatewayInv', Complete, report'.status = "EXECUTED",
         stage = "dispatch", stage' = "reported"
  PROVE  Promise!Next
<1>1. plan' = plan /\ executed' = executed /\ ordered' = ordered /\ phase' = phase
  BY DEF Complete, policyVars
<1>2. phase = "ordered" /\ Len(executed) = Len(ordered)
  BY <1>1 DEF GatewayInv, Reported
<1>3. Emitted = Ids(plan) /\ Promise!Fit(plan)
  BY <1>2, CompleteByLength, OrderedIsFit DEF GatewayInv, OrderInv, LoopEnded, Looped
<1>4. Done = Emitted
  <2>1. \A i \in DOMAIN executed : executed[i] = ordered[i]
    BY DEF GatewayInv, InOrder
  <2>2. DOMAIN executed = DOMAIN ordered
    BY <1>2 DEF GatewayInv, TypeOK, PolicyTypeOK
  <2> QED
    BY <2>1, <2>2 DEF Done, Emitted
<1>5. Promise!Complete
  BY <1>1, <1>3, <1>4, SameWords DEF Promise!Complete, Done
<1> QED
  BY <1>5 DEF Promise!Next

\* Each step of the gateway is a step of PlanExecution or none.
LEMMA PromisedNext ==
  GatewayInv /\ GatewayInv' /\ [Next]_vars => [Promise!Next]_(Promise!abstractVars)
<1> SUFFICES ASSUME GatewayInv, GatewayInv', [Next]_vars
             PROVE  Promise!Next \/ UNCHANGED Promise!abstractVars
  OBVIOUS
<1>1. CASE UNCHANGED vars
  BY <1>1, PromisedStutter DEF vars, policyVars, runVars, Verdict
<1>2. CASE Validate
  <2>1. plan' = plan
    BY <1>2 DEF Validate, PolicyNext, Deny, CountDependencies, Pop, Finish
  <2> QED
    BY <1>2, <2>1, PromisedStutter DEF Validate, runVars, Verdict
<1>3. CASE Refuse \/ PreflightDenies \/ PreflightFails \/ PreflightAlters
           \/ DispatchDenied \/ DispatchRaises \/ DispatchUntyped
  <2>1. plan' = plan /\ executed' = executed /\ stage # "reported"
    BY <1>3 DEF Refuse, PreflightDenies, PreflightFails, PreflightAlters, DispatchDenied,
       DispatchRaises, DispatchUntyped, Dispatch, policyVars
  <2>2. stage' = "reported" /\ report'.status \in {"DENIED", "FAILED"}
    BY <1>3, StopReport DEF Refuse, PreflightDenies, PreflightFails, PreflightAlters,
       DispatchDenied, DispatchRaises, DispatchUntyped
  <2> QED
    BY <2>1, <2>2, PromisedStop
<1>4. CASE TakeSnapshot \/ PreflightAccepts
  BY <1>4, PromisedStutter DEF TakeSnapshot, PreflightAccepts, policyVars, Verdict
<1>5. ASSUME NEW r \in Receipts, DispatchReturns(r) PROVE Promise!Next
  <2>1. CASE Shortfall(r, current'.mode) = "none"
    BY <1>5, <2>1, PromisedPerform
  <2>2. CASE Shortfall(r, current'.mode) # "none"
    <3>1. /\ plan' = plan /\ executed' = executed /\ stage # "reported"
          /\ Failed(Shortfall(r, current'.mode), current'.mode, executed, receipts')
      BY <1>5, <2>2 DEF DispatchReturns, Dispatch, policyVars
    <3>2. stage' = "reported" /\ report'.status \in {"DENIED", "FAILED"}
      BY <3>1, StopReport
    <3> QED
      BY <3>1, <3>2, PromisedStop
  <2> QED
    BY <2>1, <2>2
<1>6. CASE Complete
  <2>1. plan' = plan /\ executed' = executed /\ stage = "dispatch"
    BY <1>6 DEF Complete, policyVars
  <2>2. stage' = "reported" /\ report'.status \in {"DENIED", "FAILED", "EXECUTED"}
    BY <1>6, ReportFacts, StopReport DEF Complete
  <2> QED
    BY <1>6, <2>1, <2>2, PromisedStop, PromisedComplete
<1> QED
  BY <1>1, <1>2, <1>3, <1>4, <1>5, <1>6 DEF Next, Preflight, DispatchNext

\* Every run of the gateway, for every plan and transport, does to the plan what
\* PlanExecution allows, step by step: nothing is performed of a plan that is not
\* fit, no action twice or before what it depends on, and completion is claimed
\* when all is done.
THEOREM KeepsPromise == Spec => Promise!Init /\ [][Promise!Next]_(Promise!abstractVars)
<1>1. Init => Promise!Init
  BY PromisedInit
<1>2. GatewayInv /\ GatewayInv' /\ [Next]_vars => [Promise!Next]_(Promise!abstractVars)
  BY PromisedNext
<1> QED
  BY <1>1, <1>2, GatewayInvariant, PTL DEF Spec

-----------------------------------------------------------------------------
(* Live completion, when the caller's plan object keeps its mode.          *)

\* A receipt is judged in the mode the plan was submitted in.
LEMMA ModeKeptReturns ==
  ASSUME ~ModeMayChange, GatewayInv, ModeKept, NEW r \in Receipt, DispatchReturns(r)
  PROVE  ModeKept'
<1>0. current'.mode = plan'.mode /\ plan' = plan
  BY DEF ModeKept, DispatchReturns, Dispatch, PlanMayChange, policyVars
<1> DEFINE why == Shortfall(r, current'.mode)
<1>1. /\ Dispatch /\ receipts' = Append(receipts, r) /\ report.status # "EXECUTED"
      /\ executed \in Seq(Names) /\ receipts \in Seq(Receipt)
      /\ Len(receipts) = Len(executed)
  BY Dispatching DEF DispatchReturns, GatewayInv, TypeOK, Staged
<1>2. \A i \in 1..Len(receipts) : receipts'[i] = receipts[i]
  BY <1>1
<1>3. CASE why # "none"
  <2>1. executed' = executed /\ report'.status \in {"DENIED", "FAILED"}
    BY <1>3, StopReport DEF DispatchReturns
  <2> QED
    BY <1>0, <1>1, <1>2, <2>1 DEF ModeKept
<1>4. CASE why = "none"
  <2>1. executed' = Append(executed, NextAction.id) /\ report' = report
    BY <1>4 DEF DispatchReturns
  <2>2. receipts'[Len(receipts) + 1] = r /\ (plan.mode = "live" => r.verified)
    BY <1>0, <1>1, <1>4 DEF Shortfall, Receipt, SafeCode, SafeCodes
  <2>3. DOMAIN executed' = 1..(Len(executed) + 1) /\ DOMAIN executed = 1..Len(executed)
    BY <1>1, <2>1, Dispatching
  <2> QED
    BY <1>0, <1>1, <1>2, <2>1, <2>2, <2>3 DEF ModeKept
<1> QED
  BY <1>3, <1>4

\* Whether every receipt of an executed action is verified, as far as they go.
LEMMA ModeKeptNext ==
  ASSUME ~ModeMayChange, GatewayInv, GatewayInv', ModeKept, Next
  PROVE  ModeKept'
<1>1. current'.mode = plan'.mode /\ plan' = plan
  BY DEF ModeKept, Next, Validate, PolicyNext, Deny, CountDependencies, Pop, Finish, runVars,
     Refuse, TakeSnapshot, Preflight, PreflightAccepts, PreflightDenies, PreflightFails,
     PreflightAlters, DispatchNext, DispatchDenied, DispatchRaises, DispatchUntyped,
     DispatchReturns, Dispatch, Complete, PlanMayChange, policyVars
<1>2. CASE Validate \/ TakeSnapshot \/ PreflightAccepts
  BY <1>1, <1>2 DEF ModeKept, Validate, TakeSnapshot, PreflightAccepts, runVars
<1>3. CASE Refuse \/ PreflightDenies \/ PreflightFails \/ PreflightAlters
           \/ DispatchDenied \/ DispatchRaises \/ DispatchUntyped
  <2>1. executed' = executed /\ receipts' = receipts /\ stage' = "reported"
    BY <1>3, StopReport DEF Refuse, PreflightDenies, PreflightFails, PreflightAlters,
       DispatchDenied, DispatchRaises, DispatchUntyped
  <2>2. report'.status \in {"DENIED", "FAILED"}
    BY <1>3, StopReport DEF Refuse, PreflightDenies, PreflightFails, PreflightAlters,
       DispatchDenied, DispatchRaises, DispatchUntyped
  <2> QED
    BY <1>1, <2>1, <2>2 DEF ModeKept
<1>4. ASSUME NEW r \in Receipts, DispatchReturns(r) PROVE ModeKept'
  BY <1>4, ModeKeptReturns, ReceiptsAssumption
<1>5. CASE Complete
  <2>1. /\ executed' = executed /\ receipts' = receipts /\ current' = current
        /\ stage = "dispatch" /\ Len(receipts) = Len(executed)
    <3>1. stage = "dispatch" /\ executed' = executed /\ receipts' = receipts
          /\ current' = current
      BY <1>5 DEF Complete
    <3>2. executed \in Seq(Names) /\ Len(executed) = Len(dispatched)
          /\ Len(receipts) \in Len(executed)..Len(dispatched)
      BY <3>1 DEF GatewayInv, TypeOK, InOrder
    <3> QED
      BY <3>1, <3>2
  <2>2. CASE current.mode = "live" /\ ~NetworkSent(receipts)
    <3>1. report'.status \in {"DENIED", "FAILED"}
      BY <1>5, <2>2, StopReport DEF Complete
    <3> QED
      BY <1>1, <2>1, <3>1 DEF ModeKept
  <2>3. CASE ~(current.mode = "live" /\ ~NetworkSent(receipts))
    <3>1. /\ report'.mode = current.mode /\ report'.sent = NetworkSent(receipts)
          /\ report'.verified = ReadbackVerified(receipts)
      BY <1>5, <2>3, ReportFacts DEF Complete
    <3> QED
      BY <1>1, <2>1, <2>3, <3>1 DEF ModeKept
  <2> QED
    BY <2>2, <2>3
<1> QED
  BY <1>2, <1>3, <1>4, <1>5 DEF Next, Preflight, DispatchNext

\* With the mode of the plan unchanged, live completion means live.
LEMMA LiveOfModeKept == GatewayInv /\ ModeKept => LiveCompletion
<1> SUFFICES ASSUME GatewayInv, ModeKept, report.status = "EXECUTED", plan.mode = "live"
             PROVE  report.mode = "live" /\ report.sent /\ report.verified
  BY DEF LiveCompletion
<1>1. /\ receipts \in Seq(Receipt) /\ executed \in Seq(Names)
      /\ Len(receipts) = Len(executed)
  BY DEF GatewayInv, TypeOK, ModeKept
<1>2. \A i \in DOMAIN receipts : receipts[i].verified
  BY <1>1 DEF ModeKept
<1>3. NetworkSent(receipts)
  BY DEF ModeKept
<1>4. ReadbackVerified(receipts)
  BY <1>1, <1>2, <1>3 DEF NetworkSent, ReadbackVerified
<1> QED
  BY <1>3, <1>4 DEF ModeKept

\* If the caller's plan object keeps its execution mode while the transport runs,
\* a plan submitted as live is reported EXECUTED only as a live execution in which
\* a request was sent and every readback was verified.  The hypothesis is all that
\* is missing: without it the gateway reads the mode of the moment.
THEOREM LiveMeansLive ==
  ASSUME ~ModeMayChange
  PROVE  Spec => []LiveCompletion
<1>1. Init => ModeKept
  BY DEF Init, NoReport, ModeKept
<1>2. GatewayInv /\ GatewayInv' /\ ModeKept /\ [Next]_vars => ModeKept'
  <2>1. ModeKept /\ UNCHANGED vars => ModeKept'
    BY DEF vars, policyVars, runVars, ModeKept, NetworkSent, ReadbackVerified
  <2> QED
    BY <2>1, ModeKeptNext
<1>3. GatewayInv /\ ModeKept => LiveCompletion
  BY LiveOfModeKept
<1> QED
  BY <1>1, <1>2, <1>3, GatewayInvariant, PTL DEF Spec

============================================================================
