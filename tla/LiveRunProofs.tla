--------------------------- MODULE LiveRunProofs ---------------------------
(***************************************************************************)
(* Theorems about LiveRun for every read, document and response, whatever  *)
(* the session raises, when it is opened, called or closed, and wherever   *)
(* the run is interrupted, killed or kept from writing a file.             *)
(***************************************************************************)
EXTENDS LiveRun, GatewayProofs

\* _run makes the plan itself: a live one, of one read, that nothing else holds.
OneRead == ~ModeMayChange /\ \A p \in Plans : p.mode = "live" => Len(p.actions) = 1

\* A request that reached the child and raised says so: without it
\* NoHiddenRequest is violated.
RaisedTells == \A x \in Results : x.kind = "raised" /\ x.written => x.flag

-----------------------------------------------------------------------------
(* The inductive invariant.                                                *)

\* The gateway's receipt is one that the transport makes of what the session did.
Answered ==
    IF call = Nothing THEN receipts = <<>>
    ELSE /\ Len(receipts) = 1
         /\ \E r \in ReceiptsOf(operation, Document, call) : receipts[1] = ToGateway(r)

\* The report repeats its receipt, and a failure has a stable code.
Summed ==
    stage = "reported" =>
        /\ report.status \in {"FAILED", "EXECUTED"}
        /\ report.sent = NetworkSent(receipts)
        /\ report.verified = ReadbackVerified(receipts)
        /\ report.status = "FAILED" => report.code \in SafeCodes /\ ~report.verified

\* What a read that was executed stands on.
Sound ==
    /\ call # Nothing /\ call.kind = "returned"
    /\ Judgements(operation, Document, call.response) = {"none"}
    /\ report.mode = "live"

\* The receipt and the report that _run keeps say the same.
Judged ==
    kept =>
        /\ stage = "reported" /\ receipt \in ReadReceipt
        /\ receipt.sent = report.sent /\ receipt.verified = report.verified
        /\ receipt.status = "SUCCEEDED" <=> report.status = "EXECUTED"
        /\ report.status = "EXECUTED" => Sound

\* What _run records: with no report, a receipt of failure.
Settled ==
    /\ receipt \in ReadReceipt
    /\ kept => session = "closed" /\ error = Nothing
    /\ ~kept => receipt.status = "FAILED" /\ ~receipt.verified

\* What there is at each step of _run.
AtStep ==
    /\ step \in {"opening", "executing"} => ~kept /\ error = Nothing
    /\ step = "opening" => stage = "policy" /\ call = Nothing
    /\ step = "closing" => kept /\ error = Nothing
    /\ step = "handling" => error \in Errors /\ (kept \/ call = Nothing \/ session = "lost")
    /\ session = "lost" => ~kept /\ step \notin {"opening", "executing", "closing"}
    /\ step \in {"opening", "executing", "closing", "handling"} => artifact = Nothing
    /\ step \in {"recording", "returned"} \/ artifact # Nothing => Settled

\* The files there are, in the order they are written, each of the receipt.
Filed ==
    /\ artifact # Nothing =>
          artifact = IF kept
                     THEN [kind |-> "report", status |-> report.status, sent |-> report.sent,
                           verified |-> report.verified]
                     ELSE [kind |-> "receipt", status |-> receipt.status,
                           sent |-> receipt.sent, verified |-> receipt.verified]
    /\ manifest # Nothing => artifact # Nothing /\ manifest = Summary(receipt)
    /\ events # Nothing => manifest # Nothing /\ events \in {Torn, Summary(receipt)}
    /\ step = "recording" => events # Torn
    /\ step = "returned" => events = Summary(receipt)

\* The inductive invariant of the live run.
RunInv ==
    /\ GatewayInv /\ ModeKept /\ plan.mode = "live"
    /\ RunTypeOK /\ operation \in Commands
    /\ Answered /\ Summed /\ Judged /\ AtStep /\ Filed

\* With RaisedTells: what is recorded does not deny a request.
Told == step \in {"recording", "returned"} /\ Written /\ session # "lost" => receipt.sent

-----------------------------------------------------------------------------
(* Receipts.                                                               *)

\* A response is rejected with a stable code, or with none.
LEMMA JudgementCodes ==
  ASSUME NEW op, NEW document, NEW r, NEW why \in Judgements(op, document, r)
  PROVE  /\ why \in StableCodes \union {"none"}
         /\ why = "none" => Judgements(op, document, r) = {"none"}
<1> DEFINE rejected == ResponseDenials(r, op = "auth_status")
<1>1. \A value : StatusCode(value) \in StatusCodes \union {"none"}
  BY DEF StatusCode, StatusCodes
<1>2. FoundCodes(r) \subseteq StatusCodes
  BY <1>1 DEF FoundCodes
<1>3. rejected \subseteq StatusCodes \union {"INVALID_RESPONSE"}
  BY <1>2 DEF ResponseDenials
<1>4. StatusCodes \union {"INVALID_RESPONSE"} \subseteq StableCodes /\ "none" \notin StatusCodes
      /\ "VERIFICATION_FAILED" \in StableCodes
  BY DEF StableCodes, StatusCodes
<1> DEFINE last == IF op = "auth_status" THEN AuthenticationDenial(r)
                   ELSE IF op = "get_document" THEN DocumentDenial(r, document)
                   ELSE IF HasEvidence(op, r) THEN "none" ELSE "INVALID_RESPONSE"
<1>5. last \in StableCodes \union {"none"}
  BY DEF AuthenticationDenial, DocumentDenial, StableCodes, StatusCodes
<1>6. Judgements(op, document, r) = IF rejected # {} THEN rejected ELSE {last}
  BY DEF Judgements
<1> HIDE DEF rejected, last
<1> QED
  BY <1>3, <1>4, <1>5, <1>6

\* What a receipt of the transport tells of the call it is made of.
LEMMA ReceiptsOfFacts ==
  ASSUME NEW op \in Operations, NEW x \in Results, NEW r \in ReceiptsOf(op, Document, x)
  PROVE  /\ r \in ReadReceipt /\ r.operation = op /\ x.kind \in {"returned", "raised"}
         /\ r.error \in Outcomes(op, Document, x)
         /\ r.status = "SUCCEEDED" <=> r.verified
         /\ r.status = "SUCCEEDED" =>
               /\ r.sent /\ x.kind = "returned"
               /\ Judgements(op, Document, x.response) = {"none"}
         /\ x.kind = "returned" => r.sent
         /\ x.kind = "raised" => r.sent = x.flag /\ r.status = "FAILED"
<1>1. PICK why \in Outcomes(op, Document, x) :
         r = [operation |-> op, status |-> IF why = "none" THEN "SUCCEEDED" ELSE "FAILED",
              sent |-> IF x.kind = "raised" THEN x.flag ELSE TRUE,
              verified |-> why = "none", error |-> why]
  BY DEF ReceiptsOf
<1>2. x.kind \in {"returned", "raised"} /\ (x.kind = "raised" => x.flag \in BOOLEAN)
  BY ResultsAssumption DEF IsResult, Raised
<1>3. why \in StableCodes \union {"none"} /\ (x.kind = "raised" => why # "none")
  <2>1. CASE x.kind = "raised"
    <3>1. why = SessionCode(x.code)
      BY <2>1 DEF Outcomes
    <3> QED
      BY <3>1 DEF SessionCode, StableCodes, StatusCodes
  <2>2. CASE x.kind = "returned"
    <3>1. why \in Judgements(op, Document, x.response)
      BY <2>2 DEF Outcomes
    <3> QED
      BY <2>2, <3>1, JudgementCodes
  <2> QED
    BY <1>2, <2>1, <2>2
<1>4. x.kind = "returned" /\ why = "none" => Judgements(op, Document, x.response) = {"none"}
  BY JudgementCodes DEF Outcomes
<1> QED
  BY <1>1, <1>2, <1>3, <1>4 DEF ReadReceipt

\* The gateway sees of a receipt of this read what it says.
LEMMA GatewayReads ==
  ASSUME NEW r \in ReadReceipt, r.operation = operation
  PROVE  /\ ToGateway(r) \in Receipt /\ ToGateway(r).matches
         /\ ToGateway(r).status = r.status /\ ToGateway(r).sent = r.sent
         /\ ToGateway(r).verified = r.verified
<1>1. r.status \in {"SUCCEEDED", "FAILED"} /\ r.sent \in BOOLEAN /\ r.verified \in BOOLEAN
      /\ r.error \in StableCodes \union {"none"}
  BY DEF ReadReceipt
<1>2. (IF r.error = "none" THEN "UNLISTED" ELSE r.error) \in ErrorCodes
  BY <1>1 DEF ErrorCodes, SafeCodes, StableCodes, StatusCodes
<1> QED
  BY <1>1, <1>2 DEF ToGateway, Receipt

\* A plan of one action is dispatched once at most.
LEMMA OrderedOnce ==
  ASSUME OneRead, OrderInv, plan.mode = "live"
  PROVE  Len(ordered) \in {0, 1}
<1>1. plan \in Plan /\ Len(plan.actions) = 1
  BY PlansAssumption DEF OneRead, OrderInv, PolicyTypeOK
<1>2. plan.actions \in Seq(Action)
  BY <1>1 DEF Plan
<1>3. Ids(plan) = {plan.actions[1].id}
  BY <1>1, <1>2 DEF Ids, Positions
<1>4. ordered \in Seq(Ids(plan)) /\ Len(ordered) \in Nat
  BY DEF OrderInv, PolicyTypeOK
<1>5. ASSUME Len(ordered) > 1 PROVE FALSE
  <2>1. 1 \in DOMAIN ordered /\ 2 \in DOMAIN ordered
    BY <1>4, <1>5
  <2>2. ordered[1] = ordered[2]
    BY <1>3, <1>4, <2>1
  <2> QED
    BY <2>1, <2>2 DEF OrderInv, Once
<1>6. \A n \in Nat : ~(n > 1) => n \in {0, 1}
  OBVIOUS
<1> QED
  BY <1>4, <1>5, <1>6

-----------------------------------------------------------------------------
(* Every step keeps the invariant: the gateway's.                          *)

\* Nothing the gateway has is touched.
LEMMA SameGateway ==
  ASSUME RunInv, UNCHANGED gatewayVars
  PROVE  /\ GatewayInv' /\ ModeKept' /\ TypeOK' /\ plan' = plan
         /\ receipts' = receipts /\ stage' = stage /\ report' = report
<1>1. UNCHANGED vars
  BY DEF gatewayVars
<1>2. GatewayInv'
  BY <1>1, GatewayInvNext DEF RunInv
<1>3. ModeKept'
  BY <1>1 DEF vars, policyVars, runVars, RunInv, ModeKept, NetworkSent, ReadbackVerified
<1> QED
  BY <1>1, <1>2, <1>3 DEF vars, policyVars, runVars, GatewayInv

\* What is said of the gateway and the answer holds as long as they do.
LEMMA SameAnswer ==
  ASSUME RunInv, UNCHANGED gatewayVars, operation' = operation, call' = call
  PROVE  /\ Answered' /\ Summed' /\ (Sound => Sound')
         /\ GatewayInv' /\ ModeKept' /\ TypeOK' /\ plan'.mode = "live"
         /\ operation' \in Commands /\ stage' = stage /\ report' = report
<1>1. plan' = plan /\ receipts' = receipts /\ stage' = stage /\ report' = report
  BY SameGateway
<1>2. Answered'
  BY <1>1 DEF RunInv, Answered, ToGateway
<1>3. Summed'
  BY <1>1 DEF RunInv, Summed, NetworkSent, ReadbackVerified
<1>4. Sound => Sound'
  BY <1>1 DEF Sound
<1> QED
  BY <1>1, <1>2, <1>3, <1>4, SameGateway DEF RunInv

\* A step of the gateway: nothing of the service changes.
LEMMA GatewayStep ==
  ASSUME OneRead, RunInv, GatewayInv', ModeKept', UNCHANGED <<operation, step, session, error,
         kept, receipt, files>>, step = "executing", plan' = plan, Answered', Summed',
         call' = Nothing \/ call' \in Results
  PROVE  RunInv'
<1>1. ~kept /\ error = Nothing /\ session # "lost" /\ artifact = Nothing /\ events = Nothing
  BY DEF RunInv, AtStep, Filed
<1>2. /\ operation' = operation /\ step' = step /\ session' = session /\ error' = error
      /\ kept' = kept /\ receipt' = receipt /\ artifact' = artifact
      /\ manifest' = manifest /\ events' = events
  BY DEF files
<1>3. RunTypeOK'
  BY <1>2 DEF GatewayInv, RunInv, RunTypeOK
<1>4. Judged'
  BY <1>1, <1>2 DEF Judged
<1>5. AtStep'
  BY <1>1, <1>2 DEF AtStep
<1>6. Filed'
  BY <1>1, <1>2 DEF RunInv, Filed, Summary
<1> QED
  BY <1>2, <1>3, <1>4, <1>5, <1>6 DEF RunInv

\* The gateway executes the read: the report is about this action alone.
LEMMA ExecuteKeeps == ASSUME OneRead, RunInv, Execute PROVE RunInv'
<1>1. /\ step = "executing" /\ call' = call /\ operation' = operation
      /\ UNCHANGED <<operation, step, session, error, kept, receipt, files>>
  BY DEF Execute, serviceVars
<1>2. Next
  BY DEF Execute, Next, Preflight
<1>3. GatewayInv'
  BY <1>2, GatewayInvNext DEF RunInv
<1>4. ModeKept'
  BY <1>2, <1>3, ModeKeptNext DEF OneRead, RunInv
<1>5. plan' = plan /\ receipts' = receipts
  BY DEF Execute, Validate, PolicyNext, Deny, CountDependencies, Pop, Finish, runVars,
     TakeSnapshot, PreflightAccepts, Complete, policyVars
<1>6. Answered'
  BY <1>1, <1>5 DEF RunInv, Answered, ToGateway
<1>7. Summed'
  <2>1. CASE Validate \/ TakeSnapshot \/ PreflightAccepts
    <3>1. report' = report /\ stage' \in {stage, "preflight", "dispatch"}
      BY <2>1 DEF Validate, runVars, TakeSnapshot, PreflightAccepts
    <3> QED
      BY <1>5, <3>1 DEF RunInv, Summed, NetworkSent, ReadbackVerified
  <2>2. CASE Complete
    <3>1. CASE current.mode = "live" /\ ~NetworkSent(receipts)
      <4>1. Failed("TRANSPORT_FAILED", current.mode, executed, receipts)
        BY <2>2, <3>1 DEF Complete
      <4>2. /\ report'.status = "FAILED" /\ report'.sent = NetworkSent(receipts)
            /\ report'.verified = ReadbackVerified(receipts)
            /\ report'.code = "TRANSPORT_FAILED"
        BY <4>1 DEF Failed, Report, SafeCode, SafeCodes
      <4>3. /\ stage = "dispatch" /\ receipts \in Seq(Receipt) /\ executed \in Seq(Names)
            /\ Len(receipts) = Len(executed)
        <5>1. stage = "dispatch" /\ executed \in Seq(Names) /\ receipts \in Seq(Receipt)
              /\ Len(executed) = Len(dispatched)
              /\ Len(receipts) \in Len(executed)..Len(dispatched)
          BY <2>2 DEF Complete, RunInv, GatewayInv, TypeOK, InOrder
        <5> QED
          BY <5>1
      <4>4. \A i \in DOMAIN receipts : receipts[i].status = "SUCCEEDED"
        BY <4>3 DEF RunInv, GatewayInv, InOrder
      <4>5. receipts = <<>>
        <5> SUFFICES ASSUME receipts # <<>> PROVE NetworkSent(receipts)
          BY <3>1
        <5>1. call \in Results /\ Len(receipts) = 1
              /\ \E r \in ReceiptsOf(operation, Document, call) : receipts[1] = ToGateway(r)
          BY DEF RunInv, Answered, RunTypeOK
        <5>2. PICK r \in ReceiptsOf(operation, Document, call) : receipts[1] = ToGateway(r)
          BY <5>1
        <5>3. operation \in Operations
          BY CommandsAssumption DEF RunInv
        <5>4. r.status = "SUCCEEDED" /\ receipts[1].sent = r.sent
          BY <4>3, <4>4, <5>1, <5>2, <5>3, ReceiptsOfFacts, GatewayReads
        <5>5. r.sent
          BY <5>1, <5>3, <5>4, ReceiptsOfFacts
        <5> QED
          <6>1. 1 \in DOMAIN receipts
            BY <4>3, <5>1
          <6>2. receipts[1].sent
            BY <5>4, <5>5
          <6> QED
            BY <6>1, <6>2 DEF NetworkSent
      <4> QED
        BY <1>5, <4>2, <4>5 DEF Summed, ReadbackVerified, SafeCodes
    <3>2. CASE ~(current.mode = "live" /\ ~NetworkSent(receipts))
      <4>1. Report("EXECUTED", "PLAN_EXECUTED", current.mode, executed, receipts)
        BY <2>2, <3>2 DEF Complete
      <4> QED
        BY <1>5, <4>1 DEF Report, Summed
    <3> QED
      BY <3>1, <3>2
  <2> QED
    BY <2>1, <2>2 DEF Execute
<1>8. call' = Nothing \/ call' \in Results
  BY <1>1 DEF RunInv, RunTypeOK
<1> QED
  BY <1>1, <1>3, <1>4, <1>5, <1>6, <1>7, <1>8, GatewayStep

\* The session is called: its result is one it may have.
LEMMA CallToolKeeps == ASSUME OneRead, RunInv, CallTool PROVE RunInv'
<1>1. /\ step = "executing" /\ operation' = operation /\ call' \in Results
      /\ UNCHANGED <<operation, step, session, error, kept, receipt, files>>
  BY DEF CallTool
<1>2. PICK r \in ReceiptsOf(operation, Document, call') : DispatchReturns(ToGateway(r))
  BY DEF CallTool
<1> PICK g : g = ToGateway(r)
  OBVIOUS
<1>3. operation \in Operations
  BY CommandsAssumption DEF RunInv
<1>4. /\ r \in ReadReceipt /\ r.operation = operation
      /\ r.status = "SUCCEEDED" <=> r.verified
  BY <1>1, <1>2, <1>3, ReceiptsOfFacts
<1>5. /\ g \in Receipt /\ g.matches /\ g.status = r.status /\ g.verified = r.verified
      /\ DispatchReturns(g)
  BY <1>2, <1>4, GatewayReads
<1>6. GatewayInv' /\ ModeKept'
  BY <1>5, DispatchReturnsKeeps, ModeKeptReturns DEF OneRead, RunInv
<1>7. /\ Dispatch /\ receipts' = Append(receipts, g) /\ plan' = plan
  BY <1>5 DEF DispatchReturns, policyVars
<1>8. receipts = <<>>
  <2>1. /\ Len(dispatched) < Len(ordered) /\ Len(receipts) = Len(dispatched)
        /\ Len(dispatched) \in Nat /\ receipts \in Seq(Receipt)
    BY <1>7, Dispatching DEF RunInv, GatewayInv, TypeOK
  <2>2. Len(ordered) \in {0, 1}
    BY OrderedOnce DEF RunInv, GatewayInv
  <2>3. \A m, n \in Nat : m < n /\ n \in {0, 1} => m = 0
    OBVIOUS
  <2>4. Len(receipts) = 0
    BY <2>1, <2>2, <2>3
  <2> QED
    BY <2>1, <2>4
<1>9. receipts' = <<g>> /\ Len(receipts') = 1 /\ receipts'[1] = g
  BY <1>7, <1>8
<1>10. Answered'
  <2>1. call' # Nothing
    BY <1>1, ResultsAssumption DEF IsResult, Raised, Nothing
  <2>2. ToGateway(r)' = ToGateway(r)
    BY <1>1 DEF ToGateway
  <2> QED
    BY <1>1, <1>2, <1>9, <2>1, <2>2 DEF Answered, ToGateway
<1>11. Summed'
  <2>1. CASE Shortfall(g, current'.mode) = "none"
    <3>1. stage' = stage /\ stage = "dispatch"
      BY <1>5, <1>7, <2>1 DEF DispatchReturns, Dispatch
    <3> QED
      BY <3>1 DEF Summed
  <2>2. CASE Shortfall(g, current'.mode) # "none"
    <3>1. Failed(Shortfall(g, current'.mode), current'.mode, executed, receipts')
      BY <1>5, <2>2 DEF DispatchReturns
    <3>2. /\ report'.status = "FAILED" /\ report'.sent = NetworkSent(receipts')
          /\ report'.verified = ReadbackVerified(receipts')
          /\ report'.code = SafeCode(Shortfall(g, current'.mode))
      BY <3>1 DEF Failed, Report
    <3>3. report'.code \in SafeCodes
      BY <3>2 DEF SafeCode, SafeCodes
    <3>4. ~g.verified
      BY <1>4, <1>5, <2>2 DEF Shortfall, Receipt
    <3>5. ~ReadbackVerified(receipts')
      BY <1>9, <3>4 DEF ReadbackVerified
    <3> QED
      BY <3>2, <3>3, <3>5 DEF Summed
  <2> QED
    BY <2>1, <2>2
<1> QED
  BY <1>1, <1>6, <1>7, <1>10, <1>11, GatewayStep

-----------------------------------------------------------------------------
(* Every step keeps the invariant: the session's and the handler's.        *)

\* No file is written before the run is recorded.
LEMMA NoFilesYet ==
  ASSUME RunInv, step \in {"opening", "executing", "closing", "handling"}
  PROVE  artifact = Nothing /\ manifest = Nothing /\ events = Nothing
BY DEF RunInv, AtStep, Filed

\* Before a live run nothing was asked and nothing recorded.
LEMMA RunInvInit == ASSUME InitRun, plan.mode = "live" PROVE RunInv
<1>1. GatewayInv /\ TypeOK
  BY GatewayInvInit DEF InitRun, GatewayInv
<1>2. ModeKept
  BY DEF InitRun, Init, NoReport, ModeKept
<1>3. operation \in Commands /\ RunTypeOK
  BY <1>1 DEF InitRun, RunTypeOK
<1>4. Answered /\ Summed
  BY DEF InitRun, Init, Answered, Summed
<1>5. Judged /\ AtStep /\ Filed
  BY DEF InitRun, Init, Judged, AtStep, Filed
<1> QED
  BY <1>1, <1>2, <1>3, <1>4, <1>5 DEF RunInv

\* The session opens, or fails to.
LEMMA OpenKeeps == ASSUME RunInv, Opens \/ OpenFails PROVE RunInv'
<1>1. /\ UNCHANGED gatewayVars /\ operation' = operation /\ call' = call
      /\ step = "opening" /\ step' \in {"executing", "handling"} /\ kept' = kept
      /\ receipt' = receipt /\ artifact' = artifact /\ manifest' = manifest
      /\ events' = events
  BY DEF Opens, OpenFails, files
<1>2. ~kept /\ error = Nothing /\ call = Nothing /\ session # "lost"
  BY <1>1 DEF RunInv, AtStep
<1>3. artifact = Nothing /\ manifest = Nothing /\ events = Nothing
  BY <1>1, NoFilesYet
<1>4. session' \in {session, "open"}
      /\ (step' = "handling" => error' \in Errors) /\ (step' = "executing" => error' = error)
  BY DEF Opens, OpenFails
<1>5. RunTypeOK'
  BY <1>1, <1>4, SameGateway DEF RunInv, RunTypeOK
<1>6. Judged' /\ AtStep' /\ Filed'
  BY <1>1, <1>2, <1>3, <1>4 DEF Judged, AtStep, Filed
<1> QED
  BY <1>1, <1>5, <1>6, SameAnswer DEF RunInv

\* The receipt that is judged of an executed plan is the transport's.
LEMMA JudgeKeeps == ASSUME RunInv, Judge PROVE RunInv'
<1>1. /\ UNCHANGED gatewayVars /\ operation' = operation /\ call' = call
      /\ step = "executing" /\ step' = "closing" /\ kept' = TRUE /\ error' = error
      /\ session' = session /\ artifact' = artifact /\ manifest' = manifest
      /\ events' = events /\ stage = "reported" /\ operation \in Operations
  BY CommandsAssumption DEF Judge, files, RunInv
<1>2. artifact = Nothing /\ manifest = Nothing /\ events = Nothing /\ error = Nothing
      /\ session # "lost"
  BY <1>1, NoFilesYet DEF RunInv, AtStep
<1>3. /\ receipt' \in ReadReceipt
      /\ receipt'.sent = report.sent /\ receipt'.verified = report.verified
      /\ receipt'.status = "SUCCEEDED" <=> report.status = "EXECUTED"
      /\ report.status = "EXECUTED" => Sound
  <2>1. CASE report.status = "EXECUTED"
    <3>1. /\ receipt' \in ReceiptsOf(operation, Document, call)
          /\ ToGateway(receipt') = report.receipts[1]
      BY <2>1 DEF Judge
    <3>2. /\ report.receipts = receipts /\ report.mode = "live" /\ NetworkSent(receipts)
          /\ report.sent = NetworkSent(receipts) /\ Len(receipts) = Len(executed)
          /\ report.verified = ReadbackVerified(receipts)
      BY <1>1, <2>1 DEF RunInv, GatewayInv, Reported, ModeKept
    <3>3. receipts # <<>>
      BY <3>2 DEF NetworkSent
    <3>4. call \in Results /\ call # Nothing /\ Len(receipts) = 1
      BY <3>3 DEF RunInv, Answered, RunTypeOK
    <3>5. /\ receipt' \in ReadReceipt /\ receipt'.operation = operation
          /\ receipt'.status = "SUCCEEDED" <=> receipt'.verified
          /\ receipt'.status = "SUCCEEDED" =>
                /\ call.kind = "returned"
                /\ Judgements(operation, Document, call.response) = {"none"}
      BY <1>1, <3>1, <3>4, ReceiptsOfFacts
    <3>6. /\ receipts[1].status = receipt'.status /\ receipts[1].sent = receipt'.sent
          /\ receipts[1].verified = receipt'.verified
      BY <3>1, <3>2 DEF ToGateway
    <3>7. 1 \in DOMAIN receipts /\ DOMAIN receipts = {1} /\ DOMAIN executed = {1}
      <4>1. receipts \in Seq(Receipt) /\ executed \in Seq(Names)
        BY DEF RunInv, GatewayInv, TypeOK
      <4>2. Len(receipts) = 1 /\ Len(executed) = 1
        BY <3>2, <3>4
      <4>3. DOMAIN receipts = 1..1 /\ DOMAIN executed = 1..1
        BY ONLY <4>1, <4>2
      <4> QED
        BY ONLY <4>3
    <3>8. receipts[1].status = "SUCCEEDED"
      BY <3>7 DEF RunInv, GatewayInv, InOrder
    <3>9. receipt'.sent /\ receipt'.verified
      <4>1. receipts[1].sent
        BY <3>2, <3>7 DEF NetworkSent
      <4>2. receipt'.sent = TRUE
        BY <3>5, <3>6, <4>1 DEF ReadReceipt
      <4> QED
        BY <3>5, <3>6, <3>8, <4>2
    <3>10. ReadbackVerified(receipts)
      BY <3>3, <3>6, <3>7, <3>9 DEF ReadbackVerified
    <3>11. Sound
      BY <3>2, <3>4, <3>5, <3>6, <3>8 DEF Sound
    <3>12. receipt'.sent = TRUE /\ receipt'.verified = TRUE
      BY <3>5, <3>9 DEF ReadReceipt
    <3>13. report.sent = TRUE /\ report.verified = TRUE
      BY <3>2, <3>10 DEF NetworkSent, ReadbackVerified
    <3> QED
      BY <2>1, <3>5, <3>6, <3>8, <3>11, <3>12, <3>13
  <2>2. CASE report.status # "EXECUTED"
    <3>1. receipt' = FailedReceipt(report.code, report.sent)
      BY <2>2 DEF Judge
    <3>2. /\ report.code \in StableCodes /\ ~report.verified
          /\ report.sent \in BOOLEAN /\ report.verified \in BOOLEAN
      BY <1>1, <2>2
         DEF RunInv, Summed, NetworkSent, ReadbackVerified, SafeCodes, StableCodes, StatusCodes
    <3> QED
      BY <1>1, <2>2, <3>1, <3>2 DEF FailedReceipt, ReadReceipt
  <2> QED
    BY <2>1, <2>2
<1>4. Judged'
  BY <1>1, <1>3, SameAnswer DEF Judged
<1>5. RunTypeOK'
  BY <1>1, <1>3, SameGateway DEF RunInv, RunTypeOK
<1>6. AtStep' /\ Filed'
  BY <1>1, <1>2 DEF AtStep, Filed
<1> QED
  BY <1>1, <1>4, <1>5, <1>6, SameAnswer DEF RunInv

\* The session closes, or fails to.
LEMMA CloseKeeps == ASSUME RunInv, Closes \/ CloseFails PROVE RunInv'
<1>1. /\ UNCHANGED gatewayVars /\ operation' = operation /\ call' = call
      /\ step = "closing" /\ kept' = kept
      /\ receipt' = receipt /\ artifact' = artifact /\ manifest' = manifest
      /\ events' = events
  BY DEF Closes, CloseFails, files
<1>2. kept /\ error = Nothing
  BY <1>1 DEF RunInv, AtStep
<1>3. artifact = Nothing /\ manifest = Nothing /\ events = Nothing
  BY <1>1, NoFilesYet
<1>4. \/ session' = "closed" /\ step' = "recording" /\ error' = error
      \/ session' = "broken" /\ step' = "handling" /\ error' \in Errors
  BY DEF Closes, CloseFails
<1>5. RunTypeOK'
  BY <1>1, <1>4, SameGateway DEF RunInv, RunTypeOK
<1>6. Judged'
  BY <1>1, SameAnswer DEF RunInv, Judged
<1>7. receipt \in ReadReceipt
  BY <1>2 DEF RunInv, Judged
<1>8. AtStep'
  BY <1>1, <1>2, <1>3, <1>4, <1>7 DEF AtStep, Settled
<1>9. Filed'
  BY <1>1, <1>3, <1>4, SMT DEF Filed, Torn, Nothing
<1> QED
  BY <1>1, <1>5, <1>6, <1>8, <1>9, SameAnswer DEF RunInv

\* An exception is handled.
LEMMA HandleKeeps == ASSUME RunInv, Handle PROVE RunInv'
<1>1. /\ UNCHANGED gatewayVars /\ operation' = operation /\ call' = call
      /\ step = "handling" /\ step' = "recording" /\ kept' = FALSE /\ error' = error
      /\ session' = session /\ artifact' = artifact /\ manifest' = manifest
      /\ events' = events /\ operation \in Operations
      /\ receipt' = FailedReceipt(FailureCode(error), error.flag \/ (kept /\ report.sent))
  BY CommandsAssumption DEF Handle, files, RunInv
<1>2. artifact = Nothing /\ manifest = Nothing /\ events = Nothing
  BY <1>1, NoFilesYet
<1>3. FailureCode(error) \in StableCodes
  BY DEF FailureCode, StableCodes, StatusCodes
<1>4. receipt' \in ReadReceipt /\ receipt'.status = "FAILED" /\ ~receipt'.verified
  BY <1>1, <1>3 DEF FailedReceipt, ReadReceipt
<1>5. RunTypeOK'
  BY <1>1, <1>4, SameGateway DEF RunInv, RunTypeOK
<1>6. Judged' /\ AtStep'
  BY <1>1, <1>2, <1>4 DEF Judged, AtStep, Settled
<1>7. Filed'
  BY <1>1, <1>2, SMT DEF Filed, Torn, Nothing
<1> QED
  BY <1>1, <1>5, <1>6, <1>7, SameAnswer DEF RunInv

-----------------------------------------------------------------------------
(* Every step keeps the invariant: the run log's, and what breaks it off.  *)

\* The receipt of an event is no torn line, and a record is something.
LEMMA SummaryIsWhole ==
  ASSUME NEW r
  PROVE  Summary(r) # Torn /\ Summary(r) # Nothing
<1>1. "status" \in DOMAIN Summary(r) /\ "status" \notin DOMAIN Torn
      /\ "status" \notin DOMAIN Nothing
  BY DEF Summary, Torn, Nothing
<1> QED
  BY <1>1

\* While the run is recorded the service has what it records.
LEMMA RecordingSame ==
  ASSUME RunInv, UNCHANGED gatewayVars, operation' = operation, call' = call,
         kept' = kept, receipt' = receipt, error' = error
  PROVE  /\ Judged' /\ Answered' /\ Summed' /\ GatewayInv' /\ ModeKept' /\ plan'.mode = "live"
         /\ operation' \in Commands /\ report' = report /\ stage' = stage
         /\ (Settled /\ session' = session => Settled')
         /\ (step' \in {"opening", "executing", "closing", "handling", "recording"} \union Final
             /\ session' \in {"none", "open", "closed", "broken", "lost"} => RunTypeOK')
BY SameAnswer DEF RunInv, Judged, Settled, RunTypeOK

\* A file is written, or fails to be: those there agree with the run.
LEMMA RecordKeeps == ASSUME RunInv, Record PROVE RunInv'
<1>1. /\ UNCHANGED gatewayVars /\ operation' = operation /\ call' = call
      /\ kept' = kept /\ receipt' = receipt /\ error' = error /\ session' = session
      /\ step = "recording" /\ step' \in {"recording", "returned", "raised"}
  BY DEF Record, WriteArtifact, CreateManifest, AppendEvent, Return, RecordFails, serviceVars
<1>2. RunTypeOK' /\ Judged' /\ report' = report
  BY <1>1, RecordingSame DEF RunInv, RunTypeOK, Final
<1>3. AtStep'
  BY <1>1, RecordingSame DEF RunInv, AtStep
<1>4. Filed'
  <2>1. Filed /\ events # Torn /\ Summary(receipt)' = Summary(receipt)
        /\ Summary(receipt) # Torn /\ Summary(receipt) # Nothing
    BY <1>1, SummaryIsWhole DEF RunInv, Filed, Summary
  <2>2. CASE WriteArtifact
    BY <1>1, <1>2, <2>1, <2>2 DEF WriteArtifact, serviceVars, Filed
  <2>3. CASE CreateManifest
    BY <1>1, <1>2, <2>1, <2>3 DEF CreateManifest, serviceVars, Filed
  <2>4. CASE AppendEvent
    BY <1>1, <1>2, <2>1, <2>4 DEF AppendEvent, serviceVars, Filed
  <2>5. CASE Return
    BY <1>1, <1>2, <2>1, <2>5 DEF Return, files, Filed
  <2>6. CASE RecordFails
    BY <1>1, <1>2, <2>1, <2>6 DEF RecordFails, PartOfALine, Filed
  <2> QED
    BY <2>2, <2>3, <2>4, <2>5, <2>6 DEF Record
<1> QED
  BY <1>1, <1>2, <1>3, <1>4, RecordingSame DEF RunInv

\* The user's interrupt, or the end of the process.
LEMMA BreakOffKeeps == ASSUME RunInv, Interrupt \/ Crash PROVE RunInv'
<1>1. /\ UNCHANGED gatewayVars /\ operation' = operation /\ call' = call
      /\ kept' = kept /\ receipt' = receipt /\ error' = error
      /\ artifact' = artifact /\ manifest' = manifest
      /\ step' \in {"raised", "stopped"} /\ step \notin Final
      /\ session' \in {session, "closed", "broken"}
      /\ (session # "open" => session' = session)
      /\ (step = "recording" /\ PartOfALine) \/ events' = events
  BY DEF Interrupt, Crash
<1>2. RunTypeOK' /\ Judged' /\ report' = report
  BY <1>1, RecordingSame DEF RunInv, RunTypeOK, Final
<1>3. AtStep'
  <2>1. artifact # Nothing => Settled'
    <3>1. artifact # Nothing => receipt \in ReadReceipt /\ Settled
      BY DEF RunInv, AtStep, Settled
    <3> QED
      BY <1>1, <3>1 DEF Settled
  <2>2. session = "lost" => ~kept
    BY DEF RunInv, AtStep
  <2> QED
    BY <1>1, <2>1, <2>2 DEF AtStep
<1>4. Filed'
  <2>1. Filed /\ Summary(receipt)' = Summary(receipt)
    BY <1>1 DEF RunInv, Summary
  <2> QED
    BY <1>1, <1>2, <2>1 DEF PartOfALine, Filed
<1> QED
  BY <1>1, <1>2, <1>3, <1>4, RecordingSame DEF RunInv

\* The user's interrupt of the call, in whose place the close raises.
LEMMA ReplacedKeeps == ASSUME RunInv, InterruptReplaced PROVE RunInv'
<1>1. /\ UNCHANGED gatewayVars /\ operation' = operation /\ call' = call
      /\ step = "executing" /\ step' = "handling" /\ session' = "lost" /\ error' \in Errors
      /\ kept' = kept /\ receipt' = receipt /\ artifact' = artifact
      /\ manifest' = manifest /\ events' = events
  BY DEF InterruptReplaced, files
<1>2. ~kept /\ artifact = Nothing /\ manifest = Nothing /\ events = Nothing
  BY <1>1, NoFilesYet DEF RunInv, AtStep
<1>3. RunTypeOK'
  BY <1>1, SameGateway DEF RunInv, RunTypeOK
<1>4. Judged' /\ AtStep' /\ Filed'
  BY <1>1, <1>2 DEF Judged, AtStep, Filed
<1> QED
  BY <1>1, <1>3, <1>4, SameAnswer DEF RunInv

\* A step that changes nothing.
LEMMA RunStutterKeeps == ASSUME RunInv, UNCHANGED allVars PROVE RunInv'
<1>1. /\ UNCHANGED gatewayVars /\ operation' = operation /\ call' = call
      /\ kept' = kept /\ receipt' = receipt /\ error' = error /\ session' = session
      /\ step' = step /\ artifact' = artifact /\ manifest' = manifest /\ events' = events
  BY DEF allVars, serviceVars, files
<1>2. RunTypeOK' /\ Judged' /\ report' = report /\ stage' = stage
  BY <1>1, RecordingSame DEF RunInv, RunTypeOK
<1>3. AtStep'
  BY <1>1, <1>2, RecordingSame DEF RunInv, AtStep
<1>4. Filed'
  BY <1>1, <1>2 DEF RunInv, Filed, Summary
<1> QED
  BY <1>1, <1>2, <1>3, <1>4, RecordingSame DEF RunInv

\* Every step of a run keeps the invariant.
LEMMA RunInvNext == ASSUME OneRead, RunInv, [NextRun]_allVars PROVE RunInv'
BY ExecuteKeeps, CallToolKeeps, OpenKeeps, JudgeKeeps, CloseKeeps, HandleKeeps, RecordKeeps,
   BreakOffKeeps, ReplacedKeeps, RunStutterKeeps DEF NextRun, Session, Ended

-----------------------------------------------------------------------------
(* What the invariant says of a run.                                       *)

\* The inductive invariant holds throughout every run in live mode whose plan is of
\* the one read it was made for (LiveReadService.run, RunLogger).
THEOREM RunInvariant ==
  ASSUME OneRead
  PROVE  plan.mode = "live" /\ SpecRun => []RunInv
<1>1. plan.mode = "live" /\ InitRun => RunInv
  BY RunInvInit
<1>2. RunInv /\ [NextRun]_allVars => RunInv'
  BY RunInvNext
<1> QED
  BY <1>1, <1>2, PTL DEF SpecRun

\* The artifact, the manifest and the event are of one receipt.
LEMMA FilesOfInv == RunInv => FilesAgree
<1> SUFFICES ASSUME RunInv PROVE FilesAgree
  OBVIOUS
<1>1. ASSUME manifest # Nothing
      PROVE  /\ artifact # Nothing
             /\ manifest.status = "SUCCEEDED" <=> artifact.status = "EXECUTED"
             /\ manifest.sent = artifact.sent /\ manifest.verified = artifact.verified
  <2>1. /\ artifact # Nothing /\ manifest = Summary(receipt) /\ Settled
    BY <1>1 DEF RunInv, Filed, AtStep
  <2>2. manifest.status = receipt.status /\ manifest.sent = receipt.sent
        /\ manifest.verified = receipt.verified
    BY <2>1 DEF Summary
  <2>3. CASE kept
    <3>1. artifact.status = report.status /\ artifact.sent = report.sent
          /\ artifact.verified = report.verified
      BY <2>1, <2>3 DEF RunInv, Filed
    <3>2. /\ receipt.sent = report.sent /\ receipt.verified = report.verified
          /\ receipt.status = "SUCCEEDED" <=> report.status = "EXECUTED"
      BY <2>3 DEF RunInv, Judged
    <3> QED
      BY <2>1, <2>2, <3>1, <3>2
  <2>4. CASE ~kept
    <3>1. artifact.status = receipt.status /\ artifact.sent = receipt.sent
          /\ artifact.verified = receipt.verified /\ receipt.status = "FAILED"
      BY <2>1, <2>4 DEF RunInv, Filed, Settled
    <3> QED
      BY <2>1, <2>2, <3>1
  <2> QED
    BY <2>3, <2>4
<1>2. events # Nothing => manifest # Nothing
  BY DEF RunInv, Filed
<1>3. events \notin {Nothing, Torn} => events = manifest
  BY DEF RunInv, Filed
<1> QED
  BY <1>1, <1>2, <1>3 DEF FilesAgree

\* A run succeeds on the evidence of a response.
LEMMA SuccessOfInv == RunInv => SuccessIsWhole
<1> SUFFICES ASSUME RunInv, manifest # Nothing, manifest.status = "SUCCEEDED"
             PROVE  /\ Written /\ call.kind = "returned"
                    /\ Judgements(operation, Document, call.response) = {"none"}
                    /\ report.status = "EXECUTED" /\ report.mode = "live"
                    /\ session = "closed" /\ error = Nothing
  BY DEF SuccessIsWhole
<1>1. Settled /\ receipt.status = "SUCCEEDED"
  BY DEF RunInv, Filed, AtStep, Summary
<1>2. kept /\ session = "closed" /\ error = Nothing
  BY <1>1 DEF Settled
<1>3. report.status = "EXECUTED" /\ Sound
  BY <1>1, <1>2 DEF RunInv, Judged
<1> QED
  BY <1>2, <1>3 DEF Sound, Written

\* A run that returns has its receipt on record.
LEMMA RecordedOfInv == RunInv => ReturnMeansRecorded
<1> SUFFICES ASSUME RunInv, step = "returned"
             PROVE  artifact # Nothing /\ manifest = Summary(receipt)
                    /\ events = Summary(receipt)
  BY DEF ReturnMeansRecorded
<1>1. events = Summary(receipt) /\ events # Nothing
  BY SummaryIsWhole DEF RunInv, Filed
<1> QED
  BY <1>1 DEF RunInv, Filed

\* A report that is kept does not deny the request of the call.
LEMMA ReportTells ==
  ASSUME RaisedTells, RunInv, Written, stage = "reported"
  PROVE  report.sent
<1>1. call # Nothing /\ call \in Results /\ operation \in Operations
  BY CommandsAssumption DEF Written, RunInv, RunTypeOK
<1>2. /\ Len(receipts) = 1 /\ receipts \in Seq(Receipt)
      /\ \E r \in ReceiptsOf(operation, Document, call) : receipts[1] = ToGateway(r)
  BY <1>1 DEF RunInv, Answered, GatewayInv, TypeOK
<1>3. PICK r \in ReceiptsOf(operation, Document, call) : receipts[1] = ToGateway(r)
  BY <1>2
<1>4. r.sent
  <2>1. call.kind = "returned" \/ (call.kind = "raised" /\ call.written)
    BY <1>1, <1>3, ReceiptsOfFacts DEF Written
  <2> QED
    BY <1>1, <1>3, <2>1, ReceiptsOfFacts DEF RaisedTells
<1>5. receipts[1].sent
  BY <1>3, <1>4 DEF ToGateway
<1>6. 1 \in DOMAIN receipts
  BY ONLY <1>2
<1>7. NetworkSent(receipts)
  BY <1>5, <1>6 DEF NetworkSent
<1> QED
  BY <1>7 DEF RunInv, Summed

\* What was written to the child is told from then on.
LEMMA ToldNext ==
  ASSUME RaisedTells, RunInv, Told, [NextRun]_allVars
  PROVE  Told'
<1> SUFFICES ASSUME step' \in {"recording", "returned"}, Written', session' # "lost"
             PROVE  receipt'.sent
  BY DEF Told
<1>1. CASE step \in {"recording", "returned"}
  <2>1. receipt' = receipt /\ call' = call /\ session' = session
    BY <1>1 DEF NextRun, Session, Opens, OpenFails, Execute, CallTool, Judge, Closes,
       CloseFails, Handle, Record, WriteArtifact, CreateManifest, AppendEvent, Return,
       RecordFails, Interrupt, InterruptReplaced, Crash, Ended, allVars, serviceVars
  <2> QED
    BY <1>1, <2>1 DEF Told, Written
<1>2. CASE Closes
  <2>1. receipt' = receipt /\ call' = call /\ kept
    BY <1>2 DEF Closes, RunInv, AtStep
  <2>2. Written /\ stage = "reported" /\ receipt.sent = report.sent
    BY <2>1 DEF Written, RunInv, Judged
  <2> QED
    BY <2>1, <2>2, ReportTells
<1>3. CASE Handle
  <2>1. call' = call /\ session' = session /\ (kept \/ call = Nothing)
        /\ receipt'.sent = (error.flag \/ (kept /\ report.sent))
    BY <1>3 DEF Handle, FailedReceipt, RunInv, AtStep
  <2>2. Written /\ kept /\ stage = "reported"
    BY <2>1 DEF Written, RunInv, Judged
  <2> QED
    BY <2>1, <2>2, ReportTells
<1>4. step \notin {"recording", "returned"} => Closes \/ Handle
  BY DEF NextRun, Session, Opens, OpenFails, Execute, CallTool, Judge, CloseFails, Record,
     WriteArtifact, CreateManifest, AppendEvent, Return, RecordFails, Interrupt,
     InterruptReplaced, Crash, Ended, allVars, serviceVars
<1> QED
  BY <1>1, <1>2, <1>3, <1>4

-----------------------------------------------------------------------------
\* Whatever fails and wherever the run stops, its files never contradict each
\* other: no event without a manifest, no manifest without a report, and all that
\* are there agree on the success, the request and the verification.
THEOREM FilesNeverDisagree ==
  ASSUME OneRead
  PROVE  plan.mode = "live" /\ SpecRun => []FilesAgree
BY RunInvariant, FilesOfInv, PTL

\* A read is recorded as a success only if the response holds its evidence, the
\* gateway executed the plan live and the session closed without an error.
THEOREM SuccessStandsOnEvidence ==
  ASSUME OneRead
  PROVE  plan.mode = "live" /\ SpecRun => []SuccessIsWhole
BY RunInvariant, SuccessOfInv, PTL

\* A caller that is handed a receipt finds all three files, with that receipt.
THEOREM ReceiptsAreOnRecord ==
  ASSUME OneRead
  PROVE  plan.mode = "live" /\ SpecRun => []ReturnMeansRecorded
BY RunInvariant, RecordedOfInv, PTL

\* If an exception of call_tool says so when its request had been written, no
\* receipt and no record of a run denies a request that reached the child,
\* whatever happens to the session afterwards, unless the user has interrupted the
\* call and closing the session fails as well.
THEOREM NoRequestHidden ==
  ASSUME OneRead, RaisedTells
  PROVE  plan.mode = "live" /\ SpecRun => []NoHiddenRequest
<1>1. InitRun => Told
  BY DEF InitRun, Told
<1>2. RunInv /\ Told /\ [NextRun]_allVars => Told'
  BY ToldNext
<1>3. RunInv /\ Told => NoHiddenRequest
  BY DEF RunInv, Filed, Told, NoHiddenRequest, Summary
<1> QED
  BY <1>1, <1>2, <1>3, RunInvariant, PTL DEF SpecRun

=============================================================================
