------------------------------ MODULE LiveRun ------------------------------
(***************************************************************************)
(* LiveService._run (src/onshape_agent/live_service.py): one live read,    *)
(* through the gateway and the read transport, within a session that is    *)
(* opened for it, recorded by a RunLog (src/onshape_agent/runlog.py).      *)
(*                                                                         *)
(* The gateway is Gateway, step by step, over the plan of one read; the    *)
(* transport answers as LiveReads says; the session may raise when it is   *)
(* opened, called or closed; writing a file may fail; the user may         *)
(* interrupt the run (KeyboardInterrupt, which `except Exception` does not *)
(* catch) and the process may stop, between any two steps.                 *)
(*                                                                         *)
(* The transport never refuses these plans and the policy never denies     *)
(* them, as their scope and parameters are the service's own: those steps  *)
(* of Gateway are left out, and a run that needed one would deadlock.      *)
(***************************************************************************)
EXTENDS Gateway, LiveReads

CONSTANTS
    Commands,  \* the operations the service offers
    Document,  \* the document that read_document names
    Results,   \* what call_tool may do
    Errors     \* what opening or closing a session may raise

\* kind: OSError, ValueError or any other exception; code "untyped": it has none.
Error == [kind : {"os", "value", "other"}, flag : BOOLEAN,
          code : StableCodes \union {"MCP_ERROR", "untyped"}]

ASSUME CommandsAssumption == Commands \subseteq Operations
ASSUME DocumentAssumption == Document \in Identifiers
ASSUME ResultsAssumption == \A x \in Results : IsResult(x)
ASSUME ErrorsAssumption == Errors \subseteq Error

VARIABLES
    step,       \* where _run is
    operation,  \* the read
    session,    \* "none", "open", "closed", "broken": its close has failed, or "lost": its
                \* close has failed while an interrupt was on its way out of the call
    call,       \* history: what call_tool did
    error,      \* the exception being handled
    kept,       \* the local variable report is not None
    receipt,    \* the receipt _run makes
    artifact,   \* live_execution_report.json: the gateway's report or the receipt
    manifest,   \* manifest.json
    events      \* events.jsonl: "none", "torn", or its line's receipt

gatewayVars == vars
files == <<artifact, manifest, events>>
serviceVars == <<step, operation, session, call, error, kept, receipt>>
allVars == <<gatewayVars, serviceVars, files>>

Nothing == [kind |-> "nothing"]

InitRun ==
    /\ Init
    /\ operation \in Commands
    /\ step = "opening"
    /\ session = "none"
    /\ call = Nothing /\ error = Nothing
    /\ kept = FALSE
    /\ receipt = Nothing
    /\ artifact = Nothing /\ manifest = Nothing /\ events = Nothing

-----------------------------------------------------------------------------
(* The session, and what runs within it.                                   *)

Opens ==
    /\ step = "opening"
    /\ session' = "open" /\ step' = "executing"
    /\ UNCHANGED <<gatewayVars, operation, call, error, kept, receipt, files>>

OpenFails ==
    /\ step = "opening"
    /\ error' \in Errors
    /\ step' = "handling"
    /\ UNCHANGED <<gatewayVars, operation, session, call, kept, receipt, files>>

\* The gateway's own steps.
Execute ==
    /\ step = "executing"
    /\ Validate \/ TakeSnapshot \/ PreflightAccepts \/ Complete
    /\ UNCHANGED <<serviceVars, files>>

ToGateway(r) == [matches |-> r.operation = operation, status |-> r.status, sent |-> r.sent,
                 verified |-> r.verified,
                 error |-> IF r.error = "none" THEN "UNLISTED" ELSE r.error]

CallTool ==
    /\ step = "executing"
    /\ call' \in Results
    /\ \E r \in ReceiptsOf(operation, Document, call') : DispatchReturns(ToGateway(r))
    /\ UNCHANGED <<step, operation, session, error, kept, receipt, files>>

FailedReceipt(why, sent) ==
    [operation |-> operation, status |-> "FAILED", sent |-> sent, verified |-> FALSE,
     error |-> why]

\* report.receipts[0] of a plan that was executed, or a receipt of its own.
Judge ==
    /\ step = "executing" /\ stage = "reported"
    /\ kept' = TRUE
    /\ IF report.status = "EXECUTED"
       THEN receipt' \in {r \in ReceiptsOf(operation, Document, call) :
                             ToGateway(r) = report.receipts[1]}
       ELSE receipt' = FailedReceipt(report.code, report.sent)
    /\ step' = "closing"
    /\ UNCHANGED <<gatewayVars, operation, session, call, error, files>>

Closes ==
    /\ step = "closing"
    /\ session' = "closed" /\ step' = "recording"
    /\ UNCHANGED <<gatewayVars, operation, call, error, kept, receipt, files>>

\* Mutant: an exception of close() is swallowed.
CloseFailsIgnored ==
    /\ step = "closing"
    /\ session' = "broken" /\ step' = "recording"
    /\ error' \in Errors
    /\ UNCHANGED <<gatewayVars, operation, call, kept, receipt, files>>

CloseFails ==
    /\ step = "closing"
    /\ session' = "broken" /\ step' = "handling"
    /\ error' \in Errors
    /\ UNCHANGED <<gatewayVars, operation, call, kept, receipt, files>>

-----------------------------------------------------------------------------
(* except Exception, and _failed_receipt.                                  *)

\* Mutant: whatever code the exception has goes into the receipt.
FailureCodeRaw(e) == e.code

FailureCode(e) ==
    IF e.code \in StableCodes THEN e.code
    ELSE CASE e.kind = "os"    -> "TRANSPORT_UNAVAILABLE"
           [] e.kind = "value" -> "INVALID_RESPONSE"
           [] OTHER            -> "TRANSPORT_FAILED"

\* Mutant: the report is kept beside a receipt that says the run has failed.
HandleKeeping ==
    /\ step = "handling"
    /\ receipt' = FailedReceipt(FailureCode(error), error.flag \/ (kept /\ report.sent))
    /\ step' = "recording"
    /\ UNCHANGED <<gatewayVars, operation, session, call, error, kept, files>>

\* Mutant: only the exception tells whether a request was sent.
HandleForgetting ==
    /\ step = "handling"
    /\ receipt' = FailedReceipt(FailureCode(error), error.flag)
    /\ kept' = FALSE
    /\ step' = "recording"
    /\ UNCHANGED <<gatewayVars, operation, session, call, error, files>>

Handle ==
    /\ step = "handling"
    /\ receipt' = FailedReceipt(FailureCode(error), error.flag \/ (kept /\ report.sent))
    /\ kept' = FALSE
    /\ step' = "recording"
    /\ UNCHANGED <<gatewayVars, operation, session, call, error, files>>

-----------------------------------------------------------------------------
(* The run log. A JSON file is written beside its place and moved there.   *)

Summary(r) == [status |-> r.status, sent |-> r.sent, verified |-> r.verified]

WriteArtifact ==
    /\ step = "recording" /\ artifact = Nothing
    /\ artifact' = IF kept
                   THEN [kind |-> "report", status |-> report.status, sent |-> report.sent,
                         verified |-> report.verified]
                   ELSE [kind |-> "receipt", status |-> receipt.status, sent |-> receipt.sent,
                         verified |-> receipt.verified]
    /\ UNCHANGED <<gatewayVars, serviceVars, manifest, events>>

CreateManifest ==
    /\ step = "recording" /\ artifact # Nothing /\ manifest = Nothing
    /\ manifest' = Summary(receipt)
    /\ UNCHANGED <<gatewayVars, serviceVars, artifact, events>>

AppendEvent ==
    /\ step = "recording" /\ manifest # Nothing /\ events = Nothing
    /\ events' = Summary(receipt)
    /\ UNCHANGED <<gatewayVars, serviceVars, artifact, manifest>>

Return ==
    /\ step = "recording" /\ events # Nothing
    /\ step' = "returned"
    /\ UNCHANGED <<gatewayVars, operation, session, call, error, kept, receipt, files>>

\* What a write that fails or is cut short may leave: part of the event's line.
Torn == [kind |-> "torn"]
PartOfALine ==
    events' \in {events} \union (IF manifest # Nothing /\ events = Nothing THEN {Torn} ELSE {})

\* An OSError of the run log leaves _run.
RecordFails ==
    /\ step = "recording" /\ events = Nothing
    /\ PartOfALine
    /\ step' = "raised"
    /\ UNCHANGED <<gatewayVars, operation, session, call, error, kept, receipt, artifact, manifest>>

-----------------------------------------------------------------------------
Final == {"returned", "raised", "stopped"}

\* The `with` statement closes the session on the way out, unless the interrupt
\* hits the close itself.  An exception of that close takes the interrupt's place:
\* when the session is opened or closed, this is OpenFails or CloseFails.
Interrupt ==
    /\ step \notin Final
    /\ session' \in IF session # "open" THEN {session}
                    ELSE IF step = "closing" THEN {"closed", "broken"} ELSE {"closed"}
    /\ step' = "raised"
    /\ IF step = "recording" THEN PartOfALine ELSE UNCHANGED events
    /\ UNCHANGED <<gatewayVars, operation, call, error, kept, receipt, artifact, manifest>>

\* During the call, report is still None; whether the call had been made is what
\* an interrupt in the midst of it leaves open.
InterruptReplaced ==
    /\ step = "executing"
    /\ session' = "lost" /\ step' = "handling"
    /\ error' \in Errors
    /\ UNCHANGED <<gatewayVars, operation, call, kept, receipt, files>>

Crash ==
    /\ step \notin Final
    /\ step' = "stopped"
    /\ IF step = "recording" THEN PartOfALine ELSE UNCHANGED events
    /\ UNCHANGED <<gatewayVars, operation, session, call, error, kept, receipt, artifact, manifest>>

Ended == step \in Final /\ UNCHANGED allVars

Session == Opens \/ OpenFails \/ Execute \/ CallTool \/ Judge \/ Closes \/ CloseFails
Record == WriteArtifact \/ CreateManifest \/ AppendEvent \/ Return \/ RecordFails

NextRun == Session \/ Handle \/ Record \/ Interrupt \/ InterruptReplaced \/ Crash \/ Ended

SpecRun == InitRun /\ [][NextRun]_allVars

-----------------------------------------------------------------------------
(* Properties.                                                             *)

RunTypeOK ==
    /\ TypeOK
    /\ step \in {"opening", "executing", "closing", "handling", "recording"} \union Final
    /\ session \in {"none", "open", "closed", "broken", "lost"}
    /\ call = Nothing \/ call \in Results
    /\ receipt = Nothing \/ receipt \in ReadReceipt

Written == call # Nothing /\ (call.kind = "returned" \/ call.written)

\* The files of a run never contradict each other, whenever it stops: there is
\* no event without a manifest and no manifest without the report it refers to,
\* and the three agree on whether the read succeeded and a request was sent.
FilesAgree ==
    /\ events # Nothing => manifest # Nothing
    /\ manifest # Nothing =>
          /\ artifact # Nothing
          /\ manifest.status = "SUCCEEDED" <=> artifact.status = "EXECUTED"
          /\ manifest.sent = artifact.sent /\ manifest.verified = artifact.verified
    /\ events \notin {Nothing, Torn} => events = manifest

\* No record of a run, and no receipt, denies a request that reached the child,
\* not even when the session fails after it.  One case is excluded, in which the
\* code does deny it: the user interrupts the run after the request and before the
\* report, and closing the session fails too; the exception of the close is then
\* recorded, and it knows of no request.
NoHiddenRequest ==
    Written /\ session # "lost" /\ step \in {"recording", "returned"} =>
        /\ receipt.sent
        /\ manifest # Nothing => manifest.sent

\* A read is recorded as SUCCEEDED only if the request was sent, its response
\* holds the evidence, the gateway executed the plan, and the session closed
\* without an error.
SuccessIsWhole ==
    manifest # Nothing /\ manifest.status = "SUCCEEDED" =>
        /\ Written /\ call.kind = "returned"
        /\ Judgements(operation, Document, call.response) = {"none"}
        /\ report.status = "EXECUTED" /\ report.mode = "live"
        /\ session = "closed" /\ error = Nothing

\* A caller that gets a receipt finds the whole run on disk, with that receipt.
ReturnMeansRecorded ==
    step = "returned" =>
        /\ artifact # Nothing
        /\ manifest = Summary(receipt)
        /\ events = Summary(receipt)
=============================================================================
