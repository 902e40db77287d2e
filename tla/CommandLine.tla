---------------------------- MODULE CommandLine ----------------------------
(***************************************************************************)
(* The commands of onshape-agent (src/onshape_agent/cli.py), each from its *)
(* start to its exit status: doctor (doctor.py), the live reads            *)
(* (live_service.py), demo and example (demo.py, examples.py), and auth    *)
(* status.                                                                 *)
(*                                                                         *)
(* A live read is LiveRun, step by step.  The demo executes its plan with  *)
(* the steps of Gateway, over RecordingTransport.  auth status looks at    *)
(* the files that the writers of OnshapeConfig are changing.  The user may *)
(* interrupt a command and the process may be killed, between any two      *)
(* steps.                                                                  *)
(***************************************************************************)
EXTENDS LiveRun, Orchestrator, OnshapeConfig

CONSTANT Invocations  \* the commands with what they are given and what they find

CommandNames == {"doctor", "doctor_live", "list_documents", "read_document", "demo", "example",
                 "auth_status"}

\* "text": no JSON; "json": JSON, but no object; "hostile": JSON that json.loads
\* raises another exception than JSONDecodeError for.
FileStates == {"missing", "unreadable", "blank", "text", "json", "hostile", "object"}

\* What the checks of doctor find: is it in order, or which state is the file in.
Installation ==
    [python_version : BOOLEAN, package_import : BOOLEAN, output_directory : BOOLEAN,
     codex_manifest : FileStates, claude_manifest : FileStates, shared_skill : FileStates,
     simple_bracket_request : FileStates]

\* examples/<name>/request.json: does it have its name and the status APPROVED,
\* what are the values of the sketch, the extrusion and each hole, and is there
\* a hole or a set of dimensions that run_demo cannot use.
Request ==
    [file : FileStates, named : BOOLEAN, approved : BOOLEAN, usable : BOOLEAN,
     sketch : Values, extrude : Values, holes : Seq(Values)]

\* argument: the limit, the document id or the name of the example is acceptable.
Invocation == [command : CommandNames, argument : BOOLEAN, installation : Installation,
               request : Request]

ASSUME InvocationsAssumption == Invocations \subseteq Invocation

VARIABLES
    invocation,  \* the command
    cli,         \* "start", "reading", "logging" or "ended"
    exit,        \* "none", "success", "failure", "usage" or "killed"
    verdict,     \* the DoctorReport printed
    log          \* what the demo has written: artifacts and events, in order

commandVars == <<invocation, cli, exit, verdict, log>>
everything == <<allVars, configVars, commandVars>>

command == invocation.command
Live == {"doctor_live", "list_documents", "read_document"}
Demos == {"demo", "example"}

NoVerdict == [status |-> "none", sent |-> FALSE, verified |-> FALSE]

-----------------------------------------------------------------------------
(* The plan and the log of run_demo.                                       *)

\* Mutant: the holes are made with the default values.
DemoPlanDefaults(r) ==
    LET sketch_1 == Len(r.holes) + 2 IN
    [mode |-> "simulated", scope |-> "none", assumptions |-> "settled",
     actions |-> <<[id |-> sketch_1, type |-> "ensure", values |-> r.sketch,
                    depends_on |-> <<>>],
                   [id |-> 1, type |-> "ensure", values |-> r.extrude,
                    depends_on |-> <<sketch_1>>]>>
                 \o [i \in DOMAIN r.holes |->
                       [id |-> 1 + i, type |-> "ensure", values |-> "settled",
                        depends_on |-> <<1>>]]]

\* The ids sort as extrude_1 < hole_1 < hole_2 < sketch_1 do; hole_10 sorts before
\* hole_2 too, which changes the order among the holes alone.
DemoPlan(r) ==
    LET sketch_1 == Len(r.holes) + 2 IN
    [mode |-> "simulated", scope |-> "none", assumptions |-> "settled",
     actions |-> <<[id |-> sketch_1, type |-> "ensure", values |-> r.sketch,
                    depends_on |-> <<>>],
                   [id |-> 1, type |-> "ensure", values |-> r.extrude,
                    depends_on |-> <<sketch_1>>]>>
                 \o [i \in DOMAIN r.holes |->
                       [id |-> 1 + i, type |-> "ensure", values |-> r.holes[i],
                        depends_on |-> <<1>>]]]

Script ==
    <<"manifest", "RUN_STARTED">>
    \o (IF command = "example" THEN <<"problem_brief_v1">> ELSE <<>>)
    \o <<"task_graph_v1", "TASK_GRAPH_SELECTED", "execution_plan_v1", "execution_report_v1",
         "CAD_PLAN_EXECUTED", "drawing_plan_v1", "visual_report_v1", "VISUAL_ISSUE_REPORTED",
         "diagnosis_v1", "REPAIR_ROUTED">>

\* What an entry says, of what the properties look at.
Says(entry) ==
    CASE entry \in {"execution_report_v1", "CAD_PLAN_EXECUTED"} ->
             [status |-> report.status, sent |-> report.sent]
      [] entry \in {"diagnosis_v1", "REPAIR_ROUTED"} -> Diagnose("assembly_mate_error", 1, 3)
      [] OTHER -> [status |-> "written"]

-----------------------------------------------------------------------------
InitCommand ==
    /\ invocation \in Invocations
    /\ cli = "start" /\ exit = "none" /\ verdict = NoVerdict /\ log = <<>>
    /\ InitRun
    /\ operation = CASE command = "list_documents" -> "list_documents"
                     [] command = "read_document"  -> "get_document"
                     [] OTHER                      -> "auth_status"
    /\ IF command \in Demos THEN plan = DemoPlan(invocation.request) ELSE plan.mode = "live"
    /\ ConfigInit
    /\ command # "auth_status" => config = NoFile /\ ~tokens

End(how) ==
    /\ cli' = "ended" /\ exit' = how
    /\ UNCHANGED <<invocation, log, configVars>>

-----------------------------------------------------------------------------
(* doctor.                                                                 *)

\* _file_check.
FilePasses(state, parse_json) ==
    state = "object" \/ (~parse_json /\ state \in {"text", "json", "hostile"})

JsonFiles(i) == {i.codex_manifest, i.claude_manifest, i.simple_bracket_request}

OfflineReady(i) ==
    /\ i.python_version /\ i.package_import /\ i.output_directory
    /\ \A state \in JsonFiles(i) : FilePasses(state, TRUE)
    /\ FilePasses(i.shared_skill, FALSE)

ExitOf(status) == IF status \in {"READY_OFFLINE", "READY_LIVE"} THEN "success" ELSE "failure"

\* The file checks raise what json.loads raises.
DoctorRaises ==
    /\ cli = "start" /\ command \in {"doctor", "doctor_live"}
    /\ "hostile" \in JsonFiles(invocation.installation)
    /\ End("failure") /\ UNCHANGED <<allVars, verdict>>

DoctorOffline ==
    /\ cli = "start"
    /\ "hostile" \notin JsonFiles(invocation.installation)
    /\ LET sound  == OfflineReady(invocation.installation)
           status == IF sound THEN "READY_OFFLINE" ELSE "NOT_READY"
       IN  /\ command = "doctor" \/ (command = "doctor_live" /\ ~sound)
           /\ verdict' = [NoVerdict EXCEPT !.status = status]
           /\ End(ExitOf(status))
    /\ UNCHANGED allVars

\* Mutant: a login that could not be checked counts as none.
ProbeStatusGuess(r) ==
    IF r.status = "SUCCEEDED" /\ r.sent /\ r.verified THEN "READY_LIVE" ELSE "AUTH_REQUIRED"

ProbeStatus(r) ==
    IF r.status = "SUCCEEDED" /\ r.sent /\ r.verified THEN "READY_LIVE"
    ELSE IF r.error = "AUTH_REQUIRED" THEN "AUTH_REQUIRED"
    ELSE "NOT_READY"

-----------------------------------------------------------------------------
(* doctor --live, live list-documents and live read-document.              *)

MayRead ==
    IF command = "doctor_live" THEN OfflineReady(invocation.installation)
    ELSE command \in Live /\ invocation.argument

\* The option parser refuses a limit, the service a blank document id.
RefuseArgument ==
    /\ cli = "start" /\ command \in {"list_documents", "read_document"} /\ ~invocation.argument
    /\ End(IF command = "list_documents" THEN "usage" ELSE "failure")
    /\ UNCHANGED <<allVars, verdict>>

StartReading ==
    /\ cli = "start" /\ MayRead
    /\ cli' = "reading"
    /\ UNCHANGED <<allVars, configVars, invocation, exit, verdict, log>>

Read ==
    /\ cli = "reading"
    /\ Session \/ Handle \/ Record
    /\ UNCHANGED <<configVars, commandVars>>

\* Mutant: a receipt is printed, whatever it says, and that is all.
EndReadingPrinted ==
    /\ cli = "reading" /\ step \in Final
    /\ IF step = "returned" /\ command = "doctor_live"
       THEN verdict' = [status |-> ProbeStatus(receipt), sent |-> receipt.sent,
                        verified |-> receipt.verified]
       ELSE UNCHANGED verdict
    /\ End(CASE step = "stopped" -> "killed"
             [] step = "raised"  -> "failure"
             [] OTHER            -> "success")
    /\ UNCHANGED allVars

\* _exit_for_receipt, or the doctor's report.
EndReading ==
    /\ cli = "reading" /\ step \in Final
    /\ IF step = "returned" /\ command = "doctor_live"
       THEN verdict' = [status |-> ProbeStatus(receipt), sent |-> receipt.sent,
                        verified |-> receipt.verified]
       ELSE UNCHANGED verdict
    /\ End(IF step = "stopped" THEN "killed"
           ELSE IF step = "raised" THEN "failure"
           ELSE IF command = "doctor_live" THEN ExitOf(ProbeStatus(receipt))
           ELSE IF receipt.status = "SUCCEEDED" THEN "success" ELSE "failure")
    /\ UNCHANGED allVars

-----------------------------------------------------------------------------
(* demo and example.                                                       *)

\* load_example.
Loads(r) == r.file = "object" /\ r.named /\ r.approved

RefuseExample ==
    /\ cli = "start" /\ command = "example"
    /\ ~(invocation.argument /\ Loads(invocation.request))
    /\ End(IF invocation.argument /\ invocation.request.file = "hostile"
           THEN "failure" ELSE "usage")
    /\ UNCHANGED <<allVars, verdict>>

StartLogging ==
    /\ cli = "start"
    /\ command = "demo" \/ (command = "example" /\ invocation.argument
                              /\ Loads(invocation.request))
    /\ cli' = "logging"
    /\ UNCHANGED <<allVars, configVars, invocation, exit, verdict, log>>

Entry == Script[Len(log) + 1]
MoreToWrite == cli = "logging" /\ Len(log) < Len(Script)

\* CadGateway(RecordingTransport()).execute(plan), before its report is written.
Recorded == [matches |-> TRUE, status |-> "SUCCEEDED", sent |-> FALSE, verified |-> TRUE,
             error |-> "UNLISTED"]

\* Mutant: the demo waits for a plan that is ordered.
ExecuteDemoOrdered ==
    /\ MoreToWrite /\ Entry = "execution_report_v1"
    /\ UNCHANGED <<current, serviceVars, files, configVars, commandVars>>
    /\ Validate \/ TakeSnapshot \/ PreflightAccepts \/ DispatchReturns(Recorded) \/ Complete

ExecuteDemo ==
    /\ MoreToWrite /\ Entry = "execution_report_v1"
    /\ UNCHANGED <<current, serviceVars, files, configVars, commandVars>>
    /\ \/ Validate \/ Refuse \/ TakeSnapshot \/ PreflightAccepts
       \/ DispatchReturns(Recorded) \/ Complete

WriteEntry ==
    /\ MoreToWrite
    /\ Entry = "execution_plan_v1" => command = "demo" \/ invocation.request.usable
    /\ Entry = "execution_report_v1" => stage = "reported"
    /\ log' = Append(log, [entry |-> Entry, says |-> Says(Entry)])
    /\ UNCHANGED <<allVars, configVars, invocation, cli, exit, verdict>>

\* The request has holes or dimensions that cannot be used.
DemoRaises ==
    /\ MoreToWrite
    /\ Entry = "execution_plan_v1" /\ command = "example" /\ ~invocation.request.usable
    /\ End("failure") /\ UNCHANGED <<allVars, verdict>>

EndDemo ==
    /\ cli = "logging" /\ Len(log) = Len(Script)
    /\ End("success") /\ UNCHANGED <<allVars, verdict>>

-----------------------------------------------------------------------------
(* auth status.                                                            *)

Inspect ==
    /\ cli = "start" /\ command = "auth_status"
    /\ TestConfig \/ TestTokens
    /\ UNCHANGED <<allVars, commandVars>>

EndInspect ==
    /\ cli = "start" /\ Len(tested) = 2
    /\ End("success") /\ UNCHANGED <<allVars, verdict>>

\* The processes beside it.
Others ==
    /\ command = "auth_status"
    /\ LoginOrLogout \/ \E w \in Writers : Update(w)
    /\ UNCHANGED <<allVars, commandVars>>

-----------------------------------------------------------------------------
\* A directory or a file of the run cannot be written, its result cannot be
\* printed, or the user interrupts it; or the process is killed.
BreakOff ==
    /\ cli \in {"start", "logging"} \/ (cli = "reading" /\ step \in {"returned", "raised"})
    /\ End("failure") \/ End("killed")
    /\ UNCHANGED <<allVars, verdict>>

BreakOffRead ==
    /\ cli = "reading"
    /\ Interrupt \/ InterruptReplaced \/ Crash
    /\ UNCHANGED <<configVars, commandVars>>

CommandStep ==
    \/ DoctorRaises \/ DoctorOffline
    \/ RefuseArgument \/ StartReading \/ Read \/ EndReading
    \/ RefuseExample \/ StartLogging \/ ExecuteDemo \/ WriteEntry \/ DemoRaises \/ EndDemo
    \/ Inspect \/ EndInspect

NextCommand ==
    CommandStep \/ BreakOff \/ BreakOffRead \/ Others \/ (cli = "ended" /\ UNCHANGED everything)

\* The command keeps running, with no help from the user, and nothing is asked of
\* the other processes.
CommandSpec ==
    InitCommand /\ [][NextCommand]_everything /\ WF_everything(CommandStep)

-----------------------------------------------------------------------------
(* Properties.                                                             *)

\* Every variable has its type, in every layer below too.
CommandTypeOK ==
    /\ ConfigTypeOK
    /\ RunTypeOK
    /\ invocation \in Invocations
    /\ cli \in {"start", "reading", "logging", "ended"}
    /\ exit \in {"none", "success", "failure", "usage", "killed"}
    /\ cli = "ended" <=> exit # "none"
    /\ Len(log) <= Len(Script)
    /\ \A i \in DOMAIN log : log[i].entry = Script[i]

\* A live command exits with 0 only after a read that is on record, in all its
\* files, as one that was sent, verified and succeeded; and a receipt that a
\* command is handed is always on record.
ExitIsTruthful ==
    /\ ReturnMeansRecorded
    /\ exit = "success" /\ command \in Live =>
          /\ step = "returned" /\ session = "closed"
          /\ manifest = [status |-> "SUCCEEDED", sent |-> TRUE, verified |-> TRUE]
          /\ artifact.status = "EXECUTED" /\ events = manifest

\* What an exception of the session says: the handshake makes requests, too.
SaidSent == error # Nothing /\ error.flag

\* Every one of the seven things that doctor checks is as it should be.
InstallationSound(i) ==
    /\ i.python_version /\ i.package_import /\ i.output_directory
    /\ {i.codex_manifest, i.claude_manifest, i.simple_bracket_request} = {"object"}
    /\ i.shared_skill \notin {"missing", "unreadable", "blank"}

\* doctor asks for a login only if an answer said that it is missing, or the
\* transport did; it claims a request exactly if call_tool wrote one or the session
\* failed with word of one, except where NoHiddenRequest has an exception; and it
\* calls ready only an installation that passes all seven checks and, live, only
\* what the answer says is ready.
DoctorTellsTheTruth ==
    verdict # NoVerdict =>
        /\ verdict.status = "AUTH_REQUIRED" /\ call.kind = "returned" =>
              "AUTH_REQUIRED" \in Judgements("auth_status", Document, call.response)
        /\ verdict.status = "AUTH_REQUIRED" => call # Nothing
        /\ verdict.sent <=> SaidSent \/ (Written /\ session # "lost")
        /\ verdict.status = "READY_LIVE" =>
              Judgements("auth_status", Document, call.response) = {"none"}
        /\ verdict.status \in {"READY_OFFLINE", "READY_LIVE"} =>
              InstallationSound(invocation.installation)

Logged(name) == {log[i].says : i \in {k \in DOMAIN log : log[k].entry = name}}

\* The log of a demo tells what the gateway did, and no more: a plan with a value
\* that is not settled is never logged as executed, though the demo goes on to its
\* end; exit status 0 means a whole log, and a refused example leaves none.
DemoLogTruthful ==
    /\ Logged("CAD_PLAN_EXECUTED") \subseteq Logged("execution_report_v1")
    /\ \A says \in Logged("execution_report_v1") :
          /\ ~says.sent
          /\ says.status = "EXECUTED" <=>
                {invocation.request.sketch, invocation.request.extrude}
                    \union {invocation.request.holes[i] : i \in DOMAIN invocation.request.holes}
                    = {"settled"}
          /\ says.status = "EXECUTED" => Len(executed) = Len(plan.actions)
    /\ command \in Demos =>
          /\ exit = "success" => Len(log) = Len(Script)
          /\ exit = "usage" => log = <<>>
    /\ command = "example" /\ log # <<>> => invocation.request.approved

\* Every command ends, with an exit status.
CommandEnds == <>(cli = "ended")
=============================================================================
