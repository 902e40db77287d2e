------------------------- MODULE CommandLineProofs -------------------------
(***************************************************************************)
(* Theorems about CommandLine for every invocation, installation, request  *)
(* and response: the files of a read, the exit status, the report of       *)
(* doctor, and config.toml under any number of writers.                    *)
(***************************************************************************)
EXTENDS CommandLine, LiveRunProofs, SequenceTheorems

(* config.toml: the inductive invariant.                                   *)

\* What a writer has prepared is the first file with its own credentials, whoever
\* has replaced it meanwhile; its copy is whole when it may be moved.
Prepared(w) ==
    /\ at[w] \in {"opening", "writing", "replacing"} => rendered[w] = Updated(original, w)
    /\ at[w] = "replacing" => temporary[w] = rendered[w]
    /\ at[w] \in {"start", "opening", "exited"} => temporary[w] = NoFile
    /\ temporary[w].form = "toml" => temporary[w] = rendered[w]

\* A writer has saved nothing before it replaces the file, and then has failed or
\* saved once.
Accounted(w) ==
    /\ at[w] \in {"start", "opening", "writing", "replacing"} => ~failed[w] /\ SavedBy(w) = {}
    /\ at[w] \in {"cleaning", "exited"} =>
          IF failed[w] THEN SavedBy(w) = {} ELSE \E i \in DOMAIN saves : SavedBy(w) = {i}

\* A file that was found does not go away.
Seen ==
    /\ tested \in Seq({"there", "absent", "failed"})
    /\ tested # <<>> =>
          /\ original # NoFile => tested[1] \in {"there", "failed"}
          /\ tested[1] = "there" => config # NoFile

ConfigInv ==
    /\ ConfigTypeOK /\ ConfigWhole /\ Seen
    /\ \A w \in Writers : Prepared(w) /\ Accounted(w)

-----------------------------------------------------------------------------
(* config.toml: every step keeps the invariant.                            *)

\* No writer has begun.
LEMMA ConfigInvInit == ConfigInit => ConfigInv
<1> SUFFICES ASSUME ConfigInit PROVE ConfigInv
  OBVIOUS
<1>1. config \in Text /\ original = config /\ NoFile \in Text /\ NoFile.form # "toml"
  BY ConfigsAssumption DEF ConfigInit, NoFile, Text
<1>2. ConfigTypeOK /\ ConfigWhole /\ Seen
  BY <1>1 DEF ConfigInit, ConfigTypeOK, ConfigWhole, Seen
<1>3. ASSUME NEW w \in Writers PROVE Prepared(w) /\ Accounted(w)
  BY <1>1 DEF ConfigInit, Prepared, Accounted, SavedBy
<1> QED
  BY <1>2, <1>3 DEF ConfigInv

\* The new text: a document with the writer's credentials, which the next writer
\* replaces by its own.
LEMMA UpdatedFacts ==
  ASSUME NEW t \in Text, NEW v \in Writers, NEW w \in Writers
  PROVE  /\ Updated(t, w) \in Text /\ Updated(t, w).form = "toml"
         /\ Updated(t, w) # NoFile
         /\ Updated(Updated(t, v), w) = Updated(t, w)
<1>1. /\ t = [form |-> t.form, auth |-> t.auth, rest |-> t.rest]
      /\ t.form \in {"absent", "blank", "invalid", "torn", "toml"}
      /\ t.auth \in {"none", "table", "other"} \union Writers
      /\ t.rest \in {"none", "settings"}
  BY DEF Text
<1>2. \A x \in Writers : Updated(t, x) =
         [form |-> "toml", auth |-> x, rest |-> IF t.form = "toml" THEN t.rest ELSE "none"]
  BY <1>1 DEF Updated
<1>3. Updated(t, w) \in Text /\ Updated(t, w).form = "toml" /\ Updated(t, w) # NoFile
  BY <1>1, <1>2 DEF Text, NoFile
<1>4. Updated(Updated(t, v), w) = Updated(t, w)
  BY <1>1, <1>2 DEF Updated
<1> QED
  BY <1>3, <1>4

\* The other writers' affairs.
LEMMA OthersKept ==
  ASSUME NEW w \in Writers, NEW v \in Writers, v # w, ConfigInv, Update(w)
  PROVE  Prepared(v)' /\ Accounted(v)'
<1>1. /\ at'[v] = at[v] /\ failed'[v] = failed[v] /\ rendered'[v] = rendered[v]
      /\ temporary'[v] = temporary[v] /\ original' = original
  BY DEF Update, RefuseUpdate, ReadConfig, OpenTemporary, WriteTemporary, ReplaceConfig,
     TryFails, CleanUp, CleanUpFails, KillWriter, GoTo, Token, ConfigInv, ConfigTypeOK
<1>2. SavedBy(v)' = SavedBy(v)
  <2>1. saves' = saves \/ saves' = Append(saves, w)
    BY DEF Update, RefuseUpdate, ReadConfig, OpenTemporary, WriteTemporary, ReplaceConfig,
       TryFails, CleanUp, CleanUpFails, KillWriter
  <2>2. saves \in Seq(Writers)
    BY DEF ConfigInv, ConfigTypeOK
  <2>3. CASE saves' = Append(saves, w)
    <3>1. /\ DOMAIN saves' = (DOMAIN saves) \union {Len(saves) + 1}
          /\ saves'[Len(saves) + 1] = w
          /\ \A i \in DOMAIN saves : saves'[i] = saves[i]
      BY <2>2, <2>3
    <3> QED
      BY <3>1 DEF SavedBy
  <2> QED
    BY <2>1, <2>3 DEF SavedBy
<1>3. Prepared(v) /\ Accounted(v) /\ Updated(original, v)' = Updated(original, v)
  BY <1>1 DEF ConfigInv, Updated
<1>4. Prepared(v)'
  BY <1>1, <1>3 DEF Prepared
<1>5. \A i \in DOMAIN saves : i \in DOMAIN saves'
  <2>1. saves' = saves \/ saves' = Append(saves, w)
    BY DEF Update, RefuseUpdate, ReadConfig, OpenTemporary, WriteTemporary, ReplaceConfig,
       TryFails, CleanUp, CleanUpFails, KillWriter
  <2>2. saves \in Seq(Writers)
    BY DEF ConfigInv, ConfigTypeOK
  <2> QED
    BY <2>1, <2>2
<1>6. Accounted(v)'
  BY <1>1, <1>2, <1>3, <1>5 DEF Accounted
<1> QED
  BY <1>4, <1>6

\* The writer's own.
LEMMA OwnKept ==
  ASSUME NEW w \in Writers, ConfigInv, Update(w)
  PROVE  Prepared(w)' /\ Accounted(w)'
<1>1. /\ at \in [Writers -> {"start", "opening", "writing", "replacing", "cleaning", "exited",
                             "abandoned", "killed"}]
      /\ rendered \in [Writers -> Text] /\ temporary \in [Writers -> Text]
      /\ failed \in [Writers -> BOOLEAN] /\ saves \in Seq(Writers) /\ original \in Text
      /\ Prepared(w) /\ Accounted(w) /\ original' = original
  BY DEF Update, ConfigInv, ConfigTypeOK
<1>2. Updated(original, w)' = Updated(original, w) /\ Updated(original, w).form = "toml"
      /\ Part.form = "torn" /\ NoFile.form = "absent"
  BY <1>1, UpdatedFacts DEF Updated, Part, NoFile
<1>3. CASE ReadConfig(w)
  <2>1. Updated(config, w) = Updated(original, w)
    <3>1. CASE saves = <<>>
      BY <3>1 DEF ConfigInv, ConfigWhole
    <3>2. CASE saves # <<>>
      <4>1. saves[Len(saves)] \in Writers
        BY <1>1, <3>2
      <4>2. config = Updated(original, saves[Len(saves)])
        BY <3>2 DEF ConfigInv, ConfigWhole
      <4> QED
        BY <1>1, <4>1, <4>2, UpdatedFacts
    <3> QED
      BY <3>1, <3>2
  <2>2. SavedBy(w)' = SavedBy(w)
    BY <1>3 DEF ReadConfig, SavedBy
  <2> QED
    BY <1>1, <1>2, <1>3, <2>1, <2>2 DEF ReadConfig, GoTo, Prepared, Accounted
<1>4. CASE ReplaceConfig(w)
  <2>1. /\ saves' = Append(saves, w) /\ SavedBy(w) = {} /\ at'[w] = "cleaning" /\ ~failed'[w]
        /\ temporary'[w] = NoFile
    BY <1>1, <1>4 DEF ReplaceConfig, GoTo, Token, Accounted
  <2>2. /\ DOMAIN saves' = (DOMAIN saves) \union {Len(saves) + 1}
        /\ saves'[Len(saves) + 1] = w
        /\ \A i \in DOMAIN saves : saves'[i] = saves[i]
    BY <1>1, <2>1
  <2>3. SavedBy(w)' = {Len(saves) + 1}
    BY <2>1, <2>2 DEF SavedBy
  <2>4. Accounted(w)'
    BY <2>1, <2>2, <2>3 DEF Accounted
  <2> QED
    BY <1>2, <2>1, <2>4 DEF Prepared
<1>5. CASE RefuseUpdate(w) \/ OpenTemporary(w) \/ WriteTemporary(w) \/ TryFails(w)
           \/ CleanUp(w) \/ CleanUpFails(w) \/ KillWriter(w)
  <2>1. SavedBy(w)' = SavedBy(w) /\ saves' = saves /\ rendered' = rendered
    BY <1>5 DEF RefuseUpdate, OpenTemporary, WriteTemporary, TryFails, CleanUp, CleanUpFails,
       KillWriter, SavedBy
  <2>2. Prepared(w)'
    BY <1>1, <1>2, <1>5, <2>1 DEF RefuseUpdate, OpenTemporary, WriteTemporary, TryFails,
       CleanUp, CleanUpFails, KillWriter, GoTo, Token, Prepared
  <2>3. Accounted(w)'
    BY <1>1, <1>5, <2>1 DEF RefuseUpdate, OpenTemporary, WriteTemporary, TryFails, CleanUp,
       CleanUpFails, KillWriter, GoTo, Token, Accounted
  <2> QED
    BY <2>2, <2>3
<1> QED
  BY <1>3, <1>4, <1>5 DEF Update

\* A writer that updates the file leaves the others as they are.
LEMMA UpdateKeeps ==
  ASSUME NEW w \in Writers, ConfigInv, Update(w)
  PROVE  ConfigInv'
<1>1. \A v \in Writers : Prepared(v)' /\ Accounted(v)'
  BY OthersKept, OwnKept
<1>2. /\ {config, original} \subseteq Text /\ original' = original /\ tested' = tested
      /\ at \in [Writers -> {"start", "opening", "writing", "replacing", "cleaning", "exited",
                             "abandoned", "killed"}]
      /\ rendered \in [Writers -> Text] /\ temporary \in [Writers -> Text]
      /\ failed \in [Writers -> BOOLEAN] /\ saves \in Seq(Writers)
      /\ Part \in Text /\ NoFile \in Text
  BY DEF Update, ConfigInv, ConfigTypeOK, Part, NoFile, Text
<1>5. tested' = tested /\ tokens' = tokens /\ Seen
  BY DEF Update, ConfigInv
<1>3. CASE ReplaceConfig(w)
  <2>1. config' = Updated(original, w) /\ saves' = Append(saves, w)
    <3>1. temporary[w] = rendered[w] /\ rendered[w] = Updated(original, w)
      BY <1>3 DEF ReplaceConfig, ConfigInv, Prepared
    <3> QED
      BY <1>3, <3>1 DEF ReplaceConfig, Token
  <2>2. saves' \in Seq(Writers) /\ saves' # <<>> /\ saves'[Len(saves')] = w
    BY <1>2, <2>1
  <2>3. config' \in Text /\ config' # NoFile
    BY <1>2, <2>1, UpdatedFacts
  <2>4. ConfigTypeOK'
    BY <1>2, <1>3, <2>2, <2>3 DEF ReplaceConfig, GoTo, Token, ConfigTypeOK
  <2>5. ConfigWhole'
    BY <1>2, <2>1, <2>2 DEF ConfigWhole, Updated
  <2>6. Seen'
    BY <1>2, <1>5, <2>3 DEF Seen
  <2> QED
    BY <1>1, <2>4, <2>5, <2>6 DEF ConfigInv
<1>4. CASE ~ReplaceConfig(w)
  <2>1. config' = config /\ saves' = saves
    BY <1>4 DEF Update, RefuseUpdate, ReadConfig, OpenTemporary, WriteTemporary, TryFails,
       CleanUp, CleanUpFails, KillWriter
  <2>2. ConfigWhole' /\ Seen'
    BY <1>2, <1>5, <2>1 DEF ConfigInv, ConfigWhole, Seen, Updated
  <2>3. Updated(config, w) \in Text
    BY <1>2, UpdatedFacts
  <2>4. ConfigTypeOK'
    BY <1>2, <1>4, <2>1, <2>3 DEF Update, RefuseUpdate, ReadConfig, OpenTemporary,
       WriteTemporary, TryFails, CleanUp, CleanUpFails, KillWriter, GoTo, Token, ConfigTypeOK
  <2> QED
    BY <1>1, <2>2, <2>4 DEF ConfigInv
<1> QED
  BY <1>3, <1>4

\* The two tests of auth status, and a login or a logout beside them.
LEMMA InspectKeeps ==
  ConfigInv /\ (TestConfig \/ TestTokens \/ LoginOrLogout \/ UNCHANGED configVars) => ConfigInv'
<1> SUFFICES ASSUME ConfigInv,
                    TestConfig \/ TestTokens \/ LoginOrLogout \/ UNCHANGED configVars
             PROVE  ConfigInv'
  OBVIOUS
<1>1. /\ config' = config /\ original' = original /\ saves' = saves /\ at' = at
      /\ failed' = failed /\ rendered' = rendered /\ temporary' = temporary
  BY DEF TestConfig, TestTokens, LoginOrLogout, configVars
<1>2. ConfigTypeOK' /\ ConfigWhole'
  BY <1>1 DEF ConfigInv, ConfigTypeOK, ConfigWhole, Updated
<1>3. ASSUME NEW w \in Writers PROVE Prepared(w)' /\ Accounted(w)'
  <2>1. Prepared(w) /\ Accounted(w) /\ SavedBy(w)' = SavedBy(w)
        /\ Updated(original, w)' = Updated(original, w)
    BY <1>1 DEF ConfigInv, SavedBy, Updated
  <2>2. Prepared(w)'
    BY <1>1, <2>1 DEF Prepared
  <2>3. Accounted(w)'
    BY <1>1, <2>1 DEF Accounted
  <2> QED
    BY <2>2, <2>3
<1>4. original # NoFile => config # NoFile
  <2>1. CASE saves = <<>>
    BY <2>1 DEF ConfigInv, ConfigWhole
  <2>2. CASE saves # <<>>
    <3>1. saves[Len(saves)] \in Writers /\ original \in Text
      BY <2>2 DEF ConfigInv, ConfigTypeOK
    <3> QED
      BY <2>2, <3>1, UpdatedFacts DEF ConfigInv, ConfigWhole
  <2> QED
    BY <2>1, <2>2
<1>5. Seen'
  <2>1. CASE TestConfig
    <3>1. PICK outcome \in Test(config # NoFile) : tested' = <<outcome>>
      BY <2>1 DEF TestConfig
    <3>2. /\ outcome \in {"there", "absent", "failed"}
          /\ outcome = "there" => config # NoFile
          /\ outcome = "absent" => config = NoFile
      BY <3>1 DEF Test
    <3>3. tested' \in Seq({"there", "absent", "failed"}) /\ tested'[1] = outcome
      BY <3>1, <3>2
    <3> QED
      BY <1>1, <1>4, <3>2, <3>3 DEF Seen
  <2>2. CASE TestTokens
    <3>1. tested # <<>> /\ tested \in Seq({"there", "absent", "failed"})
      BY <2>2 DEF TestTokens, ConfigInv, Seen
    <3>2. PICK outcome \in {"there", "absent", "failed"} : tested' = Append(tested, outcome)
      BY <2>2 DEF TestTokens, Test
    <3>3. tested' \in Seq({"there", "absent", "failed"}) /\ tested'[1] = tested[1]
      BY <3>1, <3>2
    <3> QED
      BY <1>1, <3>1, <3>2, <3>3 DEF ConfigInv, Seen
  <2>3. CASE LoginOrLogout \/ UNCHANGED configVars
    BY <1>1, <2>3 DEF LoginOrLogout, configVars, ConfigInv, Seen
  <2> QED
    BY <2>1, <2>2, <2>3
<1> QED
  BY <1>2, <1>3, <1>5 DEF ConfigInv

\* Every step of a command, and of what runs beside it.
LEMMA ConfigInvNext == ConfigInv /\ [NextCommand]_everything => ConfigInv'
<1>1. [NextCommand]_everything =>
         \/ TestConfig \/ TestTokens \/ LoginOrLogout \/ UNCHANGED configVars
         \/ \E w \in Writers : Update(w)
  BY DEF NextCommand, everything, CommandStep, DoctorRaises, DoctorOffline, RefuseArgument,
     StartReading, Read, EndReading, RefuseExample, StartLogging, ExecuteDemo, WriteEntry,
     DemoRaises, EndDemo, Inspect, EndInspect, BreakOff, BreakOffRead, Others, End, configVars
<1> QED
  BY <1>1, InspectKeeps, UpdateKeeps

\* Whatever the writers and the other commands do, the invariant holds.
LEMMA ConfigInvariant == CommandSpec => []ConfigInv
<1>1. InitCommand => ConfigInv
  BY ConfigInvInit DEF InitCommand
<1> QED
  BY <1>1, ConfigInvNext, PTL DEF CommandSpec

\* A writer that is over has left no temporary file.
LEMMA CleanOfInv == ConfigInv => WritersLeaveCleanly
BY DEF ConfigInv, Prepared, Accounted, WritersLeaveCleanly, ExitSaysSaved, NoCopyLeft

\* What a status command has read is what some writer left, or was there before.
LEMMA StatusOfInv == ConfigInv => StatusSeesConfig
<1> SUFFICES ASSUME ConfigInv, Len(tested) = 2 PROVE StatusSeesConfig
  BY DEF StatusSeesConfig
<1>1. /\ tested \in Seq({"there", "absent", "failed"}) /\ tested # <<>>
      /\ original # NoFile => tested[1] \in {"there", "failed"}
      /\ tested[1] = "there" => config # NoFile
  BY DEF ConfigInv, Seen
<1> QED
  BY <1>1 DEF StatusSeesConfig, LocalStatus, Present

-----------------------------------------------------------------------------
\* However many writers there are, and wherever each of them fails, is interrupted
\* or killed, config.toml is the first file, or that file with the credentials of
\* the writer that replaced it last.
THEOREM ConfigStaysWhole == CommandSpec => []ConfigWhole
BY ConfigInvariant, PTL DEF ConfigInv

\* A writer that exits with 0 has saved once, one that exits with an error has not,
\* and neither leaves a copy of the credentials.
THEOREM WritersLeaveNothing == CommandSpec => []WritersLeaveCleanly
BY ConfigInvariant, CleanOfInv, PTL

\* auth status never reports a configuration missing because it is being replaced,
\* only if it cannot look; and never ready one that is not there.
THEOREM StatusSeesWhatIsThere == CommandSpec => []StatusSeesConfig
BY ConfigInvariant, StatusOfInv, PTL

-----------------------------------------------------------------------------
(* Commands: the inductive invariant.                                      *)

\* A demo does not touch what a live read has.
NoRun ==
    /\ GatewayInv /\ RunTypeOK
    /\ step = "opening" /\ call = Nothing
    /\ artifact = Nothing /\ manifest = Nothing /\ events = Nothing

\* The read a command makes.
OperationOf ==
    CASE command = "list_documents" -> "list_documents"
      [] command = "read_document"  -> "get_document"
      [] OTHER                      -> "auth_status"

\* A report of doctor is of the checks alone, or of a read that has returned.
Reporting ==
    verdict # NoVerdict =>
        /\ cli = "ended" /\ command \notin Demos
        /\ \/ /\ step = "opening" /\ verdict.sent = FALSE
              /\ verdict.status \in {"READY_OFFLINE", "NOT_READY"}
              /\ verdict.status = "READY_OFFLINE" => OfflineReady(invocation.installation)
           \/ /\ step = "returned" /\ command = "doctor_live"
              /\ OfflineReady(invocation.installation)
              /\ verdict = [status |-> ProbeStatus(receipt), sent |-> receipt.sent,
                            verified |-> receipt.verified]

\* Only auth status looks at the files of the configuration.
Inspected == tested # <<>> => command = "auth_status"

CommandInv ==
    /\ invocation \in Invocations /\ operation = OperationOf
    /\ cli \in {"start", "reading", "logging", "ended"}
    /\ exit \in {"none", "success", "failure", "usage", "killed"}
    /\ cli = "ended" <=> exit # "none"
    /\ command \notin Demos => RunInv
    /\ command \in Demos => NoRun
    /\ cli = "start" => step = "opening"
    /\ cli = "logging" => command \in Demos
    /\ cli = "reading" =>
          /\ command \in Live
          /\ command = "doctor_live" => OfflineReady(invocation.installation)
    /\ exit = "success" /\ command \in Live => step = "returned" /\ receipt.status = "SUCCEEDED"
    /\ Reporting

-----------------------------------------------------------------------------
(* Commands: every step keeps the invariant.                               *)

\* Before the first step no command has run.
LEMMA CommandInvInit == InitCommand => CommandInv
<1> SUFFICES ASSUME InitCommand PROVE CommandInv
  OBVIOUS
<1>1. /\ invocation \in Invocations /\ cli = "start" /\ exit = "none" /\ verdict = NoVerdict
      /\ InitRun /\ step = "opening" /\ operation = OperationOf
  BY DEF InitCommand, InitRun, OperationOf
<1>2. command \notin Demos => RunInv
  BY <1>1, RunInvInit DEF InitCommand
<1>3. NoRun
  <2>1. GatewayInv
    BY <1>1, GatewayInvInit DEF InitRun
  <2> QED
    BY <1>1, <2>1 DEF NoRun, GatewayInv, InitRun, RunTypeOK
<1> QED
  BY <1>1, <1>2, <1>3 DEF CommandInv, Reporting

\* The read and what it is recorded in stay as they are.
LEMMA SameRun ==
  ASSUME UNCHANGED allVars, invocation' = invocation
  PROVE  /\ OneRead /\ RunInv => RunInv'
         /\ NoRun => NoRun'
         /\ operation = OperationOf => operation' = OperationOf'
         /\ step' = step /\ receipt' = receipt /\ command' = command
<1>1. NoRun => NoRun'
  <2> SUFFICES ASSUME NoRun PROVE NoRun'
    OBVIOUS
  <2>1. GatewayInv'
    BY GatewayInvNext DEF NoRun, allVars, gatewayVars
  <2> QED
    BY <2>1 DEF NoRun, allVars, gatewayVars, serviceVars, files, GatewayInv, RunTypeOK
<1>2. operation' = operation /\ step' = step /\ receipt' = receipt
  BY DEF allVars, serviceVars
<1> QED
  BY <1>1, <1>2, RunStutterKeeps DEF OperationOf, command

\* A command ends without a read, or with one that has.
LEMMA EndsKeep ==
  ASSUME OneRead, CommandInv, UNCHANGED allVars, NEW how, End(how),
         how \in {"success", "failure", "usage", "killed"},
         how = "success" /\ command \in Live => step = "returned" /\ receipt.status = "SUCCEEDED",
         Reporting'
  PROVE  CommandInv'
<1>1. invocation' = invocation /\ cli' = "ended" /\ exit' = how
  BY DEF End
<1> QED
  BY <1>1, SameRun DEF CommandInv

\* A step of the read, or what breaks it off.
LEMMA ReadKeeps == ASSUME OneRead, CommandInv, Read \/ BreakOffRead PROVE CommandInv'
<1>1. /\ NextRun /\ UNCHANGED commandVars /\ cli = "reading"
  BY DEF Read, BreakOffRead, NextRun
<1>2. /\ invocation' = invocation /\ cli' = cli /\ exit' = exit /\ verdict' = verdict
      /\ command' = command
  BY <1>1 DEF commandVars, command
<1>3. command \notin Demos /\ RunInv /\ exit = "none" /\ verdict = NoVerdict
  BY <1>1 DEF CommandInv, Reporting, Live, Demos
<1>4. RunInv'
  BY <1>1, <1>3, RunInvNext
<1>5. operation' = operation
  BY <1>1 DEF NextRun, Session, Opens, OpenFails, Execute, CallTool, Judge, Closes, CloseFails,
     Handle, Record, WriteArtifact, CreateManifest, AppendEvent, Return, RecordFails, Interrupt,
     InterruptReplaced, Crash, Ended, allVars, serviceVars
<1>6. operation' = OperationOf'
  BY <1>2, <1>5 DEF CommandInv, OperationOf
<1>7. Reporting'
  BY <1>2, <1>3 DEF Reporting
<1> QED
  BY <1>1, <1>2, <1>3, <1>4, <1>6, <1>7 DEF CommandInv, Live

\* A report on the checks, and one on the login.
LEMMA DoctorKeeps ==
  ASSUME OneRead, CommandInv, DoctorRaises \/ DoctorOffline PROVE CommandInv'
<1>1. CASE DoctorRaises
  <2>1. End("failure") /\ UNCHANGED allVars /\ verdict' = verdict /\ cli = "start"
    BY <1>1 DEF DoctorRaises
  <2>2. Reporting'
    BY <2>1 DEF CommandInv, Reporting
  <2> QED
    BY <2>1, <2>2, EndsKeep
<1>2. CASE DoctorOffline
  <2> PICK status : status = IF OfflineReady(invocation.installation) THEN "READY_OFFLINE"
                             ELSE "NOT_READY"
    OBVIOUS
  <2>1. /\ cli = "start" /\ UNCHANGED allVars /\ End(ExitOf(status))
        /\ command = "doctor" \/ (command = "doctor_live" /\ status = "NOT_READY")
        /\ verdict' = [NoVerdict EXCEPT !.status = status]
    BY <1>2 DEF DoctorOffline
  <2>2. Reporting'
    <3>1. verdict'.status = status /\ verdict'.sent = FALSE /\ cli' = "ended" /\ step' = "opening"
          /\ invocation' = invocation /\ command' = command /\ command \notin Demos
      BY <2>1, SameRun DEF NoVerdict, End, CommandInv, command, Demos
    <3> QED
      BY <3>1 DEF Reporting
  <2>3. ExitOf(status) \in {"success", "failure"}
        /\ (status = "NOT_READY" => ExitOf(status) = "failure")
    BY DEF ExitOf
  <2> QED
    BY <2>1, <2>2, <2>3, EndsKeep DEF Live
<1> QED
  BY <1>1, <1>2

\* A read command prints its receipt and exits, or raises.
LEMMA EndReadingKeeps == ASSUME OneRead, CommandInv, EndReading PROVE CommandInv'
<1> PICK how : how = IF step = "stopped" THEN "killed"
                     ELSE IF step = "raised" THEN "failure"
                     ELSE IF command = "doctor_live" THEN ExitOf(ProbeStatus(receipt))
                     ELSE IF receipt.status = "SUCCEEDED" THEN "success" ELSE "failure"
  OBVIOUS
<1>1. /\ cli = "reading" /\ step \in Final /\ End(how) /\ UNCHANGED allVars
      /\ command \in Live /\ command \notin Demos /\ verdict = NoVerdict
  BY DEF EndReading, CommandInv, Reporting, Live, Demos
<1>2. ExitOf(ProbeStatus(receipt)) \in {"success", "failure"}
      /\ (ExitOf(ProbeStatus(receipt)) = "success" => receipt.status = "SUCCEEDED")
  BY DEF ExitOf, ProbeStatus
<1>3. /\ how \in {"success", "failure", "killed"}
      /\ how = "success" => step = "returned" /\ receipt.status = "SUCCEEDED"
  BY <1>1, <1>2 DEF Final
<1>4. Reporting'
  <2>1. /\ invocation' = invocation /\ cli' = "ended" /\ step' = step /\ receipt' = receipt
        /\ command' = command
    BY <1>1, SameRun DEF End
  <2>2. CASE step = "returned" /\ command = "doctor_live"
    <3>1. verdict' = [status |-> ProbeStatus(receipt), sent |-> receipt.sent,
                      verified |-> receipt.verified]
      BY <2>2 DEF EndReading
    <3> QED
      BY <1>1, <2>1, <2>2, <3>1 DEF Reporting, CommandInv, ProbeStatus
  <2>3. CASE ~(step = "returned" /\ command = "doctor_live")
    <3>1. verdict' = verdict
      BY <2>3 DEF EndReading
    <3> QED
      BY <1>1, <3>1 DEF Reporting, NoVerdict
  <2> QED
    BY <2>2, <2>3
<1> QED
  BY <1>1, <1>3, <1>4, EndsKeep

\* The gateway executes a demo's plan.
LEMMA DemoGatewayStep ==
  ASSUME GatewayInv, ExecuteDemo
  PROVE  GatewayInv'
<1>1. CASE Next
  BY <1>1, GatewayInvNext
<1>2. CASE DispatchReturns(Recorded)
  <2>1. Recorded \in Receipt
    BY DEF Recorded, Receipt, ErrorCodes
  <2> QED
    BY <1>2, <2>1, DispatchReturnsKeeps
<1> QED
  BY <1>1, <1>2 DEF ExecuteDemo, Next, Preflight

\* The demo's plan is executed without a step of any run.
LEMMA ExecuteDemoKeeps == ASSUME CommandInv, ExecuteDemo PROVE CommandInv'
<1>1. /\ cli = "logging" /\ UNCHANGED commandVars /\ UNCHANGED serviceVars /\ UNCHANGED files
  BY DEF ExecuteDemo, MoreToWrite
<1>2. /\ invocation' = invocation /\ cli' = cli /\ exit' = exit /\ verdict' = verdict
      /\ step' = step /\ operation' = operation /\ receipt' = receipt /\ call' = call
      /\ session' = session /\ artifact' = artifact /\ manifest' = manifest
      /\ events' = events /\ command' = command
  BY <1>1 DEF commandVars, serviceVars, files, command
<1>3. command \in Demos /\ NoRun
  BY <1>1 DEF CommandInv
<1>4. GatewayInv'
  BY <1>3, DemoGatewayStep DEF NoRun
<1>5. NoRun'
  BY <1>2, <1>3, <1>4 DEF NoRun, RunTypeOK, GatewayInv
<1>6. Reporting'
  BY <1>2, <1>3 DEF CommandInv, Reporting
<1>7. operation' = OperationOf'
  BY <1>2 DEF CommandInv, OperationOf
<1> QED
  BY <1>1, <1>2, <1>3, <1>5, <1>6, <1>7 DEF CommandInv

\* The other steps leave the read alone and the report, too.
LEMMA QuietKeeps ==
  ASSUME OneRead, CommandInv, UNCHANGED allVars, invocation' = invocation, verdict' = verdict,
         \/ cli' = cli /\ exit' = exit
         \/ cli = "start" /\ cli' = "reading" /\ MayRead /\ exit' = exit
         \/ cli = "start" /\ cli' = "logging" /\ command \in Demos /\ exit' = exit
  PROVE  CommandInv'
<1>1. /\ step' = step /\ receipt' = receipt /\ command' = command
      /\ command \notin Demos => RunInv'
      /\ command \in Demos => NoRun'
      /\ operation' = OperationOf'
  BY SameRun DEF CommandInv
<1>2. CASE cli' = cli /\ exit' = exit
  BY <1>1, <1>2 DEF CommandInv, Reporting
<1>3. CASE cli = "start" /\ cli' # cli /\ exit' = exit
  <2>1. exit = "none" /\ verdict = NoVerdict
    BY <1>3 DEF CommandInv, Reporting
  <2>2. cli' = "reading" => /\ command \in Live
                            /\ command = "doctor_live" => OfflineReady(invocation.installation)
    BY <1>3 DEF MayRead, Live
  <2> QED
    BY <1>1, <1>3, <2>1, <2>2 DEF CommandInv, Reporting
<1> QED
  BY <1>2, <1>3

\* The commands that end without a report.
LEMMA PlainEndKeeps ==
  ASSUME OneRead, CommandInv, UNCHANGED allVars, verdict' = verdict, cli # "ended",
         NEW how \in {"success", "failure", "usage", "killed"}, End(how),
         how = "success" => command \notin Live
  PROVE  CommandInv'
<1>1. verdict' = NoVerdict
  BY DEF CommandInv, Reporting
<1>2. Reporting'
  BY <1>1 DEF Reporting, NoVerdict
<1> QED
  BY <1>2, EndsKeep

\* Every step of every command keeps the invariant.
LEMMA CommandInvNext ==
  ASSUME OneRead, Inspected, CommandInv, [NextCommand]_everything
  PROVE  CommandInv'
<1>1. CASE DoctorRaises \/ DoctorOffline
  BY <1>1, DoctorKeeps
<1>2. CASE Read \/ BreakOffRead
  BY <1>2, ReadKeeps
<1>3. CASE EndReading
  BY <1>3, EndReadingKeeps
<1>4. CASE ExecuteDemo
  BY <1>4, ExecuteDemoKeeps
<1>5. CASE \/ StartReading \/ StartLogging \/ WriteEntry \/ Inspect \/ Others
           \/ UNCHANGED everything
  <2>1. UNCHANGED allVars /\ invocation' = invocation /\ verdict' = verdict
    BY <1>5 DEF StartReading, StartLogging, WriteEntry, Inspect, Others, everything, commandVars
  <2>2. \/ cli' = cli /\ exit' = exit
        \/ cli = "start" /\ cli' = "reading" /\ MayRead /\ exit' = exit
        \/ cli = "start" /\ cli' = "logging" /\ command \in Demos /\ exit' = exit
    BY <1>5 DEF StartReading, StartLogging, WriteEntry, Inspect, Others, everything,
       commandVars, Demos
  <2> QED
    BY <2>1, <2>2, QuietKeeps
<1>6. CASE RefuseArgument
  <2> PICK how : how = IF command = "list_documents" THEN "usage" ELSE "failure"
    OBVIOUS
  <2>1. /\ UNCHANGED allVars /\ verdict' = verdict /\ cli = "start" /\ End(how)
        /\ how \in {"usage", "failure"}
    BY <1>6 DEF RefuseArgument
  <2> QED
    BY <2>1, PlainEndKeeps
<1>7. CASE RefuseExample
  <2> PICK how : how = IF invocation.argument /\ invocation.request.file = "hostile"
                       THEN "failure" ELSE "usage"
    OBVIOUS
  <2>1. /\ UNCHANGED allVars /\ verdict' = verdict /\ cli = "start" /\ End(how)
        /\ how \in {"usage", "failure"}
    BY <1>7 DEF RefuseExample
  <2> QED
    BY <2>1, PlainEndKeeps
<1>8. CASE DemoRaises \/ EndDemo \/ EndInspect
  <2>1. /\ UNCHANGED allVars /\ verdict' = verdict /\ cli # "ended"
        /\ End("failure") \/ End("success")
    BY <1>8 DEF DemoRaises, EndDemo, EndInspect, MoreToWrite
  <2>2. command \notin Live \/ DemoRaises
    <3>1. CASE EndDemo
      <4>1. command \in Demos
        BY <3>1 DEF EndDemo, CommandInv
      <4> QED
        BY <4>1 DEF Demos, Live
    <3>2. CASE EndInspect
      BY <3>2 DEF EndInspect, Inspected, Live
    <3> QED
      BY <1>8, <3>1, <3>2
  <2>3. DemoRaises => End("failure")
    BY DEF DemoRaises
  <2> QED
    BY <2>1, <2>2, <2>3, PlainEndKeeps
<1>9. CASE BreakOff
  <2>1. /\ UNCHANGED allVars /\ verdict' = verdict /\ cli # "ended"
        /\ End("failure") \/ End("killed")
    BY <1>9 DEF BreakOff
  <2> QED
    BY <2>1, PlainEndKeeps
<1> QED
  BY <1>1, <1>2, <1>3, <1>4, <1>5, <1>6, <1>7, <1>8, <1>9 DEF NextCommand, CommandStep

\* Nothing that runs later changes what doctor was shown.
LEMMA InspectedNext == ASSUME Inspected, [NextCommand]_everything PROVE Inspected'
<1>1. invocation' = invocation /\ command' = command
  BY DEF NextCommand, everything, CommandStep, DoctorRaises, DoctorOffline, RefuseArgument,
     StartReading, Read, EndReading, RefuseExample, StartLogging, ExecuteDemo, WriteEntry,
     DemoRaises, EndDemo, Inspect, EndInspect, BreakOff, BreakOffRead, Others, End, commandVars,
     command
<1>2. tested' = tested \/ command = "auth_status"
  BY DEF NextCommand, everything, CommandStep, DoctorRaises, DoctorOffline, RefuseArgument,
     StartReading, Read, EndReading, RefuseExample, StartLogging, ExecuteDemo, WriteEntry,
     DemoRaises, EndDemo, Inspect, EndInspect, BreakOff, BreakOffRead, Others, End, configVars
<1> QED
  BY <1>1, <1>2 DEF Inspected

\* Whatever command is run, the invariant holds throughout.
LEMMA CommandInvariant == ASSUME OneRead PROVE CommandSpec => [](CommandInv /\ Inspected)
<1>1. InitCommand => CommandInv /\ Inspected
  BY CommandInvInit DEF InitCommand, ConfigInit, Inspected
<1>2. CommandInv /\ Inspected /\ [NextCommand]_everything => (CommandInv /\ Inspected)'
  BY CommandInvNext, InspectedNext
<1> QED
  BY <1>1, <1>2, PTL DEF CommandSpec

-----------------------------------------------------------------------------
(* What the invariant says of a command.                                   *)

\* The run within a command keeps its files as it does alone.
LEMMA CommandFiles ==
  CommandInv => FilesAgree /\ SuccessIsWhole /\ ReturnMeansRecorded
<1> SUFFICES ASSUME CommandInv PROVE FilesAgree /\ SuccessIsWhole /\ ReturnMeansRecorded
  OBVIOUS
<1>1. CASE RunInv
  BY <1>1, FilesOfInv, SuccessOfInv, RecordedOfInv
<1>2. CASE NoRun
  BY <1>2 DEF NoRun, FilesAgree, SuccessIsWhole, ReturnMeansRecorded
<1> QED
  BY <1>1, <1>2 DEF CommandInv

\* A receipt of success is of a read that was sent and verified, and closed.
LEMMA SuccessReceipt ==
  ASSUME RunInv, step = "returned", receipt.status = "SUCCEEDED"
  PROVE  /\ receipt.sent = TRUE /\ receipt.verified = TRUE /\ session = "closed"
         /\ kept /\ report.status = "EXECUTED" /\ Sound
<1>1. Settled
  BY DEF RunInv, AtStep
<1>2. kept /\ session = "closed"
  BY <1>1 DEF Settled
<1>3. /\ report.status = "EXECUTED" /\ Sound /\ receipt \in ReadReceipt
      /\ receipt.sent = report.sent /\ receipt.verified = report.verified
  BY <1>2 DEF RunInv, Judged
<1>4. report.sent /\ report.verified
  BY <1>3, LiveOfModeKept DEF RunInv, LiveCompletion
<1> QED
  BY <1>2, <1>3, <1>4 DEF ReadReceipt

\* An exit status of 0 stands on what was printed and recorded.
LEMMA ExitOfInv == CommandInv => ExitIsTruthful
<1> SUFFICES ASSUME CommandInv, exit = "success", command \in Live
             PROVE  /\ step = "returned" /\ session = "closed"
                    /\ manifest = [status |-> "SUCCEEDED", sent |-> TRUE, verified |-> TRUE]
                    /\ artifact.status = "EXECUTED" /\ events = manifest
  BY CommandFiles DEF ExitIsTruthful
<1>1. RunInv /\ step = "returned" /\ receipt.status = "SUCCEEDED"
  BY DEF CommandInv, Live, Demos
<1>2. /\ receipt.sent = TRUE /\ receipt.verified = TRUE /\ session = "closed"
  BY <1>1, SuccessReceipt
<1>3. /\ manifest = Summary(receipt) /\ events = Summary(receipt) /\ manifest # Nothing
  BY <1>1, RecordedOfInv, SummaryIsWhole DEF ReturnMeansRecorded
<1>4. manifest = [status |-> "SUCCEEDED", sent |-> TRUE, verified |-> TRUE]
  BY <1>1, <1>2, <1>3 DEF Summary
<1>5. artifact.status = "EXECUTED"
  BY <1>1, <1>3, <1>4, FilesOfInv DEF FilesAgree
<1> QED
  BY <1>1, <1>2, <1>3, <1>4, <1>5

-----------------------------------------------------------------------------
(* What doctor says of the login.                                          *)

\* McpStdioSession raises nothing with this code when it is opened or closed.
SessionAsksNoLogin == \A e \in Errors : e.code # "AUTH_REQUIRED"

\* The answer, or call_tool's exception, says that a login is missing.
LoginAsked == call # Nothing /\ "AUTH_REQUIRED" \in Outcomes(operation, Document, call)

\* Only then do a report and a receipt say so.
LoginTold ==
    /\ report.code = "AUTH_REQUIRED" => LoginAsked
    /\ receipt # Nothing /\ receipt.error = "AUTH_REQUIRED" => LoginAsked

\* The result of the login check decides what its receipt may say.
LEMMA LoginToldCall ==
  ASSUME OneRead, RunInv, LoginTold, CallTool
  PROVE  LoginTold'
<1>1. /\ operation' = operation /\ call' \in Results /\ receipt' = receipt
      /\ call' # Nothing
  BY ResultsAssumption DEF CallTool, IsResult, Raised, Nothing
<1>2. PICK r \in ReceiptsOf(operation, Document, call') : DispatchReturns(ToGateway(r))
  BY DEF CallTool
<1> PICK g : g = ToGateway(r)
  OBVIOUS
<1>3. operation \in Operations
  BY CommandsAssumption DEF RunInv
<1>4. r.error \in Outcomes(operation, Document, call') /\ r \in ReadReceipt
  BY <1>1, <1>2, <1>3, ReceiptsOfFacts
<1>5. ~LoginAsked
  <2>1. /\ Len(dispatched) < Len(ordered) /\ Len(receipts) = Len(dispatched)
        /\ Len(dispatched) \in Nat
    BY <1>2, Dispatching DEF RunInv, DispatchReturns
  <2>2. Len(ordered) \in {0, 1}
    BY OrderedOnce DEF RunInv, GatewayInv
  <2>3. \A m, n \in Nat : m < n /\ n \in {0, 1} => m = 0
    OBVIOUS
  <2>4. Len(receipts) = 0
    BY <2>1, <2>2, <2>3
  <2> QED
    BY <2>4 DEF RunInv, Answered, LoginAsked
<1>6. report'.code = "AUTH_REQUIRED" => r.error = "AUTH_REQUIRED"
  <2>1. CASE Shortfall(g, current'.mode) = "none"
    <3>1. report' = report
      BY <1>2, <2>1 DEF DispatchReturns
    <3> QED
      BY <1>5, <3>1 DEF LoginTold
  <2>2. CASE Shortfall(g, current'.mode) # "none"
    <3>1. Failed(Shortfall(g, current'.mode), current'.mode, executed, receipts')
      BY <1>2, <2>2 DEF DispatchReturns
    <3>2. report'.code = SafeCode(Shortfall(g, current'.mode))
      BY <3>1 DEF Failed, Report
    <3>3. g.error = IF r.error = "none" THEN "UNLISTED" ELSE r.error
      BY DEF ToGateway
    <3> QED
      BY <3>2, <3>3 DEF SafeCode, SafeCodes, Shortfall
  <2> QED
    BY <2>1, <2>2
<1>7. report'.code = "AUTH_REQUIRED" => LoginAsked'
  BY <1>1, <1>4, <1>6 DEF LoginAsked
<1> QED
  BY <1>1, <1>5, <1>7 DEF LoginTold

\* What a login check is reported with stands until the run returns.
LEMMA LoginToldNext ==
  ASSUME OneRead, SessionAsksNoLogin, RunInv, LoginTold, [NextRun]_allVars
  PROVE  LoginTold'
<1>1. CASE CallTool
  BY <1>1, LoginToldCall
<1>2. ASSUME call' = call, operation' = operation, report' = report, receipt' = receipt
      PROVE  LoginTold'
  BY <1>2 DEF LoginTold, LoginAsked
<1>3. CASE Execute
  <2>1. call' = call /\ operation' = operation /\ receipt' = receipt
    BY <1>3 DEF Execute, serviceVars
  <2>2. report' = report \/ report'.code \in {"TRANSPORT_FAILED", "PLAN_EXECUTED"}
    BY <1>3 DEF Execute, Validate, runVars, TakeSnapshot, PreflightAccepts, Complete, Failed,
       Report, SafeCode, SafeCodes
  <2> QED
    BY <2>1, <2>2 DEF LoginTold, LoginAsked
<1>4. CASE Judge
  <2>1. call' = call /\ operation' = operation /\ report' = report
    BY <1>4 DEF Judge, gatewayVars, vars, runVars
  <2>2. CASE report.status = "EXECUTED"
    <3>1. receipt' \in ReceiptsOf(operation, Document, call) /\ stage = "reported"
      BY <1>4, <2>2 DEF Judge
    <3>2. call # Nothing /\ call \in Results /\ operation \in Operations
      <4>1. NetworkSent(receipts)
        BY <2>2 DEF RunInv, ModeKept
      <4>2. receipts # <<>>
        BY <4>1 DEF NetworkSent
      <4> QED
        BY <4>2, CommandsAssumption DEF RunInv, Answered, RunTypeOK
    <3>3. receipt'.error \in Outcomes(operation, Document, call)
      BY <3>1, <3>2, ReceiptsOfFacts
    <3> QED
      BY <2>1, <3>2, <3>3 DEF LoginTold, LoginAsked
  <2>3. CASE report.status # "EXECUTED"
    <3>1. receipt'.error = report.code
      BY <1>4, <2>3 DEF Judge, FailedReceipt
    <3> QED
      BY <2>1, <3>1 DEF LoginTold, LoginAsked
  <2> QED
    BY <2>2, <2>3
<1>5. CASE Handle
  <2>1. /\ call' = call /\ operation' = operation /\ report' = report /\ error \in Errors
        /\ receipt'.error = FailureCode(error)
    BY <1>5 DEF Handle, gatewayVars, vars, runVars, FailedReceipt, RunInv, AtStep
  <2>2. FailureCode(error) # "AUTH_REQUIRED"
    BY <2>1 DEF SessionAsksNoLogin, FailureCode
  <2> QED
    BY <2>1, <2>2 DEF LoginTold, LoginAsked
<1>6. CASE ~(CallTool \/ Execute \/ Judge \/ Handle)
  <2>1. call' = call /\ operation' = operation /\ receipt' = receipt /\ UNCHANGED gatewayVars
    BY <1>6 DEF NextRun, Session, Opens, OpenFails, Closes, CloseFails, Record, WriteArtifact,
       CreateManifest, AppendEvent, Return, RecordFails, Interrupt, InterruptReplaced, Crash,
       Ended, allVars, serviceVars
  <2>2. report' = report
    BY <2>1 DEF gatewayVars, vars, runVars
  <2> QED
    BY <1>2, <2>1, <2>2
<1> QED
  BY <1>1, <1>3, <1>4, <1>5, <1>6

\* An exception of call_tool tells whether its request had been written.
RaisedTruly == \A x \in Results : x.kind = "raised" => (x.flag <=> x.written)

\* With RaisedTruly: a receipt claims what was written and what the session said.
Claimed ==
    step \in {"recording", "returned"} =>
        (receipt.sent <=> SaidSent \/ (Written /\ session # "lost"))

\* A report says that a request was sent exactly if call_tool wrote one.
LEMMA ReportClaims ==
  ASSUME RaisedTruly, RunInv, stage = "reported"
  PROVE  report.sent <=> Written
<1>1. Written => report.sent
  BY ReportTells DEF RaisedTruly, RaisedTells
<1>2. ASSUME report.sent PROVE Written
  <2>1. NetworkSent(receipts)
    BY <1>2 DEF RunInv, Summed
  <2>2. PICK i \in DOMAIN receipts : receipts[i].sent
    BY <2>1 DEF NetworkSent
  <2>3. /\ call # Nothing /\ call \in Results /\ Len(receipts) = 1 /\ receipts \in Seq(Receipt)
        /\ operation \in Operations
        /\ \E r \in ReceiptsOf(operation, Document, call) : receipts[1] = ToGateway(r)
    BY <2>2, CommandsAssumption DEF RunInv, Answered, GatewayInv, TypeOK, RunTypeOK
  <2>4. i = 1
    BY ONLY <2>2, <2>3
  <2>5. PICK r \in ReceiptsOf(operation, Document, call) : receipts[1] = ToGateway(r)
    BY <2>3
  <2>6. r.sent
    BY <2>2, <2>4, <2>5 DEF ToGateway
  <2> QED
    BY <2>3, <2>6, ReceiptsOfFacts DEF RaisedTruly, Written
<1> QED
  BY <1>1, <1>2

\* What is recorded claims no more and no less.
LEMMA ClaimedNext ==
  ASSUME RaisedTruly, RunInv, Claimed, [NextRun]_allVars
  PROVE  Claimed'
<1> SUFFICES ASSUME step' \in {"recording", "returned"}
             PROVE  (receipt.sent <=> SaidSent \/ (Written /\ session # "lost"))'
  BY DEF Claimed
<1>1. CASE step \in {"recording", "returned"}
  <2>1. receipt' = receipt /\ call' = call /\ session' = session /\ error' = error
    BY <1>1 DEF NextRun, Session, Opens, OpenFails, Execute, CallTool, Judge, Closes,
       CloseFails, Handle, Record, WriteArtifact, CreateManifest, AppendEvent, Return,
       RecordFails, Interrupt, InterruptReplaced, Crash, Ended, allVars, serviceVars
  <2> QED
    BY <1>1, <2>1 DEF Claimed, SaidSent, Written
<1>2. CASE Closes
  <2>1. receipt' = receipt /\ call' = call /\ error' = error /\ session' = "closed"
        /\ kept /\ error = Nothing
    BY <1>2 DEF Closes, RunInv, AtStep
  <2>2. stage = "reported" /\ receipt.sent = report.sent
    BY <2>1 DEF RunInv, Judged
  <2>3. Written' <=> Written
    BY <2>1 DEF Written
  <2> QED
    BY <2>1, <2>2, <2>3, ReportClaims DEF SaidSent
<1>3. CASE Handle
  <2>1. /\ call' = call /\ session' = session /\ error' = error /\ error \in Errors
        /\ session = "lost" => ~kept
        /\ kept \/ call = Nothing \/ session = "lost"
        /\ receipt'.sent = (error.flag \/ (kept /\ report.sent))
    BY <1>3 DEF Handle, FailedReceipt, RunInv, AtStep
  <2>2. error # Nothing /\ error.flag \in BOOLEAN
    BY <2>1, ErrorsAssumption DEF Error, Nothing
  <2>3. kept => (report.sent <=> Written)
    BY ReportClaims DEF RunInv, Judged
  <2>4. Written' <=> Written
    BY <2>1 DEF Written
  <2>5. Written => call # Nothing
    BY DEF Written
  <2> QED
    BY <2>1, <2>2, <2>3, <2>4, <2>5 DEF SaidSent
<1>4. step \notin {"recording", "returned"} => Closes \/ Handle
  BY DEF NextRun, Session, Opens, OpenFails, Execute, CallTool, Judge, CloseFails, Record,
     WriteArtifact, CreateManifest, AppendEvent, Return, RecordFails, Interrupt,
     InterruptReplaced, Crash, Ended, allVars, serviceVars
<1> QED
  BY <1>1, <1>2, <1>3, <1>4

\* The facts of the read that doctor and the records rely on, of every command.
RequestKnown == command \notin Demos => Told
ClaimKnown == command \notin Demos => Claimed
LoginKnown == command \notin Demos => LoginTold

\* A command that reads takes the steps of LiveRun or none.
LEMMA ReadBeneath ==
  ASSUME CommandInv, [NextCommand]_everything
  PROVE  command' = command /\ (command \notin Demos => RunInv /\ [NextRun]_allVars)
<1>1. command' = command
  BY DEF NextCommand, everything, CommandStep, DoctorRaises, DoctorOffline, RefuseArgument,
     StartReading, Read, EndReading, RefuseExample, StartLogging, ExecuteDemo, WriteEntry,
     DemoRaises, EndDemo, Inspect, EndInspect, BreakOff, BreakOffRead, Others, End, commandVars,
     command
<1> SUFFICES ASSUME command \notin Demos PROVE RunInv /\ [NextRun]_allVars
  BY <1>1
<1>2. RunInv
  BY DEF CommandInv
<1>3. [NextRun]_allVars
  <2>1. CASE ExecuteDemo
    BY <2>1 DEF ExecuteDemo, MoreToWrite, CommandInv
  <2>2. CASE Read \/ BreakOffRead
    BY <2>2 DEF Read, BreakOffRead, NextRun
  <2> QED
    BY <2>1, <2>2 DEF NextCommand, everything, CommandStep, DoctorRaises, DoctorOffline,
       RefuseArgument, StartReading, EndReading, RefuseExample, StartLogging, WriteEntry,
       DemoRaises, EndDemo, Inspect, EndInspect, BreakOff, Others, End
<1> QED
  BY <1>2, <1>3

\* A request that doctor has sent is known to it.
LEMMA RequestKnownInvariant ==
  ASSUME OneRead, RaisedTells
  PROVE  CommandSpec => []RequestKnown
<1>1. InitCommand => RequestKnown
  BY DEF InitCommand, InitRun, RequestKnown, Told
<1>2. CommandInv /\ RequestKnown /\ [NextCommand]_everything => RequestKnown'
  BY ReadBeneath, ToldNext DEF RequestKnown
<1> QED
  BY <1>1, <1>2, CommandInvariant, PTL DEF CommandSpec

\* What doctor claims of requests is what there was.
LEMMA ClaimKnownInvariant ==
  ASSUME OneRead, RaisedTruly
  PROVE  CommandSpec => []ClaimKnown
<1>1. InitCommand => ClaimKnown
  BY DEF InitCommand, InitRun, ClaimKnown, Claimed
<1>2. CommandInv /\ ClaimKnown /\ [NextCommand]_everything => ClaimKnown'
  BY ReadBeneath, ClaimedNext DEF ClaimKnown
<1> QED
  BY <1>1, <1>2, CommandInvariant, PTL DEF CommandSpec

\* A login that doctor reports as missing is one the check found missing.
LEMMA LoginKnownInvariant ==
  ASSUME OneRead, SessionAsksNoLogin
  PROVE  CommandSpec => []LoginKnown
<1>1. InitCommand => LoginKnown
  BY DEF InitCommand, InitRun, Init, NoReport, LoginKnown, LoginTold
<1>2. CommandInv /\ LoginKnown /\ [NextCommand]_everything => LoginKnown'
  BY ReadBeneath, LoginToldNext DEF LoginKnown
<1> QED
  BY <1>1, <1>2, CommandInvariant, PTL DEF CommandSpec

\* What the checks of doctor found when it says that they passed.
LEMMA ReadyIsSound ==
  ASSUME OfflineReady(invocation.installation)
  PROVE  InstallationSound(invocation.installation)
BY DEF InstallationSound, OfflineReady, JsonFiles, FilePasses

\* What doctor prints follows from what it knows of the request and the login.
LEMMA DoctorOfInv == CommandInv /\ ClaimKnown /\ LoginKnown => DoctorTellsTheTruth
<1> SUFFICES ASSUME CommandInv, ClaimKnown, LoginKnown, verdict # NoVerdict
             PROVE  DoctorTellsTheTruth
  BY DEF DoctorTellsTheTruth
<1>1. RunInv /\ Claimed /\ LoginTold
  BY DEF CommandInv, ClaimKnown, LoginKnown, Reporting
<1>2. CASE /\ step = "opening" /\ verdict.sent = FALSE
           /\ verdict.status \in {"READY_OFFLINE", "NOT_READY"}
           /\ verdict.status = "READY_OFFLINE" => OfflineReady(invocation.installation)
  <2>1. call = Nothing /\ error = Nothing
    BY <1>1, <1>2 DEF RunInv, AtStep
  <2>2. verdict.status = "READY_OFFLINE" => InstallationSound(invocation.installation)
    BY <1>2, ReadyIsSound
  <2> QED
    BY <1>2, <2>1, <2>2 DEF DoctorTellsTheTruth, Written, SaidSent
<1>3. CASE /\ step = "returned" /\ command = "doctor_live"
           /\ OfflineReady(invocation.installation)
           /\ verdict = [status |-> ProbeStatus(receipt), sent |-> receipt.sent,
                         verified |-> receipt.verified]
  <2>1. /\ operation = "auth_status" /\ receipt \in ReadReceipt /\ receipt # Nothing
    <3>1. operation = "auth_status"
      BY <1>3 DEF CommandInv, OperationOf
    <3>2. receipt \in ReadReceipt
      BY <1>1, <1>3 DEF RunInv, AtStep, Settled
    <3>3. "status" \in DOMAIN receipt /\ "status" \notin DOMAIN Nothing
      BY <3>2 DEF ReadReceipt, Nothing
    <3> QED
      BY <3>1, <3>2, <3>3
  <2>2. verdict.sent <=> SaidSent \/ (Written /\ session # "lost")
    BY <1>1, <1>3 DEF Claimed
  <2>3. verdict.status = "AUTH_REQUIRED" => receipt.error = "AUTH_REQUIRED"
    BY <1>3 DEF ProbeStatus
  <2>4. verdict.status = "AUTH_REQUIRED" =>
           call # Nothing /\ "AUTH_REQUIRED" \in Outcomes("auth_status", Document, call)
    BY <1>1, <2>1, <2>3 DEF LoginTold, LoginAsked
  <2>5. verdict.status = "READY_LIVE" =>
           Judgements("auth_status", Document, call.response) = {"none"}
    <3> SUFFICES ASSUME verdict.status = "READY_LIVE"
                 PROVE  Judgements("auth_status", Document, call.response) = {"none"}
      OBVIOUS
    <3>1. receipt.status = "SUCCEEDED"
      BY <1>3 DEF ProbeStatus
    <3>2. Sound
      BY <1>1, <1>3, <3>1, SuccessReceipt
    <3> QED
      BY <2>1, <3>2 DEF Sound
  <2>6. verdict.status \in {"AUTH_REQUIRED", "READY_LIVE", "NOT_READY"}
    BY <1>3 DEF ProbeStatus
  <2> QED
    BY <1>3, <2>2, <2>4, <2>5, <2>6, ReadyIsSound DEF DoctorTellsTheTruth, Outcomes
<1> QED
  BY <1>2, <1>3 DEF CommandInv, Reporting

-----------------------------------------------------------------------------
\* Whatever a command reads and wherever it is broken off, the files of its read
\* never contradict each other.
THEOREM CommandFilesAgree == ASSUME OneRead PROVE CommandSpec => []FilesAgree
BY CommandInvariant, CommandFiles, PTL

\* No command records a success that the response does not bear out.
THEOREM CommandSuccessIsWhole == ASSUME OneRead PROVE CommandSpec => []SuccessIsWhole
BY CommandInvariant, CommandFiles, PTL

\* A live command exits with 0 only after a read that is on record, in all its
\* files, as sent, verified and succeeded.
THEOREM ExitStatusTruthful == ASSUME OneRead PROVE CommandSpec => []ExitIsTruthful
BY CommandInvariant, ExitOfInv, PTL


\* If exceptions of call_tool tell whether its request was written, and none of the
\* session's own is of a login, then doctor asks for a login only if the answer said
\* that it is missing, or the transport did; it claims a request exactly if call_tool
\* wrote one or the session failed with word of one, unless an interrupt of the call
\* met a close that failed; and it calls ready only an installation that passes all
\* seven checks and, live, only what the answer says is ready.
THEOREM DoctorTruthful ==
  ASSUME OneRead, RaisedTruly, SessionAsksNoLogin
  PROVE  CommandSpec => []DoctorTellsTheTruth
BY ClaimKnownInvariant, LoginKnownInvariant, DoctorOfInv, CommandInvariant, PTL

\* And no receipt or record of any command denies a request that reached the child,
\* with the same exception.
THEOREM CommandHidesNoRequest ==
  ASSUME OneRead, RaisedTells
  PROVE  CommandSpec => []NoHiddenRequest
<1>1. CommandInv /\ RequestKnown => NoHiddenRequest
  <2> SUFFICES ASSUME CommandInv, RequestKnown, Written, session # "lost",
                      step \in {"recording", "returned"}
               PROVE  receipt.sent /\ (manifest # Nothing => manifest.sent)
    BY DEF NoHiddenRequest
  <2>1. RunInv /\ receipt.sent
    BY DEF CommandInv, RequestKnown, NoRun, Told
  <2> QED
    BY <2>1 DEF RunInv, Filed, Summary
<1> QED
  BY <1>1, RequestKnownInvariant, CommandInvariant, PTL

-----------------------------------------------------------------------------
(* The demo: its script and its plan.                                      *)

\* The values of a request are all settled.
AllSettled(r) ==
    {r.sketch, r.extrude} \union {r.holes[i] : i \in DOMAIN r.holes} = {"settled"}

\* The names of the entries of a log.
LogNames == {"manifest", "RUN_STARTED", "problem_brief_v1", "task_graph_v1",
             "TASK_GRAPH_SELECTED", "execution_plan_v1", "execution_report_v1",
             "CAD_PLAN_EXECUTED", "drawing_plan_v1", "visual_report_v1",
             "VISUAL_ISSUE_REPORTED", "diagnosis_v1", "REPAIR_ROUTED"}

\* The event of the execution follows its report, and nothing else is named so.
LEMMA ScriptFacts ==
  /\ Script \in Seq(LogNames) /\ Len(Script) \in Nat
  /\ \A i \in DOMAIN Script : Script[i] = "CAD_PLAN_EXECUTED" =>
        i - 1 \in DOMAIN Script /\ Script[i - 1] = "execution_report_v1"
<1> DEFINE head == <<"manifest", "RUN_STARTED">>
           brief == IF command = "example" THEN <<"problem_brief_v1">> ELSE <<>>
           tail == <<"task_graph_v1", "TASK_GRAPH_SELECTED", "execution_plan_v1",
                     "execution_report_v1", "CAD_PLAN_EXECUTED", "drawing_plan_v1",
                     "visual_report_v1", "VISUAL_ISSUE_REPORTED", "diagnosis_v1",
                     "REPAIR_ROUTED">>
<1>1. head \in Seq(LogNames) /\ Len(head) = 2 /\ \A i \in 1..2 : head[i] # "CAD_PLAN_EXECUTED"
  BY DEF LogNames
<1>2. /\ brief \in Seq(LogNames) /\ Len(brief) \in {0, 1}
      /\ \A i \in 1..Len(brief) : brief[i] # "CAD_PLAN_EXECUTED"
  <2>1. CASE command = "example"
    BY <2>1 DEF LogNames
  <2>2. CASE command # "example"
    BY <2>2
  <2> QED
    BY <2>1, <2>2
<1>3. /\ tail \in Seq(LogNames) /\ Len(tail) = 10
      /\ \A i \in 1..10 : tail[i] = "CAD_PLAN_EXECUTED" => i = 5
      /\ tail[4] = "execution_report_v1" /\ tail[5] = "CAD_PLAN_EXECUTED"
  BY DEF LogNames
<1>4. Script = (head \o brief) \o tail
  BY DEF Script
<1> HIDE DEF head, brief, tail
<1> PICK front : front = head \o brief
  OBVIOUS
<1>5. /\ front \in Seq(LogNames) /\ Len(front) \in {2, 3}
      /\ \A i \in 1..Len(front) : front[i] # "CAD_PLAN_EXECUTED"
  <2>1. /\ front \in Seq(LogNames) /\ Len(front) = 2 + Len(brief)
        /\ \A i \in 1..(2 + Len(brief)) : front[i] = IF i <= 2 THEN head[i] ELSE brief[i - 2]
    <3>1. /\ head \o brief \in Seq(LogNames) /\ Len(head \o brief) = Len(head) + Len(brief)
          /\ \A i \in 1..(Len(head) + Len(brief)) :
                (head \o brief)[i] = IF i <= Len(head) THEN head[i] ELSE brief[i - Len(head)]
      BY <1>1, <1>2, ConcatProperties, Zenon
    <3> QED
      BY <1>1, <3>1
  <2> QED
    BY <1>1, <1>2, <2>1
<1>6. /\ Script \in Seq(LogNames) /\ Len(Script) = Len(front) + 10
      /\ \A i \in 1..Len(Script) :
            Script[i] = IF i <= Len(front) THEN front[i] ELSE tail[i - Len(front)]
  <2>1. Script = front \o tail
    BY <1>4
  <2>2. /\ Script \in Seq(LogNames) /\ Len(Script) = Len(front) + Len(tail)
        /\ \A i \in 1..(Len(front) + Len(tail)) :
              Script[i] = IF i <= Len(front) THEN front[i] ELSE tail[i - Len(front)]
    <3>1. front \in Seq(LogNames) /\ tail \in Seq(LogNames)
      BY <1>3, <1>5
    <3>2. /\ front \o tail \in Seq(LogNames) /\ Len(front \o tail) = Len(front) + Len(tail)
          /\ \A i \in 1..(Len(front) + Len(tail)) :
                (front \o tail)[i] = IF i <= Len(front) THEN front[i] ELSE tail[i - Len(front)]
      BY ONLY <3>1, ConcatProperties, Zenon
    <3> QED
      BY <2>1, <3>2, Zenon
  <2> QED
    BY <1>3, <2>2
<1>7. ASSUME NEW i \in 1..Len(Script), Script[i] = "CAD_PLAN_EXECUTED"
      PROVE  i - 1 \in 1..Len(Script) /\ Script[i - 1] = "execution_report_v1"
  <2>1. ~(i <= Len(front)) /\ tail[i - Len(front)] = "CAD_PLAN_EXECUTED"
    <3>1. Script[i] = IF i <= Len(front) THEN front[i] ELSE tail[i - Len(front)]
      BY ONLY <1>6, <1>7
    <3>2. i <= Len(front) => i \in 1..Len(front)
      BY ONLY <1>5, <1>6, <1>7
    <3> QED
      BY ONLY <1>5, <1>7, <3>1, <3>2
  <2>2. i - Len(front) \in 1..10
    <3>1. \A m \in {2, 3} : \A k \in 1..(m + 10) : ~(k <= m) => k - m \in 1..10
      OBVIOUS
    <3>2. Len(front) \in {2, 3} /\ i \in 1..(Len(front) + 10)
      BY <1>5, <1>6
    <3> QED
      BY <2>1, <3>1, <3>2
  <2>3. i - Len(front) = 5
    BY <1>3, <2>1, <2>2
  <2>4. i - 1 \in 1..Len(Script) /\ ~(i - 1 <= Len(front)) /\ (i - 1) - Len(front) = 4
    BY <1>5, <1>6, <2>3
  <2> QED
    BY <1>3, <1>6, <2>4
<1> QED
  BY <1>6, <1>7

\* The actions of the demo's plan.
LEMMA DemoActions ==
  ASSUME NEW r \in Request
  PROVE  /\ Len(r.holes) \in Nat /\ DOMAIN r.holes = 1..Len(r.holes)
         /\ DOMAIN DemoPlan(r).actions = 1..(Len(r.holes) + 2)
         /\ DemoPlan(r).mode = "simulated" /\ DemoPlan(r).assumptions = "settled"
         /\ DemoPlan(r).actions[1] = [id |-> Len(r.holes) + 2, type |-> "ensure",
                                      values |-> r.sketch, depends_on |-> <<>>]
         /\ DemoPlan(r).actions[2] = [id |-> 1, type |-> "ensure", values |-> r.extrude,
                                      depends_on |-> <<Len(r.holes) + 2>>]
         /\ \A i \in 1..Len(r.holes) :
               DemoPlan(r).actions[i + 2] = [id |-> 1 + i, type |-> "ensure",
                                             values |-> r.holes[i], depends_on |-> <<1>>]
<1> DEFINE n == Len(r.holes)
           front == <<[id |-> n + 2, type |-> "ensure", values |-> r.sketch,
                       depends_on |-> <<>>],
                      [id |-> 1, type |-> "ensure", values |-> r.extrude,
                       depends_on |-> <<n + 2>>]>>
           back == [i \in DOMAIN r.holes |->
                       [id |-> 1 + i, type |-> "ensure", values |-> r.holes[i],
                        depends_on |-> <<1>>]]
<1>1. r.holes \in Seq(Values)
  BY DEF Request
<1>2. n \in Nat /\ DOMAIN r.holes = 1..n
  BY <1>1
<1>3. /\ DemoPlan(r).actions = front \o back
      /\ DemoPlan(r).mode = "simulated" /\ DemoPlan(r).assumptions = "settled"
  BY DEF DemoPlan
<1> DEFINE A == {front[i] : i \in 1..2} \union {back[i] : i \in 1..n}
<1>4. back \in Seq(A) /\ Len(back) = n
  BY <1>2
<1>5. front \in Seq(A) /\ Len(front) = 2
  OBVIOUS
<1>6. \A i \in 1..n :
         back[i] = [id |-> 1 + i, type |-> "ensure", values |-> r.holes[i], depends_on |-> <<1>>]
  BY <1>2
<1>7. /\ front[1] = [id |-> n + 2, type |-> "ensure", values |-> r.sketch, depends_on |-> <<>>]
      /\ front[2] = [id |-> 1, type |-> "ensure", values |-> r.extrude,
                     depends_on |-> <<n + 2>>]
  OBVIOUS
<1> HIDE DEF front, back, A
<1>8. /\ DOMAIN (front \o back) = 1..(n + 2)
      /\ (front \o back)[1] = front[1] /\ (front \o back)[2] = front[2]
      /\ \A i \in 1..n : (front \o back)[i + 2] = back[i]
  <2> HIDE DEF n
  <2>1. /\ front \o back \in Seq(A) /\ Len(front \o back) = 2 + n
        /\ \A i \in 1..(2 + n) : (front \o back)[i] = IF i <= 2 THEN front[i] ELSE back[i - 2]
    <3>1. /\ front \o back \in Seq(A) /\ Len(front \o back) = Len(front) + Len(back)
          /\ \A i \in 1..(Len(front) + Len(back)) :
                (front \o back)[i] = IF i <= Len(front) THEN front[i] ELSE back[i - Len(front)]
      BY <1>4, <1>5, ConcatProperties, Zenon
    <3> QED
      BY <1>4, <1>5, <3>1
  <2>2. 2 + n = n + 2 /\ 1 \in 1..(2 + n) /\ 2 \in 1..(2 + n)
        /\ \A i \in 1..n : i + 2 \in 1..(2 + n) /\ ~(i + 2 <= 2) /\ (i + 2) - 2 = i
    BY <1>2
  <2>3. DOMAIN (front \o back) = 1..(2 + n)
    BY <2>1
  <2> QED
    BY <2>1, <2>2, <2>3
<1> QED
  BY <1>2, <1>3, <1>6, <1>7, <1>8

\* The policy denies it exactly if a value is not settled; and never for a cycle.
LEMMA DemoFitness ==
  ASSUME NEW r \in Request, DemoPlan(r) \in Plan
  PROVE  /\ StaticDenial(DemoPlan(r)) = "none" <=> AllSettled(r)
         /\ ~Cyclic(DemoPlan(r))
<1> PICK p : p = DemoPlan(r)
  OBVIOUS
<1> PICK n : n = Len(r.holes)
  OBVIOUS
<1>1. /\ n \in Nat /\ DOMAIN r.holes = 1..n /\ DOMAIN p.actions = 1..(n + 2)
      /\ p.mode = "simulated" /\ p.assumptions = "settled" /\ p \in Plan
      /\ p.actions[1] = [id |-> n + 2, type |-> "ensure", values |-> r.sketch,
                         depends_on |-> <<>>]
      /\ p.actions[2] = [id |-> 1, type |-> "ensure", values |-> r.extrude,
                         depends_on |-> <<n + 2>>]
      /\ \A i \in 1..n : p.actions[i + 2] = [id |-> 1 + i, type |-> "ensure",
                                             values |-> r.holes[i], depends_on |-> <<1>>]
  BY DemoActions
<1>2. \A i \in 1..(n + 2) : i = 1 \/ i = 2 \/ (i - 2 \in 1..n /\ i = (i - 2) + 2)
  BY <1>1
<1>3. Positions(p) = 1..(n + 2) /\ 1 \in Positions(p) /\ 2 \in Positions(p)
      /\ \A i \in 1..n : i + 2 \in Positions(p)
  BY <1>1 DEF Positions
<1>4. /\ p.actions[1].id = n + 2 /\ p.actions[2].id = 1
      /\ \A i \in 1..n : p.actions[i + 2].id = 1 + i
      /\ p.actions[1].depends_on = <<>> /\ p.actions[2].depends_on = <<n + 2>>
      /\ \A i \in 1..n : p.actions[i + 2].depends_on = <<1>>
      /\ p.actions[1].values = r.sketch /\ p.actions[2].values = r.extrude
      /\ \A i \in 1..n : p.actions[i + 2].values = r.holes[i]
  <2>1. /\ p.actions[1].id = n + 2 /\ p.actions[1].depends_on = <<>>
        /\ p.actions[1].values = r.sketch
    BY <1>1
  <2>2. /\ p.actions[2].id = 1 /\ p.actions[2].depends_on = <<n + 2>>
        /\ p.actions[2].values = r.extrude
    BY <1>1
  <2>3. ASSUME NEW i \in 1..n
        PROVE  /\ p.actions[i + 2].id = 1 + i /\ p.actions[i + 2].depends_on = <<1>>
               /\ p.actions[i + 2].values = r.holes[i]
    <3>1. p.actions[i + 2] = [id |-> 1 + i, type |-> "ensure", values |-> r.holes[i],
                              depends_on |-> <<1>>]
      BY <1>1
    <3> QED
      BY <3>1
  <2> QED
    BY <2>1, <2>2, <2>3
<1>5. UniqueIds(p)
  <2>1. \A i \in 1..(n + 2) :
           p.actions[i].id = IF i = 1 THEN n + 2 ELSE i - 1
    <3>1. ASSUME NEW i \in 1..(n + 2) PROVE p.actions[i].id = IF i = 1 THEN n + 2 ELSE i - 1
      <4>1. CASE i = 1
        BY <1>4, <4>1
      <4>2. CASE i = 2
        BY <1>4, <4>2
      <4>3. CASE i - 2 \in 1..n /\ i = (i - 2) + 2
        <5>1. p.actions[i].id = 1 + (i - 2)
          BY <1>4, <4>3
        <5> QED
          BY <1>1, <4>3, <5>1
      <4> QED
        BY <1>2, <4>1, <4>2, <4>3
    <3> QED
      BY <3>1
  <2>2. \A i, k \in 1..(n + 2) :
           (IF i = 1 THEN n + 2 ELSE i - 1) = (IF k = 1 THEN n + 2 ELSE k - 1) => i = k
    BY <1>1
  <2> QED
    BY <1>3, <2>1, <2>2 DEF UniqueIds
<1>6. /\ 1 \in Ids(p) /\ n + 2 \in Ids(p)
      /\ \A a \in Ids(p) : a = n + 2 \/ a = 1 \/ \E i \in 1..n : a = 1 + i
  <2>1. 1 \in Ids(p) /\ n + 2 \in Ids(p)
    BY <1>3, <1>4 DEF Ids
  <2>2. ASSUME NEW a \in Ids(p) PROVE a = n + 2 \/ a = 1 \/ \E i \in 1..n : a = 1 + i
    <3>1. PICK i \in Positions(p) : p.actions[i].id = a
      BY DEF Ids
    <3>2. i = 1 \/ i = 2 \/ (i - 2 \in 1..n /\ i = (i - 2) + 2)
      BY <1>2, <1>3
    <3> QED
      BY <1>4, <3>1, <3>2
  <2> QED
    BY <2>1, <2>2
<1>7. KnownDependencies(p)
  <2>1. ASSUME NEW i \in 1..(n + 2), NEW j \in DOMAIN p.actions[i].depends_on
        PROVE  p.actions[i].depends_on[j] \in Ids(p)
    <3>1. CASE i = 1
      BY <1>4, <2>1, <3>1
    <3>2. CASE i = 2
      BY <1>4, <1>6, <2>1, <3>2
    <3>3. CASE i - 2 \in 1..n /\ i = (i - 2) + 2
      <4>1. p.actions[i].depends_on = <<1>>
        BY <1>4, <3>3
      <4> QED
        BY <1>6, <2>1, <4>1
    <3> QED
      BY <1>2, <3>1, <3>2, <3>3
  <2> QED
    BY <1>3, <2>1 DEF KnownDependencies
<1>8. StaticDenial(p) = "none" <=> \A i \in Positions(p) : p.actions[i].values = "settled"
  <2>1. ASSUME NEW i \in Positions(p) PROVE p.actions[i].type = "ensure"
    <3>1. CASE i = 1
      BY <1>1, <3>1
    <3>2. CASE i = 2
      BY <1>1, <3>2
    <3>3. CASE i - 2 \in 1..n /\ i = (i - 2) + 2
      <4>1. p.actions[i] = [id |-> 1 + (i - 2), type |-> "ensure",
                            values |-> r.holes[i - 2], depends_on |-> <<1>>]
        BY <1>1, <3>3
      <4> QED
        BY <4>1
    <3> QED
      BY <1>2, <1>3, <3>1, <3>2, <3>3
  <2>2. "ensure" \in Allowed(p.mode)
    BY <1>1 DEF Allowed
  <2>3. \A i \in Positions(p) : ~Offends(p, i) <=> p.actions[i].values = "settled"
    BY <2>1, <2>2 DEF Offends
  <2> QED
    BY <1>1, <1>5, <1>7, <2>3, StaticDenialExact
<1>9. AllSettled(r) <=> \A i \in Positions(p) : p.actions[i].values = "settled"
  <2>1. AllSettled(r) <=> /\ r.sketch = "settled" /\ r.extrude = "settled"
                          /\ \A i \in 1..n : r.holes[i] = "settled"
    BY <1>1 DEF AllSettled
  <2>2. (\A i \in Positions(p) : p.actions[i].values = "settled")
           <=> /\ p.actions[1].values = "settled" /\ p.actions[2].values = "settled"
               /\ \A i \in 1..n : p.actions[i + 2].values = "settled"
    <3>1. ASSUME p.actions[1].values = "settled", p.actions[2].values = "settled",
                 \A i \in 1..n : p.actions[i + 2].values = "settled",
                 NEW i \in Positions(p)
          PROVE  p.actions[i].values = "settled"
      <4>1. i = 1 \/ i = 2 \/ (i - 2 \in 1..n /\ i = (i - 2) + 2)
        BY <1>2, <1>3
      <4> QED
        BY <3>1, <4>1
    <3> QED
      BY <1>3, <3>1
  <2> QED
    BY <1>4, <2>1, <2>2
<1>10. ASSUME NEW S, Knot(p, S) PROVE FALSE
  <2>1. \A a \in Ids(p) : \E i \in Positions(p) :
           p.actions[i].id = a /\ Dependencies(p, a) = p.actions[i].depends_on
    BY <1>1, ByIdFinds DEF Dependencies
  <2>2. \A a \in S : \E i \in Positions(p) : p.actions[i].id = a
           /\ \E j \in DOMAIN p.actions[i].depends_on : p.actions[i].depends_on[j] \in S
    BY <1>10, <2>1 DEF Knot
  <2>3. n + 2 \notin S
    <3>1. \A i \in Positions(p) : p.actions[i].id = n + 2 => i = 1
      <4>1. p.actions[1].id = n + 2 /\ 1 \in Positions(p)
        BY <1>3, <1>4
      <4> QED
        BY <1>5, <4>1 DEF UniqueIds
    <3> QED
      BY <1>4, <2>2, <3>1
  <2>4. 1 \notin S
    <3>1. \A i \in Positions(p) : p.actions[i].id = 1 => i = 2
      BY <1>3, <1>4, <1>5 DEF UniqueIds
    <3> QED
      BY <1>4, <2>2, <2>3, <3>1
  <2>5. ASSUME NEW a \in S PROVE FALSE
    <3>1. PICK i \in Positions(p) : p.actions[i].id = a
             /\ \E j \in DOMAIN p.actions[i].depends_on : p.actions[i].depends_on[j] \in S
      BY <2>2
    <3>2. i - 2 \in 1..n /\ i = (i - 2) + 2
      BY <1>2, <1>3, <1>4, <2>3, <2>4, <3>1
    <3>3. p.actions[i].depends_on = <<1>>
      BY <1>4, <3>2
    <3> QED
      BY <2>4, <3>1, <3>3
  <2> QED
    BY <1>10, <2>5 DEF Knot
<1> QED
  BY <1>8, <1>9, <1>10 DEF Cyclic
-----------------------------------------------------------------------------
(* The demo: the inductive invariant.                                      *)

\* The plan is the request's, the caller has not touched it, nothing is sent, and
\* the gateway reports a completion or a denial.
DemoGate ==
    /\ NoRun /\ plan = DemoPlan(invocation.request) /\ current = plan
    /\ \A i \in DOMAIN receipts : ~receipts[i].sent
    /\ stage = "reported" =>
          /\ report.sent = FALSE
          /\ report.status = "EXECUTED" \/ (report.status = "DENIED" /\ phase = "denied")
    /\ phase = "denied" => code = "ACTION_CYCLE" \/ StaticDenial(plan) # "none"

TellsReport(entry) == entry \in {"execution_report_v1", "CAD_PLAN_EXECUTED"}

\* The log follows the script; what it says of the execution is what was reported.
Logging ==
    /\ \E S : log \in Seq(S)
    /\ Len(log) <= Len(Script)
    /\ \A i \in DOMAIN log :
          /\ log[i].entry = Script[i]
          /\ TellsReport(Script[i]) =>
                /\ stage = "reported"
                /\ log[i].says = [status |-> report.status, sent |-> report.sent]

\* Who has a log, and of which length.
Kept ==
    /\ command \notin Demos \/ cli = "start" => log = <<>>
    /\ command \in Demos /\ exit = "success" => Len(log) = Len(Script)
    /\ command \in Demos /\ exit = "usage" => log = <<>>
    /\ command = "example" /\ (cli = "logging" \/ log # <<>>) => invocation.request.approved

DemoInv ==
    /\ command \in Demos => DemoGate
    /\ Logging /\ Kept

-----------------------------------------------------------------------------
(* The demo: every step keeps the invariant.                               *)

\* Before the demo its log is empty and nothing has been planned.
LEMMA DemoInvInit == InitCommand => DemoInv
<1> SUFFICES ASSUME InitCommand PROVE DemoInv
  OBVIOUS
<1>1. CommandInv /\ Init /\ log = <<>> /\ exit = "none" /\ cli = "start"
  BY CommandInvInit DEF InitCommand, InitRun
<1>2. command \in Demos => DemoGate
  BY <1>1 DEF InitCommand, CommandInv, DemoGate, Init, PolicyInit
<1>3. Logging
  <2>1. log \in Seq({}) /\ Len(log) = 0 /\ DOMAIN log = {}
    BY <1>1
  <2> QED
    BY <2>1, ScriptFacts DEF Logging
<1> QED
  BY <1>1, <1>2, <1>3 DEF DemoInv, Kept

\* A step of the gateway within the demo.
LEMMA DemoGateNext ==
  ASSUME CommandInv, CommandInv', DemoInv, ExecuteDemo
  PROVE  DemoGate' /\ stage # "reported"
<1>1. /\ command \in Demos /\ command' \in Demos /\ current' = current
      /\ invocation' = invocation
  BY DEF ExecuteDemo, MoreToWrite, CommandInv, commandVars, command
<1>2. DemoGate /\ NoRun' /\ GatewayInv
  BY <1>1 DEF DemoInv, DemoGate, CommandInv, NoRun
<1>3. plan' = plan /\ DemoPlan(invocation.request)' = DemoPlan(invocation.request)
  BY <1>1 DEF ExecuteDemo, Validate, PolicyNext, Deny, CountDependencies, Pop, Finish, Refuse,
     TakeSnapshot, PreflightAccepts, DispatchReturns, Complete, policyVars
<1>4. stage # "reported"
  BY DEF ExecuteDemo, Validate, Refuse, TakeSnapshot, PreflightAccepts, DispatchReturns,
     Dispatch, Complete
<1>5. plan.mode = "simulated"
  BY <1>2 DEF DemoGate, DemoPlan
<1> DEFINE Silent == \A i \in DOMAIN receipts : ~receipts[i].sent
           Honest == stage = "reported" =>
                        /\ report.sent = FALSE
                        /\ report.status = "EXECUTED"
                              \/ (report.status = "DENIED" /\ phase = "denied")
           Stopped == phase = "denied" => code = "ACTION_CYCLE" \/ StaticDenial(plan) # "none"
<1>11. Silent /\ Honest /\ Stopped
  BY <1>2 DEF DemoGate
<1>12. ASSUME Silent', Honest', Stopped' PROVE DemoGate'
  BY <1>1, <1>2, <1>3, <1>12 DEF DemoGate
<1>13. phase' = phase /\ code' = code => Stopped'
  BY <1>3, <1>11
<1>14. receipts' = receipts => Silent'
  BY <1>11
<1> HIDE DEF Silent, Stopped
<1>6. CASE Validate
  <2>1. receipts' = receipts /\ stage' = stage /\ PolicyNext
    BY <1>6 DEF Validate, runVars
  <2>2. phase' = "denied" => code' = "ACTION_CYCLE" \/ StaticDenial(plan') # "none"
    BY <1>2, <2>1 DEF PolicyNext, Deny, CountDependencies, Pop, Finish, DemoGate
  <2> QED
    BY <1>4, <1>12, <1>14, <2>1, <2>2 DEF Stopped
<1>7. CASE Refuse
  <2>1. /\ stage' = "reported" /\ report'.sent = NetworkSent(<<>>) /\ report'.status = "DENIED"
        /\ phase = "denied" /\ phase' = phase /\ code' = code /\ receipts' = receipts
    BY <1>7 DEF Refuse, Denied, Report, policyVars
  <2>2. NetworkSent(<<>>) = FALSE
    BY DEF NetworkSent
  <2>3. Honest'
    BY <2>1, <2>2
  <2> QED
    BY <1>4, <1>12, <1>13, <1>14, <2>1, <2>3
<1>8. CASE TakeSnapshot \/ PreflightAccepts
  <2>1. /\ stage' \in {"preflight", "dispatch"} /\ receipts' = receipts
        /\ phase' = phase /\ code' = code
    BY <1>8 DEF TakeSnapshot, PreflightAccepts, policyVars
  <2> QED
    BY <1>4, <1>12, <1>13, <1>14, <2>1
<1>9. CASE DispatchReturns(Recorded)
  <2>1. Shortfall(Recorded, current'.mode) = "none"
    BY DEF Shortfall, Recorded
  <2>2. /\ receipts' = Append(receipts, Recorded) /\ stage' = stage
        /\ phase' = phase /\ code' = code
    BY <1>9, <2>1 DEF DispatchReturns, policyVars
  <2>3. receipts \in Seq(Receipt)
    BY <1>2 DEF GatewayInv, TypeOK
  <2>4. \A i \in DOMAIN receipts' : \/ i \in DOMAIN receipts /\ receipts'[i] = receipts[i]
                                   \/ receipts'[i] = Recorded
    BY <2>2, <2>3
  <2>5. \A i \in DOMAIN receipts' : ~receipts'[i].sent
    BY <1>2, <2>4 DEF DemoGate, Recorded
  <2> QED
    BY <1>4, <1>12, <1>13, <2>2, <2>5 DEF Silent
<1>10. CASE Complete
  <2>1. ~(current.mode = "live" /\ ~NetworkSent(receipts))
    BY <1>2, <1>5 DEF DemoGate
  <2>2. Report("EXECUTED", "PLAN_EXECUTED", current.mode, executed, receipts)
        /\ phase' = phase /\ code' = code /\ receipts' = receipts
    BY <1>10, <2>1 DEF Complete, policyVars
  <2>3. /\ stage' = "reported" /\ report'.status = "EXECUTED"
        /\ report'.sent = NetworkSent(receipts)
    BY <2>2 DEF Report
  <2>4. NetworkSent(receipts) = FALSE
    BY <1>2 DEF DemoGate, NetworkSent
  <2>5. Honest'
    BY <2>3, <2>4
  <2> QED
    BY <1>4, <1>12, <1>13, <1>14, <2>2, <2>5
<1> QED
  BY <1>4, <1>6, <1>7, <1>8, <1>9, <1>10 DEF ExecuteDemo

\* The log is added to according to the script, and of the execution after it.
LEMMA WriteKeeps ==
  ASSUME CommandInv, DemoInv, WriteEntry PROVE Logging' /\ Kept'
<1> DEFINE n == Len(log)
<1>1. /\ invocation' = invocation /\ command' = command /\ cli' = cli /\ exit' = exit
      /\ stage' = stage /\ report' = report /\ Script' = Script
      /\ cli = "logging" /\ n < Len(Script) /\ Entry = Script[n + 1]
      /\ log' = Append(log, [entry |-> Entry, says |-> Says(Entry)])
  BY DEF WriteEntry, MoreToWrite, Entry, allVars, gatewayVars, vars, runVars, command, Script
<1>2. PICK S : log \in Seq(S)
  BY DEF DemoInv, Logging
<1> PICK e : e = [entry |-> Entry, says |-> Says(Entry)]
  OBVIOUS
<1>3. /\ n \in Nat /\ DOMAIN log = 1..n /\ Len(Script) \in Nat /\ DOMAIN Script = 1..Len(Script)
  BY <1>2, ScriptFacts
<1>4. /\ log' \in Seq(S \union {e}) /\ DOMAIN log' = 1..(n + 1) /\ Len(log') = n + 1
      /\ log'[n + 1] = e /\ \A i \in 1..n : log'[i] = log[i]
  BY <1>1, <1>2, <1>3
<1>5. ASSUME TellsReport(Script[n + 1])
      PROVE  stage = "reported" /\ e.says = [status |-> report.status, sent |-> report.sent]
  <2>1. Says(Entry) = [status |-> report.status, sent |-> report.sent]
    BY <1>1, <1>5 DEF Says, TellsReport
  <2>2. stage = "reported"
    <3>1. CASE Entry = "execution_report_v1"
      BY <3>1 DEF WriteEntry
    <3>2. CASE Entry = "CAD_PLAN_EXECUTED"
      <4>1. n + 1 \in DOMAIN Script /\ Script[n + 1] = "CAD_PLAN_EXECUTED" /\ (n + 1) - 1 = n
        BY <1>1, <1>3, <3>2
      <4>2. n \in DOMAIN Script /\ Script[n] = "execution_report_v1"
        BY <4>1, ScriptFacts
      <4>3. n \in DOMAIN log
        BY <1>3, <4>2
      <4> QED
        BY <4>2, <4>3 DEF DemoInv, Logging, TellsReport
    <3> QED
      BY <1>1, <1>5, <3>1, <3>2 DEF TellsReport
  <2> QED
    BY <2>1, <2>2
<1>6. ASSUME NEW i \in DOMAIN log'
      PROVE  /\ log'[i].entry = Script[i]
             /\ TellsReport(Script[i]) =>
                   stage = "reported" /\ log'[i].says = [status |-> report.status,
                                                         sent |-> report.sent]
  <2>1. CASE i \in 1..n
    BY <1>3, <1>4, <2>1 DEF DemoInv, Logging
  <2>2. CASE i = n + 1
    BY <1>1, <1>4, <1>5, <2>2
  <2> QED
    BY <1>3, <1>4, <1>6, <2>1, <2>2
<1>7. n + 1 <= Len(Script)
  BY <1>1, <1>3
<1>8. Logging'
  BY <1>1, <1>4, <1>6, <1>7 DEF Logging, TellsReport
<1>9. Kept'
  BY <1>1 DEF DemoInv, Kept, CommandInv
<1> QED
  BY <1>8, <1>9

\* The log stays as it is, and so does what it tells.
LEMMA LogStays ==
  ASSUME DemoInv, log' = log, invocation' = invocation,
         (stage' = stage /\ report' = report) \/ stage # "reported"
  PROVE  Logging'
<1>1. Script' = Script
  BY DEF Script, command
<1> QED
  BY <1>1 DEF DemoInv, Logging, TellsReport

\* A command without a demo, or one whose gateway rests.
LEMMA DemoRests ==
  ASSUME CommandInv, CommandInv', DemoInv, log' = log, invocation' = invocation,
         UNCHANGED allVars \/ command \notin Demos, Kept'
  PROVE  DemoInv'
<1>1. command' = command
  BY DEF command
<1>2. Logging'
  <2>1. CASE UNCHANGED allVars
    BY <2>1, LogStays DEF allVars, gatewayVars, vars, runVars
  <2>2. CASE command \notin Demos
    <3>1. log' = <<>>
      BY <2>2 DEF DemoInv, Kept
    <3>2. log' \in Seq({}) /\ Len(log') = 0 /\ DOMAIN log' = {} /\ Script' = Script
      BY <3>1 DEF Script, command
    <3> QED
      BY <3>2, ScriptFacts DEF Logging
  <2> QED
    BY <2>1, <2>2
<1>3. command' \in Demos => DemoGate'
  <2> SUFFICES ASSUME command \in Demos, UNCHANGED allVars PROVE DemoGate'
    BY <1>1
  <2>1. NoRun'
    BY <1>1 DEF CommandInv
  <2>2. DemoPlan(invocation.request)' = DemoPlan(invocation.request)
    OBVIOUS
  <2> QED
    BY <2>1, <2>2 DEF DemoInv, DemoGate, allVars, gatewayVars, vars, policyVars, runVars
<1> QED
  BY <1>2, <1>3 DEF DemoInv

\* So does what is said of it while the command runs on.
LEMMA SameKept ==
  ASSUME Kept, log' = log, invocation' = invocation, exit' = exit, cli' = cli
  PROVE  Kept'
<1>1. command' = command /\ Script' = Script
  BY DEF command, Script
<1> QED
  BY <1>1 DEF Kept

\* Every step keeps the invariant of the demo.
LEMMA DemoInvNext ==
  ASSUME CommandInv, CommandInv', Inspected, DemoInv, [NextCommand]_everything
  PROVE  DemoInv'
<1>1. CASE ExecuteDemo
  <2>1. DemoGate' /\ stage # "reported" /\ log' = log /\ invocation' = invocation
        /\ cli' = cli /\ exit' = exit /\ command' = command
    BY <1>1, DemoGateNext DEF ExecuteDemo, commandVars, command
  <2>2. Logging'
    BY <2>1, LogStays
  <2>3. Kept'
    BY <2>1, SameKept DEF DemoInv
  <2> QED
    BY <2>1, <2>2, <2>3 DEF DemoInv
<1>2. CASE WriteEntry
  <2>1. Logging' /\ Kept' /\ UNCHANGED allVars /\ invocation' = invocation /\ cli = "logging"
    BY <1>2, WriteKeeps DEF WriteEntry, MoreToWrite
  <2>2. command \in Demos /\ command' = command
    BY <2>1 DEF CommandInv, command
  <2>3. DemoGate'
    <3>1. NoRun'
      BY <2>2 DEF CommandInv
    <3>2. DemoPlan(invocation.request)' = DemoPlan(invocation.request)
      BY <2>1
    <3> QED
      BY <2>1, <2>2, <3>1, <3>2
         DEF DemoInv, DemoGate, allVars, gatewayVars, vars, policyVars, runVars
  <2> QED
    BY <2>1, <2>3 DEF DemoInv
<1>3. CASE Read \/ BreakOffRead
  <2>1. /\ command \notin Demos /\ log' = log /\ invocation' = invocation /\ command' = command
        /\ cli' = cli /\ exit' = exit
    BY <1>3 DEF Read, BreakOffRead, CommandInv, commandVars, command, Live, Demos
  <2>2. Kept'
    BY <2>1, SameKept DEF DemoInv
  <2> QED
    BY <2>1, <2>2, DemoRests
<1>4. CASE StartReading \/ StartLogging \/ Inspect \/ Others \/ UNCHANGED everything
  <2>1. /\ UNCHANGED allVars /\ log' = log /\ invocation' = invocation /\ exit' = exit
        /\ command' = command
    BY <1>4 DEF StartReading, StartLogging, Inspect, Others, everything, commandVars, command
  <2>2. /\ cli' = cli \/ (cli = "start" /\ log = <<>>)
        /\ cli' = "logging" /\ cli # "logging" /\ command = "example"
              => invocation.request.approved
        /\ cli' = "start" => cli = "start"
    BY <1>4 DEF StartReading, StartLogging, Inspect, Others, everything, commandVars, Loads,
       DemoInv, Kept
  <2>3. Kept'
    <3>1. CASE cli' = cli
      BY <2>1, <3>1, SameKept DEF DemoInv
    <3>2. CASE cli = "start" /\ log = <<>>
      <4>1. exit' = "none"
        BY <2>1, <3>2 DEF CommandInv
      <4>2. log' = <<>> /\ invocation'.request = invocation.request
        BY <2>1, <3>2
      <4> QED
        BY <2>1, <2>2, <3>2, <4>1, <4>2 DEF Kept
    <3> QED
      BY <2>2, <3>1, <3>2
  <2> QED
    BY <2>1, <2>3, DemoRests
<1>5. CASE \/ DoctorRaises \/ DoctorOffline \/ RefuseArgument \/ EndReading \/ RefuseExample
           \/ DemoRaises \/ EndDemo \/ EndInspect \/ BreakOff
  <2>1. PICK how : End(how)
    BY <1>5 DEF DoctorRaises, DoctorOffline, RefuseArgument, EndReading, RefuseExample,
       DemoRaises, EndDemo, EndInspect, BreakOff
  <2>2. UNCHANGED allVars
    BY <1>5 DEF DoctorRaises, DoctorOffline, RefuseArgument, EndReading, RefuseExample,
       DemoRaises, EndDemo, EndInspect, BreakOff
  <2>3. /\ log' = log /\ invocation' = invocation /\ cli' = "ended" /\ exit' = how
        /\ command' = command
    BY <2>1 DEF End, command
  <2>4. command \in Demos =>
           /\ how = "success" => Len(log) = Len(Script)
           /\ how = "usage" => log = <<>>
    <3>1. ASSUME command \in Demos
          PROVE  RefuseExample \/ DemoRaises \/ EndDemo \/ BreakOff \/ EndInspect
      BY <1>5, <3>1 DEF DoctorRaises, DoctorOffline, RefuseArgument, EndReading, CommandInv,
         Demos, Live
    <3>2. CASE RefuseExample
      <4>1. log = <<>> /\ how # "success"
        BY <2>3, <3>2 DEF RefuseExample, End, DemoInv, Kept
      <4> QED
        BY <4>1
    <3>3. CASE DemoRaises \/ BreakOff
      <4>1. exit' \in {"failure", "killed"}
        BY <3>3 DEF DemoRaises, BreakOff, End
      <4> QED
        BY <2>3, <4>1
    <3>4. CASE EndDemo
      <4>1. exit' = "success" /\ Len(log) = Len(Script)
        BY <3>4 DEF EndDemo, End
      <4> QED
        BY <2>3, <4>1
    <3>5. CASE EndInspect /\ command \in Demos
      BY <3>5 DEF EndInspect, Inspected, Demos
    <3> QED
      BY <3>1, <3>2, <3>3, <3>4, <3>5
  <2>5. Kept'
    BY <2>3, <2>4 DEF DemoInv, Kept, Script
  <2> QED
    BY <2>2, <2>3, <2>5, DemoRests
<1> QED
  BY <1>1, <1>2, <1>3, <1>4, <1>5 DEF NextCommand, CommandStep
\* The invariant of the demo holds throughout.
LEMMA DemoInvariant ==
  ASSUME OneRead PROVE CommandSpec => [](CommandInv /\ DemoInv)
<1>1. InitCommand => DemoInv
  BY DemoInvInit
<1>2. CommandInv /\ CommandInv' /\ Inspected /\ DemoInv /\ [NextCommand]_everything => DemoInv'
  BY DemoInvNext
<1>3. CommandSpec => [](CommandInv /\ Inspected)
  BY CommandInvariant
<1> QED
  BY <1>1, <1>2, <1>3, PTL DEF CommandSpec

\* A demo that is reported as executed had every value settled, and executed the
\* whole plan; one that is not had not.
LEMMA ReportedDemo ==
  ASSUME CommandInv, DemoInv, command \in Demos, stage = "reported"
  PROVE  /\ report.sent = FALSE
         /\ report.status = "EXECUTED" <=> AllSettled(invocation.request)
         /\ report.status = "EXECUTED" => Len(executed) = Len(plan.actions)
<1>1. DemoGate /\ GatewayInv /\ OrderInv /\ plan \in Plan /\ invocation.request \in Request
  BY PlansAssumption, InvocationsAssumption
     DEF DemoInv, DemoGate, NoRun, GatewayInv, OrderInv, PolicyTypeOK, CommandInv, Invocation
<1>2. StaticDenial(plan) = "none" <=> AllSettled(invocation.request)
  BY <1>1, DemoFitness DEF DemoGate
<1>3. ~Cyclic(plan)
  BY <1>1, DemoFitness DEF DemoGate
<1>4. report.sent = FALSE
      /\ (report.status = "EXECUTED" \/ (report.status = "DENIED" /\ phase = "denied"))
  BY <1>1 DEF DemoGate
<1>5. ASSUME report.status = "EXECUTED"
      PROVE  AllSettled(invocation.request) /\ Len(executed) = Len(plan.actions)
  <2>1. phase = "ordered" /\ Len(executed) = Len(ordered)
    BY <1>1, <1>5 DEF GatewayInv, Reported
  <2>2. StaticDenial(plan) = "none" /\ Len(ordered) = Len(plan.actions)
    BY <1>1, <2>1 DEF OrderInv, Counts, Looped, LoopEnded
  <2> QED
    BY <1>2, <2>1, <2>2
<1>6. ASSUME phase = "denied" PROVE ~AllSettled(invocation.request)
  <2>1. code # "ACTION_CYCLE"
    BY <1>1, <1>3, VerdictOfInv DEF CycleVerdictExact
  <2> QED
    BY <1>1, <1>2, <1>6, <2>1 DEF DemoGate
<1>7. report.status = "DENIED" => report.status # "EXECUTED"
  OBVIOUS
<1> QED
  BY <1>4, <1>5, <1>6, <1>7

\* The log of the demo tells what its gateway reported.
LEMMA LogOfInv == CommandInv /\ DemoInv => DemoLogTruthful
<1> SUFFICES ASSUME CommandInv, DemoInv PROVE DemoLogTruthful
  OBVIOUS
<1>1. DOMAIN log = 1..Len(log) /\ Len(log) \in Nat /\ Len(log) <= Len(Script)
      /\ DOMAIN Script = 1..Len(Script) /\ Len(Script) \in Nat
  <2>1. PICK S : log \in Seq(S)
    BY DEF DemoInv, Logging
  <2> QED
    BY <2>1, ScriptFacts DEF DemoInv, Logging
<1>2. ASSUME NEW i \in DOMAIN log PROVE i \in DOMAIN Script /\ log[i].entry = Script[i]
  BY <1>1 DEF DemoInv, Logging
<1>3. ASSUME NEW i \in DOMAIN log, TellsReport(log[i].entry)
      PROVE  /\ command \in Demos /\ stage = "reported"
             /\ log[i].says = [status |-> report.status, sent |-> report.sent]
  <2>1. stage = "reported" /\ log[i].says = [status |-> report.status, sent |-> report.sent]
    BY <1>2, <1>3 DEF DemoInv, Logging
  <2>2. command \in Demos
    <3>1. log # <<>>
      BY <1>3
    <3> QED
      BY <3>1 DEF DemoInv, Kept
  <2> QED
    BY <2>1, <2>2
<1>4. Logged("CAD_PLAN_EXECUTED") \subseteq Logged("execution_report_v1")
  <2>1. SUFFICES ASSUME NEW i \in DOMAIN log, log[i].entry = "CAD_PLAN_EXECUTED"
                 PROVE  \E k \in DOMAIN log : /\ log[k].entry = "execution_report_v1"
                                              /\ log[k].says = log[i].says
    BY DEF Logged
  <2>2. i - 1 \in DOMAIN Script /\ Script[i - 1] = "execution_report_v1"
    BY <1>2, <2>1, ScriptFacts
  <2>3. i - 1 \in DOMAIN log
    BY <1>1, <2>2
  <2>4. log[i - 1].entry = "execution_report_v1"
    BY <1>2, <2>2, <2>3
  <2>5. log[i - 1].says = log[i].says
    BY <1>3, <2>1, <2>3, <2>4 DEF TellsReport
  <2> QED
    BY <2>3, <2>4, <2>5
<1>5. ASSUME NEW says \in Logged("execution_report_v1")
      PROVE  /\ ~says.sent
             /\ says.status = "EXECUTED" <=> AllSettled(invocation.request)
             /\ says.status = "EXECUTED" => Len(executed) = Len(plan.actions)
  <2>1. PICK i \in DOMAIN log : log[i].entry = "execution_report_v1" /\ says = log[i].says
    BY DEF Logged
  <2>2. command \in Demos /\ stage = "reported"
        /\ says = [status |-> report.status, sent |-> report.sent]
    BY <1>3, <2>1 DEF TellsReport
  <2>3. says.sent = FALSE /\ says.status = report.status
    BY <2>2, ReportedDemo
  <2> QED
    BY <2>2, <2>3, ReportedDemo
<1>6. Kept
  BY DEF DemoInv
<1> QED
  BY <1>4, <1>5, <1>6 DEF DemoLogTruthful, Kept, AllSettled

-----------------------------------------------------------------------------
\* Every variable keeps its type in every layer, and the log follows the script.
THEOREM CommandTyped == ASSUME OneRead PROVE CommandSpec => []CommandTypeOK
<1>1. CommandInv /\ DemoInv /\ ConfigInv => CommandTypeOK
  BY DEF CommandInv, DemoInv, Logging, ConfigInv, CommandTypeOK, RunInv, NoRun
<1> QED
  BY <1>1, DemoInvariant, ConfigInvariant, PTL

\* However the request reads and wherever the demo stops, its log tells what the
\* gateway did: it says EXECUTED exactly if every value was settled.
THEOREM DemoLogIsTruthful == ASSUME OneRead PROVE CommandSpec => []DemoLogTruthful
BY DemoInvariant, LogOfInv, PTL

=============================================================================
