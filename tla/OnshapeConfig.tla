--------------------------- MODULE OnshapeConfig ---------------------------
(***************************************************************************)
(* update_config (src/onshape_agent/onshape_config.py), which puts the     *)
(* credentials of an OAuth application into config.toml, run by several    *)
(* writers at once, and inspect_local_auth                                 *)
(* (src/onshape_agent/live_service.py), which tests meanwhile whether      *)
(* config.toml and tokens.json exist.                                      *)
(*                                                                         *)
(* File operations may fail; a writer may be interrupted, which `finally`  *)
(* sees, or killed, which nothing sees.  tokens.json belongs to the MCP    *)
(* server: a login writes it and a logout removes it.                      *)
(***************************************************************************)
EXTENDS Sequences

CONSTANTS
    Writers,  \* the runs of onshape_config; each has credentials of its own
    Configs   \* what config.toml may be at first

\* auth: whose credentials it holds; "other": there is an auth that is no table;
\* rest: the settings that are not update_config's.
Text == [form : {"absent", "blank", "invalid", "torn", "toml"},
         auth : {"none", "table", "other"} \union Writers, rest : {"none", "settings"}]
NoFile == [form |-> "absent", auth |-> "none", rest |-> "none"]
Part   == [NoFile EXCEPT !.form = "torn"]

ASSUME ConfigsAssumption == Configs \subseteq {t \in Text : t.form # "torn"}

VARIABLES
    config,     \* config.toml
    original,   \* history: what it was at first
    saves,      \* history: the writers that replaced it, in order
    at,         \* where each writer is
    failed,     \* an exception is on its way out of the writer
    rendered,   \* rendered: the new text of each writer
    temporary,  \* the files .config.toml.<token>.tmp, by token
    tokens,     \* tokens.json exists
    tested      \* what the tests of inspect_local_auth gave

configVars == <<config, original, saves, at, failed, rendered, temporary, tokens, tested>>

ConfigInit ==
    /\ config \in Configs /\ original = config
    /\ saves = <<>>
    /\ at = [w \in Writers |-> "start"]
    /\ failed = [w \in Writers |-> FALSE]
    /\ rendered = [w \in Writers |-> NoFile]
    /\ temporary = [w \in Writers |-> NoFile]
    /\ tokens \in BOOLEAN
    /\ tested = <<>>

-----------------------------------------------------------------------------
(* update_config.                                                          *)

\* Mutant: the temporary file has one name.
TokenFixed(w) == CHOOSE v \in Writers : TRUE

\* token = uuid4().hex.
Token(w) == w

\* _read_document, then _update_auth: a file that is not there or blank counts
\* as an empty document.
CanUpdate(t) == t.form \in {"absent", "blank"} \/ (t.form = "toml" /\ t.auth # "other")
Updated(t, w) == IF t.form = "toml" THEN [t EXCEPT !.auth = w]
                 ELSE [form |-> "toml", auth |-> w, rest |-> "none"]

GoTo(w, place) == at' = [at EXCEPT ![w] = place]

\* The payload is no object of strings, or the file cannot be read or updated.
RefuseUpdate(w) ==
    /\ at[w] = "start"
    /\ GoTo(w, "exited") /\ failed' = [failed EXCEPT ![w] = TRUE]
    /\ UNCHANGED <<config, saves, rendered, temporary>>

ReadConfig(w) ==
    /\ at[w] = "start" /\ CanUpdate(config)
    /\ rendered' = [rendered EXCEPT ![w] = Updated(config, w)]
    /\ GoTo(w, "opening")
    /\ UNCHANGED <<config, saves, failed, temporary>>

OpenTemporary(w) ==
    /\ at[w] = "opening"
    /\ temporary' = [temporary EXCEPT ![Token(w)] = Part]
    /\ GoTo(w, "writing")
    /\ UNCHANGED <<config, saves, failed, rendered>>

WriteTemporary(w) ==
    /\ at[w] = "writing"
    /\ temporary' = [temporary EXCEPT ![Token(w)] = rendered[w]]
    /\ GoTo(w, "replacing")
    /\ UNCHANGED <<config, saves, failed, rendered>>

\* Mutant: the old file is removed first.
ReplaceConfigTwice(w) ==
    /\ at[w] = "replacing" /\ temporary[Token(w)] # NoFile
    /\ IF config # NoFile
       THEN config' = NoFile /\ UNCHANGED <<saves, temporary, at>>
       ELSE /\ config' = temporary[Token(w)]
            /\ temporary' = [temporary EXCEPT ![Token(w)] = NoFile]
            /\ saves' = Append(saves, w)
            /\ GoTo(w, "cleaning")
    /\ UNCHANGED <<failed, rendered>>

ReplaceConfig(w) ==
    /\ at[w] = "replacing" /\ temporary[Token(w)] # NoFile
    /\ config' = temporary[Token(w)]
    /\ temporary' = [temporary EXCEPT ![Token(w)] = NoFile]
    /\ saves' = Append(saves, w)
    /\ GoTo(w, "cleaning")
    /\ UNCHANGED <<failed, rendered>>

\* Opening, writing or replacing fails, or the user interrupts it.
TryFails(w) ==
    /\ at[w] \in {"opening", "writing", "replacing"}
    /\ GoTo(w, "cleaning") /\ failed' = [failed EXCEPT ![w] = TRUE]
    /\ UNCHANGED <<config, saves, rendered, temporary>>

\* Mutant: an exception is forgotten once the files are removed.
CleanUpQuietly(w) ==
    /\ at[w] = "cleaning"
    /\ temporary' = [temporary EXCEPT ![Token(w)] = NoFile]
    /\ GoTo(w, "exited") /\ failed' = [failed EXCEPT ![w] = FALSE]
    /\ UNCHANGED <<config, saves, rendered>>

\* finally: there never is a .bak file.
CleanUp(w) ==
    /\ at[w] = "cleaning"
    /\ temporary' = [temporary EXCEPT ![Token(w)] = NoFile]
    /\ GoTo(w, "exited")
    /\ UNCHANGED <<config, saves, failed, rendered>>

\* The file cannot be removed, or the user interrupts `finally`, or the way to it.
CleanUpFails(w) ==
    /\ at[w] = "cleaning"
    /\ temporary' \in {temporary, [temporary EXCEPT ![Token(w)] = NoFile]}
    /\ GoTo(w, "abandoned") /\ failed' = [failed EXCEPT ![w] = TRUE]
    /\ UNCHANGED <<config, saves, rendered>>

KillWriter(w) ==
    /\ at[w] \notin {"exited", "abandoned", "killed"}
    /\ GoTo(w, "killed")
    /\ UNCHANGED <<config, saves, failed, rendered, temporary>>

Update(w) ==
    /\ \/ RefuseUpdate(w) \/ ReadConfig(w) \/ OpenTemporary(w) \/ WriteTemporary(w)
       \/ ReplaceConfig(w) \/ TryFails(w) \/ CleanUp(w) \/ CleanUpFails(w) \/ KillWriter(w)
    /\ UNCHANGED <<original, tokens, tested>>

LoginOrLogout ==
    /\ tokens' = ~tokens
    /\ UNCHANGED <<config, original, saves, at, failed, rendered, temporary, tested>>

-----------------------------------------------------------------------------
(* inspect_local_auth: two tests, one after the other.                     *)

\* What Path.is_file may do: answer, or raise an OSError.
Test(exists) == {IF exists THEN "there" ELSE "absent", "failed"}

\* _presence: a file that cannot be looked at counts as none.
Present(outcome) == outcome = "there"

TestConfig ==
    /\ tested = <<>>
    /\ \E outcome \in Test(config # NoFile) : tested' = <<outcome>>
    /\ UNCHANGED <<config, original, saves, at, failed, rendered, temporary, tokens>>

TestTokens ==
    /\ Len(tested) = 1
    /\ \E outcome \in Test(tokens) : tested' = Append(tested, outcome)
    /\ UNCHANGED <<config, original, saves, at, failed, rendered, temporary, tokens>>

LocalStatus(outcomes) ==
    IF Present(outcomes[1]) /\ Present(outcomes[2]) THEN "READY_LOCAL"
    ELSE IF Present(outcomes[1]) \/ Present(outcomes[2]) THEN "AUTH_REQUIRED"
    ELSE "NOT_CONFIGURED"

-----------------------------------------------------------------------------
(* Properties.                                                             *)

ConfigTypeOK ==
    /\ {config, original} \subseteq Text
    /\ at \in [Writers -> {"start", "opening", "writing", "replacing", "cleaning", "exited",
                           "abandoned", "killed"}]
    /\ rendered \in [Writers -> Text] /\ temporary \in [Writers -> Text]
    /\ failed \in [Writers -> BOOLEAN] /\ saves \in Seq(Writers)

\* Wherever writers fail, are interrupted or killed, and however they overlap,
\* config.toml is either the file it was, or that file with the credentials of
\* the writer that replaced it last, and every other setting as it was.
ConfigWhole ==
    config = IF saves = <<>> THEN original ELSE Updated(original, saves[Len(saves)])

\* A writer that exits with 0 has replaced the file, exactly once, and one that
\* exits with an error has not, unless it was its clean up that failed.
SavedBy(w) == {i \in DOMAIN saves : saves[i] = w}
ExitSaysSaved ==
    \A w \in Writers :
        at[w] = "exited" =>
            IF failed[w] THEN SavedBy(w) = {} ELSE \E i \in DOMAIN saves : SavedBy(w) = {i}

\* No copy of the credentials outlives the writer that made it, unless it was
\* killed or its clean up failed; nor does one writer use the copy of another.
NoCopyLeft ==
    \A w \in Writers :
        /\ at[w] \in {"start", "opening", "exited"} => temporary[w] = NoFile
        /\ temporary[w].form = "toml" => temporary[w] = rendered[w]

\* A writer that leaves tells the truth of what it did, and takes its copy along.
WritersLeaveCleanly == ExitSaysSaved /\ NoCopyLeft

\* However writers replace it, a configuration that was there from the first is
\* reported missing only if the file could not be looked at; and whatever fails,
\* what is reported ready is configured.
StatusSeesConfig ==
    Len(tested) = 2 =>
        /\ original # NoFile /\ tested[1] # "failed" =>
              LocalStatus(tested) # "NOT_CONFIGURED" /\ Present(tested[1])
        /\ LocalStatus(tested) = "READY_LOCAL" => config # NoFile
=============================================================================
