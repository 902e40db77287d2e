--------------------------- MODULE MCCommandLine ---------------------------
(* Instances of CommandLine for TLC. *)
EXTENDS CommandLine, MCLiveRun

CONSTANTS w1, w2   \* model values: two writers of the configuration

MCWriters == {w1, w2}

MCConfigs == {NoFile,
              [form |-> "blank", auth |-> "none", rest |-> "none"],
              [form |-> "invalid", auth |-> "none", rest |-> "none"],
              [form |-> "toml", auth |-> "table", rest |-> "settings"],
              [form |-> "toml", auth |-> "other", rest |-> "settings"]}

\* An installation in order, and every one with a single defect.
Sound == [python_version |-> TRUE, package_import |-> TRUE, output_directory |-> TRUE,
          codex_manifest |-> "object", claude_manifest |-> "object", shared_skill |-> "text",
          simple_bracket_request |-> "object"]
Flaws ==
    {[Sound EXCEPT ![f] = state] :
        f \in {"codex_manifest", "claude_manifest", "shared_skill", "simple_bracket_request"},
        state \in FileStates}
    \union {[Sound EXCEPT ![c] = FALSE] :
                c \in {"python_version", "package_import", "output_directory"}}

\* Requests in any state, and usable ones with any values.
Plain == [file |-> "object", named |-> TRUE, approved |-> TRUE, usable |-> TRUE,
          sketch |-> "settled", extrude |-> "settled", holes |-> <<>>]
Holes == {<<>>, <<"settled">>, <<"settled", "settled">>, <<"settled", "unresolved">>}
Defective == [file : FileStates, named : BOOLEAN, approved : BOOLEAN, usable : {FALSE},
              sketch : {"settled"}, extrude : {"settled"}, holes : {<<>>}]
Briefs == [file : {"object"}, named : {TRUE}, approved : {TRUE}, usable : {TRUE},
           sketch : Values, extrude : {"settled", "unapproved"}, holes : Holes]

Given(c, a, i, r) == [command |-> c, argument |-> a, installation |-> i, request |-> r]
MCInvocations ==
    {Given(c, TRUE, i, Plain) : c \in {"doctor", "doctor_live"}, i \in {Sound} \union Flaws}
    \union {Given(c, a, Sound, Plain) : c \in {"list_documents", "read_document"}, a \in BOOLEAN}
    \union {Given("example", a, Sound, r) : a \in BOOLEAN, r \in Defective}
    \union {Given("example", TRUE, Sound, r) : r \in Briefs}
    \union {Given(c, TRUE, Sound, Plain) : c \in {"demo", "auth_status"}}

CommandPlans == MCPlans \union {DemoPlan(r) : r \in Briefs}
CommandIds == {1, 2, 3, 4}
=============================================================================
