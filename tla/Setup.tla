-------------------------------- MODULE Setup --------------------------------
(***************************************************************************)
(* scripts/install.ps1 and scripts/uninstall.ps1: what they do to the      *)
(* files of the hosts they install the skill into, one file operation at a *)
(* time, with an operation failing, the roll back failing and the script   *)
(* being killed at any point.                                              *)
(*                                                                         *)
(* A host directory (a Codex home or a Claude configuration directory) has *)
(* a skill and its ownership marker; a Claude one also has agent files,    *)
(* here one, and their marker.  The repository has the install state and   *)
(* the runtime (.venv).  A file is who wrote it, in which run of a script, *)
(* and, for the install state, the directories it records.  Files are      *)
(* moved aside under names that hold a new GUID: no later script looks at  *)
(* what an earlier one left there, so only this run's are kept.            *)
(*                                                                         *)
(* Scripts run one at a time, and moving a file is atomic.  What makes the *)
(* runtime and the checks fail before any of these files is touched is     *)
(* left out.                                                               *)
(***************************************************************************)
EXTENDS Naturals, Sequences

CONSTANTS
    CodexHomes,   \* the Codex homes the user may name
    ClaudeHomes,  \* the Claude configuration directories the user may name
    NoHome,       \* the host is not a target of the script
    Disks,        \* the file systems the first script may find
    MaxRuns,      \* bound: runs of a script
    MaxErrors     \* bound: failures of one roll back

Homes == CodexHomes \union ClaudeHomes

Skill(h)       == <<h, "skill">>
Marker(h)      == <<h, "marker">>
Agent(h)       == <<h, "agent">>
AgentMarker(h) == <<h, "agent_marker">>
State   == <<"repository", "state">>
Runtime == <<"repository", "runtime">>

Paths == (Homes \X {"skill", "marker"}) \union (ClaudeHomes \X {"agent", "agent_marker"})
            \union {State, Runtime}

File   == [owner : {"us", "them"}, run : Nat, homes : SUBSET Homes]
Absent == [owner |-> "none", run |-> 0, homes |-> {}]
Disk   == [Paths -> File \union {Absent}]

ASSUME HomesAssumption ==
    /\ CodexHomes \intersect ClaudeHomes = {} /\ NoHome \notin Homes
    /\ "repository" \notin Homes
ASSUME DisksAssumption == Disks \subseteq Disk
ASSUME BoundsAssumption == MaxRuns \in Nat /\ MaxErrors \in Nat

VARIABLES
    disk,     \* what is at each path
    saved,    \* the files this run has moved aside, with the path each comes from
    kind,     \* the script that runs or ran last: "none", "install", "uninstall"
    stage,    \* "idle", "working", "undoing" or "cleaning"
    chosen,   \* the host directories it works on
    forced,   \* -Force
    todo,     \* the steps of its try block that are left
    created,  \* TransactionCreated
    entries,  \* TransactionEntries, StagedTargets: the paths moved aside
    errors,   \* the number of rollbackErrors
    outcome,  \* how the last script ended
    run,      \* bound, and the number that stands for the script's GUID
    before    \* history: the disk when the script had made its checks

script == <<kind, stage, chosen, forced>>
vars == <<disk, saved, script, todo, created, entries, errors, outcome, run, before>>

Step == [do : {"stash", "create"}, path : Paths]
Item(p) == [path |-> p, file |-> disk[p]]

Exists(p) == disk[p] # Absent
Owner(p)  == disk[p].owner

Init ==
    /\ disk \in Disks
    /\ saved = {}
    /\ kind = "none" /\ stage = "idle" /\ chosen = {} /\ forced = FALSE
    /\ todo = <<>>
    /\ created = <<>>
    /\ entries = <<>>
    /\ errors = 0
    /\ outcome = "NONE"
    /\ run = 0
    /\ before = disk

-----------------------------------------------------------------------------
(* install.ps1: the checks that precede the transaction, and its steps.    *)

Steps(do, ps) == [i \in DOMAIN ps |-> [do |-> do, path |-> ps[i]]]

HostPaths(h) ==
    IF h = NoHome THEN <<>>
    ELSE IF h \in CodexHomes THEN <<Skill(h), Marker(h)>>
    ELSE <<Skill(h), Marker(h), Agent(h), AgentMarker(h)>>

\* Mutant: a marker is looked at only if there is something at the destination.
HostRefusedOccupied(h) ==
    \/ Exists(Skill(h)) /\ Owner(Marker(h)) # "us"
    \/ h \in ClaudeHomes /\ Exists(Agent(h)) /\ Owner(AgentMarker(h)) # "us"

\* The marker, or something at the destination without a marker of ours.
HostRefused(h) ==
    \/ Owner(Marker(h)) = "them"
    \/ Exists(Skill(h)) /\ Owner(Marker(h)) # "us"
    \/ h \in ClaudeHomes /\ Owner(AgentMarker(h)) = "them"
    \/ h \in ClaudeHomes /\ Exists(Agent(h)) /\ Owner(AgentMarker(h)) # "us"

InstallRefused(homes) == Owner(State) = "them" \/ \E h \in homes : HostRefused(h)

\* Mutant: the old install state is not backed up.
InstallStepsKeepState(codex, claude) ==
    LET ps == HostPaths(codex) \o HostPaths(claude) IN
    Steps("stash", ps) \o Steps("create", ps) \o Steps("create", <<State>>)

InstallSteps(codex, claude) ==
    LET ps == HostPaths(codex) \o HostPaths(claude) IN
    Steps("stash", ps) \o Steps("create", ps)
        \o Steps("stash", <<State>>) \o Steps("create", <<State>>)

\* The runtime is made before the checks, and no part of the transaction.
MakeRuntime(wanted) ==
    disk' = IF wanted /\ ~Exists(Runtime)
            THEN [disk EXCEPT ![Runtime] = [owner |-> "us", run |-> run', homes |-> {}]]
            ELSE disk

Install(codex, claude, force, runtime) ==
    LET homes == {codex, claude} \ {NoHome} IN
    /\ stage = "idle" /\ run < MaxRuns /\ homes # {}
    /\ run' = run + 1 /\ saved' = {}
    /\ MakeRuntime(runtime)
    /\ before' = disk'
    /\ kind' = "install" /\ chosen' = homes /\ forced' = force
    /\ IF InstallRefused(homes) /\ ~force
       THEN outcome' = "REFUSED" /\ UNCHANGED <<stage, todo>>
       ELSE /\ outcome' = "RUNNING"
            /\ stage' = "working"
            /\ todo' = InstallSteps(codex, claude)
    /\ UNCHANGED <<created, entries, errors>>

-----------------------------------------------------------------------------
(* uninstall.ps1: the checks, and the targets it stages.                   *)

UninstallRefuses(h) ==
    \/ Owner(Marker(h)) = "them"
    \/ Exists(Skill(h)) /\ ~Exists(Marker(h))
    \/ h \in ClaudeHomes /\ Owner(AgentMarker(h)) = "them"

\* Mutant: the skill is removed and its marker left.
HostTargetsUnmarked(h) ==
    (IF Exists(Marker(h)) THEN <<Skill(h)>> ELSE <<>>)
    \o IF h \in ClaudeHomes /\ Exists(AgentMarker(h))
       THEN <<Agent(h), AgentMarker(h)>> ELSE <<>>

HostTargets(h) ==
    (IF Exists(Marker(h)) THEN <<Skill(h), Marker(h)>> ELSE <<>>)
    \o IF h \in ClaudeHomes /\ Exists(AgentMarker(h))
       THEN <<Agent(h), AgentMarker(h)>> ELSE <<>>

\* The owned skills that stay: in the named directories and in those recorded.
Remaining(roots, homes) ==
    {h \in (roots \union disk[State].homes) \ homes :
        Exists(Skill(h)) /\ Owner(Marker(h)) = "us"}

SharedTargets(shared, removeRuntime) ==
    (IF removeRuntime /\ ~shared THEN <<Runtime>> ELSE <<>>)
    \o (IF Owner(State) = "us" /\ ~shared THEN <<State>> ELSE <<>>)

\* -CodexHome and -ClaudeConfigDir have a value whichever host is the target.
Uninstall(codex, claude, homes, removeRuntime) ==
    LET shared == Remaining({codex, claude}, homes) # {} IN
    /\ stage = "idle" /\ run < MaxRuns
    /\ run' = run + 1 /\ saved' = {}
    /\ before' = disk
    /\ kind' = "uninstall" /\ chosen' = homes /\ forced' = FALSE
    /\ IF \E h \in homes : UninstallRefuses(h)
       THEN outcome' = "REFUSED" /\ UNCHANGED <<stage, todo>>
       ELSE /\ outcome' = "RUNNING"
            /\ stage' = "working"
            /\ todo' = Steps("stash",
                   (IF codex \in homes THEN HostTargets(codex) ELSE <<>>)
                   \o (IF claude \in homes THEN HostTargets(claude) ELSE <<>>)
                   \o SharedTargets(shared, removeRuntime))
    /\ UNCHANGED <<disk, created, entries, errors>>

-----------------------------------------------------------------------------
(* The try block of either script.                                         *)

NewFile(p) == [owner |-> "us", run |-> run, homes |-> IF p = State THEN chosen ELSE {}]

Working(do) == stage = "working" /\ todo # <<>> /\ Head(todo).do = do
Current == Head(todo).path

Skip ==
    /\ Working("stash") /\ ~Exists(Current)
    /\ todo' = Tail(todo)
    /\ UNCHANGED <<disk, saved, script, created, entries, errors, outcome, run, before>>

Stash ==
    /\ Working("stash") /\ Exists(Current)
    /\ saved' = saved \union {Item(Current)}
    /\ disk' = [disk EXCEPT ![Current] = Absent]
    /\ entries' = Append(entries, Current)
    /\ todo' = Tail(todo)
    /\ UNCHANGED <<script, created, errors, outcome, run, before>>

Create ==
    /\ Working("create")
    /\ created' = Append(created, Current)
    /\ disk' = [disk EXCEPT ![Current] = NewFile(Current)]
    /\ todo' = Tail(todo)
    /\ UNCHANGED <<saved, script, entries, errors, outcome, run, before>>

StashFails ==
    /\ Working("stash") /\ Exists(Current)
    /\ stage' = "undoing"
    /\ UNCHANGED <<disk, saved, kind, chosen, forced, todo, created, entries, errors,
                   outcome, run, before>>

\* Mutant: what is being created is recorded only once it is there.
CreateFailsUnrecorded ==
    /\ Working("create")
    /\ disk' \in {disk, [disk EXCEPT ![Current] = NewFile(Current)]}
    /\ stage' = "undoing"
    /\ UNCHANGED <<saved, kind, chosen, forced, todo, created, entries, errors, outcome,
                   run, before>>

\* The copy fails before or after it has put something at the path.
CreateFails ==
    /\ Working("create")
    /\ created' = Append(created, Current)
    /\ disk' \in {disk, [disk EXCEPT ![Current] = NewFile(Current)]}
    /\ stage' = "undoing"
    /\ UNCHANGED <<saved, kind, chosen, forced, todo, entries, errors, outcome, run,
                   before>>

Commit ==
    /\ stage = "working" /\ todo = <<>>
    /\ stage' = "cleaning"
    /\ UNCHANGED <<disk, saved, kind, chosen, forced, todo, created, entries, errors,
                   outcome, run, before>>

-----------------------------------------------------------------------------
(* Roll back: Invoke-TransactionRollback and Restore-StagedTargets.        *)

Last(s)  == s[Len(s)]
Front(s) == SubSeq(s, 1, Len(s) - 1)

Undo == stage = "undoing"

RemoveCreated ==
    /\ Undo /\ created # <<>>
    /\ created' = Front(created)
    /\ \/ disk' = [disk EXCEPT ![Last(created)] = Absent] /\ UNCHANGED errors
       \/ errors < MaxErrors /\ errors' = errors + 1 /\ UNCHANGED disk
    /\ UNCHANGED <<saved, script, todo, entries, outcome, run, before>>

Restore ==
    /\ Undo /\ created = <<>> /\ entries # <<>>
    /\ \E s \in saved :
          /\ s.path = Last(entries)
          /\ disk' = [disk EXCEPT ![s.path] = s.file]
          /\ saved' = saved \ {s}
    /\ entries' = Front(entries)
    /\ UNCHANGED <<script, todo, created, errors, outcome, run, before>>

\* Removing what is in the way fails, or moving the file back does.
RestoreFails ==
    /\ Undo /\ created = <<>> /\ entries # <<>> /\ errors < MaxErrors
    /\ disk' \in {disk, [disk EXCEPT ![Last(entries)] = Absent]}
    /\ errors' = errors + 1
    /\ entries' = Front(entries)
    /\ UNCHANGED <<saved, script, todo, created, outcome, run, before>>

\* Mutant: the roll back is over once the created files are gone.
UndoneEarly ==
    /\ Undo /\ created = <<>>
    /\ stage' = "idle" /\ todo' = <<>> /\ errors' = 0
    /\ outcome' = IF errors > 0 THEN "ROLLBACK_FAILED" ELSE "FAILED"
    /\ UNCHANGED <<disk, saved, kind, chosen, forced, created, entries, run, before>>

Undone ==
    /\ Undo /\ created = <<>> /\ entries = <<>>
    /\ stage' = "idle" /\ todo' = <<>> /\ errors' = 0
    /\ outcome' = IF errors > 0 THEN "ROLLBACK_FAILED" ELSE "FAILED"
    /\ UNCHANGED <<disk, saved, kind, chosen, forced, created, entries, run, before>>

-----------------------------------------------------------------------------
(* After the commit: the files moved aside are deleted, or left with a     *)
(* warning.                                                                *)

Discard ==
    /\ stage = "cleaning" /\ entries # <<>>
    /\ entries' = Tail(entries)
    /\ saved' \in {saved, {s \in saved : s.path # Head(entries)}}
    /\ UNCHANGED <<disk, script, todo, created, errors, outcome, run, before>>

Cleaned ==
    /\ stage = "cleaning" /\ entries = <<>>
    /\ stage' = "idle" /\ created' = <<>>
    /\ outcome' = IF kind = "install" THEN "INSTALLED" ELSE "UNINSTALLED"
    /\ UNCHANGED <<disk, saved, kind, chosen, forced, todo, entries, errors, run, before>>

\* The process is killed or the machine stops: only the files are left.
Crash ==
    /\ stage # "idle"
    /\ stage' = "idle" /\ todo' = <<>> /\ created' = <<>> /\ entries' = <<>>
    /\ errors' = 0
    /\ outcome' = IF stage = "cleaning" THEN "CRASHED_LATE" ELSE "CRASHED"
    /\ UNCHANGED <<disk, saved, kind, chosen, forced, run, before>>

-----------------------------------------------------------------------------
Start ==
    \/ \E codex \in CodexHomes \union {NoHome}, claude \in ClaudeHomes \union {NoHome},
          force, runtime \in BOOLEAN : Install(codex, claude, force, runtime)
    \/ \E codex \in CodexHomes, claude \in ClaudeHomes, removeRuntime \in BOOLEAN :
          \E homes \in {{codex}, {claude}, {codex, claude}} :
              Uninstall(codex, claude, homes, removeRuntime)

Work == Skip \/ Stash \/ Create \/ StashFails \/ CreateFails \/ Commit
RollBack == RemoveCreated \/ Restore \/ RestoreFails \/ Undone
CleanUp == Discard \/ Cleaned

Next == Start \/ Work \/ RollBack \/ CleanUp \/ Crash

Spec == Init /\ [][Next]_vars

-----------------------------------------------------------------------------
(* Properties.                                                             *)

Outcomes == {"NONE", "REFUSED", "RUNNING", "INSTALLED", "UNINSTALLED", "FAILED",
             "ROLLBACK_FAILED", "CRASHED", "CRASHED_LATE"}

\* Every variable has its type, and a script leaves no work behind when it ends.
TypeOK ==
    /\ disk \in Disk /\ before \in Disk
    /\ saved \subseteq [path : Paths, file : File]
    /\ kind \in {"none", "install", "uninstall"}
    /\ stage \in {"idle", "working", "undoing", "cleaning"}
    /\ chosen \subseteq Homes
    /\ forced \in BOOLEAN /\ errors \in 0..MaxErrors
    /\ todo \in Seq(Step)
    /\ created \in Seq(Paths) /\ entries \in Seq(Paths)
    /\ outcome \in Outcomes
    /\ run \in Nat
    /\ stage = "idle" => todo = <<>> /\ created = <<>> /\ entries = <<>> /\ errors = 0

\* Until a script has done all its work, every file it found is where it was or
\* moved aside under the name of this run: after a step, a failure, a roll back
\* that fails half way, or a kill between any two file operations.
NothingLost ==
    stage # "cleaning" /\ outcome \in {"RUNNING", "FAILED", "ROLLBACK_FAILED", "CRASHED"} =>
        \A p \in Paths : \/ before[p] \in {Absent, disk[p]}
                         \/ [path |-> p, file |-> before[p]] \in saved

\* A script that reports a failure and no roll back failure has put everything
\* back, and has left nothing of its own, not even in the files moved aside.
FailureRestores ==
    outcome \in {"FAILED", "REFUSED"} => disk = before /\ saved = {}

\* There is a destination, or a marker for it, and no marker of ours.
NotOurs(destination, marker) ==
    before[marker].owner # "us" /\ {before[destination], before[marker]} # {Absent}

\* Without -Force neither script ever touches a host's skill or agents that do not
\* carry this repository's marker, nor somebody else's marker, with or without the
\* skill or the agents it is for, nor a foreign install state.
ForeignUntouched ==
    ~forced =>
        /\ \A h \in Homes : NotOurs(Skill(h), Marker(h)) =>
              disk[Skill(h)] = before[Skill(h)] /\ disk[Marker(h)] = before[Marker(h)]
        /\ \A h \in ClaudeHomes : NotOurs(Agent(h), AgentMarker(h)) =>
              disk[Agent(h)] = before[Agent(h)] /\ disk[AgentMarker(h)] = before[AgentMarker(h)]
        /\ before[State].owner = "them" => disk[State] = before[State]

\* Skills and markers of ours come in pairs.
Paired(d) ==
    \A h \in Homes : d[Skill(h)].owner = "us" <=> d[Marker(h)].owner = "us"

\* A script that runs to its end leaves our skills and our markers in pairs if it
\* found them so, and so does one that fails and rolls back without an error: no
\* skill is left that the next script would take for somebody else's.
PairsKept ==
    outcome \in {"INSTALLED", "UNINSTALLED", "FAILED", "REFUSED"} /\ Paired(before) => Paired(disk)

Owned(d, h) == d[Skill(h)].owner = "us" /\ d[Marker(h)].owner = "us"

\* As long as a skill of ours is installed in any host directory, uninstalling
\* the others leaves the install state and the runtime it starts from.
SharedOutlives ==
    outcome = "UNINSTALLED" /\ (\E h \in Homes : Owned(disk, h)) =>
        disk[State] = before[State] /\ disk[Runtime] = before[Runtime]

\* What a finished script leaves can be used and removed by the next one: skills
\* with their markers, and what they share for as long as one of them is left.
OwnershipHolds == PairsKept /\ SharedOutlives
=============================================================================
