# TLA+ verification of onshape-ai-agent

The program turns engineering tasks into typed CAD plans, refuses the plans that
are not fit to run, runs the rest through a gateway, and offers live, read-only
access to Onshape through an MCP server started as a child process. Two
PowerShell scripts install it into the Codex and Claude hosts of a machine.

This directory holds TLA+ models of the parts that decide something, TLC
configurations that check them on small instances, and theorems that TLAPS
proves for every number of threads and writers, every plan, graph and response,
every file system and every number of runs.
Paths below are relative to the root of the repository; `mcp_stdio.py` stands
for `src/onshape_agent/mcp_stdio.py`, and likewise for its siblings.

    tlc -config McpStdioSafety.cfg MCMcpStdio     # any pair of the table of runs
    tlapm McpStdioProofs.tla                      # all obligations are proved

## 1. The system

| Part | State | Operations | Talks to |
|---|---|---|---|
| MCP session, `mcp_stdio.py` | `_request_lock`, `_next_id`, `_initialized`, `_closed`, `_process` and its pipes, the bounded `_stdout_queue`, the reader thread | `__enter__`, `call_tool`, `close`, `_read_stdout` | the child, by lines on its pipes |
| Policy, `policy.py` | none between calls; indegrees, ready list and order while it sorts | `validate` | called by the gateway |
| CAD gateway, `gateway.py` | a snapshot of the plan, receipts and executed ids of one execution | `execute` | the policy; a transport's `preflight` and `dispatch` |
| Contracts, `contracts.py` | the shapes of plans, receipts, reports and task graphs | validators, `TaskGraph.validate_graph` among them | everything |
| Live transport, `live_transport.py` | the approved scope | `preflight`, `dispatch` | the session's `call_tool` |
| Live service, `live_service.py` | one run: its report, its receipt | `list_documents`, `read_document`, `auth_status`, `_managed_session` | session, gateway, transport, run log |
| Run log, `runlog.py` | artifact, `manifest.json`, `events.jsonl` of a run | `write_artifact`, `create_manifest`, `append_event` | the file system |
| Installer and uninstaller, `scripts/install.ps1`, `scripts/uninstall.ps1` | skill, agents, markers, install state and runtime on disk; the transaction's lists | one run each, with roll back and clean up | the file system, and each other through what they leave there |
| Onshape config, `onshape_config.py` | `config.toml`, shared with the upstream server; a temporary file beside it | `update_config` | the file system; `inspect_local_auth` looks at the same file |
| Orchestrator, `orchestrator.py` | none | `select_graph`, `diagnose` | `TaskGraph` of contracts |
| Doctor, `doctor.py` | its list of checks | `inspect_installation` | reads the installation; the live service for `--live` |
| CLI, demo, examples | the exit status; the demo's run directory | `doctor`, `live ...`, `auth status`, `demo`, `example` | service, gateway, orchestrator, run log |
| Launcher and login scripts, plugin manifests, agent prompts | none | process start; text | - |

What makes each of the modelled parts hard, and what it has to get right:

* **Session.** Threads share one child over one pair of pipes. Answers come
  late, twice, never, or for an id nobody asked for; the reader races the
  callers for the queue; `close()` takes no lock and may fall between any two
  steps of a call; the queue is bounded, and the reader's own sentinels need
  room in it. Exchanges must not overlap, an answer must go to the call that
  asked for it, `network_request_sent` must say whether the request reached
  the child, nothing may be served once the reader gave up, and every operation
  must return.
* **Policy.** The order must respect dependencies that may be repeated, unknown,
  circular or point at the action itself, and must be the same for every
  listing of one plan.
* **Gateway.** The transport is handed the very list that will be dispatched,
  and the caller still holds the plan. No action of an unfit plan may reach the
  transport, each only after what it depends on, and the report must account for
  exactly what was done when the k-th dispatch fails.
* **Live transport.** Approved scope, action type and action parameters may
  disagree; a plan must be refused before its first request, not at its third.
  A request may leave the approved scope by no route, and the receipt must not
  claim a readback that did not happen. A response is any JSON, and several
  searches with limits of depth look through it for errors, signals of a login,
  evidence and ids: they must not contradict each other.
* **Live run.** Session, gateway, transport and log each fail at their own
  moment, and three files are written one after the other. They must not
  contradict each other, whatever fails, and no request may go unrecorded in a
  receipt.
* **Commands.** Each layer below may fail, be interrupted or be killed at its own
  moment. The exit status and the doctor's report are all a user sees of it:
  neither may claim more than the record shows, and each command must end.
* **Onshape config.** The client secret goes through a temporary file; several
  writers and a reader overlap. The configuration may never be missing or half
  written, nor a copy of the secret stay behind.
* **Task graphs.** The loop counts what it visits; repeated edges, edges of a
  node to itself and cycles out of reach must not mislead the count.
* **Install and uninstall.** Each is a transaction over files with a roll back
  that may itself fail and a process that may be killed. No file of the user
  may be gone, a failed script must put back what it found, somebody else's
  files must stay unless `-Force` is given, and shared files must outlive the
  last skill that needs them.

`PROJECT.json` lists these as hazards, each at the line where it bites, with
the properties that watch it; a hazard without one says why.

## 2. Modules

| Module | Stands for | Built on |
|---|---|---|
| `McpStdio` | the session, its reader and its child | |
| `SerialRpc` | what a session promises: abstract specification | |
| `ExecutionPlans` | plans, actions and the static checks of the policy, as operators | |
| `Policy` | `validate`: the checks, then the ordering loop step by step | `ExecutionPlans` |
| `PlanExecution` | what the gateway promises: abstract specification | `ExecutionPlans` |
| `Gateway` | `execute` over any transport; runs the policy inside | `Policy` |
| `Responses` | JSON responses, and what the searches through them find, each with its own limit of depth | |
| `LiveReads` | routes, scope and parameter checks, judgement of a response, receipts, as operators | `Responses` |
| `LiveTransport` | `preflight` and `dispatch` in any order | `LiveReads` |
| `LiveRun` | `LiveService._run` and the run log | `Gateway`, `LiveReads` |
| `Orchestrator` | the task graphs it selects and the routes of a diagnosis, as operators | |
| `TaskGraphs` | `TaskGraph.validate_graph`, step by step | `Orchestrator` |
| `OnshapeConfig` | `update_config` by several writers, beside `inspect_local_auth` | |
| `CommandLine` | every command from start to exit status: doctor, live reads, demo, examples, auth status | `LiveRun`, `Orchestrator`, `OnshapeConfig` |
| `Setup` | both scripts, one file operation at a time | |
| `MC...` | instances for TLC | the module they are named after |
| `McpStdioProofs`, `PolicyProofs`, `TaskGraphsProofs`, `GatewayProofs`, `LiveTransportProofs`, `LiveRunProofs`, `CommandLineProofs`, `SetupProofs` | theorems | the module they are named after; `GatewayProofs` and `TaskGraphsProofs` also on `PolicyProofs`, `LiveRunProofs` on `GatewayProofs`, `CommandLineProofs` on `LiveRunProofs` |

### McpStdio

A thread is in one of the phases of an operation (`pc`, `op`); each phase ends
where the code can be overtaken: before and after taking the lock, between the
check of `_closed` in `_start_process` and the launch, between `write` and
`flush`, at the read of the queue, at the kill, and at the two halves of `close`. What happens between two such points is one action,
with everything it changes; in particular the launch of the child, the assignments
of `_process` and the threads, and their start are one step, `Launch`: a `close()`
before `_process` is assigned leaves what one just before the step leaves, and one
after it what one just after the step leaves. (One corner is lost: such a `close()`
raises a `RuntimeError` when it joins a thread that is not yet started.)

`Launch`, `SendCheck`, `Write`, `Flush`, `TakeResult`, `TakeFailure`,
`TakeTerminal`, `Timeout`, `Kill`, `Close`, `Stop` and `ClosePipes` are the calls of those names or the branches of
`_read_rpc_result`; the actions that end in `Fails` or `Refused` are the error
paths. `ReadLine`, `ReadGivesUp`, `ReadEnd`, `DrainOne` and `PostTerminal` are
`_read_stdout` and the loop that empties a queue for its sentinel, which is
several steps because a caller takes from the queue meanwhile.

A line is its id and how the client will read it, since that is all the
code ever tells apart. The child is modelled by its power to disturb: it emits
an answer to any request it has been sent, any number of times and in any
order, or an unsolicited line, and exits when it likes. It may survive
`_terminate_process`, which swallows its own timeouts. The stderr drain only
discards bytes and is left out. A write completes or fails; that a pipe the
child never reads can block a write without limit is outside the model and is
listed as a hazard.

### Policy, Gateway and their promise

`StaticDenial` is the list of checks of `validate` in their order (the order
decides which code is reported). `CountDependencies`, `Pop` and `Finish` are
the ordering loop: `ready` is the list the code keeps sorted, here the set whose
least element is taken next; a repeated dependency counts twice in `indegree`
and is released twice, as in the code. Ids are numbers, for their order.

`Gateway` continues where the policy stops: `TakeSnapshot`, `PreflightAccepts`,
`PreflightDenies`, `PreflightFails` and `PreflightAlters` (the fingerprint no
longer agrees), the four outcomes of a dispatch, and `Complete`. The transport
is any transport: it returns any receipt of a set, or raises. While it runs, the
caller may turn its plan into any other (`PlanMayChange`), of the same execution
mode unless `ModeMayChange`: the mode is the one field the code reads again.

`PlanExecution` says what all this is for, in terms of sets and without policy,
snapshot or receipts: only a fit plan is performed, an action after its
dependencies, and completion means that all were performed. `Fit` is defined
without reference to the policy's checks, so the refinement also shows that the
policy decides fitness right.

### Responses, LiveReads, LiveTransport and LiveRun

A response is a function from paths (sequences of keys) to values, closed under
prefixes, with "object" and "list" for what has children. Keys and values are
members of the code's own tables plus "other"; numbers and texts are those the
checks tell apart. `StatusNodes`, `HasErrorMarker`, `FailureSignal`,
`SuccessSignal`, `HasItems`, `HasBodyDetails`, `HasBounds`, `HasMasses` and
`DocumentId` are the functions of the code that walk a response. Each is written
as the set of the nodes the walk reaches, with its limit of depth, the keys at which it
turns into a child and the ones at which it stops; nothing is recursive. Where
the code takes the first thing it finds in an order that depends on the
response's own order of keys, the operator is the set of all that it may find.

The operators of `LiveReads` are the checks of `_prepare_action` and of the
response in the order of the code. A parameter is abstracted to its key and to
whether its value is a simple identifier, a limit within or beyond bounds, or a
nested object.

`LiveTransport` lets a user of the transport do what the gateway would and
more: preflight any actions in any scope, dispatch any action. `LiveRun`
instead composes the run the service makes: the steps of `Gateway` over the one
plan `_run` builds, the session opened around it and closed after it, the
exceptions that each may raise, and the log. `Interrupt` is a
`KeyboardInterrupt`, which `except Exception` lets pass but the session's
clean up does not miss; if that clean up raises during a call, its exception takes the
interrupt's place and is recorded like any other (`InterruptReplaced`). `Crash`
stops the process. Each file of the log
is replaced atomically except `events.jsonl`, which is appended to and may be
torn.

### Orchestrator and TaskGraphs

`GraphInit` is a graph just made; `Reject` the two checks on ids, `CountEdges`
the counting, `Visit` one turn of the loop and `Conclude` the comparison after it.
The code visits the node it queued last; `Visit` takes any queued node, so the
verdict is shown not to depend on that. `SelectGraph` gives the graphs of the
orchestrator, which the instance validates among others.

### OnshapeConfig

The file is its form (absent, blank, broken, TOML), whose credentials it has and
whether the other settings are there. A writer reads and renders, creates the
temporary file, fills it, moves it into place and cleans up; each may fail, the
user may interrupt any (`TryFails`, `CleanUpFails`), and `KillWriter` leaves
everything where it is. `TestConfig` and `TestTokens` are the two looks of
`inspect_local_auth`, at two moments; each may fail with an `OSError`, which `_presence` takes
for absence.

### CommandLine

An invocation is the command, whether its argument is acceptable, and what it
finds on disk: the state of every file the doctor checks, or of the request an
example loads. `DoctorOffline`, `StartReading` and `EndReading` are
`inspect_installation` and the live commands around `LiveRun`, whose steps are
taken unchanged (`Read`). `WriteEntry` writes the next of the demo's manifest,
artifacts and events in the order of `run_demo`, and `ExecuteDemo` is `Gateway`,
step by step, with the receipts of `RecordingTransport`, between the plan and
its report. `BreakOff` and `BreakOffRead` are everything that can end a command
before its time. `auth status` runs while the writers of `OnshapeConfig` do.

### Setup

A run of either script is its checks, taken in one step, then a list of steps
`todo` worked through one file operation at a time. Moving a file aside, putting
a file in place, the roll back in reverse order (remove what was created, move
back what was moved), the commit and the clean up are separate actions, with a
failure of each (`StashFails`, `CreateFails`, `RestoreFails`) and `Crash` between
any two. A copy that fails may have left part of itself. A file is who wrote it
and in which run, so that "the same file is back" can be told from "some file is
there". The install state also records the directories of its install.

## 3. Runs

| Run | Instance | Shows |
|---|---|---|
| `mcp_safety` | 2 threads, both may close; queue of 2; every kind of line; 2 calls besides the handshake, 3 lines | `TypeOK`, `OneRequestAtATime`, `AnswersMatch`, `FlagIsTruthful`, `FailClosedAfterOverflow`, `RequestIdsIncrease` |
| `mcp_live` | 2 threads, the one of the `with` statement closes; queue of 1; good, bad and oversized lines; 2 calls, 2 lines | `OperationsReturn`, `CloseCleansUp`, and `SerialRpc` is implemented |
| `mcp_close_race` | as above, either thread may close | violation: `CloseCleansUp` |
| `policy` | every plan of 3 actions with up to 2 dependencies each, among them repeated, unknown and self ones; every graph on 4 actions; every mix of defects in plans of up to 2 actions; the 4 task graphs of the orchestrator, every graph of 3 nodes with up to 4 edges, and small ones with repeated or unknown nodes | `OrderRespectsDependencies`, `PolicyExact` (the cycle verdict exact, the order canonical), `GraphVerdictExact` (so are the verdicts on graphs, and the orchestrator's graphs are valid), `VisitsInOrder`, `ValidationsEnd` |
| `gateway` | chain, fork, cycle, a defect in the last action, a mutating action, the empty plan, in both modes; every receipt | `OnlyFitPlansDispatched`, `DispatchesAccounted` (dependencies first; the report matches), and `PlanExecution` is implemented |
| `gateway_mode` | one read; the plan's mode may change | violation: `LiveCompletion` |
| `live_transport` | 6 scopes, 16 actions fit and unfit; a good response with each of 96 odd entries at each of 12 places around the limits of depth, 33 responses of other shapes, typed exceptions | `RequestsStayInScope`, `PreflightSuffices`, `ReceiptsTruthful`, `NoErrorPasses`, `ErrorsKeepTheirCode`, `LoginUncontradicted`, `DocumentIsTheOneAsked` |
| `live_signals` | the same | violation: `NegativeSignalWins` |
| `commands` | every command; an installation in order and each with one defect; requests in every state, with values settled or not and up to 2 holes; every response and typed error of a live read; 2 writers over 5 configurations | `FilesAgree`, `NoHiddenRequest`, `SuccessIsWhole`; `ExitIsTruthful`, `DoctorTellsTheTruth`, `DemoLogTruthful`; `ConfigWhole`, `WritersLeaveCleanly`, `StatusSeesConfig`; `CommandTypeOK`; and `CommandEnds` |
| `live_untyped` | a live read with an exception of `call_tool` that has no code or flag | violation: `NoHiddenRequest` |
| `setup` | 1 Codex home, 1 Claude directory, 8 initial file systems, 2 runs, 2 errors of a roll back | `NothingLost`, `FailureRestores`, `ForeignUntouched`, `OwnershipHolds` (pairs stay pairs, shared files outlive the last skill), `TypeOK` |
| `setup_shared` | 2 Codex homes, 1 Claude directory, empty disk, 3 runs, nothing fails | violation: `SharedOutlives` |

Every property of a passing run has a mutant in `PROJECT.json`: a definition of
the model changed as a plausible slip in the code would change it (a lock not
tested, an id compared with nothing, a sentinel posted behind old lines, a
dependency counted once, ...), under which TLC finds that property violated.

**Why these bounds are enough.** Two threads are what it takes to interleave:
the code treats all threads alike but for the one that enters. Two calls and the
handshake give a request a predecessor whose answer may still come and a
successor that may take it. A queue of 1 or 2 with up to 3 lines fills, drains
and overflows. Graphs on four nodes hold every shape on which the ordering loop
could differ (chains, diamonds, two separate cycles), and the defects are
checked for one action at a time, so two actions show both an offender that
comes first and one that comes last. Two runs of the scripts give every pair
of install and uninstall, on disks that hold somebody else's files (a marker
alone, too); three are
needed to install twice and then remove. Two errors of a roll back tell the
first failure from the next. The odd entries of a response sit at the root, in a
wrapper, a list, an error and a code, and at seven to ten levels, the depths at
which the searches with their limits of eight part ways. Two writers of the
configuration are what it takes to overlap, and the status command, once,
between any of their steps. A defect of an installation is judged on its own by
the code, so one at a time is enough. What the bounds cannot exclude is excluded
by the proofs of section 4, which have no bounds, for every invariant of these
runs; the bounds remain the whole warrant for liveness alone.

**Deadlock** is checked for the session, the live read and the commands. The others stop when
their work is done, or their bound is reached, and their cfg says so.

**Fairness.** `FairSpec` of `McpStdio` is weak fairness of `Step(t)` for each
thread and of nothing else: a thread inside an operation is scheduled again.
Every wait inside an operation is bounded by the code (the queue's `get` by
`timeout_seconds`, the waits of `_terminate_process` by their own timeouts), except
the lock. Strong fairness is not needed for that, because the instance starts
finitely many calls; with endless rivals the code's lock gives no such promise. Nothing
is asked of the reader or the child, so the property covers a child that hangs
and a reader that never runs. `FairSpec` of `Gateway` and of `Policy` is weak
fairness of their single thread; it takes for granted that the transport's calls return,
which for the transport of this repository is what `mcp_live` shows. `CommandSpec`
is weak fairness of the command's own steps: not of the user, who need not
interrupt it, nor of the writers and the login beside it.

## 4. Proofs

Every invariant that a passing run checks is also a theorem, for all values of
the constants; so are both action properties, and the safety halves of both
refinements. The assumptions on the constants (`ThreadsAssumption`,
`CapacityAssumption`, `LineKindsAssumption`, `PlansAssumption`,
`HomesAssumption`, `BoundsAssumption` and the like) only say what kind of things they are;
nothing is assumed about their size. Where a theorem needs more, the table
names the hypothesis.

| Module | Theorem | States |
|---|---|---|
| `McpStdioProofs` | `TypeCorrect`, `Serialized`, `Correlated`, `Truthful` | `TypeOK`, `OneRequestAtATime`, `AnswersMatch`, `FlagIsTruthful` |
| | `IdsGrow`, `FailClosed` | `RequestIdsIncrease`, `FailClosedAfterOverflow`, of any two successive states |
| | `CleanedUp` | `CloseCleansUp`, if `OneCloser` |
| | `SerialRequests` | every step is a step of `SerialRpc` or a stutter |
| `PolicyProofs` | `ValidationTyped`, `DependenciesFirst`, `VerdictExact` | `PolicyTypeOK`, `OrderRespectsDependencies`, `PolicyExact` |
| `TaskGraphsProofs` | `NodesVisitedInOrder`, `GraphVerdictTrue` | `VisitsInOrder`, `GraphVerdictExact` |
| `GatewayProofs` | `GatewayTyped`, `OnlyFitDispatched`, `EveryDispatchAccounted` | `TypeOK`, `OnlyFitPlansDispatched`, `DispatchesAccounted` |
| | `KeepsPromise` | every step is a step of `PlanExecution` or a stutter |
| | `LiveMeansLive` | `LiveCompletion`, if not `ModeMayChange` |
| `LiveTransportProofs` | `RequestsInScope`, `AcceptedIsDispatched` | `RequestsStayInScope`, `PreflightSuffices` |
| | `ReceiptsTellTheTruth` | `ReceiptsTruthful`, if `FlagsTell` |
| | `NoErrorSlips`, `CodesAreKept`, `LoginsStand`, `RightDocument` | `NoErrorPasses`, `ErrorsKeepTheirCode`, `LoginUncontradicted`, `DocumentIsTheOneAsked` |
| `LiveRunProofs` | `FilesNeverDisagree`, `SuccessStandsOnEvidence`, `ReceiptsAreOnRecord` | `FilesAgree`, `SuccessIsWhole`, `ReturnMeansRecorded`, if `OneRead` |
| | `NoRequestHidden` | `NoHiddenRequest`, if `OneRead` and `RaisedTells` |
| `CommandLineProofs` | `ConfigStaysWhole`, `WritersLeaveNothing`, `StatusSeesWhatIsThere` | `ConfigWhole`, `WritersLeaveCleanly`, `StatusSeesConfig` |
| | `CommandTyped`, `CommandFilesAgree`, `CommandSuccessIsWhole`, `ExitStatusTruthful`, `DemoLogIsTruthful` | `CommandTypeOK`, `FilesAgree`, `SuccessIsWhole`, `ExitIsTruthful`, `DemoLogTruthful`, if `OneRead` |
| | `CommandHidesNoRequest` | `NoHiddenRequest`, if `OneRead` and `RaisedTells` |
| | `DoctorTruthful` | `DoctorTellsTheTruth`, if `OneRead`, `RaisedTruly` and `SessionAsksNoLogin` |
| `SetupProofs` | `SetupTyped`, `NothingIsLost`, `RollBackRestores`, `ForeignFilesSafe`, `PairsStay` | `TypeOK`, `NothingLost`, `FailureRestores`, `ForeignUntouched`, `PairsKept` |
| | `OneHostOwnership` | `OwnershipHolds`, if `OneHostEach` |
| | `RecordedHostsKeepRuntime` | `RecordedOutlive`: what stays true of shared files in any number of directories |

### The hypotheses

* `OneCloser`: only the thread of the `with` statement closes. So it is in
  `live_service.py`, where the session never leaves `_managed_session`. With
  a second closer the statement is false: `mcp_close_race`.
* `~ModeMayChange`: the caller leaves the plan's mode alone during `execute`;
  otherwise `gateway_mode`. `OneRead` says it of `_run`, and that a live plan has
  one action: `_run` makes the plan itself, of one read, and nobody else holds it.
* `FlagsTell`, `RaisedTruly` and `RaisedTells`: an exception of `call_tool` tells
  whether the request had reached the child (`RaisedTells`: at least that it had).
  For the exceptions the session makes itself this is
  `Truthful` of `McpStdioProofs`. For the two that it lets pass it is not so,
  and `live_untyped` shows what follows.
* `SessionAsksNoLogin`: opening or closing the session never raises
  `AUTH_REQUIRED`. `mcp_stdio.py` has this code in one place, for a 401 in the answer
  to a call (line 353); every failure of the handshake's answer becomes
  `TRANSPORT_UNAVAILABLE` in `_initialize`.
* `OneHostEach`: all runs see the same Codex home and the same Claude directory,
  as they do unless `-CodexHome`, `-ClaudeConfigDir` or their variables change between
  runs. With two, `setup_shared` refutes the statement.

### The arguments

None of these statements is inductive by itself; each module has an invariant that is,
a lemma per action (or group of actions that change the same things) that
preserves it, and one that derives the statement from it.

**Session.** `OneRequestAtATime` needs to know *why* two threads are not both
exchanging: of two calls only one holds the lock (`LockOwner`), and the
handshake, which takes no lock, only runs in the opener and only before
`_initialized`, while a call passes its first check only after it (`Roles`).
`AnswersMatch` needs that ids are never used twice: everything written is
below `_next_id`, and the id a thread is about to write is above all that were
written and is in nobody's last result (`Ids`). `FailClosedAfterOverflow` needs
`Overflow`: once the reader has posted an error sentinel, no line remains in the
queue. `IInv` is the conjunction of these parts with `TypeOK` and the two
invariants about results. `CleanedUp` adds `CleanInv`: open pipes of a closed
session have the opener on its way to them. For `SerialRequests`, `IInv` makes
`CurrentRequest`, the request of the one thread that has an exchange open, well
defined; an action of a thread opens, ends or leaves it.

**Policy and graphs.** `Counts`: an indegree is the number of entries in an action's
dependencies that are not yet ordered, an action repeated there counted as often,
and the ready set is those at zero. From this an action is ordered after all it
depends on; when nothing is ready any more, the actions left over are a set
each of which waits for another of them, which is what `Cyclic` says; and in
a plan ordered whole, a cyclic set would have a first member. `Greedy` says
that each action was the least that could come in its place, and the order is
canonical because at the first place where another dependency-safe order
differs, that order's action was ready too. `Pendings` is to `TaskGraphs` what
`Counts` is to `Policy`, for edges between nodes and in any order of visits. That
the orchestrator's graphs stand needs no run of the loop: each is a chain.

**Gateway.** `Staged` (the snapshot is of the ordered plan, and nothing is
dispatched before) and `InOrder` (dispatched, executed and receipts are the
same prefix of the order, but for the last) carry all three statements. For
`KeepsPromise`, `Fit` of the abstract specification is shown to be what the static
checks and the ordering loop together accept.

**Live transport.** The invariant only says that a request, its result and its
receipt belong to an action that the checks did not refuse, in the scope as
it was approved. The work is in lemmas about the searches through a response:
a node within the limits is visited (`CodesAreVisited`, `TopIsVisited`), what is
visited is found (`VisitedIsFound`), and a document's outermost id exists, since
the order of the search (`Precedes`) is a total order of the finitely many nodes
with an id (`PrecedesTotal`, `PrecedesTransitive`, `FirstOfFinite`). A path is of any
length; nothing is proved by induction over a response.

**Live run.** `RunInv` goes along `_run`: what the report and the receipt may be
at each step (`AtStep`), what they owe to the answer (`Answered`, `Summed`, `Judged`), and
that the files are written in order, each from the same receipt (`Filed`). The
gateway inside is `GatewayInv`, taken over as it is.

**Commands.** `ConfigInv`: what a writer has rendered is the *first* file with its
credentials, whoever has replaced it meanwhile, because every replacement
differs from the first in the credentials only. `CommandInv`: `RunInv` holds while
a read is under way and what ends a command looks at its last step only.
For the demo, the entries logged are a prefix of the script and what they say
agrees with the gateway beneath (`DemoActions`, `DemoFitness`: its plan is fit
exactly if all values are settled, whatever the number of holes).

**Setup.** `Tracked`: until the commit, the lists `entries` and `created` and
the files set aside account for every difference between the disk and what the
script found, so that undoing them in any part leaves no file unaccounted for.
`Planned` says why a file is never put over one that was not moved aside: its
path was empty, or the step that moves it comes first. `Respected` keeps foreign
paths out of all four lists. `Progress` ties a host's two files to the steps left,
which is what keeps pairs together through `INSTALLED` and `UNINSTALLED`.

### What the proofs changed in the model

* `EndReading` of `CommandLine` chose the exit status by a `CASE` whose conditions
  overlapped: a receipt that could not be printed could still count as success. It
  is now the chain of tests of `cli.py`.
* The demo's plan numbered its sketch so that with many holes two actions had one
  id; the instance has at most two holes and never showed it.
* A response was any set of paths; without being finite it need not have an
  outermost id. `IsResponse` now says that it is finite and its keys are
  strings, which every JSON value is.
* `WritersLeaveCleanly` now also says that a writer that exits with 0 has replaced the
  file exactly once, which the inductive invariant had to know anyway.
* `Setup` now states what its two bounds are (`BoundsAssumption`).

### Only model-checked

* Liveness: `OperationsReturn`, `PolicyDecides` and its counterparts in
  `ValidationsEnd`, `CommandEnds`, and the fairness in `ImplementsSerialRpc` and
  `ImplementsPlanExecution`. `ENABLED` is out of the prover's reach.
* The five violations: they are counterexamples, which TLC exhibits. Four of
  the five have a theorem beside them that says under which condition the statement
  does hold (`CleanedUp`, `LiveMeansLive`, `NoRequestHidden`, `OneHostOwnership`),
  and for the fifth, `LoginsStand` says which signals do win.
* That the constants of the instances satisfy the hypotheses above: TLC evaluates the
  `ASSUME`s of the modules, and a hypothesis of a single theorem is met by the
  constants of `commands` and `live_transport` by their definition.

## 5. Where the code and its documents disagree

1. `mcp_close_race`: `close()` from another thread, between the check of
   `_closed` and the assignment of `_process` in `_start_process`, finds nothing
   to stop; the child launched after it stays, since every later `close()`
   returns at once. The docstring says that `close` terminates the child.
2. `live_signals`: the answer to a login check `{status: loginfailed,
   authenticated: true}` is taken for a good login: the status at the root is
   exempt from the search for errors, and the table of negative signals lacks
   that word and others (`denied`, `rejected`). So is a negative signal that lies more
   than eight levels deep. The docstring says any negative signal wins.
3. `gateway_mode`: the gateway takes a snapshot of the actions and the scope but
   reads `execution_mode` from the caller's object after each dispatch.
4. `live_untyped`: `json.loads` raises `RecursionError` on deeply nested JSON and
   a plain `ValueError` on very long integers; neither has a code or a
   `network_request_sent`, and the record then says that nothing was sent.
5. `setup_shared`: `installed_paths` names the last install only, so removing the
   second of two installs takes state and runtime from the first.

Three more are in the models, but have no run of their own:

* A child that exits while the handshake is being written makes `__enter__` raise
  `TRANSPORT_FAILED`, where the design document says `TRANSPORT_UNAVAILABLE`
  (`mcp_stdio.py:202`).
* An `__enter__` that fails while it sends `notifications/initialized` raises with
  `network_request_sent` false if that line was not written, although `initialize` was written
  and answered before it (`mcp_stdio.py:230`). `FlagIsTruthful` says of such a failure only
  that `initialize` had been written, whatever the flag says.
* A read that the user interrupts while the session cannot be closed is recorded as
  one that sent nothing, whether or not it had (`live_service.py:218`: the report
  is still `None` there). `NoHiddenRequest` and `DoctorTellsTheTruth` except this case
  by name, `session = "lost"`, and it alone.

## 6. What is not modelled

* The limits on the fields of drawing, visual and artifact records in
  `contracts.py`: each is a bound on one value, and no state depends on it.
* Redaction and hashing in the run log, canonical JSON, argument quoting, option
  parsing and printing: no property here is about their text.
* Where the MCP server keeps its files (`_default_root`): environment variables
  only.
* The runtime's `.venv`, and the parent directories that the installer makes before its
  transaction: what `FailureRestores` calls the disk as it was found is taken after
  them, so one that a failed run leaves behind is not its concern.
* A `Move-Item` that stops half way: each is one step of `Setup`, done or not. A copy
  may stop half way.
* Probing of Node, npx and Python by the installer: it happens before any file is
  touched, and its failure is a run that does not start.
* Two scripts at once: a user starts them by hand; listed as a hazard.
* A write to the child's pipe that blocks: the code does not bound it, so the
  session's liveness is claimed for writes that end, and the hazard is listed.
* Launcher, login and configure scripts, plugin manifests and agent prompts: they
  start processes or are text for a language model.

## 7. Plan

Done, in this order: session with its promise, policy, gateway with its promise,
scripts, transport, live run; then responses, task graphs, configuration and
commands; then the proofs of section 4.

Next:

1. Action properties of `Setup` and `OnshapeConfig` that follow from the inductive
   invariants: a roll back only ever brings the disk closer to what was found, and
   a writer never touches another's copy.
2. That `LiveRun` is a run of `LiveTransport` beneath `Gateway`, as a
   refinement of each: so far both use the operators of `LiveReads`, and only
   `Gateway` is composed as a module.
3. An abstract specification of a setup script (all or nothing, per path), with
   `Setup` shown to implement it.
