------------------------------ MODULE McpStdio ------------------------------
(***************************************************************************)
(* One McpStdioSession (src/onshape_agent/mcp_stdio.py): the threads that  *)
(* enter it, call tools through it and close it, its stdout reader thread, *)
(* the bounded queue between them, and the MCP child process.              *)
(*                                                                         *)
(* A JSON-RPC line is a record [id, kind]: the id it carries (0 when it    *)
(* carries none) and how the client reads it.  "ok" is a well-formed       *)
(* result, "error" a JSON-RPC error or a tool result with isError, "bad"   *)
(* anything the client calls INVALID_RESPONSE, "big" a line over           *)
(* max_response_bytes, and "raises" JSON on which json.loads raises        *)
(* something other than JSONDecodeError.  The reader's sentinels _EOF,     *)
(* _OVERSIZED and _QUEUE_FULL are lines of the kinds in Sentinels.         *)
(*                                                                         *)
(* The child is external and unreliable: it answers any request it was     *)
(* sent, late, twice, out of order or never, emits unsolicited lines,      *)
(* exits at any time and may survive being killed.                         *)
(***************************************************************************)
EXTENDS Naturals, Sequences, FiniteSets

CONSTANTS
    Threads,    \* the client threads that share the session
    Opener,     \* the thread that runs the `with` statement
    Closers,    \* the threads that may call close() themselves
    NoThread,   \* the owner of a free lock
    Capacity,   \* max_queue_size
    LineKinds,  \* the kinds of line the child may emit
    MaxCalls,   \* bound: calls started
    MaxLines    \* bound: lines the child emits

Sentinels == {"eof", "oversized", "overflow"}

ASSUME ThreadsAssumption == 
    Opener \in Threads /\ Closers \subseteq Threads /\ NoThread \notin Threads
ASSUME CapacityAssumption == Capacity \in Nat \ {0}
ASSUME LineKindsAssumption ==
    LineKinds \subseteq {"ok", "error", "bad", "big", "raises"}

VARIABLES
    pc,          \* [Threads -> Phases]: where each thread is
    op,          \* [Threads -> Ops]: the operation it is in
    req,         \* [Threads -> Nat]: the id of its request, 0 for none
    result,      \* [Threads -> Results]: what its last operation returned
    lock,        \* _request_lock: its holder, or NoThread
    nextId,      \* _next_id
    initialized, \* _initialized
    closed,      \* _closed
    pipesOpen,   \* the parent's ends of stdin and stdout are open
    queue,       \* _stdout_queue
    reader,      \* the stdout thread: "none", "reading", "draining", "done"
    terminal,    \* the sentinel the reader will post, "eof" unless it failed
    child,       \* the child process: "none", "running", "exited"
    pipe,        \* stdout lines the reader has not read yet
    written,     \* the ids of the requests written to the child's stdin
    served,      \* history: the ids whose operation returned a result
    calls,       \* bound: calls started
    emitted      \* bound: lines emitted

client  == <<pc, op, req, result, lock, nextId, initialized, closed>>
process == <<child, pipe, emitted>>
status  == <<initialized, closed, pipesOpen>>
stdoutVars == <<queue, reader, terminal>>
history == <<written, served, calls>>
vars == <<pc, op, req, result, lock, nextId, initialized, closed, pipesOpen,
          queue, reader, terminal, child, pipe, written, served, calls, emitted>>

Phases == {"idle", "launch", "popen", "await_lock", "send", "write", "flush", "read",
           "kill", "close", "stop", "close_pipes"}
Ops    == {"none", "enter", "notify", "call", "close"}
\* A tool result with isError gets one of the last four from the HTTP status that
\* onshape-mcp writes at the start of its text.
ErrorCodes == {"MCP_ERROR", "AUTH_REQUIRED", "SCOPE_DENIED", "NOT_FOUND", "RATE_LIMITED"}
Codes  == {"NONE", "OK", "TRANSPORT_FAILED", "TRANSPORT_UNAVAILABLE",
           "TRANSPORT_TIMEOUT", "RESPONSE_TOO_LARGE", "RESPONSE_QUEUE_FULL",
           "INVALID_REQUEST", "INVALID_RESPONSE", "EXCEPTION"} \union ErrorCodes
Line    == [id : Nat, kind : LineKinds \union Sentinels]
Results == [op : Ops, id : Nat, code : Codes, sent : BOOLEAN, answer : Nat]

NoResult == [op |-> "none", id |-> 0, code |-> "NONE", sent |-> FALSE, answer |-> 0]
Refusal(operation, code) ==
    [op |-> operation, id |-> 0, code |-> code, sent |-> FALSE, answer |-> 0]
Sentinel(kind) == [id |-> 0, kind |-> kind]

Init ==
    /\ pc = [t \in Threads |-> "idle"]
    /\ op = [t \in Threads |-> "none"]
    /\ req = [t \in Threads |-> 0]
    /\ result = [t \in Threads |-> NoResult]
    /\ lock = NoThread
    /\ nextId = 1
    /\ initialized = FALSE
    /\ closed = FALSE
    /\ pipesOpen = FALSE
    /\ queue = <<>>
    /\ reader = "none"
    /\ terminal = "eof"
    /\ child = "none"
    /\ pipe = <<>>
    /\ written = {}
    /\ served = {}
    /\ calls = 0
    /\ emitted = 0

-----------------------------------------------------------------------------
(* What a thread does when its operation ends.                             *)

Goto(t, phase) == pc' = [pc EXCEPT ![t] = phase]

Report(t, code, sent, answer) ==
    result' = [result EXCEPT ![t] =
        [op |-> op[t], id |-> req[t], code |-> code, sent |-> sent, answer |-> answer]]

\* The exception leaves `with self._request_lock`; __enter__ closes the session.
Leave(t) ==
    /\ Goto(t, IF op[t] = "call" THEN "idle" ELSE "close")
    /\ lock' = IF op[t] = "call" THEN NoThread ELSE lock

Fail(t, code, sent) == Report(t, code, sent, 0) /\ Leave(t)

\* _initialize turns every McpTransportError of the first read into one code.
ReadCode(t, code) ==
    IF op[t] = "enter" /\ code # "EXCEPTION" THEN "TRANSPORT_UNAVAILABLE" ELSE code

\* Mutant: _allocate_id forgets to advance _next_id.
AllocateSameId(t) ==
    /\ req' = [req EXCEPT ![t] = nextId]
    /\ UNCHANGED nextId

AllocateId(t) ==
    /\ req' = [req EXCEPT ![t] = nextId]
    /\ nextId' = nextId + 1

-----------------------------------------------------------------------------
(* __enter__: launch the child, then the initialize handshake.             *)

Enter ==
    /\ pc[Opener] = "idle" /\ ~closed /\ child = "none"
    /\ Goto(Opener, "launch")
    /\ op' = [op EXCEPT ![Opener] = "enter"]
    /\ req' = [req EXCEPT ![Opener] = 0]
    /\ UNCHANGED <<result, lock, nextId, status, stdoutVars, process, history>>

EnterRefused ==
    /\ pc[Opener] = "idle" /\ (closed \/ child # "none")
    /\ result' = [result EXCEPT ![Opener] = Refusal("enter", "TRANSPORT_FAILED")]
    /\ UNCHANGED <<pc, op, req, lock, nextId, status, stdoutVars, process,
                   history>>

\* _start_process looks at _closed once more before it starts the child.
LaunchCheck ==
    /\ pc[Opener] = "launch"
    /\ IF closed
       THEN Fail(Opener, "TRANSPORT_FAILED", FALSE)
       ELSE Goto(Opener, "popen") /\ UNCHANGED <<result, lock>>
    /\ UNCHANGED <<op, req, nextId, status, stdoutVars, process, history>>

\* Mutant: _initialized is set before the handshake.
LaunchInitialized ==
    /\ pc[Opener] = "popen"
    /\ child' = "running"
    /\ initialized' = TRUE
    /\ pipesOpen' = TRUE
    /\ reader' = "reading"
    /\ AllocateId(Opener)
    /\ Goto(Opener, "send")
    /\ UNCHANGED <<op, result, lock, closed, queue, terminal, pipe, emitted,
                   history>>

Launch ==
    /\ pc[Opener] = "popen"
    /\ child' = "running"
    /\ pipesOpen' = TRUE
    /\ reader' = "reading"
    /\ AllocateId(Opener)
    /\ Goto(Opener, "send")
    /\ UNCHANGED <<op, result, lock, initialized, closed, queue, terminal, pipe,
                   emitted, history>>

LaunchFails ==
    /\ pc[Opener] = "popen"
    /\ Fail(Opener, "TRANSPORT_UNAVAILABLE", FALSE)
    /\ UNCHANGED <<op, req, nextId, status, stdoutVars, process, history>>

-----------------------------------------------------------------------------
(* call_tool.                                                              *)

StartCall(t) ==
    /\ pc[t] = "idle" /\ initialized /\ ~closed
    /\ calls < MaxCalls
    /\ calls' = calls + 1
    /\ op' = [op EXCEPT ![t] = "call"]
    /\ req' = [req EXCEPT ![t] = 0]
    /\ Goto(t, "await_lock")
    /\ UNCHANGED <<result, lock, nextId, status, stdoutVars, process, written,
                   served>>

\* The session is not open, or the name or the arguments are not of their type.
CallRefused(t) ==
    /\ pc[t] = "idle"
    /\ LET code == IF initialized /\ ~closed THEN "INVALID_REQUEST" ELSE "TRANSPORT_FAILED"
       IN  result' = [result EXCEPT ![t] = Refusal("call", code)]
    /\ UNCHANGED <<pc, op, req, lock, nextId, status, stdoutVars, process,
                   history>>

\* Mutant: call_tool without the request lock.
LockIgnored == TRUE

LockFree == lock = NoThread

AcquireLock(t) ==
    /\ pc[t] = "await_lock" /\ LockFree
    /\ lock' = t
    /\ AllocateId(t)
    /\ Goto(t, "send")
    /\ UNCHANGED <<op, result, status, stdoutVars, process, history>>

-----------------------------------------------------------------------------
(* _send: check the session, encode, write, flush.                         *)

SendCheck(t) ==
    /\ pc[t] = "send" /\ ~closed /\ child = "running"
    /\ Goto(t, "write")
    /\ UNCHANGED <<op, req, result, lock, nextId, status, stdoutVars, process,
                   history>>

SendRefused(t) ==
    /\ pc[t] = "send" /\ (closed \/ child = "exited")
    /\ Fail(t, "TRANSPORT_FAILED", FALSE)
    /\ UNCHANGED <<op, req, nextId, status, stdoutVars, process, history>>

\* The caller's arguments do not encode as JSON.
EncodeFails(t) ==
    /\ pc[t] = "send" /\ op[t] = "call" /\ ~closed /\ child = "running"
    /\ Fail(t, "INVALID_REQUEST", FALSE)
    /\ UNCHANGED <<op, req, nextId, status, stdoutVars, process, history>>

Write(t) ==
    /\ pc[t] = "write" /\ pipesOpen /\ child = "running"
    /\ written' = IF op[t] = "notify" THEN written ELSE written \union {req[t]}
    /\ Goto(t, "flush")
    /\ UNCHANGED <<op, req, result, lock, nextId, status, stdoutVars, process,
                   served, calls>>

\* The child has gone, or close() shut the pipe after the check.
WriteFails(t) ==
    /\ pc[t] = "write" /\ (~pipesOpen \/ child = "exited")
    /\ Fail(t, "TRANSPORT_FAILED", FALSE)
    /\ UNCHANGED <<op, req, nextId, status, stdoutVars, process, history>>

Flush(t) ==
    /\ pc[t] = "flush" /\ op[t] # "notify" /\ pipesOpen
    /\ Goto(t, "read")
    /\ UNCHANGED <<op, req, result, lock, nextId, status, stdoutVars, process,
                   history>>

\* The notification ends the handshake: __enter__ returns the session.
FlushNotification(t) ==
    /\ pc[t] = "flush" /\ op[t] = "notify" /\ pipesOpen
    /\ initialized' = TRUE
    /\ Report(t, "OK", TRUE, req[t])
    /\ Goto(t, "idle")
    /\ UNCHANGED <<op, req, lock, nextId, closed, pipesOpen, stdoutVars,
                   process, history>>

\* Mutant: _send forgets that the write succeeded.
FlushFailsUnsent(t) ==
    /\ pc[t] = "flush" /\ ~pipesOpen
    /\ Fail(t, "TRANSPORT_FAILED", FALSE)
    /\ UNCHANGED <<op, req, nextId, status, stdoutVars, process, history>>

\* flush raises on a stream that close() shut after the write: wrote is True.
FlushFails(t) ==
    /\ pc[t] = "flush" /\ ~pipesOpen
    /\ Fail(t, "TRANSPORT_FAILED", TRUE)
    /\ UNCHANGED <<op, req, nextId, status, stdoutVars, process, history>>

-----------------------------------------------------------------------------
(* _read_rpc_result and _decode_tool_result.                               *)

\* Mutant: the response id is not compared.
IsAnyAnswer(line, t) == line.kind \in {"ok", "error"}

IsAnswer(line, t) == line.kind \in {"ok", "error"} /\ line.id = req[t]

TakeResult(t) ==
    /\ pc[t] = "read" /\ queue # <<>>
    /\ IsAnswer(Head(queue), t) /\ Head(queue).kind = "ok"
    /\ queue' = Tail(queue)
    /\ served' = served \union {req[t]}
    /\ IF op[t] = "enter"
       THEN /\ op' = [op EXCEPT ![t] = "notify"]
            /\ Goto(t, "send")
            /\ UNCHANGED <<result, lock>>
       ELSE /\ Report(t, "OK", TRUE, Head(queue).id)
            /\ Leave(t)
            /\ UNCHANGED op
    /\ UNCHANGED <<req, nextId, status, reader, terminal, process, written,
                   calls>>

\* _EOF, malformed, unsolicited or mismatched lines and errors end the call and
\* leave the child running.
LineCodes(line, t) ==
    CASE line.kind = "eof"    -> {"TRANSPORT_FAILED"}
      [] line.kind = "raises" -> {"EXCEPTION"}
      [] line.kind = "error" /\ IsAnswer(line, t) -> ErrorCodes
      [] OTHER -> {"INVALID_RESPONSE"}

TakeFailure(t) ==
    /\ pc[t] = "read" /\ queue # <<>>
    /\ Head(queue).kind \notin {"oversized", "overflow"}
    /\ ~(IsAnswer(Head(queue), t) /\ Head(queue).kind = "ok")
    /\ queue' = Tail(queue)
    /\ \E code \in LineCodes(Head(queue), t) :
          Fail(t, ReadCode(t, code), code # "EXCEPTION")
    /\ UNCHANGED <<op, req, nextId, status, reader, terminal, process, history>>

\* _OVERSIZED, _QUEUE_FULL and a timeout also kill the child before raising.
TakeTerminal(t) ==
    /\ pc[t] = "read" /\ queue # <<>>
    /\ Head(queue).kind \in {"oversized", "overflow"}
    /\ queue' = Tail(queue)
    /\ Report(t, ReadCode(t, IF Head(queue).kind = "oversized" THEN "RESPONSE_TOO_LARGE"
                                                       ELSE "RESPONSE_QUEUE_FULL"), TRUE, 0)
    /\ Goto(t, "kill")
    /\ UNCHANGED <<op, req, lock, nextId, status, reader, terminal, process,
                   history>>

\* Mutant: an empty queue is waited on again, with no deadline for the whole.
TimeoutRetried(t) == pc[t] = "read" /\ queue = <<>> /\ UNCHANGED vars

Timeout(t) ==
    /\ pc[t] = "read" /\ queue = <<>>
    /\ Report(t, ReadCode(t, "TRANSPORT_TIMEOUT"), TRUE, 0)
    /\ Goto(t, "kill")
    /\ UNCHANGED <<op, req, lock, nextId, status, stdoutVars, process, history>>

\* _terminate_process swallows its own timeouts, so the child may survive it.
Terminate == child' \in (IF child = "running" THEN {"running", "exited"} ELSE {child})

Kill(t) ==
    /\ pc[t] = "kill"
    /\ Terminate
    /\ Leave(t)
    /\ UNCHANGED <<op, req, result, nextId, status, stdoutVars, pipe, emitted,
                   history>>

-----------------------------------------------------------------------------
(* close: called by any thread, and by __enter__ when it fails.            *)

StartClose(t) ==
    /\ pc[t] = "idle" /\ t \in Closers
    /\ op' = [op EXCEPT ![t] = "close"]
    /\ req' = [req EXCEPT ![t] = 0]
    /\ Goto(t, "close")
    /\ UNCHANGED <<result, lock, nextId, status, stdoutVars, process, history>>

\* Mutant: close() has nothing to do for a child that exited.
CloseDeadChild(t) ==
    /\ pc[t] = "close"
    /\ closed' = TRUE
    /\ Goto(t, IF closed \/ child # "running" THEN "idle" ELSE "stop")
    /\ UNCHANGED <<op, req, result, lock, nextId, initialized, pipesOpen,
                   stdoutVars, process, history>>

Close(t) ==
    /\ pc[t] = "close"
    /\ closed' = TRUE
    /\ Goto(t, IF closed \/ child = "none" THEN "idle" ELSE "stop")
    /\ UNCHANGED <<op, req, result, lock, nextId, initialized, pipesOpen,
                   stdoutVars, process, history>>

Stop(t) ==
    /\ pc[t] = "stop"
    /\ Terminate
    /\ Goto(t, "close_pipes")
    /\ UNCHANGED <<op, req, result, lock, nextId, status, stdoutVars, pipe,
                   emitted, history>>

ClosePipes(t) ==
    /\ pc[t] = "close_pipes"
    /\ pipesOpen' = FALSE
    /\ Goto(t, "idle")
    /\ UNCHANGED <<op, req, result, lock, nextId, initialized, closed,
                   stdoutVars, process, history>>

-----------------------------------------------------------------------------
(* The stdout reader thread: _read_stdout and _replace_queue_with.         *)

\* Mutant: the reader ignores max_queue_size.
AlwaysRoom == TRUE

HasRoom == Len(queue) < Capacity

ReadLine ==
    /\ reader = "reading" /\ pipe # <<>> /\ pipesOpen
    /\ Head(pipe).kind # "big" /\ HasRoom
    /\ pipe' = Tail(pipe)
    /\ queue' = Append(queue, Head(pipe))
    /\ UNCHANGED <<client, pipesOpen, reader, terminal, child, history,
                   emitted>>

\* An oversized line, or a line with no room: the reader gives up.
ReadGivesUp ==
    /\ reader = "reading" /\ pipe # <<>> /\ pipesOpen
    /\ Head(pipe).kind = "big" \/ ~HasRoom
    /\ terminal' = IF Head(pipe).kind = "big" THEN "oversized" ELSE "overflow"
    /\ reader' = "draining"
    /\ pipe' = Tail(pipe)
    /\ UNCHANGED <<client, pipesOpen, queue, child, history, emitted>>

\* End of file, or close() shut the stream. put_nowait drops _EOF when full.
ReadEnd ==
    /\ reader = "reading"
    /\ (pipe = <<>> /\ child = "exited") \/ ~pipesOpen
    /\ reader' = "done"
    /\ queue' = IF HasRoom THEN Append(queue, Sentinel("eof")) ELSE queue
    /\ UNCHANGED <<client, pipesOpen, terminal, process, history>>

DrainOne ==
    /\ reader = "draining" /\ queue # <<>>
    /\ queue' = Tail(queue)
    /\ UNCHANGED <<client, pipesOpen, reader, terminal, process, history>>

\* Mutant: the sentinel is put behind the queued lines instead of replacing them.
PostTerminalBehindLines ==
    /\ reader = "draining" /\ HasRoom
    /\ queue' = Append(queue, Sentinel(terminal))
    /\ reader' = "done"
    /\ UNCHANGED <<client, pipesOpen, terminal, process, history>>

PostTerminal ==
    /\ reader = "draining" /\ queue = <<>>
    /\ queue' = <<Sentinel(terminal)>>
    /\ reader' = "done"
    /\ UNCHANGED <<client, pipesOpen, terminal, process, history>>

-----------------------------------------------------------------------------
(* The MCP child.                                                          *)

ChildEmits ==
    /\ child = "running" /\ emitted < MaxLines
    /\ \E i \in written \union {0}, k \in LineKinds :
          /\ i = 0 => k \in {"bad", "big"}
          /\ pipe' = Append(pipe, [id |-> i, kind |-> k])
    /\ emitted' = emitted + 1
    /\ UNCHANGED <<client, pipesOpen, stdoutVars, child, history>>

ChildExits ==
    /\ child = "running"
    /\ child' = "exited"
    /\ UNCHANGED <<client, pipesOpen, stdoutVars, pipe, emitted, history>>

-----------------------------------------------------------------------------
Handshake == LaunchCheck \/ Launch \/ LaunchFails
Send(t) == SendCheck(t) \/ SendRefused(t) \/ EncodeFails(t) \/ Write(t) \/ WriteFails(t)
           \/ Flush(t) \/ FlushNotification(t) \/ FlushFails(t)
Receive(t) == TakeResult(t) \/ TakeFailure(t) \/ TakeTerminal(t) \/ Timeout(t) \/ Kill(t)
Closing(t) == Close(t) \/ Stop(t) \/ ClosePipes(t)

\* What a thread does inside an operation it has begun.
Step(t) == \/ t = Opener /\ Handshake
           \/ AcquireLock(t)
           \/ Send(t)
           \/ Receive(t)
           \/ Closing(t)

Begin(t) == \/ t = Opener /\ (Enter \/ EnterRefused)
            \/ StartCall(t)
            \/ CallRefused(t)
            \/ StartClose(t)

Reader == ReadLine \/ ReadGivesUp \/ ReadEnd \/ DrainOne \/ PostTerminal
Child  == ChildEmits \/ ChildExits

Next == (\E t \in Threads : Begin(t) \/ Step(t)) \/ Reader \/ Child

Spec == Init /\ [][Next]_vars

\* A thread inside an operation keeps being scheduled; nothing is asked of the
\* reader or the child.
FairSpec == Spec /\ \A t \in Threads : WF_vars(Step(t))
-----------------------------------------------------------------------------
(* Properties.                                                             *)

\* Every variable has its type, and the queue never exceeds max_queue_size.
TypeOK ==
    /\ pc \in [Threads -> Phases]
    /\ op \in [Threads -> Ops]
    /\ req \in [Threads -> Nat]
    /\ result \in [Threads -> Results]
    /\ lock \in Threads \union {NoThread}
    /\ nextId \in Nat \ {0}
    /\ initialized \in BOOLEAN
    /\ closed \in BOOLEAN
    /\ pipesOpen \in BOOLEAN
    /\ queue \in Seq(Line) /\ Len(queue) <= Capacity
    /\ reader \in {"none", "reading", "draining", "done"}
    /\ terminal \in Sentinels
    /\ child \in {"none", "running", "exited"}
    /\ pipe \in Seq(Line)
    /\ written \in SUBSET Nat
    /\ served \in SUBSET Nat
    /\ calls \in Nat
    /\ emitted \in Nat

\* The thread is between taking a request id and the end of that request, or
\* is sending the `initialized` notification.
Exchanging(t) == pc[t] \in {"send", "write", "flush", "read", "kill"}

\* The request lock, and __enter__ setting _initialized last, keep every two
\* exchanges with the child apart, the handshake (which takes no lock) included:
\* two threads never both wait for the next line of the queue.
OneRequestAtATime ==
    \A t, u \in Threads : Exchanging(t) /\ Exchanging(u) => t = u

\* A call returns data only when the line it took answers its own request, one
\* that was really written: an answer that arrives after its call timed out, is
\* sent twice or was never asked for is nobody's result.
AnswersMatch ==
    \A t \in Threads : result[t].op = "call" /\ result[t].code = "OK" =>
        result[t].answer = result[t].id /\ result[t].id \in written

\* network_request_sent of a failed call_tool, or of an __enter__ that fails
\* before initialize is answered, is true exactly when that request reached the
\* child's stdin, close() racing the write and the flush included.  Once it is
\* answered, an __enter__ that fails is sending the notification: the flag then
\* tells of that line only, and may be false although initialize was written.
FlagIsTruthful ==
    \A t \in Threads :
        /\ result[t].op \in {"call", "enter"} /\ result[t].code \notin {"NONE", "EXCEPTION"} =>
            (result[t].sent <=> result[t].id \in written)
        /\ result[t].op = "notify" => result[t].id \in written

\* Once the reader has given up on an oversized line or a full queue and posted
\* its sentinel, no request is ever answered again: lines queued before the
\* overflow are not handed out, even when the child survives being killed.
FailClosedAfterOverflow ==
    [][reader = "done" /\ terminal # "eof" => served' = served]_vars

\* Each request is written with a larger id than every request written before
\* it, which is what makes comparing ids enough to recognise a stale answer.
RequestIdsIncrease ==
    [][\A t \in Threads :
        pc[t] = "write" /\ pc'[t] = "flush" /\ op[t] # "notify" =>
            \A i \in written : i < req[t]]_vars

\* When all is quiet again after a failed __enter__ or a close(), the pipes of
\* the child that was launched are shut (and it was told to terminate).
CloseCleansUp ==
    (\A t \in Threads : pc[t] = "idle") /\ child # "none"
    /\ (closed \/ ~initialized) => ~pipesOpen

\* Every __enter__, call_tool and close() returns: the queue timeout bounds the
\* wait for an answer that never comes or whose _EOF was dropped, the lock is
\* released on every path, and killing the child is bounded too.
OperationsReturn ==
    \A t \in Threads : pc[t] # "idle" ~> pc[t] = "idle"

-----------------------------------------------------------------------------
(* The session implements SerialRpc.                                       *)

InProgress(t) == Exchanging(t) /\ op[t] \in {"enter", "call"}

CurrentRequest ==
    IF \E t \in Threads : InProgress(t)
    THEN req[CHOOSE t \in Threads : InProgress(t)]
    ELSE 0

Rpc == INSTANCE SerialRpc WITH
    last <- nextId - 1, current <- CurrentRequest,
    delivered <- written, answered <- served

\* Calls of any number of threads, through one session with a faulty child,
\* look like requests handled one by one, each ended by its own answer or failed.
ImplementsSerialRpc == Rpc!Spec
=============================================================================
