--------------------------- MODULE McpStdioProofs ---------------------------
(***************************************************************************)
(* Theorems about McpStdio for every set of threads, every queue capacity  *)
(* and every number of calls and lines.                                    *)
(***************************************************************************)
EXTENDS McpStdio, TLAPS

(* The parts of the inductive invariant.                                   *)

\* The lock is held exactly by the thread whose call is in an exchange.
LockOwner == \A t \in Threads : lock = t <=> (op[t] = "call" /\ Exchanging(t))

\* Each phase belongs to its operations; the handshake is the opener's, and is
\* over before _initialized is set, which is before any call.
Roles ==
    /\ \A t \in Threads :
          /\ Exchanging(t) => op[t] \in {"enter", "notify", "call"}
          /\ pc[t] = "await_lock" => op[t] = "call"
          /\ pc[t] \in {"launch", "popen"} => t = Opener /\ op[t] = "enter"
          /\ op[t] \in {"enter", "notify"} => t = Opener
          /\ op[t] = "call" /\ pc[t] # "idle" => initialized
          /\ Exchanging(t) => child # "none"
    /\ initialized => child # "none"
    /\ initialized => ~(Exchanging(Opener) /\ op[Opener] \in {"enter", "notify"})
    /\ pc[Opener] \in {"launch", "popen"} => child = "none"

\* Request ids are fresh when allocated and written, and a result keeps the id of
\* a request that is over.
Ids ==
    /\ \A i \in written : 0 < i /\ i < nextId
    /\ \A t \in Threads :
          /\ req[t] < nextId /\ result[t].id < nextId
          /\ pc[t] \in {"launch", "popen"} => req[t] = 0
          /\ pc[t] \in {"send", "write"} /\ op[t] # "notify" =>
                /\ 0 < req[t]
                /\ \A i \in written : i < req[t]
                /\ \A u \in Threads : result[u].id # req[t]
          /\ pc[t] \in {"flush", "read", "kill"} /\ op[t] # "notify" => req[t] \in written
          /\ op[t] = "notify" => req[t] \in written

\* A failed reader drains, then leaves only its sentinel behind.
Overflow ==
    /\ child = "none" => reader = "none"
    /\ terminal # "eof" => reader \in {"draining", "done"}
    /\ reader = "draining" => terminal # "eof"
    /\ reader = "done" /\ terminal # "eof" => queue \in {<<>>, <<Sentinel(terminal)>>}

IInv ==
    TypeOK /\ LockOwner /\ Roles /\ Ids /\ AnswersMatch /\ FlagIsTruthful /\ Overflow

USE ThreadsAssumption, CapacityAssumption, LineKindsAssumption

\* Every action keeps every variable in its type, the queue within its capacity.
LEMMA TypePreserved == TypeOK /\ [Next]_vars => TypeOK'
<1> SUFFICES ASSUME TypeOK, [Next]_vars PROVE TypeOK'
  OBVIOUS
<1> USE DEF TypeOK, Goto, Report, Leave, Fail, ReadCode, status, stdoutVars,
        process, history, client, Phases, Ops, Codes, ErrorCodes, Results, NoResult, Refusal,
        AllocateId, Terminate, HasRoom
<1>1. CASE Enter
  BY <1>1 DEF Enter
<1>2. CASE EnterRefused
  BY <1>2 DEF EnterRefused
<1>3. CASE LaunchCheck
  <2>1. CASE closed
    <3>1. result' \in [Threads -> Results]
      <4> DEFINE r == [op |-> op[Opener], id |-> req[Opener], code |-> "TRANSPORT_FAILED",
                       sent |-> FALSE, answer |-> 0]
      <4>1. r \in Results
        OBVIOUS
      <4>2. result' = [result EXCEPT ![Opener] = r]
        BY <1>3, <2>1 DEF LaunchCheck
      <4> QED
        BY <4>1, <4>2
    <3>2. pc' \in [Threads -> Phases] /\ lock' \in Threads \union {NoThread}
      BY <1>3, <2>1 DEF LaunchCheck
    <3> QED
      BY <1>3, <3>1, <3>2 DEF LaunchCheck
  <2>2. CASE ~closed
    BY <1>3, <2>2 DEF LaunchCheck
  <2> QED
    BY <2>1, <2>2
<1>4. CASE Launch
  BY <1>4 DEF Launch
<1>5. CASE LaunchFails
  BY <1>5 DEF LaunchFails
<1>6. ASSUME NEW t \in Threads, StartCall(t) PROVE TypeOK'
  BY <1>6 DEF StartCall
<1>7. ASSUME NEW t \in Threads, CallRefused(t) PROVE TypeOK'
  BY <1>7 DEF CallRefused
<1>8. ASSUME NEW t \in Threads, AcquireLock(t) PROVE TypeOK'
  <2>1. /\ pc' \in [Threads -> Phases] /\ req' \in [Threads -> Nat]
        /\ lock' \in Threads \union {NoThread} /\ nextId' \in Nat \ {0}
    BY <1>8 DEF AcquireLock
  <2>2. /\ UNCHANGED <<op, result, initialized, closed, pipesOpen, queue, reader, terminal>>
        /\ UNCHANGED <<child, pipe, written, served, calls, emitted>>
    BY <1>8 DEF AcquireLock
  <2> QED
    BY ONLY TypeOK, <2>1, <2>2
<1>9. ASSUME NEW t \in Threads, SendCheck(t) PROVE TypeOK'
  BY <1>9 DEF SendCheck
<1>10. ASSUME NEW t \in Threads, SendRefused(t) PROVE TypeOK'
  BY <1>10 DEF SendRefused
<1>11. ASSUME NEW t \in Threads, EncodeFails(t) PROVE TypeOK'
  BY <1>11 DEF EncodeFails
<1>12. ASSUME NEW t \in Threads, Write(t) PROVE TypeOK'
  <2>1. written' \subseteq written \union {req[t]} /\ req[t] \in Nat
    BY <1>12 DEF Write
  <2> QED
    BY <1>12, <2>1 DEF Write
<1>13. ASSUME NEW t \in Threads, WriteFails(t) PROVE TypeOK'
  BY <1>13 DEF WriteFails
<1>14. ASSUME NEW t \in Threads, Flush(t) PROVE TypeOK'
  BY <1>14 DEF Flush
<1>15. ASSUME NEW t \in Threads, FlushNotification(t) PROVE TypeOK'
  BY <1>15 DEF FlushNotification
<1>16. ASSUME NEW t \in Threads, FlushFails(t) PROVE TypeOK'
  BY <1>16 DEF FlushFails
<1>17. ASSUME NEW t \in Threads, TakeResult(t) PROVE TypeOK'
  <2>1. queue' \in Seq(Line) /\ Len(queue') <= Capacity /\ Head(queue) \in Line
    BY <1>17 DEF TakeResult
  <2>2. served' \subseteq served \union {req[t]} /\ req[t] \in Nat
    BY <1>17 DEF TakeResult
  <2>3. CASE op[t] = "enter"
    BY <1>17, <2>1, <2>2, <2>3 DEF TakeResult
  <2>4. CASE op[t] # "enter"
    <3>1. Head(queue).id \in Nat
      BY <2>1 DEF Line
    <3>2. result' \in [Threads -> Results]
      <4> DEFINE r == [op |-> op[t], id |-> req[t], code |-> "OK",
                       sent |-> TRUE, answer |-> Head(queue).id]
      <4>1. r \in Results
        BY <3>1
      <4>2. result' = [result EXCEPT ![t] = r]
        BY <1>17, <2>4 DEF TakeResult
      <4> HIDE DEF r
      <4> QED
        BY <4>1, <4>2
    <3>3. pc' \in [Threads -> Phases] /\ lock' \in Threads \union {NoThread}
      BY <1>17, <2>4 DEF TakeResult
    <3> QED
      BY <1>17, <2>1, <2>2, <2>4, <3>2, <3>3 DEF TakeResult
  <2> QED
    BY <2>3, <2>4
<1>18. ASSUME NEW t \in Threads, TakeFailure(t) PROVE TypeOK'
  <2>1. queue' \in Seq(Line) /\ Len(queue') <= Capacity
    BY <1>18 DEF TakeFailure
  <2>2. \A code \in LineCodes(Head(queue), t) : ReadCode(t, code) \in Codes
    BY DEF LineCodes, ErrorCodes
  <2>3. result' \in [Threads -> Results]
    <3>1. PICK code \in LineCodes(Head(queue), t) : Fail(t, ReadCode(t, code), code # "EXCEPTION")
      BY <1>18 DEF TakeFailure
    <3> DEFINE r == [op |-> op[t], id |-> req[t], code |-> ReadCode(t, code),
                     sent |-> code # "EXCEPTION", answer |-> 0]
    <3>2. r \in Results
      BY <2>2
    <3>3. result' = [result EXCEPT ![t] = r]
      BY <3>1
    <3> HIDE DEF r
    <3> QED
      BY <3>2, <3>3
  <2>4. pc' \in [Threads -> Phases] /\ lock' \in Threads \union {NoThread}
    BY <1>18 DEF TakeFailure
  <2>5. /\ UNCHANGED <<op, req, nextId, initialized, closed, pipesOpen, reader, terminal>>
        /\ UNCHANGED <<child, pipe, written, served, calls, emitted>>
    BY <1>18 DEF TakeFailure
  <2> QED
    BY ONLY TypeOK, <2>1, <2>3, <2>4, <2>5
<1>19. ASSUME NEW t \in Threads, TakeTerminal(t) PROVE TypeOK'
  <2>1. queue' \in Seq(Line) /\ Len(queue') <= Capacity
    BY <1>19 DEF TakeTerminal
  <2>2. result' \in [Threads -> Results]
    <3> DEFINE code == ReadCode(t, IF Head(queue).kind = "oversized" THEN "RESPONSE_TOO_LARGE"
                                                                    ELSE "RESPONSE_QUEUE_FULL")
               r == [op |-> op[t], id |-> req[t], code |-> code, sent |-> TRUE, answer |-> 0]
    <3>1. code \in Codes
      BY DEF ErrorCodes
    <3>2. r \in Results
      BY <3>1
    <3>3. result' = [result EXCEPT ![t] = r]
      BY <1>19 DEF TakeTerminal
    <3> HIDE DEF r
    <3> QED
      BY <3>2, <3>3
  <2>3. pc' \in [Threads -> Phases]
    BY <1>19 DEF TakeTerminal
  <2>4. /\ UNCHANGED <<op, req, lock, nextId, initialized, closed, pipesOpen, reader, terminal>>
        /\ UNCHANGED <<child, pipe, written, served, calls, emitted>>
    BY <1>19 DEF TakeTerminal
  <2> QED
    BY ONLY TypeOK, <2>1, <2>2, <2>3, <2>4
<1>20. ASSUME NEW t \in Threads, Timeout(t) PROVE TypeOK'
  BY <1>20 DEF Timeout
<1>21. ASSUME NEW t \in Threads, Kill(t) PROVE TypeOK'
  BY <1>21 DEF Kill
<1>22. ASSUME NEW t \in Threads, StartClose(t) PROVE TypeOK'
  BY <1>22 DEF StartClose
<1>23. ASSUME NEW t \in Threads, Close(t) PROVE TypeOK'
  BY <1>23 DEF Close
<1>24. ASSUME NEW t \in Threads, Stop(t) PROVE TypeOK'
  BY <1>24 DEF Stop
<1>25. ASSUME NEW t \in Threads, ClosePipes(t) PROVE TypeOK'
  BY <1>25 DEF ClosePipes
<1>26. CASE ReadLine
  <2>1. queue' \in Seq(Line) /\ Len(queue') <= Capacity /\ pipe' \in Seq(Line)
    BY <1>26 DEF ReadLine
  <2> QED
    BY <1>26, <2>1 DEF ReadLine
<1>27. CASE ReadGivesUp
  <2>1. terminal' \in Sentinels
    BY <1>27 DEF ReadGivesUp, Sentinels
  <2>2. pipe' \in Seq(Line)
    BY <1>27 DEF ReadGivesUp
  <2> QED
    BY <1>27, <2>1, <2>2 DEF ReadGivesUp
<1>28. CASE ReadEnd
  <2>1. Sentinel("eof") \in Line
    BY DEF Sentinel, Line, Sentinels
  <2>2. queue' \in Seq(Line) /\ Len(queue') <= Capacity
    <3>1. CASE HasRoom
      BY <1>28, <2>1, <3>1 DEF ReadEnd
    <3>2. CASE ~HasRoom
      BY <1>28, <3>2 DEF ReadEnd
    <3> QED
      BY <3>1, <3>2
  <2> QED
    BY <1>28, <2>2 DEF ReadEnd
<1>29. CASE DrainOne
  BY <1>29 DEF DrainOne
<1>30. CASE PostTerminal
  <2>1. Sentinel(terminal) \in Line
    BY DEF Sentinel, Line, Sentinels
  <2> QED
    BY <1>30, <2>1 DEF PostTerminal
<1>31. CASE ChildEmits
  <2>1. pipe' \in Seq(Line)
    BY <1>31 DEF ChildEmits, Line
  <2> QED
    BY <1>31, <2>1 DEF ChildEmits
<1>32. CASE ChildExits
  BY <1>32 DEF ChildExits
<1>33. CASE UNCHANGED vars
  BY <1>33 DEF vars
<1>34. QED
  BY <1>1, <1>2, <1>3, <1>4, <1>5, <1>6, <1>7, <1>8, <1>9, <1>10, <1>11, <1>12,
     <1>13, <1>14, <1>15, <1>16, <1>17, <1>18, <1>19, <1>20, <1>21, <1>22, <1>23,
     <1>24, <1>25, <1>26, <1>27, <1>28, <1>29, <1>30, <1>31, <1>32, <1>33
     DEF Next, Begin, Step, Handshake, Send, Receive, Closing, Reader, Child

\* The lock and the phases: every action keeps a thread's phase within its
\* operation and the lock with the thread whose call is in an exchange.
LEMMA RolesPreserved ==
    TypeOK /\ LockOwner /\ Roles /\ [Next]_vars => LockOwner' /\ Roles'
<1> SUFFICES ASSUME TypeOK, LockOwner, Roles, [Next]_vars PROVE LockOwner' /\ Roles'
  OBVIOUS
<1> USE DEF TypeOK, LockOwner, Roles, Exchanging, Goto, Report, Leave, Fail, status,
        process, client, AllocateId, Terminate, LockFree
<1>1. CASE Enter
  BY <1>1 DEF Enter
<1>2. CASE EnterRefused
  BY <1>2 DEF EnterRefused
<1>3. CASE LaunchCheck
  BY <1>3 DEF LaunchCheck
<1>4. CASE Launch
  BY <1>4 DEF Launch
<1>5. CASE LaunchFails
  BY <1>5 DEF LaunchFails
<1>6. ASSUME NEW t \in Threads, StartCall(t) PROVE LockOwner' /\ Roles'
  BY <1>6 DEF StartCall
<1>7. ASSUME NEW t \in Threads, CallRefused(t) PROVE LockOwner' /\ Roles'
  BY <1>7 DEF CallRefused
<1>8. ASSUME NEW t \in Threads, AcquireLock(t) PROVE LockOwner' /\ Roles'
  BY <1>8 DEF AcquireLock
<1>9. ASSUME NEW t \in Threads, SendCheck(t) PROVE LockOwner' /\ Roles'
  BY <1>9 DEF SendCheck
<1>10. ASSUME NEW t \in Threads, SendRefused(t) PROVE LockOwner' /\ Roles'
  BY <1>10 DEF SendRefused
<1>11. ASSUME NEW t \in Threads, EncodeFails(t) PROVE LockOwner' /\ Roles'
  BY <1>11 DEF EncodeFails
<1>12. ASSUME NEW t \in Threads, Write(t) PROVE LockOwner' /\ Roles'
  BY <1>12 DEF Write
<1>13. ASSUME NEW t \in Threads, WriteFails(t) PROVE LockOwner' /\ Roles'
  BY <1>13 DEF WriteFails
<1>14. ASSUME NEW t \in Threads, Flush(t) PROVE LockOwner' /\ Roles'
  BY <1>14 DEF Flush
<1>15. ASSUME NEW t \in Threads, FlushNotification(t) PROVE LockOwner' /\ Roles'
  BY <1>15 DEF FlushNotification
<1>16. ASSUME NEW t \in Threads, FlushFails(t) PROVE LockOwner' /\ Roles'
  BY <1>16 DEF FlushFails
<1>17. ASSUME NEW t \in Threads, TakeResult(t) PROVE LockOwner' /\ Roles'
  <2>1. /\ pc[t] = "read" /\ UNCHANGED <<initialized, child>>
        /\ op \in [Threads -> Ops] /\ pc \in [Threads -> Phases]
    BY <1>17 DEF TakeResult
  <2>2. CASE op[t] = "enter"
    <3>1. /\ op' = [op EXCEPT ![t] = "notify"] /\ pc' = [pc EXCEPT ![t] = "send"]
          /\ lock' = lock
      BY <1>17, <2>2 DEF TakeResult
    <3>2. LockOwner'
      BY <2>1, <2>2, <3>1
    <3>3. Roles'
      BY <2>1, <2>2, <3>1
    <3> QED
      BY <3>2, <3>3
  <2>3. CASE op[t] # "enter"
    <3>1. /\ op' = op
          /\ pc' = [pc EXCEPT ![t] = IF op[t] = "call" THEN "idle" ELSE "close"]
          /\ lock' = IF op[t] = "call" THEN NoThread ELSE lock
      BY <1>17, <2>3 DEF TakeResult
    <3>2. LockOwner'
      BY <2>1, <2>3, <3>1
    <3>3. Roles'
      BY <2>1, <2>3, <3>1
    <3> QED
      BY <3>2, <3>3
  <2> QED
    BY <2>2, <2>3
<1>18. ASSUME NEW t \in Threads, TakeFailure(t) PROVE LockOwner' /\ Roles'
  BY <1>18 DEF TakeFailure
<1>19. ASSUME NEW t \in Threads, TakeTerminal(t) PROVE LockOwner' /\ Roles'
  BY <1>19 DEF TakeTerminal
<1>20. ASSUME NEW t \in Threads, Timeout(t) PROVE LockOwner' /\ Roles'
  BY <1>20 DEF Timeout
<1>21. ASSUME NEW t \in Threads, Kill(t) PROVE LockOwner' /\ Roles'
  BY <1>21 DEF Kill
<1>22. ASSUME NEW t \in Threads, StartClose(t) PROVE LockOwner' /\ Roles'
  BY <1>22 DEF StartClose
<1>23. ASSUME NEW t \in Threads, Close(t) PROVE LockOwner' /\ Roles'
  BY <1>23 DEF Close
<1>24. ASSUME NEW t \in Threads, Stop(t) PROVE LockOwner' /\ Roles'
  BY <1>24 DEF Stop
<1>25. ASSUME NEW t \in Threads, ClosePipes(t) PROVE LockOwner' /\ Roles'
  BY <1>25 DEF ClosePipes
<1>26. CASE ReadLine
  BY <1>26 DEF ReadLine
<1>27. CASE ReadGivesUp
  BY <1>27 DEF ReadGivesUp
<1>28. CASE ReadEnd
  BY <1>28 DEF ReadEnd
<1>29. CASE DrainOne
  BY <1>29 DEF DrainOne
<1>30. CASE PostTerminal
  BY <1>30 DEF PostTerminal
<1>31. CASE ChildEmits
  BY <1>31 DEF ChildEmits
<1>32. CASE ChildExits
  BY <1>32 DEF ChildExits
<1>33. CASE UNCHANGED vars
  BY <1>33 DEF vars
<1> QED
  BY <1>1, <1>2, <1>3, <1>4, <1>5, <1>6, <1>7, <1>8, <1>9, <1>10, <1>11, <1>12,
     <1>13, <1>14, <1>15, <1>16, <1>17, <1>18, <1>19, <1>20, <1>21, <1>22, <1>23,
     <1>24, <1>25, <1>26, <1>27, <1>28, <1>29, <1>30, <1>31, <1>32, <1>33
     DEF Next, Begin, Step, Handshake, Send, Receive, Closing, Reader, Child

\* Two exchanges are never open at once: both calls would hold the lock, and the
\* handshake is over before a call can start.
LEMMA Exclusion == TypeOK /\ LockOwner /\ Roles => OneRequestAtATime
<1> SUFFICES ASSUME TypeOK, LockOwner, Roles, NEW t \in Threads, NEW u \in Threads,
                    Exchanging(t), Exchanging(u)
             PROVE  t = u
  BY DEF OneRequestAtATime
<1>1. CASE op[t] = "call" /\ op[u] = "call"
  BY <1>1 DEF LockOwner
<1>2. CASE op[t] \in {"enter", "notify"} /\ op[u] \in {"enter", "notify"}
  BY <1>2 DEF Roles
<1>3. CASE ~(op[t] = "call" <=> op[u] = "call")
  <2>1. initialized
    BY <1>3 DEF Roles, Exchanging
  <2>2. Exchanging(Opener) /\ op[Opener] \in {"enter", "notify"}
    BY <1>3 DEF Roles
  <2> QED
    BY <2>1, <2>2 DEF Roles
<1> QED
  BY <1>1, <1>2, <1>3 DEF Roles

\* Request ids: the next id is new to the child, to every thread and to every
\* result, and only the one exchanging thread has an id it has yet to write.
LEMMA IdsPreserved ==
    TypeOK /\ Roles /\ OneRequestAtATime /\ Ids /\ [Next]_vars => Ids'
<1> SUFFICES ASSUME TypeOK, Roles, OneRequestAtATime, Ids, [Next]_vars PROVE Ids'
  OBVIOUS
<1> USE DEF TypeOK, Roles, OneRequestAtATime, Ids, Exchanging, Goto, Report, Leave, Fail,
        status, process, client, history, AllocateId, Refusal
<1>1. CASE Enter
  BY <1>1 DEF Enter
<1>2. CASE EnterRefused
  BY <1>2 DEF EnterRefused
<1>3. CASE LaunchCheck
  BY <1>3 DEF LaunchCheck
<1>4. CASE Launch
  <2>1. /\ nextId' = nextId + 1
        /\ req' = [req EXCEPT ![Opener] = nextId]
        /\ pc' = [pc EXCEPT ![Opener] = "send"]
        /\ UNCHANGED <<op, result, written>>
    BY <1>4 DEF Launch
  <2>2. \A u \in Threads : req'[u] < nextId' /\ result'[u].id < nextId'
    BY <2>1 DEF Results
  <2>3. \A i \in written' : 0 < i /\ i < nextId'
    BY <2>1
  <2>4. op[Opener] = "enter"
    BY <1>4 DEF Launch
  <2> QED
    BY <2>1, <2>2, <2>3, <2>4
<1>5. CASE LaunchFails
  BY <1>5 DEF LaunchFails
<1>6. ASSUME NEW t \in Threads, StartCall(t) PROVE Ids'
  BY <1>6 DEF StartCall
<1>7. ASSUME NEW t \in Threads, CallRefused(t) PROVE Ids'
  BY <1>7 DEF CallRefused
<1>8. ASSUME NEW t \in Threads, AcquireLock(t) PROVE Ids'
  <2>1. /\ nextId' = nextId + 1
        /\ req' = [req EXCEPT ![t] = nextId]
        /\ pc' = [pc EXCEPT ![t] = "send"]
        /\ UNCHANGED <<op, result, written>>
    BY <1>8 DEF AcquireLock
  <2>2. \A r \in Nat : r < nextId => r < nextId'
    BY <2>1
  <2>3. \A u \in Threads : req'[u] < nextId' /\ result'[u].id < nextId'
    BY <2>1 DEF Results
  <2>4. \A i \in written' : 0 < i /\ i < nextId'
    BY <2>1
  <2>5. op[t] = "call"
    BY <1>8 DEF AcquireLock
  <2> QED
    BY <2>1, <2>2, <2>3, <2>4, <2>5
<1>9. ASSUME NEW t \in Threads, SendCheck(t) PROVE Ids'
  BY <1>9 DEF SendCheck
<1>10. ASSUME NEW t \in Threads, SendRefused(t) PROVE Ids'
  BY <1>10 DEF SendRefused
<1>11. ASSUME NEW t \in Threads, EncodeFails(t) PROVE Ids'
  BY <1>11 DEF EncodeFails
<1>12. ASSUME NEW t \in Threads, Write(t) PROVE Ids'
  BY <1>12 DEF Write
<1>13. ASSUME NEW t \in Threads, WriteFails(t) PROVE Ids'
  BY <1>13 DEF WriteFails
<1>14. ASSUME NEW t \in Threads, Flush(t) PROVE Ids'
  BY <1>14 DEF Flush
<1>15. ASSUME NEW t \in Threads, FlushNotification(t) PROVE Ids'
  BY <1>15 DEF FlushNotification
<1>16. ASSUME NEW t \in Threads, FlushFails(t) PROVE Ids'
  BY <1>16 DEF FlushFails
<1>17. ASSUME NEW t \in Threads, TakeResult(t) PROVE Ids'
  BY <1>17 DEF TakeResult
<1>18. ASSUME NEW t \in Threads, TakeFailure(t) PROVE Ids'
  BY <1>18 DEF TakeFailure
<1>19. ASSUME NEW t \in Threads, TakeTerminal(t) PROVE Ids'
  BY <1>19 DEF TakeTerminal
<1>20. ASSUME NEW t \in Threads, Timeout(t) PROVE Ids'
  BY <1>20 DEF Timeout
<1>21. ASSUME NEW t \in Threads, Kill(t) PROVE Ids'
  BY <1>21 DEF Kill
<1>22. ASSUME NEW t \in Threads, StartClose(t) PROVE Ids'
  BY <1>22 DEF StartClose
<1>23. ASSUME NEW t \in Threads, Close(t) PROVE Ids'
  BY <1>23 DEF Close
<1>24. ASSUME NEW t \in Threads, Stop(t) PROVE Ids'
  BY <1>24 DEF Stop
<1>25. ASSUME NEW t \in Threads, ClosePipes(t) PROVE Ids'
  BY <1>25 DEF ClosePipes
<1>26. CASE ReadLine
  BY <1>26 DEF ReadLine
<1>27. CASE ReadGivesUp
  BY <1>27 DEF ReadGivesUp
<1>28. CASE ReadEnd
  BY <1>28 DEF ReadEnd
<1>29. CASE DrainOne
  BY <1>29 DEF DrainOne
<1>30. CASE PostTerminal
  BY <1>30 DEF PostTerminal
<1>31. CASE ChildEmits
  BY <1>31 DEF ChildEmits
<1>32. CASE ChildExits
  BY <1>32 DEF ChildExits
<1>33. CASE UNCHANGED vars
  BY <1>33 DEF vars
<1> QED
  BY <1>1, <1>2, <1>3, <1>4, <1>5, <1>6, <1>7, <1>8, <1>9, <1>10, <1>11, <1>12,
     <1>13, <1>14, <1>15, <1>16, <1>17, <1>18, <1>19, <1>20, <1>21, <1>22, <1>23,
     <1>24, <1>25, <1>26, <1>27, <1>28, <1>29, <1>30, <1>31, <1>32, <1>33
     DEF Next, Begin, Step, Handshake, Send, Receive, Closing, Reader, Child

\* One thread's report leaves both properties true when it tells the truth about
\* its own request.
LEMMA TruthfulReport ==
    ASSUME TypeOK, AnswersMatch, FlagIsTruthful,
           NEW t \in Threads, NEW code, NEW sent \in BOOLEAN, NEW answer \in Nat,
           Report(t, code, sent, answer), written' = written,
           op[t] \in {"call", "enter"} /\ code \notin {"NONE", "EXCEPTION"} =>
               (sent <=> req[t] \in written),
           op[t] = "notify" => req[t] \in written,
           op[t] = "call" /\ code = "OK" => answer = req[t] /\ req[t] \in written
    PROVE  AnswersMatch' /\ FlagIsTruthful'
<1>1. \A u \in Threads \ {t} : result'[u] = result[u]
  BY DEF Report, TypeOK
<1>2. result'[t] = [op |-> op[t], id |-> req[t], code |-> code, sent |-> sent,
                   answer |-> answer]
  BY DEF Report, TypeOK
<1>3. AnswersMatch'
  BY <1>1, <1>2 DEF AnswersMatch
<1>4. FlagIsTruthful'
  BY <1>1, <1>2 DEF FlagIsTruthful
<1> QED
  BY <1>3, <1>4

\* Results: what a thread reports about its own request agrees with what was
\* written, and a later write is of a request no result names.
LEMMA ResultsPreserved ==
    TypeOK /\ Roles /\ Ids /\ AnswersMatch /\ FlagIsTruthful /\ [Next]_vars
        => AnswersMatch' /\ FlagIsTruthful'
<1> SUFFICES ASSUME TypeOK, Roles, Ids, AnswersMatch, FlagIsTruthful, [Next]_vars
             PROVE  AnswersMatch' /\ FlagIsTruthful'
  OBVIOUS
<1> USE DEF TypeOK, Roles, Ids, AnswersMatch, FlagIsTruthful, Exchanging, Goto, Report,
        Leave, Fail, status, process, client, history, AllocateId, Refusal, IsAnswer,
        ReadCode, LineCodes, ErrorCodes
<1>1. CASE Enter
  BY <1>1 DEF Enter
<1>2. CASE EnterRefused
  BY <1>2 DEF EnterRefused
<1>3. CASE LaunchCheck
  <2>1. CASE closed
    <3>1. Report(Opener, "TRANSPORT_FAILED", FALSE, 0) /\ written' = written
      BY <1>3, <2>1 DEF LaunchCheck
    <3>2. req[Opener] \notin written /\ op[Opener] = "enter"
      BY <1>3 DEF LaunchCheck
    <3> QED
      BY <3>1, <3>2, TruthfulReport
  <2>2. CASE ~closed
    BY <1>3, <2>2 DEF LaunchCheck
  <2> QED
    BY <2>1, <2>2
<1>4. CASE Launch
  BY <1>4 DEF Launch
<1>5. CASE LaunchFails
  BY <1>5 DEF LaunchFails
<1>6. ASSUME NEW t \in Threads, StartCall(t) PROVE AnswersMatch' /\ FlagIsTruthful'
  BY <1>6 DEF StartCall
<1>7. ASSUME NEW t \in Threads, CallRefused(t) PROVE AnswersMatch' /\ FlagIsTruthful'
  BY <1>7 DEF CallRefused
<1>8. ASSUME NEW t \in Threads, AcquireLock(t) PROVE AnswersMatch' /\ FlagIsTruthful'
  BY <1>8 DEF AcquireLock
<1>9. ASSUME NEW t \in Threads, SendCheck(t) PROVE AnswersMatch' /\ FlagIsTruthful'
  BY <1>9 DEF SendCheck
<1>10. ASSUME NEW t \in Threads, SendRefused(t) PROVE AnswersMatch' /\ FlagIsTruthful'
  <2>1. Report(t, "TRANSPORT_FAILED", FALSE, 0) /\ written' = written
    BY <1>10 DEF SendRefused
  <2>2. op[t] # "notify" => req[t] \notin written
    BY <1>10 DEF SendRefused
  <2> QED
    BY <2>1, <2>2, TruthfulReport
<1>11. ASSUME NEW t \in Threads, EncodeFails(t) PROVE AnswersMatch' /\ FlagIsTruthful'
  BY <1>11 DEF EncodeFails
<1>12. ASSUME NEW t \in Threads, Write(t) PROVE AnswersMatch' /\ FlagIsTruthful'
  BY <1>12 DEF Write
<1>13. ASSUME NEW t \in Threads, WriteFails(t) PROVE AnswersMatch' /\ FlagIsTruthful'
  BY <1>13 DEF WriteFails
<1>14. ASSUME NEW t \in Threads, Flush(t) PROVE AnswersMatch' /\ FlagIsTruthful'
  BY <1>14 DEF Flush
<1>15. ASSUME NEW t \in Threads, FlushNotification(t) PROVE AnswersMatch' /\ FlagIsTruthful'
  BY <1>15 DEF FlushNotification
<1>16. ASSUME NEW t \in Threads, FlushFails(t) PROVE AnswersMatch' /\ FlagIsTruthful'
  BY <1>16 DEF FlushFails
<1>17. ASSUME NEW t \in Threads, TakeResult(t) PROVE AnswersMatch' /\ FlagIsTruthful'
  <2>1. CASE op[t] = "enter"
    BY <1>17, <2>1 DEF TakeResult
  <2>2. CASE op[t] # "enter"
    <3>1. Report(t, "OK", TRUE, req[t]) /\ written' = written
      BY <1>17, <2>2 DEF TakeResult
    <3>2. op[t] # "notify" => req[t] \in written
      BY <1>17 DEF TakeResult
    <3> QED
      BY <3>1, <3>2, TruthfulReport
  <2> QED
    BY <2>1, <2>2
<1>18. ASSUME NEW t \in Threads, TakeFailure(t) PROVE AnswersMatch' /\ FlagIsTruthful'
  <2>1. PICK code \in LineCodes(Head(queue), t) :
           /\ Report(t, ReadCode(t, code), code # "EXCEPTION", 0) /\ written' = written
           /\ pc[t] = "read"
    BY <1>18 DEF TakeFailure
  <2>2. op[t] # "notify" => req[t] \in written
    BY <2>1
  <2>3. code \notin {"NONE", "OK"} /\ ReadCode(t, code) # "OK"
    BY <2>1
  <2>4. op[t] # "notify" /\ ReadCode(t, code) # "EXCEPTION" => code # "EXCEPTION"
    OBVIOUS
  <2> QED
    BY <2>1, <2>2, <2>3, <2>4, TruthfulReport
<1>19. ASSUME NEW t \in Threads, TakeTerminal(t) PROVE AnswersMatch' /\ FlagIsTruthful'
  BY <1>19 DEF TakeTerminal
<1>20. ASSUME NEW t \in Threads, Timeout(t) PROVE AnswersMatch' /\ FlagIsTruthful'
  BY <1>20 DEF Timeout
<1>21. ASSUME NEW t \in Threads, Kill(t) PROVE AnswersMatch' /\ FlagIsTruthful'
  BY <1>21 DEF Kill
<1>22. ASSUME NEW t \in Threads, StartClose(t) PROVE AnswersMatch' /\ FlagIsTruthful'
  BY <1>22 DEF StartClose
<1>23. ASSUME NEW t \in Threads, Close(t) PROVE AnswersMatch' /\ FlagIsTruthful'
  BY <1>23 DEF Close
<1>24. ASSUME NEW t \in Threads, Stop(t) PROVE AnswersMatch' /\ FlagIsTruthful'
  BY <1>24 DEF Stop
<1>25. ASSUME NEW t \in Threads, ClosePipes(t) PROVE AnswersMatch' /\ FlagIsTruthful'
  BY <1>25 DEF ClosePipes
<1>26. CASE ReadLine
  BY <1>26 DEF ReadLine
<1>27. CASE ReadGivesUp
  BY <1>27 DEF ReadGivesUp
<1>28. CASE ReadEnd
  BY <1>28 DEF ReadEnd
<1>29. CASE DrainOne
  BY <1>29 DEF DrainOne
<1>30. CASE PostTerminal
  BY <1>30 DEF PostTerminal
<1>31. CASE ChildEmits
  BY <1>31 DEF ChildEmits
<1>32. CASE ChildExits
  BY <1>32 DEF ChildExits
<1>33. CASE UNCHANGED vars
  BY <1>33 DEF vars
<1> QED
  BY <1>1, <1>2, <1>3, <1>4, <1>5, <1>6, <1>7, <1>8, <1>9, <1>10, <1>11, <1>12,
     <1>13, <1>14, <1>15, <1>16, <1>17, <1>18, <1>19, <1>20, <1>21, <1>22, <1>23,
     <1>24, <1>25, <1>26, <1>27, <1>28, <1>29, <1>30, <1>31, <1>32, <1>33
     DEF Next, Begin, Step, Handshake, Send, Receive, Closing, Reader, Child

\* The overflow: only the reader's own steps disturb it, and a consumer can only
\* take the sentinel away.
LEMMA OverflowPreserved == TypeOK /\ Roles /\ Overflow /\ [Next]_vars => Overflow'
<1> SUFFICES ASSUME TypeOK, Roles, Overflow, [Next]_vars PROVE Overflow'
  OBVIOUS
<1> USE DEF TypeOK, Roles, Overflow, Terminate, Goto, Report, Leave, Fail, status, process,
        client, history, stdoutVars, AllocateId, Refusal, Sentinel
<1>1. CASE Enter
  BY <1>1 DEF Enter
<1>2. CASE EnterRefused
  BY <1>2 DEF EnterRefused
<1>3. CASE LaunchCheck
  BY <1>3 DEF LaunchCheck
<1>4. CASE Launch
  BY <1>4 DEF Launch
<1>5. CASE LaunchFails
  BY <1>5 DEF LaunchFails
<1>6. ASSUME NEW t \in Threads, StartCall(t) PROVE Overflow'
  BY <1>6 DEF StartCall
<1>7. ASSUME NEW t \in Threads, CallRefused(t) PROVE Overflow'
  BY <1>7 DEF CallRefused
<1>8. ASSUME NEW t \in Threads, AcquireLock(t) PROVE Overflow'
  BY <1>8 DEF AcquireLock
<1>9. ASSUME NEW t \in Threads, SendCheck(t) PROVE Overflow'
  BY <1>9 DEF SendCheck
<1>10. ASSUME NEW t \in Threads, SendRefused(t) PROVE Overflow'
  BY <1>10 DEF SendRefused
<1>11. ASSUME NEW t \in Threads, EncodeFails(t) PROVE Overflow'
  BY <1>11 DEF EncodeFails
<1>12. ASSUME NEW t \in Threads, Write(t) PROVE Overflow'
  BY <1>12 DEF Write
<1>13. ASSUME NEW t \in Threads, WriteFails(t) PROVE Overflow'
  BY <1>13 DEF WriteFails
<1>14. ASSUME NEW t \in Threads, Flush(t) PROVE Overflow'
  BY <1>14 DEF Flush
<1>15. ASSUME NEW t \in Threads, FlushNotification(t) PROVE Overflow'
  BY <1>15 DEF FlushNotification
<1>16. ASSUME NEW t \in Threads, FlushFails(t) PROVE Overflow'
  BY <1>16 DEF FlushFails
<1>17. ASSUME NEW t \in Threads, TakeResult(t) PROVE Overflow'
  BY <1>17 DEF TakeResult
<1>18. ASSUME NEW t \in Threads, TakeFailure(t) PROVE Overflow'
  BY <1>18 DEF TakeFailure
<1>19. ASSUME NEW t \in Threads, TakeTerminal(t) PROVE Overflow'
  BY <1>19 DEF TakeTerminal
<1>20. ASSUME NEW t \in Threads, Timeout(t) PROVE Overflow'
  BY <1>20 DEF Timeout
<1>21. ASSUME NEW t \in Threads, Kill(t) PROVE Overflow'
  BY <1>21 DEF Kill
<1>22. ASSUME NEW t \in Threads, StartClose(t) PROVE Overflow'
  BY <1>22 DEF StartClose
<1>23. ASSUME NEW t \in Threads, Close(t) PROVE Overflow'
  BY <1>23 DEF Close
<1>24. ASSUME NEW t \in Threads, Stop(t) PROVE Overflow'
  BY <1>24 DEF Stop
<1>25. ASSUME NEW t \in Threads, ClosePipes(t) PROVE Overflow'
  BY <1>25 DEF ClosePipes
<1>26. CASE ReadLine
  BY <1>26 DEF ReadLine
<1>27. CASE ReadGivesUp
  BY <1>27 DEF ReadGivesUp
<1>28. CASE ReadEnd
  BY <1>28 DEF ReadEnd
<1>29. CASE DrainOne
  BY <1>29 DEF DrainOne
<1>30. CASE PostTerminal
  BY <1>30 DEF PostTerminal
<1>31. CASE ChildEmits
  BY <1>31 DEF ChildEmits
<1>32. CASE ChildExits
  BY <1>32 DEF ChildExits
<1>33. CASE UNCHANGED vars
  BY <1>33 DEF vars
<1> QED
  BY <1>1, <1>2, <1>3, <1>4, <1>5, <1>6, <1>7, <1>8, <1>9, <1>10, <1>11, <1>12,
     <1>13, <1>14, <1>15, <1>16, <1>17, <1>18, <1>19, <1>20, <1>21, <1>22, <1>23,
     <1>24, <1>25, <1>26, <1>27, <1>28, <1>29, <1>30, <1>31, <1>32, <1>33
     DEF Next, Begin, Step, Handshake, Send, Receive, Closing, Reader, Child

-----------------------------------------------------------------------------
(* The inductive invariant and the theorems.                               *)

\* A session that was never entered satisfies the invariant.
LEMMA InitIInv == Init => IInv
<1> SUFFICES ASSUME Init PROVE IInv
  OBVIOUS
<1> USE DEF Init
<1>1. TypeOK
  <2>1. NoResult \in Results
    BY DEF Results, NoResult, Ops, Codes
  <2>2. result \in [Threads -> Results]
    BY <2>1
  <2>3. queue \in Seq(Line) /\ Len(queue) <= Capacity
    OBVIOUS
  <2>4. pc \in [Threads -> Phases] /\ op \in [Threads -> Ops] /\ req \in [Threads -> Nat]
    BY DEF Phases, Ops
  <2>5. pipe \in Seq(Line) /\ written \in SUBSET Nat /\ served \in SUBSET Nat
    OBVIOUS
  <2>6. initialized \in BOOLEAN /\ closed \in BOOLEAN /\ pipesOpen \in BOOLEAN
    OBVIOUS
  <2>7. nextId \in Nat \ {0} /\ calls \in Nat /\ emitted \in Nat
    OBVIOUS
  <2>8. /\ lock \in Threads \union {NoThread}
        /\ reader \in {"none", "reading", "draining", "done"}
        /\ terminal \in Sentinels
        /\ child \in {"none", "running", "exited"}
    BY DEF Sentinels
  <2> HIDE DEF Init
  <2> QED
    BY <2>2, <2>3, <2>4, <2>5, <2>6, <2>7, <2>8 DEF TypeOK
<1>2. LockOwner /\ Roles
  BY DEF LockOwner, Roles, Exchanging
<1>3. Ids
  BY DEF Ids, NoResult
<1>4. AnswersMatch /\ FlagIsTruthful
  BY DEF AnswersMatch, FlagIsTruthful, NoResult
<1>5. Overflow
  BY DEF Overflow
<1> QED
  BY <1>1, <1>2, <1>3, <1>4, <1>5 DEF IInv

\* Every action of a thread, of the reader and of the child preserves it.
LEMMA NextIInv == IInv /\ [Next]_vars => IInv'
<1> SUFFICES ASSUME IInv, [Next]_vars PROVE IInv'
  OBVIOUS
<1>1. TypeOK'
  BY TypePreserved DEF IInv
<1>2. LockOwner' /\ Roles'
  BY RolesPreserved DEF IInv
<1>3. Ids'
  BY Exclusion, IdsPreserved DEF IInv
<1>4. AnswersMatch' /\ FlagIsTruthful'
  BY ResultsPreserved DEF IInv
<1>5. Overflow'
  BY OverflowPreserved DEF IInv
<1> QED
  BY <1>1, <1>2, <1>3, <1>4, <1>5 DEF IInv

\* Every reachable state satisfies the inductive invariant.
THEOREM Invariant == Spec => []IInv
  BY InitIInv, NextIInv, PTL DEF Spec

\* Type correctness, and the queue never holds more than max_queue_size items.
THEOREM TypeCorrect == Spec => []TypeOK
<1>1. IInv => TypeOK
  BY DEF IInv
<1> QED
  BY Invariant, <1>1, PTL

\* However many threads share a session, no two exchanges with the child are
\* ever open at once, the handshake that takes no lock included.
THEOREM Serialized == Spec => []OneRequestAtATime
<1>1. IInv => OneRequestAtATime
  BY Exclusion DEF IInv
<1> QED
  BY Invariant, <1>1, PTL

\* call_tool never returns the answer to another request, whatever the child
\* repeats, delays, reorders or makes up.
THEOREM Correlated == Spec => []AnswersMatch
<1>1. IInv => AnswersMatch
  BY DEF IInv
<1> QED
  BY Invariant, <1>1, PTL

\* network_request_sent of a failed call, or of a handshake that fails before its
\* answer, tells whether the request reached the child, at whatever point close(),
\* the child's exit or a timeout cut it short; after the answer it need not.
THEOREM Truthful == Spec => []FlagIsTruthful
<1>1. IInv => FlagIsTruthful
  BY DEF IInv
<1> QED
  BY Invariant, <1>1, PTL

\* The ids written to the child strictly increase.
THEOREM IdsGrow == Spec => RequestIdsIncrease
<1> DEFINE A == \A t \in Threads :
        pc[t] = "write" /\ pc'[t] = "flush" /\ op[t] # "notify" =>
            \A i \in written : i < req[t]
<1>1. IInv => A
  BY DEF IInv, Ids
<1>2. IInv /\ [Next]_vars => [A]_vars
  BY <1>1
<1> QED
  BY Invariant, <1>2, PTL DEF Spec, RequestIdsIncrease

\* After an overflow or an oversized line no request is ever answered again.
THEOREM FailClosed == Spec => FailClosedAfterOverflow
<1> DEFINE A == reader = "done" /\ terminal # "eof" => served' = served
<1>1. ASSUME IInv, [Next]_vars, reader = "done", terminal # "eof"
      PROVE  served' = served
  <2>1. \A t \in Threads : ~TakeResult(t)
    <3>1. queue = <<>> \/ Head(queue).kind = terminal
      BY <1>1 DEF IInv, Overflow, Sentinel
    <3> QED
      BY <1>1, <3>1 DEF IInv, TypeOK, TakeResult, Sentinels
  <2> QED
    BY <1>1, <2>1
       DEF Next, Begin, Step, Handshake, Send, Receive, Closing, Reader, Child, vars,
           history, process, Enter, EnterRefused, LaunchCheck, Launch, LaunchFails, StartCall,
           CallRefused, AcquireLock, SendCheck, SendRefused, EncodeFails, Write,
           WriteFails, Flush, FlushNotification, FlushFails, TakeFailure,
           TakeTerminal, Timeout, Kill, StartClose, Close, Stop, ClosePipes,
           ReadLine, ReadGivesUp, ReadEnd, DrainOne, PostTerminal, ChildEmits, ChildExits
<1>2. IInv /\ [Next]_vars => [A]_vars
  BY <1>1
<1> QED
  BY Invariant, <1>2, PTL DEF Spec, FailClosedAfterOverflow

-----------------------------------------------------------------------------
(* Closing, when only the thread of the `with` statement closes.           *)

OneCloser == Closers \subseteq {Opener}

\* The opener alone is ever in close(), and open pipes are on its way to it.
CleanInv ==
    /\ \A t \in Threads \ {Opener} : pc[t] \notin {"close", "stop", "close_pipes"}
    /\ pc[Opener] \in {"launch", "popen"} => ~closed
    /\ child = "none" => ~pipesOpen
    /\ pipesOpen /\ closed => pc[Opener] \in {"stop", "close_pipes"}
    /\ pipesOpen /\ ~initialized => pc[Opener] # "idle"

\* Every action keeps open pipes on the opener's way.
LEMMA CleanPreserved ==
    OneCloser /\ TypeOK /\ Roles /\ CleanInv /\ [Next]_vars => CleanInv'
<1> SUFFICES ASSUME OneCloser, TypeOK, Roles, CleanInv, [Next]_vars PROVE CleanInv'
  OBVIOUS
<1> USE DEF OneCloser, TypeOK, Roles, CleanInv, Exchanging, Goto, Report, Leave, Fail, status,
        stdoutVars, process, client, history, AllocateId, Terminate
<1>1. CASE Enter
  BY <1>1 DEF Enter
<1>2. CASE EnterRefused
  BY <1>2 DEF EnterRefused
<1>3. CASE LaunchCheck
  BY <1>3 DEF LaunchCheck
<1>4. CASE Launch
  BY <1>4 DEF Launch
<1>5. CASE LaunchFails
  BY <1>5 DEF LaunchFails
<1>6. ASSUME NEW t \in Threads, StartCall(t) PROVE CleanInv'
  BY <1>6 DEF StartCall
<1>7. ASSUME NEW t \in Threads, CallRefused(t) PROVE CleanInv'
  BY <1>7 DEF CallRefused
<1>8. ASSUME NEW t \in Threads, AcquireLock(t) PROVE CleanInv'
  BY <1>8 DEF AcquireLock
<1>9. ASSUME NEW t \in Threads, SendCheck(t) PROVE CleanInv'
  BY <1>9 DEF SendCheck
<1>10. ASSUME NEW t \in Threads, SendRefused(t) PROVE CleanInv'
  BY <1>10 DEF SendRefused
<1>11. ASSUME NEW t \in Threads, EncodeFails(t) PROVE CleanInv'
  BY <1>11 DEF EncodeFails
<1>12. ASSUME NEW t \in Threads, Write(t) PROVE CleanInv'
  BY <1>12 DEF Write
<1>13. ASSUME NEW t \in Threads, WriteFails(t) PROVE CleanInv'
  BY <1>13 DEF WriteFails
<1>14. ASSUME NEW t \in Threads, Flush(t) PROVE CleanInv'
  BY <1>14 DEF Flush
<1>15. ASSUME NEW t \in Threads, FlushNotification(t) PROVE CleanInv'
  BY <1>15 DEF FlushNotification
<1>16. ASSUME NEW t \in Threads, FlushFails(t) PROVE CleanInv'
  BY <1>16 DEF FlushFails
<1>17. ASSUME NEW t \in Threads, TakeResult(t) PROVE CleanInv'
  BY <1>17 DEF TakeResult
<1>18. ASSUME NEW t \in Threads, TakeFailure(t) PROVE CleanInv'
  BY <1>18 DEF TakeFailure
<1>19. ASSUME NEW t \in Threads, TakeTerminal(t) PROVE CleanInv'
  BY <1>19 DEF TakeTerminal
<1>20. ASSUME NEW t \in Threads, Timeout(t) PROVE CleanInv'
  BY <1>20 DEF Timeout
<1>21. ASSUME NEW t \in Threads, Kill(t) PROVE CleanInv'
  BY <1>21 DEF Kill
<1>22. ASSUME NEW t \in Threads, StartClose(t) PROVE CleanInv'
  BY <1>22 DEF StartClose
<1>23. ASSUME NEW t \in Threads, Close(t) PROVE CleanInv'
  BY <1>23 DEF Close
<1>24. ASSUME NEW t \in Threads, Stop(t) PROVE CleanInv'
  BY <1>24 DEF Stop
<1>25. ASSUME NEW t \in Threads, ClosePipes(t) PROVE CleanInv'
  BY <1>25 DEF ClosePipes
<1>26. CASE ReadLine
  BY <1>26 DEF ReadLine
<1>27. CASE ReadGivesUp
  BY <1>27 DEF ReadGivesUp
<1>28. CASE ReadEnd
  BY <1>28 DEF ReadEnd
<1>29. CASE DrainOne
  BY <1>29 DEF DrainOne
<1>30. CASE PostTerminal
  BY <1>30 DEF PostTerminal
<1>31. CASE ChildEmits
  BY <1>31 DEF ChildEmits
<1>32. CASE ChildExits
  BY <1>32 DEF ChildExits
<1>33. CASE UNCHANGED vars
  BY <1>33 DEF vars
<1> QED
  BY <1>1, <1>2, <1>3, <1>4, <1>5, <1>6, <1>7, <1>8, <1>9, <1>10, <1>11, <1>12,
     <1>13, <1>14, <1>15, <1>16, <1>17, <1>18, <1>19, <1>20, <1>21, <1>22, <1>23,
     <1>24, <1>25, <1>26, <1>27, <1>28, <1>29, <1>30, <1>31, <1>32, <1>33
     DEF Next, Begin, Step, Handshake, Send, Receive, Closing, Reader, Child

\* Nothing is left behind: where one thread opens and closes a session, the pipes
\* of its child are shut once it is closed or was not entered, whatever failed.
\* With a second thread that closes this is false: the close_race run shows it.
THEOREM CleanedUp == ASSUME OneCloser PROVE Spec => []CloseCleansUp
<1>1. Init => CleanInv
  BY DEF Init, CleanInv
<1>2. IInv /\ CleanInv /\ [Next]_vars => CleanInv'
  BY CleanPreserved DEF IInv
<1>3. CleanInv => CloseCleansUp
  BY DEF CleanInv, CloseCleansUp
<1> QED
  BY Invariant, <1>1, <1>2, <1>3, PTL DEF Spec

-----------------------------------------------------------------------------
(* The session implements SerialRpc, step by step.                         *)

\* Answers are read, and the child is killed, for a request alone.
ReadingInv == \A t \in Threads : pc[t] \in {"read", "kill"} => op[t] # "notify"

CurrentIsOnes ==
    /\ \A t \in Threads : OneRequestAtATime /\ InProgress(t) => CurrentRequest = req[t]
    /\ (\A t \in Threads : ~InProgress(t)) => CurrentRequest = 0

\* The request in progress is that of the one thread that has one.
LEMMA CurrentIsOne == CurrentIsOnes
<1>1. ASSUME NEW t \in Threads, OneRequestAtATime, InProgress(t)
      PROVE  CurrentRequest = req[t]
  <2>1. \A u \in Threads : InProgress(u) => u = t
    BY <1>1 DEF OneRequestAtATime, InProgress
  <2>2. (CHOOSE u \in Threads : InProgress(u)) = t
    BY <1>1, <2>1
  <2> QED
    BY <1>1, <2>2 DEF CurrentRequest
<1>2. (\A t \in Threads : ~InProgress(t)) => CurrentRequest = 0
  BY DEF CurrentRequest
<1> QED
  BY <1>1, <1>2 DEF CurrentIsOnes

\* The same of the state after a step.
LEMMA CurrentIsOneNext == CurrentIsOnes'
BY CurrentIsOne, PTL

\* A thread that goes on with its request changes nothing of the promise.
LEMMA GoesOn ==
  ASSUME OneRequestAtATime, OneRequestAtATime',
         \A t \in Threads : InProgress(t)' <=> InProgress(t),
         \A t \in Threads : InProgress(t) => req'[t] = req[t]
  PROVE  CurrentRequest' = CurrentRequest
<1>1. CASE \E t \in Threads : InProgress(t)
  <2>1. PICK t \in Threads : InProgress(t)
    BY <1>1
  <2> QED
    BY <2>1, CurrentIsOne, CurrentIsOneNext DEF CurrentIsOnes
<1>2. CASE \A t \in Threads : ~InProgress(t)
  BY <1>2, CurrentIsOne, CurrentIsOneNext DEF CurrentIsOnes
<1> QED
  BY <1>1, <1>2

\* One that ends its request, or has none, leaves none in progress.
LEMMA Ends ==
  ASSUME OneRequestAtATime, NEW t \in Threads, Exchanging(t), ~InProgress(t)',
         \A u \in Threads \ {t} : InProgress(u)' => InProgress(u)
  PROVE  /\ CurrentRequest' = 0
         /\ InProgress(t) => CurrentRequest = req[t]
         /\ ~InProgress(t) => CurrentRequest = 0
<1>1. \A u \in Threads : InProgress(u) => u = t
  BY DEF OneRequestAtATime, InProgress
<1>2. \A u \in Threads : ~InProgress(u)'
  BY <1>1
<1> QED
  BY <1>1, <1>2, CurrentIsOne, CurrentIsOneNext DEF CurrentIsOnes

\* Every action keeps it: a notification is never waited for.
LEMMA ReadingPreserved == TypeOK /\ Roles /\ ReadingInv /\ [Next]_vars => ReadingInv'
<1> SUFFICES ASSUME TypeOK, Roles, ReadingInv, [Next]_vars PROVE ReadingInv'
  OBVIOUS
<1> USE DEF TypeOK, Roles, ReadingInv, Exchanging, Goto, Report, Leave, Fail, status,
        stdoutVars, process, client, history, AllocateId, Terminate
<1>1. CASE Enter
  BY <1>1 DEF Enter
<1>2. CASE EnterRefused
  BY <1>2 DEF EnterRefused
<1>3. CASE LaunchCheck
  BY <1>3 DEF LaunchCheck
<1>4. CASE Launch
  BY <1>4 DEF Launch
<1>5. CASE LaunchFails
  BY <1>5 DEF LaunchFails
<1>6. ASSUME NEW t \in Threads, StartCall(t) PROVE ReadingInv'
  BY <1>6 DEF StartCall
<1>7. ASSUME NEW t \in Threads, CallRefused(t) PROVE ReadingInv'
  BY <1>7 DEF CallRefused
<1>8. ASSUME NEW t \in Threads, AcquireLock(t) PROVE ReadingInv'
  BY <1>8 DEF AcquireLock
<1>9. ASSUME NEW t \in Threads, SendCheck(t) PROVE ReadingInv'
  BY <1>9 DEF SendCheck
<1>10. ASSUME NEW t \in Threads, SendRefused(t) PROVE ReadingInv'
  BY <1>10 DEF SendRefused
<1>11. ASSUME NEW t \in Threads, EncodeFails(t) PROVE ReadingInv'
  BY <1>11 DEF EncodeFails
<1>12. ASSUME NEW t \in Threads, Write(t) PROVE ReadingInv'
  BY <1>12 DEF Write
<1>13. ASSUME NEW t \in Threads, WriteFails(t) PROVE ReadingInv'
  BY <1>13 DEF WriteFails
<1>14. ASSUME NEW t \in Threads, Flush(t) PROVE ReadingInv'
  BY <1>14 DEF Flush
<1>15. ASSUME NEW t \in Threads, FlushNotification(t) PROVE ReadingInv'
  BY <1>15 DEF FlushNotification
<1>16. ASSUME NEW t \in Threads, FlushFails(t) PROVE ReadingInv'
  BY <1>16 DEF FlushFails
<1>17. ASSUME NEW t \in Threads, TakeResult(t) PROVE ReadingInv'
  BY <1>17 DEF TakeResult
<1>18. ASSUME NEW t \in Threads, TakeFailure(t) PROVE ReadingInv'
  BY <1>18 DEF TakeFailure
<1>19. ASSUME NEW t \in Threads, TakeTerminal(t) PROVE ReadingInv'
  BY <1>19 DEF TakeTerminal
<1>20. ASSUME NEW t \in Threads, Timeout(t) PROVE ReadingInv'
  BY <1>20 DEF Timeout
<1>21. ASSUME NEW t \in Threads, Kill(t) PROVE ReadingInv'
  BY <1>21 DEF Kill
<1>22. ASSUME NEW t \in Threads, StartClose(t) PROVE ReadingInv'
  BY <1>22 DEF StartClose
<1>23. ASSUME NEW t \in Threads, Close(t) PROVE ReadingInv'
  BY <1>23 DEF Close
<1>24. ASSUME NEW t \in Threads, Stop(t) PROVE ReadingInv'
  BY <1>24 DEF Stop
<1>25. ASSUME NEW t \in Threads, ClosePipes(t) PROVE ReadingInv'
  BY <1>25 DEF ClosePipes
<1>26. CASE ReadLine
  BY <1>26 DEF ReadLine
<1>27. CASE ReadGivesUp
  BY <1>27 DEF ReadGivesUp
<1>28. CASE ReadEnd
  BY <1>28 DEF ReadEnd
<1>29. CASE DrainOne
  BY <1>29 DEF DrainOne
<1>30. CASE PostTerminal
  BY <1>30 DEF PostTerminal
<1>31. CASE ChildEmits
  BY <1>31 DEF ChildEmits
<1>32. CASE ChildExits
  BY <1>32 DEF ChildExits
<1>33. CASE UNCHANGED vars
  BY <1>33 DEF vars
<1> QED
  BY <1>1, <1>2, <1>3, <1>4, <1>5, <1>6, <1>7, <1>8, <1>9, <1>10, <1>11, <1>12,
     <1>13, <1>14, <1>15, <1>16, <1>17, <1>18, <1>19, <1>20, <1>21, <1>22, <1>23,
     <1>24, <1>25, <1>26, <1>27, <1>28, <1>29, <1>30, <1>31, <1>32, <1>33
     DEF Next, Begin, Step, Handshake, Send, Receive, Closing, Reader, Child

\* A step of SerialRpc, or of nothing it knows.
RpcStep == Rpc!Next \/ UNCHANGED Rpc!abstractVars

\* A request in progress has an id.
LEMMA HasId ==
  ASSUME IInv, NEW t \in Threads, InProgress(t)
  PROVE  req[t] \in Nat /\ req[t] # 0
BY DEF IInv, TypeOK, Ids, InProgress, Exchanging

\* Before and after a step, requests are apart.
LEMMA Apart == IInv => OneRequestAtATime
BY Exclusion DEF IInv

\* And so they are after it.
LEMMA ApartNext == IInv' => OneRequestAtATime'
BY Apart, PTL

\* Steps outside the exchanges are steps of nobody's request.
LEMMA Stutters ==
  ASSUME IInv, IInv', nextId' = nextId, written' = written, served' = served,
         \A t \in Threads : InProgress(t)' <=> InProgress(t),
         \A t \in Threads : InProgress(t) => req'[t] = req[t]
  PROVE  RpcStep
<1>1. OneRequestAtATime /\ OneRequestAtATime'
  BY Apart, ApartNext
<1>2. CurrentRequest' = CurrentRequest
  BY <1>1, GoesOn
<1> QED
  BY <1>2 DEF RpcStep, Rpc!abstractVars

\* A failure ends the request in progress, if it was in one.
LEMMA GivesUp ==
  ASSUME IInv, nextId' = nextId, written' = written, served' = served,
         NEW t \in Threads, Exchanging(t), ~InProgress(t)',
         \A u \in Threads \ {t} : InProgress(u)' => InProgress(u)
  PROVE  RpcStep
<1>1. OneRequestAtATime
  BY Apart
<1>2. CASE InProgress(t)
  <2>1. CurrentRequest' = 0 /\ CurrentRequest # 0
    BY <1>1, <1>2, Ends, HasId
  <2> QED
    BY <2>1 DEF RpcStep, Rpc!Next, Rpc!GiveUp
<1>3. CASE ~InProgress(t)
  <2>1. CurrentRequest' = 0 /\ CurrentRequest = 0
    BY <1>1, <1>3, Ends
  <2> QED
    BY <2>1 DEF RpcStep, Rpc!abstractVars
<1> QED
  BY <1>2, <1>3

\* A new id, when no request is in progress, begins one.
LEMMA Begins ==
  ASSUME IInv, IInv', nextId' = nextId + 1, written' = written, served' = served,
         NEW t \in Threads, \A u \in Threads : ~InProgress(u),
         InProgress(t)', req'[t] = nextId
  PROVE  RpcStep
<1>1. OneRequestAtATime'
  BY ApartNext
<1>2. CurrentRequest = 0 /\ CurrentRequest' = nextId
  BY <1>1, CurrentIsOne, CurrentIsOneNext DEF CurrentIsOnes
<1>3. nextId' - 1 = nextId - 1 + 1 /\ nextId = nextId - 1 + 1
  BY DEF IInv, TypeOK
<1> QED
  BY <1>2, <1>3 DEF RpcStep, Rpc!Next, Rpc!Begin

\* Each step of a session is a step of SerialRpc or none.
LEMMA RpcNext == IInv /\ IInv' /\ ReadingInv /\ [Next]_vars => RpcStep
<1> SUFFICES ASSUME IInv, IInv', ReadingInv, [Next]_vars PROVE RpcStep
  OBVIOUS
<1>0. TypeOK /\ Roles /\ LockOwner /\ Ids
  BY DEF IInv
<1> USE <1>0 DEF TypeOK, Roles, ReadingInv, InProgress, Exchanging, Goto, Report, Leave, Fail,
        status, stdoutVars, process, client, history, AllocateId, vars
<1>1. CASE Enter
  BY <1>1, Stutters DEF Enter
<1>2. CASE EnterRefused
  BY <1>2, Stutters DEF EnterRefused
<1>3. CASE LaunchCheck
  BY <1>3, Stutters DEF LaunchCheck
<1>4. CASE Launch
  <2>1. \A u \in Threads : ~InProgress(u)
    BY <1>4 DEF Launch
  <2> QED
    BY <1>4, <2>1, Begins DEF Launch
<1>5. CASE LaunchFails
  BY <1>5, Stutters DEF LaunchFails
<1>6. ASSUME NEW t \in Threads, StartCall(t) PROVE RpcStep
  BY <1>6, Stutters DEF StartCall
<1>7. ASSUME NEW t \in Threads, CallRefused(t) PROVE RpcStep
  BY <1>7, Stutters DEF CallRefused
<1>8. ASSUME NEW t \in Threads, AcquireLock(t) PROVE RpcStep
  <2>1. \A u \in Threads : ~InProgress(u)
    BY <1>8 DEF AcquireLock, LockFree, LockOwner
  <2> QED
    BY <1>8, <2>1, Begins DEF AcquireLock
<1>9. ASSUME NEW t \in Threads, SendCheck(t) PROVE RpcStep
  BY <1>9, Stutters DEF SendCheck
<1>10. ASSUME NEW t \in Threads, SendRefused(t) PROVE RpcStep
  BY <1>10, GivesUp DEF SendRefused
<1>11. ASSUME NEW t \in Threads, EncodeFails(t) PROVE RpcStep
  BY <1>11, GivesUp DEF EncodeFails
<1>12. ASSUME NEW t \in Threads, Write(t) PROVE RpcStep
  <2>1. CASE op[t] = "notify"
    BY <1>12, <2>1, Stutters DEF Write
  <2>2. CASE op[t] # "notify"
    <3>1. InProgress(t) /\ req[t] \notin written
      BY <1>12, <2>2 DEF Write, Ids
    <3>2. CurrentRequest = req[t] /\ CurrentRequest # 0
      BY <3>1, Apart, CurrentIsOne, HasId DEF CurrentIsOnes
    <3>3. CurrentRequest' = CurrentRequest
      BY <1>12, Apart, ApartNext, GoesOn DEF Write
    <3>4. written' = written \union {CurrentRequest} /\ nextId' = nextId /\ served' = served
      BY <1>12, <2>2, <3>2 DEF Write
    <3> QED
      BY <3>1, <3>2, <3>3, <3>4 DEF RpcStep, Rpc!Next, Rpc!Deliver
  <2> QED
    BY <2>1, <2>2
<1>13. ASSUME NEW t \in Threads, WriteFails(t) PROVE RpcStep
  BY <1>13, GivesUp DEF WriteFails
<1>14. ASSUME NEW t \in Threads, Flush(t) PROVE RpcStep
  BY <1>14, Stutters DEF Flush
<1>15. ASSUME NEW t \in Threads, FlushNotification(t) PROVE RpcStep
  BY <1>15, Stutters DEF FlushNotification
<1>16. ASSUME NEW t \in Threads, FlushFails(t) PROVE RpcStep
  BY <1>16, GivesUp DEF FlushFails
<1>17. ASSUME NEW t \in Threads, TakeResult(t) PROVE RpcStep
  <2>1. InProgress(t) /\ req[t] \in written
    BY <1>17 DEF TakeResult, Ids
  <2>2. ~InProgress(t)' /\ \A u \in Threads \ {t} : InProgress(u)' => InProgress(u)
    BY <1>17, <2>1 DEF TakeResult
  <2>3. CurrentRequest = req[t] /\ CurrentRequest' = 0
    BY <2>1, <2>2, Apart, Ends
  <2>4. /\ served' = served \union {CurrentRequest} /\ nextId' = nextId /\ written' = written
        /\ CurrentRequest \in written
    BY <1>17, <2>1, <2>3 DEF TakeResult
  <2> QED
    BY <2>3, <2>4 DEF RpcStep, Rpc!Next, Rpc!Answer
<1>18. ASSUME NEW t \in Threads, TakeFailure(t) PROVE RpcStep
  BY <1>18, GivesUp DEF TakeFailure
<1>19. ASSUME NEW t \in Threads, TakeTerminal(t) PROVE RpcStep
  BY <1>19, Stutters DEF TakeTerminal
<1>20. ASSUME NEW t \in Threads, Timeout(t) PROVE RpcStep
  BY <1>20, Stutters DEF Timeout
<1>21. ASSUME NEW t \in Threads, Kill(t) PROVE RpcStep
  BY <1>21, GivesUp DEF Kill
<1>22. ASSUME NEW t \in Threads, StartClose(t) PROVE RpcStep
  BY <1>22, Stutters DEF StartClose
<1>23. ASSUME NEW t \in Threads, Close(t) PROVE RpcStep
  BY <1>23, Stutters DEF Close
<1>24. ASSUME NEW t \in Threads, Stop(t) PROVE RpcStep
  BY <1>24, Stutters DEF Stop
<1>25. ASSUME NEW t \in Threads, ClosePipes(t) PROVE RpcStep
  BY <1>25, Stutters DEF ClosePipes
<1>26. CASE ReadLine
  BY <1>26, Stutters DEF ReadLine
<1>27. CASE ReadGivesUp
  BY <1>27, Stutters DEF ReadGivesUp
<1>28. CASE ReadEnd
  BY <1>28, Stutters DEF ReadEnd
<1>29. CASE DrainOne
  BY <1>29, Stutters DEF DrainOne
<1>30. CASE PostTerminal
  BY <1>30, Stutters DEF PostTerminal
<1>31. CASE ChildEmits
  BY <1>31, Stutters DEF ChildEmits
<1>32. CASE ChildExits
  BY <1>32, Stutters DEF ChildExits
<1>33. CASE UNCHANGED vars
  BY <1>33, Stutters DEF vars
<1> QED
  BY <1>1, <1>2, <1>3, <1>4, <1>5, <1>6, <1>7, <1>8, <1>9, <1>10, <1>11, <1>12,
     <1>13, <1>14, <1>15, <1>16, <1>17, <1>18, <1>19, <1>20, <1>21, <1>22, <1>23,
     <1>24, <1>25, <1>26, <1>27, <1>28, <1>29, <1>30, <1>31, <1>32, <1>33
     DEF Next, Begin, Step, Handshake, Send, Receive, Closing, Reader, Child

\* Whatever threads and child do, a session does what SerialRpc allows: requests
\* are numbered and handled one at a time, answered only when they were delivered
\* and each by its own answer, or given up.
THEOREM SerialRequests == Spec => Rpc!Init /\ [][Rpc!Next]_(Rpc!abstractVars)
<1>1. Init => Rpc!Init
  <2> SUFFICES ASSUME Init PROVE Rpc!Init
    OBVIOUS
  <2>1. \A t \in Threads : ~InProgress(t)
    BY DEF Init, InProgress, Exchanging
  <2>2. CurrentRequest = 0
    BY <2>1, CurrentIsOne DEF CurrentIsOnes
  <2> QED
    BY <2>2 DEF Init, Rpc!Init
<1>2. Init => ReadingInv
  BY DEF Init, ReadingInv
<1>3. IInv /\ ReadingInv /\ [Next]_vars => ReadingInv'
  BY ReadingPreserved DEF IInv
<1>4. IInv /\ IInv' /\ ReadingInv /\ [Next]_vars => [Rpc!Next]_(Rpc!abstractVars)
  BY RpcNext DEF RpcStep
<1> QED
  BY Invariant, <1>1, <1>2, <1>3, <1>4, PTL DEF Spec

=============================================================================
