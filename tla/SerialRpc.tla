----------------------------- MODULE SerialRpc -----------------------------
(***************************************************************************)
(* What an MCP session promises its callers, whatever their number and     *)
(* whatever the child does: requests are numbered 1, 2, 3, ... and handled *)
(* one at a time; each ends once, with the answer to itself or with a      *)
(* failure; one is answered only after it was delivered; every one ends.   *)
(*                                                                         *)
(* This is the abstract side of McpStdioSession.call_tool: it has neither  *)
(* lock, queue, reader nor child.                                          *)
(***************************************************************************)
EXTENDS Naturals

VARIABLES
    last,       \* the id of the latest request, 0 before the first
    current,    \* the request in progress, 0 when there is none
    delivered,  \* the requests the server was sent
    answered    \* the requests that ended with their own answer

abstractVars == <<last, current, delivered, answered>>

Init ==
    /\ last = 0
    /\ current = 0
    /\ delivered = {}
    /\ answered = {}

Begin ==
    /\ current = 0
    /\ last' = last + 1
    /\ current' = last + 1
    /\ UNCHANGED <<delivered, answered>>

Deliver ==
    /\ current # 0 /\ current \notin delivered
    /\ delivered' = delivered \union {current}
    /\ UNCHANGED <<last, current, answered>>

Answer ==
    /\ current \in delivered
    /\ answered' = answered \union {current}
    /\ current' = 0
    /\ UNCHANGED <<last, delivered>>

GiveUp ==
    /\ current # 0
    /\ current' = 0
    /\ UNCHANGED <<last, delivered, answered>>

Next == Begin \/ Deliver \/ Answer \/ GiveUp

\* A request in progress does not stay in progress for ever.
Spec == Init /\ [][Next]_abstractVars /\ WF_abstractVars(Answer \/ GiveUp)
=============================================================================
