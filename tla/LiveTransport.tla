--------------------------- MODULE LiveTransport ---------------------------
(***************************************************************************)
(* OnshapeMcpReadTransport (src/onshape_agent/live_transport.py) with any  *)
(* user: preflight and dispatch are called in any order and any number of  *)
(* times, with any actions, over a session whose calls do anything of      *)
(* Results.                                                                *)
(***************************************************************************)
EXTENDS LiveReads

CONSTANTS
    Scopes,    \* the scopes a transport may be made with or a plan may have
    Actions,   \* the actions it may be handed
    Results    \* what call_tool may do

ASSUME ScopesAssumption == Scopes \subseteq Scope
ASSUME ResultsAssumption == \A x \in Results : IsResult(x)

VARIABLES
    scope,     \* _scope: the transport's own copy
    accepted,  \* history: the actions preflight accepted last
    last       \* the call that has returned and what it returned or raised

vars == <<scope, accepted, last>>

Nothing == [kind |-> "nothing"]
NoCall == [call |-> "none", actions |-> <<>>, code |-> "none",
           request |-> Nothing, result |-> Nothing, receipt |-> Nothing]

Init ==
    /\ scope \in Scopes
    /\ accepted = {}
    /\ last = NoCall

\* Mutant: an action's parameters are looked at only when it is dispatched.
PreflightDenialLate(planned, actions) ==
    IF planned # scope THEN "SCOPE_MISMATCH"
    ELSE IF \E i \in DOMAIN actions : actions[i].read_kind \notin Operations
    THEN "OPERATION_DENIED" ELSE "none"

\* preflight: refused for another scope than the transport's, or for one action.
PreflightDenial(planned, actions) ==
    IF planned # scope THEN "SCOPE_MISMATCH"
    ELSE LET denied == {i \in DOMAIN actions : Denial(scope, actions[i]) # "none"} IN
         IF denied = {} THEN "none"
         ELSE Denial(scope, actions[CHOOSE i \in denied : \A j \in denied : i <= j])

Preflight(planned, actions) ==
    /\ last = NoCall
    /\ last' = [NoCall EXCEPT !.call = "preflight", !.actions = actions,
                              !.code = PreflightDenial(planned, actions)]
    /\ accepted' = IF last'.code = "none" THEN {actions[i] : i \in DOMAIN actions} ELSE accepted
    /\ UNCHANGED scope

DispatchDenied(action) ==
    /\ last = NoCall
    /\ Denial(scope, action) # "none"
    /\ last' = [NoCall EXCEPT !.call = "dispatch", !.actions = <<action>>,
                              !.code = Denial(scope, action)]
    /\ UNCHANGED <<scope, accepted>>

\* auth_status and read: one call of the session, and a receipt whatever it does.
Dispatch(action) ==
    /\ last = NoCall
    /\ Denial(scope, action) = "none"
    /\ \E result \in Results :
       \E receipt \in ReceiptsOf(action.read_kind, scope.document_id, result) :
          last' = [NoCall EXCEPT !.call = "dispatch", !.actions = <<action>>,
                       !.request = Arguments(scope, action.read_kind, action.parameters),
                       !.result = result, !.receipt = receipt]
    /\ UNCHANGED <<scope, accepted>>

\* The user has what the call returned and may call again.
Take ==
    /\ last # NoCall
    /\ last' = NoCall
    /\ UNCHANGED <<scope, accepted>>

Next ==
    \/ \E planned \in Scopes, a, b \in Actions : Preflight(planned, <<a, b>>)
    \/ \E a \in Actions : DispatchDenied(a) \/ Dispatch(a)
    \/ Take

Spec == Init /\ [][Next]_vars

-----------------------------------------------------------------------------
(* Properties.                                                             *)

\* Whatever an action asks for, a request names one of the fixed routes, all
\* the identifiers the route needs and no others, each the approved scope's,
\* and at most 100 documents: the assertions of _build_arguments never fail.
RequestsStayInScope ==
    LET q == last.request IN
    q # Nothing =>
        /\ q.operation \in Operations
        /\ DOMAIN q.path = Route[q.operation]
        /\ \A key \in DOMAIN q.path : q.path[key] = scope[key] /\ q.path[key] # None
        /\ q.query # <<>> => q.operation = "list_documents" /\ q.query[1] \in 1..100

\* A preflight accepts only the transport's own scope, and only actions every
\* parameter of which repeats the scope or is a limit within its bounds.
AcceptedIsHarmless ==
    \A a \in accepted :
        /\ a.type = "read_back" /\ a.read_kind \in Operations
        /\ \A key \in DOMAIN a.parameters :
              \/ key \in ScopeKeys /\ a.parameters[key] = scope[key]
              \/ key = "limit" /\ a.parameters[key] \in 1..100

\* An action that a preflight accepted is never refused when it is dispatched:
\* no plan stops half way on a policy decision that preflight could have made;
\* and what it accepted is harmless.
PreflightSuffices ==
    /\ AcceptedIsHarmless
    /\ last.call = "dispatch" /\ last.code # "none" => last.actions[1] \notin accepted

\* A receipt is of the operation that was called, says a request was sent
\* exactly if it reached the child, and SUCCEEDED only of a call that returned.
ReceiptsTruthful ==
    LET r == last.receipt IN
    r # Nothing =>
        /\ r \in ReadReceipt
        /\ r.operation = last.request.operation
        /\ r.sent <=> (last.result.kind = "returned" \/ last.result.written)
        /\ r.status = "SUCCEEDED" <=> r.verified
        /\ r.status = "SUCCEEDED" => last.result.kind = "returned"

Succeeded == last.receipt # Nothing /\ last.receipt.status = "SUCCEEDED"
Response == last.result.response

\* The codes of what a response has under its own code keys and in its errors.
ToldWithin(depth) ==
    {StatusCode(Response[p]) :
        p \in {q \in DOMAIN Response \ {<<>>} :
                  q[1] \in ErrorContainers \union CodeKeys /\ Len(q) <= depth}} \ {"none"}

\* No read succeeds of a response that has, however deep, the container of an
\* error, a status that is an error's or the message of a missing login; nor of
\* one that tells a code under a code key of its own.  (A nested statusCode or
\* code outside an error is nobody's: the code does not look at it.)
NoErrorPasses ==
    Succeeded =>
        /\ ToldWithin(8) = {}
        /\ \A p \in DOMAIN Response \ {<<>>} :
              /\ LastKey(p) \notin ErrorContainers
              /\ LastKey(p) = "status" /\ Len(p) > 1 => Response[p] \notin ErrorStatuses
              /\ LastKey(p) = "message" /\ Len(p) > 1 => Response[p] \notin AuthMessages

\* The code that a response tells under a code key of its own or within eight
\* levels in an error is the receipt's, and if it tells several, or another one
\* level deeper, the receipt's is one of them: who must log in is told to, and
\* not that the document does not exist, or that the response was invalid.
ErrorsKeepTheirCode ==
    last.receipt # Nothing /\ last.result.kind = "returned" /\ ToldWithin(8) # {} =>
        last.receipt.error \in ToldWithin(9)

\* A login is reported valid only if something in the first nine levels of the
\* answer says so and nothing there that counts as a negative signal denies it.
LoginUncontradicted ==
    Succeeded /\ last.receipt.operation = "auth_status" =>
        LET near == {p \in DOMAIN Response \ {<<>>} : Len(p) <= 9} IN
        /\ \E p \in near : Response[p] \in SuccessStates \union TrueFlags
        /\ \A p \in near :
              /\ LastKey(p) = "status" => Response[p] \notin FailureStates
              /\ LastKey(p) \in BooleanKeys => Response[p] \notin FalseFlags

\* A document that is read is the one of the scope: the response names it, and
\* has no other id of its own.
DocumentIsTheOneAsked ==
    Succeeded /\ last.receipt.operation = "get_document" =>
        /\ \E p \in DOMAIN Response : Response[p] = scope.document_id
        /\ <<"id">> \in DOMAIN Response /\ Response[<<"id">>] \in Texts =>
              Response[<<"id">>] = scope.document_id

\* What the comment of _auth_status_error_code says: an explicit negative signal
\* wins, wherever in the answer it is.
NegativeSignalWins ==
    Succeeded /\ last.receipt.operation = "auth_status" =>
        \A p \in DOMAIN Response \ {<<>>} :
            /\ LastKey(p) = "status" => Response[p] \notin FailureStates \union ErrorStatuses
            /\ LastKey(p) \in BooleanKeys => Response[p] \notin FalseFlags
=============================================================================
