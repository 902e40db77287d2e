----------------------------- MODULE LiveReads -----------------------------
(***************************************************************************)
(* The decisions of OnshapeMcpReadTransport                                *)
(* (src/onshape_agent/live_transport.py): whether an action may be sent,   *)
(* which request it becomes, and what receipt the session's answer makes.  *)
(*                                                                         *)
(* An identifier and a limit are abstracted to what the code asks of them; *)
(* a response is one of Responses.  A scope has been validated by          *)
(* OnshapeScope: its stack is cad.onshape.com, its wvm one of w, v, m, and *)
(* no identifier is empty.                                                 *)
(***************************************************************************)
EXTENDS Responses

CONSTANTS
    None,         \* an optional identifier or a read_kind that is absent
    Nested        \* a parameter that holds a forbidden key somewhere within

ASSUME IdentifiersAssumption == None \notin Identifiers /\ Nested \notin Identifiers

Wvm == {"w", "v", "m"}

Scope == [document_id : Identifiers \union {None}, wvm : Wvm \union {None},
          wvm_id : Identifiers \union {None}, element_id : Identifiers \union {None}]

\* The identifiers each route takes from the scope: the routes are
\* _EXPECTED_ENDPOINTS, one endpoint for each, and the tool of auth_status.
Route == [auth_status     |-> {},
          list_documents  |-> {},
          get_document    |-> {"document_id"},
          list_workspaces |-> {"document_id"},
          read_elements   |-> {"document_id", "wvm", "wvm_id"},
          body_details    |-> {"document_id", "wvm", "wvm_id", "element_id"},
          bounding_boxes  |-> {"document_id", "wvm", "wvm_id", "element_id"},
          mass_properties |-> {"document_id", "wvm", "wvm_id", "element_id"}]

Operations == DOMAIN Route
Reads == Operations \ {"auth_status"}
ScopeKeys == {"document_id", "wvm", "wvm_id", "element_id"}

AllowedParameters(op) == IF op = "list_documents" THEN {"limit"} ELSE Route[op]

\* An action is its type, its read_kind and its other parameters: a function of
\* their names.  "endpoint" stands for _FORBIDDEN_KEY_NAMES, a limit out of
\* Limits for everything that is no integer from 1 to 100.
ForbiddenKeys == {"endpoint"}
Limits == 1..100

-----------------------------------------------------------------------------
(* _validate_scope, _validate_parameters, _prepare_action: "none" or the    *)
(* code of the LivePolicyDenied.                                           *)

\* Mutant: a versioned route needs no wvm_id.
ScopeDeniedUnversioned(scope, op) ==
    \E key \in Route[op] \ {"wvm_id"} : scope[key] = None

ScopeDenied(scope, op) ==
    \/ (scope.wvm = None) # (scope.wvm_id = None)
    \/ \E key \in Route[op] : scope[key] = None

HasForbiddenKey(parameters) ==
    \/ DOMAIN parameters \intersect ForbiddenKeys # {}
    \/ \E key \in DOMAIN parameters : parameters[key] = Nested

ParameterDenial(scope, op, parameters) ==
    IF HasForbiddenKey(parameters) THEN "OPERATION_DENIED"
    ELSE IF ~(DOMAIN parameters \subseteq AllowedParameters(op)) THEN "INVALID_PARAMETERS"
    ELSE IF \E key \in DOMAIN parameters \intersect ScopeKeys : parameters[key] # scope[key]
         THEN "SCOPE_DENIED"
    ELSE IF "limit" \in DOMAIN parameters /\ parameters["limit"] \notin Limits
         THEN "INVALID_PARAMETERS"
    ELSE "none"

Denial(scope, action) ==
    IF action.type # "read_back" THEN "OPERATION_DENIED"
    ELSE IF action.read_kind = None THEN "INVALID_PARAMETERS"
    ELSE IF action.read_kind = "auth_status"
    THEN IF DOMAIN action.parameters # {} THEN "INVALID_PARAMETERS"
         ELSE IF ScopeDenied(scope, "auth_status") THEN "SCOPE_DENIED" ELSE "none"
    ELSE IF action.read_kind \notin Reads THEN "OPERATION_DENIED"
    ELSE IF ScopeDenied(scope, action.read_kind) THEN "SCOPE_DENIED"
    ELSE ParameterDenial(scope, action.read_kind, action.parameters)

\* _build_arguments: the identifiers come from the scope, never from the action.
Arguments(scope, op, parameters) ==
    [operation |-> op,
     path  |-> [key \in Route[op] |-> scope[key]],
     query |-> IF op = "list_documents" /\ "limit" \in DOMAIN parameters
               THEN <<parameters["limit"]>> ELSE <<>>]

-----------------------------------------------------------------------------
(* What call_tool may do, and the receipt it makes.                        *)

StatusCodes == {"AUTH_REQUIRED", "SCOPE_DENIED", "NOT_FOUND", "RATE_LIMITED"}
StableCodes == StatusCodes \union
               {"INVALID_RESPONSE", "TRANSPORT_UNAVAILABLE", "TRANSPORT_TIMEOUT",
                "TRANSPORT_FAILED", "RESPONSE_TOO_LARGE", "RESPONSE_QUEUE_FULL",
                "VERIFICATION_FAILED"}

\* An exception of the session: its code and network_request_sent, if it has
\* them; `written` tells whether the request had reached the child.
Raised == [kind : {"raised"}, code : StableCodes \union {"MCP_ERROR", "INVALID_REQUEST", "untyped"},
           flag : BOOLEAN, written : BOOLEAN]

\* What call_tool did: it raised, or returned a response.
IsResult(x) == x \in Raised \/ (x.kind = "returned" /\ IsResponse(x.response))

ReadReceipt == [operation : Operations, status : {"SUCCEEDED", "FAILED"}, sent : BOOLEAN,
                verified : BOOLEAN, error : StableCodes \union {"none"}]

\* _validate_response: the codes it may reject the response with.
ResponseDenials(r, auth) ==
    IF FoundCodes(r) # {} THEN FoundCodes(r)
    ELSE IF r[<<>>] \notin {"object", "list"} \/ HasErrorMarker(r, auth)
    THEN {"INVALID_RESPONSE"} ELSE {}

\* Mutant: a positive signal outweighs a negative one.
AuthenticationDenialHopeful(r) ==
    IF r[<<>>] # "object" THEN "INVALID_RESPONSE"
    ELSE IF SuccessSignal(r) THEN "none"
    ELSE IF FailureSignal(r) THEN "AUTH_REQUIRED" ELSE "INVALID_RESPONSE"

\* _auth_status_error_code of a response that has passed _validate_response.
AuthenticationDenial(r) ==
    IF r[<<>>] # "object" THEN "INVALID_RESPONSE"
    ELSE IF FailureSignal(r) THEN "AUTH_REQUIRED"
    ELSE IF SuccessSignal(r) THEN "none" ELSE "INVALID_RESPONSE"

\* _verify_document_id.
DocumentDenial(r, document) ==
    IF r[<<>>] # "object" \/ IdNodes(r) = {} THEN "INVALID_RESPONSE"
    ELSE IF DocumentId(r) # document THEN "VERIFICATION_FAILED" ELSE "none"

\* _read_invariant.
HasEvidence(op, r) ==
    \/ op \in {"list_documents", "list_workspaces", "read_elements"} /\ HasItems(r)
    \/ op = "body_details" /\ HasBodyDetails(r)
    \/ op = "bounding_boxes" /\ HasBounds(r)
    \/ op = "mass_properties" /\ HasMasses(r)

\* What may become of a response: "none", or the code of its rejection.
Judgements(op, document, r) ==
    LET rejected == ResponseDenials(r, op = "auth_status") IN
    IF rejected # {} THEN rejected
    ELSE {IF op = "auth_status" THEN AuthenticationDenial(r)
          ELSE IF op = "get_document" THEN DocumentDenial(r, document)
          ELSE IF HasEvidence(op, r) THEN "none" ELSE "INVALID_RESPONSE"}

\* _map_session_error.
SessionCode(code) == IF code \in StableCodes THEN code ELSE "TRANSPORT_FAILED"

Outcomes(op, document, result) ==
    IF result.kind = "raised" THEN {SessionCode(result.code)}
    ELSE Judgements(op, document, result.response)

\* Mutant: a response that is rejected counts as no request.
ReceiptsOfUnsent(op, document, result) ==
    {[operation |-> op, status |-> IF why = "none" THEN "SUCCEEDED" ELSE "FAILED",
      sent |-> IF result.kind = "raised" THEN result.flag ELSE why = "none",
      verified |-> why = "none", error |-> why] : why \in Outcomes(op, document, result)}

\* The receipts that auth_status and read may make of it.
ReceiptsOf(op, document, result) ==
    {[operation |-> op, status |-> IF why = "none" THEN "SUCCEEDED" ELSE "FAILED",
      sent |-> IF result.kind = "raised" THEN result.flag ELSE TRUE,
      verified |-> why = "none", error |-> why] : why \in Outcomes(op, document, result)}
=============================================================================
