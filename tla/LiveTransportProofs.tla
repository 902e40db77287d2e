------------------------ MODULE LiveTransportProofs ------------------------
(***************************************************************************)
(* Theorems about LiveTransport for every scope, action and response: of   *)
(* any size and depth, whatever the session returns or raises.             *)
(***************************************************************************)
EXTENDS LiveTransport, FiniteSetTheorems, SequenceTheorems, WellFoundedInduction, TLAPS

\* What McpStdioProofs shows of the session: an exception tells whether the
\* request had reached the child.
FlagsTell == \A x \in Results : x.kind = "raised" => x.flag = x.written

-----------------------------------------------------------------------------
(* The inductive invariant.                                                *)

\* A request and its receipt are of an action that was not refused.
Answered ==
    IF last.request = Nothing THEN last.receipt = Nothing
    ELSE \E a :
            /\ Denial(scope, a) = "none"
            /\ last.request = Arguments(scope, a.read_kind, a.parameters)
            /\ last.result \in Results
            /\ last.receipt \in ReceiptsOf(a.read_kind, scope.document_id, last.result)

TransportInv ==
    /\ scope \in Scope
    /\ \A a \in accepted : Denial(scope, a) = "none"
    /\ last.call = "dispatch" /\ last.code # "none" => Denial(scope, last.actions[1]) # "none"
    /\ Answered

\* Nothing has been asked.
LEMMA NoCallFacts ==
  /\ NoCall.call = "none" /\ NoCall.code = "none" /\ NoCall.request = Nothing
  /\ NoCall.receipt = Nothing
BY DEF NoCall

\* A request is never taken for none.
LEMMA RequestIsSome ==
  ASSUME NEW s, NEW op, NEW parameters PROVE Arguments(s, op, parameters) # Nothing
<1>1. DOMAIN Arguments(s, op, parameters) = {"operation", "path", "query"}
  BY DEF Arguments
<1>2. DOMAIN Nothing = {"kind"}
  BY DEF Nothing
<1> QED
  BY <1>1, <1>2

\* A preflight that refuses nothing has found nothing to refuse.
LEMMA PreflightLooksAtAll ==
  ASSUME NEW planned, NEW a, NEW b, PreflightDenial(planned, <<a, b>>) = "none"
  PROVE  Denial(scope, a) = "none" /\ Denial(scope, b) = "none"
<1> DEFINE denied == {i \in DOMAIN <<a, b>> : Denial(scope, <<a, b>>[i]) # "none"}
           first == CHOOSE i \in denied : \A j \in denied : i <= j
<1>1. DOMAIN <<a, b>> = {1, 2} /\ <<a, b>>[1] = a /\ <<a, b>>[2] = b
  OBVIOUS
<1>2. denied # {} => Denial(scope, <<a, b>>[first]) = "none"
  BY DEF PreflightDenial
<1>3. denied # {} => \E i \in denied : \A j \in denied : i <= j
  <2>1. denied \subseteq {1, 2}
    BY <1>1
  <2> HIDE DEF denied
  <2>2. CASE 1 \in denied
    BY <2>1, <2>2
  <2>3. CASE 1 \notin denied /\ denied # {}
    <3>1. denied = {2}
      BY <2>1, <2>3
    <3> QED
      BY <3>1
  <2> QED
    BY <2>2, <2>3
<1>4. denied # {} => first \in denied
  BY <1>3
<1>5. denied = {}
  BY <1>2, <1>4
<1> QED
  BY <1>1, <1>5

\* The invariant holds before the first call.
LEMMA TransportInvInit == Init => TransportInv
BY ScopesAssumption, NoCallFacts DEF Init, TransportInv, Answered

\* Every call keeps it.
LEMMA TransportInvNext == TransportInv /\ [Next]_vars => TransportInv'
<1> SUFFICES ASSUME TransportInv, [Next]_vars PROVE TransportInv'
  OBVIOUS
<1>1. scope' = scope
  BY DEF Next, vars, Preflight, DispatchDenied, Dispatch, Take
<1>2. ASSUME NEW planned, NEW a, NEW b, Preflight(planned, <<a, b>>) PROVE TransportInv'
  <2>1. /\ last'.call = "preflight" /\ last'.request = Nothing /\ last'.receipt = Nothing
        /\ last'.code = PreflightDenial(planned, <<a, b>>)
    BY <1>2 DEF Preflight, NoCall
  <2>2. \A c \in accepted' : Denial(scope, c) = "none"
    <3>1. CASE last'.code = "none"
      <4>1. accepted' = {<<a, b>>[i] : i \in DOMAIN <<a, b>>}
        BY <1>2, <3>1 DEF Preflight
      <4>2. accepted' = {a, b}
        BY <4>1
      <4> QED
        BY <2>1, <3>1, <4>2, PreflightLooksAtAll
    <3>2. CASE last'.code # "none"
      BY <1>2, <3>2 DEF Preflight, TransportInv
    <3> QED
      BY <3>1, <3>2
  <2> QED
    BY <1>1, <2>1, <2>2 DEF TransportInv, Answered
<1>3. ASSUME NEW a, DispatchDenied(a) PROVE TransportInv'
  <2>1. /\ last'.request = Nothing /\ last'.receipt = Nothing /\ last'.actions = <<a>>
        /\ Denial(scope, a) # "none" /\ accepted' = accepted
    BY <1>3 DEF DispatchDenied, NoCall
  <2>2. last'.actions[1] = a
    BY <2>1
  <2> QED
    BY <1>1, <2>1, <2>2 DEF TransportInv, Answered
<1>4. ASSUME NEW a, Dispatch(a) PROVE TransportInv'
  <2>1. PICK result \in Results : \E receipt \in ReceiptsOf(a.read_kind, scope.document_id, result) :
           last' = [NoCall EXCEPT !.call = "dispatch", !.actions = <<a>>,
                       !.request = Arguments(scope, a.read_kind, a.parameters),
                       !.result = result, !.receipt = receipt]
    BY <1>4 DEF Dispatch
  <2>2. /\ last'.request = Arguments(scope, a.read_kind, a.parameters) /\ last'.code = "none"
        /\ last'.result = result
        /\ last'.receipt \in ReceiptsOf(a.read_kind, scope.document_id, result)
    BY <2>1 DEF NoCall
  <2>3. Answered'
    BY <1>1, <1>4, <2>2, RequestIsSome DEF Answered, Dispatch
  <2> QED
    BY <1>1, <1>4, <2>2, <2>3 DEF TransportInv, Dispatch
<1>5. CASE Take
  BY <1>1, <1>5, NoCallFacts DEF Take, TransportInv, Answered
<1>6. CASE UNCHANGED vars
  BY <1>6 DEF vars, TransportInv, Answered
<1> QED
  BY <1>2, <1>3, <1>4, <1>5, <1>6 DEF Next

\* Whatever is called, the invariant holds.
LEMMA TransportInvariant == Spec => []TransportInv
BY TransportInvInit, TransportInvNext, PTL DEF Spec

-----------------------------------------------------------------------------
(* Requests.                                                               *)

\* What is not refused names a known read, whose identifiers the scope has, and
\* repeats the scope or gives a limit within bounds.
LEMMA PermittedFacts ==
  ASSUME NEW a, Denial(scope, a) = "none"
  PROVE  /\ a.type = "read_back" /\ a.read_kind \in Operations
         /\ \A key \in Route[a.read_kind] : scope[key] # None
         /\ \A key \in DOMAIN a.parameters :
               \/ key \in ScopeKeys /\ a.parameters[key] = scope[key]
               \/ key = "limit" /\ a.parameters[key] \in 1..100
<1>1. a.type = "read_back" /\ a.read_kind # None
  BY DEF Denial
<1>2. CASE a.read_kind = "auth_status"
  <2>1. DOMAIN a.parameters = {} /\ "auth_status" \in Operations /\ Route["auth_status"] = {}
    BY <1>1, <1>2 DEF Denial, Operations, Route
  <2> QED
    BY <1>1, <1>2, <2>1
<1>3. CASE a.read_kind # "auth_status"
  <2>1. /\ a.read_kind \in Reads /\ ~ScopeDenied(scope, a.read_kind)
        /\ ParameterDenial(scope, a.read_kind, a.parameters) = "none"
    BY <1>1, <1>3 DEF Denial
  <2>2. /\ DOMAIN a.parameters \subseteq AllowedParameters(a.read_kind)
        /\ \A key \in DOMAIN a.parameters \intersect ScopeKeys : a.parameters[key] = scope[key]
        /\ "limit" \in DOMAIN a.parameters => a.parameters["limit"] \in Limits
    BY <2>1 DEF ParameterDenial
  <2>3. \A op \in Operations : Route[op] \subseteq ScopeKeys
    BY DEF Operations, Route, ScopeKeys
  <2>4. AllowedParameters(a.read_kind) \subseteq ScopeKeys \union {"limit"}
    BY <2>1, <2>3 DEF AllowedParameters, Reads
  <2> QED
    BY <1>1, <2>1, <2>2, <2>4 DEF Reads, ScopeDenied, Limits
<1> QED
  BY <1>2, <1>3

\* A request is built from what is not refused.
LEMMA ScopeOfInv == TransportInv => RequestsStayInScope
<1> SUFFICES ASSUME TransportInv, last.request # Nothing
             PROVE  /\ last.request.operation \in Operations
                    /\ DOMAIN last.request.path = Route[last.request.operation]
                    /\ \A key \in DOMAIN last.request.path :
                          last.request.path[key] = scope[key] /\ last.request.path[key] # None
                    /\ last.request.query # <<>> =>
                          /\ last.request.operation = "list_documents"
                          /\ last.request.query[1] \in 1..100
  BY DEF RequestsStayInScope
<1>1. PICK a : /\ Denial(scope, a) = "none"
               /\ last.request = Arguments(scope, a.read_kind, a.parameters)
  BY DEF TransportInv, Answered
<1>2. /\ last.request.operation = a.read_kind
      /\ last.request.path = [key \in Route[a.read_kind] |-> scope[key]]
      /\ last.request.query = IF a.read_kind = "list_documents" /\ "limit" \in DOMAIN a.parameters
                              THEN <<a.parameters["limit"]>> ELSE <<>>
  BY <1>1 DEF Arguments
<1>3. "limit" \in DOMAIN a.parameters => a.parameters["limit"] \in 1..100
  BY <1>1, PermittedFacts DEF ScopeKeys
<1>4. last.request.query # <<>> =>
         a.read_kind = "list_documents" /\ last.request.query[1] \in 1..100
  BY <1>2, <1>3
<1> QED
  BY <1>1, <1>2, <1>4, PermittedFacts

\* What was accepted is what is not refused, then and later.
LEMMA AcceptedOfInv == TransportInv => PreflightSuffices
BY PermittedFacts DEF TransportInv, PreflightSuffices, AcceptedIsHarmless

-----------------------------------------------------------------------------
(* Receipts.                                                               *)

\* A response is rejected with a stable code, or with none and then for certain.
LEMMA JudgementCodes ==
  ASSUME NEW op, NEW document, NEW r, NEW why \in Judgements(op, document, r)
  PROVE  /\ why \in StableCodes \union {"none"}
         /\ why = "none" => Judgements(op, document, r) = {"none"}
         /\ FoundCodes(r) # {} => why \in FoundCodes(r)
<1> DEFINE rejected == ResponseDenials(r, op = "auth_status")
           last0 == IF op = "auth_status" THEN AuthenticationDenial(r)
                    ELSE IF op = "get_document" THEN DocumentDenial(r, document)
                    ELSE IF HasEvidence(op, r) THEN "none" ELSE "INVALID_RESPONSE"
<1>1. FoundCodes(r) \subseteq StatusCodes
  BY DEF FoundCodes, StatusCode, StatusCodes
<1>2. /\ rejected \subseteq StatusCodes \union {"INVALID_RESPONSE"}
      /\ FoundCodes(r) # {} => rejected = FoundCodes(r)
  BY <1>1 DEF ResponseDenials
<1>3. StatusCodes \union {"INVALID_RESPONSE"} \subseteq StableCodes
      /\ "none" \notin StatusCodes /\ "VERIFICATION_FAILED" \in StableCodes
      /\ "AUTH_REQUIRED" \in StableCodes
  BY DEF StatusCodes, StableCodes
<1>4. last0 \in StableCodes \union {"none"}
  BY <1>3 DEF AuthenticationDenial, DocumentDenial
<1>5. Judgements(op, document, r) = IF rejected # {} THEN rejected ELSE {last0}
  BY DEF Judgements
<1> HIDE DEF rejected, last0
<1> QED
  BY <1>1, <1>2, <1>3, <1>4, <1>5

\* What a receipt tells of the call it is made of.
LEMMA ReceiptFacts ==
  ASSUME NEW op \in Operations, NEW document, NEW x \in Results,
         NEW r \in ReceiptsOf(op, document, x)
  PROVE  /\ r \in ReadReceipt /\ r.operation = op /\ x.kind \in {"returned", "raised"}
         /\ r.status = "SUCCEEDED" <=> r.verified
         /\ r.status = "SUCCEEDED" =>
               x.kind = "returned" /\ Judgements(op, document, x.response) = {"none"}
         /\ x.kind = "returned" =>
               r.sent /\ r.error \in Judgements(op, document, x.response)
         /\ x.kind = "raised" => r.sent = x.flag
<1>1. PICK why \in Outcomes(op, document, x) :
         r = [operation |-> op, status |-> IF why = "none" THEN "SUCCEEDED" ELSE "FAILED",
              sent |-> IF x.kind = "raised" THEN x.flag ELSE TRUE,
              verified |-> why = "none", error |-> why]
  BY DEF ReceiptsOf
<1>2. x.kind \in {"returned", "raised"} /\ (x.kind = "raised" => x.flag \in BOOLEAN)
  BY ResultsAssumption DEF IsResult, Raised
<1>3. why \in StableCodes \union {"none"} /\ (x.kind = "raised" => why # "none")
  <2>1. CASE x.kind = "raised"
    <3>1. why = SessionCode(x.code)
      BY <2>1 DEF Outcomes
    <3> QED
      BY <3>1 DEF SessionCode, StableCodes, StatusCodes
  <2>2. CASE x.kind = "returned"
    <3>1. why \in Judgements(op, document, x.response)
      BY <2>2 DEF Outcomes
    <3> QED
      BY <2>2, <3>1, JudgementCodes
  <2> QED
    BY <1>2, <2>1, <2>2
<1>4. x.kind = "returned" /\ why = "none" => Judgements(op, document, x.response) = {"none"}
  BY JudgementCodes DEF Outcomes
<1>5. x.kind = "returned" => why \in Judgements(op, document, x.response)
  BY DEF Outcomes
<1> QED
  BY <1>1, <1>2, <1>3, <1>4, <1>5 DEF ReadReceipt

\* The action whose receipt there is.
LEMMA Behind ==
  ASSUME TransportInv, last.receipt # Nothing
  PROVE  /\ last.request # Nothing /\ last.request.operation \in Operations
         /\ last.result \in Results
         /\ last.receipt \in ReceiptsOf(last.request.operation, scope.document_id, last.result)
<1>1. PICK a :
         /\ Denial(scope, a) = "none" /\ last.request = Arguments(scope, a.read_kind, a.parameters)
         /\ last.result \in Results
         /\ last.receipt \in ReceiptsOf(a.read_kind, scope.document_id, last.result)
  BY DEF TransportInv, Answered
<1>2. last.request.operation = a.read_kind
  BY <1>1 DEF Arguments
<1> QED
  BY <1>1, <1>2, PermittedFacts, RequestIsSome

\* A receipt says what its call did.
LEMMA TruthOfInv == FlagsTell /\ TransportInv => ReceiptsTruthful
<1> SUFFICES ASSUME FlagsTell, TransportInv, last.receipt # Nothing
             PROVE  LET r == last.receipt IN
                    /\ r \in ReadReceipt
                    /\ r.operation = last.request.operation
                    /\ r.sent <=> (last.result.kind = "returned" \/ last.result.written)
                    /\ r.status = "SUCCEEDED" <=> r.verified
                    /\ r.status = "SUCCEEDED" => last.result.kind = "returned"
  BY DEF ReceiptsTruthful
<1> PICK op : op = last.request.operation
  OBVIOUS
<1> PICK x : x = last.result
  OBVIOUS
<1> PICK r : r = last.receipt
  OBVIOUS
<1>1. op \in Operations /\ x \in Results /\ r \in ReceiptsOf(op, scope.document_id, x)
  BY Behind
<1>2. /\ r \in ReadReceipt /\ r.operation = op /\ x.kind \in {"returned", "raised"}
      /\ r.status = "SUCCEEDED" <=> r.verified
      /\ r.status = "SUCCEEDED" => x.kind = "returned"
      /\ x.kind = "returned" => r.sent
      /\ x.kind = "raised" => r.sent = x.flag
  BY <1>1, ReceiptFacts
<1>3. r.sent <=> (x.kind = "returned" \/ x.written)
  <2>1. CASE x.kind = "returned"
    BY <1>2, <2>1
  <2>2. CASE x.kind = "raised"
    <3>1. x.flag = x.written
      BY <1>1, <2>2 DEF FlagsTell
    <3> QED
      BY <1>2, <2>2, <3>1
  <2> QED
    BY <1>2, <2>1, <2>2
<1> QED
  BY <1>2, <1>3

-----------------------------------------------------------------------------
(* Responses.                                                              *)

\* What a read that has succeeded was not rejected for.
LEMMA SucceededFacts ==
  ASSUME TransportInv, Succeeded
  PROVE  /\ IsResponse(Response) /\ last.request.operation \in Operations
         /\ last.receipt.operation = last.request.operation
         /\ Judgements(last.request.operation, scope.document_id, Response) = {"none"}
<1>1. /\ last.request.operation \in Operations /\ last.result \in Results
      /\ last.receipt \in ReceiptsOf(last.request.operation, scope.document_id, last.result)
      /\ last.receipt.status = "SUCCEEDED"
  BY Behind DEF Succeeded
<1>2. /\ last.result.kind = "returned" /\ last.receipt.operation = last.request.operation
      /\ Judgements(last.request.operation, scope.document_id, Response) = {"none"}
  BY <1>1, ReceiptFacts DEF Response
<1>3. IsResponse(Response)
  BY <1>1, <1>2, ResultsAssumption DEF IsResult, Raised, Response
<1> QED
  BY <1>1, <1>2, <1>3

\* A judgement of "none" means that nothing speaks against the response.
LEMMA Faultless ==
  ASSUME NEW op, NEW document, NEW r, Judgements(op, document, r) = {"none"}
  PROVE  /\ FoundCodes(r) = {} /\ ~HasErrorMarker(r, op = "auth_status")
         /\ op = "auth_status" => AuthenticationDenial(r) = "none"
         /\ op = "get_document" => DocumentDenial(r, document) = "none"
<1> DEFINE rejected == ResponseDenials(r, op = "auth_status")
<1>1. FoundCodes(r) \subseteq StatusCodes /\ "none" \notin StatusCodes \union {"INVALID_RESPONSE"}
  BY DEF FoundCodes, StatusCode, StatusCodes
<1>2. rejected = {}
  BY <1>1 DEF Judgements, ResponseDenials
<1>3. FoundCodes(r) = {} /\ ~HasErrorMarker(r, op = "auth_status")
  BY <1>2 DEF ResponseDenials
<1> QED
  BY <1>2, <1>3 DEF Judgements

\* A node of a response is a path of keys that starts somewhere.
LEMMA PathFacts ==
  ASSUME NEW r, IsResponse(r), NEW p \in DOMAIN r \ {<<>>}
  PROVE  /\ p \in Seq(STRING) /\ Len(p) \in Nat /\ Len(p) >= 1 /\ DOMAIN p = 1..Len(p)
         /\ 1 \in DOMAIN p
<1>1. p \in Seq(STRING) /\ p # <<>>
  BY DEF IsResponse
<1>2. Len(p) \in Nat /\ DOMAIN p = 1..Len(p) /\ Len(p) # 0
  BY <1>1, EmptySeq
<1> QED
  BY <1>1, <1>2

\* The first step of an error is looked at, and whatever is within eight steps.
LEMMA CodesAreVisited ==
  ASSUME NEW r, IsResponse(r), NEW p \in DOMAIN r \ {<<>>}, Len(p) <= 8,
         p[1] \in ErrorContainers \union CodeKeys
  PROVE  p \in StatusNodes(r)
<1>1. p \in Seq(STRING) /\ Len(p) \in Nat /\ Len(p) >= 1 /\ DOMAIN p = 1..Len(p) /\ 1 \in DOMAIN p
  BY PathFacts
<1>2. p[1] \notin Indices
  BY DEF ErrorContainers, CodeKeys, StatusKeys, Indices
<1>3. InError(p)
  BY <1>1, <1>2 DEF InError
<1>4. ASSUME NEW i \in DOMAIN p, i # 1 PROVE InError(SubSeq(p, 1, i - 1))
  <2>1. i - 1 \in 1..Len(p) /\ i \in Int
    BY <1>1, <1>4
  <2>2. 1 \in DOMAIN SubSeq(p, 1, i - 1) /\ SubSeq(p, 1, i - 1)[1] = p[1]
    BY <1>1, <2>1
  <2> QED
    BY <1>2, <2>2 DEF InError
<1>5. Visited(p)
  BY <1>4 DEF Visited, MaxDepth
<1> QED
  BY <1>3, <1>5 DEF StatusNodes

\* A status key at the top is looked at.
LEMMA TopIsVisited ==
  ASSUME NEW r, IsResponse(r), NEW p \in DOMAIN r \ {<<>>}, Len(p) = 1,
         LastKey(p) \in StatusKeys
  PROVE  p \in StatusNodes(r)
<1>1. SubSeq(p, 1, Len(p) - 1) = <<>>
  <2>1. p \in Seq(STRING) /\ Len(p) - 1 = 0
    BY PathFacts
  <2> QED
    BY <2>1
<1>2. Visited(<<>>)
  BY DEF Visited, MaxDepth
<1> QED
  BY <1>1, <1>2 DEF StatusNodes

\* The code of a visited node is found.
LEMMA VisitedIsFound ==
  ASSUME NEW r, NEW p \in StatusNodes(r), StatusCode(r[p]) # "none"
  PROVE  FoundCodes(r) # {}
BY DEF FoundCodes

\* A response begins with a list or with an object: its paths all start alike.
LEMMA FirstStep ==
  ASSUME NEW r, IsResponse(r), NEW p \in DOMAIN r \ {<<>>}
  PROVE  r[<<>>] = IF p[1] \in Indices THEN "list" ELSE "object"
<1> DEFINE Begun == {n \in 1..Len(p) : SubSeq(p, 1, n) \in DOMAIN r}
           R == OpToRel(<, Nat)
<1>1. p \in Seq(STRING) /\ Len(p) \in Nat /\ Len(p) >= 1 /\ DOMAIN p = 1..Len(p)
  BY PathFacts
<1>2. SubSeq(p, 1, Len(p)) = p /\ Len(p) \in 1..Len(p)
  BY <1>1
<1>3. Begun # {} /\ Begun \subseteq Nat
  <2>1. Len(p) \in Begun
    BY <1>2, Zenon
  <2>2. \A n \in Begun : n \in 1..Len(p)
    BY Zenon
  <2> QED
    BY <2>1, <2>2
<1>4. PICK m \in Begun : \A n \in Begun : ~ (<<n, m>> \in R)
  <2> HIDE DEF R, Begun
  <2> QED
    BY <1>3, NatLessThanWellFounded, WFMin DEF R
<1>5. \A n \in Begun : ~ (n < m)
  <2>1. \A x, y \in Nat : x < y => <<x, y>> \in R
    BY DEF OpToRel
  <2> HIDE DEF R, Begun
  <2> QED
    BY <1>3, <1>4, <2>1
<1> DEFINE q == SubSeq(p, 1, m)
<1>m. m \in 1..Len(p) /\ q \in DOMAIN r
  BY <1>4, Zenon
<1>6. /\ q \in DOMAIN r \ {<<>>} /\ Len(q) = m /\ q[m] = p[m]
      /\ SubSeq(q, 1, m - 1) = SubSeq(p, 1, m - 1)
  <2>1. q \in Seq(STRING) /\ Len(q) = m /\ \A i \in 1..m : q[i] = p[i]
    BY <1>1, <1>m
  <2>2. q # <<>> /\ m \in 1..m
    BY <1>1, <1>m, <2>1
  <2>3. SubSeq(q, 1, m - 1) = SubSeq(p, 1, m - 1)
    BY <1>1, <1>m
  <2> QED
    BY <1>m, <2>1, <2>2, <2>3
<1>7. /\ SubSeq(p, 1, m - 1) \in DOMAIN r
      /\ r[SubSeq(p, 1, m - 1)] = IF p[m] \in Indices THEN "list" ELSE "object"
  <2> HIDE DEF q
  <2> QED
    BY <1>6 DEF IsResponse
<1>8. m = 1
  <2>1. CASE m # 1
    <3>1. m - 1 \in 1..Len(p) /\ m - 1 < m
      BY <1>1, <1>m, <2>1
    <3>2. m - 1 \in Begun
      BY <1>7, <3>1, Zenon
    <3> QED
      BY <1>5, <3>1, <3>2, Zenon
  <2> QED
    BY <2>1
<1>9. SubSeq(p, 1, m - 1) = <<>>
  BY <1>1, <1>8
<1> QED
  BY <1>7, <1>8, <1>9

\* What is looked at in a response that is an object is under its errors and code
\* keys, at most nine levels deep.
LEMMA VisitedIsTold ==
  ASSUME NEW r, IsResponse(r), r[<<>>] = "object", NEW p \in StatusNodes(r)
  PROVE  p \in DOMAIN r \ {<<>>} /\ p[1] \in ErrorContainers \union CodeKeys /\ Len(p) <= 9
<1>1. /\ p \in DOMAIN r \ {<<>>} /\ p \in Seq(STRING) /\ Len(p) \in Nat /\ Len(p) >= 1
      /\ DOMAIN p = 1..Len(p) /\ 1 \in DOMAIN p
  BY PathFacts DEF StatusNodes
<1>2. p[1] \notin Indices
  BY <1>1, FirstStep
<1>3. ASSUME NEW q, q \in Seq(STRING), Len(q) \in Nat, DOMAIN q = 1..Len(q), 1 \in DOMAIN q,
             q[1] = p[1], Visited(q)
      PROVE  p[1] \in ErrorContainers \union CodeKeys /\ Len(q) <= 8
  <2>1. SubSeq(q, 1, 1 - 1) = <<>>
    BY <1>3
  <2>2. ~InError(SubSeq(q, 1, 1 - 1))
    BY <2>1 DEF InError
  <2> QED
    BY <1>2, <1>3, <2>2 DEF Visited, MaxDepth
<1>4. CASE Visited(p)
  BY <1>1, <1>3, <1>4
<1>5. CASE LastKey(p) \in StatusKeys /\ Visited(SubSeq(p, 1, Len(p) - 1))
  <2>1. CASE Len(p) = 1
    BY <1>1, <1>5, <2>1 DEF LastKey, CodeKeys
  <2>2. CASE Len(p) # 1
    <3> DEFINE q == SubSeq(p, 1, Len(p) - 1)
    <3>1. /\ q \in Seq(STRING) /\ Len(q) = Len(p) - 1 /\ Len(q) \in Nat
          /\ DOMAIN q = 1..Len(q) /\ 1 \in DOMAIN q /\ q[1] = p[1] /\ Visited(q)
      BY <1>1, <1>5, <2>2
    <3> HIDE DEF q
    <3>2. p[1] \in ErrorContainers \union CodeKeys /\ Len(q) <= 8
      BY <1>3, <3>1
    <3> QED
      BY <1>1, <3>1, <3>2
  <2> QED
    BY <2>1, <2>2
<1> QED
  BY <1>1, <1>4, <1>5 DEF StatusNodes

\* No error passes: a response that was not rejected has none.
LEMMA NoErrorOfInv == TransportInv => NoErrorPasses
<1> SUFFICES ASSUME TransportInv, Succeeded, NEW p \in DOMAIN Response \ {<<>>}
             PROVE  /\ LastKey(p) \notin ErrorContainers
                    /\ LastKey(p) = "status" /\ Len(p) > 1 => Response[p] \notin ErrorStatuses
                    /\ LastKey(p) = "message" /\ Len(p) > 1 => Response[p] \notin AuthMessages
                    /\ p[1] \in ErrorContainers \union CodeKeys /\ Len(p) <= 8 =>
                          StatusCode(Response[p]) = "none"
  BY DEF NoErrorPasses, ToldWithin
<1> PICK r : r = Response
  OBVIOUS
<1> PICK op : op = last.request.operation
  OBVIOUS
<1>1. IsResponse(r) /\ FoundCodes(r) = {} /\ ~HasErrorMarker(r, op = "auth_status")
  BY SucceededFacts, Faultless
<1>2. LastKey(p) \notin ErrorContainers
  BY <1>1 DEF HasErrorMarker
<1>3. /\ LastKey(p) = "status" /\ Len(p) > 1 => r[p] \notin ErrorStatuses
      /\ LastKey(p) = "message" /\ Len(p) > 1 => r[p] \notin AuthMessages
  <2>1. ASSUME Len(p) > 1 PROVE p \in DOMAIN r \ {<<>>} /\ Len(p) # 1
    <3>1. p \in DOMAIN r \ {<<>>}
      OBVIOUS
    <3>2. Len(p) \in Nat
      BY <1>1, <3>1, PathFacts
    <3>3. \A n \in Nat : n > 1 => n # 1
      OBVIOUS
    <3> QED
      BY ONLY <2>1, <3>1, <3>2, <3>3, r = Response, Zenon
  <2> QED
    BY <1>1, <2>1 DEF HasErrorMarker
<1>4. p[1] \in ErrorContainers \union CodeKeys /\ Len(p) <= 8 => StatusCode(r[p]) = "none"
  BY <1>1, CodesAreVisited, VisitedIsFound
<1> QED
  BY <1>2, <1>3, <1>4

\* Codes are kept: if one is there to be found, the receipt has one of them.
LEMMA CodeOfInv == TransportInv => ErrorsKeepTheirCode
<1> SUFFICES ASSUME TransportInv, last.receipt # Nothing, last.result.kind = "returned",
                    NEW p \in DOMAIN Response \ {<<>>},
                    p[1] \in ErrorContainers \union CodeKeys, Len(p) <= 8,
                    StatusCode(Response[p]) # "none"
             PROVE  last.receipt.error \in ToldWithin(9)
  BY DEF ErrorsKeepTheirCode, ToldWithin
<1>1. /\ last.request.operation \in Operations /\ last.result \in Results
      /\ last.receipt \in ReceiptsOf(last.request.operation, scope.document_id, last.result)
  BY Behind
<1>2. IsResponse(Response)
  BY <1>1, ResultsAssumption DEF IsResult, Raised, Response
<1>3. FoundCodes(Response) # {}
  BY <1>2, CodesAreVisited, VisitedIsFound
<1>4. last.receipt.error \in
         Judgements(last.request.operation, scope.document_id, Response)
  BY <1>1, ReceiptFacts DEF Response
<1>5. last.receipt.error \in FoundCodes(Response)
  BY <1>3, <1>4, JudgementCodes
<1>6. Response[<<>>] = "object"
  <2>1. p[1] \notin Indices
    BY DEF ErrorContainers, CodeKeys, StatusKeys, Indices
  <2> QED
    BY <1>2, <2>1, FirstStep
<1>7. PICK q \in StatusNodes(Response) :
         last.receipt.error = StatusCode(Response[q]) /\ last.receipt.error # "none"
  BY <1>5 DEF FoundCodes
<1>8. q \in DOMAIN Response \ {<<>>} /\ q[1] \in ErrorContainers \union CodeKeys /\ Len(q) <= 9
  BY <1>2, <1>6, VisitedIsTold
<1> QED
  BY <1>7, <1>8 DEF ToldWithin

\* A login that is reported valid was said to be, and not denied.
LEMMA LoginOfInv == TransportInv => LoginUncontradicted
<1> SUFFICES ASSUME TransportInv, Succeeded, last.receipt.operation = "auth_status"
             PROVE  LET near == {p \in DOMAIN Response \ {<<>>} : Len(p) <= 9} IN
                    /\ \E p \in near : Response[p] \in SuccessStates \union TrueFlags
                    /\ \A p \in near :
                          /\ LastKey(p) = "status" => Response[p] \notin FailureStates
                          /\ LastKey(p) \in BooleanKeys => Response[p] \notin FalseFlags
  BY DEF LoginUncontradicted
<1> PICK r : r = Response
  OBVIOUS
<1> DEFINE near == {p \in DOMAIN r \ {<<>>} : Len(p) <= 9}
<1>1. IsResponse(r) /\ AuthenticationDenial(r) = "none"
  BY SucceededFacts, Faultless
<1>2. ~FailureSignal(r) /\ SuccessSignal(r)
  BY <1>1 DEF AuthenticationDenial
<1>3. near \subseteq SignalNodes(r)
  <2>1. ASSUME NEW p \in near PROVE p \in DOMAIN r /\ Len(p) \in 1..9
    <3>1. p \in DOMAIN r \ {<<>>} /\ Len(p) <= 9
      OBVIOUS
    <3>2. Len(p) \in Nat /\ Len(p) >= 1
      BY <1>1, <3>1, PathFacts
    <3>3. \A n \in Nat : n >= 1 /\ n <= 9 => n \in 1..9
      OBVIOUS
    <3> QED
      BY ONLY <3>1, <3>2, <3>3, Zenon
  <2> QED
    BY <2>1 DEF SignalNodes, MaxDepth
<1>4. SignalNodes(r) \subseteq near
  <2>1. ASSUME NEW p \in SignalNodes(r) PROVE p \in DOMAIN r /\ Len(p) \in 1..9
    BY DEF SignalNodes, MaxDepth
  <2>2. ASSUME NEW p \in SignalNodes(r) PROVE p \in near
    <3>1. p \in DOMAIN r /\ Len(p) >= 1 /\ Len(p) <= 9
      <4>1. \A n \in 1..9 : n >= 1 /\ n <= 9
        OBVIOUS
      <4> QED
        BY ONLY <2>1, <4>1, Zenon
    <3>2. p # <<>>
      <4>1. CASE p = <<>>
        <5>1. Len(p) = 0
          BY <4>1
        <5> QED
          BY <3>1, <5>1
      <4> QED
        BY <4>1
    <3> QED
      BY <3>1, <3>2
  <2> QED
    BY <2>2
<1>5. \E p \in near : r[p] \in SuccessStates \union TrueFlags
  BY <1>2, <1>4 DEF SuccessSignal
<1>6. ASSUME NEW p \in near
      PROVE  /\ LastKey(p) = "status" => r[p] \notin FailureStates
             /\ LastKey(p) \in BooleanKeys => r[p] \notin FalseFlags
  BY <1>2, <1>3 DEF FailureSignal
<1> QED
  BY <1>5, <1>6

-----------------------------------------------------------------------------
(* The id of a document.                                                   *)

\* Of finitely many things in a total order one comes first.
LEMMA FirstOfFinite ==
  ASSUME NEW S, IsFiniteSet(S), S # {}, NEW R,
         \A x, y \in S : x # y => <<x, y>> \in R \/ <<y, x>> \in R,
         \A x, y, z \in S : <<x, y>> \in R /\ <<y, z>> \in R => <<x, z>> \in R
  PROVE  \E x \in S : \A y \in S \ {x} : <<x, y>> \in R
<1> DEFINE First(T) == \E x \in T : \A y \in T \ {x} : <<x, y>> \in R
           Lacking == {T \in FiniteSubsetsOf(S) : T # {} /\ ~First(T)}
<1>1. S \in FiniteSubsetsOf(S)
  BY DEF FiniteSubsetsOf
<1>2. ASSUME Lacking # {} PROVE FALSE
  <2>1. IsWellFoundedOn(StrictSubsetOrdering(S), FiniteSubsetsOf(S))
    BY FS_StrictSubsetOrderingWellFounded
  <2>2. Lacking \subseteq FiniteSubsetsOf(S)
    OBVIOUS
  <2>3. PICK T \in Lacking : \A U \in Lacking : ~ (<<U, T>> \in StrictSubsetOrdering(S))
    <3> HIDE DEF Lacking
    <3> QED
      BY <1>2, <2>1, <2>2, WFMin
  <2>4. T \subseteq S /\ IsFiniteSet(T) /\ T # {} /\ ~First(T)
    BY DEF FiniteSubsetsOf
  <2>5. PICK x \in T : TRUE
    BY <2>4
  <2> DEFINE U == T \ {x}
  <2>6. U \subseteq S /\ IsFiniteSet(U)
    BY <2>4, FS_Subset
  <2>7. U \notin Lacking
    <3>1. <<U, T>> \in StrictSubsetOrdering(S)
      BY <2>4, <2>5, <2>6 DEF StrictSubsetOrdering
    <3> QED
      BY <2>3, <3>1
  <2>8. U = {} \/ First(U)
    BY <2>6, <2>7 DEF FiniteSubsetsOf
  <2>9. CASE U = {}
    BY <2>4, <2>5, <2>9
  <2>10. CASE U # {}
    <3>1. PICK y \in U : \A z \in U \ {y} : <<y, z>> \in R
      BY <2>8, <2>10
    <3>2. x # y /\ x \in S /\ y \in S
      BY <2>4, <2>5, <3>1
    <3>3. CASE <<y, x>> \in R
      <4>1. \A z \in T \ {y} : <<y, z>> \in R
        BY <3>1, <3>3
      <4> QED
        BY <2>4, <3>1, <4>1
    <3>4. CASE <<x, y>> \in R
      <4>1. ASSUME NEW z \in T \ {x} PROVE <<x, z>> \in R
        <5>1. z \in S /\ (z = y \/ <<y, z>> \in R)
          BY <2>4, <3>1
        <5> QED
          BY <3>2, <3>4, <5>1
      <4> QED
        BY <2>4, <2>5, <4>1
    <3> QED
      BY <3>2, <3>3, <3>4
  <2> QED
    BY <2>9, <2>10
<1> QED
  BY <1>1, <1>2

\* The keys that lead to an id, in the order in which they are followed.
Ends == {"id", "documentId"}
Inner == {"document", "data", "response"}

\* They are ranked one by one.
LEMMA RankFacts ==
  /\ \A k \in Ends \union Inner : Rank[k] \in 1..5
  /\ \A k, m \in Ends \union Inner : Rank[k] = Rank[m] => k = m
  /\ \A k \in Ends \union Inner : ~(Rank[k] < Rank["id"])
  /\ Ends \intersect Inner = {}
<1>1. /\ Rank["id"] = 1 /\ Rank["documentId"] = 2 /\ Rank["document"] = 3
      /\ Rank["data"] = 4 /\ Rank["response"] = 5
  BY DEF Rank
<1> QED
  BY <1>1 DEF Ends, Inner

\* The path of an id goes along inner keys to an end.
LEMMA IdPath ==
  ASSUME NEW r, IsResponse(r), NEW p \in IdNodes(r)
  PROVE  /\ p \in Seq(STRING) /\ p \in DOMAIN r /\ Len(p) \in Nat /\ Len(p) >= 1
         /\ DOMAIN p = 1..Len(p)
         /\ p[Len(p)] \in Ends
         /\ \A i \in 1..(Len(p) - 1) : p[i] \in Inner
         /\ \A i \in DOMAIN p : p[i] \in Ends \union Inner
<1>1. p \in DOMAIN r \ {<<>>}
  BY DEF IdNodes
<1>2. p \in Seq(STRING) /\ Len(p) \in Nat /\ Len(p) >= 1 /\ DOMAIN p = 1..Len(p)
  BY <1>1, PathFacts
<1>3. p[Len(p)] \in Ends /\ \A i \in 1..(Len(p) - 1) : p[i] \in Inner
  BY DEF IdNodes, LastKey, Ends, Inner
<1>4. ASSUME NEW i \in DOMAIN p PROVE p[i] \in Ends \union Inner
  <2>1. i = Len(p) \/ i \in 1..(Len(p) - 1)
    BY <1>2
  <2> QED
    BY <1>3, <2>1
<1> QED
  BY <1>1, <1>2, <1>3, <1>4

\* Two paths have the same start when they agree on it step by step.
LEMMA SameStart ==
  ASSUME NEW p \in Seq(STRING), NEW q \in Seq(STRING), NEW i \in DOMAIN p, i \in DOMAIN q
  PROVE  SubSeq(p, 1, i - 1) = SubSeq(q, 1, i - 1)
            <=> \A j \in 1..(i - 1) : p[j] = q[j]
<1>1. /\ i \in Nat /\ i >= 1 /\ i <= Len(p) /\ i <= Len(q)
      /\ \A j \in 1..(i - 1) : j \in 1..Len(p) /\ j \in 1..Len(q) /\ 1 + j - 1 = j
      /\ 1..(i - 1 + 1 - 1) = 1..(i - 1)
  OBVIOUS
<1> DEFINE u == SubSeq(p, 1, i - 1)
           v == SubSeq(q, 1, i - 1)
<1>2. u = [j \in 1..(i - 1) |-> p[j]] /\ v = [j \in 1..(i - 1) |-> q[j]]
  BY <1>1
<1> HIDE DEF u, v
<1>3. u = v <=> \A j \in 1..(i - 1) : p[j] = q[j]
  BY <1>2
<1> QED
  BY <1>3 DEF u, v

\* One path precedes another at the first step where they differ.
LEMMA PrecedesAt ==
  ASSUME NEW r, IsResponse(r), NEW p \in IdNodes(r), NEW q \in IdNodes(r)
  PROVE  Precedes(p, q) <=>
            \E i \in DOMAIN p \intersect DOMAIN q :
               Rank[p[i]] < Rank[q[i]] /\ \A j \in 1..(i - 1) : p[j] = q[j]
BY IdPath, SameStart DEF Precedes

\* Of two ids one precedes the other: no path of an id goes on.
LEMMA PrecedesTotal ==
  ASSUME NEW r, IsResponse(r), NEW p \in IdNodes(r), NEW q \in IdNodes(r), p # q
  PROVE  Precedes(p, q) \/ Precedes(q, p)
<1> DEFINE D == {i \in DOMAIN p \intersect DOMAIN q : p[i] # q[i]}
<1>1. /\ p \in Seq(STRING) /\ q \in Seq(STRING) /\ Len(p) \in Nat /\ Len(q) \in Nat
      /\ Len(p) >= 1 /\ Len(q) >= 1 /\ DOMAIN p = 1..Len(p) /\ DOMAIN q = 1..Len(q)
      /\ p[Len(p)] \in Ends /\ q[Len(q)] \in Ends
      /\ \A i \in 1..(Len(p) - 1) : p[i] \in Inner
      /\ \A i \in 1..(Len(q) - 1) : q[i] \in Inner
  BY IdPath
<1>2. D # {}
  <2> SUFFICES ASSUME \A i \in 1..Len(p) : i \in 1..Len(q) => p[i] = q[i] PROVE FALSE
    BY <1>1
  <2>1. CASE Len(p) = Len(q)
    BY <1>1, <2>1, SeqEqual
  <2>2. CASE Len(p) < Len(q)
    <3>1. Len(p) \in 1..(Len(q) - 1) /\ Len(p) \in 1..Len(p) /\ Len(p) \in 1..Len(q)
      BY <1>1, <2>2
    <3> QED
      BY <1>1, <3>1, RankFacts
  <2>3. CASE Len(q) < Len(p)
    <3>1. Len(q) \in 1..(Len(p) - 1) /\ Len(q) \in 1..Len(q) /\ Len(q) \in 1..Len(p)
      BY <1>1, <2>3
    <3> QED
      BY <1>1, <3>1, RankFacts
  <2>4. \A m, n \in Nat : m = n \/ m < n \/ n < m
    OBVIOUS
  <2>5. Len(p) = Len(q) \/ Len(p) < Len(q) \/ Len(q) < Len(p)
    BY ONLY <1>1, <2>4, Zenon
  <2> QED
    BY <2>1, <2>2, <2>3, <2>5
<1>3. PICK i \in D : \A j \in D : ~(j < i)
  <2>1. IsWellFoundedOn(OpToRel(<, Nat), Nat)
    BY NatLessThanWellFounded
  <2>0. D \subseteq Nat
    BY <1>1
  <2>2. \A y, z \in Nat : y < z => <<y, z>> \in OpToRel(<, Nat)
    BY DEF OpToRel
  <2> HIDE DEF D
  <2>3. PICK i \in D : \A j \in D : ~(<<j, i>> \in OpToRel(<, Nat))
    BY <1>2, <2>0, <2>1, WFMin
  <2> QED
    BY <2>0, <2>2, <2>3
<1>4. \A j \in 1..(i - 1) : p[j] = q[j]
  BY <1>1, <1>3
<1>5. Rank[p[i]] < Rank[q[i]] \/ Rank[q[i]] < Rank[p[i]]
  <2>1. p[i] \in Ends \union Inner /\ q[i] \in Ends \union Inner /\ p[i] # q[i]
    BY IdPath
  <2>2. Rank[p[i]] \in 1..5 /\ Rank[q[i]] \in 1..5 /\ Rank[p[i]] # Rank[q[i]]
    BY <2>1, RankFacts
  <2> QED
    BY <2>2
<1> QED
  BY <1>4, <1>5, PrecedesAt

\* The order is transitive.
LEMMA PrecedesTransitive ==
  ASSUME NEW r, IsResponse(r), NEW p \in IdNodes(r), NEW q \in IdNodes(r), NEW s \in IdNodes(r),
         Precedes(p, q), Precedes(q, s)
  PROVE  Precedes(p, s)
<1>1. PICK i \in DOMAIN p \intersect DOMAIN q :
         Rank[p[i]] < Rank[q[i]] /\ \A j \in 1..(i - 1) : p[j] = q[j]
  BY PrecedesAt
<1>2. PICK k \in DOMAIN q \intersect DOMAIN s :
         Rank[q[k]] < Rank[s[k]] /\ \A j \in 1..(k - 1) : q[j] = s[j]
  BY PrecedesAt
<1>3. /\ DOMAIN p = 1..Len(p) /\ DOMAIN q = 1..Len(q) /\ DOMAIN s = 1..Len(s)
      /\ Len(p) \in Nat /\ Len(q) \in Nat /\ Len(s) \in Nat
  BY IdPath
<1>4. /\ i \in Nat /\ k \in Nat /\ i >= 1 /\ k >= 1
      /\ i <= Len(p) /\ i <= Len(q) /\ k <= Len(q) /\ k <= Len(s)
  BY <1>3
<1>5. CASE i < k
  <2>1. i \in DOMAIN s /\ i \in 1..(k - 1) /\ q[i] = s[i]
    BY <1>2, <1>3, <1>4, <1>5
  <2>2. \A j \in 1..(i - 1) : p[j] = s[j]
    BY <1>1, <1>2, <1>4, <1>5
  <2> QED
    BY <1>1, <2>1, <2>2, PrecedesAt
<1>6. CASE k < i
  <2>1. k \in DOMAIN p /\ k \in 1..(i - 1) /\ p[k] = q[k]
    BY <1>1, <1>3, <1>4, <1>6
  <2>2. \A j \in 1..(k - 1) : p[j] = s[j]
    BY <1>1, <1>2, <1>4, <1>6
  <2> QED
    BY <1>2, <2>1, <2>2, PrecedesAt
<1>7. CASE i = k
  <2>1. Rank[p[i]] \in 1..5 /\ Rank[q[i]] \in 1..5 /\ Rank[s[i]] \in 1..5
    BY <1>7, IdPath, RankFacts
  <2>2. Rank[p[i]] < Rank[s[i]]
    BY <1>1, <1>2, <1>7, <2>1
  <2>3. \A j \in 1..(i - 1) : p[j] = s[j]
    BY <1>1, <1>2, <1>7
  <2> QED
    BY <1>7, <2>2, <2>3, PrecedesAt
<1> QED
  BY <1>4, <1>5, <1>6, <1>7

\* Where there are ids one precedes all others, and the one found is it.
LEMMA FoundFirst ==
  ASSUME NEW r, IsResponse(r), IdNodes(r) # {}
  PROVE  \E p \in IdNodes(r) : /\ DocumentId(r) = r[p]
                               /\ \A q \in IdNodes(r) \ {p} : Precedes(p, q)
<1> DEFINE S == IdNodes(r)
           R == {pq \in S \X S : Precedes(pq[1], pq[2])}
<1>1. IsFiniteSet(S)
  BY FS_Subset DEF IsResponse, IdNodes
<1>2. \A p, q \in S : <<p, q>> \in R <=> Precedes(p, q)
  OBVIOUS
<1>3. \A p, q \in S : p # q => <<p, q>> \in R \/ <<q, p>> \in R
  BY <1>2, PrecedesTotal
<1>4. \A p, q, s \in S : <<p, q>> \in R /\ <<q, s>> \in R => <<p, s>> \in R
  BY <1>2, PrecedesTransitive
<1>5. \E p \in S : \A q \in S \ {p} : <<p, q>> \in R
  <2> HIDE DEF S, R
  <2>1. S # {}
    BY DEF S
  <2> QED
    BY <1>1, <1>3, <1>4, <2>1, FirstOfFinite
<1>6. \E p \in S : \A q \in S \ {p} : Precedes(p, q)
  BY <1>2, <1>5
<1> DEFINE found == CHOOSE p \in S : \A q \in S \ {p} : Precedes(p, q)
<1>7. found \in S /\ \A q \in S \ {found} : Precedes(found, q)
  BY <1>6
<1>8. DocumentId(r) = r[found]
  BY DEF DocumentId
<1> QED
  BY <1>7, <1>8

\* A document that was read has the id of the one that was asked for.
LEMMA DocumentOfInv == TransportInv => DocumentIsTheOneAsked
<1> SUFFICES ASSUME TransportInv, Succeeded, last.receipt.operation = "get_document"
             PROVE  /\ \E p \in DOMAIN Response : Response[p] = scope.document_id
                    /\ <<"id">> \in DOMAIN Response /\ Response[<<"id">>] \in Texts =>
                          Response[<<"id">>] = scope.document_id
  BY DEF DocumentIsTheOneAsked
<1> PICK r : r = Response
  OBVIOUS
<1>1. IsResponse(r) /\ DocumentDenial(r, scope.document_id) = "none"
  BY SucceededFacts, Faultless
<1>2. IdNodes(r) # {} /\ DocumentId(r) = scope.document_id
  BY <1>1 DEF DocumentDenial
<1>3. PICK p \in IdNodes(r) : /\ DocumentId(r) = r[p]
                              /\ \A q \in IdNodes(r) \ {p} : Precedes(p, q)
  BY <1>1, <1>2, FoundFirst
<1>4. p \in DOMAIN r /\ r[p] = scope.document_id
  BY <1>2, <1>3 DEF IdNodes
<1>5. ASSUME <<"id">> \in DOMAIN r, r[<<"id">>] \in Texts PROVE p = <<"id">>
  <2>1. Len(<<"id">>) = 1 /\ <<"id">>[1] = "id" /\ <<"id">> # <<>> /\ DOMAIN <<"id">> = {1}
    OBVIOUS
  <2>2. <<"id">> \in IdNodes(r)
    <3>1. LastKey(<<"id">>) = "id" /\ 1..(Len(<<"id">>) - 1) = {}
      BY <2>1 DEF LastKey
    <3>2. PICK own : own = <<"id">>
      OBVIOUS
    <3>3. /\ own \in DOMAIN r \ {<<>>} /\ LastKey(own) = "id" /\ 1..(Len(own) - 1) = {}
          /\ r[own] \in Texts
      BY <1>5, <2>1, <3>1, <3>2
    <3>4. own \in IdNodes(r)
      BY <3>3 DEF IdNodes
    <3> QED
      BY <3>2, <3>4
  <2>3. CASE p # <<"id">>
    <3>1. Precedes(p, <<"id">>)
      BY <1>3, <2>2, <2>3
    <3>2. 1 \in DOMAIN p /\ Rank[p[1]] < Rank["id"]
      BY <2>1, <3>1 DEF Precedes
    <3> QED
      BY <1>1, <3>2, IdPath, RankFacts
  <2> QED
    BY <2>3
<1> QED
  BY <1>4, <1>5

-----------------------------------------------------------------------------
(* The theorems.                                                           *)

\* Every request names a known read, and its path is made of the identifiers of
\* the run's scope alone; only a listing carries a query, a limit within bounds
\* (_arguments_for_action after _deny_action).
THEOREM RequestsInScope == Spec => []RequestsStayInScope
BY TransportInvariant, ScopeOfInv, PTL

\* An action that preflight has accepted is never refused when it is dispatched,
\* and can only read (preflight and dispatch share _deny_action).
THEOREM AcceptedIsDispatched == Spec => []PreflightSuffices
BY TransportInvariant, AcceptedOfInv, PTL

\* A receipt tells what its call did: whether the request was sent, that only a
\* response verifies it, and nothing else succeeds; if the session's exceptions
\* tell whether the request was written (_receipt_from_result, _exception_receipt).
THEOREM ReceiptsTellTheTruth == FlagsTell => (Spec => []ReceiptsTruthful)
<1>1. TransportInv => (FlagsTell => ReceiptsTruthful)
  BY TruthOfInv
<1>2. ASSUME FlagsTell PROVE Spec => []ReceiptsTruthful
  <2>1. TransportInv => ReceiptsTruthful
    BY <1>1, <1>2
  <2> QED
    BY <2>1, TransportInvariant, PTL
<1> QED
  BY <1>2

\* No response that holds an error, a failed status or the message of a missing
\* login, or tells the code of an error at its top, is taken for evidence,
\* whatever its size (_validate_response).
THEOREM NoErrorSlips == Spec => []NoErrorPasses
BY TransportInvariant, NoErrorOfInv, PTL

\* The code that a response tells within eight steps of its root, in an error or
\* under a code's key, is the receipt's, or else another one it tells there or
\* one step deeper is (_status_error_code).
THEOREM CodesAreKept == Spec => []ErrorsKeepTheirCode
BY TransportInvariant, CodeOfInv, PTL

\* A login that is reported as valid was said to be valid, and nothing within the
\* depth that is searched says otherwise (_auth_status_error_code).
THEOREM LoginsStand == Spec => []LoginUncontradicted
BY TransportInvariant, LoginOfInv, PTL

\* A document that is reported as read has the id that was asked for, its own
\* before any within it, in a response of any shape (_find_document_id).
THEOREM RightDocument == Spec => []DocumentIsTheOneAsked
BY TransportInvariant, DocumentOfInv, PTL

=============================================================================
