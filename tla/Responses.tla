----------------------------- MODULE Responses -----------------------------
(***************************************************************************)
(* What the read transport looks for in a response                         *)
(* (src/onshape_agent/live_transport.py): codes of errors, marks of        *)
(* errors, signals of authentication and the evidence of each read.        *)
(*                                                                         *)
(* A response is a JSON value: a function from the paths of its nodes to   *)
(* what is there.  A path is a sequence of keys and, within a list, of     *)
(* indices; a node is "object", "list" or a scalar.  The code's recursive  *)
(* searches become conditions on paths: what _status_error_code visits at  *)
(* depth n is a node whose path has n steps.  A key stands for every key   *)
(* that _normalise_key maps to it, so an object has no two of them; the    *)
(* scalars are a few of each kind the code's tables tell apart.            *)
(***************************************************************************)
EXTENDS Integers, Sequences, FiniteSets

CONSTANT Identifiers  \* document, workspace and element ids

Indices == {"[0]", "[1]", "[2]"}

IsResponse(r) ==
    /\ <<>> \in DOMAIN r
    /\ DOMAIN r \subseteq Seq(STRING) /\ IsFiniteSet(DOMAIN r)
    /\ \A p \in DOMAIN r \ {<<>>} :
          LET front == SubSeq(p, 1, Len(p) - 1) IN
          /\ front \in DOMAIN r
          /\ r[front] = IF p[Len(p)] \in Indices THEN "list" ELSE "object"

LastKey(p) == p[Len(p)]
Within(p, q) == Len(q) >= Len(p) /\ SubSeq(q, 1, Len(p)) = p
Children(r, p) == {q \in DOMAIN r : Len(q) = Len(p) + 1 /\ Within(p, q)}
Holds(r, p, value) == p \in DOMAIN r /\ r[p] = value

MaxDepth == 8

-----------------------------------------------------------------------------
(* The keys and the scalars of the code's tables.                          *)

StatusKeys == {"status", "statuscode", "httpstatus", "httpstatuscode"}
CodeKeys == StatusKeys \union {"code", "errorcode"}
ErrorContainers == {"error", "errors", "exception", "failure"}
BooleanKeys == {"authenticated", "configured", "valid"}
BoundsKeys == {"lowX", "lowY", "lowZ", "highX", "highY", "highZ"}

\* _status_value: integers, and words that map to one of the four codes.
StatusCode(value) ==
    CASE value \in {"401", "unauthorized", "expired"} -> "AUTH_REQUIRED"
      [] value = "forbidden"                          -> "SCOPE_DENIED"
      [] value \in {"404", "notfound"}                -> "NOT_FOUND"
      [] value = "429"                                -> "RATE_LIMITED"
      [] OTHER                                        -> "none"

ErrorStatuses == {"401", "404", "429", "unauthorized", "expired", "forbidden", "notfound",
                  "invalid", "failed", "loginfailed"}
AuthMessages == {"unauthorized", "loginfailed", "invalidtoken"}
FailureStates == {"invalid", "failed", "expired", "unauthorized", "notvalidated"}
SuccessStates == {"valid", "ready"}
FalseFlags == {"false", "0", "invalid", "expired", "unauthorized", "notvalidated"}
TrueFlags == {"true", "1", "valid", "ready"}

\* A number is neither a Boolean nor NaN; a text is a string that is not blank.
Number == [n \in {"0", "1", "401", "404", "429"} |->
              CASE n = "0" -> 0 [] n = "1" -> 1 [] n = "401" -> 401
                [] n = "404" -> 404 [] n = "429" -> 429]
Texts == Identifiers \union AuthMessages \union FailureStates \union SuccessStates
         \union {"forbidden", "notfound", "ok"}

-----------------------------------------------------------------------------
(* _status_error_code: from the root only lists, codes and containers of   *)
(* errors are entered; within one of the latter two, everything.           *)

InError(p) == \E i \in DOMAIN p : p[i] \notin Indices

Visited(p) ==
    /\ Len(p) <= MaxDepth
    /\ \A i \in DOMAIN p :
          p[i] \in Indices \union CodeKeys \union ErrorContainers \/ InError(SubSeq(p, 1, i - 1))

\* The scalars it asks for a code: those it visits in an error, and those of
\* the status keys of an object it visits.
StatusNodes(r) ==
    {p \in DOMAIN r \ {<<>>} :
        \/ Visited(p) /\ InError(p)
        \/ LastKey(p) \in StatusKeys /\ Visited(SubSeq(p, 1, Len(p) - 1))}

\* Mutant: every code that is found is taken for a missing login.
FoundCodesLogin(r) ==
    IF \E p \in StatusNodes(r) : StatusCode(r[p]) # "none" THEN {"AUTH_REQUIRED"} ELSE {}

\* The code returns the first it finds, in the order of the document: any of them.
FoundCodes(r) == {StatusCode(r[p]) : p \in StatusNodes(r)} \ {"none"}

-----------------------------------------------------------------------------
\* Mutant: only the root and its values are looked at.
HasErrorMarkerShallow(r, auth) ==
    \E p \in DOMAIN r \ {<<>>} :
        /\ Len(p) = 1
        /\ \/ LastKey(p) \in ErrorContainers
           \/ LastKey(p) = "status" /\ r[p] \in ErrorStatuses /\ ~auth

\* _contains_error_marker, at any depth; the status of the root of an answer to
\* auth_status is left to the signals of authentication.
HasErrorMarker(r, auth) ==
    \E p \in DOMAIN r \ {<<>>} :
        \/ LastKey(p) \in ErrorContainers
        \/ LastKey(p) = "status" /\ r[p] \in ErrorStatuses /\ ~(auth /\ Len(p) = 1)
        \/ LastKey(p) = "message" /\ Len(p) > 1 /\ r[p] \in AuthMessages

\* _collect_auth_signals looks at the values of the objects eight levels deep.
SignalNodes(r) == {p \in DOMAIN r : Len(p) \in 1..(MaxDepth + 1)}

FailureSignal(r) ==
    \E p \in SignalNodes(r) :
        \/ LastKey(p) = "status" /\ r[p] \in FailureStates
        \/ LastKey(p) \in BooleanKeys /\ r[p] \in FalseFlags

SuccessSignal(r) ==
    \E p \in SignalNodes(r) :
        \/ LastKey(p) = "status" /\ r[p] \in SuccessStates
        \/ LastKey(p) \in BooleanKeys \ {"configured"} /\ r[p] \in TrueFlags

-----------------------------------------------------------------------------
(* The evidence of the reads.                                              *)

\* _countable_items.
HasItems(r) == r[<<>>] = "list" \/ Holds(r, <<"items">>, "list")

\* _non_empty_list_field and _valid_body_details.
HasBodyDetails(r) ==
    /\ Holds(r, <<"bodies">>, "list")
    /\ Children(r, <<"bodies">>) # {}
    /\ \A body \in Children(r, <<"bodies">>) : \A key \in {"id", "type"} :
          Append(body, key) \in DOMAIN r /\ r[Append(body, key)] \in Texts

\* _has_numeric_bounds.
HasBounds(r) ==
    /\ \A key \in BoundsKeys : <<key>> \in DOMAIN r /\ r[<<key>>] \in DOMAIN Number
    /\ Number[r[<<"lowX">>]] <= Number[r[<<"highX">>]]
    /\ Number[r[<<"lowY">>]] <= Number[r[<<"highY">>]]
    /\ Number[r[<<"lowZ">>]] <= Number[r[<<"highZ">>]]

\* _non_empty_mapping_field and _valid_mass_properties: a finite number in each
\* body, up to eight levels below it.
HasMasses(r) ==
    /\ Holds(r, <<"bodies">>, "object")
    /\ Children(r, <<"bodies">>) # {}
    /\ \A body \in Children(r, <<"bodies">>) :
          /\ r[body] = "object"
          /\ \E p \in DOMAIN r :
                Within(body, p) /\ Len(p) <= Len(body) + MaxDepth /\ r[p] \in DOMAIN Number

\* _find_document_id: depth first, an object's own id before those within it.
Rank == [id |-> 1, documentId |-> 2, document |-> 3, data |-> 4, response |-> 5]
IdNodes(r) ==
    {p \in DOMAIN r \ {<<>>} :
        /\ LastKey(p) \in {"id", "documentId"}
        /\ \A i \in 1..(Len(p) - 1) : p[i] \in {"document", "data", "response"}
        /\ r[p] \in Texts \union {""}}

Precedes(p, q) ==
    \E i \in DOMAIN p \intersect DOMAIN q :
        Rank[p[i]] < Rank[q[i]] /\ SubSeq(p, 1, i - 1) = SubSeq(q, 1, i - 1)

\* Mutant: the id that is named last.
DocumentIdLast(r) ==
    r[CHOOSE p \in IdNodes(r) : \A q \in IdNodes(r) \ {p} : Precedes(q, p)]

DocumentId(r) ==
    r[CHOOSE p \in IdNodes(r) : \A q \in IdNodes(r) \ {p} : Precedes(p, q)]
=============================================================================
