-------------------------- MODULE MCLiveTransport --------------------------
(* Instances of LiveTransport for TLC. *)
EXTENDS LiveTransport

CONSTANTS d1, d2, w1, e1   \* model values: two documents, a workspace, an element

MCIdentifiers == {d1, d2, w1, e1}

Target(document, wvm, wvm_id, element) ==
    [document_id |-> document, wvm |-> wvm, wvm_id |-> wvm_id, element_id |-> element]

\* Nothing, a document, a workspace of it, an element of that, and pairs of wvm
\* and wvm_id of which one is missing.
MCScopes == {Target(None, None, None, None), Target(d1, None, None, None),
             Target(d1, "w", w1, None), Target(d1, "w", w1, e1),
             Target(d1, "w", None, e1), Target(d1, None, w1, e1)}

NoParameters == [key \in {} |-> None]
Read(kind, parameters) == [type |-> "read_back", read_kind |-> kind, parameters |-> parameters]

MCActions ==
    {Read("auth_status", NoParameters), Read("auth_status", [limit |-> 1]),
     Read("list_documents", [limit |-> 100]), Read("list_documents", [limit |-> 101]),
     Read("list_documents", [document_id |-> d1]),
     Read("get_document", [document_id |-> d1]), Read("get_document", [document_id |-> d2]),
     Read("get_document", [endpoint |-> d1]),
     Read("read_elements", NoParameters), Read("bounding_boxes", NoParameters),
     Read("body_details", [element_id |-> e1, wvm |-> "w"]),
     Read("mass_properties", [element_id |-> Nested]), Read("mass_properties", NoParameters),
     Read("delete_document", NoParameters), Read(None, NoParameters),
     [type |-> "ensure_sketch", read_kind |-> "get_document", parameters |-> NoParameters]}

-----------------------------------------------------------------------------
\* The response with one node at a path and what leads to it; one over another.
Along(path, value) ==
    [p \in {SubSeq(path, 1, n) : n \in 0..Len(path)} |->
        IF p = path THEN value ELSE IF path[Len(p) + 1] \in Indices THEN "list" ELSE "object"]
Over(r, s) == [p \in DOMAIN r \union DOMAIN s |-> IF p \in DOMAIN r THEN r[p] ELSE s[p]]
Others(n) == [i \in 1..n |-> "other"]

Bounds(low, high) ==
    [p \in {<<>>} \union {<<key>> : key \in BoundsKeys} |->
        IF p = <<>> THEN "object" ELSE IF p[1] \in {"lowX", "lowY", "lowZ"} THEN low ELSE high]
Body(k, kind) == Over(Along(<<"bodies", k, "id">>, "ok"), Along(<<"bodies", k, "type">>, kind))

\* Right for every operation; its bodies are those of one read or of the other.
Good == Over(Bounds("0", "1"),
             Over(Along(<<"authenticated">>, "true"),
                  Over(Along(<<"id">>, d1), Along(<<"items">>, "list"))))
GoodDetails == Over(Body("[0]", "ok"), Good)
GoodMasses == Over(Along(<<"bodies", "other", "other">>, "1"), Good)

\* One thing wrong, or right, or neither, at some place of a good response: at
\* the root, in a wrapper, a list or an error, and around the limits of depth.
Places == {<<>>, <<"other">>, <<"data">>, <<"other", "[0]">>, <<"error">>, <<"code">>,
           Others(7), Others(8), Others(9), <<"code">> \o Others(6), <<"code">> \o Others(7),
           <<"code">> \o Others(8)}
OddKeys == {"status", "statuscode", "message", "authenticated", "configured", "id", "error",
            "other"}
OddValues == {"404", "expired", "invalid", "loginfailed", "unauthorized", "notvalidated",
              "forbidden", "valid", "true", "false", "ok", d2}
Odd == {Over(Along(Append(place, key), value), GoodDetails) :
            place \in Places, key \in OddKeys, value \in OddValues}

\* Evidence in other shapes, right and wrong, and responses without any.
Evidence ==
    {GoodMasses, Bounds("1", "0"), Bounds("nan", "1"), Bounds("true", "1"), Bounds("ok", "1"),
     Along(<<"bodies">>, "list"), Along(<<"bodies">>, "object"), Along(<<"bodies", "[0]">>, "ok"),
     Body("[0]", ""), Over(Body("[0]", "ok"), Along(<<"bodies", "[1]">>, "object")),
     Along(<<"bodies", "other">>, "object"), Along(<<"bodies", "other">>, "1"),
     Along(<<"bodies", "other", "other">>, "true"),
     Along(<<"bodies">> \o Others(9), "1"), Along(<<"bodies">> \o Others(10), "1"),
     Over(GoodMasses, Along(<<"bodies", "code">>, "object")),
     Along(<<"documentId">>, d1), Along(<<"response", "data", "document", "id">>, d1),
     Over(Along(<<"id">>, "0"), Along(<<"documentId">>, d1)),
     Over(Along(<<"document", "id">>, d2), Along(<<"data", "id">>, d1)),
     Over(Along(<<"document", "id">>, d1), Along(<<"data", "documentId">>, d2)),
     Over(Along(<<"id">>, d2), Along(<<"data", "id">>, d1)),
     Over(Along(<<"id">>, ""), Along(<<"data", "id">>, d1)),
     Along(<<"status">>, "valid"), Along(<<"configured">>, "true"), Along(<<"items">>, "ok"),
     Along(<<>>, "object"), Along(<<>>, "list"), Along(<<>>, "ok"), Along(<<>>, "401"),
     Along(<<"[0]", "status">>, "404"), Along(<<"[0]", "message">>, "invalidtoken"),
     Over(Along(<<"errors", "[0]">>, "404"), Along(<<"errors", "[1]">>, "forbidden"))}

MCResults ==
    {[kind |-> "returned", response |-> r] : r \in Odd \union Evidence}
    \union
    {[kind |-> "raised", code |-> c, flag |-> TRUE, written |-> TRUE] :
        c \in {"TRANSPORT_TIMEOUT", "MCP_ERROR"}}
    \union
    {[kind |-> "raised", code |-> c, flag |-> FALSE, written |-> FALSE] :
        c \in {"TRANSPORT_FAILED", "INVALID_REQUEST"}}
=============================================================================
