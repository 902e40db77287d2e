----------------------------- MODULE MCLiveRun -----------------------------
(* Instances of LiveRun for TLC. *)
EXTENDS LiveRun

CONSTANTS d1   \* model value: a document

MCNames == {1}
MCIdentifiers == {d1}

\* The plan of _run: one read_back in a valid live scope.
MCPlans == {[mode |-> "live", scope |-> "valid", assumptions |-> "settled",
             actions |-> <<[id |-> 1, type |-> "read_back", values |-> "settled",
                            depends_on |-> <<>>]>>]}

MCCommands == {"auth_status", "list_documents", "get_document"}

Root(key, value) == [p \in {<<>>, <<key>>} |-> IF p = <<>> THEN "object" ELSE value]

\* Responses that are right for one read and short of another, a login that is
\* denied, a code, an error without one and a scalar; and errors of each kind.
MCResponses ==
    {Root("authenticated", "true"), Root("authenticated", "false"), Root("items", "list"),
     Root("id", d1), Root("id", "ok"), Root("statuscode", "404"), Root("status", "401"),
     Root("error", "ok"), [p \in {<<>>} |-> "ok"]}

MCResults ==
    {[kind |-> "returned", response |-> r] : r \in MCResponses}
    \union
    {[kind |-> "raised", code |-> c, flag |-> TRUE, written |-> TRUE] :
        c \in {"TRANSPORT_TIMEOUT", "MCP_ERROR"}}
    \union
    {[kind |-> "raised", code |-> c, flag |-> FALSE, written |-> FALSE] :
        c \in {"TRANSPORT_FAILED", "INVALID_REQUEST"}}

\* With a call that ends in an exception McpStdioSession does not expect, such
\* as the RecursionError of json.loads: it has no code and no flag.
UntypedResults ==
    MCResults \union {[kind |-> "raised", code |-> "untyped", flag |-> FALSE, written |-> TRUE]}

MCErrors == {e \in Error : e.code \in {"TRANSPORT_UNAVAILABLE", "MCP_ERROR", "untyped"}}
=============================================================================
