----------------------------- MODULE MCGateway -----------------------------
(* Instances of Gateway for TLC. *)
EXTENDS Gateway

MCNames == {1, 2, 3}

Entry(a, type, values, deps) ==
    [id |-> a, type |-> type, values |-> values, depends_on |-> deps]

\* A chain listed backwards, a fork, independent actions, a cycle, a defect in
\* the last action, a single action and an empty plan.
Chain(type) == <<Entry(3, type, "settled", <<2>>), Entry(2, type, "settled", <<1>>),
                 Entry(1, type, "settled", <<>>)>>
Fork(type)  == <<Entry(2, type, "settled", <<1>>), Entry(3, type, "settled", <<1, 1>>),
                 Entry(1, type, "settled", <<>>)>>
Loop(type)  == <<Entry(1, type, "settled", <<>>), Entry(2, type, "settled", <<3>>),
                 Entry(3, type, "settled", <<2>>)>>
Spoilt      == <<Entry(1, "read_back", "settled", <<>>),
                 Entry(2, "read_back", "unapproved", <<>>)>>
Mutating    == <<Entry(1, "read_back", "settled", <<>>),
                 Entry(2, "ensure", "settled", <<>>)>>

MCPlans ==
    [mode : Modes, scope : {"valid"}, assumptions : {"settled"},
     actions : {Chain("read_back"), Fork("read_back"), Loop("read_back"), Spoilt,
                Mutating, <<>>}]
    \union [mode : {"simulated"}, scope : {"none"}, assumptions : {"settled"},
            actions : {Chain("ensure")}]

OneReadPlans ==
    [mode : Modes, scope : {"valid"}, assumptions : {"settled"},
     actions : {<<Entry(1, "read_back", "settled", <<>>)>>}]

\* Every kind of receipt, with one error code for those that did not succeed.
MCReceipts ==
    {r \in Receipt : r.error = IF r.status = "SUCCEEDED" THEN "UNLISTED" ELSE "AUTH_REQUIRED"}

\* Receipts of a transport that works, but may not have verified or sent.
GoodReceipts ==
    {r \in Receipt : r.matches /\ r.status = "SUCCEEDED" /\ r.error = "UNLISTED"}
=============================================================================
