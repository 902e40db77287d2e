---------------------------- MODULE MCMcpStdio ----------------------------
(* Instances of McpStdio for TLC. *)
EXTENDS McpStdio, TLC

CONSTANTS t1, t2    \* model values: two client threads

TwoThreads == {t1, t2}
OneThread  == {t1}

AllKinds == {"ok", "error", "bad", "big", "raises"}
\* "error" and "raises" end a call the way "bad" does, with another code.
ShortKinds == {"ok", "bad", "big"}
=============================================================================
