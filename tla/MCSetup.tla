------------------------------ MODULE MCSetup ------------------------------
(* Instances of Setup for TLC. *)
EXTENDS Setup

CONSTANTS c1, c2, k1    \* model values: two Codex homes, a Claude directory

OneCodex == {c1}
TwoCodex == {c1, c2}
OneClaude == {k1}

Foreign == [owner |-> "them", run |-> 0, homes |-> {}]

DiskWith(ps) == [p \in Paths |-> IF p \in ps THEN Foreign ELSE Absent]

\* Nothing there, somebody else's skill (marked or not), agents or install
\* state, a marker alone, and everything at once.
MCDisks ==
    {DiskWith(ps) : ps \in {{}, {Skill(c1)}, {Skill(c1), Marker(c1)}, {Agent(k1)},
                            {State}, {Marker(k1)}, {AgentMarker(k1)}, Paths \ {Runtime}}}

EmptyDisk == {DiskWith({})}

\* Scripts in which nothing fails and which nothing stops.
FailureFree == Init /\ [][Start \/ Skip \/ Stash \/ Create \/ Commit \/ CleanUp]_vars
=============================================================================
