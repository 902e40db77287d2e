---------------------------- MODULE Orchestrator ----------------------------
(***************************************************************************)
(* MainOrchestrator (src/onshape_agent/orchestrator.py): the graph of      *)
(* tasks it selects for a kind of task, and where it sends a diagnosis.    *)
(***************************************************************************)
EXTENDS Integers, Sequences

\* The nodes of the graph are the positions of its capabilities.
Capabilities ==
    [full_design   |-> <<"engineering_analysis", "physics_solver", "cad_planning",
                         "geometry_verification", "drawing_planning", "visual_qa">>,
     cad_edit      |-> <<"cad_planning", "geometry_verification", "visual_qa">>,
     drawing_only  |-> <<"drawing_planning", "visual_qa">>,
     analysis_only |-> <<"engineering_analysis", "physics_solver">>]

\* zip(nodes, nodes[1:]).
Chain(n) == [i \in 1..(n - 1) |-> [source |-> i, target |-> i + 1]]

SelectGraph(kind) ==
    [nodes |-> [i \in DOMAIN Capabilities[kind] |-> i], edges |-> Chain(Len(Capabilities[kind]))]

RepairRoute ==
    [engineering_model_error |-> [target |-> "engineering_agent", state |-> "ANALYSIS_PLANNING"],
     cad_geometry_error      |-> [target |-> "cad_agent", state |-> "CAD_PLANNING"],
     assembly_mate_error     |-> [target |-> "cad_agent", state |-> "CAD_PLANNING"],
     drawing_error           |-> [target |-> "drawing_agent", state |-> "DRAWING_PLANNING"],
     gateway_api_error       |-> [target |-> "cad_gateway", state |-> "CAD_EXECUTION"],
     visual_uncertainty      |-> [target |-> "visual_qa_agent", state |-> "VISUAL_QA"],
     unresolved_requirement  |-> [target |-> "user", state |-> "USER_CONFIRMATION"]]

\* diagnose: no repair once the attempts are used up.
Diagnose(issue, attempt, max_attempts) ==
    IF attempt >= max_attempts THEN [target |-> "none", state |-> "BLOCKED"]
    ELSE RepairRoute[issue]
=============================================================================
