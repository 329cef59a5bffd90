--------------------------- MODULE MCWorkflowEngine ---------------------------
(***************************************************************************)
(* A small instance of WorkflowEngine.  Workflow c: a skill, a condition   *)
(* that goes back to it, on to the end, or stops; the skill's result may   *)
(* name the high-risk node.  Workflow d is what start_workflow begins: the *)
(* START node alone.                                                       *)
(***************************************************************************)
EXTENDS WorkflowEngine

CONSTANTS c, d, skill, cond, end, rm, start

MCEntry == [w \in Workflows |-> IF w = d THEN start ELSE skill]
MCKind == [n \in Nodes |-> CASE n = skill -> "work" [] n = cond -> "condition"
                             [] n = rm -> "risky" [] OTHER -> "pass"]
MCEdge == [n \in Nodes |-> CASE n = skill -> cond [] n = cond -> end
                             [] n = rm -> end [] OTHER -> None]
MCBranches == [n \in Nodes |-> IF n = cond THEN {skill, end, None} ELSE {}]
MCJumps == [n \in Nodes |-> IF n = skill THEN {rm} ELSE {}]
=============================================================================
