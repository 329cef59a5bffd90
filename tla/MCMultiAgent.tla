---------------------------- MODULE MCMultiAgent ----------------------------
(***************************************************************************)
(* Small instances of MultiAgent: w1 needs a new skill, w2 has one.        *)
(***************************************************************************)
EXTENDS MultiAgent

CONSTANTS w1, w2

MCPlansOf == [w \in Workflows |-> IF w = w1 THEN {CreationPlan} ELSE {FastPlan}]
=============================================================================
