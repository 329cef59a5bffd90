----------------------------- MODULE MCCheckpoints -----------------------------
(***************************************************************************)
(* A small instance of Checkpoints: the phase gate saves code and the next *)
(* phase, test, as good, two retrying writers of code compete with it and  *)
(* with each other, and one job rolls back.                                *)
(***************************************************************************)
EXTENDS Checkpoints

CONSTANTS gate, next, r1, r2, back, code, test

MCRole == [j \in Jobs |-> CASE j \in {gate, next} -> "append"
                            [] j \in {r1, r2} -> "retry" [] OTHER -> "rollback"]
MCPhase == [j \in Jobs |-> IF j = next THEN test ELSE code]
=============================================================================
