---------------------------- MODULE MCTaskDispatch ----------------------------
(***************************************************************************)
(* Small instances of TaskDispatch: chat c1 has three prompts, two of them *)
(* with the same text, chat c2 has one.                                    *)
(***************************************************************************)
EXTENDS TaskDispatch, TLC

CONSTANTS c1, c2, t1, t2, t3, u1, discard, cancel, status, h1, h2

MCChatOf == [e \in Events |-> IF e = u1 THEN c2 ELSE c1]
MCTextOf == [t \in Tasks |-> IF t = t3 THEN t2 ELSE t]
MCKindOf == [k \in Commands |-> IF k = discard THEN "discard"
                                ELSE IF k = cancel THEN "cancel" ELSE "status"]

\* The handlers of the semaphore are alike.
HandlerSymmetry == Permutations(Handlers)
=============================================================================
