----------------------------- MODULE MCTaskQueue -----------------------------
(* TLC's instance of TaskQueue: the two chats are interchangeable.         *)
EXTENDS TaskQueue, TLC

ChatSymmetry == Permutations(Chats)
=============================================================================
