------------------------------ MODULE ChatTurns ------------------------------
(***************************************************************************)
(* What the dispatcher promises the users of its chats: one prompt of a    *)
(* chat runs at a time, a prompt that ended or was dropped does not run,   *)
(* and only the end of the process cuts off one that runs, which may then  *)
(* run again in another process.  How the turns are taken, and how a       *)
(* process stops and starts, is TaskDispatch.                              *)
(***************************************************************************)
CONSTANTS Tasks, ChatOf

VARIABLES
  status,  \* of each prompt
  up       \* is there a process, and not yet ending?

vars == <<status, up>>

Init ==
  /\ status = [t \in Tasks |-> "new"]
  /\ up = TRUE

Move(t, from, to) ==
  /\ status[t] = from
  /\ status' = [status EXCEPT ![t] = to]
  /\ UNCHANGED up

Request(t) == up /\ Move(t, "new", "waiting")

Run(t) ==
  /\ up
  /\ \A u \in Tasks : status[u] = "running" => ChatOf[u] # ChatOf[t]
  /\ Move(t, "waiting", "running")

End(t) == Move(t, "running", "ended")

\* Prompts of one chat are refused, evicted or discarded before they run.
Drop(D) ==
  /\ up
  /\ \A t \in D : status[t] = "waiting"
  /\ \A t, u \in D : ChatOf[t] = ChatOf[u]
  /\ status' = [t \in Tasks |-> IF t \in D THEN "dropped" ELSE status[t]]
  /\ UNCHANGED up

\* The process is ending and some of its turns are cut off: their prompts wait
\* for another process, or were discarded while they ran.
Stop(W, D) ==
  /\ \A t \in W \cup D : status[t] = "running"
  /\ status' = [t \in Tasks |-> IF t \in W THEN "waiting"
                                ELSE IF t \in D THEN "dropped" ELSE status[t]]
  /\ up' = FALSE

Start ==
  /\ ~up
  /\ \A t \in Tasks : status[t] # "running"
  /\ up' = TRUE
  /\ UNCHANGED status

Next ==
  \/ \E t \in Tasks : Request(t) \/ Run(t) \/ End(t)
  \/ \E D \in SUBSET Tasks : Drop(D)
  \/ \E W, D \in SUBSET Tasks : Stop(W, D)
  \/ Start

Spec == Init /\ [][Next]_vars
=============================================================================
