------------------------------- MODULE GraphRun -------------------------------
(***************************************************************************)
(* What the engine promises of a workflow: its nodes are done one after    *)
(* another along the graph from its entry, a high-risk one never without a *)
(* pause before it, none while it is paused or after it ended; it succeeds *)
(* only where the graph ends, and the caller who waits is told once, in    *)
(* the step that ends it.  Tasks, events, locks, retries and recoveries,   *)
(* and the requests to the human, are WorkflowEngine's.                    *)
(***************************************************************************)
EXTENDS Integers, Sequences

CONSTANTS
  Workflows, Nodes, None, Entry,
  Risky,    \* the nodes a human must confirm
  Exits,    \* where a node may say to go on, None for the end of the graph
  MaxSteps

VARIABLES
  status,  \* of each workflow
  path,    \* the nodes done, and where each said to go on
  caller   \* what the one who waits knows: "none", "pending", "result", "error"

vars == <<status, path, caller>>

\* The node to do next.
Here(w) == IF path[w] = <<>> THEN Entry[w] ELSE path[w][Len(path[w])].next

Turn(w, from, to) == status[w] = from /\ status' = [status EXCEPT ![w] = to]

Tell(w, outcome) ==
  caller' = [caller EXCEPT ![w] = IF @ = "pending" THEN outcome ELSE @]

Init ==
  /\ status = [w \in Workflows |-> "PENDING"]
  /\ path = [w \in Workflows |-> <<>>]
  /\ caller = [w \in Workflows |-> "none"]

\* Somebody waits for it, or nobody does.
Begin(w) ==
  /\ Turn(w, "PENDING", "RUNNING")
  /\ caller' \in {caller, [caller EXCEPT ![w] = "pending"]}
  /\ UNCHANGED path

Do(w, next) ==
  /\ status[w] = "RUNNING" /\ Here(w) \in Nodes \ Risky /\ Len(path[w]) < MaxSteps
  /\ next \in Exits[Here(w)]
  /\ path' = [path EXCEPT ![w] = Append(@, [node |-> Here(w), next |-> next])]
  /\ UNCHANGED <<status, caller>>

Pause(w) == Here(w) \in Risky /\ Turn(w, "RUNNING", "PAUSED") /\ UNCHANGED <<path, caller>>

Resume(w) == Turn(w, "PAUSED", "RUNNING") /\ UNCHANGED <<path, caller>>

Succeed(w) ==
  /\ Here(w) = None
  /\ Turn(w, "RUNNING", "SUCCESS")
  /\ Tell(w, "result")
  /\ UNCHANGED path

\* Only what is not at its end fails.
Fail(w) ==
  /\ Here(w) # None
  /\ Turn(w, "RUNNING", "FAILED")
  /\ Tell(w, "error")
  /\ UNCHANGED path

Cancel(w) == Turn(w, "PAUSED", "CANCELLED") /\ Tell(w, "error") /\ UNCHANGED path

Next ==
  \E w \in Workflows :
    \/ Begin(w) \/ Pause(w) \/ Resume(w) \/ Succeed(w) \/ Fail(w) \/ Cancel(w)
    \/ \E next \in Nodes \cup {None} : Do(w, next)

Spec == Init /\ [][Next]_vars
=============================================================================
