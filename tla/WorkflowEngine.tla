---------------------------- MODULE WorkflowEngine ----------------------------
(***************************************************************************)
(* orchestrator/workflow_engine.py and the human in its loop,              *)
(* orchestrator/hitl_handler.py.  A workflow is a graph of nodes and a row *)
(* on file.  A task runs one node under the workflow's lock and publishes  *)
(* what became of it; one listener takes these events in turn, loads the   *)
(* row, and under the lock routes to the next node, retries, or ends.  A   *)
(* high-risk node is not run: the workflow is paused and a human asked.    *)
(*                                                                         *)
(* Tasks, listener and human work on a copy of the row, loaded before they *)
(* have the lock.  What a section under the lock does is one step: all     *)
(* others wait for it.  Here every save of a row succeeds.                 *)
(***************************************************************************)
EXTENDS Integers, Sequences, FiniteSets

CONSTANTS
  Workflows,
  Direct,        \* those begun by start_workflow: no caller waits for them
  Nodes,
  None,          \* Python's None
  Entry,         \* _find_entry_node of each workflow
  Kind,          \* "pass": START, END, HUMAN; "work": LLM, SKILL_CALL, TOOL;
                 \* "condition"; "risky": what _is_high_risk_action finds
  Edge,          \* the first edge out of a node, or None
  Branches,      \* where a condition may lead, None where it ends the graph
  Jumps,         \* the next_node values a node's result may name
  MaxRetries,    \* max_retries of a node
  MaxRecoveries, \* ADAMI_WORKFLOW_PHASE_RECOVERY_MAX
  MaxSteps,      \* max_steps
  Hitl           \* values of ADAMI_ENABLE_HITL an installation may have

Statuses == {"PENDING", "RUNNING", "PAUSED", "SUCCESS", "FAILED", "CANCELLED"}
Final == {"SUCCESS", "FAILED", "CANCELLED"}

\* A WorkflowState: error_retry_counts, metadata["phase_recovery_count"], and
\* of the edges those a condition may rewrite.
Rows == [status : Statuses, node : Nodes, steps : 0..MaxSteps,
         retries : [Nodes -> 0..MaxRetries + 1], recoveries : 0..MaxRecoveries,
         edge : [Nodes -> Nodes \cup {None}]]

Events == [wf : Workflows, type : {"START", "COMPLETE", "TRANSIENT", "FATAL"},
           node : Nodes, jump : Nodes \cup {None}]

ASSUME WorkflowEngineAssumption ==
  /\ Direct \subseteq Workflows
  /\ None \notin Nodes
  /\ Entry \in [Workflows -> Nodes]
  /\ Kind \in [Nodes -> {"pass", "work", "condition", "risky"}]
  /\ Edge \in [Nodes -> Nodes \cup {None}]
  /\ Branches \in [Nodes -> SUBSET (Nodes \cup {None})]
  /\ \A n \in Nodes : Kind[n] = "condition" => Branches[n] # {}
  /\ Jumps \in [Nodes -> SUBSET Nodes]
  /\ MaxRetries \in Nat /\ MaxRecoveries \in Nat /\ MaxSteps \in Nat \ {0}
  /\ Hitl \subseteq BOOLEAN

\* None is none of the records a variable may hold instead.
ASSUME NoneIsNoRecord ==
  None \notin Rows \cup [event : Events, copy : Rows]
                  \cup [button : {"resume", "cancel"}, copy : Rows]

VARIABLES
  row,      \* the newest row of the workflow on file
  future,   \* _completion_futures: "none", "pending", "result", "error"
  spawned,  \* tasks of _execute_node not yet begun, each with its copy
  running,  \* the copy of the task that holds the lock, or None
  events,   \* workflow.events, as the listener gets it
  handled,  \* the event the listener has, with the row it loaded, or None
  asked,    \* of the human: "no", "event" on hitl.events, "open" request
  answer,   \* process_resume on its way: the button and the row loaded, or None
  hitl,     \* is somebody subscribed to hitl.events?
  trail,    \* history: each node completed and where it said to go on
  tries,    \* history: how often the current node was run since the route to it
  approved  \* history: the nodes a human said to retry

history == <<trail, tries, approved>>
vars == <<row, future, spawned, running, events, handled, asked, answer, hitl, history>>

Fresh(w) ==
  [status |-> "PENDING", node |-> Entry[w], steps |-> 0,
   retries |-> [n \in Nodes |-> 0], recoveries |-> 0, edge |-> Edge]

Event(w, type, n, j) == [wf |-> w, type |-> type, node |-> n, jump |-> j]

-----------------------------------------------------------------------------
Init ==
  /\ row = [w \in Workflows |-> Fresh(w)]
  /\ future = [w \in Workflows |-> "none"]
  /\ spawned = [w \in Workflows |-> <<>>]
  /\ running = [w \in Workflows |-> None]
  /\ events = <<>>
  /\ handled = None
  /\ asked = [w \in Workflows |-> "no"]
  /\ answer = [w \in Workflows |-> None]
  /\ hitl \in Hitl
  /\ trail = [w \in Workflows |-> <<>>]
  /\ tries = [w \in Workflows |-> 0]
  /\ approved = [w \in Workflows |-> {}]

Save(w, copy) == row' = [row EXCEPT ![w] = copy]

Spawn(w, copy) == spawned' = [spawned EXCEPT ![w] = Append(@, copy)]

\* A wrong end: the caller is not told.
TellNobody(w, outcome) == UNCHANGED future

\* _try_complete_workflow_future
Complete(w, outcome) ==
  future' = [future EXCEPT ![w] = IF @ = "pending" THEN outcome ELSE @]

-----------------------------------------------------------------------------
(* A workflow begins.                                                      *)

\* prepare_composed_workflow_for_bus and the planner's WORKFLOW_START
Prepare(w) ==
  /\ w \notin Direct /\ row[w].status = "PENDING"
  /\ Save(w, [row[w] EXCEPT !.status = "RUNNING"])
  /\ future' = [future EXCEPT ![w] = "pending"]
  /\ events' = Append(events, Event(w, "START", Entry[w], None))
  /\ UNCHANGED <<spawned, running, handled, asked, answer, hitl, history>>

\* start_workflow
StartWorkflow(w) ==
  /\ w \in Direct /\ row[w].status = "PENDING"
  /\ Save(w, [row[w] EXCEPT !.status = "RUNNING"])
  /\ Spawn(w, row'[w])
  /\ UNCHANGED <<future, running, events, handled, asked, answer, hitl, history>>

-----------------------------------------------------------------------------
(* _execute_node, with the copy it was created with.                       *)

Takes(w) ==
  /\ spawned[w] # <<>>
  /\ spawned' = [spawned EXCEPT ![w] = Tail(@)]

OutOfSteps(copy) == copy.steps >= MaxSteps

\* Before the lock is asked for.
GiveUp(w) ==
  LET copy == Head(spawned[w])
  IN  /\ Takes(w)
      /\ OutOfSteps(copy)
      /\ Save(w, [copy EXCEPT !.status = "FAILED"])
      /\ Complete(w, "error")
      /\ UNCHANGED <<running, events, handled, asked, answer, hitl, history>>

\* The lock is free: the task gets it.
Begin(w) ==
  LET copy == Head(spawned[w])
  IN  /\ Takes(w)
      /\ ~OutOfSteps(copy)
      /\ running[w] = None
      /\ running' = [running EXCEPT ![w] = copy]
      /\ tries' = [tries EXCEPT ![w] = IF Kind[copy.node] = "risky" THEN @ ELSE @ + 1]
      /\ UNCHANGED <<row, future, events, handled, asked, answer, hitl, trail, approved>>

Ends(w) == running[w] # None /\ running' = [running EXCEPT ![w] = None]

\* A wrong pause: the node is run all the same.
PauseAndRun(w) ==
  LET copy == running[w]
  IN  /\ Ends(w)
      /\ Kind[copy.node] = "risky"
      /\ Save(w, [copy EXCEPT !.status = "PAUSED"])
      /\ asked' = [asked EXCEPT ![w] = IF hitl THEN "event" ELSE @]
      /\ events' = Append(events, Event(w, "COMPLETE", copy.node, None))
      /\ UNCHANGED <<future, spawned, handled, answer, hitl, history>>

\* A high-risk node: the workflow is paused.
PauseForHuman(w) ==
  LET copy == running[w]
  IN  /\ Ends(w)
      /\ Kind[copy.node] = "risky"
      /\ Save(w, [copy EXCEPT !.status = "PAUSED"])
      /\ asked' = [asked EXCEPT ![w] = IF hitl THEN "event" ELSE @]
      /\ UNCHANGED <<future, spawned, events, handled, answer, hitl, history>>

\* Where the node says to go on: its result names a node, or the edges do.
Onward(copy, n, jump) == IF jump # None THEN jump ELSE copy.edge[n]

\* The body returns.  A condition rewrites its edges; it and most others save
\* their copy.
Succeed(w, jump, copy) ==
  LET n == running[w].node
  IN  /\ Ends(w)
      /\ Kind[n] # "risky"
      /\ row' \in {row, [row EXCEPT ![w] = copy]}
      /\ Kind[n] = "condition" => row'[w] = copy
      /\ events' = Append(events, Event(w, "COMPLETE", n, jump))
      /\ trail' = [trail EXCEPT ![w] = Append(@, [node |-> n, next |-> Onward(copy, n, jump)])]
      /\ UNCHANGED <<future, spawned, handled, asked, answer, hitl, tries, approved>>

RunCondition(w) ==
  /\ running[w] # None
  /\ Kind[running[w].node] = "condition"
  /\ \E b \in Branches[running[w].node] :
       Succeed(w, None, [running[w] EXCEPT !.edge[running[w].node] = b])

RunNode(w) ==
  /\ running[w] # None
  /\ Kind[running[w].node] # "condition"
  /\ \E jump \in Jumps[running[w].node] \cup {None} : Succeed(w, jump, running[w])

\* The body raises, or its time is up.
RunFails(w) ==
  /\ Ends(w)
  /\ Kind[running[w].node] = "work"
  /\ \E type \in {"TRANSIENT", "FATAL"} :
       events' = Append(events, Event(w, type, running[w].node, None))
  /\ UNCHANGED <<row, future, spawned, handled, asked, answer, hitl, history>>

-----------------------------------------------------------------------------
(* _handle_workflow_event: one event at a time, with the row as it is      *)
(* before the lock.                                                        *)

Load ==
  /\ handled = None /\ events # <<>>
  /\ handled' = [event |-> Head(events), copy |-> row[Head(events).wf]]
  /\ events' = Tail(events)
  /\ UNCHANGED <<row, future, spawned, running, asked, answer, hitl, history>>

Handles(type) == handled # None /\ handled.event.type = type /\ handled' = None

\* WORKFLOW_START takes no lock.
Started ==
  LET w == handled.event.wf
  IN  /\ Handles("START")
      /\ Save(w, [handled.copy EXCEPT !.status = "RUNNING"])
      /\ Spawn(w, row'[w])
      /\ UNCHANGED <<future, running, events, asked, answer, hitl, history>>

\* Two wrong routes: to the edge the graph was composed with, and one that
\* hands the task its state without saving it.
RouteByGraph(copy, n, jump) == IF jump # None THEN jump ELSE Edge[n]

RouteUnsaved(w, copy) == Spawn(w, copy) /\ UNCHANGED row

SaveAndSpawn(w, copy) == Save(w, copy) /\ Spawn(w, copy)

\* _route_next: where the completed node leads
RouteTarget(copy, n, jump) == Onward(copy, n, jump)

RouteOn ==
  LET w == handled.event.wf
      copy == handled.copy
      next == RouteTarget(copy, handled.event.node, handled.event.jump)
  IN  /\ Handles("COMPLETE")
      /\ running[w] = None
      /\ next # None
      /\ SaveAndSpawn(w, [copy EXCEPT !.node = next, !.steps = @ + 1])
      /\ tries' = [tries EXCEPT ![w] = 0]
      /\ UNCHANGED <<future, running, events, asked, answer, hitl, trail, approved>>

RouteEnd ==
  LET w == handled.event.wf
      copy == handled.copy
  IN  /\ Handles("COMPLETE")
      /\ running[w] = None
      /\ RouteTarget(copy, handled.event.node, handled.event.jump) = None
      /\ Save(w, [copy EXCEPT !.status = "SUCCESS"])
      /\ Complete(w, "result")
      /\ UNCHANGED <<spawned, running, events, asked, answer, hitl, history>>

\* A wrong retry: saved, and no task created.
RetryUnspawned ==
  LET w == handled.event.wf
      n == handled.event.node
  IN  /\ Handles("TRANSIENT")
      /\ running[w] = None
      /\ handled.copy.retries[n] < MaxRetries
      /\ Save(w, [handled.copy EXCEPT !.retries[n] = @ + 1])
      /\ UNCHANGED <<future, spawned, running, events, asked, answer, hitl, history>>

\* A wrong limit of the retries: one more.
RetriesLeftLoose(copy, n) == copy.retries[n] <= MaxRetries

RetriesLeft(copy, n) == copy.retries[n] < MaxRetries

\* _handle_node_failure: a transient failure, and the node is run again ...
Retry ==
  LET w == handled.event.wf
      n == handled.event.node
  IN  /\ Handles("TRANSIENT")
      /\ running[w] = None
      /\ RetriesLeft(handled.copy, n)
      /\ SaveAndSpawn(w, [handled.copy EXCEPT !.retries[n] = @ + 1])
      /\ UNCHANGED <<future, running, events, asked, answer, hitl, history>>

\* ... a phase_fatal one, and there is a checkpoint to roll back to ...
Recover ==
  LET w == handled.event.wf
      n == handled.event.node
  IN  /\ Handles("FATAL")
      /\ running[w] = None
      /\ handled.copy.recoveries < MaxRecoveries
      /\ SaveAndSpawn(w, [handled.copy EXCEPT !.recoveries = @ + 1, !.retries[n] = 0,
                                              !.status = "RUNNING"])
      /\ UNCHANGED <<future, running, events, asked, answer, hitl, history>>

\* ... or it is the end: retries or recoveries are used up, or there was no
\* checkpoint.
Fail ==
  LET w == handled.event.wf
      n == handled.event.node
      copy == handled.copy
  IN  /\ \/ /\ Handles("TRANSIENT")
            /\ ~RetriesLeft(copy, n)
            /\ Save(w, [copy EXCEPT !.status = "FAILED", !.retries[n] = @ + 1])
         \/ /\ Handles("FATAL")
            /\ Save(w, [copy EXCEPT !.status = "FAILED"])
      /\ running[w] = None
      /\ Complete(w, "error")
      /\ UNCHANGED <<spawned, running, events, asked, answer, hitl, history>>

-----------------------------------------------------------------------------
(* The human: hitl_handler.                                                *)

\* _listen_hitl_events, trigger_paused: the buttons are sent.
Ask(w) ==
  /\ asked[w] = "event"
  /\ asked' = [asked EXCEPT ![w] = "open"]
  /\ UNCHANGED <<row, future, spawned, running, events, handled, answer, hitl, history>>

\* A wrong process_resume: the request stays.
RequestStays(w) == UNCHANGED asked

PopRequest(w) == asked' = [asked EXCEPT ![w] = "no"]

\* process_resume, up to the row: "resume" stands for retry, provide and
\* replay, which differ in what they add to the context.
Press(w, button) ==
  /\ asked[w] = "open" /\ answer[w] = None
  /\ PopRequest(w)
  /\ answer' = [answer EXCEPT ![w] = [button |-> button, copy |-> row[w]]]
  /\ UNCHANGED <<row, future, spawned, running, events, handled, hitl, history>>

Answers(w, button) ==
  /\ answer[w] # None /\ answer[w].button = button
  /\ answer' = [answer EXCEPT ![w] = None]
  /\ UNCHANGED <<running, events, handled, asked, hitl, trail, tries>>

\* resume_workflow, which looks at the status before it has the lock
Resume(w) ==
  LET copy == answer[w].copy
  IN  /\ Answers(w, "resume")
      /\ UNCHANGED future
      /\ IF copy.status # "PAUSED" THEN UNCHANGED <<row, spawned, approved>> ELSE
           /\ running[w] = None
           /\ SaveAndSpawn(w, [copy EXCEPT !.status = "RUNNING"])
           /\ approved' = [approved EXCEPT ![w] = @ \cup {copy.node}]

\* cancel_workflow
Cancel(w) ==
  /\ Answers(w, "cancel")
  /\ running[w] = None
  /\ Save(w, [answer[w].copy EXCEPT !.status = "CANCELLED"])
  /\ Complete(w, "error")
  /\ UNCHANGED <<spawned, approved>>

-----------------------------------------------------------------------------
Execute(w) ==
  GiveUp(w) \/ Begin(w) \/ PauseForHuman(w) \/ RunCondition(w) \/ RunNode(w) \/ RunFails(w)

Handle == Started \/ RouteOn \/ RouteEnd \/ Retry \/ Recover \/ Fail

Listen == Load \/ Handle

Act(w) == Resume(w) \/ Cancel(w)

Next ==
  \/ \E w \in Workflows :
       \/ Prepare(w) \/ StartWorkflow(w)
       \/ Execute(w) \/ Ask(w) \/ Act(w)
       \/ \E button \in {"resume", "cancel"} : Press(w, button)
  \/ Listen

\* Every task gets to run, a node's body ends within its timeout, and the
\* listeners take what is there.  Nobody has to press a button.
Fairness ==
  /\ WF_vars(Listen)
  /\ \A w \in Workflows : WF_vars(Execute(w)) /\ WF_vars(Ask(w)) /\ WF_vars(Act(w))

Spec == Init /\ [][Next]_vars /\ Fairness

-----------------------------------------------------------------------------
\* Every variable keeps its type; no workflow takes more than MaxSteps steps.
TypeOK ==
  /\ row \in [Workflows -> Rows]
  /\ future \in [Workflows -> {"none", "pending", "result", "error"}]
  /\ spawned \in [Workflows -> Seq(Rows)]
  /\ running \in [Workflows -> Rows \cup {None}]
  /\ events \in Seq(Events)
  /\ handled \in [event : Events, copy : Rows] \cup {None}
  /\ asked \in [Workflows -> {"no", "event", "open"}]
  /\ answer \in [Workflows -> [button : {"resume", "cancel"}, copy : Rows] \cup {None}]
  /\ hitl \in BOOLEAN
  /\ trail \in [Workflows -> Seq([node : Nodes, next : Nodes \cup {None}])]
  /\ tries \in [Workflows -> Nat]
  /\ approved \in [Workflows -> SUBSET Nodes]

\* Who is about to do something for the workflow.
Holders(w) ==
  {h \in {"task", "body", "event", "listener", "human", "answer"} :
     CASE h = "task" -> spawned[w] # <<>>
       [] h = "body" -> running[w] # None
       [] h = "event" -> \E i \in DOMAIN events : events[i].wf = w
       [] h = "listener" -> handled # None /\ handled.event.wf = w
       [] h = "human" -> asked[w] # "no"
       [] h = "answer" -> answer[w] # None}

\* A workflow is in one place at a time: no two of its tasks, bodies, events,
\* requests and answers exist together, so that no node runs beside another
\* or twice for one route, and nobody waits for its lock.
OneAtATime ==
  \A w \in Workflows :
    /\ \A g, h \in Holders(w) : g = h
    /\ Len(spawned[w]) <= 1
    /\ \A i, j \in DOMAIN events : events[i].wf = w /\ events[j].wf = w => i = j

\* What a task, the listener or process_resume loaded before the lock is still
\* the row when it writes it back: no save undoes another.
CopiesAreFresh ==
  /\ \A w \in Workflows :
       /\ \A i \in DOMAIN spawned[w] : spawned[w][i] = row[w]
       /\ running[w] # None => running[w] = row[w]
       /\ answer[w] # None => answer[w].copy = row[w]
  /\ handled # None => handled.copy = row[handled.event.wf]

\* A workflow with a caller waiting is never left with nobody to go on with
\* it, except paused where nobody listens for pauses; one that has ended is
\* left alone.
NoStrandedWaiter ==
  \A w \in Workflows :
    /\ row[w].status = "RUNNING" => Holders(w) # {}
    /\ row[w].status = "PAUSED" => Holders(w) # {} \/ ~hitl
    /\ row[w].status \in Final => Holders(w) = {}

\* The caller hears of the workflow what is on file, as soon as it is.
CallerHearsTheRow ==
  \A w \in Workflows \ Direct :
    /\ future[w] = "result" <=> row[w].status = "SUCCESS"
    /\ future[w] = "error" <=> row[w].status \in {"FAILED", "CANCELLED"}

\* The nodes completed are a way through the graph from its entry: each went
\* where the one before it said, and a SUCCESS is the end of the way.
TrailIsAPath ==
  \A w \in Workflows :
    LET t == trail[w]
    IN  /\ t # <<>> => t[1].node = Entry[w]
        /\ \A i \in 1..(Len(t) - 1) : t[i].next = t[i + 1].node
        /\ Len(t) <= MaxSteps
        /\ row[w].status = "SUCCESS" => t # <<>> /\ t[Len(t)].next = None

\* Between two routes a node is run at most as often as its retries, begun
\* again with each recovery, allow.
BoundedTries ==
  \A w \in Workflows : tries[w] <= (MaxRetries + 1) * (MaxRecoveries + 1)

\* A workflow on file as SUCCESS, FAILED or CANCELLED stays as it is.
FinalIsFinal ==
  [][\A w \in Workflows : row[w].status \in Final => row'[w] = row[w]]_vars

Runs == INSTANCE GraphRun WITH
  status <- [w \in Workflows |-> row[w].status],
  path <- trail,
  caller <- future,
  Risky <- {n \in Nodes : Kind[n] = "risky"},
  Exits <- [n \in Nodes |-> IF Kind[n] = "condition" THEN Branches[n]
                                                     ELSE Jumps[n] \cup {Edge[n]}]

\* The engine implements GraphRun: whatever tasks, events, retries, recoveries
\* and answers do, each workflow is a run of its graph, node by node along its
\* edges, stopped before a high-risk node, and its caller is told how it ended.
ImplementsGraphRun == Runs!Spec

\* A workflow somebody waits for ends or comes to a pause.
EveryWorkflowSettles ==
  \A w \in Workflows :
    future[w] = "pending" ~> (future[w] # "pending" \/ row[w].status = "PAUSED")

\* "High-risk node requires human confirmation": one the human said to retry
\* is not waiting for it again.  It is: the risk test knows no confirmation,
\* and the node is never run.
ConfirmedNodeRuns ==
  \A w \in Workflows :
    row[w].status = "PAUSED" /\ asked[w] # "no" => row[w].node \notin approved[w]
=============================================================================
