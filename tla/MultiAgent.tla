------------------------------ MODULE MultiAgent ------------------------------
(***************************************************************************)
(* orchestrator/multi_agent_orchestrator.py: a workflow is a chain of      *)
(* agents.  _orchestrate sends one role its task over agent.communication  *)
(* and waits for the reply; one listener takes every message of the topic, *)
(* runs the agents inside its loop, and hands a reply to whoever waits for *)
(* that role.  A wait that times out sends the task again, twice; then the *)
(* workflow is paused.                                                     *)
(***************************************************************************)
EXTENDS Integers, Sequences, FiniteSets

CONSTANTS
  Workflows,   \* started by start_multi_agent_workflow, each once
  None,        \* Python's None
  RetryLimit,  \* how often a timeout sends the task again: 2 in the code
  PlansOf      \* the plans the skill lookup may find for a workflow

Roles == {"Researcher", "Engineer", "Executor", "Critic"}

\* _generate_dag, and the two tasks when a skill exists already
CreationPlan == <<"Researcher", "Engineer", "Executor", "Critic">>
FastPlan == <<"Executor", "Critic">>
Plans == {CreationPlan, FastPlan}

ASSUME MultiAgentAssumption ==
  /\ RetryLimit \in Nat
  /\ PlansOf \in [Workflows -> SUBSET Plans]
  /\ None \notin Roles
  /\ \A w \in Workflows, r \in Roles, k \in {"task", "result", "error"} :
       None # [wf |-> w, role |-> r, kind |-> k]

VARIABLES
  status,   \* WorkflowState.status
  dag,      \* context["dag"]; <<>> before the lookup
  at,       \* the place of current_task in it
  context,  \* context[<role>], the reply its result came with, or None
  retries,  \* context["retry_<role>"] of the current role; no role comes twice
  pc,       \* _orchestrate: none, loop, waiting, ended
  awaited,  \* the role the workflow's entry of task_futures is for, or None
  answer,   \* that future: None while pending, then the reply
  caller,   \* workflow_futures[w]: pending, result, error
  held,     \* is the local variable "future" still the caller's?
  mail,     \* agent.communication, as its subscriber gets it
  busy      \* the message an agent is at work on inside the listener, or None

own == <<status, dag, at, context, retries, pc, caller, held>>
vars == <<own, awaited, answer, mail, busy>>

Kinds == {"task", "result", "error"}
Messages == [wf : Workflows, role : Roles, kind : Kinds]

Role(w) == dag[w][at[w]]

Found(w) == {r \in Roles : context[w][r] # None}

-----------------------------------------------------------------------------
Init ==
  /\ status = [w \in Workflows |-> "new"]
  /\ dag = [w \in Workflows |-> <<>>]
  /\ at = [w \in Workflows |-> 1]
  /\ context = [w \in Workflows |-> [r \in Roles |-> None]]
  /\ retries = [w \in Workflows |-> 0]
  /\ pc = [w \in Workflows |-> "none"]
  /\ awaited = [w \in Workflows |-> None]
  /\ answer = [w \in Workflows |-> None]
  /\ caller = [w \in Workflows |-> "pending"]
  /\ held = [w \in Workflows |-> TRUE]
  /\ mail = <<>>
  /\ busy = None

-----------------------------------------------------------------------------
(* The orchestration of one workflow.                                      *)

Start(w) ==
  /\ pc[w] = "none"
  /\ status' = [status EXCEPT ![w] = "RUNNING"]
  /\ pc' = [pc EXCEPT ![w] = "loop"]
  /\ UNCHANGED <<dag, at, context, retries, caller, held, awaited, answer, mail, busy>>

\* The first round: the skill lookup decides which plan it is.
Plan(w) ==
  /\ pc[w] = "loop" /\ dag[w] = <<>>
  /\ \E p \in PlansOf[w] : dag' = [dag EXCEPT ![w] = p]
  /\ UNCHANGED <<status, at, context, retries, pc, caller, held, awaited, answer, mail, busy>>

\* A wrong _distribute_and_wait: no future is registered for the reply.
DistributeUnregistered(w) ==
  /\ pc[w] = "loop" /\ dag[w] # <<>>
  /\ mail' = Append(mail, [wf |-> w, role |-> Role(w), kind |-> "task"])
  /\ pc' = [pc EXCEPT ![w] = "waiting"]
  /\ UNCHANGED <<status, dag, at, context, retries, caller, held, awaited, answer, busy>>

\* _distribute_and_wait up to "await future"
Distribute(w) ==
  /\ pc[w] = "loop" /\ dag[w] # <<>>
  /\ awaited' = [awaited EXCEPT ![w] = Role(w)]
  /\ mail' = Append(mail, [wf |-> w, role |-> Role(w), kind |-> "task"])
  /\ pc' = [pc EXCEPT ![w] = "waiting"]
  /\ UNCHANGED <<status, dag, at, context, retries, caller, held, answer, busy>>

\* A wrong end: the caller gets its result whatever the variable holds.
TellWhatever(w, outcome) == caller' = [caller EXCEPT ![w] = "result"]

\* The local variable "future" is the caller's: it is given the outcome.
Tell(w, outcome) ==
  caller' = [caller EXCEPT ![w] = IF held[w] THEN outcome ELSE @]

\* The wait returns.
Woken(w) == pc[w] = "waiting" /\ answer[w] # None

\* A wrong step: the result is not kept.
AdvanceForgets(w) ==
  /\ Woken(w) /\ answer[w].kind # "error" /\ at[w] < Len(dag[w])
  /\ at' = [at EXCEPT ![w] = @ + 1]
  /\ retries' = [retries EXCEPT ![w] = 0]
  /\ pc' = [pc EXCEPT ![w] = "loop"]
  /\ answer' = [answer EXCEPT ![w] = None]
  /\ UNCHANGED <<status, dag, context, caller, held, awaited, mail, busy>>

\* The result goes to the context and the next task is current.
Advance(w) ==
  /\ Woken(w) /\ answer[w].kind # "error" /\ at[w] < Len(dag[w])
  /\ context' = [context EXCEPT ![w][Role(w)] = answer[w]]
  /\ at' = [at EXCEPT ![w] = @ + 1]
  /\ retries' = [retries EXCEPT ![w] = 0]
  /\ pc' = [pc EXCEPT ![w] = "loop"]
  /\ answer' = [answer EXCEPT ![w] = None]
  /\ UNCHANGED <<status, dag, caller, held, awaited, mail, busy>>

\* A wrong end: the first result is enough.
SucceedEarly(w) ==
  /\ Woken(w) /\ answer[w].kind # "error"
  /\ context' = [context EXCEPT ![w][Role(w)] = answer[w]]
  /\ status' = [status EXCEPT ![w] = "SUCCESS"]
  /\ pc' = [pc EXCEPT ![w] = "ended"]
  /\ Tell(w, "result")
  /\ answer' = [answer EXCEPT ![w] = None]
  /\ UNCHANGED <<dag, at, retries, held, awaited, mail, busy>>

\* The result of the last task: the workflow is done.
Succeed(w) ==
  /\ Woken(w) /\ answer[w].kind # "error" /\ at[w] = Len(dag[w])
  /\ context' = [context EXCEPT ![w][Role(w)] = answer[w]]
  /\ status' = [status EXCEPT ![w] = "SUCCESS"]
  /\ pc' = [pc EXCEPT ![w] = "ended"]
  /\ Tell(w, "result")
  /\ answer' = [answer EXCEPT ![w] = None]
  /\ UNCHANGED <<dag, at, retries, held, awaited, mail, busy>>

\* The wait raises, or something after it does.  The counts of errors are
\* dropped with each run: the third one, which would pause, never comes.
Fail(w) ==
  /\ Woken(w)
  /\ status' = [status EXCEPT ![w] = "FAILED"]
  /\ pc' = [pc EXCEPT ![w] = "ended"]
  /\ Tell(w, "error")
  /\ answer' = [answer EXCEPT ![w] = None]
  /\ UNCHANGED <<dag, at, context, retries, held, awaited, mail, busy>>

\* The time of asyncio.wait_for is up: the wait is cancelled, even when the
\* answer has come and the waiter has not run yet.  The finally clause pops the
\* future, so that the handler of the timeout, which assigns
\* task_futures.get(key) to "future", drops the caller's and never finds an
\* answer.  A reply between the cancellation and the next send is lost; here it
\* finds no future.
TimedOut(w) ==
  /\ pc[w] = "waiting"
  /\ awaited' = [awaited EXCEPT ![w] = None]
  /\ answer' = [answer EXCEPT ![w] = None]
  /\ held' = [held EXCEPT ![w] = FALSE]
  /\ retries' = [retries EXCEPT ![w] = @ + 1]
  /\ UNCHANGED <<dag, at, context, caller, mail, busy>>

\* A wrong limit: one more try.
RetryOnceMore(w) ==
  /\ TimedOut(w)
  /\ retries[w] <= RetryLimit
  /\ pc' = [pc EXCEPT ![w] = "loop"]
  /\ UNCHANGED status

Retry(w) ==
  /\ TimedOut(w)
  /\ retries[w] < RetryLimit
  /\ pc' = [pc EXCEPT ![w] = "loop"]
  /\ UNCHANGED status

Pause(w) ==
  /\ TimedOut(w)
  /\ retries[w] >= RetryLimit
  /\ status' = [status EXCEPT ![w] = "PAUSED"]
  /\ pc' = [pc EXCEPT ![w] = "ended"]

-----------------------------------------------------------------------------
(* _listen_agent_messages: one message at a time.                          *)

Receive(m) ==
  /\ busy = None
  /\ mail' = Tail(mail)

\* A wrong lookup: by workflow, whatever role the reply is from.
AwaitsAny(m) == awaited[m.wf] # None

\* task_futures.pop("<workflow>_<role>"): is the reply waited for?
Awaits(m) == awaited[m.wf] = m.role

\* A reply.  One nobody waits for is ignored.
TakeReply(m) ==
  /\ Receive(m) /\ m.kind # "task"
  /\ awaited' = [awaited EXCEPT ![m.wf] = IF Awaits(m) THEN None ELSE @]
  /\ answer' = [answer EXCEPT ![m.wf] = IF Awaits(m) THEN m ELSE @]
  /\ UNCHANGED <<own, busy>>

\* A task: the listener waits for the agent's process().
TakeTask(m) ==
  /\ Receive(m) /\ m.kind = "task"
  /\ busy' = m
  /\ UNCHANGED <<own, awaited, answer>>

\* The agent is done: "result" stands for feedback too, and for the error that
\* says a skill is missing, which the waiter makes a result.
AgentReplies(kind) ==
  /\ busy # None
  /\ mail' = Append(mail, [busy EXCEPT !.kind = kind])
  /\ busy' = None
  /\ UNCHANGED <<own, awaited, answer>>

\* process() raises, or there is no such agent: logged, and no reply.
AgentFails ==
  /\ busy # None
  /\ busy' = None
  /\ UNCHANGED <<own, awaited, answer, mail>>

-----------------------------------------------------------------------------
Orchestrate(w) ==
  Plan(w) \/ Distribute(w) \/ Advance(w) \/ Succeed(w) \/ Fail(w)

\* A wrong timer, that stands still while an agent is at work.
TimerBetweenAgents(w) == busy = None /\ (Retry(w) \/ Pause(w))

Timer(w) == Retry(w) \/ Pause(w)

Listen ==
  \/ mail # <<>> /\ (TakeReply(Head(mail)) \/ TakeTask(Head(mail)))
  \/ \E kind \in {"result", "error"} : AgentReplies(kind)
  \/ AgentFails

Next ==
  \/ \E w \in Workflows : Start(w) \/ Timer(w) \/ Orchestrate(w)
  \/ Listen

\* The event loop runs what can run and timers fire.  An agent may hang in
\* its process(), and the listener with it.
Fairness == \A w \in Workflows : WF_vars(Timer(w)) /\ WF_vars(Orchestrate(w))

Spec == Init /\ [][Next]_vars /\ Fairness

-----------------------------------------------------------------------------
\* Every variable keeps its type.
TypeOK ==
  /\ status \in [Workflows -> {"new", "RUNNING", "SUCCESS", "FAILED", "PAUSED"}]
  /\ dag \in [Workflows -> Plans \cup {<<>>}]
  /\ at \in [Workflows -> Nat \ {0}]
  /\ \A w \in Workflows : at[w] \in DOMAIN dag[w] \/ dag[w] = <<>>
  /\ context \in [Workflows -> [Roles -> Messages \cup {None}]]
  /\ retries \in [Workflows -> Nat]
  /\ pc \in [Workflows -> {"none", "loop", "waiting", "ended"}]
  /\ awaited \in [Workflows -> Roles \cup {None}]
  /\ answer \in [Workflows -> Messages \cup {None}]
  /\ caller \in [Workflows -> {"pending", "result", "error"}]
  /\ held \in [Workflows -> BOOLEAN]
  /\ mail \in Seq(Messages)
  /\ busy \in Messages \cup {None}

Before(w, i) == {dag[w][j] : j \in 1..(i - 1)}

Ready(m) == \E i \in DOMAIN dag[m.wf] : dag[m.wf][i] = m.role /\ Before(m.wf, i) \subseteq Found(m.wf)

\* No agent is given or at work on a task before every role its plan names
\* earlier has its result in the context, and no reply comes from one that
\* was, whatever was retried, answered late or twice.
PipelineOrder ==
  /\ \A i \in DOMAIN mail : Ready(mail[i])
  /\ busy # None => Ready(busy)

\* The result kept for a role is the reply of that role's agent to this
\* workflow, whatever other replies were on their way.
ResultsAreTheirRoles ==
  \A w \in Workflows : \A r \in Found(w) :
    context[w][r] = [wf |-> w, role |-> r, kind |-> "result"]

\* A wait that has not been answered can be: its future is registered, for
\* the role that was sent the task; and no other future stays registered, so
\* that a late reply of another role or of an ended workflow sets nothing.
WaitCanBeAnswered ==
  \A w \in Workflows :
    /\ pc[w] = "waiting" /\ answer[w] = None => awaited[w] = Role(w)
    /\ awaited[w] # None => pc[w] = "waiting" /\ awaited[w] = Role(w)

\* The caller of start_multi_agent_workflow hears nothing but the truth: a
\* result only when every role of the plan has one and the workflow is on
\* file as SUCCESS, an error only when it FAILED; and it hears that much
\* whenever no wait has timed out.
CallerHearsTheTruth ==
  \A w \in Workflows :
    /\ caller[w] = "result" => status[w] = "SUCCESS" /\ Before(w, Len(dag[w]) + 1) \subseteq Found(w)
    /\ caller[w] = "error" => status[w] = "FAILED"
    /\ pc[w] = "ended" /\ held[w] => caller[w] # "pending"

Copies(w, r) ==
  Cardinality({i \in DOMAIN mail : mail[i].wf = w /\ mail[i].role = r})
    + (IF busy # None /\ busy.wf = w /\ busy.role = r THEN 1 ELSE 0)

\* Retries and late answers never make a role's messages more than the first
\* task and its RetryLimit repetitions; and of a role that has its result, or of
\* a workflow that has ended or paused, no more messages come: what is still
\* under way only runs out, whatever answers, hangs or times out.
WorkBound ==
  [][\A w \in Workflows, r \in Roles :
       /\ Copies(w, r)' <= RetryLimit + 1
       /\ r \in Found(w) \/ pc[w] = "ended" => Copies(w, r)' <= Copies(w, r)]_vars

\* A workflow that was started ends, though agents hang in the listener, fail
\* or answer when nobody waits any more.
EveryOrchestrationEnds ==
  <>[](\A w \in Workflows : pc[w] \in {"none", "ended"})

Outcome(w) == CASE status[w] \in {"new", "RUNNING"} -> "open"
                [] status[w] = "SUCCESS" -> "success"
                [] status[w] = "FAILED" -> "failed"
                [] OTHER -> "stuck"

Chain == INSTANCE Pipeline WITH
  Jobs <- Workflows, plan <- dag, done <- [w \in Workflows |-> Found(w)],
  outcome <- [w \in Workflows |-> Outcome(w)]

\* The orchestrator implements the chain: every role's result enters the
\* context in the plan's order and SUCCESS is set with the last one.
ImplementsPipeline == Chain!Spec

\* What the planner relies on when it awaits the future it was given, without
\* a timeout: a workflow that ended has answered.  It has not when a wait
\* timed out.
EndedCallerHears == \A w \in Workflows : pc[w] = "ended" => caller[w] # "pending"
=============================================================================
