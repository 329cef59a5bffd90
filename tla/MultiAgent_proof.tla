--------------------------- MODULE MultiAgent_proof ---------------------------
(***************************************************************************)
(* Proofs about MultiAgent: types, the order of the chain, what waits and  *)
(* the caller are told, how often a task is sent, and that the             *)
(* orchestrator implements Pipeline.                                       *)
(***************************************************************************)
EXTENDS MultiAgent, FiniteSetTheorems, FunctionTheorems, TLAPS

LEMMA PlanFacts ==
  ASSUME NEW p \in Plans
  PROVE  /\ p \in Seq(Roles) /\ p # <<>> /\ DOMAIN p = 1..Len(p) /\ Len(p) \in Nat \ {0}
         /\ \A i \in 1..Len(p) : p[i] \in Roles
         /\ \A i, j \in 1..Len(p) : p[i] = p[j] => i = j
<1>1. CASE p = CreationPlan
  BY <1>1 DEF CreationPlan, Roles
<1>2. CASE p = FastPlan
  BY <1>2 DEF FastPlan, Roles
<1> QED
  BY <1>1, <1>2 DEF Plans

LEMMA NoneIsNoMessage == None \notin Messages /\ None \notin Roles
  BY MultiAgentAssumption DEF Messages, Kinds

\* Where a workflow is: it has no plan before its first round, then it is at
\* one task of it, and in its context are the results of the tasks before.
Course(w) ==
  /\ pc[w] = "none" => status[w] = "new"
  /\ pc[w] = "ended" <=> status[w] \in {"SUCCESS", "FAILED", "PAUSED"}
  /\ pc[w] \in {"loop", "waiting"} <=> status[w] = "RUNNING"
  /\ dag[w] = <<>> => pc[w] \in {"none", "loop"} /\ at[w] = 1 /\ Found(w) = {}
  /\ dag[w] # <<>> => pc[w] # "none"
  /\ dag[w] # <<>> /\ status[w] # "SUCCESS" => Found(w) = Before(w, at[w])
  /\ status[w] = "SUCCESS" => Found(w) = Before(w, Len(dag[w]) + 1)

\* WaitCanBeAnswered, and an answer is the reply of the role that is waited for.
Wait(w) ==
  /\ pc[w] = "waiting" /\ answer[w] = None => awaited[w] = Role(w)
  /\ awaited[w] # None => pc[w] = "waiting" /\ awaited[w] = Role(w)
  /\ answer[w] # None => /\ pc[w] = "waiting" /\ awaited[w] = None
                         /\ answer[w].wf = w /\ answer[w].role = Role(w)
                         /\ answer[w].kind # "task"

\* CallerHearsTheTruth, and the caller hears nothing before the end.
Hears(w) ==
  /\ caller[w] = "result" => status[w] = "SUCCESS"
  /\ caller[w] = "error" => status[w] = "FAILED"
  /\ pc[w] = "ended" /\ held[w] => caller[w] # "pending"

Kept(w) == \A r \in Found(w) : context[w][r] = [wf |-> w, role |-> r, kind |-> "result"]

Inv == TypeOK /\ PipelineOrder /\ \A w \in Workflows : Course(w) /\ Wait(w) /\ Hears(w) /\ Kept(w)

LEMMA MessageFields ==
  \A m \in Messages : m.wf \in Workflows /\ m.role \in Roles /\ m.kind \in Kinds
  BY DEF Messages

LEMMA InitInv == Init => Inv
<1> SUFFICES ASSUME Init PROVE Inv
  OBVIOUS
<1>1. TypeOK
  BY DEF Init, TypeOK
<1>2. PipelineOrder
  BY DEF Init, PipelineOrder
<1>3. ASSUME NEW w \in Workflows PROVE Course(w) /\ Wait(w) /\ Hears(w) /\ Kept(w)
  BY <1>3 DEF Init, Course, Wait, Hears, Kept, Found
<1> QED
  BY <1>1, <1>2, <1>3 DEF Inv

\* A task that was ready stays so: the plan is fixed and results are kept.
LEMMA ReadyStays ==
  ASSUME TypeOK, NEW m \in Messages, Ready(m), dag[m.wf] # <<>> => dag'[m.wf] = dag[m.wf],
         Found(m.wf) \subseteq Found(m.wf)'
  PROVE  Ready(m)'
<1>1. dag[m.wf] # <<>>
  BY DEF Ready
<1>2. dag'[m.wf] = dag[m.wf]
  BY <1>1
<1>3. PICK i \in DOMAIN dag[m.wf] : dag[m.wf][i] = m.role /\ Before(m.wf, i) \subseteq Found(m.wf)
  BY DEF Ready
<1>4. Before(m.wf, i)' = Before(m.wf, i)
  BY <1>2 DEF Before
<1> QED
  BY <1>2, <1>3, <1>4 DEF Ready

LEMMA OrderStays ==
  ASSUME TypeOK, PipelineOrder, UNCHANGED <<mail, busy>>,
         \A w \in Workflows : /\ dag[w] # <<>> => dag'[w] = dag[w]
                              /\ Found(w) \subseteq Found(w)'
  PROVE  PipelineOrder'
<1>1. \A m \in Messages : Ready(m) => Ready(m)'
  BY ReadyStays, MessageFields
<1>2. \A i \in DOMAIN mail : mail[i] \in Messages
  BY DEF TypeOK
<1>3. busy # None => busy \in Messages
  BY DEF TypeOK
<1>4. \A i \in DOMAIN mail : Ready(mail[i])'
  BY <1>1, <1>2 DEF PipelineOrder
<1>5. busy # None => Ready(busy)'
  BY <1>1, <1>3 DEF PipelineOrder
<1> QED
  BY <1>4, <1>5 DEF PipelineOrder

\* A step that keeps the plans and the contexts, and what it puts into the
\* topic or gives to an agent is ready.
LEMMA OrderKept ==
  ASSUME TypeOK, PipelineOrder, UNCHANGED <<dag, context>>,
         \A i \in DOMAIN mail' : Ready(mail'[i]), busy' # None => Ready(busy')
  PROVE  PipelineOrder'
<1>1. \A m : Ready(m) => Ready(m)'
  BY DEF Ready, Before, Found
<1> QED
  BY <1>1 DEF PipelineOrder

\* A workflow none of whose values change keeps what Inv says of it.
LEMMA Elsewhere ==
  ASSUME NEW w \in Workflows, Course(w), Wait(w), Hears(w), Kept(w),
         status'[w] = status[w], dag'[w] = dag[w], at'[w] = at[w], context'[w] = context[w],
         pc'[w] = pc[w], awaited'[w] = awaited[w], answer'[w] = answer[w],
         caller'[w] = caller[w], held'[w] = held[w]
  PROVE  (Course(w) /\ Wait(w) /\ Hears(w) /\ Kept(w))'
<1>1. Found(w)' = Found(w) /\ Role(w)' = Role(w)
  BY DEF Found, Role
<1>2. \A i : Before(w, i)' = Before(w, i)
  BY DEF Before
<1>3. Course(w)'
  BY <1>1, <1>2 DEF Course
<1>4. Wait(w)'
  BY <1>1 DEF Wait
<1>5. Hears(w)' /\ Kept(w)'
  BY <1>1 DEF Hears, Kept
<1> QED
  BY <1>3, <1>4, <1>5

LEMMA StartInv ==
  ASSUME Inv, NEW w \in Workflows, Start(w)
  PROVE  Inv'
<1> USE DEF Inv
<1>1. TypeOK'
  BY DEF Start, TypeOK
<1>2. PipelineOrder'
  BY OrderStays DEF Start, Found
<1>3. ASSUME NEW v \in Workflows, v # w PROVE (Course(v) /\ Wait(v) /\ Hears(v) /\ Kept(v))'
  <2>1. Course(v) /\ Wait(v) /\ Hears(v) /\ Kept(v)
    OBVIOUS
  <2> QED
    BY <1>3, <2>1, Elsewhere DEF Start, TypeOK
<1>4. (Course(w) /\ Wait(w) /\ Hears(w) /\ Kept(w))'
  BY DEF Start, TypeOK, Course, Wait, Hears, Kept, Found, Before, Role
<1> QED
  BY <1>1, <1>2, <1>3, <1>4

LEMMA PlanInv ==
  ASSUME Inv, NEW w \in Workflows, Plan(w)
  PROVE  Inv'
<1> USE DEF Inv
<1>0. PICK p \in Plans : dag' = [dag EXCEPT ![w] = p]
  BY MultiAgentAssumption DEF Plan
<1>1. dag[w] = <<>> /\ pc[w] = "loop" /\ at[w] = 1 /\ Found(w) = {} /\ status[w] = "RUNNING"
      /\ awaited[w] = None /\ answer[w] = None
  BY NoneIsNoMessage DEF Plan, Course, Wait
<1>2. TypeOK'
  <2>1. dag' \in [Workflows -> Plans \cup {<<>>}]
    BY <1>0 DEF TypeOK
  <2>2. \A v \in Workflows : at'[v] \in DOMAIN dag'[v] \/ dag'[v] = <<>>
    BY <1>0, <1>1, PlanFacts DEF Plan, TypeOK
  <2> QED
    BY <2>1, <2>2 DEF Plan, TypeOK
<1>3. PipelineOrder'
  BY <1>0, <1>1, OrderStays DEF Plan, Found, TypeOK
<1>4. ASSUME NEW v \in Workflows, v # w PROVE (Course(v) /\ Wait(v) /\ Hears(v) /\ Kept(v))'
  <2>1. Course(v) /\ Wait(v) /\ Hears(v) /\ Kept(v)
    OBVIOUS
  <2> QED
    BY <1>0, <1>4, <2>1, Elsewhere DEF Plan, TypeOK
<1>5. (Course(w) /\ Wait(w) /\ Hears(w) /\ Kept(w))'
  <2>1. dag'[w] = p /\ p # <<>>
    BY <1>0, PlanFacts DEF TypeOK
  <2>2. Found(w)' = {} /\ Before(w, at[w])' = {}
    BY <1>1 DEF Plan, Found, Before
  <2> QED
    BY <1>1, <2>1, <2>2 DEF Plan, Course, Wait, Hears, Kept
<1> QED
  BY <1>2, <1>3, <1>4, <1>5

LEMMA DistributeInv ==
  ASSUME Inv, NEW w \in Workflows, Distribute(w)
  PROVE  Inv'
<1> USE DEF Inv
<1> DEFINE m == [wf |-> w, role |-> Role(w), kind |-> "task"]
<1>1. dag[w] \in Plans /\ at[w] \in 1..Len(dag[w]) /\ Role(w) \in Roles /\ status[w] = "RUNNING"
  <2>1. dag[w] \in Plans /\ at[w] \in DOMAIN dag[w] /\ status[w] = "RUNNING"
    BY DEF Distribute, TypeOK, Course
  <2> QED
    BY <2>1, PlanFacts DEF Role
<1>2. m \in Messages /\ answer[w] = None
  BY <1>1 DEF Messages, Kinds, Distribute, Wait
<1>3. TypeOK'
  BY <1>1, <1>2 DEF Distribute, TypeOK
<1>4. PipelineOrder'
  <2>1. Ready(m)
    BY <1>1, PlanFacts DEF Ready, Course, Role
  <2>2. \A i \in DOMAIN mail' : mail'[i] = m \/ (i \in DOMAIN mail /\ mail'[i] = mail[i])
    BY <1>2 DEF Distribute, TypeOK
  <2> HIDE DEF m
  <2>3. \A i \in DOMAIN mail' : Ready(mail'[i])
    BY <2>1, <2>2 DEF PipelineOrder
  <2> QED
    BY <2>3, OrderKept DEF Distribute, PipelineOrder
<1>5. ASSUME NEW v \in Workflows, v # w PROVE (Course(v) /\ Wait(v) /\ Hears(v) /\ Kept(v))'
  <2>1. Course(v) /\ Wait(v) /\ Hears(v) /\ Kept(v)
    OBVIOUS
  <2> QED
    BY <1>5, <2>1, Elsewhere DEF Distribute, TypeOK
<1>6. (Course(w) /\ Wait(w) /\ Hears(w) /\ Kept(w))'
  <2>1. Found(w)' = Found(w) /\ Role(w)' = Role(w) /\ Before(w, at[w])' = Before(w, at[w])
        /\ Before(w, Len(dag[w]) + 1)' = Before(w, Len(dag[w]) + 1)
    BY DEF Distribute, Found, Role, Before
  <2>2. pc'[w] = "waiting" /\ awaited'[w] = Role(w)
    BY DEF Distribute, TypeOK
  <2> QED
    BY <1>1, <1>2, <2>1, <2>2 DEF Distribute, Course, Wait, Hears, Kept
<1> QED
  BY <1>3, <1>4, <1>5, <1>6

\* What a wait that returns knows: which task was answered, and by whom.
LEMMA WokenFacts ==
  ASSUME Inv, NEW w \in Workflows, Woken(w)
  PROVE  /\ dag[w] \in Plans /\ at[w] \in 1..Len(dag[w]) /\ Role(w) \in Roles
         /\ status[w] = "RUNNING" /\ awaited[w] = None /\ Found(w) = Before(w, at[w])
         /\ answer[w] \in Messages /\ answer[w].wf = w /\ answer[w].role = Role(w)
         /\ answer[w].kind \in {"result", "error"}
<1> USE DEF Inv
<1>1. dag[w] \in Plans /\ at[w] \in DOMAIN dag[w] /\ status[w] = "RUNNING" /\ Found(w) = Before(w, at[w])
  BY DEF Woken, TypeOK, Course
<1>2. at[w] \in 1..Len(dag[w]) /\ Role(w) \in Roles
  BY <1>1, PlanFacts DEF Role
<1>3. answer[w] \in Messages /\ answer[w] # None
  BY DEF Woken, TypeOK
<1>4. answer[w].kind \in {"result", "error"}
  BY <1>3, MessageFields DEF Wait, Kinds
<1> QED
  BY <1>1, <1>2, <1>3, <1>4 DEF Wait

\* What the result adds to the context.
LEMMA ResultKept ==
  ASSUME Inv, NEW w \in Workflows, Woken(w), answer[w].kind # "error",
         context' = [context EXCEPT ![w][Role(w)] = answer[w]]
  PROVE  /\ context' \in [Workflows -> [Roles -> Messages \cup {None}]]
         /\ Found(w)' = Found(w) \cup {Role(w)}
         /\ \A v \in Workflows : v # w => context'[v] = context[v] /\ Found(v)' = Found(v)
         /\ \A r \in Found(w)' : context'[w][r] = [wf |-> w, role |-> r, kind |-> "result"]
<1>1. Role(w) \in Roles /\ answer[w] \in Messages /\ answer[w] # None
      /\ answer[w] = [wf |-> w, role |-> Role(w), kind |-> "result"]
  <2>1. \A m \in Messages : m = [wf |-> m.wf, role |-> m.role, kind |-> m.kind]
    BY DEF Messages
  <2>2. answer[w].wf = w /\ answer[w].role = Role(w) /\ answer[w].kind = "result" /\ answer[w] \in Messages
    BY WokenFacts
  <2> QED
    BY <2>1, <2>2, WokenFacts DEF Woken
<1>2. context \in [Workflows -> [Roles -> Messages \cup {None}]]
  BY DEF Inv, TypeOK
<1>3. context' \in [Workflows -> [Roles -> Messages \cup {None}]]
  BY <1>1, <1>2
<1>4. /\ context'[w][Role(w)] = answer[w]
      /\ \A r \in Roles : r # Role(w) => context'[w][r] = context[w][r]
      /\ \A v \in Workflows : v # w => context'[v] = context[v]
  BY <1>1, <1>2
<1>5. Found(w)' = Found(w) \cup {Role(w)}
  BY <1>1, <1>4 DEF Found
<1>6. \A v \in Workflows : v # w => Found(v)' = Found(v)
  BY <1>4 DEF Found
<1>7. \A r \in Found(w)' : context'[w][r] = [wf |-> w, role |-> r, kind |-> "result"]
  BY <1>1, <1>4, <1>5 DEF Inv, Kept, Found
<1> QED
  BY <1>3, <1>4, <1>5, <1>6, <1>7

LEMMA NextBefore ==
  ASSUME NEW w \in Workflows, dag[w] \in Plans, at[w] \in 1..Len(dag[w])
  PROVE  Before(w, at[w] + 1) = Before(w, at[w]) \cup {Role(w)}
  BY PlanFacts DEF Before, Role

LEMMA AdvanceInv ==
  ASSUME Inv, NEW w \in Workflows, Advance(w)
  PROVE  Inv'
<1> USE DEF Inv
<1>1. /\ Woken(w) /\ answer[w].kind # "error" /\ at[w] < Len(dag[w])
      /\ context' = [context EXCEPT ![w][Role(w)] = answer[w]]
      /\ dag' = dag /\ UNCHANGED <<mail, busy>>
  BY DEF Advance
<1>2. dag[w] \in Plans /\ at[w] \in 1..Len(dag[w]) /\ status[w] = "RUNNING" /\ awaited[w] = None
      /\ Found(w) = Before(w, at[w])
  BY <1>1, WokenFacts
<1>3. TypeOK'
  <2>1. \A v \in Workflows : at'[v] \in DOMAIN dag'[v] \/ dag'[v] = <<>>
    BY <1>1, <1>2, PlanFacts DEF Advance, TypeOK
  <2>2. context' \in [Workflows -> [Roles -> Messages \cup {None}]]
    BY <1>1, ResultKept
  <2>3. at' \in [Workflows -> Nat \ {0}]
    BY <1>2 DEF Advance, TypeOK
  <2> QED
    BY <2>1, <2>2, <2>3 DEF Advance, TypeOK
<1>4. PipelineOrder'
  BY <1>1, ResultKept, OrderStays
<1>5. ASSUME NEW v \in Workflows, v # w PROVE (Course(v) /\ Wait(v) /\ Hears(v) /\ Kept(v))'
  <2>1. Course(v) /\ Wait(v) /\ Hears(v) /\ Kept(v)
    OBVIOUS
  <2> QED
    BY <1>1, <1>5, <2>1, ResultKept, Elsewhere DEF Advance, TypeOK
<1>6. (Course(w) /\ Wait(w) /\ Hears(w) /\ Kept(w))'
  <2>1. /\ pc'[w] = "loop" /\ answer'[w] = None /\ at'[w] = at[w] + 1
        /\ UNCHANGED <<status, dag, caller, held, awaited>>
    BY DEF Advance, TypeOK
  <2>2. Found(w)' = Before(w, at[w])'
    <3>1. Found(w)' = Before(w, at[w] + 1)
      BY <1>1, <1>2, ResultKept, NextBefore
    <3>2. Before(w, at[w])' = Before(w, at[w] + 1)
      BY <2>1 DEF Before
    <3> QED
      BY ONLY <3>1, <3>2
  <2>3. Kept(w)'
    BY <1>1, ResultKept DEF Kept
  <2>4. dag[w] # <<>>
    BY <1>2, PlanFacts
  <2> QED
    BY <1>2, <2>1, <2>2, <2>3, <2>4 DEF Course, Wait, Hears
<1> QED
  BY <1>3, <1>4, <1>5, <1>6

LEMMA SucceedInv ==
  ASSUME Inv, NEW w \in Workflows, Succeed(w)
  PROVE  Inv'
<1> USE DEF Inv
<1>1. /\ Woken(w) /\ answer[w].kind # "error" /\ at[w] = Len(dag[w])
      /\ context' = [context EXCEPT ![w][Role(w)] = answer[w]]
      /\ dag' = dag /\ UNCHANGED <<mail, busy>>
  BY DEF Succeed
<1>2. dag[w] \in Plans /\ at[w] \in 1..Len(dag[w]) /\ status[w] = "RUNNING" /\ awaited[w] = None
      /\ Found(w) = Before(w, at[w])
  BY <1>1, WokenFacts
<1>3. TypeOK'
  <2>1. context' \in [Workflows -> [Roles -> Messages \cup {None}]]
    BY <1>1, ResultKept
  <2> QED
    BY <2>1 DEF Succeed, Tell, TypeOK
<1>4. PipelineOrder'
  BY <1>1, ResultKept, OrderStays
<1>5. ASSUME NEW v \in Workflows, v # w PROVE (Course(v) /\ Wait(v) /\ Hears(v) /\ Kept(v))'
  <2>1. Course(v) /\ Wait(v) /\ Hears(v) /\ Kept(v)
    OBVIOUS
  <2> QED
    BY <1>1, <1>5, <2>1, ResultKept, Elsewhere DEF Succeed, Tell, TypeOK
<1>6. (Course(w) /\ Wait(w) /\ Hears(w) /\ Kept(w))'
  <2>1. /\ pc'[w] = "ended" /\ answer'[w] = None /\ status'[w] = "SUCCESS"
        /\ caller'[w] = (IF held[w] THEN "result" ELSE caller[w])
        /\ UNCHANGED <<dag, at, held, awaited>>
    BY DEF Succeed, Tell, TypeOK
  <2>2. Found(w)' = Before(w, Len(dag[w]) + 1)'
    <3>1. Found(w)' = Before(w, at[w] + 1)
      BY <1>1, <1>2, ResultKept, NextBefore
    <3>2. Before(w, Len(dag[w]) + 1)' = Before(w, at[w] + 1)
      BY <1>1, <2>1 DEF Before
    <3> QED
      BY ONLY <3>1, <3>2
  <2>3. Kept(w)'
    BY <1>1, ResultKept DEF Kept
  <2>4. dag[w] # <<>>
    BY <1>2, PlanFacts
  <2> QED
    BY <1>2, <2>1, <2>2, <2>3, <2>4 DEF Course, Wait, Hears
<1> QED
  BY <1>3, <1>4, <1>5, <1>6

LEMMA FailInv ==
  ASSUME Inv, NEW w \in Workflows, Fail(w)
  PROVE  Inv'
<1> USE DEF Inv
<1>1. dag[w] \in Plans /\ status[w] = "RUNNING" /\ awaited[w] = None /\ Found(w) = Before(w, at[w])
  BY WokenFacts DEF Fail
<1>2. TypeOK'
  BY DEF Fail, Tell, TypeOK
<1>3. PipelineOrder'
  BY OrderStays DEF Fail, Found
<1>4. ASSUME NEW v \in Workflows, v # w PROVE (Course(v) /\ Wait(v) /\ Hears(v) /\ Kept(v))'
  <2>1. Course(v) /\ Wait(v) /\ Hears(v) /\ Kept(v)
    OBVIOUS
  <2> QED
    BY <1>4, <2>1, Elsewhere DEF Fail, Tell, TypeOK
<1>5. (Course(w) /\ Wait(w) /\ Hears(w) /\ Kept(w))'
  <2>1. /\ pc'[w] = "ended" /\ answer'[w] = None /\ status'[w] = "FAILED"
        /\ caller'[w] = (IF held[w] THEN "error" ELSE caller[w])
        /\ UNCHANGED <<dag, at, held, awaited, context>>
    BY DEF Fail, Tell, TypeOK
  <2>2. Found(w)' = Before(w, at[w])' /\ Kept(w)'
    BY <1>1, <2>1 DEF Before, Found, Kept
  <2>3. dag[w] # <<>>
    BY <1>1, PlanFacts
  <2> QED
    BY <1>1, <2>1, <2>2, <2>3 DEF Course, Wait, Hears
<1> QED
  BY <1>2, <1>3, <1>4, <1>5

LEMMA TimerInv ==
  ASSUME Inv, NEW w \in Workflows, Timer(w)
  PROVE  Inv'
<1> USE DEF Inv
<1>1. TimedOut(w) /\ pc' \in {[pc EXCEPT ![w] = "loop"], [pc EXCEPT ![w] = "ended"]}
      /\ status' = (IF pc'[w] = "ended" THEN [status EXCEPT ![w] = "PAUSED"] ELSE status)
  BY DEF Timer, Retry, Pause, TypeOK
<1>2. pc[w] = "waiting" /\ status[w] = "RUNNING" /\ dag[w] # <<>> /\ Found(w) = Before(w, at[w])
  BY <1>1 DEF TimedOut, Course
<1>3. TypeOK'
  <2>1. pc' \in [Workflows -> {"none", "loop", "waiting", "ended"}]
    BY <1>1 DEF TypeOK
  <2>2. status' \in [Workflows -> {"new", "RUNNING", "SUCCESS", "FAILED", "PAUSED"}]
    BY <1>1 DEF TypeOK
  <2> QED
    BY <1>1, <2>1, <2>2 DEF TimedOut, TypeOK
<1>4. PipelineOrder'
  BY <1>1, OrderStays DEF TimedOut, Found
<1>5. ASSUME NEW v \in Workflows, v # w PROVE (Course(v) /\ Wait(v) /\ Hears(v) /\ Kept(v))'
  <2>1. Course(v) /\ Wait(v) /\ Hears(v) /\ Kept(v)
    OBVIOUS
  <2>2. status'[v] = status[v] /\ pc'[v] = pc[v]
    BY <1>1, <1>5 DEF TypeOK
  <2> QED
    BY <1>1, <1>5, <2>1, <2>2, Elsewhere DEF TimedOut, TypeOK
<1>6. (Course(w) /\ Wait(w) /\ Hears(w) /\ Kept(w))'
  <2>1. /\ awaited'[w] = None /\ answer'[w] = None /\ held'[w] = FALSE
        /\ UNCHANGED <<dag, at, caller, context>>
    BY <1>1 DEF TimedOut, TypeOK
  <2>2. Found(w)' = Before(w, at[w])' /\ Kept(w)'
    BY <1>2, <2>1 DEF Before, Found, Kept
  <2>3. \/ pc'[w] = "loop" /\ status'[w] = "RUNNING"
        \/ pc'[w] = "ended" /\ status'[w] = "PAUSED"
    BY <1>1, <1>2 DEF TypeOK
  <2> QED
    BY <1>2, <2>1, <2>2, <2>3 DEF Course, Wait, Hears
<1> QED
  BY <1>3, <1>4, <1>5, <1>6

LEMMA FirstOfMail ==
  ASSUME NEW s \in Seq(Messages), s # <<>>
  PROVE  /\ Head(s) \in Messages /\ Tail(s) \in Seq(Messages)
         /\ 1 \in DOMAIN s /\ Head(s) = s[1]
         /\ \A i \in DOMAIN Tail(s) : i + 1 \in DOMAIN s /\ Tail(s)[i] = s[i + 1]
  OBVIOUS

\* A step of the listener that answers nobody.
LEMMA NobodyAnswered ==
  ASSUME Inv, UNCHANGED <<own, awaited, answer>>, NEW v \in Workflows
  PROVE  (Course(v) /\ Wait(v) /\ Hears(v) /\ Kept(v))'
<1>1. Course(v) /\ Wait(v) /\ Hears(v) /\ Kept(v)
  BY DEF Inv
<1> QED
  BY <1>1, Elsewhere DEF own

LEMMA TakeReplyInv ==
  ASSUME Inv, mail # <<>>, TakeReply(Head(mail))
  PROVE  Inv'
<1> USE DEF Inv
<1> DEFINE m == Head(mail)
<1>1. /\ m \in Messages /\ m.wf \in Workflows /\ m.role \in Roles /\ m.kind # "task"
      /\ m # None /\ m.role # None
      /\ mail' = Tail(mail) /\ mail' \in Seq(Messages)
      /\ awaited' = [awaited EXCEPT ![m.wf] = IF Awaits(m) THEN None ELSE @]
      /\ answer' = [answer EXCEPT ![m.wf] = IF Awaits(m) THEN m ELSE @]
      /\ UNCHANGED <<own, busy>>
  BY FirstOfMail, MessageFields, NoneIsNoMessage DEF TakeReply, Receive, TypeOK
<1>2. \A i \in DOMAIN mail' : Ready(mail'[i])
  BY <1>1, FirstOfMail DEF PipelineOrder, TypeOK
<1> HIDE DEF m
<1>3. TypeOK'
  BY <1>1 DEF TypeOK, own
<1>4. PipelineOrder'
  BY <1>1, <1>2, OrderKept DEF PipelineOrder, own
<1>5. ASSUME NEW v \in Workflows PROVE (Course(v) /\ Wait(v) /\ Hears(v) /\ Kept(v))'
  <2>1. Course(v) /\ Wait(v) /\ Hears(v) /\ Kept(v)
    OBVIOUS
  <2>2. CASE v = m.wf /\ Awaits(m)
    <3>1. awaited'[v] = None /\ answer'[v] = m /\ awaited[v] = m.role
      BY <1>1, <2>2 DEF TypeOK, Awaits
    <3>2. pc[v] = "waiting" /\ m.role = Role(v)
      BY <1>1, <2>1, <3>1 DEF Wait
    <3>3. Wait(v)'
      BY <1>1, <2>2, <3>1, <3>2 DEF Wait, Role, own
    <3> QED
      BY <1>1, <2>1, <3>3 DEF Course, Hears, Kept, Found, Before, own
  <2>3. CASE ~(v = m.wf /\ Awaits(m))
    <3>1. awaited'[v] = awaited[v] /\ answer'[v] = answer[v]
      BY <1>1, <2>3 DEF TypeOK
    <3> QED
      BY <1>1, <2>1, <3>1, Elsewhere DEF own
  <2> QED
    BY <2>2, <2>3
<1> QED
  BY <1>3, <1>4, <1>5

LEMMA ListenInv ==
  ASSUME Inv, Listen
  PROVE  Inv'
<1> USE DEF Inv
<1>1. ASSUME mail # <<>>, TakeTask(Head(mail)) PROVE Inv'
  <2>1. /\ Head(mail) \in Messages /\ Ready(Head(mail))
        /\ mail' = Tail(mail) /\ mail' \in Seq(Messages) /\ busy' = Head(mail)
        /\ \A i \in DOMAIN mail' : Ready(mail'[i])
        /\ UNCHANGED <<own, awaited, answer>>
    BY <1>1, FirstOfMail DEF TakeTask, Receive, TypeOK, PipelineOrder
  <2>2. TypeOK'
    BY <2>1 DEF TypeOK, own
  <2>3. PipelineOrder'
    BY <2>1, OrderKept DEF own
  <2> QED
    BY <2>1, <2>2, <2>3, NobodyAnswered
<1>2. ASSUME NEW kind \in {"result", "error"}, AgentReplies(kind) PROVE Inv'
  <2> DEFINE m == [busy EXCEPT !.kind = kind]
  <2>1. /\ busy \in Messages /\ Ready(busy) /\ busy' = None /\ mail' = Append(mail, m)
        /\ UNCHANGED <<own, awaited, answer>>
    BY <1>2 DEF AgentReplies, TypeOK, PipelineOrder
  <2>2. m \in Messages /\ m.wf = busy.wf /\ m.role = busy.role
    BY <2>1 DEF Messages, Kinds
  <2>3. Ready(m)
    BY <2>1, <2>2 DEF Ready
  <2> HIDE DEF m
  <2>4. mail' \in Seq(Messages)
        /\ \A i \in DOMAIN mail' : mail'[i] = m \/ (i \in DOMAIN mail /\ mail'[i] = mail[i])
    BY <2>1, <2>2 DEF TypeOK
  <2>5. TypeOK'
    BY <2>1, <2>4 DEF TypeOK, own
  <2>6. PipelineOrder'
    BY <2>1, <2>3, <2>4, OrderKept DEF PipelineOrder, own
  <2> QED
    BY <2>1, <2>5, <2>6, NobodyAnswered
<1>3. CASE AgentFails
  <2>1. busy' = None /\ UNCHANGED <<own, awaited, answer, mail>>
    BY <1>3 DEF AgentFails
  <2>2. TypeOK'
    BY <2>1 DEF TypeOK, own
  <2>3. PipelineOrder'
    BY <2>1, OrderKept DEF PipelineOrder, own
  <2> QED
    BY <2>1, <2>2, <2>3, NobodyAnswered
<1> QED
  BY <1>1, <1>2, <1>3, TakeReplyInv DEF Listen

LEMMA Invariant == Spec => []Inv
<1>1. Inv /\ [Next]_vars => Inv'
  <2> SUFFICES ASSUME Inv, [Next]_vars PROVE Inv'
    OBVIOUS
  <2>1. CASE UNCHANGED vars
    <3>1. TypeOK' /\ PipelineOrder'
      BY <2>1, OrderStays DEF Inv, TypeOK, vars, own, Found
    <3>2. UNCHANGED <<own, awaited, answer>>
      BY <2>1 DEF vars
    <3> QED
      BY <3>1, <3>2, NobodyAnswered DEF Inv
  <2> QED
    BY <2>1, StartInv, PlanInv, DistributeInv, AdvanceInv, SucceedInv, FailInv, TimerInv, ListenInv
       DEF Next, Orchestrate
<1> QED
  BY <1>1, InitInv, PTL DEF Spec

\* Every variable keeps its type, and a workflow is at a task of its plan.
THEOREM AgentsTypeCorrect == Spec => []TypeOK
  BY Invariant, PTL DEF Inv

\* No agent is given a task before every role its plan names earlier has its
\* result in the context.
THEOREM AgentsInOrder == Spec => []PipelineOrder
  BY Invariant, PTL DEF Inv

\* The result kept for a role is the reply of that role's agent to this
\* workflow: a late reply of another role answers nobody.
THEOREM RightResults == Spec => []ResultsAreTheirRoles
<1>1. Inv => ResultsAreTheirRoles
  BY DEF Inv, Kept, ResultsAreTheirRoles
<1> QED
  BY <1>1, Invariant, PTL

\* Whoever waits has its future registered under the role it sent the task to,
\* and nobody else has one.
THEOREM WaitsAreRegistered == Spec => []WaitCanBeAnswered
<1>1. Inv => WaitCanBeAnswered
  BY DEF Inv, Wait, WaitCanBeAnswered
<1> QED
  BY <1>1, Invariant, PTL

\* The caller hears of success only when the whole plan has its results, of an
\* error only when the workflow failed, and hears it unless a wait timed out.
THEOREM CallersHearTruth == Spec => []CallerHearsTheTruth
<1>1. Inv => CallerHearsTheTruth
  BY DEF Inv, Course, Hears, CallerHearsTheTruth
<1> QED
  BY <1>1, Invariant, PTL

-----------------------------------------------------------------------------
(* The orchestrator implements the chain.                                  *)

Dones == [w \in Workflows |-> Found(w)]
Outcomes == [w \in Workflows |-> Outcome(w)]

LEMMA OutcomeIs ==
  ASSUME NEW w
  PROVE  /\ status[w] \in {"new", "RUNNING"} => Outcome(w) = "open"
         /\ status[w] = "SUCCESS" => Outcome(w) = "success"
         /\ status[w] = "FAILED" => Outcome(w) = "failed"
         /\ status[w] = "PAUSED" => Outcome(w) = "stuck"
  BY DEF Outcome

\* What a step of one workflow does to the mapped variables.
LEMMA Mapped ==
  ASSUME NEW w \in Workflows, NEW D, NEW O, Found(w)' = D, Outcome(w)' = O,
         \A v \in Workflows : v # w => Found(v)' = Found(v) /\ Outcome(v)' = Outcome(v)
  PROVE  Dones' = [Dones EXCEPT ![w] = D] /\ Outcomes' = [Outcomes EXCEPT ![w] = O]
  BY DEF Dones, Outcomes

LEMMA Unmapped ==
  ASSUME UNCHANGED <<dag, context>>, \A w \in Workflows : Outcome(w)' = Outcome(w)
  PROVE  UNCHANGED <<dag, Dones, Outcomes>>
<1>1. \A w \in Workflows : Found(w)' = Found(w)
  BY DEF Found
<1> QED
  BY <1>1 DEF Dones, Outcomes

LEMMA ImplementsStep ==
  ASSUME Inv, [Next]_vars
  PROVE  [Chain!Next]_<<dag, Dones, Outcomes>>
<1> USE DEF Inv
<1>0. ASSUME NEW w, status'[w] = status[w] PROVE Outcome(w)' = Outcome(w)
  BY <1>0 DEF Outcome
<1>1. ASSUME NEW w \in Workflows, Start(w) PROVE UNCHANGED <<dag, Dones, Outcomes>>
  <2>1. status[w] = "new" /\ status'[w] = "RUNNING"
        /\ \A v \in Workflows : v # w => status'[v] = status[v]
    BY <1>1 DEF Start, Course, TypeOK
  <2>2. \A v \in Workflows : Outcome(v)' = Outcome(v)
    BY <1>0, <2>1 DEF Outcome
  <2> QED
    BY <1>1, <2>2, Unmapped DEF Start
<1>2. ASSUME NEW w \in Workflows, Plan(w) PROVE Chain!Next
  <2>1. PICK p \in Plans : dag' = [dag EXCEPT ![w] = p]
    BY <1>2, MultiAgentAssumption DEF Plan
  <2>2. dag[w] = <<>> /\ Found(w) = {} /\ status[w] = "RUNNING"
    BY <1>2 DEF Plan, Course
  <2>3. Dones[w] = {} /\ Outcomes[w] = "open"
    BY <2>2, OutcomeIs DEF Dones, Outcomes
  <2>4. UNCHANGED <<Dones, Outcomes>>
    BY <1>2 DEF Plan, Dones, Outcomes, Found, Outcome
  <2>5. Chain!Choose(w, p)
    BY <2>1, <2>2, <2>3, <2>4 DEF Chain!Choose, Dones, Outcomes
  <2> QED
    BY <2>5 DEF Chain!Next
<1>3. ASSUME NEW w \in Workflows, Advance(w) \/ Succeed(w) PROVE Chain!Next
  <2>1. /\ Woken(w) /\ answer[w].kind # "error"
        /\ context' = [context EXCEPT ![w][Role(w)] = answer[w]] /\ dag' = dag
        /\ at[w] < Len(dag[w]) \/ at[w] = Len(dag[w])
    BY <1>3 DEF Advance, Succeed
  <2>2. /\ dag[w] \in Plans /\ at[w] \in 1..Len(dag[w]) /\ status[w] = "RUNNING"
        /\ Found(w) = Before(w, at[w])
    BY <2>1, WokenFacts
  <2>3. Found(w)' = Found(w) \cup {Role(w)}
        /\ \A v \in Workflows : v # w => Found(v)' = Found(v)
    BY <2>1, ResultKept
  <2>4. Outcome(w)' = IF at[w] = Len(dag[w]) THEN "success" ELSE "open"
    <3>1. CASE Advance(w)
      <4>1. status'[w] = "RUNNING" /\ at[w] # Len(dag[w])
        BY <2>2, <3>1 DEF Advance, TypeOK
      <4> QED
        BY <4>1 DEF Outcome
    <3>2. CASE Succeed(w)
      <4>1. status'[w] = "SUCCESS" /\ at[w] = Len(dag[w])
        BY <3>2 DEF Succeed, TypeOK
      <4> QED
        BY <4>1 DEF Outcome
    <3> QED
      BY <1>3, <3>1, <3>2
  <2>5. \A v \in Workflows : v # w => Outcome(v)' = Outcome(v)
    <3>1. \A v \in Workflows : v # w => status'[v] = status[v]
      BY <1>3 DEF Advance, Succeed, TypeOK
    <3> QED
      BY <1>0, <3>1
  <2>6. /\ Dones' = [Dones EXCEPT ![w] = Found(w) \cup {Role(w)}]
        /\ Outcomes' = [Outcomes EXCEPT ![w] = IF at[w] = Len(dag[w]) THEN "success" ELSE "open"]
    BY <2>3, <2>4, <2>5, Mapped
  <2>7. Dones[w] = Found(w) /\ Outcomes[w] = "open" /\ Role(w) = dag[w][at[w]]
    BY <2>2, OutcomeIs DEF Dones, Outcomes, Role
  <2>8. \A k \in 1..(at[w] - 1) : dag[w][k] \in Dones[w]
    BY <2>2, <2>7 DEF Before
  <2>9. Chain!Do(w, at[w])
    BY <2>1, <2>6, <2>7, <2>8 DEF Chain!Do, Dones, Outcomes
  <2>10. at[w] \in DOMAIN dag[w]
    BY <2>2, PlanFacts
  <2> QED
    BY <2>9, <2>10 DEF Chain!Next
<1>4. ASSUME NEW w \in Workflows, Fail(w) \/ Pause(w) PROVE Chain!Next
  <2>1. status[w] = "RUNNING" /\ UNCHANGED <<dag, context>>
    BY <1>4 DEF Fail, Pause, TimedOut, Woken, Course
  <2>2. PICK o \in {"failed", "stuck"} : Outcome(w)' = o
    <3>1. status'[w] = "FAILED" \/ status'[w] = "PAUSED"
      BY <1>4 DEF Fail, Pause, TypeOK
    <3> QED
      BY <3>1 DEF Outcome
  <2>3. \A v \in Workflows : v # w => Outcome(v)' = Outcome(v)
    <3>1. \A v \in Workflows : v # w => status'[v] = status[v]
      BY <1>4 DEF Fail, Pause, TypeOK
    <3> QED
      BY <1>0, <3>1
  <2>4. \A v \in Workflows : Found(v)' = Found(v)
    BY <2>1 DEF Found
  <2>5. Outcomes' = [Outcomes EXCEPT ![w] = o] /\ Dones' = Dones
    BY <2>2, <2>3, <2>4 DEF Dones, Outcomes
  <2>6. Outcomes[w] = "open"
    BY <2>1, OutcomeIs DEF Outcomes
  <2>7. Chain!GiveUp(w, o)
    BY <2>1, <2>5, <2>6 DEF Chain!GiveUp, Dones, Outcomes
  <2> QED
    BY <2>7 DEF Chain!Next
<1>5. CASE (\E w \in Workflows : Distribute(w) \/ Retry(w)) \/ Listen \/ UNCHANGED vars
  <2>1. UNCHANGED <<dag, context, status>>
    BY <1>5 DEF Distribute, Retry, TimedOut, Listen, TakeReply, TakeTask, AgentReplies, AgentFails,
                vars, own
  <2> QED
    BY <1>0, <2>1, Unmapped
<1> QED
  BY <1>1, <1>2, <1>3, <1>4, <1>5 DEF Next, Orchestrate, Timer

\* The orchestrator implements the chain: every role's result enters the
\* context in the plan's order and SUCCESS is set with the last one.
THEOREM AgentsAreAPipeline == Spec => ImplementsPipeline
<1>1. Init => Chain!Init
  BY OutcomeIs DEF Init, Chain!Init, Found
<1>2. Inv /\ [Next]_vars => [Chain!Next]_<<dag, Dones, Outcomes>>
  BY ImplementsStep
<1> QED
  BY <1>1, <1>2, Invariant, PTL DEF Spec, ImplementsPipeline, Chain!Spec, Dones, Outcomes

-----------------------------------------------------------------------------
(* How often a role's messages are under way.                              *)

Fits(m, w, r) == m.wf = w /\ m.role = r

InMail(s, w, r) == Cardinality({i \in DOMAIN s : Fits(s[i], w, r)})

AtWork(b, w, r) == IF b # None /\ Fits(b, w, r) THEN 1 ELSE 0

LEMMA CopiesAre ==
  ASSUME NEW w, NEW r
  PROVE  Copies(w, r) = InMail(mail, w, r) + AtWork(busy, w, r)
  BY DEF Copies, InMail, AtWork, Fits

LEMMA InMailCounted ==
  ASSUME NEW s \in Seq(Messages), NEW w, NEW r
  PROVE  IsFiniteSet({i \in DOMAIN s : Fits(s[i], w, r)}) /\ InMail(s, w, r) \in Nat
<1>1. DOMAIN s = 1..Len(s) /\ Len(s) \in Nat
  OBVIOUS
<1>2. IsFiniteSet(1..Len(s)) /\ {i \in DOMAIN s : Fits(s[i], w, r)} \subseteq 1..Len(s)
  BY <1>1, FS_Interval
<1>3. IsFiniteSet({i \in DOMAIN s : Fits(s[i], w, r)})
  BY <1>2, FS_Subset
<1> QED
  BY <1>3, FS_CardinalityType DEF InMail

LEMMA InMailAppended ==
  ASSUME NEW s \in Seq(Messages), NEW m \in Messages, NEW w, NEW r
  PROVE  InMail(Append(s, m), w, r) = InMail(s, w, r) + (IF Fits(m, w, r) THEN 1 ELSE 0)
<1> DEFINE S == {i \in DOMAIN s : Fits(s[i], w, r)}
           T == {i \in DOMAIN Append(s, m) : Fits(Append(s, m)[i], w, r)}
<1>1. IsFiniteSet(S) /\ InMail(s, w, r) = Cardinality(S) /\ Cardinality(S) \in Nat
      /\ InMail(Append(s, m), w, r) = Cardinality(T)
  BY InMailCounted DEF InMail
<1>2. /\ DOMAIN s = 1..Len(s) /\ DOMAIN Append(s, m) = 1..(Len(s) + 1) /\ Len(s) \in Nat
      /\ \A i \in 1..Len(s) : Append(s, m)[i] = s[i]
      /\ Append(s, m)[Len(s) + 1] = m
  OBVIOUS
<1>3. Len(s) + 1 \notin S
  BY <1>2
<1>4. CASE Fits(m, w, r)
  <2>1. T = S \cup {Len(s) + 1}
    BY <1>2, <1>4
  <2>2. Cardinality(S \cup {Len(s) + 1}) = Cardinality(S) + 1
    BY <1>1, <1>3, FS_AddElement
  <2> QED
    BY ONLY <1>1, <1>4, <2>1, <2>2
<1>5. CASE ~Fits(m, w, r)
  <2>1. T = S
    BY <1>2, <1>5
  <2> HIDE DEF S, T
  <2> QED
    BY ONLY <1>1, <1>5, <2>1
<1> QED
  BY <1>4, <1>5

LEMMA InMailWithoutHead ==
  ASSUME NEW s \in Seq(Messages), s # <<>>, NEW w, NEW r
  PROVE  InMail(s, w, r) = InMail(Tail(s), w, r) + (IF Fits(Head(s), w, r) THEN 1 ELSE 0)
<1> DEFINE S == {i \in DOMAIN s : Fits(s[i], w, r)}
           T == {i \in DOMAIN Tail(s) : Fits(Tail(s)[i], w, r)}
           f == [i \in T |-> i + 1]
<1>1. /\ DOMAIN s = 1..Len(s) /\ DOMAIN Tail(s) = 1..(Len(s) - 1) /\ Len(s) \in Nat \ {0}
      /\ \A i \in 1..(Len(s) - 1) : Tail(s)[i] = s[i + 1]
      /\ Head(s) = s[1] /\ Tail(s) \in Seq(Messages)
  OBVIOUS
<1>2. /\ IsFiniteSet(T) /\ Cardinality(T) \in Nat
      /\ InMail(s, w, r) = Cardinality(S) /\ InMail(Tail(s), w, r) = Cardinality(T)
  BY <1>1, InMailCounted DEF InMail
<1>3. f \in Bijection(T, S \ {1})
  <2>1. f \in [T -> S \ {1}]
    BY <1>1
  <2>2. \A i, j \in T : f[i] = f[j] => i = j
    BY <1>1
  <2>3. \A k \in S \ {1} : \E i \in T : f[i] = k
    <3> TAKE k \in S \ {1}
    <3>1. k - 1 \in T /\ f[k - 1] = k
      BY <1>1
    <3> QED
      BY <3>1
  <2> QED
    BY <2>1, <2>2, <2>3 DEF Bijection, Injection, Surjection, IsInjective
<1>4. IsFiniteSet(S \ {1}) /\ Cardinality(S \ {1}) = Cardinality(T)
  <2>1. ExistsBijection(T, S \ {1})
    BY <1>3 DEF ExistsBijection
  <2> HIDE DEF S, T, f
  <2> QED
    BY ONLY <1>2, <2>1, FS_Bijection
<1>5. CASE Fits(Head(s), w, r)
  <2>1. S = (S \ {1}) \cup {1}
    BY <1>1, <1>5
  <2>2. Cardinality((S \ {1}) \cup {1}) = Cardinality(S \ {1}) + 1
    BY <1>4, FS_AddElement
  <2> QED
    BY ONLY <1>2, <1>4, <1>5, <2>1, <2>2
<1>6. CASE ~Fits(Head(s), w, r)
  <2>1. S = S \ {1}
    BY <1>1, <1>6
  <2>2. Cardinality(S) = Cardinality(S \ {1})
    BY ONLY <2>1, Zenon
  <2> HIDE DEF S, T
  <2> QED
    BY <1>2, <1>4, <1>6, <2>2
<1> QED
  BY <1>5, <1>6

\* How many messages of a role a workflow may have under way: none before its
\* turn, one for each try in its turn, and no more than that later.
Quota(w, r) ==
  IF pc[w] = "ended" \/ r \in Before(w, at[w]) THEN RetryLimit + 1
  ELSE IF dag[w] # <<>> /\ r = Role(w) THEN retries[w] + (IF pc[w] = "waiting" THEN 1 ELSE 0)
  ELSE 0

Tries == \A w \in Workflows : pc[w] # "ended" => retries[w] <= RetryLimit

Within == \A w \in Workflows, r \in Roles : Copies(w, r) <= Quota(w, r)

LEMMA CopiesNat ==
  ASSUME TypeOK, NEW w, NEW r
  PROVE  Copies(w, r) \in Nat
<1>1. InMail(mail, w, r) \in Nat
  BY InMailCounted DEF TypeOK
<1> QED
  BY <1>1, CopiesAre DEF AtWork

LEMMA QuotaNat ==
  ASSUME TypeOK, Tries, NEW w \in Workflows, NEW r
  PROVE  Quota(w, r) \in Nat /\ Quota(w, r) <= RetryLimit + 1
  BY MultiAgentAssumption DEF TypeOK, Tries, Quota

\* A step that puts no message under way and takes no quota away.
LEMMA WithinStays ==
  ASSUME Within,
         \A w \in Workflows, r \in Roles :
           /\ Copies(w, r) \in Nat /\ Copies(w, r)' \in Nat /\ Copies(w, r)' <= Copies(w, r)
           /\ Quota(w, r) \in Nat /\ Quota(w, r)' \in Nat /\ Quota(w, r) <= Quota(w, r)'
  PROVE  Within'
<1>1. \A a, b, c, d \in Nat : a <= b /\ b <= c /\ c <= d => a <= d
  OBVIOUS
<1>2. \A w \in Workflows, r \in Roles : Copies(w, r)' <= Quota(w, r)'
  BY <1>1 DEF Within
<1> QED
  BY <1>2 DEF Within

\* The listener only carries messages on or takes them away.
LEMMA ListenCopies ==
  ASSUME TypeOK, TypeOK', Listen, NEW w \in Workflows, NEW r \in Roles
  PROVE  Copies(w, r)' \in Nat /\ Copies(w, r)' <= Copies(w, r)
<1>1. /\ Copies(w, r) = InMail(mail, w, r) + AtWork(busy, w, r)
      /\ Copies(w, r)' = InMail(mail', w, r) + AtWork(busy', w, r)
      /\ InMail(mail, w, r) \in Nat /\ InMail(mail', w, r) \in Nat
      /\ mail \in Seq(Messages)
  <2>1. mail \in Seq(Messages) /\ mail' \in Seq(Messages)
    BY DEF TypeOK
  <2>2. Copies(w, r)' = InMail(mail', w, r) + AtWork(busy', w, r)
    BY DEF Copies, InMail, AtWork, Fits
  <2> QED
    BY <2>1, <2>2, CopiesAre, InMailCounted
<1>2. CASE mail # <<>> /\ TakeReply(Head(mail))
  <2>1. mail' = Tail(mail) /\ busy' = busy
    BY <1>2 DEF TakeReply, Receive
  <2>2. InMail(mail, w, r) = InMail(mail', w, r) + (IF Fits(Head(mail), w, r) THEN 1 ELSE 0)
    BY <1>1, <1>2, <2>1, InMailWithoutHead
  <2> QED
    BY <1>1, <2>1, <2>2 DEF AtWork
<1>3. CASE mail # <<>> /\ TakeTask(Head(mail))
  <2>1. mail' = Tail(mail) /\ busy = None /\ busy' = Head(mail)
    BY <1>3 DEF TakeTask, Receive
  <2>2. InMail(mail, w, r) = InMail(mail', w, r) + (IF Fits(Head(mail), w, r) THEN 1 ELSE 0)
    BY <1>1, <1>3, <2>1, InMailWithoutHead
  <2> QED
    BY <1>1, <2>1, <2>2 DEF AtWork
<1>4. ASSUME NEW kind \in {"result", "error"}, AgentReplies(kind)
      PROVE  Copies(w, r)' \in Nat /\ Copies(w, r)' <= Copies(w, r)
  <2> DEFINE m == [busy EXCEPT !.kind = kind]
  <2>1. busy # None /\ busy \in Messages /\ busy' = None /\ mail' = Append(mail, m)
    BY <1>4 DEF AgentReplies, TypeOK
  <2>2. m \in Messages /\ m.wf = busy.wf /\ m.role = busy.role
    BY <2>1 DEF Messages, Kinds
  <2> HIDE DEF m
  <2>3. InMail(mail', w, r) = InMail(mail, w, r) + (IF Fits(m, w, r) THEN 1 ELSE 0)
    BY <1>1, <2>1, <2>2, InMailAppended
  <2> QED
    BY <1>1, <2>1, <2>2, <2>3 DEF AtWork, Fits
<1>5. CASE AgentFails
  BY <1>1, <1>5 DEF AgentFails, AtWork
<1> QED
  BY <1>2, <1>3, <1>4, <1>5 DEF Listen

LEMMA WithinListen ==
  ASSUME Inv, Inv', Tries, Within, Listen
  PROVE  Within' /\ Tries'
<1>1. TypeOK /\ TypeOK' /\ UNCHANGED own /\ Tries'
  BY DEF Inv, Listen, TakeReply, TakeTask, AgentReplies, AgentFails, Tries, own
<1>2. ASSUME NEW w \in Workflows, NEW r \in Roles
      PROVE  Copies(w, r)' \in Nat /\ Copies(w, r)' <= Copies(w, r)
  BY <1>1, ListenCopies
<1>3. ASSUME NEW w \in Workflows, NEW r \in Roles PROVE Quota(w, r)' = Quota(w, r)
  BY <1>1 DEF Quota, Before, Role, own
<1> QED
  BY <1>1, <1>2, <1>3, CopiesNat, QuotaNat, WithinStays

LEMMA QuotaNextNat ==
  ASSUME TypeOK', NEW v \in Workflows, NEW r
  PROVE  Quota(v, r)' \in Nat
<1>1. retries'[v] \in Nat
  BY DEF TypeOK
<1> QED
  BY <1>1, MultiAgentAssumption DEF Quota

LEMMA QuotaElsewhere ==
  ASSUME NEW v \in Workflows, NEW r, UNCHANGED <<pc[v], at[v], dag[v], retries[v]>>
  PROVE  Quota(v, r)' = Quota(v, r)
  BY DEF Quota, Before, Role

\* A step that sends nothing.
LEMMA WithinQuiet ==
  ASSUME TypeOK, TypeOK', Tries, Within, UNCHANGED <<mail, busy>>,
         \A v \in Workflows, r \in Roles : Quota(v, r) <= Quota(v, r)'
  PROVE  Within'
<1>1. \A v \in Workflows, r \in Roles : Copies(v, r)' = Copies(v, r)
  BY DEF Copies
<1> QED
  BY <1>1, CopiesNat, QuotaNat, QuotaNextNat, WithinStays

\* _distribute_and_wait sends one message, to the current role.
LEMMA DistributeCopies ==
  ASSUME TypeOK, NEW w \in Workflows, Distribute(w), NEW v \in Workflows, NEW r \in Roles
  PROVE  /\ Copies(v, r) \in Nat
         /\ Copies(v, r)' = Copies(v, r) + (IF v = w /\ r = Role(w) THEN 1 ELSE 0)
<1> DEFINE m == [wf |-> w, role |-> Role(w), kind |-> "task"]
<1>1. Role(w) \in Roles
  <2>1. dag[w] \in Plans /\ at[w] \in DOMAIN dag[w] /\ dag[w] # <<>>
    BY DEF Distribute, TypeOK
  <2> QED
    BY <2>1, PlanFacts DEF Role
<1>2. m \in Messages /\ m.wf = w /\ m.role = Role(w)
  BY <1>1 DEF Messages, Kinds
<1>3. mail' = Append(mail, m) /\ busy' = busy
  BY DEF Distribute
<1> HIDE DEF m
<1>4. InMail(mail, v, r) \in Nat /\ AtWork(busy, v, r) \in Nat
  BY InMailCounted DEF TypeOK, AtWork
<1>5. InMail(mail', v, r) = InMail(mail, v, r) + (IF v = w /\ r = Role(w) THEN 1 ELSE 0)
  BY <1>2, <1>3, InMailAppended DEF TypeOK, Fits
<1>6. Copies(v, r)' = InMail(mail', v, r) + AtWork(busy', v, r)
  BY DEF Copies, InMail, AtWork, Fits
<1> QED
  BY <1>3, <1>4, <1>5, <1>6, CopiesAre

LEMMA WithinDistribute ==
  ASSUME Inv, Inv', Tries, Within, NEW w \in Workflows, Distribute(w)
  PROVE  Within'
<1>1. /\ dag[w] \in Plans /\ at[w] \in 1..Len(dag[w]) /\ Role(w) \in Roles /\ pc[w] = "loop"
      /\ dag[w] # <<>> /\ TypeOK
  <2>1. dag[w] \in Plans /\ at[w] \in DOMAIN dag[w] /\ pc[w] = "loop" /\ dag[w] # <<>> /\ TypeOK
    BY DEF Inv, Distribute, TypeOK
  <2> QED
    BY <2>1, PlanFacts DEF Role
<1>3. UNCHANGED <<dag, at, retries>> /\ pc' = [pc EXCEPT ![w] = "waiting"]
  BY DEF Distribute
<1>4. Role(w) \notin Before(w, at[w])
  <2>1. \A i, j \in 1..Len(dag[w]) : dag[w][i] = dag[w][j] => i = j
    BY <1>1, PlanFacts
  <2>2. \A k \in 1..(at[w] - 1) : k \in 1..Len(dag[w]) /\ k # at[w]
    BY <1>1
  <2> QED
    BY <1>1, <2>1, <2>2 DEF Before, Role
<1>5. ASSUME NEW v \in Workflows, NEW r \in Roles PROVE Copies(v, r)' <= Quota(v, r)'
  <2>1. /\ Copies(v, r) \in Nat /\ Quota(v, r) \in Nat /\ Copies(v, r) <= Quota(v, r)
        /\ Copies(v, r)' = Copies(v, r) + (IF v = w /\ r = Role(w) THEN 1 ELSE 0)
    BY <1>1, CopiesNat, QuotaNat, DistributeCopies DEF Within
  <2>2. CASE v = w /\ r = Role(w)
    <3>1. Quota(v, r) = retries[w] /\ retries[w] \in Nat
      BY <1>1, <1>4, <2>2 DEF Quota, TypeOK
    <3>2. Quota(v, r)' = retries[w] + 1
      <4>1. pc'[w] = "waiting" /\ Role(w)' = Role(w) /\ Before(w, at[w])' = Before(w, at[w])
        BY <1>1, <1>3 DEF TypeOK, Role, Before
      <4> QED
        BY <1>1, <1>3, <1>4, <2>2, <4>1 DEF Quota
    <3> QED
      BY <2>1, <2>2, <3>1, <3>2
  <2>3. CASE v = w /\ r # Role(w)
    <3>1. pc'[w] = "waiting" /\ Role(w)' = Role(w) /\ Before(w, at[w])' = Before(w, at[w])
      BY <1>1, <1>3 DEF TypeOK, Role, Before
    <3>2. Quota(v, r)' = Quota(v, r)
      BY <1>1, <1>3, <2>3, <3>1 DEF Quota
    <3> QED
      BY <2>1, <2>3, <3>2
  <2>4. CASE v # w
    <3>1. Quota(v, r)' = Quota(v, r)
      BY <1>1, <1>3, <2>4, QuotaElsewhere DEF TypeOK
    <3> QED
      BY <2>1, <2>4, <3>1
  <2> QED
    BY <2>2, <2>3, <2>4
<1> QED
  BY <1>5 DEF Within

LEMMA WithinAdvance ==
  ASSUME Inv, Inv', Tries, Within, NEW w \in Workflows, Advance(w)
  PROVE  Within'
<1>1. /\ Woken(w) /\ at[w] < Len(dag[w]) /\ TypeOK /\ TypeOK' /\ UNCHANGED <<dag, mail, busy>>
      /\ at' = [at EXCEPT ![w] = at[w] + 1] /\ retries' = [retries EXCEPT ![w] = 0]
      /\ pc' = [pc EXCEPT ![w] = "loop"]
  BY DEF Inv, Advance
<1>2. dag[w] \in Plans /\ at[w] \in 1..Len(dag[w])
  BY <1>1, WokenFacts
<1>3. ASSUME NEW v \in Workflows, NEW r \in Roles PROVE Quota(v, r) <= Quota(v, r)'
  <2>1. Quota(v, r) \in Nat /\ Quota(v, r)' \in Nat /\ Quota(v, r) <= RetryLimit + 1
    BY <1>1, QuotaNat, QuotaNextNat
  <2>2. CASE v # w
    <3>1. Quota(v, r)' = Quota(v, r)
      BY <1>1, <2>2, QuotaElsewhere DEF TypeOK
    <3> QED
      BY <2>1, <3>1
  <2>3. CASE v = w
    <3>1. Before(w, at[w])' = Before(w, at[w]) \cup {Role(w)}
      <4>1. at'[w] = at[w] + 1
        BY <1>1 DEF TypeOK
      <4>2. Before(w, at[w])' = Before(w, at[w] + 1)
        BY <1>1, <4>1 DEF Before
      <4> QED
        BY <1>2, <4>2, NextBefore
    <3>2. CASE r \in Before(w, at[w]) \cup {Role(w)}
      <4>1. Quota(v, r)' = RetryLimit + 1
        BY <2>3, <3>1, <3>2 DEF Quota
      <4> QED
        BY <2>1, <4>1
    <3>3. CASE r \notin Before(w, at[w]) \cup {Role(w)}
      <4>1. Quota(v, r) = 0
        BY <1>1, <2>3, <3>3 DEF Quota, Woken
      <4> QED
        BY <2>1, <4>1
    <3> QED
      BY <3>2, <3>3
  <2> QED
    BY <2>2, <2>3
<1> QED
  BY <1>1, <1>3, WithinQuiet

LEMMA WithinEnd ==
  ASSUME Inv, Inv', Tries, Within, NEW w \in Workflows, Succeed(w) \/ Fail(w) \/ Pause(w)
  PROVE  Within'
<1>1. /\ TypeOK /\ TypeOK' /\ UNCHANGED <<dag, at, mail, busy>> /\ pc'[w] = "ended"
      /\ \A v \in Workflows : v # w => UNCHANGED <<pc[v], retries[v]>>
  BY DEF Inv, Succeed, Fail, Pause, TimedOut, TypeOK
<1>2. ASSUME NEW v \in Workflows, NEW r \in Roles PROVE Quota(v, r) <= Quota(v, r)'
  <2>1. Quota(v, r) \in Nat /\ Quota(v, r)' \in Nat /\ Quota(v, r) <= RetryLimit + 1
    BY <1>1, QuotaNat, QuotaNextNat
  <2>2. CASE v # w
    <3>1. Quota(v, r)' = Quota(v, r)
      BY <1>1, <2>2, QuotaElsewhere
    <3> QED
      BY <2>1, <3>1
  <2>3. CASE v = w
    <3>1. Quota(v, r)' = RetryLimit + 1
      BY <1>1, <2>3 DEF Quota
    <3> QED
      BY <2>1, <3>1
  <2> QED
    BY <2>2, <2>3
<1> QED
  BY <1>1, <1>2, WithinQuiet

LEMMA WithinRest ==
  ASSUME Inv, Inv', Tries, Within, NEW w \in Workflows, Start(w) \/ Plan(w) \/ Retry(w)
  PROVE  Within'
<1>1. /\ TypeOK /\ TypeOK' /\ UNCHANGED <<at, mail, busy>>
      /\ \A v \in Workflows : v # w => UNCHANGED <<pc[v], dag[v], retries[v]>>
  BY DEF Inv, Start, Plan, Retry, TimedOut, TypeOK
<1>2. ASSUME NEW r \in Roles PROVE Quota(w, r) <= Quota(w, r)'
  <2>1. Quota(w, r) \in Nat /\ Quota(w, r)' \in Nat
    BY <1>1, QuotaNat, QuotaNextNat
  <2>2. CASE Start(w) \/ Plan(w)
    <3>1. dag[w] = <<>> /\ at[w] = 1 /\ pc[w] # "ended"
      BY <2>2 DEF Inv, Course, Start, Plan
    <3>2. Quota(w, r) = 0
      BY <3>1 DEF Quota, Before
    <3> QED
      BY <2>1, <3>2
  <2>3. CASE Retry(w)
    <3>1. /\ pc[w] = "waiting" /\ pc'[w] = "loop" /\ UNCHANGED <<dag, at>>
          /\ retries[w] \in Nat /\ retries'[w] = retries[w] + 1
      BY <1>1, <2>3 DEF Retry, TimedOut, TypeOK
    <3>2. Role(w)' = Role(w) /\ Before(w, at[w])' = Before(w, at[w])
      BY <3>1 DEF Role, Before
    <3>3. Quota(w, r)' = Quota(w, r)
      BY <3>1, <3>2 DEF Quota
    <3> QED
      BY <2>1, <3>3
  <2> QED
    BY <2>2, <2>3
<1>3. ASSUME NEW v \in Workflows, NEW r \in Roles PROVE Quota(v, r) <= Quota(v, r)'
  <2>1. CASE v # w
    <3>1. Quota(v, r)' = Quota(v, r) /\ Quota(v, r) \in Nat
      BY <1>1, <2>1, QuotaElsewhere, QuotaNat
    <3> QED
      BY <3>1
  <2> QED
    BY <1>2, <2>1
<1> QED
  BY <1>1, <1>3, WithinQuiet

\* What a step may do to the messages of a role, the action of WorkBound.
Bounded ==
  \A w \in Workflows, r \in Roles :
    /\ Copies(w, r)' <= RetryLimit + 1
    /\ r \in Found(w) \/ pc[w] = "ended" => Copies(w, r)' <= Copies(w, r)

Few == \A w \in Workflows, r \in Roles : Copies(w, r) <= RetryLimit + 1

\* The role a workflow is at has no result in its context yet.
LEMMA CurrentNotFound ==
  ASSUME Inv, NEW w \in Workflows, Distribute(w)
  PROVE  pc[w] # "ended" /\ Role(w) \notin Found(w)
<1>1. dag[w] \in Plans /\ at[w] \in DOMAIN dag[w] /\ pc[w] = "loop" /\ dag[w] # <<>>
  BY DEF Inv, Distribute, TypeOK
<1>2. /\ DOMAIN dag[w] = 1..Len(dag[w])
      /\ \A i, j \in 1..Len(dag[w]) : dag[w][i] = dag[w][j] => i = j
  BY <1>1, PlanFacts
<1>3. \A k \in 1..(at[w] - 1) : k \in 1..Len(dag[w]) /\ k # at[w]
  BY <1>1, <1>2
<1>4. Role(w) \notin Before(w, at[w])
  BY <1>1, <1>2, <1>3 DEF Before, Role
<1>5. Found(w) = Before(w, at[w])
  BY <1>1 DEF Inv, Course
<1> QED
  BY <1>1, <1>4, <1>5

\* Retries and late answers never make a role's messages more than the first
\* task and its RetryLimit repetitions, and no message is added for a role that
\* has its result, nor for a workflow that has ended or paused.
THEOREM WorkIsBounded == Spec => WorkBound
<1>1. Inv /\ Inv' /\ Tries /\ Within /\ [Next]_vars => Tries' /\ Within'
  <2> SUFFICES ASSUME Inv, Inv', Tries, Within, [Next]_vars PROVE Tries' /\ Within'
    OBVIOUS
  <2>1. ASSUME NEW w \in Workflows, Start(w) \/ Timer(w) \/ Orchestrate(w) PROVE Tries'
    <3>1. retries \in [Workflows -> Nat] /\ pc \in [Workflows -> {"none", "loop", "waiting", "ended"}]
      BY DEF Inv, TypeOK
    <3> QED
      BY <2>1, <3>1, MultiAgentAssumption
         DEF Tries, Start, Timer, Retry, Pause, TimedOut, Orchestrate, Plan, Distribute, Advance,
             Succeed, Fail, Woken
  <2>2. CASE UNCHANGED vars
    BY <2>2 DEF Tries, Within, Quota, Copies, Before, Role, vars, own
  <2> QED
    BY <2>1, <2>2, WithinListen, WithinDistribute, WithinAdvance, WithinEnd, WithinRest
       DEF Next, Orchestrate, Timer
<1>2. Init => Tries /\ Within
  <2> SUFFICES ASSUME Init PROVE Tries /\ Within
    OBVIOUS
  <2>1. \A w \in Workflows, r \in Roles : Copies(w, r) = 0 /\ Quota(w, r) = 0
    <3> TAKE w \in Workflows, r \in Roles
    <3>1. {i \in DOMAIN mail : mail[i].wf = w /\ mail[i].role = r} = {}
      BY DEF Init
    <3>2. Copies(w, r) = 0
      BY <3>1, FS_EmptySet DEF Copies, Init
    <3> QED
      BY <3>2 DEF Quota, Before, Init
  <2> QED
    BY <2>1, MultiAgentAssumption DEF Tries, Within, Init
<1>3. Inv /\ Tries /\ Within => Few
  <2> SUFFICES ASSUME Inv, Tries, Within PROVE Few
    OBVIOUS
  <2>1. \A a, b \in Nat : a <= b /\ b <= RetryLimit + 1 => a <= RetryLimit + 1
    BY MultiAgentAssumption
  <2> QED
    BY <2>1, CopiesNat, QuotaNat DEF Inv, Within, Few
<1>4. Inv /\ Inv' /\ Few' /\ [Next]_vars => [Bounded]_vars
  <2> SUFFICES ASSUME Inv, Inv', Few', [Next]_vars,
                      NEW w \in Workflows, NEW r \in Roles
               PROVE  /\ Copies(w, r)' <= RetryLimit + 1
                      /\ r \in Found(w) \/ pc[w] = "ended" => Copies(w, r)' <= Copies(w, r)
    BY DEF Bounded
  <2>1. Copies(w, r) \in Nat
    BY CopiesNat DEF Inv
  <2>2. Copies(w, r)' <= RetryLimit + 1
    BY DEF Few
  <2>3. ASSUME r \in Found(w) \/ pc[w] = "ended" PROVE Copies(w, r)' <= Copies(w, r)
    <3>1. CASE UNCHANGED <<mail, busy>>
      <4>1. Copies(w, r)' = Copies(w, r)
        BY <3>1 DEF Copies
      <4> QED
        BY <2>1, <4>1
    <3>2. CASE Listen
      BY <3>2, ListenCopies DEF Inv
    <3>3. ASSUME NEW v \in Workflows, Distribute(v) PROVE Copies(w, r)' <= Copies(w, r)
      <4>1. ~(w = v /\ r = Role(v))
        BY <2>3, <3>3, CurrentNotFound DEF Distribute
      <4> QED
        BY <2>1, <3>3, <4>1, DistributeCopies DEF Inv
    <3> QED
      BY <3>1, <3>2, <3>3
      DEF Next, vars, Orchestrate, Timer, Start, Plan, Advance, Succeed, Fail, Retry, Pause, TimedOut
  <2> QED
    BY <2>2, <2>3
<1> QED
  BY <1>1, <1>2, <1>3, <1>4, Invariant, PTL DEF Spec, WorkBound, Bounded
=============================================================================
