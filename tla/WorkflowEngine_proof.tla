------------------------- MODULE WorkflowEngine_proof -------------------------
(***************************************************************************)
(* Proofs about WorkflowEngine, for any workflows, graphs and limits.      *)
(***************************************************************************)
EXTENDS WorkflowEngine, SequenceTheorems, TLAPS

Queued(w) == \E i \in DOMAIN events : events[i].wf = w

QueuedOnce(w) ==
  \A i, j \in DOMAIN events : events[i].wf = w /\ events[j].wf = w => i = j

InHand(w) == handled # None /\ handled.event.wf = w

\* A workflow is in one place at a time ...
Solo(w) ==
  /\ spawned[w] # <<>> => /\ running[w] = None /\ ~Queued(w) /\ ~InHand(w)
                          /\ asked[w] = "no" /\ answer[w] = None
  /\ running[w] # None => ~Queued(w) /\ ~InHand(w) /\ asked[w] = "no" /\ answer[w] = None
  /\ Queued(w) => ~InHand(w) /\ asked[w] = "no" /\ answer[w] = None
  /\ InHand(w) => asked[w] = "no" /\ answer[w] = None
  /\ asked[w] # "no" => answer[w] = None
  /\ Len(spawned[w]) <= 1
  /\ QueuedOnce(w)

\* ... which its status tells ...
Where(w) ==
  /\ row[w].status = "RUNNING" <=>
       spawned[w] # <<>> \/ running[w] # None \/ Queued(w) \/ InHand(w)
  /\ asked[w] # "no" \/ answer[w] # None => row[w].status = "PAUSED"
  /\ row[w].status = "PAUSED" /\ hitl => asked[w] # "no" \/ answer[w] # None
  /\ asked[w] # "no" => hitl

\* ... and whoever has a copy of the row has the row itself ...
Copies(w) ==
  /\ \A i \in DOMAIN spawned[w] : spawned[w][i] = row[w]
  /\ running[w] # None => running[w] = row[w]
  /\ answer[w] # None => answer[w].copy = row[w]
  /\ InHand(w) => handled.copy = row[w]

\* ... and the caller knows how it stands.
Told(w) ==
  w \notin Direct =>
    /\ row[w].status = "PENDING" <=> future[w] = "none"
    /\ row[w].status \in {"RUNNING", "PAUSED"} <=> future[w] = "pending"
    /\ row[w].status = "SUCCESS" <=> future[w] = "result"
    /\ row[w].status \in {"FAILED", "CANCELLED"} <=> future[w] = "error"

\* What the next save may add to is below its limit.
Limits(w) ==
  /\ row[w].status \notin Final => \A n \in Nodes : row[w].retries[n] <= MaxRetries
  /\ running[w] # None \/ Queued(w) \/ InHand(w) \/ row[w].status = "PENDING" =>
       row[w].steps < MaxSteps

Core(w) == Solo(w) /\ Where(w) /\ Copies(w) /\ Told(w) /\ Limits(w)

Inv == TypeOK /\ \A w \in Workflows : Core(w)

-----------------------------------------------------------------------------
(* The queue of events.                                                    *)

LEMMA QueueAppend ==
  ASSUME events \in Seq(Events), NEW e \in Events, events' = Append(events, e)
  PROVE  /\ events' \in Seq(Events)
         /\ Queued(e.wf)'
         /\ ~Queued(e.wf) => QueuedOnce(e.wf)'
         /\ \A v : v # e.wf => (Queued(v)' <=> Queued(v)) /\ (QueuedOnce(v) => QueuedOnce(v)')
<1>1. /\ events' \in Seq(Events) /\ Len(events) \in Nat
      /\ DOMAIN events = 1..Len(events) /\ DOMAIN events' = 1..(Len(events) + 1)
      /\ (\A i \in DOMAIN events : events'[i] = events[i]) /\ events'[Len(events) + 1] = e
  OBVIOUS
<1>2. \A i \in DOMAIN events' : i \in DOMAIN events \/ i = Len(events) + 1
  BY <1>1
<1> QED
  BY <1>1, <1>2 DEF Queued, QueuedOnce

LEMMA QueueTail ==
  ASSUME events \in Seq(Events), events # <<>>, events' = Tail(events)
  PROVE  /\ events' \in Seq(Events) /\ Head(events) \in Events
         /\ Queued(Head(events).wf)
         /\ QueuedOnce(Head(events).wf) =>
              \A i \in DOMAIN events' : events'[i].wf # Head(events).wf
         /\ \A v : /\ v # Head(events).wf => (Queued(v)' <=> Queued(v))
                   /\ QueuedOnce(v) => QueuedOnce(v)'
<1>1. /\ events' \in Seq(Events) /\ Len(events) \in Nat \ {0}
      /\ DOMAIN events = 1..Len(events) /\ DOMAIN events' = 1..(Len(events) - 1)
      /\ (\A i \in DOMAIN events' : events'[i] = events[i + 1]) /\ Head(events) = events[1]
      /\ Head(events) \in Events
  OBVIOUS
<1>2. \A i \in DOMAIN events : i = 1 \/ (i - 1 \in DOMAIN events' /\ events'[i - 1] = events[i])
  BY <1>1
<1>3. \A i \in DOMAIN events' : i + 1 \in DOMAIN events /\ i + 1 # 1
  BY <1>1
<1>4. 1 \in DOMAIN events
  BY <1>1
<1>5. ASSUME NEW v, v # Head(events).wf PROVE Queued(v)' <=> Queued(v)
  <2>1. ASSUME NEW i \in DOMAIN events', events'[i].wf = v PROVE Queued(v)
    BY <1>1, <1>3, <2>1 DEF Queued
  <2>2. ASSUME NEW i \in DOMAIN events, events[i].wf = v PROVE Queued(v)'
    <3>1. i # 1
      BY <1>1, <1>5, <2>2
    <3> QED
      BY <1>2, <2>2, <3>1 DEF Queued
  <2> QED
    BY <2>1, <2>2 DEF Queued
<1>6. ASSUME NEW v, QueuedOnce(v) PROVE QueuedOnce(v)'
  BY <1>1, <1>3, <1>6 DEF QueuedOnce
<1>7. ASSUME QueuedOnce(Head(events).wf)
      PROVE  \A i \in DOMAIN events' : events'[i].wf # Head(events).wf
  <2>1. ASSUME NEW i \in DOMAIN events', events'[i].wf = Head(events).wf PROVE FALSE
    BY <1>1, <1>3, <1>4, <1>7, <2>1 DEF QueuedOnce
  <2> QED
    BY <2>1
<1> QED
  BY <1>1, <1>4, <1>5, <1>6, <1>7 DEF Queued

-----------------------------------------------------------------------------
(* What the saves write.                                                   *)

LEMMA RowStatus ==
  ASSUME NEW r \in Rows, NEW s \in Statuses
  PROVE  LET q == [r EXCEPT !.status = s]
         IN  /\ q \in Rows /\ q.status = s /\ q.node = r.node /\ q.steps = r.steps
             /\ q.retries = r.retries /\ q.edge = r.edge /\ q.recoveries = r.recoveries
  BY DEF Rows

LEMMA RowStep ==
  ASSUME NEW r \in Rows, NEW n \in Nodes, r.steps < MaxSteps, MaxSteps \in Nat
  PROVE  LET q == [r EXCEPT !.node = n, !.steps = @ + 1]
         IN  /\ q \in Rows /\ q.status = r.status /\ q.node = n /\ q.steps = r.steps + 1
             /\ q.retries = r.retries /\ q.edge = r.edge /\ q.recoveries = r.recoveries
<1>1. r.steps + 1 \in 0..MaxSteps
  BY DEF Rows
<1> QED
  BY <1>1 DEF Rows

LEMMA RowRetry ==
  ASSUME NEW r \in Rows, NEW n \in Nodes, r.retries[n] < MaxRetries, MaxRetries \in Nat,
         \A m \in Nodes : r.retries[m] <= MaxRetries
  PROVE  LET q == [r EXCEPT !.retries[n] = @ + 1]
         IN  /\ q \in Rows /\ q.status = r.status /\ q.node = r.node /\ q.steps = r.steps
             /\ \A m \in Nodes : q.retries[m] <= MaxRetries
             /\ q.edge = r.edge /\ q.recoveries = r.recoveries
             /\ q.retries[n] = r.retries[n] + 1
  BY DEF Rows

LEMMA RowRecover ==
  ASSUME NEW r \in Rows, NEW n \in Nodes, r.recoveries < MaxRecoveries,
         MaxRetries \in Nat, MaxRecoveries \in Nat,
         \A m \in Nodes : r.retries[m] <= MaxRetries
  PROVE  LET q == [r EXCEPT !.recoveries = @ + 1, !.retries[n] = 0, !.status = "RUNNING"]
         IN  /\ q \in Rows /\ q.status = "RUNNING" /\ q.node = r.node /\ q.steps = r.steps
             /\ \A m \in Nodes : q.retries[m] <= MaxRetries
             /\ q.edge = r.edge /\ q.recoveries = r.recoveries + 1
             /\ q.retries[n] = 0
<1> DEFINE c == [r.retries EXCEPT ![n] = 0]
<1>1. c \in [Nodes -> 0..MaxRetries + 1] /\ c[n] = 0 /\ \A m \in Nodes : c[m] <= MaxRetries
  BY DEF Rows
<1>2. r.recoveries + 1 \in 0..MaxRecoveries
  BY DEF Rows
<1>3. [r EXCEPT !.recoveries = @ + 1, !.retries[n] = 0, !.status = "RUNNING"]
        = [r EXCEPT !.recoveries = r.recoveries + 1, !.retries = c, !.status = "RUNNING"]
  BY DEF Rows
<1> HIDE DEF c
<1> QED
  BY <1>1, <1>2, <1>3 DEF Rows, Statuses

LEMMA RowGiveUp ==
  ASSUME NEW r \in Rows, NEW n \in Nodes, MaxRetries \in Nat,
         \A m \in Nodes : r.retries[m] <= MaxRetries
  PROVE  LET q == [r EXCEPT !.status = "FAILED", !.retries[n] = @ + 1]
         IN  q \in Rows /\ q.status = "FAILED" /\ q.steps = r.steps /\ q.edge = r.edge
<1> DEFINE c == [r.retries EXCEPT ![n] = @ + 1]
<1>1. c \in [Nodes -> 0..MaxRetries + 1]
  BY DEF Rows
<1>2. [r EXCEPT !.status = "FAILED", !.retries[n] = @ + 1]
        = [r EXCEPT !.status = "FAILED", !.retries = c]
  BY DEF Rows
<1> HIDE DEF c
<1> QED
  BY <1>1, <1>2 DEF Rows, Statuses

LEMMA RowEdge ==
  ASSUME NEW r \in Rows, NEW n \in Nodes, NEW b \in Nodes \cup {None}
  PROVE  LET q == [r EXCEPT !.edge[n] = b]
         IN  /\ q \in Rows /\ q.status = r.status /\ q.node = r.node /\ q.steps = r.steps
             /\ q.retries = r.retries /\ q.recoveries = r.recoveries /\ q.edge[n] = b
             /\ \A m \in Nodes \ {n} : q.edge[m] = r.edge[m]
  BY DEF Rows

-----------------------------------------------------------------------------
\* A workflow that a step leaves alone.
LEMMA Untouched ==
  ASSUME NEW v, Core(v), hitl' = hitl,
         row'[v] = row[v], future'[v] = future[v], spawned'[v] = spawned[v],
         running'[v] = running[v], asked'[v] = asked[v], answer'[v] = answer[v],
         Queued(v)' <=> Queued(v), QueuedOnce(v) => QueuedOnce(v)',
         InHand(v)' <=> InHand(v), InHand(v) => handled' = handled
  PROVE  Core(v)'
  BY DEF Core, Solo, Where, Copies, Told, Limits

\* The queue, or the listener's hand, is as it was.
LEMMA QueueSame ==
  ASSUME UNCHANGED events
  PROVE  \A v : (Queued(v)' <=> Queued(v)) /\ (QueuedOnce(v) => QueuedOnce(v)')
  BY DEF Queued, QueuedOnce

LEMMA HandSame ==
  ASSUME UNCHANGED handled PROVE \A v : InHand(v)' <=> InHand(v)
  BY DEF InHand

\* The listener lets go of its event: only that workflow is affected.
LEMMA HandEmptied ==
  ASSUME handled # None, handled' = None
  PROVE  \A v : ~InHand(v)' /\ (v # handled.event.wf => ~InHand(v))
  BY DEF InHand

\* A row is saved and a task created where there was none.
LEMMA OneTask ==
  ASSUME TypeOK, NEW w \in Workflows, NEW q \in Rows, spawned[w] = <<>>,
         spawned' = [spawned EXCEPT ![w] = Append(@, q)]
  PROVE  /\ spawned' \in [Workflows -> Seq(Rows)]
         /\ spawned'[w] = <<q>> /\ \A v \in Workflows \ {w} : spawned'[v] = spawned[v]
  BY DEF TypeOK

LEMMA OneElement ==
  \A s, q : s = <<q>> => s # <<>> /\ Len(s) = 1 /\ DOMAIN s = {1} /\ s[1] = q
  OBVIOUS

\* The first task begins, or gives up: there was only one.
LEMMA NoTask ==
  ASSUME TypeOK, NEW w \in Workflows, Solo(w), Copies(w), Takes(w)
  PROVE  /\ Head(spawned[w]) = row[w] /\ row[w] \in Rows
         /\ spawned' \in [Workflows -> Seq(Rows)]
         /\ spawned'[w] = <<>> /\ \A v \in Workflows \ {w} : spawned'[v] = spawned[v]
<1>1. spawned[w] \in Seq(Rows) /\ spawned[w] # <<>> /\ Len(spawned[w]) <= 1
  BY DEF TypeOK, Solo, Takes
<1>2. Len(spawned[w]) = 1 /\ 1 \in DOMAIN spawned[w] /\ Head(spawned[w]) = spawned[w][1]
  <2>1. Len(spawned[w]) \in Nat \ {0} /\ DOMAIN spawned[w] = 1..Len(spawned[w])
    BY <1>1, EmptySeq, LenProperties
  <2>2. Head(spawned[w]) = spawned[w][1]
    BY <1>1
  <2> DEFINE n == Len(spawned[w])
  <2>3. n \in Nat \ {0} /\ n <= 1
    BY <1>1, <2>1
  <2>4. n = 1
    <3> HIDE DEF n
    <3> QED
      BY <2>3
  <2> QED
    BY <2>1, <2>2, <2>4
<1>3. Tail(spawned[w]) = <<>> /\ Tail(spawned[w]) \in Seq(Rows)
  <2>1. Tail(spawned[w]) \in Seq(Rows) /\ Len(Tail(spawned[w])) = 0
    BY <1>1, <1>2, HeadTailProperties
  <2> QED
    BY <2>1, EmptySeq
<1>4. spawned' = [spawned EXCEPT ![w] = Tail(spawned[w])]
  BY DEF Takes
<1> QED
  BY <1>2, <1>3, <1>4 DEF TypeOK, Copies

LEMMA PrepareStep ==
  ASSUME Inv, NEW w \in Workflows, Prepare(w) PROVE Inv'
<1> USE WorkflowEngineAssumption, NoneIsNoRecord
<1> DEFINE q == [row[w] EXCEPT !.status = "RUNNING"]
           e == Event(w, "START", Entry[w], None)
<1>1. TypeOK /\ Core(w) /\ \A v \in Workflows : Core(v)
  BY DEF Inv
<1>2. /\ q \in Rows /\ q.status = "RUNNING" /\ q.steps = row[w].steps
      /\ q.retries = row[w].retries /\ row[w].status = "PENDING"
  <2>1. row[w] \in Rows /\ "RUNNING" \in Statuses
    BY <1>1 DEF TypeOK, Statuses
  <2> QED
    BY <2>1, RowStatus DEF Prepare
<1>3. e \in Events /\ e.wf = w
  BY DEF Event, Events
<1> HIDE DEF q, e
<1>4. /\ row' = [row EXCEPT ![w] = q] /\ future' = [future EXCEPT ![w] = "pending"]
      /\ events' = Append(events, e) /\ w \notin Direct
      /\ UNCHANGED <<spawned, running, handled, asked, answer, hitl, history>>
  BY DEF Prepare, Save, q, e
<1>5. TypeOK'
  BY <1>1, <1>2, <1>3, <1>4, QueueAppend DEF TypeOK, history
<1>6. ASSUME NEW v \in Workflows \ {w} PROVE Core(v)'
  BY <1>1, <1>3, <1>4, QueueAppend, HandSame, Untouched DEF TypeOK
<1>7. Core(w)'
  <2>1. /\ Solo(w)' /\ Where(w)' /\ Copies(w)'
    BY <1>1, <1>2, <1>3, <1>4, QueueAppend, HandSame
    DEF Core, Solo, Where, Copies, TypeOK
  <2>2. Told(w)' /\ Limits(w)'
    BY <1>1, <1>2, <1>4 DEF Core, Told, Limits, TypeOK, Final
  <2> QED
    BY <2>1, <2>2 DEF Core
<1> QED
  BY <1>5, <1>6, <1>7 DEF Inv

LEMMA StartWorkflowStep ==
  ASSUME Inv, NEW w \in Workflows, StartWorkflow(w) PROVE Inv'
<1> USE WorkflowEngineAssumption, NoneIsNoRecord
<1> DEFINE q == [row[w] EXCEPT !.status = "RUNNING"]
<1>1. TypeOK /\ Core(w) /\ \A v \in Workflows : Core(v)
  BY DEF Inv
<1>2. /\ q \in Rows /\ q.status = "RUNNING" /\ q.steps = row[w].steps
      /\ q.retries = row[w].retries /\ row[w].status = "PENDING"
  <2>1. row[w] \in Rows /\ "RUNNING" \in Statuses
    BY <1>1 DEF TypeOK, Statuses
  <2> QED
    BY <2>1, RowStatus DEF StartWorkflow
<1>3. /\ row' = [row EXCEPT ![w] = q] /\ spawned' = [spawned EXCEPT ![w] = Append(@, row'[w])]
      /\ w \in Direct
      /\ UNCHANGED <<future, running, events, handled, asked, answer, hitl, history>>
  BY DEF StartWorkflow, Save, Spawn
<1> HIDE DEF q
<1>4. row'[w] = q
  BY <1>1, <1>3 DEF TypeOK
<1>5. spawned[w] = <<>>
  BY <1>1, <1>2 DEF Core, Where
<1>6. /\ spawned' \in [Workflows -> Seq(Rows)]
      /\ spawned'[w] = <<q>> /\ \A v \in Workflows \ {w} : spawned'[v] = spawned[v]
  BY <1>1, <1>2, <1>3, <1>4, <1>5, OneTask
<1>7. TypeOK'
  BY <1>1, <1>2, <1>3, <1>6 DEF TypeOK, history
<1>8. ASSUME NEW v \in Workflows \ {w} PROVE Core(v)'
  BY <1>1, <1>3, <1>6, QueueSame, HandSame, Untouched DEF TypeOK
<1>9. Core(w)'
  <2>1. spawned'[w] # <<>> /\ Len(spawned'[w]) = 1 /\ DOMAIN spawned'[w] = {1} /\ spawned'[w][1] = q
    BY <1>6
  <2>2. /\ Solo(w)' /\ Where(w)' /\ Copies(w)'
    BY <1>1, <1>2, <1>3, <1>4, <2>1, QueueSame, HandSame
    DEF Core, Solo, Where, Copies
  <2>3. Told(w)' /\ Limits(w)'
    BY <1>1, <1>2, <1>3, <1>4, QueueSame, HandSame DEF Core, Told, Limits, Final
  <2> QED
    BY <2>2, <2>3 DEF Core
<1> QED
  BY <1>7, <1>8, <1>9 DEF Inv

\* _try_complete_workflow_future
LEMMA CompleteType ==
  ASSUME TypeOK, NEW w \in Workflows, NEW o \in {"result", "error"}, Complete(w, o)
  PROVE  /\ future' \in [Workflows -> {"none", "pending", "result", "error"}]
         /\ future'[w] = IF future[w] = "pending" THEN o ELSE future[w]
         /\ \A v \in Workflows \ {w} : future'[v] = future[v]
  BY DEF TypeOK, Complete

LEMMA GiveUpStep ==
  ASSUME Inv, NEW w \in Workflows, GiveUp(w) PROVE Inv'
<1> USE WorkflowEngineAssumption, NoneIsNoRecord
<1> DEFINE q == [row[w] EXCEPT !.status = "FAILED"]
<1>1. TypeOK /\ Core(w) /\ \A v \in Workflows : Core(v)
  BY DEF Inv
<1>2. /\ Head(spawned[w]) = row[w] /\ row[w] \in Rows
      /\ spawned' \in [Workflows -> Seq(Rows)]
      /\ spawned'[w] = <<>> /\ \A v \in Workflows \ {w} : spawned'[v] = spawned[v]
      /\ spawned[w] # <<>>
  BY <1>1, NoTask DEF GiveUp, Core, Takes
<1>3. /\ row' = [row EXCEPT ![w] = q] /\ Complete(w, "error")
      /\ UNCHANGED <<running, events, handled, asked, answer, hitl, history>>
  BY <1>2 DEF GiveUp, Save
<1>4. q \in Rows /\ q.status = "FAILED" /\ q.steps = row[w].steps
  BY <1>2, RowStatus DEF Statuses
<1> HIDE DEF q
<1>5. row'[w] = q /\ row' \in [Workflows -> Rows]
  BY <1>1, <1>3, <1>4 DEF TypeOK
<1>6. /\ future' \in [Workflows -> {"none", "pending", "result", "error"}]
      /\ future'[w] = IF future[w] = "pending" THEN "error" ELSE future[w]
      /\ \A v \in Workflows \ {w} : future'[v] = future[v]
  BY <1>1, <1>3, CompleteType
<1>7. TypeOK'
  BY <1>1, <1>2, <1>3, <1>5, <1>6 DEF TypeOK, history
<1>8. ASSUME NEW v \in Workflows \ {w} PROVE Core(v)'
  BY <1>1, <1>2, <1>3, <1>6, QueueSame, HandSame, Untouched DEF TypeOK
<1>9. Core(w)'
  <2>1. /\ Solo(w)' /\ Where(w)' /\ Copies(w)'
    BY <1>1, <1>2, <1>3, <1>4, <1>5, QueueSame, HandSame
    DEF Core, Solo, Where, Copies
  <2>2. Told(w)' /\ Limits(w)'
    BY <1>1, <1>2, <1>3, <1>4, <1>5, <1>6, QueueSame, HandSame
    DEF Core, Solo, Where, Told, Limits, Final
  <2> QED
    BY <2>1, <2>2 DEF Core
<1> QED
  BY <1>7, <1>8, <1>9 DEF Inv

LEMMA BeginStep ==
  ASSUME Inv, NEW w \in Workflows, Begin(w) PROVE Inv'
<1> USE WorkflowEngineAssumption, NoneIsNoRecord
<1>1. TypeOK /\ Core(w) /\ \A v \in Workflows : Core(v)
  BY DEF Inv
<1>2. /\ Head(spawned[w]) = row[w] /\ row[w] \in Rows
      /\ spawned' \in [Workflows -> Seq(Rows)]
      /\ spawned'[w] = <<>> /\ \A v \in Workflows \ {w} : spawned'[v] = spawned[v]
      /\ spawned[w] # <<>>
  BY <1>1, NoTask DEF Begin, Core, Takes
<1>3. /\ running' = [running EXCEPT ![w] = row[w]] /\ row[w].steps < MaxSteps
      /\ UNCHANGED <<row, future, events, handled, asked, answer, hitl, trail, approved>>
      /\ tries' \in [Workflows -> Nat]
  <2>1. row[w].steps \in Nat
    BY <1>2 DEF Rows
  <2>2. tries' \in [Workflows -> Nat]
    BY <1>1 DEF Begin, TypeOK
  <2> QED
    <3>1. /\ ~OutOfSteps(Head(spawned[w]))
          /\ running' = [running EXCEPT ![w] = Head(spawned[w])]
          /\ UNCHANGED <<row, future, events, handled, asked, answer, hitl, trail, approved>>
      BY DEF Begin
    <3>2. ~OutOfSteps(row[w])
      BY <1>2, <3>1
    <3>3. row[w].steps < MaxSteps
      BY <2>1, <3>2 DEF OutOfSteps
    <3> QED
      BY <1>2, <2>2, <3>1, <3>3
<1>4. running'[w] = row[w] /\ running'[w] # None
  BY <1>1, <1>2, <1>3 DEF TypeOK
<1>5. running' \in [Workflows -> Rows \cup {None}]
  BY <1>1, <1>2, <1>3 DEF TypeOK
<1>6. TypeOK'
  BY <1>1, <1>2, <1>3, <1>5 DEF TypeOK
<1>7. ASSUME NEW v \in Workflows \ {w} PROVE Core(v)'
  BY <1>1, <1>2, <1>3, QueueSame, HandSame, Untouched DEF TypeOK
<1>8. Core(w)'
  <2>1. /\ Solo(w)' /\ Where(w)' /\ Copies(w)'
    BY <1>1, <1>2, <1>3, <1>4, QueueSame, HandSame
    DEF Core, Solo, Where, Copies
  <2>2. Told(w)' /\ Limits(w)'
    BY <1>1, <1>3 DEF Core, Told, Limits
  <2> QED
    BY <2>1, <2>2 DEF Core
<1> QED
  BY <1>6, <1>7, <1>8 DEF Inv

\* The body of a node ends: its copy was the row, and nobody else had one.
LEMMA BodyEnds ==
  ASSUME TypeOK, NEW w \in Workflows, Core(w), Ends(w)
  PROVE  /\ running[w] = row[w] /\ row[w] \in Rows /\ running[w] # None
         /\ running' \in [Workflows -> Rows \cup {None}]
         /\ running'[w] = None /\ \A v \in Workflows \ {w} : running'[v] = running[v]
         /\ row[w].status = "RUNNING" /\ row[w].steps < MaxSteps /\ row[w].node \in Nodes
         /\ spawned[w] = <<>> /\ ~Queued(w) /\ ~InHand(w) /\ asked[w] = "no" /\ answer[w] = None
<1>1. running[w] # None /\ running' = [running EXCEPT ![w] = None]
  BY DEF Ends
<1>2. running[w] = row[w] /\ row[w] \in Rows
  BY <1>1 DEF Core, Copies, TypeOK
<1>3. row[w].node \in Nodes
  BY <1>2 DEF Rows
<1>4. /\ running' \in [Workflows -> Rows \cup {None}]
      /\ running'[w] = None /\ \A v \in Workflows \ {w} : running'[v] = running[v]
  BY <1>1 DEF TypeOK
<1> QED
  BY <1>1, <1>2, <1>3, <1>4 DEF Core, Solo, Where, Limits

LEMMA PauseStep ==
  ASSUME Inv, NEW w \in Workflows, PauseForHuman(w) PROVE Inv'
<1> USE WorkflowEngineAssumption, NoneIsNoRecord
<1> DEFINE q == [row[w] EXCEPT !.status = "PAUSED"]
<1>1. TypeOK /\ Core(w) /\ \A v \in Workflows : Core(v)
  BY DEF Inv
<1>2. Ends(w)
  BY DEF PauseForHuman
<1>3. /\ row' = [row EXCEPT ![w] = q]
      /\ asked' = [asked EXCEPT ![w] = IF hitl THEN "event" ELSE @]
      /\ UNCHANGED <<future, spawned, events, handled, answer, hitl, history>>
  BY <1>1, <1>2, BodyEnds DEF PauseForHuman, Save
<1>4. q \in Rows /\ q.status = "PAUSED" /\ q.steps = row[w].steps /\ q.retries = row[w].retries
  <2>1. row[w] \in Rows /\ "PAUSED" \in Statuses
    BY <1>1 DEF TypeOK, Statuses
  <2> QED
    BY <2>1, RowStatus
<1> HIDE DEF q
<1>5. row'[w] = q /\ row' \in [Workflows -> Rows]
  BY <1>1, <1>3, <1>4 DEF TypeOK
<1>6. /\ asked' \in [Workflows -> {"no", "event", "open"}]
      /\ asked'[w] = IF hitl THEN "event" ELSE "no"
      /\ \A v \in Workflows \ {w} : asked'[v] = asked[v]
  BY <1>1, <1>2, <1>3, BodyEnds DEF TypeOK
<1>7. TypeOK'
  BY <1>1, <1>2, <1>3, <1>5, <1>6, BodyEnds DEF TypeOK, history
<1>8. ASSUME NEW v \in Workflows \ {w} PROVE Core(v)'
  <2>1. row'[v] = row[v] /\ asked'[v] = asked[v] /\ Core(v)
    BY <1>1, <1>3, <1>6 DEF TypeOK
  <2>2. running'[v] = running[v]
    BY <1>1, <1>2, BodyEnds
  <2> QED
    BY <1>3, <2>1, <2>2, QueueSame, HandSame, Untouched
<1>9. Core(w)'
  <2>1. /\ Solo(w)' /\ Where(w)' /\ Copies(w)'
    BY <1>1, <1>2, <1>3, <1>4, <1>5, <1>6, BodyEnds, QueueSame, HandSame
    DEF Core, Solo, Where, Copies
  <2>2. Told(w)' /\ Limits(w)'
    BY <1>1, <1>2, <1>3, <1>4, <1>5, BodyEnds DEF Core, Told, Limits, Final
  <2> QED
    BY <2>1, <2>2 DEF Core
<1> QED
  BY <1>7, <1>8, <1>9 DEF Inv

\* A body that ends publishes one event, whatever it did to its own row.
LEMMA BodyPublishes ==
  ASSUME Inv, NEW w \in Workflows, Ends(w), NEW e \in Events, e.wf = w,
         events' = Append(events, e), NEW q \in Rows,
         row' = [row EXCEPT ![w] = q],
         q.status = row[w].status, q.steps = row[w].steps, q.retries = row[w].retries,
         UNCHANGED <<future, spawned, handled, asked, answer, hitl, tries, approved>>,
         trail' \in [Workflows -> Seq([node : Nodes, next : Nodes \cup {None}])]
  PROVE  Inv'
<1> USE WorkflowEngineAssumption, NoneIsNoRecord
<1>1. TypeOK /\ Core(w) /\ \A v \in Workflows : Core(v)
  BY DEF Inv
<1>2. row'[w] = q /\ row' \in [Workflows -> Rows]
  BY <1>1 DEF TypeOK
<1>3. TypeOK'
  BY <1>1, <1>2, BodyEnds, QueueAppend DEF TypeOK
<1>4. ASSUME NEW v \in Workflows \ {w} PROVE Core(v)'
  <2>1. row'[v] = row[v] /\ Core(v)
    BY <1>1 DEF TypeOK
  <2>2. running'[v] = running[v]
    BY <1>1, BodyEnds
  <2>3. (Queued(v)' <=> Queued(v)) /\ (QueuedOnce(v) => QueuedOnce(v)')
    <3>1. v # e.wf /\ events \in Seq(Events)
      BY <1>1 DEF TypeOK
    <3> QED
      BY <3>1, QueueAppend
  <2> QED
    BY <2>1, <2>2, <2>3, HandSame, Untouched
<1>5. Core(w)'
  <2>1. Queued(w)' /\ QueuedOnce(w)'
    BY <1>1, BodyEnds, QueueAppend DEF TypeOK
  <2>2. /\ Solo(w)' /\ Where(w)' /\ Copies(w)'
    BY <1>1, <1>2, <2>1, BodyEnds, HandSame DEF Core, Solo, Where, Copies
  <2>3. Told(w)' /\ Limits(w)'
    BY <1>1, <1>2, BodyEnds DEF Core, Told, Limits
  <2> QED
    BY <2>2, <2>3 DEF Core
<1> QED
  BY <1>3, <1>4, <1>5 DEF Inv

LEMMA SucceedStep ==
  ASSUME Inv, NEW w \in Workflows, NEW jump \in Nodes \cup {None}, NEW copy \in Rows,
         Succeed(w, jump, copy), copy.status = row[w].status, copy.steps = row[w].steps,
         copy.retries = row[w].retries
  PROVE  Inv'
<1> USE WorkflowEngineAssumption, NoneIsNoRecord
<1> DEFINE n == running[w].node
           e == Event(w, "COMPLETE", n, jump)
           t == [node |-> n, next |-> Onward(copy, n, jump)]
<1>1. TypeOK /\ Core(w) /\ Ends(w)
  BY DEF Inv, Succeed
<1>2. n \in Nodes
  BY <1>1, BodyEnds
<1>3. e \in Events /\ e.wf = w /\ events' = Append(events, e)
  BY <1>2 DEF Event, Events, Succeed
<1>4. t \in [node : Nodes, next : Nodes \cup {None}]
  BY <1>2 DEF Onward, Rows
<1>5. trail' \in [Workflows -> Seq([node : Nodes, next : Nodes \cup {None}])]
  <2>1. trail' = [trail EXCEPT ![w] = Append(@, t)]
    BY DEF Succeed
  <2>2. trail[w] \in Seq([node : Nodes, next : Nodes \cup {None}])
    BY <1>1 DEF TypeOK
  <2> HIDE DEF t
  <2>3. Append(trail[w], t) \in Seq([node : Nodes, next : Nodes \cup {None}])
    BY <1>4, <2>2, AppendProperties
  <2> QED
    BY <1>1, <2>1, <2>3 DEF TypeOK
<1>6. UNCHANGED <<future, spawned, handled, asked, answer, hitl, tries, approved>>
  BY DEF Succeed
<1> HIDE DEF e, n, t
<1>7. CASE row' = [row EXCEPT ![w] = copy]
  BY <1>1, <1>3, <1>5, <1>6, <1>7, BodyPublishes
<1>8. CASE row' = row
  <2>1. row' = [row EXCEPT ![w] = row[w]] /\ row[w] \in Rows
    BY <1>1, <1>8 DEF TypeOK
  <2> QED
    BY <1>1, <1>3, <1>5, <1>6, <2>1, BodyPublishes
<1> QED
  BY <1>7, <1>8 DEF Succeed

LEMMA RunStep ==
  ASSUME Inv, NEW w \in Workflows, RunCondition(w) \/ RunNode(w) \/ RunFails(w) PROVE Inv'
<1> USE WorkflowEngineAssumption, NoneIsNoRecord
<1>1. TypeOK /\ Core(w)
  BY DEF Inv
<1>2. CASE RunCondition(w)
  <2>1. PICK b \in Branches[running[w].node] :
          Succeed(w, None, [running[w] EXCEPT !.edge[running[w].node] = b])
    BY <1>2 DEF RunCondition
  <2>2. running[w] = row[w] /\ row[w] \in Rows /\ row[w].node \in Nodes
    BY <1>1, <2>1, BodyEnds DEF Succeed
  <2>3. b \in Nodes \cup {None}
    BY <2>2
  <2> DEFINE q == [row[w] EXCEPT !.edge[row[w].node] = b]
  <2>4. q \in Rows /\ q.status = row[w].status /\ q.steps = row[w].steps
        /\ q.retries = row[w].retries
    BY <2>2, <2>3, RowEdge
  <2>5. Succeed(w, None, q)
    BY <2>1, <2>2
  <2> HIDE DEF q
  <2> QED
    BY <2>4, <2>5, SucceedStep
<1>3. CASE RunNode(w)
  <2>1. PICK jump \in Jumps[running[w].node] \cup {None} : Succeed(w, jump, running[w])
    BY <1>3 DEF RunNode
  <2>2. running[w] = row[w] /\ row[w] \in Rows /\ row[w].node \in Nodes
    BY <1>1, <2>1, BodyEnds DEF Succeed
  <2>3. jump \in Nodes \cup {None}
    BY <2>2
  <2>4. Succeed(w, jump, row[w])
    BY <2>1, <2>2
  <2> QED
    BY <2>2, <2>3, <2>4, SucceedStep
<1>4. CASE RunFails(w)
  <2>1. PICK type \in {"TRANSIENT", "FATAL"} :
          events' = Append(events, Event(w, type, running[w].node, None))
    BY <1>4 DEF RunFails
  <2> DEFINE e == Event(w, type, running[w].node, None)
  <2>2. Ends(w) /\ UNCHANGED <<row, future, spawned, handled, asked, answer, hitl, history>>
    BY <1>4 DEF RunFails
  <2>3. e \in Events /\ e.wf = w
    BY <1>1, <2>2, BodyEnds DEF Event, Events
  <2> HIDE DEF e
  <2>4. row' = [row EXCEPT ![w] = row[w]] /\ row[w] \in Rows
    BY <1>1, <2>2 DEF TypeOK
  <2>5. trail' \in [Workflows -> Seq([node : Nodes, next : Nodes \cup {None}])]
    BY <1>1, <2>2 DEF TypeOK, history
  <2>6. UNCHANGED <<tries, approved>> /\ events' = Append(events, e)
    BY <2>1, <2>2 DEF history, e
  <2> QED
    BY <2>2, <2>3, <2>4, <2>5, <2>6, BodyPublishes
<1> QED
  BY <1>2, <1>3, <1>4

-----------------------------------------------------------------------------
(* The listener.                                                           *)

LEMMA LoadStep ==
  ASSUME Inv, Load PROVE Inv'
<1> USE WorkflowEngineAssumption, NoneIsNoRecord
<1>1. TypeOK /\ \A v \in Workflows : Core(v)
  BY DEF Inv
<1>0. Head(events) \in Events /\ Head(events).wf \in Workflows
  BY <1>1, QueueTail DEF Load, TypeOK, Events
<1> PICK e \in Events, w \in Workflows : e = Head(events) /\ w = e.wf
  BY <1>0
<1>2. /\ events' = Tail(events) /\ events # <<>> /\ handled = None
      /\ handled' = [event |-> e, copy |-> row[w]]
      /\ UNCHANGED <<row, future, spawned, running, asked, answer, hitl, history>>
  BY DEF Load
<1>3. /\ events' \in Seq(Events) /\ e \in Events /\ Queued(w)
      /\ QueuedOnce(w) => \A i \in DOMAIN events' : events'[i].wf # w
      /\ \A v : /\ v # w => (Queued(v)' <=> Queued(v))
                /\ QueuedOnce(v) => QueuedOnce(v)'
  BY <1>1, <1>2, QueueTail DEF TypeOK
<1>5. handled' \in [event : Events, copy : Rows] /\ handled' # None
      /\ handled'.event = e /\ handled'.copy = row[w]
  BY <1>1, <1>2 DEF TypeOK
<1>6. TypeOK'
  BY <1>1, <1>2, <1>3, <1>5 DEF TypeOK, history
<1>7. \A v : (InHand(v)' <=> v = w) /\ ~InHand(v)
  BY <1>2, <1>5 DEF InHand
<1>8. ASSUME NEW v \in Workflows, v # w PROVE Core(v)'
  <2>1. Core(v)
    BY <1>1
  <2> QED
    BY <1>2, <1>3, <1>7, <1>8, <2>1, Untouched
<1>9. Core(w)'
  <2>1. Core(w) /\ Queued(w) /\ ~Queued(w)'
    BY <1>1, <1>3 DEF Core, Solo, Queued
  <2>2. /\ Solo(w)' /\ Where(w)' /\ Copies(w)'
    BY <1>2, <1>3, <1>5, <1>7, <2>1 DEF Core, Solo, Where, Copies
  <2>3. Told(w)' /\ Limits(w)'
    BY <1>2, <2>1 DEF Core, Told, Limits
  <2> QED
    BY <2>2, <2>3 DEF Core
<1> QED
  BY <1>6, <1>8, <1>9 DEF Inv

\* What the listener has in hand: the row, and nobody else is there.
LEMMA ListenerHas ==
  ASSUME Inv, handled # None
  PROVE  LET w == handled.event.wf
         IN  /\ w \in Workflows /\ handled.copy = row[w] /\ row[w] \in Rows
             /\ handled.event.node \in Nodes /\ handled.event.jump \in Nodes \cup {None}
             /\ row[w].status = "RUNNING" /\ row[w].steps < MaxSteps
             /\ \A n \in Nodes : row[w].retries[n] <= MaxRetries
             /\ spawned[w] = <<>> /\ running[w] = None /\ ~Queued(w)
             /\ asked[w] = "no" /\ answer[w] = None /\ InHand(w)
<1> DEFINE w == handled.event.wf
<1>1. TypeOK /\ \A v \in Workflows : Core(v)
  BY DEF Inv
<1>2. handled \in [event : Events, copy : Rows]
  BY <1>1 DEF TypeOK
<1>3. w \in Workflows /\ handled.event.node \in Nodes /\ handled.event.jump \in Nodes \cup {None}
  BY <1>2 DEF Events
<1>4. Core(w) /\ row[w] \in Rows
  BY <1>1, <1>3 DEF TypeOK
<1>5. InHand(w)
  BY DEF InHand
<1> HIDE DEF w
<1>6. handled.copy = row[w] /\ row[w].status = "RUNNING"
  BY <1>4, <1>5 DEF Core, Where, Copies
<1>7. row[w].steps < MaxSteps /\ \A n \in Nodes : row[w].retries[n] <= MaxRetries
  BY <1>4, <1>5, <1>6 DEF Core, Limits, Final
<1>8. /\ spawned[w] = <<>> /\ running[w] = None /\ ~Queued(w)
      /\ asked[w] = "no" /\ answer[w] = None
  BY <1>4, <1>5 DEF Core, Solo
<1> QED
  BY <1>3, <1>4, <1>5, <1>6, <1>7, <1>8 DEF w

\* The listener is done: it saved a row that goes on and created its task ...
LEMMA ListenerSpawns ==
  ASSUME Inv, handled # None, handled' = None, NEW w \in Workflows, w = handled.event.wf,
         NEW q \in Rows, q.status = "RUNNING", \A n \in Nodes : q.retries[n] <= MaxRetries,
         row' = [row EXCEPT ![w] = q], spawned' = [spawned EXCEPT ![w] = Append(@, q)],
         tries' \in [Workflows -> Nat],
         UNCHANGED <<future, running, events, asked, answer, hitl, trail, approved>>
  PROVE  Inv'
<1> USE WorkflowEngineAssumption, NoneIsNoRecord
<1>1. TypeOK /\ Core(w) /\ \A v \in Workflows : Core(v)
  BY DEF Inv
<1>2. /\ spawned[w] = <<>> /\ running[w] = None /\ ~Queued(w) /\ asked[w] = "no"
      /\ answer[w] = None /\ row[w].status = "RUNNING"
  BY ListenerHas
<1>3. /\ spawned' \in [Workflows -> Seq(Rows)]
      /\ spawned'[w] = <<q>> /\ \A v \in Workflows \ {w} : spawned'[v] = spawned[v]
  BY <1>1, <1>2, OneTask
<1>4. row'[w] = q /\ row' \in [Workflows -> Rows]
  BY <1>1 DEF TypeOK
<1>5. TypeOK'
  BY <1>1, <1>3, <1>4 DEF TypeOK
<1>6. \A v : ~InHand(v)' /\ (v # w => ~InHand(v))
  BY HandEmptied
<1>7. ASSUME NEW v \in Workflows \ {w} PROVE Core(v)'
  <2>1. row'[v] = row[v] /\ Core(v) /\ v # w
    BY <1>1 DEF TypeOK
  <2> QED
    BY <1>3, <1>6, <2>1, QueueSame, Untouched
<1>8. Core(w)'
  <2>1. spawned'[w] # <<>> /\ Len(spawned'[w]) = 1 /\ DOMAIN spawned'[w] = {1} /\ spawned'[w][1] = q
    <3>1. spawned'[w] = <<q>>
      BY ONLY <1>3
    <3> QED
      BY ONLY <3>1, OneElement
  <2>2. /\ Solo(w)' /\ Where(w)' /\ Copies(w)'
    BY <1>1, <1>2, <1>4, <1>6, <2>1, QueueSame DEF Core, Solo, Where, Copies
  <2>3. Told(w)' /\ Limits(w)'
    BY <1>1, <1>2, <1>4, <1>6, QueueSame DEF Core, Told, Limits, Final
  <2> QED
    BY <2>2, <2>3 DEF Core
<1> QED
  BY <1>5, <1>7, <1>8 DEF Inv

\* ... or one that ends the workflow, and told the caller.
LEMMA ListenerEnds ==
  ASSUME Inv, handled # None, handled' = None, NEW w \in Workflows, w = handled.event.wf,
         NEW q \in Rows, NEW o \in {"result", "error"},
         q.status = IF o = "result" THEN "SUCCESS" ELSE "FAILED",
         row' = [row EXCEPT ![w] = q], Complete(w, o),
         UNCHANGED <<spawned, running, events, asked, answer, hitl, history>>
  PROVE  Inv'
<1> USE WorkflowEngineAssumption, NoneIsNoRecord
<1>1. TypeOK /\ Core(w) /\ \A v \in Workflows : Core(v)
  BY DEF Inv
<1>2. /\ spawned[w] = <<>> /\ running[w] = None /\ ~Queued(w) /\ asked[w] = "no"
      /\ answer[w] = None /\ row[w].status = "RUNNING"
  BY ListenerHas
<1>3. /\ future' \in [Workflows -> {"none", "pending", "result", "error"}]
      /\ future'[w] = IF future[w] = "pending" THEN o ELSE future[w]
      /\ \A v \in Workflows \ {w} : future'[v] = future[v]
  BY <1>1, CompleteType
<1>4. row'[w] = q /\ row' \in [Workflows -> Rows]
  BY <1>1 DEF TypeOK
<1>5. TypeOK'
  BY <1>1, <1>3, <1>4 DEF TypeOK, history
<1>6. \A v : ~InHand(v)' /\ (v # w => ~InHand(v))
  BY HandEmptied
<1>7. ASSUME NEW v \in Workflows \ {w} PROVE Core(v)'
  <2>1. row'[v] = row[v] /\ Core(v) /\ v # w
    BY <1>1 DEF TypeOK
  <2> QED
    BY <1>3, <1>6, <2>1, QueueSame, Untouched
<1>8. Core(w)'
  <2>1. q.status \in Final /\ q.status \notin {"RUNNING", "PAUSED", "PENDING"}
    BY DEF Final
  <2>2. /\ Solo(w)' /\ Where(w)' /\ Copies(w)'
    BY <1>1, <1>2, <1>4, <1>6, <2>1, QueueSame DEF Core, Solo, Where, Copies
  <2>3. Told(w)'
    BY <1>1, <1>2, <1>3, <1>4 DEF Core, Told
  <2>4. Limits(w)'
    BY <1>2, <1>4, <1>6, <2>1, QueueSame DEF Limits
  <2> QED
    BY <2>2, <2>3, <2>4 DEF Core
<1> QED
  BY <1>5, <1>7, <1>8 DEF Inv

LEMMA HandleStep ==
  ASSUME Inv, Handle PROVE Inv'
<1> USE WorkflowEngineAssumption, NoneIsNoRecord
<1>0. handled # None /\ handled' = None
  BY DEF Handle, Handles, Started, RouteOn, RouteEnd, Retry, Recover, Fail
<1>1. PICK w \in Workflows, n \in Nodes, j \in Nodes \cup {None} :
        w = handled.event.wf /\ n = handled.event.node /\ j = handled.event.jump
  BY <1>0, ListenerHas
<1>2. /\ handled.copy = row[w] /\ row[w] \in Rows
      /\ row[w].status = "RUNNING" /\ row[w].steps < MaxSteps
      /\ \A m \in Nodes : row[w].retries[m] <= MaxRetries
  BY <1>0, <1>1, ListenerHas
<1>3. tries \in [Workflows -> Nat] /\ row \in [Workflows -> Rows]
  BY DEF Inv, TypeOK
<1>4. CASE Started
  <2> DEFINE q == [row[w] EXCEPT !.status = "RUNNING"]
  <2>1. /\ row' = [row EXCEPT ![w] = q] /\ spawned' = [spawned EXCEPT ![w] = Append(@, row'[w])]
        /\ UNCHANGED <<future, running, events, asked, answer, hitl, history>>
    BY <1>1, <1>2, <1>4 DEF Started, Save, Spawn
  <2>2. q \in Rows /\ q.status = "RUNNING" /\ \A m \in Nodes : q.retries[m] <= MaxRetries
    BY <1>2, RowStatus DEF Statuses
  <2> HIDE DEF q
  <2>3. row'[w] = q /\ tries' \in [Workflows -> Nat] /\ UNCHANGED <<trail, approved>>
    BY <1>3, <2>1, <2>2 DEF history
  <2> QED
    BY <1>0, <1>1, <2>1, <2>2, <2>3, ListenerSpawns
<1>5. CASE RouteOn
  <2>1. PICK m \in Nodes : /\ row' = [row EXCEPT ![w] = [row[w] EXCEPT !.node = m, !.steps = @ + 1]]
          /\ spawned' = [spawned EXCEPT ![w] =
               Append(@, [row[w] EXCEPT !.node = m, !.steps = @ + 1])]
    <3>1. RouteTarget(row[w], n, j) \in Nodes \cup {None}
      BY <1>1, <1>2 DEF RouteTarget, Onward, Rows
    <3> QED
      BY <1>1, <1>2, <1>5, <3>1 DEF RouteOn, SaveAndSpawn, Save, Spawn
  <2>2. /\ UNCHANGED <<future, running, events, asked, answer, hitl, trail, approved>>
        /\ tries' \in [Workflows -> Nat]
    BY <1>3, <1>5 DEF RouteOn
  <2> DEFINE q == [row[w] EXCEPT !.node = m, !.steps = @ + 1]
  <2>3. q \in Rows /\ q.status = "RUNNING" /\ \A k \in Nodes : q.retries[k] <= MaxRetries
    <3>1. MaxSteps \in Nat
      OBVIOUS
    <3>2. q \in Rows /\ q.status = row[w].status /\ q.retries = row[w].retries
      BY <1>2, <3>1, RowStep
    <3> HIDE DEF q
    <3> QED
      BY <1>2, <3>2
  <2>4. row' = [row EXCEPT ![w] = q] /\ spawned' = [spawned EXCEPT ![w] = Append(@, q)]
    BY <2>1
  <2> HIDE DEF q
  <2> QED
    BY <1>0, <1>1, <2>2, <2>3, <2>4, ListenerSpawns
<1>6. CASE RouteEnd
  <2> DEFINE q == [row[w] EXCEPT !.status = "SUCCESS"]
  <2>1. /\ row' = [row EXCEPT ![w] = q] /\ Complete(w, "result")
        /\ UNCHANGED <<spawned, running, events, asked, answer, hitl, history>>
    BY <1>1, <1>2, <1>6 DEF RouteEnd, Save
  <2>2. q \in Rows /\ q.status = "SUCCESS"
    BY <1>2, RowStatus DEF Statuses
  <2> HIDE DEF q
  <2> QED
    BY <1>0, <1>1, <2>1, <2>2, ListenerEnds
<1>7. CASE Retry
  <2> DEFINE q == [row[w] EXCEPT !.retries[n] = @ + 1]
  <2>1. /\ row' = [row EXCEPT ![w] = q] /\ spawned' = [spawned EXCEPT ![w] = Append(@, q)]
        /\ UNCHANGED <<future, running, events, asked, answer, hitl, history>>
        /\ row[w].retries[n] < MaxRetries
    BY <1>1, <1>2, <1>7 DEF Retry, SaveAndSpawn, Save, Spawn, RetriesLeft
  <2>2. q \in Rows /\ q.status = "RUNNING" /\ \A m \in Nodes : q.retries[m] <= MaxRetries
    BY <1>2, <2>1, RowRetry
  <2> HIDE DEF q
  <2>3. tries' \in [Workflows -> Nat] /\ UNCHANGED <<trail, approved>>
    BY <1>3, <2>1 DEF history
  <2> QED
    BY <1>0, <1>1, <2>1, <2>2, <2>3, ListenerSpawns
<1>8. CASE Recover
  <2> DEFINE q == [row[w] EXCEPT !.recoveries = @ + 1, !.retries[n] = 0, !.status = "RUNNING"]
  <2>1. /\ row' = [row EXCEPT ![w] = q] /\ spawned' = [spawned EXCEPT ![w] = Append(@, q)]
        /\ UNCHANGED <<future, running, events, asked, answer, hitl, history>>
        /\ row[w].recoveries < MaxRecoveries
    BY <1>1, <1>2, <1>8 DEF Recover, SaveAndSpawn, Save, Spawn
  <2>2. q \in Rows /\ q.status = "RUNNING" /\ \A m \in Nodes : q.retries[m] <= MaxRetries
    BY <1>2, <2>1, RowRecover
  <2> HIDE DEF q
  <2>3. tries' \in [Workflows -> Nat] /\ UNCHANGED <<trail, approved>>
    BY <1>3, <2>1 DEF history
  <2> QED
    BY <1>0, <1>1, <2>1, <2>2, <2>3, ListenerSpawns
<1>9. CASE Fail
  <2>1. /\ Complete(w, "error")
        /\ UNCHANGED <<spawned, running, events, asked, answer, hitl, history>>
    BY <1>1, <1>9 DEF Fail
  <2>2. PICK q \in Rows : q.status = "FAILED" /\ row' = [row EXCEPT ![w] = q]
    <3>1. [row[w] EXCEPT !.status = "FAILED", !.retries[n] = @ + 1] \in Rows
          /\ [row[w] EXCEPT !.status = "FAILED", !.retries[n] = @ + 1].status = "FAILED"
      BY <1>2, RowGiveUp
    <3>2. [row[w] EXCEPT !.status = "FAILED"] \in Rows
          /\ [row[w] EXCEPT !.status = "FAILED"].status = "FAILED"
      BY <1>2, RowStatus DEF Statuses
    <3>3. \/ row' = [row EXCEPT ![w] = [row[w] EXCEPT !.status = "FAILED", !.retries[n] = @ + 1]]
          \/ row' = [row EXCEPT ![w] = [row[w] EXCEPT !.status = "FAILED"]]
      BY <1>1, <1>2, <1>9 DEF Fail, Save
    <3> QED
      BY <3>1, <3>2, <3>3
  <2> QED
    BY <1>0, <1>1, <2>1, <2>2, ListenerEnds
<1> QED
  BY <1>4, <1>5, <1>6, <1>7, <1>8, <1>9 DEF Handle

-----------------------------------------------------------------------------
(* The human.                                                              *)

LEMMA AskStep ==
  ASSUME Inv, NEW w \in Workflows, Ask(w) PROVE Inv'
<1> USE WorkflowEngineAssumption, NoneIsNoRecord
<1>1. TypeOK /\ Core(w) /\ \A v \in Workflows : Core(v)
  BY DEF Inv
<1>2. /\ asked[w] = "event" /\ asked' = [asked EXCEPT ![w] = "open"]
      /\ UNCHANGED <<row, future, spawned, running, events, handled, answer, hitl, history>>
  BY DEF Ask
<1>3. asked'[w] = "open" /\ \A v \in Workflows \ {w} : asked'[v] = asked[v]
  BY <1>1, <1>2 DEF TypeOK
<1>4. TypeOK'
  BY <1>1, <1>2 DEF TypeOK, history
<1>5. ASSUME NEW v \in Workflows \ {w} PROVE Core(v)'
  BY <1>1, <1>2, <1>3, QueueSame, HandSame, Untouched
<1>6. Core(w)'
  <2>1. /\ Solo(w)' /\ Where(w)' /\ Copies(w)'
    BY <1>1, <1>2, <1>3, QueueSame, HandSame DEF Core, Solo, Where, Copies
  <2>2. Told(w)' /\ Limits(w)'
    BY <1>1, <1>2, QueueSame, HandSame DEF Core, Told, Limits
  <2> QED
    BY <2>1, <2>2 DEF Core
<1> QED
  BY <1>4, <1>5, <1>6 DEF Inv

LEMMA PressStep ==
  ASSUME Inv, NEW w \in Workflows, NEW b \in {"resume", "cancel"}, Press(w, b) PROVE Inv'
<1> USE WorkflowEngineAssumption, NoneIsNoRecord
<1> DEFINE a == [button |-> b, copy |-> row[w]]
<1>1. TypeOK /\ Core(w) /\ \A v \in Workflows : Core(v)
  BY DEF Inv
<1>2. /\ asked[w] = "open" /\ asked' = [asked EXCEPT ![w] = "no"]
      /\ answer' = [answer EXCEPT ![w] = a]
      /\ UNCHANGED <<row, future, spawned, running, events, handled, hitl, history>>
  BY DEF Press, PopRequest
<1>3. a \in [button : {"resume", "cancel"}, copy : Rows] /\ a # None /\ a.copy = row[w]
  BY <1>1 DEF TypeOK
<1> HIDE DEF a
<1>4. asked'[w] = "no" /\ \A v \in Workflows \ {w} : asked'[v] = asked[v]
  BY <1>1, <1>2 DEF TypeOK
<1>5. answer'[w] = a /\ \A v \in Workflows \ {w} : answer'[v] = answer[v]
  BY <1>1, <1>2 DEF TypeOK
<1>6. TypeOK'
  BY <1>1, <1>2, <1>3 DEF TypeOK, history
<1>7. ASSUME NEW v \in Workflows \ {w} PROVE Core(v)'
  BY <1>1, <1>2, <1>4, <1>5, QueueSame, HandSame, Untouched
<1>8. Core(w)'
  <2>1. /\ Solo(w)' /\ Where(w)' /\ Copies(w)'
    BY <1>1, <1>2, <1>3, <1>4, <1>5, QueueSame, HandSame DEF Core, Solo, Where, Copies
  <2>2. Told(w)' /\ Limits(w)'
    BY <1>1, <1>2, QueueSame, HandSame DEF Core, Told, Limits
  <2> QED
    BY <2>1, <2>2 DEF Core
<1> QED
  BY <1>6, <1>7, <1>8 DEF Inv

\* An answer on its way: the workflow is paused, and nobody else is there.
LEMMA AnswerHas ==
  ASSUME TypeOK, NEW w \in Workflows, Core(w), NEW b, Answers(w, b)
  PROVE  /\ answer[w] # None /\ answer[w].copy = row[w] /\ row[w] \in Rows
         /\ row[w].status = "PAUSED"
         /\ spawned[w] = <<>> /\ running[w] = None /\ ~Queued(w) /\ ~InHand(w) /\ asked[w] = "no"
         /\ answer' \in [Workflows -> [button : {"resume", "cancel"}, copy : Rows] \cup {None}]
         /\ answer'[w] = None /\ \A v \in Workflows \ {w} : answer'[v] = answer[v]
         /\ UNCHANGED <<running, events, handled, asked, hitl, trail, tries>>
<1>1. /\ answer[w] # None /\ answer' = [answer EXCEPT ![w] = None]
      /\ UNCHANGED <<running, events, handled, asked, hitl, trail, tries>>
  BY DEF Answers
<1>2. answer[w].copy = row[w] /\ row[w] \in Rows /\ row[w].status = "PAUSED"
  BY <1>1 DEF Core, Copies, Where, TypeOK
<1>3. spawned[w] = <<>> /\ running[w] = None /\ ~Queued(w) /\ ~InHand(w) /\ asked[w] = "no"
  BY <1>1 DEF Core, Solo
<1>4. /\ answer' \in [Workflows -> [button : {"resume", "cancel"}, copy : Rows] \cup {None}]
      /\ answer'[w] = None /\ \A v \in Workflows \ {w} : answer'[v] = answer[v]
  BY <1>1 DEF TypeOK
<1> QED
  BY <1>1, <1>2, <1>3, <1>4

LEMMA ResumeStep ==
  ASSUME Inv, NEW w \in Workflows, Resume(w) PROVE Inv'
<1> USE WorkflowEngineAssumption, NoneIsNoRecord
<1> DEFINE q == [row[w] EXCEPT !.status = "RUNNING"]
<1>1. TypeOK /\ Core(w) /\ \A v \in Workflows : Core(v)
  BY DEF Inv
<1>2. Answers(w, "resume")
  BY DEF Resume
<1>3. /\ answer[w].copy = row[w] /\ row[w] \in Rows /\ row[w].status = "PAUSED"
      /\ spawned[w] = <<>> /\ running[w] = None /\ ~Queued(w) /\ ~InHand(w) /\ asked[w] = "no"
  BY <1>1, <1>2, AnswerHas
<1>4. /\ answer' \in [Workflows -> [button : {"resume", "cancel"}, copy : Rows] \cup {None}]
      /\ answer'[w] = None /\ \A v \in Workflows \ {w} : answer'[v] = answer[v]
      /\ UNCHANGED <<running, events, handled, asked, hitl, trail, tries>>
  BY <1>1, <1>2, AnswerHas
<1>5. /\ row' = [row EXCEPT ![w] = q] /\ spawned' = [spawned EXCEPT ![w] = Append(@, q)]
      /\ approved' = [approved EXCEPT ![w] = @ \cup {row[w].node}] /\ UNCHANGED future
  BY <1>3 DEF Resume, SaveAndSpawn, Save, Spawn
<1>6. q \in Rows /\ q.status = "RUNNING" /\ q.retries = row[w].retries
  BY <1>3, RowStatus DEF Statuses
<1> HIDE DEF q
<1>7. /\ spawned' \in [Workflows -> Seq(Rows)]
      /\ spawned'[w] = <<q>> /\ \A v \in Workflows \ {w} : spawned'[v] = spawned[v]
  BY <1>1, <1>3, <1>5, <1>6, OneTask
<1>8. row'[w] = q /\ row' \in [Workflows -> Rows]
  BY <1>1, <1>5, <1>6 DEF TypeOK
<1>9. TypeOK'
  <2>1. row[w].node \in Nodes
    BY <1>3 DEF Rows
  <2>2. approved' \in [Workflows -> SUBSET Nodes]
    BY <1>1, <1>5, <2>1 DEF TypeOK
  <2> QED
    BY <1>1, <1>4, <1>5, <1>7, <1>8, <2>2 DEF TypeOK
<1>10. ASSUME NEW v \in Workflows \ {w} PROVE Core(v)'
  <2>1. row'[v] = row[v] /\ Core(v)
    BY <1>1, <1>5 DEF TypeOK
  <2> QED
    BY <1>4, <1>5, <1>7, <2>1, QueueSame, HandSame, Untouched
<1>11. Core(w)'
  <2>1. spawned'[w] # <<>> /\ Len(spawned'[w]) = 1 /\ DOMAIN spawned'[w] = {1} /\ spawned'[w][1] = q
    <3>1. spawned'[w] = <<q>>
      BY ONLY <1>7
    <3> QED
      BY ONLY <3>1, OneElement
  <2>2. /\ Solo(w)' /\ Where(w)' /\ Copies(w)'
    BY <1>1, <1>3, <1>4, <1>6, <1>8, <2>1, QueueSame, HandSame DEF Core, Solo, Where, Copies
  <2>3. Told(w)'
    BY <1>1, <1>3, <1>5, <1>6, <1>8 DEF Core, Told
  <2>4. Limits(w)'
    BY <1>1, <1>3, <1>4, <1>6, <1>8, QueueSame, HandSame DEF Core, Limits, Final
  <2> QED
    BY <2>2, <2>3, <2>4 DEF Core
<1> QED
  BY <1>9, <1>10, <1>11 DEF Inv

LEMMA CancelStep ==
  ASSUME Inv, NEW w \in Workflows, Cancel(w) PROVE Inv'
<1> USE WorkflowEngineAssumption, NoneIsNoRecord
<1> DEFINE q == [row[w] EXCEPT !.status = "CANCELLED"]
<1>1. TypeOK /\ Core(w) /\ \A v \in Workflows : Core(v)
  BY DEF Inv
<1>2. Answers(w, "cancel")
  BY DEF Cancel
<1>3. /\ answer[w].copy = row[w] /\ row[w] \in Rows /\ row[w].status = "PAUSED"
      /\ spawned[w] = <<>> /\ running[w] = None /\ ~Queued(w) /\ ~InHand(w) /\ asked[w] = "no"
  BY <1>1, <1>2, AnswerHas
<1>4. /\ answer' \in [Workflows -> [button : {"resume", "cancel"}, copy : Rows] \cup {None}]
      /\ answer'[w] = None /\ \A v \in Workflows \ {w} : answer'[v] = answer[v]
      /\ UNCHANGED <<running, events, handled, asked, hitl, trail, tries>>
  BY <1>1, <1>2, AnswerHas
<1>5. /\ row' = [row EXCEPT ![w] = q] /\ Complete(w, "error") /\ UNCHANGED <<spawned, approved>>
  BY <1>3 DEF Cancel, Save
<1>6. q \in Rows /\ q.status = "CANCELLED"
  BY <1>3, RowStatus DEF Statuses
<1> HIDE DEF q
<1>7. /\ future' \in [Workflows -> {"none", "pending", "result", "error"}]
      /\ future'[w] = IF future[w] = "pending" THEN "error" ELSE future[w]
      /\ \A v \in Workflows \ {w} : future'[v] = future[v]
  BY <1>1, <1>5, CompleteType
<1>8. row'[w] = q /\ row' \in [Workflows -> Rows]
  BY <1>1, <1>5, <1>6 DEF TypeOK
<1>9. TypeOK'
  BY <1>1, <1>4, <1>5, <1>7, <1>8 DEF TypeOK
<1>10. ASSUME NEW v \in Workflows \ {w} PROVE Core(v)'
  <2>1. row'[v] = row[v] /\ Core(v)
    BY <1>1, <1>5 DEF TypeOK
  <2> QED
    BY <1>4, <1>5, <1>7, <2>1, QueueSame, HandSame, Untouched
<1>11. Core(w)'
  <2>1. /\ Solo(w)' /\ Where(w)' /\ Copies(w)'
    BY <1>1, <1>3, <1>4, <1>5, <1>6, <1>8, QueueSame, HandSame DEF Core, Solo, Where, Copies
  <2>2. Told(w)'
    BY <1>1, <1>3, <1>6, <1>7, <1>8 DEF Core, Told
  <2>3. Limits(w)'
    BY <1>3, <1>4, <1>6, <1>8, QueueSame, HandSame DEF Limits, Final
  <2> QED
    BY <2>1, <2>2, <2>3 DEF Core
<1> QED
  BY <1>9, <1>10, <1>11 DEF Inv

-----------------------------------------------------------------------------
(* The invariant.                                                          *)

LEMMA InitInv ==
  ASSUME Init PROVE Inv
<1> USE WorkflowEngineAssumption, NoneIsNoRecord
<1>1. ASSUME NEW w \in Workflows PROVE Fresh(w) \in Rows /\ Fresh(w).status = "PENDING"
        /\ Fresh(w).steps = 0 /\ \A n \in Nodes : Fresh(w).retries[n] = 0
  <2>1. [n \in Nodes |-> 0] \in [Nodes -> 0..MaxRetries + 1] /\ 0 \in 0..MaxSteps
        /\ 0 \in 0..MaxRecoveries /\ Entry[w] \in Nodes
    OBVIOUS
  <2> QED
    BY <2>1 DEF Fresh, Rows, Statuses
<1>2. TypeOK
  <2>1. row \in [Workflows -> Rows]
    BY <1>1 DEF Init
  <2>2. hitl \in BOOLEAN
    BY DEF Init
  <2>3. /\ future \in [Workflows -> {"none", "pending", "result", "error"}]
        /\ spawned \in [Workflows -> Seq(Rows)]
        /\ running \in [Workflows -> Rows \cup {None}]
        /\ events \in Seq(Events) /\ handled = None
    BY DEF Init
  <2>4. /\ asked \in [Workflows -> {"no", "event", "open"}]
        /\ answer \in [Workflows -> [button : {"resume", "cancel"}, copy : Rows] \cup {None}]
        /\ trail \in [Workflows -> Seq([node : Nodes, next : Nodes \cup {None}])]
        /\ tries \in [Workflows -> Nat] /\ approved \in [Workflows -> SUBSET Nodes]
    BY DEF Init
  <2> QED
    BY <2>1, <2>2, <2>3, <2>4 DEF TypeOK
<1>3. ASSUME NEW w \in Workflows PROVE Core(w)
  <2>1. /\ row[w] = Fresh(w) /\ future[w] = "none" /\ spawned[w] = <<>> /\ running[w] = None
        /\ asked[w] = "no" /\ answer[w] = None /\ handled = None /\ events = <<>>
    BY DEF Init
  <2>2. ~Queued(w) /\ QueuedOnce(w) /\ ~InHand(w)
    BY <2>1 DEF Queued, QueuedOnce, InHand
  <2>3. Solo(w)
    BY <2>1, <2>2 DEF Solo
  <2>4. Where(w) /\ Copies(w) /\ Told(w)
    BY <1>1, <2>1, <2>2 DEF Where, Copies, Told
  <2>5. Limits(w)
    <3>1. row[w].steps = 0 /\ \A n \in Nodes : row[w].retries[n] = 0
      BY <1>1, <2>1
    <3> QED
      BY <3>1 DEF Limits
  <2> QED
    BY <2>3, <2>4, <2>5 DEF Core
<1> QED
  BY <1>2, <1>3 DEF Inv

LEMMA NextInv ==
  ASSUME Inv, [Next]_vars PROVE Inv'
<1>1. ASSUME NEW w \in Workflows, Execute(w) PROVE Inv'
  BY <1>1, GiveUpStep, BeginStep, PauseStep, RunStep DEF Execute
<1>2. ASSUME NEW w \in Workflows, Act(w) PROVE Inv'
  BY <1>2, ResumeStep, CancelStep DEF Act
<1>3. CASE Listen
  BY <1>3, LoadStep, HandleStep DEF Listen
<1>4. CASE UNCHANGED vars
  <2>1. TypeOK'
    BY <1>4 DEF Inv, TypeOK, vars, history
  <2>2. ASSUME NEW w \in Workflows PROVE Core(w)'
    <3>1. Core(w)
      BY DEF Inv
    <3> QED
      BY <1>4, <3>1, QueueSame, HandSame, Untouched DEF vars
  <2> QED
    BY <2>1, <2>2 DEF Inv
<1> QED
  BY <1>1, <1>2, <1>3, <1>4, PrepareStep, StartWorkflowStep, AskStep, PressStep DEF Next

\* Inv holds in every state.
THEOREM EngineInvariant == Spec => []Inv
<1>1. Init => Inv
  BY InitInv
<1>2. Inv /\ [Next]_vars => Inv'
  BY NextInv
<1> QED
  BY <1>1, <1>2, PTL DEF Spec

\* Type correctness: no workflow counts more than MaxSteps steps, MaxRetries + 1
\* retries of a node, or MaxRecoveries recoveries.
THEOREM EngineTypeCorrect == Spec => []TypeOK
<1>1. Inv => TypeOK
  BY DEF Inv
<1> QED
  BY <1>1, EngineInvariant, PTL

\* No two tasks, bodies, events, requests or answers of one workflow exist
\* together, whatever the graph: nobody ever waits for its lock.
THEOREM EngineOneAtATime == Spec => []OneAtATime
<1>1. ASSUME Inv PROVE OneAtATime
  <2> SUFFICES ASSUME NEW w \in Workflows
               PROVE  /\ \A g, h \in Holders(w) : g = h
                      /\ Len(spawned[w]) <= 1
                      /\ QueuedOnce(w)
    BY DEF OneAtATime, QueuedOnce
  <2>1. Solo(w)
    BY <1>1 DEF Inv, Core
  <2>2. /\ "task" \in Holders(w) <=> spawned[w] # <<>>
        /\ "body" \in Holders(w) <=> running[w] # None
        /\ "event" \in Holders(w) <=> Queued(w)
        /\ "listener" \in Holders(w) <=> InHand(w)
        /\ "human" \in Holders(w) <=> asked[w] # "no"
        /\ "answer" \in Holders(w) <=> answer[w] # None
        /\ Holders(w) \subseteq {"task", "body", "event", "listener", "human", "answer"}
    BY DEF Holders, Queued, InHand
  <2>3. \A g, h \in Holders(w) : g = h
    BY <2>1, <2>2 DEF Solo
  <2> QED
    BY <2>1, <2>3 DEF Solo
<1> QED
  BY <1>1, EngineInvariant, PTL

\* Whoever writes a row back writes back the newest: no save undoes another.
THEOREM EngineCopiesAreFresh == Spec => []CopiesAreFresh
<1>1. ASSUME Inv PROVE CopiesAreFresh
  <2>1. \A w \in Workflows : Copies(w)
    BY <1>1 DEF Inv, Core
  <2>2. handled # None => handled.event.wf \in Workflows /\ InHand(handled.event.wf)
    BY <1>1, ListenerHas
  <2> QED
    BY <2>1, <2>2 DEF Copies, CopiesAreFresh
<1> QED
  BY <1>1, EngineInvariant, PTL

\* No workflow is left RUNNING with nobody to go on with it, nor PAUSED with
\* nobody asked, and one that has ended is left alone.
THEOREM EngineStrandsNobody == Spec => []NoStrandedWaiter
<1>1. ASSUME Inv PROVE NoStrandedWaiter
  <2> SUFFICES ASSUME NEW w \in Workflows
               PROVE  /\ row[w].status = "RUNNING" => Holders(w) # {}
                      /\ row[w].status = "PAUSED" => Holders(w) # {} \/ ~hitl
                      /\ row[w].status \in Final => Holders(w) = {}
    BY DEF NoStrandedWaiter
  <2>1. Where(w)
    BY <1>1 DEF Inv, Core
  <2>2. /\ "task" \in Holders(w) <=> spawned[w] # <<>>
        /\ "body" \in Holders(w) <=> running[w] # None
        /\ "event" \in Holders(w) <=> Queued(w)
        /\ "listener" \in Holders(w) <=> InHand(w)
        /\ "human" \in Holders(w) <=> asked[w] # "no"
        /\ "answer" \in Holders(w) <=> answer[w] # None
        /\ Holders(w) \subseteq {"task", "body", "event", "listener", "human", "answer"}
    BY DEF Holders, Queued, InHand
  <2>3. row[w].status = "RUNNING" => Holders(w) # {}
    BY <2>1, <2>2 DEF Where
  <2>4. row[w].status = "PAUSED" => Holders(w) # {} \/ ~hitl
    BY <2>1, <2>2 DEF Where
  <2>5. row[w].status \in Final => Holders(w) = {}
    BY <2>1, <2>2 DEF Where, Final
  <2> QED
    BY <2>3, <2>4, <2>5
<1> QED
  BY <1>1, EngineInvariant, PTL

\* The caller is told SUCCESS exactly when the row says so, and failure when it
\* says FAILED or CANCELLED.
THEOREM EngineTellsTheRow == Spec => []CallerHearsTheRow
<1>1. ASSUME Inv PROVE CallerHearsTheRow
  BY <1>1 DEF Inv, Core, Told, CallerHearsTheRow
<1> QED
  BY <1>1, EngineInvariant, PTL

\* A step changes at most one row, and not one that is final.
LEMMA OneRowChanges ==
  ASSUME Inv, Next, NEW v \in Workflows, row[v].status \in Final PROVE row'[v] = row[v]
<1> USE WorkflowEngineAssumption, NoneIsNoRecord
<1>1. TypeOK /\ \A w \in Workflows : Core(w)
  BY DEF Inv
<1>2. ASSUME NEW w \in Workflows, NEW q, row' = [row EXCEPT ![w] = q], row[w].status \notin Final
      PROVE  row'[v] = row[v]
  BY <1>1, <1>2 DEF TypeOK
<1>3. ASSUME NEW w \in Workflows, Prepare(w) \/ StartWorkflow(w) PROVE row'[v] = row[v]
  <2>1. row[w].status = "PENDING" /\ row' = [row EXCEPT ![w] = [row[w] EXCEPT !.status = "RUNNING"]]
    BY <1>3 DEF Prepare, StartWorkflow, Save
  <2> QED
    BY <1>2, <2>1 DEF Final
<1>4. ASSUME NEW w \in Workflows, GiveUp(w) PROVE row'[v] = row[v]
  <2>1. row[w].status = "RUNNING"
    BY <1>1, <1>4 DEF GiveUp, Takes, Core, Where
  <2> QED
    BY <1>2, <1>4, <2>1 DEF GiveUp, Save, Final
<1>5. ASSUME NEW w \in Workflows, PauseForHuman(w) PROVE row'[v] = row[v]
  <2>1. row[w].status = "RUNNING"
    BY <1>1, <1>5, BodyEnds DEF PauseForHuman
  <2> QED
    BY <1>2, <1>5, <2>1 DEF PauseForHuman, Save, Final
<1>6. ASSUME NEW w \in Workflows, RunCondition(w) \/ RunNode(w) PROVE row'[v] = row[v]
  <2>1. PICK copy : Ends(w) /\ row' \in {row, [row EXCEPT ![w] = copy]}
    BY <1>6 DEF RunCondition, RunNode, Succeed
  <2>2. row[w].status = "RUNNING"
    BY <1>1, <2>1, BodyEnds
  <2> QED
    BY <1>2, <2>1, <2>2 DEF Final
<1>7. ASSUME NEW w \in Workflows, Act(w) PROVE row'[v] = row[v]
  <2>1. row[w].status = "PAUSED"
    BY <1>1, <1>7, AnswerHas DEF Act, Resume, Cancel
  <2>2. row' = row \/ \E q : row' = [row EXCEPT ![w] = q]
    BY <1>7 DEF Act, Resume, Cancel, SaveAndSpawn, Save
  <2> QED
    BY <1>2, <2>1, <2>2 DEF Final
<1>8. CASE Handle
  <2>1. handled # None
    BY <1>8 DEF Handle, Handles, Started, RouteOn, RouteEnd, Retry, Recover, Fail
  <2>2. PICK w \in Workflows : w = handled.event.wf /\ row[w].status = "RUNNING"
    BY <2>1, ListenerHas
  <2>3. \E q : row' = [row EXCEPT ![w] = q]
    BY <1>8, <2>2
    DEF Handle, Started, RouteOn, RouteEnd, Retry, Recover, Fail, SaveAndSpawn, Save
  <2> QED
    BY <1>2, <2>2, <2>3 DEF Final
<1>9. CASE row' = row
  BY <1>9
<1>10. ASSUME NEW w \in Workflows, Begin(w) \/ RunFails(w) \/ Ask(w) \/ Load
               \/ \E b \in {"resume", "cancel"} : Press(w, b)
       PROVE row' = row
  BY <1>10 DEF Begin, RunFails, Ask, Load, Press
<1> QED
  BY <1>3, <1>4, <1>5, <1>6, <1>7, <1>8, <1>9, <1>10 DEF Next, Execute, Listen

\* What is on file as ended stays as it is.
THEOREM EngineFinalIsFinal == Spec => FinalIsFinal
<1>1. ASSUME Inv, [Next]_vars
      PROVE  [\A w \in Workflows : row[w].status \in Final => row'[w] = row[w]]_vars
  BY <1>1, OneRowChanges
<1> QED
  BY <1>1, EngineInvariant, PTL DEF Spec, FinalIsFinal

-----------------------------------------------------------------------------
(* What the histories say, from Inv: the nodes completed are a path        *)
(* through the graph, and a node is tried no more often than its retries   *)
(* and recoveries allow.                                                   *)

\* The events of a workflow that are queued or that the listener has.
Pend(w) ==
  {e \in Events : e.wf = w /\ (\/ \E i \in DOMAIN events : events[i] = e
                               \/ handled # None /\ handled.event = e)}

Steps == Seq([node : Nodes, next : Nodes \cup {None}])

\* t is a path from the entry of w ...
Path(w, t) ==
  /\ t # <<>> => t[1].node = Entry[w]
  /\ \A i \in 1..(Len(t) - 1) : t[i].next = t[i + 1].node

\* ... that leads to n.
LeadsTo(w, t, n) == IF t = <<>> THEN n = Entry[w] ELSE t[Len(t)].next = n

\* The run of row r's node is yet to come, or under way.
Stands(w, r, t) == LeadsTo(w, t, r.node) /\ Len(t) <= r.steps

\* It has been run, k runs not yet counted in the row, as often as the row says.
Tried(r, c, k) == c <= (MaxRetries + 1) * r.recoveries + r.retries[r.node] + k

Bound == (MaxRetries + 1) * (MaxRecoveries + 1)

\* What an event says of the row r: START, the run is to come; COMPLETE, it is
\* the last of the trail; a failure, it was a run too many.
EventSays(w, e, r, t, c) ==
  /\ e.type = "START" => Stands(w, r, t) /\ Tried(r, c, 0)
  /\ e.type = "COMPLETE" => t # <<>> /\ LeadsTo(w, t, Onward(r, e.node, e.jump))
                            /\ Len(t) <= r.steps + 1
  /\ e.type \in {"TRANSIENT", "FATAL"} => Stands(w, r, t) /\ Tried(r, c, 1) /\ e.node = r.node

Way(w) ==
  /\ Path(w, trail[w]) /\ Len(trail[w]) <= MaxSteps /\ tries[w] <= Bound
  /\ spawned[w] # <<>> \/ row[w].status \in {"PENDING", "PAUSED"} =>
       Stands(w, row[w], trail[w]) /\ Tried(row[w], tries[w], 0)
  /\ running[w] # None =>
       /\ Stands(w, row[w], trail[w])
       /\ Tried(row[w], tries[w], IF Kind[row[w].node] = "risky" THEN 0 ELSE 1)
  /\ \A e \in Pend(w) : EventSays(w, e, row[w], trail[w], tries[w])
  /\ row[w].status = "SUCCESS" => trail[w] # <<>> /\ LeadsTo(w, trail[w], None)

Ways == \A w \in Workflows : Way(w)

-----------------------------------------------------------------------------
(* Lemmas about events, paths and counts.                                  *)

LEMMA PendAppend ==
  ASSUME events \in Seq(Events), NEW e \in Events, events' = Append(events, e), handled' = handled
  PROVE  \A v : Pend(v)' = Pend(v) \cup (IF v = e.wf THEN {e} ELSE {})
<1>1. /\ Len(events) \in Nat
      /\ DOMAIN events = 1..Len(events) /\ DOMAIN events' = 1..(Len(events) + 1)
      /\ (\A i \in DOMAIN events : events'[i] = events[i]) /\ events'[Len(events) + 1] = e
  OBVIOUS
<1>2. \A d : (\E i \in DOMAIN events' : events'[i] = d) <=> (\E i \in DOMAIN events : events[i] = d) \/ d = e
  BY <1>1
<1> QED
  BY <1>2 DEF Pend

LEMMA PendLoad ==
  ASSUME TypeOK, Load, NEW v
  PROVE  Pend(v)' = Pend(v)
<1>1. /\ Len(events) \in Nat \ {0}
      /\ DOMAIN events = 1..Len(events) /\ DOMAIN events' = 1..(Len(events) - 1)
      /\ (\A i \in DOMAIN events' : events'[i] = events[i + 1]) /\ Head(events) = events[1]
      /\ Head(events) \in Events
  BY DEF Load, TypeOK
<1>2. \A d : (\E i \in DOMAIN events : events[i] = d) <=> (\E i \in DOMAIN events' : events'[i] = d) \/ d = Head(events)
  <2>1. \A i \in DOMAIN events : i = 1 \/ (i - 1 \in DOMAIN events' /\ events'[i - 1] = events[i])
    BY <1>1
  <2>2. \A i \in DOMAIN events' : i + 1 \in DOMAIN events
    BY <1>1
  <2>3. 1 \in DOMAIN events
    BY <1>1
  <2> QED
    BY <1>1, <2>1, <2>2, <2>3
<1>3. handled = None /\ handled' # None /\ handled'.event = Head(events)
  <2>1. row[Head(events).wf] \in Rows
    BY <1>1 DEF TypeOK, Events
  <2> QED
    BY <1>1, <2>1, NoneIsNoRecord DEF Load
<1> QED
  BY <1>2, <1>3 DEF Pend

LEMMA PendSame ==
  ASSUME UNCHANGED <<events, handled>>
  PROVE  \A v : Pend(v)' = Pend(v)
  BY DEF Pend

LEMMA PendLess ==
  ASSUME UNCHANGED events, handled' = None
  PROVE  \A v : Pend(v)' \subseteq Pend(v)
  BY DEF Pend

\* Nobody has an event of the workflow.
LEMMA PendNone ==
  ASSUME NEW w, ~Queued(w), ~InHand(w)
  PROVE  Pend(w) = {}
  BY DEF Pend, Queued, InHand

LEMMA PathAppended ==
  ASSUME NEW w, NEW t \in Steps, NEW s \in [node : Nodes, next : Nodes \cup {None}],
         Path(w, t), LeadsTo(w, t, s.node)
  PROVE  LET u == Append(t, s)
         IN  /\ u \in Steps /\ u # <<>> /\ Len(u) = Len(t) + 1 /\ Len(t) \in Nat
             /\ Path(w, u) /\ LeadsTo(w, u, s.next)
<1> DEFINE u == Append(t, s)
<1>1. /\ u \in Steps /\ u # <<>> /\ Len(u) = Len(t) + 1 /\ Len(t) \in Nat /\ u[Len(t) + 1] = s
      /\ \A i \in 1..Len(t) : u[i] = t[i]
  BY DEF Steps
<1>2. t = <<>> <=> Len(t) = 0
  BY DEF Steps
<1> HIDE DEF u
<1>3. LeadsTo(w, u, s.next)
  BY <1>1 DEF LeadsTo
<1>4. u[1].node = Entry[w]
  <2>1. CASE t = <<>>
    BY <1>1, <1>2, <2>1 DEF LeadsTo
  <2>2. CASE t # <<>>
    BY <1>1, <1>2, <2>2 DEF Path
  <2> QED
    BY <2>1, <2>2
<1>5. ASSUME NEW i \in 1..(Len(u) - 1) PROVE u[i].next = u[i + 1].node
  <2>1. CASE i = Len(t)
    <3>1. t # <<>> /\ i \in 1..Len(t)
      BY <1>1, <1>2, <2>1
    <3> QED
      BY <1>1, <2>1, <3>1 DEF LeadsTo
  <2>2. CASE i # Len(t)
    <3>1. i \in 1..(Len(t) - 1) /\ i \in 1..Len(t) /\ i + 1 \in 1..Len(t)
      BY <1>1, <2>2
    <3> QED
      BY <1>1, <3>1 DEF Path
  <2> QED
    BY <2>1, <2>2
<1> QED
  BY <1>1, <1>3, <1>4, <1>5 DEF Path, u

\* A row whose retries are in their limit keeps the count in its bound.
LEMMA InBound ==
  ASSUME NEW r \in Rows, NEW c \in Nat, r.retries[r.node] <= MaxRetries, Tried(r, c, 1)
  PROVE  c <= Bound
<1>1. MaxRetries \in Nat /\ MaxRecoveries \in Nat
  BY WorkflowEngineAssumption
<1>2. r.recoveries \in Nat /\ r.recoveries <= MaxRecoveries /\ r.node \in Nodes
      /\ r.retries[r.node] \in Nat
  BY <1>1 DEF Rows
<1>3. \A m, a, b, x, y \in Nat :
        a <= b /\ x <= m /\ y <= (m + 1) * a + x + 1 => y <= (m + 1) * (b + 1)
  <2>1. ASSUME NEW m \in Nat, NEW a \in Nat, NEW b \in Nat, a <= b
        PROVE  (m + 1) * a + (m + 1) <= (m + 1) * (b + 1) /\ (m + 1) * a \in Nat
    BY <2>1
  <2> QED
    BY <2>1
<1> QED
  BY <1>1, <1>2, <1>3 DEF Tried, Bound

-----------------------------------------------------------------------------
(* One step.                                                               *)

\* A workflow that a step leaves alone.
LEMMA WayElsewhere ==
  ASSUME NEW v, Way(v), row'[v] = row[v], spawned'[v] = spawned[v], running'[v] = running[v],
         trail'[v] = trail[v], tries'[v] = tries[v], Pend(v)' \subseteq Pend(v)
  PROVE  Way(v)'
  BY DEF Way

\* The workflow of the step, with its new row r, trail t and count c.
LEMMA WayThere ==
  ASSUME NEW w, NEW r, NEW t, NEW c, row'[w] = r, trail'[w] = t, tries'[w] = c,
         Path(w, t), Len(t) <= MaxSteps, c <= Bound,
         spawned'[w] # <<>> \/ r.status \in {"PENDING", "PAUSED"} =>
           Stands(w, r, t) /\ Tried(r, c, 0),
         running'[w] # None =>
           Stands(w, r, t) /\ Tried(r, c, IF Kind[r.node] = "risky" THEN 0 ELSE 1),
         \A e \in Pend(w)' : EventSays(w, e, r, t, c),
         r.status = "SUCCESS" => t # <<>> /\ LeadsTo(w, t, None)
  PROVE  Way(w)'
  BY DEF Way

\* What is true of every workflow.
LEMMA WayFacts ==
  ASSUME Inv, Ways, NEW w \in Workflows
  PROVE  /\ row[w] \in Rows /\ trail[w] \in Steps /\ tries[w] \in Nat /\ Core(w) /\ Way(w)
         /\ Path(w, trail[w]) /\ Len(trail[w]) <= MaxSteps /\ tries[w] <= Bound
         /\ TypeOK
  BY DEF Inv, TypeOK, Ways, Way, Steps

LEMMA SameStand ==
  ASSUME NEW w, NEW t, NEW c, NEW k, NEW r, NEW q, q.node = r.node, q.steps = r.steps,
         q.retries = r.retries, q.recoveries = r.recoveries
  PROVE  /\ Stands(w, r, t) => Stands(w, q, t)
         /\ Tried(r, c, k) => Tried(q, c, k)
  BY DEF Stands, Tried

LEMMA BeginsWay ==
  ASSUME Inv, Ways, NEW w \in Workflows, Prepare(w) \/ StartWorkflow(w)
  PROVE  Ways'
<1> DEFINE q == [row[w] EXCEPT !.status = "RUNNING"]
           e == Event(w, "START", Entry[w], None)
<1>1. /\ row[w].status = "PENDING" /\ row' = [row EXCEPT ![w] = q] /\ UNCHANGED <<running, handled, history>>
      /\ \A v \in Workflows : v # w => spawned'[v] = spawned[v]
      /\ \/ events' = Append(events, e) /\ UNCHANGED spawned
         \/ events' = events
  BY DEF Prepare, StartWorkflow, Save, Spawn, Inv, TypeOK
<1>2. /\ row[w] \in Rows /\ Core(w) /\ Way(w) /\ Path(w, trail[w]) /\ Len(trail[w]) <= MaxSteps
      /\ tries[w] <= Bound /\ TypeOK
  BY WayFacts
<1>3. running[w] = None /\ ~Queued(w) /\ ~InHand(w) /\ spawned[w] = <<>> /\ Pend(w) = {}
  BY <1>1, <1>2, PendNone DEF Core, Where
<1>4. q \in Rows /\ q.status = "RUNNING" /\ q.node = row[w].node /\ q.steps = row[w].steps
      /\ q.retries = row[w].retries /\ q.recoveries = row[w].recoveries
  BY <1>2, RowStatus DEF Statuses
<1>5. e \in Events /\ e.wf = w /\ e.type = "START"
  BY WorkflowEngineAssumption DEF Event, Events
<1> HIDE DEF q, e
<1>6. \A v : Pend(v)' \subseteq Pend(v) \cup (IF v = w THEN {e} ELSE {})
  BY <1>1, <1>2, <1>5, PendAppend, PendSame DEF TypeOK
<1>7. Stands(w, row[w], trail[w]) /\ Tried(row[w], tries[w], 0)
  BY <1>1, <1>2 DEF Way
<1>8. Stands(w, q, trail[w]) /\ Tried(q, tries[w], 0)
  BY <1>4, <1>7, SameStand
<1>9. ASSUME NEW v \in Workflows, v # w PROVE Way(v)'
  BY <1>1, <1>2, <1>6, <1>9, WayFacts, WayElsewhere DEF TypeOK, history
<1>10. \A d \in Pend(w)' : EventSays(w, d, q, trail[w], tries[w])
  BY <1>3, <1>5, <1>6, <1>8 DEF EventSays
<1>11. row'[w] = q /\ trail'[w] = trail[w] /\ tries'[w] = tries[w] /\ running'[w] = None
  BY <1>1, <1>2, <1>3 DEF TypeOK, history
<1>12. Way(w)'
  BY <1>2, <1>4, <1>8, <1>10, <1>11, WayThere
<1> QED
  BY <1>9, <1>12 DEF Ways

LEMMA GiveUpWay ==
  ASSUME Inv, Ways, NEW w \in Workflows, GiveUp(w)
  PROVE  Ways'
<1> DEFINE q == [row[w] EXCEPT !.status = "FAILED"]
<1>1. row[w] \in Rows /\ Core(w) /\ Path(w, trail[w]) /\ Len(trail[w]) <= MaxSteps
      /\ tries[w] <= Bound /\ TypeOK
  BY WayFacts
<1>2. /\ Head(spawned[w]) = row[w] /\ spawned[w] # <<>> /\ spawned'[w] = <<>>
      /\ \A v \in Workflows \ {w} : spawned'[v] = spawned[v]
  BY <1>1, NoTask DEF GiveUp, Core, Takes
<1>3. row' = [row EXCEPT ![w] = q] /\ UNCHANGED <<running, events, handled, history>>
  BY <1>2 DEF GiveUp, Save
<1>4. running[w] = None /\ Pend(w) = {} /\ q.status = "FAILED"
  BY <1>1, <1>2, PendNone, RowStatus DEF Core, Solo, Statuses
<1> HIDE DEF q
<1>5. ASSUME NEW v \in Workflows, v # w PROVE Way(v)'
  BY <1>1, <1>2, <1>3, <1>5, PendSame, WayFacts, WayElsewhere DEF TypeOK, history
<1>6. row'[w] = q /\ trail'[w] = trail[w] /\ tries'[w] = tries[w] /\ running'[w] = None
      /\ Pend(w)' = {}
  BY <1>1, <1>3, <1>4, PendSame DEF TypeOK, history
<1>7. Way(w)'
  BY <1>1, <1>2, <1>4, <1>6, WayThere
<1> QED
  BY <1>5, <1>7 DEF Ways

LEMMA BeginWay ==
  ASSUME Inv, Ways, NEW w \in Workflows, Begin(w)
  PROVE  Ways'
<1>1. row[w] \in Rows /\ Core(w) /\ Way(w) /\ Path(w, trail[w]) /\ Len(trail[w]) <= MaxSteps
      /\ tries[w] <= Bound /\ tries[w] \in Nat /\ TypeOK
  BY WayFacts
<1>2. /\ Head(spawned[w]) = row[w] /\ spawned[w] # <<>> /\ spawned'[w] = <<>>
      /\ \A v \in Workflows \ {w} : spawned'[v] = spawned[v]
  BY <1>1, NoTask DEF Begin, Core, Takes
<1>3. /\ UNCHANGED <<row, events, handled, trail>> /\ running' = [running EXCEPT ![w] = row[w]]
      /\ tries' = [tries EXCEPT ![w] = IF Kind[row[w].node] = "risky" THEN tries[w] ELSE tries[w] + 1]
  BY <1>2 DEF Begin
<1>4. Pend(w) = {} /\ row[w].status = "RUNNING" /\ row[w].node \in Nodes
      /\ row[w].retries[row[w].node] <= MaxRetries
  BY <1>1, <1>2, PendNone DEF Core, Solo, Where, Limits, Final, Rows
<1>5. ASSUME NEW v \in Workflows, v # w PROVE Way(v)'
  BY <1>1, <1>2, <1>3, <1>5, PendSame, WayFacts, WayElsewhere DEF TypeOK
<1>6. Stands(w, row[w], trail[w]) /\ Tried(row[w], tries[w], 0)
  BY <1>1, <1>2 DEF Way
<1> DEFINE k == IF Kind[row[w].node] = "risky" THEN 0 ELSE 1
           c == tries[w] + k
<1>7. c \in Nat /\ Tried(row[w], c, k) /\ Tried(row[w], c, 1)
  <2>1. MaxRetries \in Nat /\ row[w].recoveries \in Nat /\ row[w].retries[row[w].node] \in Nat
    BY <1>1, <1>4, WorkflowEngineAssumption DEF Rows
  <2>2. (MaxRetries + 1) * row[w].recoveries \in Nat
    BY <2>1
  <2> QED
    BY <1>1, <1>6, <2>1, <2>2 DEF Tried
<1>8. c <= Bound
  BY <1>1, <1>4, <1>7, InBound
<1>9. tries'[w] = c /\ row'[w] = row[w] /\ trail'[w] = trail[w] /\ Pend(w)' = {}
  BY <1>1, <1>3, <1>4, PendSame DEF TypeOK
<1> HIDE DEF c
<1>10. Way(w)'
  BY <1>1, <1>2, <1>4, <1>6, <1>7, <1>8, <1>9, WayThere
<1> QED
  BY <1>5, <1>10 DEF Ways

LEMMA PauseWay ==
  ASSUME Inv, Ways, NEW w \in Workflows, PauseForHuman(w)
  PROVE  Ways'
<1> DEFINE q == [row[w] EXCEPT !.status = "PAUSED"]
<1>1. row[w] \in Rows /\ Core(w) /\ Way(w) /\ Path(w, trail[w]) /\ Len(trail[w]) <= MaxSteps
      /\ tries[w] <= Bound /\ TypeOK
  BY WayFacts
<1>2. Ends(w) /\ Kind[running[w].node] = "risky"
  BY DEF PauseForHuman
<1>3. /\ running[w] = row[w] /\ running[w] # None /\ running'[w] = None
      /\ \A v \in Workflows \ {w} : running'[v] = running[v]
      /\ Pend(w) = {} /\ spawned[w] = <<>>
  BY <1>1, <1>2, BodyEnds, PendNone
<1>4. row' = [row EXCEPT ![w] = q] /\ UNCHANGED <<spawned, events, handled, history>>
  BY <1>3 DEF PauseForHuman, Save
<1>5. q.status = "PAUSED" /\ q.node = row[w].node /\ q.steps = row[w].steps
      /\ q.retries = row[w].retries /\ q.recoveries = row[w].recoveries
  BY <1>1, RowStatus DEF Statuses
<1> HIDE DEF q
<1>6. ASSUME NEW v \in Workflows, v # w PROVE Way(v)'
  BY <1>1, <1>3, <1>4, <1>6, PendSame, WayFacts, WayElsewhere DEF TypeOK, history
<1>7. Stands(w, q, trail[w]) /\ Tried(q, tries[w], 0)
  BY <1>1, <1>2, <1>3, <1>5, SameStand DEF Way
<1>8. row'[w] = q /\ trail'[w] = trail[w] /\ tries'[w] = tries[w] /\ Pend(w)' = {}
  BY <1>1, <1>3, <1>4, PendSame DEF TypeOK, history
<1>9. Way(w)'
  BY <1>1, <1>3, <1>5, <1>7, <1>8, WayThere
<1> QED
  BY <1>6, <1>9 DEF Ways

LEMMA SucceedWay ==
  ASSUME Inv, Ways, NEW w \in Workflows, NEW jump \in Nodes \cup {None}, NEW copy \in Rows,
         Succeed(w, jump, copy), row' = [row EXCEPT ![w] = copy],
         copy.status = row[w].status, copy.node = row[w].node, copy.steps = row[w].steps
  PROVE  Ways'
<1> DEFINE n == row[w].node
           e == Event(w, "COMPLETE", n, jump)
           s == [node |-> n, next |-> Onward(copy, n, jump)]
           t == Append(trail[w], s)
<1>1. row[w] \in Rows /\ Core(w) /\ Way(w) /\ Path(w, trail[w]) /\ trail[w] \in Steps
      /\ tries[w] <= Bound /\ TypeOK
  BY WayFacts
<1>2. Ends(w)
  BY DEF Succeed
<1>3. /\ running[w] = row[w] /\ running[w] # None /\ running'[w] = None
      /\ \A v \in Workflows \ {w} : running'[v] = running[v]
      /\ Pend(w) = {} /\ spawned[w] = <<>> /\ n \in Nodes
      /\ row[w].status = "RUNNING" /\ row[w].steps < MaxSteps
  BY <1>1, <1>2, BodyEnds, PendNone
<1>4. e \in Events /\ e.wf = w /\ e.type = "COMPLETE" /\ e.node = n /\ e.jump = jump
  BY <1>3 DEF Event, Events
<1>5. s \in [node : Nodes, next : Nodes \cup {None}] /\ s.node = n /\ s.next = Onward(copy, n, jump)
  BY <1>3 DEF Onward, Rows
<1>6. /\ events' = Append(events, e) /\ UNCHANGED <<spawned, handled, tries>>
      /\ trail' = [trail EXCEPT ![w] = t]
  BY <1>3 DEF Succeed
<1> HIDE DEF e, s
<1>7. LeadsTo(w, trail[w], n) /\ Len(trail[w]) <= row[w].steps
  BY <1>1, <1>3 DEF Way, Stands
<1>8. /\ t # <<>> /\ Len(t) = Len(trail[w]) + 1 /\ Len(trail[w]) \in Nat
      /\ Path(w, t) /\ LeadsTo(w, t, Onward(copy, n, jump))
  BY <1>1, <1>5, <1>7, PathAppended
<1> HIDE DEF t
<1>9. Len(t) <= copy.steps + 1 /\ Len(t) <= MaxSteps
  <2>1. row[w].steps \in Nat /\ MaxSteps \in Nat
    BY <1>1, WorkflowEngineAssumption DEF Rows
  <2>2. \A a, b, m \in Nat : a <= b /\ b < m => a + 1 <= b + 1 /\ a + 1 <= m
    OBVIOUS
  <2> QED
    BY <1>3, <1>7, <1>8, <2>1, <2>2
<1>10. \A v : Pend(v)' \subseteq Pend(v) \cup (IF v = w THEN {e} ELSE {})
  BY <1>1, <1>4, <1>6, PendAppend DEF TypeOK
<1>11. ASSUME NEW v \in Workflows, v # w PROVE Way(v)'
  BY <1>1, <1>3, <1>6, <1>10, <1>11, WayFacts, WayElsewhere DEF TypeOK
<1>12. \A d \in Pend(w)' : EventSays(w, d, copy, t, tries[w])
  BY <1>3, <1>4, <1>8, <1>9, <1>10 DEF EventSays
<1>13. row'[w] = copy /\ trail'[w] = t /\ tries'[w] = tries[w]
  BY <1>1, <1>6 DEF TypeOK
<1>14. Way(w)'
  BY <1>1, <1>3, <1>6, <1>8, <1>9, <1>12, <1>13, WayThere
<1> QED
  BY <1>11, <1>14 DEF Ways

LEMMA RunWay ==
  ASSUME Inv, Ways, NEW w \in Workflows, RunCondition(w) \/ RunNode(w) \/ RunFails(w)
  PROVE  Ways'
<1>1. row[w] \in Rows /\ Core(w) /\ Way(w) /\ Path(w, trail[w]) /\ Len(trail[w]) <= MaxSteps
      /\ tries[w] <= Bound /\ TypeOK
  BY WayFacts
<1>2. Ends(w)
  BY DEF RunCondition, RunNode, RunFails, Succeed
<1>3. /\ running[w] = row[w] /\ running[w] # None /\ running'[w] = None
      /\ \A v \in Workflows \ {w} : running'[v] = running[v]
      /\ Pend(w) = {} /\ spawned[w] = <<>> /\ row[w].node \in Nodes /\ row[w].status = "RUNNING"
  BY <1>1, <1>2, BodyEnds, PendNone
<1>4. CASE RunCondition(w)
  <2>1. PICK b \in Branches[row[w].node] : Succeed(w, None, [row[w] EXCEPT !.edge[row[w].node] = b])
    BY <1>3, <1>4 DEF RunCondition
  <2>2. b \in Nodes \cup {None} /\ Kind[row[w].node] = "condition"
    BY <1>3, <1>4, WorkflowEngineAssumption DEF RunCondition
  <2> DEFINE q == [row[w] EXCEPT !.edge[row[w].node] = b]
  <2>3. q \in Rows /\ q.status = row[w].status /\ q.node = row[w].node /\ q.steps = row[w].steps
    BY <1>1, <1>3, <2>2, RowEdge
  <2>4. Succeed(w, None, q)
    BY <2>1
  <2> HIDE DEF q
  <2>5. row' \in {row, [row EXCEPT ![w] = q]} /\ row'[w] = q
    BY <1>3, <2>2, <2>4 DEF Succeed
  <2>6. row' = [row EXCEPT ![w] = q]
    BY <1>1, <2>5 DEF TypeOK
  <2> QED
    BY <2>3, <2>4, <2>6, SucceedWay
<1>5. CASE RunNode(w)
  <2>1. PICK jump \in Jumps[row[w].node] \cup {None} : Succeed(w, jump, row[w])
    BY <1>3, <1>5 DEF RunNode
  <2>2. jump \in Nodes \cup {None}
    BY <1>3, WorkflowEngineAssumption
  <2>3. row' = [row EXCEPT ![w] = row[w]]
    BY <1>1, <2>1 DEF Succeed, TypeOK
  <2> QED
    BY <1>1, <2>1, <2>2, <2>3, SucceedWay
<1>6. CASE RunFails(w)
  <2>1. PICK type \in {"TRANSIENT", "FATAL"} :
          events' = Append(events, Event(w, type, row[w].node, None))
    BY <1>3, <1>6 DEF RunFails
  <2> DEFINE e == Event(w, type, row[w].node, None)
  <2>2. Kind[row[w].node] = "work" /\ UNCHANGED <<row, spawned, handled, history>>
    BY <1>3, <1>6 DEF RunFails
  <2>3. e \in Events /\ e.wf = w /\ e.type \in {"TRANSIENT", "FATAL"} /\ e.node = row[w].node
    BY <1>3 DEF Event, Events
  <2>4. events' = Append(events, e)
    BY <2>1
  <2> HIDE DEF e
  <2>5. \A v : Pend(v)' \subseteq Pend(v) \cup (IF v = w THEN {e} ELSE {})
    BY <1>1, <2>2, <2>3, <2>4, PendAppend DEF TypeOK
  <2>6. ASSUME NEW v \in Workflows, v # w PROVE Way(v)'
    BY <1>1, <1>3, <2>2, <2>5, <2>6, WayFacts, WayElsewhere DEF TypeOK, history
  <2>7. Stands(w, row[w], trail[w]) /\ Tried(row[w], tries[w], 1)
    BY <1>1, <1>3, <2>2 DEF Way
  <2>8. \A d \in Pend(w)' : EventSays(w, d, row[w], trail[w], tries[w])
    BY <1>3, <2>3, <2>5, <2>7 DEF EventSays
  <2>9. row'[w] = row[w] /\ trail'[w] = trail[w] /\ tries'[w] = tries[w] /\ spawned'[w] = <<>>
    BY <1>3, <2>2 DEF history
  <2>10. Way(w)'
    BY <1>1, <1>3, <2>8, <2>9, WayThere
  <2> QED
    BY <2>6, <2>10 DEF Ways
<1> QED
  BY <1>4, <1>5, <1>6

LEMMA LoadWay ==
  ASSUME Inv, Ways, Load \/ \E w \in Workflows, b \in {"resume", "cancel"} : Ask(w) \/ Press(w, b)
  PROVE  Ways'
<1>1. UNCHANGED <<row, spawned, running, trail, tries>>
  BY DEF Load, Ask, Press, history
<1>2. \A v : Pend(v)' = Pend(v)
  BY PendLoad, PendSame DEF Inv, Ask, Press
<1> QED
  BY <1>1, <1>2, WayElsewhere DEF Ways

\* The listener is done with its event, and the workflow goes on ...
LEMMA SpawnsWay ==
  ASSUME Inv, Ways, handled # None, handled' = None, NEW w \in Workflows, w = handled.event.wf,
         NEW q \in Rows, q.status = "RUNNING", NEW c,
         row' = [row EXCEPT ![w] = q], spawned' = [spawned EXCEPT ![w] = Append(@, q)],
         tries' = [tries EXCEPT ![w] = c], UNCHANGED <<running, events, trail>>,
         Stands(w, q, trail[w]), Tried(q, c, 0), c <= Bound
  PROVE  Ways'
<1>1. Core(w) /\ Path(w, trail[w]) /\ Len(trail[w]) <= MaxSteps /\ TypeOK
  BY WayFacts
<1>2. running[w] = None /\ ~Queued(w)
  BY ListenerHas
<1>3. Pend(w)' = {} /\ \A v : Pend(v)' \subseteq Pend(v)
  <2>1. Pend(w)' = {}
    BY <1>2 DEF Pend, Queued
  <2> QED
    BY <2>1, PendLess
<1>4. ASSUME NEW v \in Workflows, v # w PROVE Way(v)'
  <2>1. row'[v] = row[v] /\ spawned'[v] = spawned[v] /\ tries'[v] = tries[v] /\ Way(v)
    BY <1>1, <1>4, WayFacts DEF TypeOK
  <2> QED
    BY <1>3, <2>1, WayElsewhere
<1>5. row'[w] = q /\ tries'[w] = c
  BY <1>1 DEF TypeOK
<1>6. Way(w)'
  BY <1>1, <1>2, <1>3, <1>5, WayThere
<1> QED
  BY <1>4, <1>6 DEF Ways

\* ... or ends.
LEMMA EndsWay ==
  ASSUME Inv, Ways, handled # None, handled' = None, NEW w \in Workflows, w = handled.event.wf,
         NEW q \in Rows, q.status \in {"SUCCESS", "FAILED"},
         row' = [row EXCEPT ![w] = q], UNCHANGED <<spawned, running, events, trail, tries>>,
         q.status = "SUCCESS" => trail[w] # <<>> /\ LeadsTo(w, trail[w], None)
  PROVE  Ways'
<1>1. Core(w) /\ Path(w, trail[w]) /\ Len(trail[w]) <= MaxSteps /\ tries[w] <= Bound /\ TypeOK
  BY WayFacts
<1>2. running[w] = None /\ ~Queued(w) /\ spawned[w] = <<>>
  BY ListenerHas
<1>3. Pend(w)' = {} /\ \A v : Pend(v)' \subseteq Pend(v)
  <2>1. Pend(w)' = {}
    BY <1>2 DEF Pend, Queued
  <2> QED
    BY <2>1, PendLess
<1>4. ASSUME NEW v \in Workflows, v # w PROVE Way(v)'
  <2>1. row'[v] = row[v] /\ Way(v)
    BY <1>1, <1>4, WayFacts DEF TypeOK
  <2> QED
    BY <1>3, <2>1, WayElsewhere
<1>5. row'[w] = q
  BY <1>1 DEF TypeOK
<1>6. Way(w)'
  BY <1>1, <1>2, <1>3, <1>5, WayThere
<1> QED
  BY <1>4, <1>6 DEF Ways

LEMMA HandleWay ==
  ASSUME Inv, Ways, Handle
  PROVE  Ways'
<1>1. handled # None /\ handled' = None
  BY DEF Handle, Handles, Started, RouteOn, RouteEnd, Retry, Recover, Fail
<1> DEFINE e == handled.event
<1>2. PICK w \in Workflows : w = e.wf
  BY <1>1, ListenerHas
<1>3. /\ handled.copy = row[w] /\ row[w] \in Rows /\ row[w].status = "RUNNING"
      /\ row[w].steps < MaxSteps /\ \A m \in Nodes : row[w].retries[m] <= MaxRetries
      /\ e.node \in Nodes /\ e.jump \in Nodes \cup {None}
  BY <1>1, <1>2, ListenerHas
<1>4. /\ Way(w) /\ trail[w] \in Steps /\ tries[w] \in Nat /\ tries[w] <= Bound
      /\ Len(trail[w]) <= MaxSteps /\ TypeOK
  BY WayFacts
<1>5. EventSays(w, e, row[w], trail[w], tries[w])
  <2>1. e \in Events
    BY <1>1, <1>4 DEF TypeOK
  <2>2. e \in Pend(w)
    BY <1>1, <1>2, <2>1 DEF Pend
  <2> QED
    BY <1>4, <2>2 DEF Way
<1>6. row[w].node \in Nodes /\ row[w].steps \in Nat /\ row[w].recoveries \in Nat
      /\ row[w].retries \in [Nodes -> 0..MaxRetries + 1]
      /\ MaxSteps \in Nat /\ MaxRetries \in Nat /\ MaxRecoveries \in Nat
  BY <1>3, WorkflowEngineAssumption DEF Rows
<1> HIDE DEF e
<1>7. CASE Started
  <2> DEFINE q == [row[w] EXCEPT !.status = "RUNNING"]
  <2>1. /\ row' = [row EXCEPT ![w] = q] /\ spawned' = [spawned EXCEPT ![w] = Append(@, row'[w])]
        /\ UNCHANGED <<running, events, trail, tries>> /\ e.type = "START"
    BY <1>2, <1>3, <1>7 DEF Started, Save, Spawn, Handles, history, e
  <2>2. q \in Rows /\ q.status = "RUNNING" /\ q.node = row[w].node /\ q.steps = row[w].steps
        /\ q.retries = row[w].retries /\ q.recoveries = row[w].recoveries
    BY <1>3, RowStatus DEF Statuses
  <2> HIDE DEF q
  <2>3. Stands(w, q, trail[w]) /\ Tried(q, tries[w], 0)
    BY <1>5, <2>1, <2>2, SameStand DEF EventSays
  <2>4. row'[w] = q /\ tries' = [tries EXCEPT ![w] = tries[w]]
    BY <1>4, <2>1 DEF TypeOK
  <2> QED
    BY <1>1, <1>2, <1>4, <2>1, <2>2, <2>3, <2>4, SpawnsWay DEF e
<1>8. CASE RouteOn
  <2> DEFINE m == Onward(row[w], e.node, e.jump)
             q == [row[w] EXCEPT !.node = m, !.steps = @ + 1]
  <2>1. /\ row' = [row EXCEPT ![w] = q] /\ spawned' = [spawned EXCEPT ![w] = Append(@, q)]
        /\ UNCHANGED <<running, events, trail>> /\ e.type = "COMPLETE"
        /\ tries' = [tries EXCEPT ![w] = 0] /\ m # None
    BY <1>2, <1>3, <1>8 DEF RouteOn, RouteTarget, SaveAndSpawn, Save, Spawn, Handles, e
  <2>2. m \in Nodes
    BY <1>3, <2>1 DEF Onward, Rows
  <2> HIDE DEF m
  <2>3. q \in Rows /\ q.status = "RUNNING" /\ q.node = m /\ q.steps = row[w].steps + 1
    BY <1>3, <1>6, <2>2, RowStep
  <2> HIDE DEF q
  <2>4. Stands(w, q, trail[w])
    BY <1>5, <2>1, <2>3 DEF EventSays, Stands, m
  <2>5. Tried(q, 0, 0) /\ 0 <= Bound
    <3>1. q.recoveries \in Nat /\ q.retries[q.node] \in Nat
      BY <1>6, <2>2, <2>3 DEF Rows
    <3>2. \A a \in Nat, b \in Nat : (a + 1) * b \in Nat /\ (a + 1) * (b + 1) \in Nat
      OBVIOUS
    <3>3. (MaxRetries + 1) * q.recoveries \in Nat /\ (MaxRetries + 1) * (MaxRecoveries + 1) \in Nat
      BY <1>6, <3>1, <3>2
    <3> QED
      BY <3>1, <3>3 DEF Tried, Bound
  <2> QED
    BY <1>1, <1>2, <2>1, <2>3, <2>4, <2>5, SpawnsWay DEF e
<1>9. CASE RouteEnd
  <2> DEFINE q == [row[w] EXCEPT !.status = "SUCCESS"]
  <2>1. /\ row' = [row EXCEPT ![w] = q] /\ UNCHANGED <<spawned, running, events, trail, tries>>
        /\ e.type = "COMPLETE" /\ Onward(row[w], e.node, e.jump) = None
    BY <1>2, <1>3, <1>9 DEF RouteEnd, RouteTarget, Save, Handles, history, e
  <2>2. q \in Rows /\ q.status = "SUCCESS"
    BY <1>3, RowStatus DEF Statuses
  <2> HIDE DEF q
  <2>3. trail[w] # <<>> /\ LeadsTo(w, trail[w], None)
    BY <1>5, <2>1 DEF EventSays
  <2> QED
    BY <1>1, <1>2, <2>1, <2>2, <2>3, EndsWay DEF e
<1>10. CASE Retry
  <2> DEFINE q == [row[w] EXCEPT !.retries[e.node] = @ + 1]
  <2>1. /\ row' = [row EXCEPT ![w] = q] /\ spawned' = [spawned EXCEPT ![w] = Append(@, q)]
        /\ UNCHANGED <<running, events, trail, tries>> /\ e.type = "TRANSIENT"
        /\ row[w].retries[e.node] < MaxRetries
    BY <1>2, <1>3, <1>10 DEF Retry, SaveAndSpawn, Save, Spawn, Handles, RetriesLeft, history, e
  <2>2. /\ q \in Rows /\ q.status = "RUNNING" /\ q.node = row[w].node /\ q.steps = row[w].steps
        /\ q.recoveries = row[w].recoveries /\ q.retries[e.node] = row[w].retries[e.node] + 1
    BY <1>3, <1>6, <2>1, RowRetry
  <2> HIDE DEF q
  <2>3. Stands(w, row[w], trail[w]) /\ Tried(row[w], tries[w], 1) /\ e.node = row[w].node
    BY <1>5, <2>1 DEF EventSays
  <2>4. Stands(w, q, trail[w])
    BY <2>2, <2>3 DEF Stands
  <2>5. Tried(q, tries[w], 0)
    <3>1. \A a, b \in Nat : (a + 1) * b \in Nat
      OBVIOUS
    <3>2. (MaxRetries + 1) * row[w].recoveries \in Nat /\ row[w].retries[row[w].node] \in Nat
      BY <1>6, <3>1
    <3>3. \A a, b, c \in Nat : c <= a + b + 1 => c <= a + (b + 1) + 0
      OBVIOUS
    <3> QED
      BY <1>4, <2>2, <2>3, <3>2, <3>3 DEF Tried
  <2>6. tries' = [tries EXCEPT ![w] = tries[w]]
    BY <1>4, <2>1 DEF TypeOK
  <2> QED
    BY <1>1, <1>2, <1>4, <2>1, <2>2, <2>4, <2>5, <2>6, SpawnsWay DEF e
<1>11. CASE Recover
  <2> DEFINE q == [row[w] EXCEPT !.recoveries = @ + 1, !.retries[e.node] = 0, !.status = "RUNNING"]
  <2>1. /\ row' = [row EXCEPT ![w] = q] /\ spawned' = [spawned EXCEPT ![w] = Append(@, q)]
        /\ UNCHANGED <<running, events, trail, tries>> /\ e.type = "FATAL"
        /\ row[w].recoveries < MaxRecoveries
    BY <1>2, <1>3, <1>11 DEF Recover, SaveAndSpawn, Save, Spawn, Handles, history, e
  <2>2. /\ q \in Rows /\ q.status = "RUNNING" /\ q.node = row[w].node /\ q.steps = row[w].steps
        /\ q.recoveries = row[w].recoveries + 1 /\ q.retries[e.node] = 0
    BY <1>3, <1>6, <2>1, RowRecover
  <2> HIDE DEF q
  <2>3. Stands(w, row[w], trail[w]) /\ Tried(row[w], tries[w], 1) /\ e.node = row[w].node
    BY <1>5, <2>1 DEF EventSays
  <2>4. Stands(w, q, trail[w])
    BY <2>2, <2>3 DEF Stands
  <2>5. Tried(q, tries[w], 0)
    <3>1. \A m, a, x, y \in Nat :
            x <= m /\ y <= (m + 1) * a + x + 1 => y <= (m + 1) * (a + 1) + 0 + 0
      <4>1. \A m, a \in Nat : (m + 1) * a \in Nat /\ (m + 1) * (a + 1) = (m + 1) * a + (m + 1)
        OBVIOUS
      <4> QED
        BY <4>1
    <3>2. row[w].retries[row[w].node] \in Nat /\ row[w].retries[row[w].node] <= MaxRetries
      BY <1>3, <1>6
    <3> QED
      BY <1>4, <1>6, <2>2, <2>3, <3>1, <3>2 DEF Tried
  <2>6. tries' = [tries EXCEPT ![w] = tries[w]]
    BY <1>4, <2>1 DEF TypeOK
  <2> QED
    BY <1>1, <1>2, <1>4, <2>1, <2>2, <2>4, <2>5, <2>6, SpawnsWay DEF e
<1>12. CASE Fail
  <2>1. UNCHANGED <<spawned, running, events, trail, tries>>
    BY <1>12 DEF Fail, history
  <2>2. PICK q \in Rows : q.status = "FAILED" /\ row' = [row EXCEPT ![w] = q]
    <3>1. [row[w] EXCEPT !.status = "FAILED", !.retries[e.node] = @ + 1] \in Rows
          /\ [row[w] EXCEPT !.status = "FAILED", !.retries[e.node] = @ + 1].status = "FAILED"
      BY <1>3, <1>6, RowGiveUp
    <3>2. [row[w] EXCEPT !.status = "FAILED"] \in Rows
          /\ [row[w] EXCEPT !.status = "FAILED"].status = "FAILED"
      BY <1>3, RowStatus DEF Statuses
    <3>3. \/ row' = [row EXCEPT ![w] = [row[w] EXCEPT !.status = "FAILED", !.retries[e.node] = @ + 1]]
          \/ row' = [row EXCEPT ![w] = [row[w] EXCEPT !.status = "FAILED"]]
      BY <1>2, <1>3, <1>12 DEF Fail, Save, e
    <3> QED
      BY <3>1, <3>2, <3>3
  <2> QED
    BY <1>1, <1>2, <2>1, <2>2, EndsWay DEF e
<1> QED
  BY <1>7, <1>8, <1>9, <1>10, <1>11, <1>12 DEF Handle

LEMMA ActWay ==
  ASSUME Inv, Ways, NEW w \in Workflows, Act(w)
  PROVE  Ways'
<1>1. /\ row[w] \in Rows /\ Core(w) /\ Way(w) /\ Path(w, trail[w]) /\ Len(trail[w]) <= MaxSteps
      /\ tries[w] <= Bound /\ TypeOK
  BY WayFacts
<1>2. PICK b \in {"resume", "cancel"} : Answers(w, b)
  BY DEF Act, Resume, Cancel
<1>3. /\ answer[w].copy = row[w] /\ row[w].status = "PAUSED"
      /\ spawned[w] = <<>> /\ running[w] = None /\ ~Queued(w) /\ ~InHand(w)
      /\ UNCHANGED <<running, events, handled, trail, tries>>
  BY <1>1, <1>2, AnswerHas
<1>4. Pend(w) = {} /\ \A v : Pend(v)' = Pend(v)
  BY <1>3, PendNone, PendSame
<1>5. PICK s \in {"RUNNING", "CANCELLED"} :
        /\ row' = [row EXCEPT ![w] = [row[w] EXCEPT !.status = s]]
        /\ \/ s = "CANCELLED" /\ UNCHANGED spawned
           \/ s = "RUNNING" /\ \A v \in Workflows : v # w => spawned'[v] = spawned[v]
  BY <1>1, <1>3 DEF Act, Resume, Cancel, SaveAndSpawn, Save, Spawn, TypeOK
<1> DEFINE q == [row[w] EXCEPT !.status = s]
<1>6. q.status = s /\ q.node = row[w].node /\ q.steps = row[w].steps
      /\ q.retries = row[w].retries /\ q.recoveries = row[w].recoveries
  BY <1>1, RowStatus DEF Statuses
<1> HIDE DEF q
<1>7. row' = [row EXCEPT ![w] = q]
  BY <1>5 DEF q
<1>8. Stands(w, q, trail[w]) /\ Tried(q, tries[w], 0)
  BY <1>1, <1>3, <1>6, SameStand DEF Way
<1>9. ASSUME NEW v \in Workflows, v # w PROVE Way(v)'
  BY <1>1, <1>3, <1>4, <1>5, <1>7, <1>9, WayFacts, WayElsewhere DEF TypeOK
<1>10. row'[w] = q /\ trail'[w] = trail[w] /\ tries'[w] = tries[w] /\ running'[w] = None
       /\ Pend(w)' = {}
  BY <1>1, <1>3, <1>4, <1>7 DEF TypeOK
<1>11. Way(w)'
  BY <1>1, <1>6, <1>8, <1>10, WayThere
<1> QED
  BY <1>9, <1>11 DEF Ways

LEMMA InitWays == Init => Ways
<1> SUFFICES ASSUME Init, NEW w \in Workflows PROVE Way(w)
  BY DEF Ways
<1>1. /\ row[w] = Fresh(w) /\ trail[w] = <<>> /\ tries[w] = 0 /\ spawned[w] = <<>>
      /\ running[w] = None /\ events = <<>> /\ handled = None
  BY DEF Init
<1>2. Pend(w) = {}
  BY <1>1 DEF Pend
<1>3. /\ Fresh(w).status = "PENDING" /\ Fresh(w).node = Entry[w] /\ Fresh(w).steps = 0
      /\ Fresh(w).recoveries = 0 /\ Fresh(w).retries[Entry[w]] = 0
  BY WorkflowEngineAssumption DEF Fresh
<1>4. MaxRetries \in Nat /\ MaxRecoveries \in Nat /\ MaxSteps \in Nat
  BY WorkflowEngineAssumption
<1>5. 0 <= Bound
  <2>1. \A a, b \in Nat : 0 <= (a + 1) * (b + 1)
    OBVIOUS
  <2> QED
    BY <1>4, <2>1 DEF Bound
<1>6. Stands(w, row[w], trail[w]) /\ Tried(row[w], tries[w], 0)
  BY <1>1, <1>3, <1>4 DEF Stands, LeadsTo, Tried
<1>7. Path(w, trail[w]) /\ Len(trail[w]) <= MaxSteps
  BY <1>1, <1>4 DEF Path
<1> QED
  BY <1>1, <1>2, <1>3, <1>5, <1>6, <1>7 DEF Way

LEMMA WaysInvariant == Spec => []Ways
<1>1. Inv /\ Ways /\ [Next]_vars => Ways'
  <2> SUFFICES ASSUME Inv, Ways, [Next]_vars PROVE Ways'
    OBVIOUS
  <2>1. CASE UNCHANGED vars
    <3>1. \A v : Pend(v)' \subseteq Pend(v)
      BY <2>1, PendSame DEF vars
    <3> QED
      BY <2>1, <3>1, WayElsewhere DEF Ways, vars, history
  <2>2. ASSUME NEW w \in Workflows, Execute(w) PROVE Ways'
    BY <2>2, GiveUpWay, BeginWay, PauseWay, RunWay DEF Execute
  <2>3. CASE Listen
    BY <2>3, LoadWay, HandleWay DEF Listen
  <2>4. ASSUME NEW w \in Workflows, Ask(w) \/ \E b \in {"resume", "cancel"} : Press(w, b)
        PROVE  Ways'
    BY <2>4, LoadWay
  <2> QED
    BY <2>1, <2>2, <2>3, <2>4, BeginsWay, ActWay DEF Next
<1> QED
  BY <1>1, InitWays, EngineInvariant, PTL DEF Spec

\* The nodes completed are a way through the graph from its entry, no longer
\* than MaxSteps, and a SUCCESS is the end of the way.
THEOREM EngineTrailIsAPath == Spec => []TrailIsAPath
<1>1. ASSUME Inv, Ways PROVE TrailIsAPath
  <2> SUFFICES ASSUME NEW w \in Workflows
               PROVE  /\ Path(w, trail[w]) /\ Len(trail[w]) <= MaxSteps
                      /\ row[w].status = "SUCCESS" =>
                           trail[w] # <<>> /\ trail[w][Len(trail[w])].next = None
    BY DEF TrailIsAPath, Path
  <2> QED
    BY <1>1 DEF Ways, Way, LeadsTo
<1> QED
  BY <1>1, EngineInvariant, WaysInvariant, PTL

\* Between two routes a node is run at most as often as its retries, begun
\* again with each recovery, allow.
THEOREM EngineTriesAreBounded == Spec => []BoundedTries
<1>1. Ways => BoundedTries
  BY DEF Ways, Way, Bound, BoundedTries
<1> QED
  BY <1>1, WaysInvariant, PTL

-----------------------------------------------------------------------------
(* The engine implements GraphRun.  Where the workflow stands is what the  *)
(* trail says; that it goes on along an edge of its graph needs the edges  *)
(* on file to be the composed ones, but for those of conditions.           *)

EdgesKept ==
  \A w \in Workflows : \A n \in Nodes : Kind[n] # "condition" => row[w].edge[n] = Edge[n]

\* A step is one of GraphRun's or leaves all it has as it was.
Mapped == EdgesKept' /\ (Runs!Next \/ UNCHANGED Runs!vars)

SameEdges(r, q) == \A n \in Nodes : Kind[n] # "condition" => q.edge[n] = r.edge[n]

\* A row is saved.
LEMMA Saves ==
  ASSUME TypeOK, EdgesKept, NEW w \in Workflows, NEW q \in Rows, row' = [row EXCEPT ![w] = q],
         SameEdges(row[w], q)
  PROVE  /\ EdgesKept'
         /\ Runs!Turn(w, row[w].status, q.status)
         /\ q.status = row[w].status =>
              [v \in Workflows |-> row[v].status]' = [v \in Workflows |-> row[v].status]
<1>1. row'[w] = q /\ \A v \in Workflows \ {w} : row'[v] = row[v]
  BY DEF TypeOK
<1>2. EdgesKept'
  BY <1>1 DEF EdgesKept, SameEdges
<1>3. Runs!Turn(w, row[w].status, q.status)
  <2>1. \A v \in Workflows : row'[v].status = IF v = w THEN q.status ELSE row[v].status
    BY <1>1
  <2>2. [v \in Workflows |-> row[v].status]'
          = [[v \in Workflows |-> row[v].status] EXCEPT ![w] = q.status]
    BY <2>1
  <2>3. [v \in Workflows |-> row[v].status][w] = row[w].status
    OBVIOUS
  <2> QED
    BY <2>2, <2>3 DEF Runs!Turn
<1>4. q.status = row[w].status =>
        [v \in Workflows |-> row[v].status]' = [v \in Workflows |-> row[v].status]
  BY <1>1
<1> QED
  BY <1>2, <1>3, <1>4

\* A row is saved with its status, and nothing else a caller or the trail knows.
LEMMA SavesQuietly ==
  ASSUME TypeOK, EdgesKept, NEW w \in Workflows, NEW q \in Rows, row' = [row EXCEPT ![w] = q],
         SameEdges(row[w], q), q.status = row[w].status, UNCHANGED <<trail, future>>
  PROVE  Mapped
  BY Saves DEF Mapped, Runs!vars

LEMMA LeavesRows ==
  ASSUME EdgesKept, UNCHANGED <<row, trail, future>>
  PROVE  Mapped
  BY DEF Mapped, EdgesKept, Runs!vars

\* Where the workflow stands.
LEMMA HereIs ==
  ASSUME NEW w, NEW n
  PROVE  LeadsTo(w, trail[w], n) => Runs!Here(w) = n
  BY DEF LeadsTo, Runs!Here

LEMMA BeginsMapped ==
  ASSUME Inv, EdgesKept, NEW w \in Workflows, Prepare(w) \/ StartWorkflow(w)
  PROVE  Mapped
<1> DEFINE q == [row[w] EXCEPT !.status = "RUNNING"]
<1>1. TypeOK /\ row[w] \in Rows /\ row[w].status = "PENDING"
  BY DEF Inv, TypeOK, Prepare, StartWorkflow
<1>2. row' = [row EXCEPT ![w] = q] /\ UNCHANGED trail
      /\ future' \in {future, [future EXCEPT ![w] = "pending"]}
  BY DEF Prepare, StartWorkflow, Save, history
<1>3. q \in Rows /\ q.status = "RUNNING" /\ SameEdges(row[w], q)
  BY <1>1, RowStatus DEF Statuses, SameEdges
<1> HIDE DEF q
<1>4. EdgesKept' /\ Runs!Turn(w, "PENDING", "RUNNING")
  BY <1>1, <1>2, <1>3, Saves
<1>5. Runs!Begin(w)
  BY <1>2, <1>4 DEF Runs!Begin
<1> QED
  BY <1>4, <1>5 DEF Mapped, Runs!Next

\* A workflow that stands before a node fails.
LEMMA FailsMapped ==
  ASSUME Inv, EdgesKept, NEW w \in Workflows, NEW q \in Rows, row' = [row EXCEPT ![w] = q],
         SameEdges(row[w], q), row[w].status = "RUNNING", q.status = "FAILED",
         Stands(w, row[w], trail[w]), Complete(w, "error"), UNCHANGED trail
  PROVE  Mapped
<1>1. TypeOK /\ row[w].node \in Nodes
  BY DEF Inv, TypeOK, Rows
<1>2. EdgesKept' /\ Runs!Turn(w, "RUNNING", "FAILED")
  BY <1>1, Saves
<1>3. Runs!Here(w) # None
  BY <1>1, HereIs, WorkflowEngineAssumption DEF Stands
<1>4. Runs!Fail(w)
  BY <1>2, <1>3 DEF Runs!Fail, Runs!Tell, Complete
<1> QED
  BY <1>2, <1>4 DEF Mapped, Runs!Next

LEMMA GiveUpMapped ==
  ASSUME Inv, Ways, EdgesKept, NEW w \in Workflows, GiveUp(w)
  PROVE  Mapped
<1> DEFINE q == [row[w] EXCEPT !.status = "FAILED"]
<1>1. row[w] \in Rows /\ Core(w) /\ Way(w) /\ TypeOK
  BY WayFacts
<1>2. Head(spawned[w]) = row[w] /\ spawned[w] # <<>>
  BY <1>1, NoTask DEF GiveUp, Core, Takes
<1>3. row' = [row EXCEPT ![w] = q] /\ UNCHANGED trail /\ Complete(w, "error")
  BY <1>2 DEF GiveUp, Save, history
<1>4. q \in Rows /\ q.status = "FAILED" /\ SameEdges(row[w], q)
  BY <1>1, RowStatus DEF Statuses, SameEdges
<1>5. row[w].status = "RUNNING" /\ Stands(w, row[w], trail[w])
  BY <1>1, <1>2 DEF Core, Where, Way
<1> HIDE DEF q
<1> QED
  BY <1>3, <1>4, <1>5, FailsMapped

LEMMA PauseMapped ==
  ASSUME Inv, Ways, EdgesKept, NEW w \in Workflows, PauseForHuman(w)
  PROVE  Mapped
<1> DEFINE q == [row[w] EXCEPT !.status = "PAUSED"]
<1>1. row[w] \in Rows /\ Core(w) /\ Way(w) /\ TypeOK
  BY WayFacts
<1>2. Ends(w) /\ Kind[running[w].node] = "risky"
  BY DEF PauseForHuman
<1>3. running[w] = row[w] /\ running[w] # None /\ row[w].node \in Nodes /\ row[w].status = "RUNNING"
  BY <1>1, <1>2, BodyEnds
<1>4. row' = [row EXCEPT ![w] = q] /\ UNCHANGED <<trail, future>>
  BY <1>3 DEF PauseForHuman, Save, history
<1>5. q \in Rows /\ q.status = "PAUSED" /\ SameEdges(row[w], q)
  BY <1>1, RowStatus DEF Statuses, SameEdges
<1> HIDE DEF q
<1>6. EdgesKept' /\ Runs!Turn(w, "RUNNING", "PAUSED")
  BY <1>1, <1>3, <1>4, <1>5, Saves
<1>7. Runs!Here(w) = row[w].node
  BY <1>1, <1>3, HereIs DEF Way, Stands
<1>8. Runs!Pause(w)
  BY <1>2, <1>3, <1>4, <1>6, <1>7 DEF Runs!Pause
<1> QED
  BY <1>6, <1>8 DEF Mapped, Runs!Next

\* The node the workflow stands before is done.
LEMMA SucceedMapped ==
  ASSUME Inv, Ways, EdgesKept, NEW w \in Workflows, NEW jump, NEW q \in Rows,
         Succeed(w, jump, q), row' = [row EXCEPT ![w] = q], q.status = row[w].status,
         SameEdges(row[w], q),
         Onward(q, row[w].node, jump) \in IF Kind[row[w].node] = "condition"
                                          THEN Branches[row[w].node]
                                          ELSE Jumps[row[w].node] \cup {Edge[row[w].node]}
  PROVE  Mapped
<1> DEFINE n == row[w].node
           x == Onward(q, n, jump)
<1>1. row[w] \in Rows /\ Core(w) /\ Way(w) /\ TypeOK
  BY WayFacts
<1>2. Ends(w) /\ Kind[running[w].node] # "risky" /\ UNCHANGED future
      /\ trail' = [trail EXCEPT ![w] = Append(@, [node |-> running[w].node,
                                                 next |-> Onward(q, running[w].node, jump)])]
  BY DEF Succeed
<1>3. running[w] = row[w] /\ running[w] # None /\ n \in Nodes /\ row[w].status = "RUNNING"
      /\ row[w].steps < MaxSteps
  BY <1>1, <1>2, BodyEnds
<1>4. EdgesKept' /\ [v \in Workflows |-> row[v].status]' = [v \in Workflows |-> row[v].status]
  BY <1>1, Saves
<1>5. Runs!Here(w) = n /\ Len(trail[w]) <= row[w].steps
  BY <1>1, <1>3, HereIs DEF Way, Stands
<1>6. Len(trail[w]) < MaxSteps
  <2>1. Len(trail[w]) \in Nat /\ row[w].steps \in Nat /\ MaxSteps \in Nat
    <3>1. trail[w] \in Steps
      BY WayFacts
    <3> QED
      BY <1>1, <3>1, LenProperties, WorkflowEngineAssumption DEF Rows, Steps
  <2>2. \A a, b, m \in Nat : a <= b /\ b < m => a < m
    OBVIOUS
  <2> QED
    BY <1>3, <1>5, <2>1, <2>2
<1>7. x \in Nodes \cup {None}
      /\ x \in [m \in Nodes |-> IF Kind[m] = "condition" THEN Branches[m]
                                ELSE Jumps[m] \cup {Edge[m]}][n]
  BY <1>3, WorkflowEngineAssumption
<1>8. trail' = [trail EXCEPT ![w] = Append(@, [node |-> n, next |-> x])]
  BY <1>2, <1>3
<1>9. n \in Nodes \ {m \in Nodes : Kind[m] = "risky"}
  BY <1>2, <1>3
<1> HIDE DEF x, n
<1>10. Runs!Do(w, x)
  BY <1>1, <1>2, <1>3, <1>4, <1>5, <1>6, <1>7, <1>8, <1>9 DEF Runs!Do
<1> QED
  BY <1>4, <1>7, <1>10 DEF Mapped, Runs!Next

LEMMA RunMapped ==
  ASSUME Inv, Ways, EdgesKept, NEW w \in Workflows, RunCondition(w) \/ RunNode(w)
  PROVE  Mapped
<1> DEFINE n == row[w].node
<1>1. row[w] \in Rows /\ Core(w) /\ TypeOK
  BY WayFacts
<1>2. Ends(w)
  BY DEF RunCondition, RunNode, Succeed
<1>3. running[w] = row[w] /\ running[w] # None /\ n \in Nodes /\ row[w].status = "RUNNING"
  BY <1>1, <1>2, BodyEnds
<1>4. CASE RunCondition(w)
  <2>1. PICK b \in Branches[n] : Succeed(w, None, [row[w] EXCEPT !.edge[n] = b])
    BY <1>3, <1>4 DEF RunCondition
  <2>2. b \in Nodes \cup {None} /\ Kind[n] = "condition"
    BY <1>3, <1>4, WorkflowEngineAssumption DEF RunCondition
  <2> DEFINE q == [row[w] EXCEPT !.edge[n] = b]
  <2>3. q \in Rows /\ q.status = row[w].status /\ q.edge[n] = b
        /\ \A m \in Nodes \ {n} : q.edge[m] = row[w].edge[m]
    BY <1>1, <1>3, <2>2, RowEdge
  <2>4. Succeed(w, None, q)
    BY <2>1
  <2> HIDE DEF q, n
  <2>5. SameEdges(row[w], q)
    BY <2>2, <2>3 DEF SameEdges
  <2>6. row' \in {row, [row EXCEPT ![w] = q]} /\ row'[w] = q
    BY <1>3, <2>2, <2>4 DEF Succeed, n
  <2>7. row' = [row EXCEPT ![w] = q]
    BY <1>1, <2>6 DEF TypeOK
  <2>8. Onward(q, n, None) = b
    BY <2>3 DEF Onward
  <2> QED
    BY <2>1, <2>2, <2>3, <2>4, <2>5, <2>7, <2>8, SucceedMapped DEF n
<1>5. CASE RunNode(w)
  <2>1. PICK jump \in Jumps[n] \cup {None} : Succeed(w, jump, row[w])
    BY <1>3, <1>5 DEF RunNode
  <2>2. Kind[n] # "condition" /\ None \notin Nodes /\ Jumps[n] \subseteq Nodes
    BY <1>3, <1>5, WorkflowEngineAssumption DEF RunNode
  <2>3. row' = [row EXCEPT ![w] = row[w]]
    BY <1>1, <2>1 DEF Succeed, TypeOK
  <2>4. Onward(row[w], n, jump) \in Jumps[n] \cup {Edge[n]}
    BY <1>3, <2>1, <2>2 DEF Onward, EdgesKept
  <2>5. SameEdges(row[w], row[w])
    BY DEF SameEdges
  <2> HIDE DEF n
  <2> QED
    BY <1>1, <2>1, <2>2, <2>3, <2>4, <2>5, SucceedMapped DEF n
<1> QED
  BY <1>4, <1>5

LEMMA HandleMapped ==
  ASSUME Inv, Ways, EdgesKept, Handle
  PROVE  Mapped
<1>1. handled # None /\ handled' = None
  BY DEF Handle, Handles, Started, RouteOn, RouteEnd, Retry, Recover, Fail
<1> DEFINE e == handled.event
<1>2. PICK w \in Workflows : w = e.wf
  BY <1>1, ListenerHas
<1>3. /\ handled.copy = row[w] /\ row[w] \in Rows /\ row[w].status = "RUNNING"
      /\ row[w].steps < MaxSteps /\ \A m \in Nodes : row[w].retries[m] <= MaxRetries
      /\ e.node \in Nodes /\ e.jump \in Nodes \cup {None} /\ InHand(w)
  BY <1>1, <1>2, ListenerHas
<1>4. Way(w) /\ TypeOK /\ MaxSteps \in Nat /\ MaxRetries \in Nat /\ MaxRecoveries \in Nat
  BY WayFacts, WorkflowEngineAssumption
<1>5. EventSays(w, e, row[w], trail[w], tries[w])
  <2>1. e \in Events
    BY <1>1, <1>4 DEF TypeOK
  <2>2. e \in Pend(w)
    BY <1>1, <1>2, <2>1 DEF Pend
  <2> QED
    BY <1>4, <2>2 DEF Way
<1> HIDE DEF e
<1>6. CASE Started
  <2> DEFINE q == [row[w] EXCEPT !.status = "RUNNING"]
  <2>1. row' = [row EXCEPT ![w] = q] /\ UNCHANGED <<trail, future>>
    BY <1>2, <1>3, <1>6 DEF Started, Save, history, e
  <2>2. q \in Rows /\ q.status = row[w].status /\ SameEdges(row[w], q)
    BY <1>3, RowStatus DEF Statuses, SameEdges
  <2> HIDE DEF q
  <2> QED
    BY <1>4, <2>1, <2>2, SavesQuietly
<1>7. CASE RouteOn
  <2> DEFINE m == Onward(row[w], e.node, e.jump)
             q == [row[w] EXCEPT !.node = m, !.steps = @ + 1]
  <2>1. row' = [row EXCEPT ![w] = q] /\ UNCHANGED <<trail, future>> /\ m # None
    BY <1>2, <1>3, <1>7 DEF RouteOn, RouteTarget, SaveAndSpawn, Save, e
  <2>2. m \in Nodes
    BY <1>3, <2>1 DEF Onward, Rows
  <2> HIDE DEF m
  <2>3. q \in Rows /\ q.status = row[w].status /\ SameEdges(row[w], q)
    BY <1>3, <1>4, <2>2, RowStep DEF SameEdges
  <2> HIDE DEF q
  <2> QED
    BY <1>4, <2>1, <2>3, SavesQuietly
<1>8. CASE RouteEnd
  <2> DEFINE q == [row[w] EXCEPT !.status = "SUCCESS"]
  <2>1. /\ row' = [row EXCEPT ![w] = q] /\ UNCHANGED trail /\ Complete(w, "result")
        /\ e.type = "COMPLETE" /\ Onward(row[w], e.node, e.jump) = None
    BY <1>2, <1>3, <1>8 DEF RouteEnd, RouteTarget, Save, Handles, history, e
  <2>2. q \in Rows /\ q.status = "SUCCESS" /\ SameEdges(row[w], q)
    BY <1>3, RowStatus DEF Statuses, SameEdges
  <2> HIDE DEF q
  <2>3. EdgesKept' /\ Runs!Turn(w, "RUNNING", "SUCCESS")
    BY <1>3, <1>4, <2>1, <2>2, Saves
  <2>4. Runs!Here(w) = None
    BY <1>5, <2>1, HereIs DEF EventSays
  <2>5. Runs!Succeed(w)
    BY <2>1, <2>3, <2>4 DEF Runs!Succeed, Runs!Tell, Complete
  <2> QED
    BY <2>3, <2>5 DEF Mapped, Runs!Next
<1>9. CASE Retry
  <2> DEFINE q == [row[w] EXCEPT !.retries[e.node] = @ + 1]
  <2>1. row' = [row EXCEPT ![w] = q] /\ UNCHANGED <<trail, future>>
        /\ row[w].retries[e.node] < MaxRetries
    BY <1>2, <1>3, <1>9 DEF Retry, SaveAndSpawn, Save, RetriesLeft, history, e
  <2>2. q \in Rows /\ q.status = row[w].status /\ SameEdges(row[w], q)
    BY <1>3, <1>4, <2>1, RowRetry DEF SameEdges
  <2> HIDE DEF q
  <2> QED
    BY <1>4, <2>1, <2>2, SavesQuietly
<1>10. CASE Recover
  <2> DEFINE q == [row[w] EXCEPT !.recoveries = @ + 1, !.retries[e.node] = 0, !.status = "RUNNING"]
  <2>1. row' = [row EXCEPT ![w] = q] /\ UNCHANGED <<trail, future>>
        /\ row[w].recoveries < MaxRecoveries
    BY <1>2, <1>3, <1>10 DEF Recover, SaveAndSpawn, Save, history, e
  <2>2. q \in Rows /\ q.status = row[w].status /\ SameEdges(row[w], q)
    BY <1>3, <1>4, <2>1, RowRecover DEF SameEdges
  <2> HIDE DEF q
  <2> QED
    BY <1>4, <2>1, <2>2, SavesQuietly
<1>11. CASE Fail
  <2>1. UNCHANGED trail /\ Complete(w, "error") /\ e.type \in {"TRANSIENT", "FATAL"}
    BY <1>2, <1>11 DEF Fail, Handles, history, e
  <2>2. PICK q \in Rows : /\ q.status = "FAILED" /\ SameEdges(row[w], q)
                          /\ row' = [row EXCEPT ![w] = q]
    <3> DEFINE p == [row[w] EXCEPT !.status = "FAILED", !.retries[e.node] = @ + 1]
               r == [row[w] EXCEPT !.status = "FAILED"]
    <3>1. p \in Rows /\ p.status = "FAILED" /\ SameEdges(row[w], p)
      BY <1>3, <1>4, RowGiveUp DEF SameEdges
    <3>2. r \in Rows /\ r.status = "FAILED" /\ SameEdges(row[w], r)
      BY <1>3, RowStatus DEF Statuses, SameEdges
    <3>3. row' = [row EXCEPT ![w] = p] \/ row' = [row EXCEPT ![w] = r]
      BY <1>2, <1>3, <1>11 DEF Fail, Save, e
    <3> HIDE DEF p, r
    <3> QED
      BY <3>1, <3>2, <3>3
  <2>3. Stands(w, row[w], trail[w])
    BY <1>5, <2>1 DEF EventSays
  <2> QED
    BY <1>3, <2>1, <2>2, <2>3, FailsMapped
<1> QED
  BY <1>6, <1>7, <1>8, <1>9, <1>10, <1>11 DEF Handle

LEMMA ActMapped ==
  ASSUME Inv, EdgesKept, NEW w \in Workflows, Act(w)
  PROVE  Mapped
<1>1. TypeOK /\ Core(w) /\ row[w] \in Rows
  BY DEF Inv, TypeOK
<1>2. PICK b \in {"resume", "cancel"} : Answers(w, b)
  BY DEF Act, Resume, Cancel
<1>3. answer[w].copy = row[w] /\ row[w].status = "PAUSED" /\ UNCHANGED trail
  BY <1>1, <1>2, AnswerHas
<1>4. PICK s \in {"RUNNING", "CANCELLED"} :
        /\ row' = [row EXCEPT ![w] = [row[w] EXCEPT !.status = s]]
        /\ \/ s = "CANCELLED" /\ Complete(w, "error")
           \/ s = "RUNNING" /\ UNCHANGED future
  BY <1>3 DEF Act, Resume, Cancel, SaveAndSpawn, Save
<1> DEFINE q == [row[w] EXCEPT !.status = s]
<1>5. q \in Rows /\ q.status = s /\ SameEdges(row[w], q)
  <2>1. s \in Statuses
    BY DEF Statuses
  <2>2. q \in Rows /\ q.status = s /\ q.edge = row[w].edge
    BY <1>1, <2>1, RowStatus
  <2> HIDE DEF q
  <2> QED
    BY <2>2 DEF SameEdges
<1>6. row' = [row EXCEPT ![w] = q]
  BY <1>4
<1> HIDE DEF q
<1>7. EdgesKept' /\ Runs!Turn(w, "PAUSED", s)
  BY <1>1, <1>3, <1>5, <1>6, Saves
<1>8. CASE s = "RUNNING"
  <2>1. Runs!Resume(w)
    BY <1>3, <1>4, <1>7, <1>8 DEF Runs!Resume
  <2> QED
    BY <1>7, <2>1 DEF Mapped, Runs!Next
<1>9. CASE s = "CANCELLED"
  <2>1. Runs!Cancel(w)
    BY <1>3, <1>4, <1>7, <1>9 DEF Runs!Cancel, Runs!Tell, Complete
  <2> QED
    BY <1>7, <2>1 DEF Mapped, Runs!Next
<1> QED
  BY <1>4, <1>8, <1>9

LEMMA StepMapped ==
  ASSUME Inv, Ways, EdgesKept, [Next]_vars
  PROVE  Mapped
<1>1. CASE UNCHANGED vars
  BY <1>1, LeavesRows DEF vars, history
<1>2. ASSUME NEW w \in Workflows, Begin(w) \/ RunFails(w) \/ Ask(w) \/ Load
              \/ \E b \in {"resume", "cancel"} : Press(w, b)
      PROVE  Mapped
  <2>1. UNCHANGED <<row, trail, future>>
    BY <1>2 DEF Begin, RunFails, Ask, Load, Press, history
  <2> QED
    BY <2>1, LeavesRows
<1>3. CASE Load
  <2>1. UNCHANGED <<row, trail, future>>
    BY <1>3 DEF Load, history
  <2> QED
    BY <2>1, LeavesRows
<1> QED
  BY <1>1, <1>2, <1>3, BeginsMapped, GiveUpMapped, PauseMapped, RunMapped, HandleMapped, ActMapped
  DEF Next, Execute, Listen

\* The engine implements GraphRun: each workflow is a run of its graph, node by
\* node along its edges, stopped before a high-risk node, and its caller is told
\* how it ended.
THEOREM EngineIsAGraphRun == Spec => ImplementsGraphRun
<1>1. Init => EdgesKept /\ Runs!Init
  <2> SUFFICES ASSUME Init PROVE EdgesKept /\ Runs!Init
    OBVIOUS
  <2>1. /\ row = [w \in Workflows |-> Fresh(w)] /\ future = [w \in Workflows |-> "none"]
        /\ trail = [w \in Workflows |-> <<>>]
    BY DEF Init
  <2>2. \A w \in Workflows : row[w].status = "PENDING" /\ row[w].edge = Edge
    BY <2>1 DEF Fresh
  <2> QED
    BY <2>1, <2>2 DEF EdgesKept, Runs!Init
<1>2. Inv /\ Ways /\ EdgesKept /\ [Next]_vars => EdgesKept' /\ [Runs!Next]_Runs!vars
  BY StepMapped DEF Mapped
<1> QED
  BY <1>1, <1>2, EngineInvariant, WaysInvariant, PTL DEF Spec, ImplementsGraphRun, Runs!Spec
=============================================================================
