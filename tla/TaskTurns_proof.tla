---------------------------- MODULE TaskTurns_proof ----------------------------
(***************************************************************************)
(* What a dispatcher that has not been stopped owes its chats: what was    *)
(* accepted stays in sight, waiting rows are drained, and the turns are    *)
(* those of ChatTurns.                                                     *)
(***************************************************************************)
EXTENDS TaskPlaces_proof

\* The process has not stopped, and no stop was asked for.
Up == stops = 0 /\ mode = "up"

\* A mark is that of a prompt that runs.
MarksRun == \A c \in Chats : inProgress[c] # None => Running(inProgress[c])

\* A handler has its turn; it is on file or on its way.
OnTurn(t) == \E h \in Handlers : handler[h].ev = t /\ handler[h].pc \in TurnPcs

InSight(t) == OnFile(t) \/ InFlight(t)

KeptInSight == \A t \in Tasks : fate[t] \in Kept => InSight(t)

\* A prompt of the chat will ask for its turn.
Coming(c) == \E t \in Tasks : ChatOf[t] = c /\ t \in publishing \cup Rows(inbox)

Drained == \A c \in Chats : queue[c] # <<>> => locked[c] \/ Coming(c)

UpInv ==
  /\ mode = "down" => stops > 0
  /\ Up => MarksRun /\ KeptInSight /\ Drained

\* A process that is up and has not stopped was so before.
LEMMA UpBefore ==
  ASSUME TypeOK, UpInv, [Next]_vars, Up'
  PROVE  /\ Up /\ UNCHANGED notify
         /\ Users \/ Shell \/ Notifier \/ (\E e \in Events : Deliver(e))
            \/ (\E h \in Handlers : Handle(h)) \/ UNCHANGED vars
<1>1. ~Process
  <2>1. ~Boot
    BY DEF Boot, UpInv, Up, TypeOK
  <2> QED
    BY <2>1 DEF Process, RequestRestart, ConfirmRestart, ShellExits, ConsumerStops, LoopEnds, Reexec,
                Exited, Crash, Vanish, Up
<1>2. ASSUME UNCHANGED vars PROVE Up
  BY <1>2 DEF vars, process, Up
<1>3. ASSUME NEW e \in Events, Submit(e) \/ Deliver(e) PROVE Up
  BY <1>3 DEF Submit, Deliver, Arrive, Up
<1>4. ASSUME NEW c \in Chats, Resume(c) \/ DiscardButton(c) PROVE Up
  BY <1>4 DEF Resume, DiscardButton, process, Up
<1>5. ASSUME Shell PROVE Up
  BY <1>5 DEF Shell, ShellTakes, ShellContinues, ShellDiscards, ShellPublishes, Arrive, Up
<1>6. ASSUME Notifier PROVE Up
  BY <1>6 DEF Notifier, NotifierWakes, NotifierVisits, Up
<1>7. ASSUME NEW h \in Handlers, Handle(h) PROVE Up
  BY <1>7 DEF Handle, StartTurn, Enqueue, Refuse, Command, Take, EndReply, Started, Announced, EndBody,
              CancelledEarly, process, Up
<1>8. UNCHANGED notify
  BY DEF Next, vars
<1>9. Users \/ Shell \/ Notifier \/ (\E e \in Events : Deliver(e))
        \/ (\E h \in Handlers : Handle(h)) \/ UNCHANGED vars
  BY <1>1 DEF Next
<1> QED
  BY <1>2, <1>3, <1>4, <1>5, <1>6, <1>7, <1>8, <1>9 DEF Users

LEMMA DownCounted ==
  ASSUME TypeOK, UpInv, [Next]_vars
  PROVE  (mode = "down" => stops > 0)'
<1>1. CASE mode' = "down"
  <2>1. CASE Reexec \/ Exited \/ Crash
    BY <2>1 DEF Reexec, Exited, Crash, Vanish, TypeOK
  <2>2. CASE mode = "down" /\ UNCHANGED stops
    BY <2>2 DEF UpInv
  <2>3. CASE Users \/ Shell \/ Notifier \/ (\E e \in Events : Deliver(e))
    BY <1>1, <2>2, <2>3
       DEF Users, Submit, Deliver, Arrive, Resume, DiscardButton, process, Shell, ShellTakes,
           ShellContinues, ShellDiscards, ShellPublishes, Notifier, NotifierWakes, NotifierVisits
  <2>4. ASSUME NEW h \in Handlers, Handle(h) PROVE UNCHANGED <<mode, stops>>
    BY <2>4 DEF Handle, StartTurn, Enqueue, Refuse, Command, Take, EndReply, Started, Announced, EndBody,
                CancelledEarly, process
  <2>5. CASE Process
    BY <1>1, <2>1, <2>5 DEF Process, RequestRestart, ConfirmRestart, ShellExits, ConsumerStops, LoopEnds, Boot
  <2>6. CASE UNCHANGED vars
    BY <1>1, <2>2, <2>6 DEF vars, process
  <2> QED
    BY <1>1, <2>2, <2>3, <2>4, <2>5, <2>6 DEF Next
<1> QED
  BY <1>1

-----------------------------------------------------------------------------
(* Marks.                                                                  *)

LEMMA MarksKept ==
  ASSUME MarksRun, \A c \in Chats : inProgress'[c] # None => inProgress'[c] = inProgress[c],
         \A x \in Tasks : Running(x) => Running(x)', \A c \in Chats : inProgress[c] \in Tasks \cup {None}
  PROVE  MarksRun'
  BY DEF MarksRun

LEMMA MarksStep ==
  ASSUME TypeOK, StoreInv, TurnInv, PlaceInv, UpInv, [Next]_vars, Up'
  PROVE  MarksRun'
<1>1. /\ Up /\ MarksRun
      /\ Users \/ Shell \/ Notifier \/ (\E e \in Events : Deliver(e))
         \/ (\E h \in Handlers : Handle(h)) \/ UNCHANGED vars
  BY UpBefore DEF UpInv
<1>2. \A c \in Chats : inProgress[c] \in Tasks \cup {None}
  BY DEF TypeOK
<1>3. ASSUME \A c \in Chats : inProgress'[c] # None => inProgress'[c] = inProgress[c],
             \A x \in Tasks : Running(x) => Running(x)'
      PROVE  MarksRun'
  BY <1>1, <1>2, <1>3, MarksKept
<1>4. ASSUME UNCHANGED handler, \A c \in Chats : inProgress'[c] # None => inProgress'[c] = inProgress[c]
      PROVE  MarksRun'
  BY <1>3, <1>4, SameHandlers
<1>5. ASSUME NEW c, Discard(c) PROVE \A d \in Chats : inProgress'[d] # None => inProgress'[d] = inProgress[d]
  BY <1>5 DEF Discard, TypeOK
<1>6. ASSUME NEW C, Recover(C) PROVE \A d \in Chats : inProgress'[d] # None => inProgress'[d] = inProgress[d]
  BY <1>6 DEF Recover
<1>7. CASE Users \/ (\E e \in Events : Deliver(e))
  BY <1>4, <1>5, <1>7 DEF Users, Submit, Deliver, Arrive, Resume, DiscardButton, store
<1>8. CASE Shell
  BY <1>4, <1>5, <1>8 DEF Shell, ShellTakes, ShellContinues, ShellDiscards, ShellPublishes, Arrive, store
<1>9. CASE Notifier
  BY <1>4, <1>6, <1>9 DEF Notifier, NotifierWakes, NotifierVisits, store
<1>10. CASE UNCHANGED vars
  BY <1>4, <1>10 DEF vars, store
<1>11. ASSUME NEW h \in Handlers, Handle(h) PROVE MarksRun'
  <2>1. ASSUME NEW e \in Events, StartTurn(h, e) \/ Enqueue(h, e) \/ Refuse(h, e) \/ Command(h, e)
        PROVE  MarksRun'
    <3>1. PICK p \in {"starting", "reply"} :
            Take(h, e) /\ handler' = [handler EXCEPT ![h] = [ev |-> e, pc |-> p]]
      BY <2>1 DEF StartTurn, Enqueue, Refuse, Command
    <3>2. \A x \in Tasks : Running(x) => Running(x)'
      BY <3>1, TakesHandler DEF Events
    <3>3. \A c \in Chats : inProgress'[c] # None => inProgress'[c] = inProgress[c]
      BY <1>5, <2>1 DEF StartTurn, Enqueue, Refuse, Command, store
    <3> QED
      BY <1>3, <3>2, <3>3
  <2>2. CASE EndReply(h)
    <3>1. /\ handler[h].pc = "reply" /\ UNCHANGED inProgress
          /\ \A g \in Handlers : g # h => handler'[g] = handler[g]
      BY <2>2 DEF EndReply, Leave, TypeOK, store
    <3>2. \A x \in Tasks : Running(x) => Running(x)'
      BY <3>1 DEF Running
    <3> QED
      BY <1>3, <3>1, <3>2
  <2>3. CASE CancelledEarly(h)
    <3>1. handler[h].pc # "reply" /\ h \in doomed /\ mode # "exiting"
      BY <1>1, <2>3 DEF CancelledEarly, Up
    <3> QED
      BY <3>1 DEF TurnInv, DoomedAreReplying
  <2>4. CASE EndBody(h)
    <3> DEFINE t == handler[h].ev
    <3>1. /\ handler[h].pc = "body" /\ inProgress' = [inProgress EXCEPT ![ChatOf[t]] = None]
          /\ \A g \in Handlers : g # h => handler'[g] = handler[g]
      BY <2>4 DEF EndBody, Release, Leave, TypeOK
    <3>2. ASSUME NEW c \in Chats, NEW x, inProgress'[c] = x, x # None PROVE Running(x)'
      <4>1. inProgress[c] = x /\ c # ChatOf[t]
        BY <3>1, <3>2 DEF TypeOK
      <4>2. ChatOf[x] = c /\ Running(x)
        BY <1>1, <3>2, <4>1, RowsAreOwn DEF MarksRun
      <4>3. x # t
        BY <4>1, <4>2
      <4> QED
        BY <3>1, <4>2, <4>3 DEF Running
    <3> QED
      BY <3>2 DEF MarksRun, Running
  <2>5. CASE Started(h) \/ Announced(h)
    <3> DEFINE t == handler[h].ev
    <3>1. PICK p \in {"announcing", "body"} : handler' = [handler EXCEPT ![h].pc = p]
      BY <2>5 DEF Started, Announced
    <3>2. handler[h] \in [ev : Tasks, pc : TurnPcs] /\ ChatOf[t] \in Chats
      BY <2>5, BusyHandler DEF Started, Announced, TurnPcs
    <3>3. /\ handler'[h].pc = p /\ handler'[h].ev = t
          /\ \A g \in Handlers : g # h => handler'[g] = handler[g]
      BY <3>1, <3>2 DEF TypeOK
    <3>4. \A x : Running(x) \/ x = t => Running(x)'
      BY <3>3 DEF Running
    <3>5. \A c \in Chats : inProgress'[c] = inProgress[c] \/ inProgress'[c] = t
      BY <2>5, <3>2 DEF Started, Announced, store, TypeOK
    <3>6. ASSUME NEW c \in Chats, NEW x, inProgress'[c] = x, x # None PROVE Running(x)'
      BY <1>1, <3>4, <3>5, <3>6 DEF MarksRun
    <3> QED
      BY <3>6 DEF MarksRun, Running
  <2> QED
    BY <1>11, <2>1, <2>2, <2>3, <2>4, <2>5 DEF Handle
<1> QED
  BY <1>1, <1>7, <1>8, <1>9, <1>10, <1>11

-----------------------------------------------------------------------------
(* The drain.                                                              *)

LEMMA DrainStep ==
  ASSUME TypeOK, StoreInv, TurnInv, PlaceInv, UpInv, [Next]_vars, Up'
  PROVE  Drained'
<1>1. /\ Up /\ MarksRun /\ Drained
      /\ Users \/ Shell \/ Notifier \/ (\E e \in Events : Deliver(e))
         \/ (\E h \in Handlers : Handle(h)) \/ UNCHANGED vars
  BY UpBefore DEF UpInv
<1>2. ASSUME \A c \in Chats : queue'[c] # <<>> => queue[c] # <<>> \/ locked'[c],
             \A c \in Chats : locked[c] => locked'[c] \/ Coming(c)' \/ queue'[c] = <<>>,
             \A c \in Chats : Coming(c) => Coming(c)' \/ locked'[c]
      PROVE  Drained'
  BY <1>1, <1>2 DEF Drained
<1>3. ASSUME publishing \subseteq publishing', Rows(inbox) \subseteq Rows(inbox')
      PROVE  \A c : Coming(c) => Coming(c)'
  BY <1>3 DEF Coming
<1>4. ASSUME NEW e \in Events, Arrive(e) PROVE Rows(inbox') = Rows(inbox) \cup {e}
  <2>1. inbox \in Seq(Events) /\ inbox' = Append(inbox, e)
    BY <1>1, <1>4 DEF Arrive, Up, TypeOK
  <2> QED
    BY <2>1, AppendRows
<1>5. ASSUME NEW c, Discard(c) PROVE \A d \in Chats : queue'[d] # <<>> => queue[d] # <<>>
  BY <1>5 DEF Discard, TypeOK
<1>6. ASSUME NEW c \in Chats, HandOn(c)
      PROVE  /\ publishing \subseteq publishing'
             /\ \A d \in Chats : queue'[d] # <<>> => queue[d] # <<>>
             /\ queue'[c] # <<>> => Coming(c)'
  <2>1. CASE queue[c] = <<>>
    BY <1>6, <2>1 DEF HandOn
  <2>2. CASE queue[c] # <<>>
    <3>1. queue' = [queue EXCEPT ![c] = Tail(@)] /\ publishing' = publishing \cup {Head(queue[c])}
      BY <1>6, <2>2 DEF HandOn
    <3>2. Head(queue[c]) \in Tasks /\ ChatOf[Head(queue[c])] = c
      BY <2>2, <3>1, PopRows DEF PlaceInv
    <3>3. Coming(c)'
      BY <3>1, <3>2 DEF Coming
    <3>4. \A d \in Chats : d # c => queue'[d] = queue[d]
      BY <3>1 DEF TypeOK
    <3> QED
      BY <2>2, <3>1, <3>3, <3>4
  <2> QED
    BY <2>1, <2>2
<1>7. ASSUME NEW e \in Events, Submit(e) \/ Deliver(e) PROVE Drained'
  <2>1. Arrive(e) /\ UNCHANGED <<queue, locked>> /\ publishing \subseteq publishing' \cup {e}
    BY <1>7 DEF Submit, Deliver, Arrive, store
  <2>2. Rows(inbox') = Rows(inbox) \cup {e}
    BY <1>4, <2>1
  <2>3. \A c : Coming(c) => Coming(c)'
    BY <2>1, <2>2 DEF Coming
  <2> QED
    BY <1>2, <2>1, <2>3
<1>8. ASSUME NEW c \in Chats, Resume(c) PROVE Drained'
  <2>1. HandOn(c) /\ UNCHANGED <<inbox, locked>>
    BY <1>8 DEF Resume
  <2> QED
    BY <1>2, <1>3, <1>6, <2>1
<1>9. ASSUME NEW c \in Chats, DiscardButton(c) PROVE Drained'
  <2>1. Discard(c) /\ UNCHANGED <<publishing, inbox, locked>>
    BY <1>9 DEF DiscardButton
  <2> QED
    BY <1>2, <1>3, <1>5, <2>1
<1>10. CASE NotifierWakes \/ UNCHANGED vars
  <2>1. UNCHANGED <<publishing, inbox, locked, queue>>
    BY <1>10 DEF NotifierWakes, vars, store
  <2> QED
    BY <1>2, <1>3, <2>1
<1>11. ASSUME NEW c \in Chats, NotifierVisits(c) PROVE Drained'
  <2>1. Recover({c}) /\ UNCHANGED <<publishing, inbox, locked>>
    BY <1>11 DEF NotifierVisits
  <2>2. ASSUME NEW d \in Chats, queue'[d] # <<>>, queue[d] = <<>> PROVE locked[d]
    <3>1. inProgress[d] # None
      BY <2>1, <2>2 DEF Recover
    <3>2. Running(inProgress[d]) /\ ChatOf[inProgress[d]] = d
      BY <1>1, <3>1, RowsAreOwn DEF MarksRun
    <3>3. \E h \in Handlers : HasTurn(h, d)
      BY <3>2 DEF Running, HasTurn, TurnPcs
    <3> QED
      BY <3>3 DEF TurnInv, HoldersLock
  <2> QED
    BY <1>2, <1>3, <2>1, <2>2
<1>12. ASSUME NEW t \in Tasks, ShellTakes(t) PROVE Drained'
  <2>1. UNCHANGED <<publishing, inbox, queue>> /\ \A c \in Chats : locked[c] => locked'[c]
    BY <1>12 DEF ShellTakes, store, TypeOK
  <2> QED
    BY <1>2, <1>3, <2>1
<1>13. ASSUME NEW c \in Chats, ShellContinues(c) PROVE Drained'
  <2>1. /\ UNCHANGED <<publishing, inbox>>
        /\ queue' = [queue EXCEPT ![c] = Tail(@)] /\ locked' = [locked EXCEPT ![c] = TRUE]
    BY <1>13 DEF ShellContinues
  <2>2. /\ \A d \in Chats : locked[d] => locked'[d]
        /\ \A d \in Chats : queue'[d] # <<>> => queue[d] # <<>> \/ locked'[d]
    BY <2>1 DEF TypeOK
  <2> QED
    BY <1>2, <1>3, <2>1, <2>2
<1>14. CASE ShellDiscards
  <2>1. UNCHANGED <<publishing, inbox, locked>> /\ (UNCHANGED queue \/ \E c \in CliChats : Discard(c))
    BY <1>14 DEF ShellDiscards, store
  <2> QED
    BY <1>2, <1>3, <1>5, <2>1
<1>15. CASE ShellPublishes
  <2>1. PICK t \in Tasks : t = shell
    BY <1>15, NoneIsNoEvent DEF ShellPublishes, TypeOK
  <2>2. /\ Arrive(t) /\ UNCHANGED <<queue, publishing>>
        /\ locked' = [locked EXCEPT ![ChatOf[t]] = FALSE]
    BY <1>15, <2>1 DEF ShellPublishes, Arrive, store
  <2>3. Rows(inbox') = Rows(inbox) \cup {t}
    BY <1>4, <2>2 DEF Events
  <2>4. Coming(ChatOf[t])'
    BY <2>3 DEF Coming
  <2>5. \A c \in Chats : locked[c] => locked'[c] \/ c = ChatOf[t]
    BY <2>2 DEF TypeOK
  <2> QED
    BY <1>2, <1>3, <2>2, <2>3, <2>4, <2>5
<1>16. ASSUME NEW h \in Handlers, NEW e \in Events,
              StartTurn(h, e) \/ Enqueue(h, e) \/ Refuse(h, e) \/ Command(h, e)
       PROVE  Drained'
  <2>1. /\ Take(h, e) /\ UNCHANGED publishing /\ inbox \in Seq(Events) /\ inbox # <<>>
        /\ e = Head(inbox) /\ inbox' = Tail(inbox) /\ ChatOf[e] \in Chats
    BY <1>16, TaskDispatchAssumption DEF StartTurn, Enqueue, Refuse, Command, Take, TypeOK
  <2>2. Rows(inbox) = Rows(inbox') \cup {e}
    BY <2>1, TailRows
  <2>3. \A c : Coming(c) => Coming(c)' \/ (e \in Tasks /\ ChatOf[e] = c)
    BY <2>1, <2>2 DEF Coming
  <2>4. e \in Tasks => locked'[ChatOf[e]] /\ \A c \in Chats : locked[c] => locked'[c]
    BY <1>16, <2>1, TaskDispatchAssumption DEF StartTurn, Enqueue, Refuse, Command, TurnFree, TypeOK
  <2>5. e \notin Tasks => UNCHANGED locked
    BY <1>16 DEF StartTurn, Enqueue, Refuse, Command
  <2>6. \A c \in Chats : queue'[c] # <<>> => queue[c] # <<>> \/ locked'[c]
    <3>1. CASE Enqueue(h, e)
      BY <2>1, <2>4, <3>1 DEF Enqueue, TypeOK
    <3>2. CASE Command(h, e)
      BY <1>5, <2>1, <3>2 DEF Command, store
    <3>3. CASE StartTurn(h, e) \/ Refuse(h, e)
      BY <3>3 DEF StartTurn, Refuse, store
    <3> QED
      BY <1>16, <3>1, <3>2, <3>3
  <2> QED
    BY <1>2, <2>3, <2>4, <2>5, <2>6
<1>17. ASSUME NEW h \in Handlers, EndReply(h) \/ Started(h) \/ Announced(h) \/ CancelledEarly(h)
       PROVE  Drained'
  <2>1. UNCHANGED <<publishing, inbox, queue, locked>>
    BY <1>17 DEF EndReply, Started, Announced, CancelledEarly, store
  <2> QED
    BY <1>2, <1>3, <2>1
<1>18. ASSUME NEW h \in Handlers, EndBody(h) PROVE Drained'
  <2>0. PICK c \in Chats : c = ChatOf[handler[h].ev]
    BY <1>18, BusyHandler DEF EndBody
  <2>1. HandOn(c) /\ locked' = [locked EXCEPT ![c] = FALSE] /\ UNCHANGED inbox
    BY <1>18, <2>0 DEF EndBody, Release
  <2>2. \A d \in Chats : locked[d] => locked'[d] \/ d = c
    BY <2>1 DEF TypeOK
  <2>3. /\ \A d \in Chats : queue'[d] # <<>> => queue[d] # <<>>
        /\ queue'[c] # <<>> => Coming(c)'
        /\ \A d : Coming(d) => Coming(d)'
    BY <1>3, <1>6, <2>1
  <2> QED
    BY <1>2, <2>2, <2>3
<1> QED
  BY <1>1, <1>7, <1>8, <1>9, <1>10, <1>11, <1>12, <1>13, <1>14, <1>15, <1>16, <1>17, <1>18
     DEF Users, Shell, Notifier, Handle

-----------------------------------------------------------------------------
(* What was accepted stays in sight.                                       *)

\* The ways from one place to the next.
LEMMA MovesOn ==
  ASSUME NEW x, InSight(x),
         x \in publishing => x \in publishing' \cup Rows(inbox'),
         x \in Rows(inbox) => x \in Rows(inbox') \cup Rows(queue'[ChatOf[x]]) \/ OnTurn(x)',
         shell = x => shell' = x \/ x \in Rows(inbox'),
         x \in Rows(queue[ChatOf[x]]) =>
           x \in Rows(queue'[ChatOf[x]]) \cup publishing' \/ shell' = x,
         inProgress[ChatOf[x]] = x =>
           inProgress'[ChatOf[x]] = x \/ x \in Rows(queue'[ChatOf[x]]) \/ OnTurn(x)',
         OnTurn(x) => OnTurn(x)'
  PROVE  InSight(x)'
<1>1. \/ x \in publishing \/ x \in Rows(inbox) \/ shell = x \/ x \in Rows(queue[ChatOf[x]])
      \/ inProgress[ChatOf[x]] = x \/ OnTurn(x)
  BY DEF InSight, OnFile, InFlight, OnTurn, Rows
<1>2. \/ x \in publishing' \/ x \in Rows(inbox') \/ shell' = x \/ x \in Rows(queue'[ChatOf[x]])
      \/ inProgress'[ChatOf[x]] = x \/ OnTurn(x)'
  BY <1>1
<1>3. x \in Rows(inbox') => \E i \in DOMAIN inbox' : inbox'[i] = x
  BY DEF Rows
<1> QED
  BY <1>2, <1>3 DEF InSight, OnFile, InFlight, OnTurn

LEMMA TakesTurns ==
  ASSUME TypeOK, NEW h \in Handlers, NEW e \in Events, Take(h, e), NEW p \in {"starting", "reply"},
         handler' = [handler EXCEPT ![h] = [ev |-> e, pc |-> p]], NEW x
  PROVE  OnTurn(x)' <=> OnTurn(x) \/ (x = e /\ p = "starting")
<1>1. handler[h].pc = "idle"
  BY DEF Take, Idle
<1>2. handler'[h].pc = p /\ handler'[h].ev = e /\ \A g \in Handlers : g # h => handler'[g] = handler[g]
  BY DEF TypeOK
<1>3. OnTurn(x)' => OnTurn(x) \/ (x = e /\ p = "starting")
  BY <1>2 DEF OnTurn, TurnPcs
<1>4. OnTurn(x) => OnTurn(x)'
  <2>1. ASSUME NEW g \in Handlers, handler[g].pc \in TurnPcs PROVE handler'[g] = handler[g]
    BY <1>1, <1>2, <2>1 DEF TurnPcs
  <2> QED
    BY <2>1 DEF OnTurn
<1>5. x = e /\ p = "starting" => OnTurn(x)'
  BY <1>2 DEF OnTurn, TurnPcs
<1> QED
  BY <1>3, <1>4, <1>5

LEMMA LeavesTurn ==
  ASSUME TypeOK, NEW h \in Handlers, Leave(h), NEW x
  PROVE  /\ OnTurn(x)' => OnTurn(x)
         /\ OnTurn(x) => OnTurn(x)' \/ (x = handler[h].ev /\ handler[h].pc \in TurnPcs)
<1>1. handler'[h].pc = "idle" /\ \A g \in Handlers : g # h => handler'[g] = handler[g]
  BY DEF TypeOK, Leave, Idle
<1> QED
  BY <1>1 DEF OnTurn, TurnPcs

\* ... and it was the only one with that prompt.
LEMMA LeavesAlone ==
  ASSUME TypeOK, TurnInv, NEW h \in Handlers, handler[h].pc \in TurnPcs, Leave(h),
         NEW t, t = handler[h].ev
  PROVE  OnTurn(t) /\ ~OnTurn(t)'
<1>1. t \in Tasks /\ ChatOf[t] \in Chats
  BY BusyHandler DEF TurnPcs
<1>2. OnTurn(t)
  BY DEF OnTurn
<1>3. handler'[h].pc = "idle" /\ \A g \in Handlers : g # h => handler'[g] = handler[g]
  BY DEF Leave, Idle, TypeOK
<1>4. ASSUME NEW g \in Handlers, handler'[g].ev = t, handler'[g].pc \in TurnPcs PROVE FALSE
  <2>1. g # h /\ handler'[g] = handler[g]
    BY <1>3, <1>4 DEF TurnPcs
  <2>2. HasTurn(g, ChatOf[t]) /\ HasTurn(h, ChatOf[t])
    BY <1>4, <2>1 DEF HasTurn
  <2> QED
    BY <1>1, <2>1, <2>2 DEF TurnInv, OneTurnPerChat
<1> QED
  BY <1>2, <1>4 DEF OnTurn

LEMMA GoesOnTurn ==
  ASSUME TypeOK, NEW h \in Handlers, Started(h) \/ Announced(h), NEW x
  PROVE  (OnTurn(x)' <=> OnTurn(x)) /\ OnTurn(handler[h].ev)
<1> DEFINE t == handler[h].ev
<1>1. PICK p \in {"announcing", "body"} : handler' = [handler EXCEPT ![h].pc = p]
  BY DEF Started, Announced
<1>2. handler[h] \in [ev : Tasks, pc : TurnPcs]
  BY BusyHandler DEF Started, Announced, TurnPcs
<1>3. /\ handler'[h].pc = p /\ handler'[h].ev = t
      /\ \A g \in Handlers : g # h => handler'[g] = handler[g]
  BY <1>1, <1>2 DEF TypeOK
<1>4. handler[h].pc \in TurnPcs /\ handler'[h].pc \in TurnPcs
  BY <1>2, <1>3 DEF TurnPcs
<1> QED
  BY <1>3, <1>4 DEF OnTurn

LEMMA SameTurns ==
  ASSUME UNCHANGED handler, NEW x
  PROVE  OnTurn(x)' <=> OnTurn(x)
  BY DEF OnTurn

\* A chat's mark, while the process is up, is that of the handler whose turn
\* it is.
LEMMA MarkIsOfTurn ==
  ASSUME TypeOK, StoreInv, TurnInv, MarksRun, NEW h \in Handlers, handler[h].pc \in TurnPcs,
         NEW x \in Tasks, inProgress[ChatOf[x]] = x, ChatOf[x] = ChatOf[handler[h].ev]
  PROVE  x = handler[h].ev /\ handler[h].pc \in {"announcing", "body"}
<1>1. ChatOf[x] \in Chats /\ x # None
  BY TaskDispatchAssumption, NoneIsNoEvent DEF Events
<1>2. PICK g \in Handlers : handler[g].ev = x /\ handler[g].pc \in {"announcing", "body"}
  BY <1>1 DEF MarksRun, Running
<1>3. HasTurn(g, ChatOf[x]) /\ HasTurn(h, ChatOf[x])
  BY <1>2 DEF HasTurn, TurnPcs
<1>4. g = h
  BY <1>1, <1>3 DEF TurnInv, OneTurnPerChat
<1> QED
  BY <1>2, <1>4

\* Popped, it will be published.
LEMMA HandOnMoves ==
  ASSUME TypeOK, NEW c \in Chats, HandOn(c), NEW x \in Tasks
  PROVE  /\ x \in publishing => x \in publishing'
         /\ x \in Rows(queue[ChatOf[x]]) => x \in Rows(queue'[ChatOf[x]]) \cup publishing'
<1>1. CASE queue[c] = <<>>
  BY <1>1 DEF HandOn
<1>2. CASE queue[c] # <<>>
  <2>1. queue' = [queue EXCEPT ![c] = Tail(@)] /\ publishing' = publishing \cup {Head(queue[c])}
    BY <1>2 DEF HandOn
  <2>2. queue[c] \in Seq(Tasks)
    BY DEF TypeOK
  <2>3. Rows(queue[c]) = {Head(queue[c])} \cup Rows(Tail(queue[c]))
    BY <1>2, <2>2, TailRows
  <2>4. queue'[c] = Tail(queue[c]) /\ \A d \in Chats : d # c => queue'[d] = queue[d]
    BY <2>1 DEF TypeOK
  <2>5. ChatOf[x] \in Chats
    BY TaskDispatchAssumption DEF Events
  <2> QED
    BY <2>1, <2>3, <2>4, <2>5
<1> QED
  BY <1>1, <1>2

\* What is still owed after a discard was not discarded.
LEMMA DiscardMoves ==
  ASSUME TypeOK, StoreInv, NEW c \in Chats, Discard(c), NEW x \in Tasks, fate'[x] \in Kept
  PROVE  /\ fate[x] \in Kept
         /\ x \in Rows(queue[ChatOf[x]]) => x \in Rows(queue'[ChatOf[x]])
         /\ inProgress[ChatOf[x]] = x => inProgress'[ChatOf[x]] = x
<1>1. x \in Events /\ ChatOf[x] \in Chats
  BY TaskDispatchAssumption DEF Events
<1>2. x \notin Rows(queue[c]) \cup {inProgress[c]} /\ fate'[x] = fate[x]
  BY <1>1 DEF Discard, Kept
<1>3. ChatOf[x] # c => queue'[ChatOf[x]] = queue[ChatOf[x]] /\ inProgress'[ChatOf[x]] = inProgress[ChatOf[x]]
  BY <1>1 DEF Discard, TypeOK
<1> QED
  BY <1>2, <1>3

LEMMA SightStep ==
  ASSUME TypeOK, StoreInv, TurnInv, PlaceInv, UpInv, [Next]_vars, Up'
  PROVE  KeptInSight'
<1>1. /\ Up /\ MarksRun /\ KeptInSight
      /\ Users \/ Shell \/ Notifier \/ (\E e \in Events : Deliver(e))
         \/ (\E h \in Handlers : Handle(h)) \/ UNCHANGED vars
  BY UpBefore DEF UpInv
<1> SUFFICES ASSUME NEW x \in Tasks, fate'[x] \in Kept PROVE InSight(x)'
  BY DEF KeptInSight
<1>2. x \in Events /\ ChatOf[x] \in Chats /\ x # None
  BY TaskDispatchAssumption, NoneIsNoEvent DEF Events
<1>3. fate[x] \in Kept => InSight(x)
  BY <1>1 DEF KeptInSight
<1>4. ASSUME NEW e \in Events, Arrive(e) PROVE Rows(inbox') = Rows(inbox) \cup {e}
  <2>1. inbox \in Seq(Events) /\ inbox' = Append(inbox, e)
    BY <1>1, <1>4 DEF Arrive, Up, TypeOK
  <2> QED
    BY <2>1, AppendRows
<1>5. ASSUME NEW e \in Events, Submit(e) \/ Deliver(e) PROVE InSight(x)'
  <2>1. Arrive(e) /\ UNCHANGED <<handler, queue, inProgress, shell>> /\ publishing \subseteq publishing' \cup {e}
    BY <1>5 DEF Submit, Deliver, Arrive, store
  <2>2. Rows(inbox') = Rows(inbox) \cup {e}
    BY <1>4, <2>1
  <2>3. fate'[x] = fate[x]
    BY <1>2, <1>5 DEF Submit, Deliver, TypeOK, Kept
  <2>4. OnTurn(x)' <=> OnTurn(x)
    BY <2>1, SameTurns
  <2> QED
    BY <1>3, <2>1, <2>2, <2>3, <2>4, MovesOn
<1>6. ASSUME NEW c \in Chats, Resume(c) PROVE InSight(x)'
  <2>1. HandOn(c) /\ UNCHANGED <<inbox, handler, inProgress, shell, fate>>
    BY <1>6 DEF Resume, process
  <2> QED
    BY <1>3, <2>1, HandOnMoves, SameTurns, MovesOn
<1>7. ASSUME NEW c \in Chats, Discard(c), UNCHANGED <<inbox, handler, publishing>>, shell = x => shell' = x
      PROVE  InSight(x)'
  BY <1>3, <1>7, DiscardMoves, SameTurns, MovesOn
<1>8. ASSUME NEW c \in Chats, DiscardButton(c) PROVE InSight(x)'
  BY <1>7, <1>8 DEF DiscardButton, process
<1>9. CASE ShellDiscards
  <2>1. shell # x /\ UNCHANGED <<inbox, handler, publishing>>
    BY <1>2, <1>9, NoneIsNoEvent DEF ShellDiscards, Asks
  <2>2. CASE \E c \in CliChats : Discard(c)
    BY <1>7, <2>1, <2>2, TaskDispatchAssumption
  <2>3. CASE UNCHANGED <<store, fate>>
    BY <1>3, <2>1, <2>3, SameTurns, MovesOn DEF store
  <2> QED
    BY <1>9, <2>2, <2>3 DEF ShellDiscards
<1>10. CASE NotifierWakes \/ UNCHANGED vars
  <2>1. UNCHANGED <<inbox, handler, publishing, queue, inProgress, shell, fate>>
    BY <1>10 DEF NotifierWakes, vars, store, process
  <2> QED
    BY <1>3, <2>1, SameTurns, MovesOn
<1>11. ASSUME NEW c \in Chats, NotifierVisits(c) PROVE InSight(x)'
  <2>1. /\ UNCHANGED <<inbox, handler, publishing, shell>>
        /\ queue'[ChatOf[x]] = IF ChatOf[x] = c /\ inProgress[ChatOf[x]] # None
                               THEN <<inProgress[ChatOf[x]]>> \o queue[ChatOf[x]] ELSE queue[ChatOf[x]]
        /\ inProgress'[ChatOf[x]] = IF ChatOf[x] = c THEN None ELSE inProgress[ChatOf[x]]
        /\ fate'[x] = IF x = inProgress[c] THEN "interrupted" ELSE fate[x]
    BY <1>2, <1>11 DEF NotifierVisits, Recover
  <2>2. inProgress[ChatOf[x]] # None =>
          Rows(<<inProgress[ChatOf[x]]>> \o queue[ChatOf[x]]) = {inProgress[ChatOf[x]]} \cup Rows(queue[ChatOf[x]])
    <3>1. queue[ChatOf[x]] \in Seq(Tasks) /\ inProgress[ChatOf[x]] \in Tasks \cup {None}
      BY <1>2 DEF TypeOK
    <3> QED
      BY <3>1, FrontRows
  <2>3. x = inProgress[c] => InSight(x)
    BY <1>2, RowsAreOwn DEF InSight, OnFile
  <2>4. InSight(x)
    BY <1>3, <2>1, <2>3
  <2>5. x \in Rows(queue[ChatOf[x]]) => x \in Rows(queue'[ChatOf[x]])
    BY <2>1, <2>2
  <2>6. inProgress[ChatOf[x]] = x => inProgress'[ChatOf[x]] = x \/ x \in Rows(queue'[ChatOf[x]])
    BY <1>2, <2>1, <2>2
  <2> QED
    BY <2>1, <2>4, <2>5, <2>6, SameTurns, MovesOn
<1>12. ASSUME NEW t \in Tasks, ShellTakes(t) PROVE InSight(x)'
  <2>1. UNCHANGED <<inbox, handler, publishing, queue, inProgress>> /\ shell # x
    BY <1>2, <1>12, NoneIsNoEvent DEF ShellTakes, store
  <2>2. fate'[x] = fate[x]
    BY <1>2, <1>12 DEF ShellTakes, TypeOK, Kept
  <2> QED
    BY <1>3, <2>1, <2>2, SameTurns, MovesOn
<1>13. ASSUME NEW c \in Chats, ShellContinues(c) PROVE InSight(x)'
  <2>1. /\ UNCHANGED <<inbox, handler, publishing, inProgress, fate>> /\ shell # x /\ queue[c] # <<>>
        /\ queue' = [queue EXCEPT ![c] = Tail(@)] /\ shell' = Head(queue[c])
    BY <1>2, <1>13, NoneIsNoEvent DEF ShellContinues, Asks
  <2>2. queue[c] \in Seq(Tasks)
    BY DEF TypeOK
  <2>3. Rows(queue[c]) = {Head(queue[c])} \cup Rows(Tail(queue[c]))
    BY <2>1, <2>2, TailRows
  <2>4. queue'[c] = Tail(queue[c]) /\ \A d \in Chats : d # c => queue'[d] = queue[d]
    BY <2>1 DEF TypeOK
  <2>5. x \in Rows(queue[ChatOf[x]]) => x \in Rows(queue'[ChatOf[x]]) \/ shell' = x
    BY <1>2, <2>1, <2>3, <2>4
  <2> QED
    BY <1>3, <2>1, <2>5, SameTurns, MovesOn
<1>14. CASE ShellPublishes
  <2>1. shell \in Events /\ Arrive(shell) /\ UNCHANGED <<handler, queue, inProgress, publishing, fate>>
    BY <1>14 DEF ShellPublishes, Arrive, store
  <2>2. Rows(inbox') = Rows(inbox) \cup {shell}
    BY <1>4, <2>1
  <2> QED
    BY <1>3, <2>1, <2>2, SameTurns, MovesOn
<1>15. ASSUME NEW h \in Handlers, Handle(h) PROVE InSight(x)'
  <2>1. ASSUME NEW e \in Events, Take(h, e)
        PROVE  Rows(inbox) = {e} \cup Rows(inbox')
    <3>1. inbox \in Seq(Events) /\ inbox # <<>> /\ e = Head(inbox) /\ inbox' = Tail(inbox)
      BY <2>1 DEF Take, TypeOK
    <3> QED
      BY <3>1, TailRows
  <2>2. ASSUME NEW e \in Events, StartTurn(h, e) PROVE InSight(x)'
    <3>1. /\ Take(h, e) /\ UNCHANGED <<publishing, queue, inProgress, shell, fate>>
          /\ handler' = [handler EXCEPT ![h] = [ev |-> e, pc |-> "starting"]]
      BY <2>2 DEF StartTurn, Take, store, process
    <3> QED
      BY <1>3, <2>1, <3>1, TakesTurns, MovesOn
  <2>3. ASSUME NEW e \in Events, Take(h, e), e # x, UNCHANGED <<queue, inProgress>> \/ Discard(ChatOf[e]),
               handler' = [handler EXCEPT ![h] = [ev |-> e, pc |-> "reply"]],
               UNCHANGED <<queue, inProgress>> => fate'[x] = fate[x]
        PROVE  InSight(x)'
    <3>1. UNCHANGED <<publishing, shell>> /\ ChatOf[e] \in Chats
      BY <2>3, TaskDispatchAssumption DEF Take, process
    <3>2. Rows(inbox) = {e} \cup Rows(inbox') /\ (OnTurn(x)' <=> OnTurn(x))
      BY <2>1, <2>3, TakesTurns
    <3>3. /\ fate[x] \in Kept
          /\ x \in Rows(queue[ChatOf[x]]) => x \in Rows(queue'[ChatOf[x]])
          /\ inProgress[ChatOf[x]] = x => inProgress'[ChatOf[x]] = x
      BY <2>3, <3>1, DiscardMoves
    <3> QED
      BY <1>3, <2>3, <3>1, <3>2, <3>3, MovesOn
  <2>4. ASSUME NEW e \in Events, Refuse(h, e) PROVE InSight(x)'
    <3>1. x # e /\ fate'[x] = fate[x]
      BY <1>2, <2>4 DEF Refuse, TypeOK, Kept
    <3> QED
      BY <2>3, <2>4, <3>1 DEF Refuse, store
  <2>5. ASSUME NEW e \in Events, Command(h, e) PROVE InSight(x)'
    <3>1. x # e
      BY <2>5, TaskDispatchAssumption DEF Command
    <3>2. /\ Take(h, e) /\ handler' = [handler EXCEPT ![h] = [ev |-> e, pc |-> "reply"]]
          /\ UNCHANGED <<queue, inProgress, fate>> \/ Discard(ChatOf[e])
      BY <2>5 DEF Command, store
    <3>3. CASE UNCHANGED <<queue, inProgress, fate>>
      BY <2>3, <3>1, <3>2, <3>3
    <3>4. CASE Discard(ChatOf[e])
      <4>1. UNCHANGED <<publishing, shell>> /\ ChatOf[e] \in Chats
        BY <3>2, TaskDispatchAssumption DEF Take, process
      <4>2. Rows(inbox) = {e} \cup Rows(inbox') /\ (OnTurn(x)' <=> OnTurn(x))
        BY <2>1, <3>2, TakesTurns
      <4> QED
        BY <1>3, <3>1, <3>4, <4>1, <4>2, DiscardMoves, MovesOn
    <3> QED
      BY <3>2, <3>3, <3>4
  <2>6. ASSUME NEW e \in Events, Enqueue(h, e) PROVE InSight(x)'
    <3> DEFINE c == ChatOf[e]
               q == Append(queue[c], e)
               n == Newest(q)
    <3>1. /\ Take(h, e) /\ e \in Tasks /\ c \in Chats
          /\ queue' = [queue EXCEPT ![c] = n]
          /\ fate'[x] = IF x \in Rows(q) \ Rows(n) THEN "evicted"
                        ELSE IF x = e THEN "accepted" ELSE fate[x]
          /\ handler' = [handler EXCEPT ![h] = [ev |-> e, pc |-> "reply"]]
          /\ UNCHANGED <<publishing, shell, inProgress>>
      BY <1>2, <2>6, TaskDispatchAssumption DEF Enqueue, Take, process
    <3>2. Rows(q) = Rows(queue[c]) \cup {e}
      <4>1. queue[c] \in Seq(Tasks)
        BY <3>1 DEF TypeOK
      <4> QED
        BY <3>1, <4>1, AppendRows
    <3>3. queue'[c] = n /\ \A d \in Chats : d # c => queue'[d] = queue[d]
      BY <3>1 DEF TypeOK
    <3>4. Rows(inbox) = {e} \cup Rows(inbox') /\ (OnTurn(x)' <=> OnTurn(x))
      BY <2>1, <3>1, TakesTurns
    <3> HIDE DEF n, q, c
    <3>5. x \notin Rows(q) \ Rows(n)
      BY <3>1 DEF Kept
    <3>6. x \in Rows(queue[ChatOf[x]]) => x \in Rows(queue'[ChatOf[x]])
      BY <1>2, <3>2, <3>3, <3>5
    <3>7. CASE x = e
      <4>1. x \in Rows(queue'[ChatOf[x]])
        BY <3>2, <3>3, <3>5, <3>7 DEF c
      <4> QED
        BY <4>1 DEF InSight, OnFile
    <3>8. CASE x # e
      BY <1>3, <3>1, <3>4, <3>5, <3>6, <3>8, MovesOn
    <3> QED
      BY <3>7, <3>8
  <2>7. CASE EndReply(h)
    <3>1. /\ UNCHANGED <<publishing, inbox, queue, inProgress, shell>> /\ Leave(h)
          /\ fate'[x] = fate[x] /\ handler[h].pc = "reply"
      BY <1>2, <2>7 DEF EndReply, store, process, TypeOK, Kept
    <3>2. OnTurn(x) => OnTurn(x)'
      BY <3>1, LeavesTurn DEF TurnPcs
    <3> QED
      BY <1>3, <3>1, <3>2, MovesOn
  <2>8. CASE Started(h) \/ Announced(h)
    <3> DEFINE t == handler[h].ev
    <3>1. /\ UNCHANGED <<publishing, inbox, queue, shell>>
          /\ inProgress' = inProgress \/ inProgress' = [inProgress EXCEPT ![ChatOf[t]] = t]
          /\ x # t => fate'[x] = fate[x]
      BY <1>2, <2>8 DEF Started, Announced, store, process, TypeOK
    <3>2. (OnTurn(x)' <=> OnTurn(x)) /\ OnTurn(t) /\ handler[h].pc \in TurnPcs
      BY <2>8, GoesOnTurn DEF Started, Announced, TurnPcs
    <3>3. InSight(x)
      BY <1>3, <3>1, <3>2 DEF InSight, InFlight, OnTurn
    <3>4. inProgress[ChatOf[x]] = x => inProgress'[ChatOf[x]] = x \/ OnTurn(x)'
      <4>1. inProgress[ChatOf[x]] = x /\ ChatOf[x] = ChatOf[t] => x = t
        BY <1>1, <3>2, MarkIsOfTurn
      <4> QED
        BY <1>2, <3>1, <3>2, <4>1 DEF TypeOK
    <3> QED
      BY <3>1, <3>2, <3>3, <3>4, MovesOn
  <2>9. CASE CancelledEarly(h)
    <3>1. handler[h].pc # "reply" /\ h \in doomed /\ mode # "exiting"
      BY <1>1, <2>9 DEF CancelledEarly, Up
    <3> QED
      BY <3>1 DEF TurnInv, DoomedAreReplying
  <2>10. CASE EndBody(h)
    <3> DEFINE t == handler[h].ev
               c == ChatOf[t]
    <3>1. /\ Leave(h) /\ HandOn(c) /\ UNCHANGED <<inbox, shell>> /\ handler[h].pc = "body"
          /\ inProgress' = [inProgress EXCEPT ![c] = None]
          /\ fate'[x] = IF x = t THEN "done" ELSE fate[x]
      BY <1>2, <2>10 DEF EndBody, Release, process, TypeOK
    <3>2. c \in Chats
      BY <3>1, BusyHandler
    <3>3. x # t /\ fate[x] \in Kept
      BY <3>1 DEF Kept
    <3>4. OnTurn(x) => OnTurn(x)'
      BY <3>1, <3>3, LeavesTurn
    <3>5. inProgress[ChatOf[x]] = x => inProgress'[ChatOf[x]] = x
      <4>1. inProgress[ChatOf[x]] = x => ChatOf[x] # c
        BY <1>1, <3>1, <3>3, MarkIsOfTurn DEF TurnPcs
      <4> QED
        BY <1>2, <3>1, <4>1 DEF TypeOK
    <3> QED
      BY <1>3, <3>1, <3>2, <3>3, <3>4, <3>5, HandOnMoves, MovesOn
  <2> QED
    BY <1>15, <2>2, <2>4, <2>5, <2>6, <2>7, <2>8, <2>9, <2>10 DEF Handle
<1> QED
  BY <1>1, <1>5, <1>6, <1>8, <1>9, <1>10, <1>11, <1>12, <1>13, <1>14, <1>15 DEF Users, Shell, Notifier

LEMMA UpInvariant == Spec => []UpInv
<1>1. Init => UpInv
  <2> SUFFICES ASSUME Init PROVE UpInv
    OBVIOUS
  <2>1. MarksRun /\ Drained
    BY DEF Init, MarksRun, Drained
  <2>2. KeptInSight
    BY DEF Init, KeptInSight, Kept, Events
  <2> QED
    BY <2>1, <2>2 DEF UpInv, Init
<1>2. TypeOK /\ StoreInv /\ TurnInv /\ PlaceInv /\ UpInv /\ [Next]_vars => UpInv'
  BY DownCounted, MarksStep, SightStep, DrainStep DEF UpInv
<1> QED
  BY <1>1, <1>2, TypeCorrect, StoreInvariant, TurnInvariant, PlaceInvariant, PTL DEF Spec

\* Nothing accepted drops out of sight: while the process has not stopped, a
\* prompt its user was told is queued or running is on file or on its way to
\* a handler, however it is published, queued again, evicted or discarded.
THEOREM NothingInLimbo == Spec => []NoLimbo
<1>1. UpInv => NoLimbo
  BY DEF UpInv, Up, KeptInSight, InSight, NoLimbo
<1> QED
  BY <1>1, UpInvariant, PTL

\* The drain of a chat with waiting rows never stalls: its turn is taken, or
\* a prompt of its own is coming for it.
THEOREM DrainNeverStalls == Spec => []DrainGoesOn
<1>1. UpInv => DrainGoesOn
  <2>1. ASSUME NEW t \in Tasks, t \in publishing \cup Rows(inbox) PROVE InFlight(t)
    BY <2>1 DEF InFlight, Rows
  <2> QED
    BY <2>1 DEF UpInv, Up, Drained, Coming, DrainGoesOn
<1> QED
  BY <1>1, UpInvariant, PTL

-----------------------------------------------------------------------------
(* The turns are those of ChatTurns.                                       *)

Statuses == [t \in Tasks |-> TurnStatus(t)]

\* A prompt that has the turn has not ended.
Underway == ~notify => \A t \in Tasks : OnTurn(t) => fate[t] # "done"

\* What ChatTurns sees of a prompt, by its turn and its fate.
SeenAs(on, f) ==
  IF on THEN "running"
  ELSE CASE f = "new"  -> "new"
         [] f = "done" -> "ended"
         [] f \in {"refused", "evicted", "discarded"} -> "dropped"
         [] OTHER -> "waiting"

LEMMA SeenAsIs ==
  /\ \A f : SeenAs(TRUE, f) = "running"
  /\ SeenAs(FALSE, "new") = "new"
  /\ SeenAs(FALSE, "done") = "ended"
  /\ \A f \in {"refused", "evicted", "discarded"} : SeenAs(FALSE, f) = "dropped"
  /\ \A f \in Kept \cup {"sent"} : SeenAs(FALSE, f) = "waiting"
  /\ \A on \in BOOLEAN : \A f : SeenAs(on, f) = "running" => on
BY DEF SeenAs, Kept

LEMMA StatusIs ==
  ASSUME NEW t
  PROVE  /\ TurnStatus(t) = SeenAs(OnTurn(t), fate[t])
         /\ TurnStatus(t)' = SeenAs(OnTurn(t)', fate'[t])
         /\ OnTurn(t) \in BOOLEAN /\ OnTurn(t)' \in BOOLEAN
BY DEF TurnStatus, OnTurn, SeenAs

LEMMA SameStatus ==
  ASSUME NEW t, OnTurn(t)' <=> OnTurn(t), OnTurn(t) \/ fate'[t] = fate[t]
  PROVE  TurnStatus(t)' = TurnStatus(t)
<1>1. OnTurn(t)' = OnTurn(t)
  BY StatusIs
<1>2. CASE OnTurn(t)
  <2>1. OnTurn(t) = TRUE
    BY <1>2, StatusIs
  <2> QED
    BY <1>1, <2>1, StatusIs, SeenAsIs
<1>3. CASE fate'[t] = fate[t]
  BY <1>1, <1>3, StatusIs
<1> QED
  BY <1>2, <1>3

\* A prompt without a turn, by its fate before and after.
LEMMA StatusBefore ==
  ASSUME NEW t, ~OnTurn(t)
  PROVE  /\ fate[t] = "new" => TurnStatus(t) = "new"
         /\ fate[t] \in Kept \cup {"sent"} => TurnStatus(t) = "waiting"
<1>1. OnTurn(t) = FALSE
  BY StatusIs
<1> QED
  BY <1>1, StatusIs, SeenAsIs

LEMMA StatusAfter ==
  ASSUME NEW t, ~OnTurn(t)'
  PROVE  /\ fate'[t] \in Kept \cup {"sent"} => TurnStatus(t)' = "waiting"
         /\ fate'[t] \in {"refused", "evicted", "discarded"} => TurnStatus(t)' = "dropped"
         /\ fate'[t] = "done" => TurnStatus(t)' = "ended"
<1>1. OnTurn(t)' = FALSE
  BY StatusIs
<1> QED
  BY <1>1, StatusIs, SeenAsIs

\* How a step that moves one prompt, drops some, or cuts some off, is one of
\* ChatTurns.
LEMMA AwakeIs == Awake \in BOOLEAN /\ Awake' \in BOOLEAN /\ (mode' = mode => Awake' = Awake)
BY DEF Awake

LEMMA Moved ==
  ASSUME NEW t \in Tasks, NEW from, NEW to, TurnStatus(t) = from, TurnStatus(t)' = to,
         \A x \in Tasks : x # t => TurnStatus(x)' = TurnStatus(x), Awake' = Awake
  PROVE  Turns!Move(t, from, to)
BY DEF Turns!Move

LEMMA Unmoved ==
  ASSUME \A x \in Tasks : TurnStatus(x)' = TurnStatus(x)
  PROVE  UNCHANGED Statuses
BY DEF Statuses

LEMMA Dropped ==
  ASSUME NEW D \in SUBSET Tasks, NEW c, \A x \in D : TurnStatus(x) = "waiting" /\ ChatOf[x] = c,
         \A x \in Tasks : TurnStatus(x)' = IF x \in D THEN "dropped" ELSE TurnStatus(x),
         Awake, Awake' = Awake
  PROVE  Turns!Drop(D)
BY DEF Turns!Drop

LEMMA CutOff ==
  ASSUME NEW C \in SUBSET Tasks, ~Awake',
         \A x \in C : TurnStatus(x) = "running" /\ TurnStatus(x)' \in {"waiting", "dropped"},
         \A x \in Tasks : x \notin C => TurnStatus(x)' = TurnStatus(x)
  PROVE  Turns!Next
<1> DEFINE W == {x \in C : TurnStatus(x)' = "waiting"}
           D == {x \in C : TurnStatus(x)' = "dropped"}
<1>1. Awake' = FALSE
  BY AwakeIs
<1>2. \A x \in W \cup D : TurnStatus(x) = "running"
  OBVIOUS
<1>3. \A x \in Tasks : TurnStatus(x)' = IF x \in W THEN "waiting"
                                       ELSE IF x \in D THEN "dropped" ELSE TurnStatus(x)
  OBVIOUS
<1>4. W \in SUBSET Tasks /\ D \in SUBSET Tasks
  OBVIOUS
<1> HIDE DEF W, D
<1>5. Turns!Stop(W, D)
  BY <1>1, <1>2, <1>3, <1>4 DEF Turns!Stop
<1> QED
  BY <1>4, <1>5 DEF Turns!Next

\* A prompt that is somewhere but in its mark has no turn yet.
LEMMA WaitsThere ==
  ASSUME PlaceInv, ~notify, NEW t \in Tasks, NEW p \in {"publishing", "inbox", "shell", "queue"},
         p \in Places(t)
  PROVE  ~OnTurn(t) /\ TurnStatus(t) = "waiting"
<1>1. InPlace(t) /\ ~notify
  BY DEF PlaceInv, Events
<1>2. Places(t) = {p} /\ ~Running(t)
  BY <1>1, AloneThere
<1>3. ~OnTurn(t)
  BY <1>2 DEF OnTurn, TurnPcs, Running, Places
<1>4. fate[t] \in Kept \cup {"sent"}
  BY <1>1 DEF InPlace, Owed
<1> QED
  BY <1>3, <1>4, StatusBefore

\* A prompt that has not been sent has no turn.
LEMMA NewIsNew ==
  ASSUME PlaceInv, NEW t \in Tasks, fate[t] = "new"
  PROVE  ~OnTurn(t) /\ TurnStatus(t) = "new"
<1>1. Places(t) = {} /\ ~Running(t)
  BY DEF PlaceInv, InPlace, Unsent, Events
<1>2. ~OnTurn(t)
  BY <1>1 DEF OnTurn, TurnPcs, Running, Places
<1> QED
  BY <1>2, StatusBefore

\* A mark on file, with the notifier off, is that of a prompt that runs, or
\* of one that was cut off.
LEMMA MarkedWaits ==
  ASSUME StoreInv, PlaceInv, ~notify, NEW c \in Chats, NEW x \in Tasks, x = inProgress[c]
  PROVE  ChatOf[x] = c /\ (~OnTurn(x) => TurnStatus(x) = "waiting")
<1>1. ChatOf[x] = c
  BY NoneIsNoEvent, RowsAreOwn
<1>2. "mark" \in Places(x)
  BY <1>1 DEF Places
<1>3. fate[x] \in Kept
  BY <1>2 DEF PlaceInv, InPlace, Owed, Events
<1> QED
  BY <1>1, <1>3, StatusBefore

\* A discard drops the waiting prompts of the chat, one that was cut off among
\* them; a prompt whose mark it takes off the file while it runs goes on.
LEMMA DiscardDrops ==
  ASSUME TypeOK, StoreInv, PlaceInv, ~notify, NEW c \in Chats, Discard(c), Awake, Awake' = Awake,
         \A x \in Tasks : OnTurn(x)' <=> OnTurn(x)
  PROVE  Turns!Next
<1> DEFINE D == {x \in Tasks \cap (Rows(queue[c]) \cup {inProgress[c]}) : ~OnTurn(x)}
<1>1. ASSUME NEW x \in D
      PROVE  TurnStatus(x) = "waiting" /\ ChatOf[x] = c /\ TurnStatus(x)' = "dropped"
  <2>1. TurnStatus(x) = "waiting" /\ ChatOf[x] = c
    <3>1. CASE x \in Rows(queue[c])
      <4>1. ChatOf[x] = c /\ "queue" \in Places(x)
        BY <3>1, RowsAreOwn DEF Places
      <4> QED
        BY <4>1, WaitsThere
    <3>2. CASE x = inProgress[c]
      BY <3>2, MarkedWaits
    <3> QED
      BY <3>1, <3>2
  <2>2. fate'[x] = "discarded" /\ ~OnTurn(x)'
    BY DEF Discard, Events
  <2> QED
    BY <2>1, <2>2, StatusAfter
<1>2. ASSUME NEW x \in Tasks, x \notin D PROVE TurnStatus(x)' = TurnStatus(x)
  <2>1. OnTurn(x) \/ fate'[x] = fate[x]
    BY <1>2 DEF Discard, Events
  <2> QED
    BY <2>1, SameStatus
<1>3. Turns!Drop(D)
  BY <1>1, <1>2, Dropped
<1> QED
  BY <1>3 DEF Turns!Next

\* A prompt that is taken has waited, and no other of its chat has the turn
\* when it is free.
LEMMA TakenWaits ==
  ASSUME TypeOK, PlaceInv, ~notify, NEW h \in Handlers, NEW e \in Tasks, Take(h, e)
  PROVE  ~OnTurn(e) /\ TurnStatus(e) = "waiting"
<1>1. e \in Rows(inbox)
  BY TakeRows DEF Events
<1>2. "inbox" \in Places(e)
  BY <1>1 DEF Places
<1> QED
  BY <1>2, WaitsThere

LEMMA TakeStep ==
  ASSUME TypeOK, StoreInv, TurnInv, PlaceInv, ~notify, NEW h \in Handlers, NEW e \in Events,
         StartTurn(h, e) \/ Enqueue(h, e) \/ Refuse(h, e) \/ Command(h, e)
  PROVE  Turns!Next \/ (UNCHANGED Statuses /\ Awake' = Awake)
<1>1. Take(h, e) /\ e \in Events /\ ChatOf[e] \in Chats
  BY TaskDispatchAssumption DEF StartTurn, Enqueue, Refuse, Command
<1>0. Awake /\ Awake' = Awake
  BY <1>1, AwakeIs DEF Take, process
<1>2. CASE StartTurn(h, e)
  <2>1. /\ e \in Tasks /\ UNCHANGED fate
        /\ handler' = [handler EXCEPT ![h] = [ev |-> e, pc |-> "starting"]]
    BY <1>2 DEF StartTurn
  <2>2. TurnStatus(e) = "waiting"
    BY <1>1, <2>1, TakenWaits
  <2>3. \A x \in Tasks : OnTurn(x)' <=> OnTurn(x) \/ x = e
    BY <1>1, <2>1, TakesTurns
  <2>4. TurnStatus(e)' = "running"
    <3>1. OnTurn(e)' = TRUE
      BY <2>1, <2>3, StatusIs
    <3> QED
      BY <3>1, StatusIs, SeenAsIs
  <2>5. \A x \in Tasks : x # e => TurnStatus(x)' = TurnStatus(x)
    BY <2>1, <2>3, SameStatus
  <2>6. Turns!Move(e, "waiting", "running")
    BY <1>0, <2>1, <2>2, <2>4, <2>5, Moved
  <2>7. ASSUME NEW u \in Tasks, Statuses[u] = "running" PROVE ChatOf[u] # ChatOf[e]
    <3>1. OnTurn(u)
      BY <2>7, StatusIs, SeenAsIs DEF Statuses
    <3>2. ChatOf[u] = ChatOf[e] => \E g \in Handlers : HasTurn(g, ChatOf[e])
      BY <3>1 DEF OnTurn, HasTurn
    <3>3. ~locked[ChatOf[e]]
      BY <1>2 DEF StartTurn, TurnFree
    <3> QED
      BY <1>1, <3>2, <3>3 DEF TurnInv, HoldersLock
  <2>8. Turns!Run(e)
    BY <1>0, <2>6, <2>7 DEF Turns!Run, Statuses
  <2> QED
    BY <2>1, <2>8 DEF Turns!Next
<1>3. ASSUME handler' = [handler EXCEPT ![h] = [ev |-> e, pc |-> "reply"]]
      PROVE  \A x \in Tasks : OnTurn(x)' <=> OnTurn(x)
  BY <1>1, <1>3, TakesTurns
<1>4. CASE Enqueue(h, e)
  <2> DEFINE c == ChatOf[e]
             q == Append(queue[c], e)
             n == Newest(q)
             D == Tasks \cap (Rows(q) \ Rows(n))
  <2>1. /\ e \in Tasks
        /\ \A x \in Events : fate'[x] = IF x \in Rows(q) \ Rows(n) THEN "evicted"
                                        ELSE IF x = e THEN "accepted" ELSE fate[x]
        /\ handler' = [handler EXCEPT ![h] = [ev |-> e, pc |-> "reply"]]
    BY <1>4 DEF Enqueue
  <2>2. Rows(q) = Rows(queue[c]) \cup {e}
    <3>1. queue[c] \in Seq(Tasks)
      BY <1>1 DEF TypeOK
    <3> QED
      BY <2>1, <3>1, AppendRows
  <2>3. ~OnTurn(e) /\ TurnStatus(e) = "waiting"
    BY <1>1, <2>1, TakenWaits
  <2>4. \A x \in Tasks : OnTurn(x)' <=> OnTurn(x)
    BY <1>3, <2>1
  <2> HIDE DEF n, q
  <2>5. ASSUME NEW x \in D
        PROVE  TurnStatus(x) = "waiting" /\ ChatOf[x] = c /\ TurnStatus(x)' = "dropped"
    <3>1. ChatOf[x] = c /\ ~OnTurn(x) /\ TurnStatus(x) = "waiting"
      <4>1. CASE x = e
        BY <2>3, <4>1
      <4>2. CASE x \in Rows(queue[c])
        <5>1. ChatOf[x] = c /\ "queue" \in Places(x)
          BY <1>1, <4>2, RowsAreOwn DEF Places
        <5> QED
          BY <5>1, WaitsThere
      <4> QED
        BY <2>2, <4>1, <4>2
    <3>2. fate'[x] = "evicted"
      BY <2>1 DEF Events
    <3> QED
      BY <2>4, <3>1, <3>2, StatusAfter
  <2>6. ASSUME NEW x \in Tasks, x \notin D PROVE TurnStatus(x)' = TurnStatus(x)
    <3>1. CASE x = e
      <4>1. fate'[x] = "accepted"
        BY <2>1, <2>6, <3>1 DEF Events
      <4> QED
        BY <2>3, <2>4, <3>1, <4>1, StatusAfter DEF Kept
    <3>2. CASE x # e
      <4>1. fate'[x] = fate[x]
        BY <2>1, <2>6, <3>2 DEF Events
      <4> QED
        BY <2>4, <4>1, SameStatus
    <3> QED
      BY <3>1, <3>2
  <2>7. Turns!Drop(D)
    BY <1>0, <2>5, <2>6, Dropped
  <2> QED
    BY <2>7 DEF Turns!Next
<1>5. CASE Refuse(h, e)
  <2>1. /\ e \in Tasks /\ fate' = [fate EXCEPT ![e] = "refused"]
        /\ handler' = [handler EXCEPT ![h] = [ev |-> e, pc |-> "reply"]]
    BY <1>5 DEF Refuse
  <2>2. ~OnTurn(e) /\ TurnStatus(e) = "waiting"
    BY <1>1, <2>1, TakenWaits
  <2>3. \A x \in Tasks : OnTurn(x)' <=> OnTurn(x)
    BY <1>3, <2>1
  <2>4. fate'[e] = "refused" /\ \A x \in Events : x # e => fate'[x] = fate[x]
    BY <2>1 DEF TypeOK
  <2>5. TurnStatus(e)' = "dropped"
    BY <2>1, <2>2, <2>3, <2>4, StatusAfter
  <2>6. \A x \in Tasks : x # e => TurnStatus(x)' = TurnStatus(x)
    BY <2>3, <2>4, SameStatus DEF Events
  <2>7. Turns!Drop({e})
    <3>1. \A x \in Tasks : TurnStatus(x)' = IF x \in {e} THEN "dropped" ELSE TurnStatus(x)
      BY <2>5, <2>6
    <3>2. \A x \in {e} : TurnStatus(x) = "waiting" /\ ChatOf[x] = ChatOf[e]
      BY <2>2
    <3>3. {e} \in SUBSET Tasks
      BY <2>1
    <3> QED
      BY <1>0, <3>1, <3>2, <3>3, Dropped
  <2> QED
    BY <2>1, <2>7 DEF Turns!Next
<1>6. CASE Command(h, e)
  <2>1. \A x \in Tasks : OnTurn(x)' <=> OnTurn(x)
    BY <1>3, <1>6 DEF Command
  <2>2. Discard(ChatOf[e]) \/ UNCHANGED fate
    BY <1>6 DEF Command
  <2>3. CASE Discard(ChatOf[e])
    BY <1>0, <1>1, <2>1, <2>3, DiscardDrops
  <2>4. CASE UNCHANGED fate
    BY <1>0, <2>1, <2>4, SameStatus, Unmoved
  <2> QED
    BY <2>2, <2>3, <2>4
<1> QED
  BY <1>2, <1>4, <1>5, <1>6

\* Its user sends a prompt.
LEMMA SendRequests ==
  ASSUME TypeOK, PlaceInv, NEW e \in Events, fate[e] = "new", UNCHANGED handler,
         fate' = [fate EXCEPT ![e] = "sent"], Awake, Awake' = Awake
  PROVE  Turns!Next \/ (UNCHANGED Statuses /\ Awake' = Awake)
<1>1. fate'[e] = "sent" /\ \A x \in Events : x # e => fate'[x] = fate[x]
  BY DEF TypeOK
<1>2. \A x \in Tasks : OnTurn(x)' <=> OnTurn(x)
  BY SameTurns
<1>3. \A x \in Tasks : x # e => TurnStatus(x)' = TurnStatus(x)
  BY <1>1, <1>2, SameStatus DEF Events
<1>4. CASE e \in Tasks
  <2>1. ~OnTurn(e) /\ TurnStatus(e) = "new"
    BY <1>4, NewIsNew
  <2>2. TurnStatus(e)' = "waiting"
    BY <1>1, <1>2, <1>4, <2>1, StatusAfter
  <2>3. Turns!Request(e)
    BY <1>3, <1>4, <2>1, <2>2, Moved DEF Turns!Request
  <2> QED
    BY <1>4, <2>3 DEF Turns!Next
<1>5. CASE e \notin Tasks
  BY <1>3, <1>5, Unmoved
<1> QED
  BY <1>4, <1>5

LEMMA EndStep ==
  ASSUME TypeOK, TurnInv, NEW h \in Handlers, EndBody(h)
  PROVE  Turns!Next
<1>0. handler[h].ev \in Tasks /\ ChatOf[handler[h].ev] \in Chats /\ handler[h].pc \in TurnPcs
  BY BusyHandler DEF EndBody, TurnPcs
<1> PICK t \in Tasks : t = handler[h].ev
  BY <1>0
<1>1. /\ Leave(h) /\ handler[h].pc = "body" /\ fate' = [fate EXCEPT ![t] = "done"]
  BY DEF EndBody
<1>2. ChatOf[t] \in Chats /\ handler[h].pc \in TurnPcs
  BY <1>0
<1>3. fate'[t] = "done" /\ \A x \in Events : x # t => fate'[x] = fate[x]
  BY <1>1, <1>2 DEF TypeOK, Events
<1>4. TurnStatus(t) = "running"
  <2>1. OnTurn(t) = TRUE
    BY <1>2, StatusIs DEF OnTurn
  <2> QED
    BY <2>1, StatusIs, SeenAsIs
<1>5. ~OnTurn(t)'
  BY <1>1, <1>2, LeavesAlone
<1>6. TurnStatus(t)' = "ended"
  BY <1>3, <1>5, StatusAfter
<1>7. \A x \in Tasks : x # t => TurnStatus(x)' = TurnStatus(x)
  <2>1. \A x \in Tasks : x # t => (OnTurn(x)' <=> OnTurn(x))
    BY <1>1, LeavesTurn
  <2> QED
    BY <1>3, <2>1, SameStatus DEF Events
<1>8. Awake' = Awake
  BY AwakeIs DEF EndBody, process
<1>9. Turns!End(t)
  BY <1>2, <1>4, <1>6, <1>7, <1>8, Moved DEF Turns!End
<1> QED
  BY <1>2, <1>9 DEF Turns!Next

\* Other steps of a handler go unnoticed.
LEMMA GoOnStep ==
  ASSUME TypeOK, TurnInv, PlaceInv, NEW h \in Handlers,
         EndReply(h) \/ Started(h) \/ Announced(h)
  PROVE  UNCHANGED Statuses
<1>1. CASE EndReply(h)
  <2> DEFINE e == handler[h].ev
  <2>1. /\ Leave(h) /\ handler[h].pc = "reply"
        /\ fate' = [fate EXCEPT ![e] = IF @ = "sent" THEN "done" ELSE @]
    BY <1>1 DEF EndReply
  <2>2. ASSUME NEW x \in Tasks PROVE fate'[x] = fate[x]
    <3>1. x = e => fate[x] # "sent"
      BY <2>1, <2>2 DEF PlaceInv, Answered
    <3> QED
      BY <2>1, <3>1 DEF TypeOK, Events
  <2>3. \A x \in Tasks : OnTurn(x)' <=> OnTurn(x)
    BY <2>1, LeavesTurn DEF TurnPcs
  <2> QED
    BY <2>2, <2>3, SameStatus, Unmoved
<1>2. CASE Started(h) \/ Announced(h)
  <2>1. OnTurn(handler[h].ev) /\ \A x \in Tasks : OnTurn(x)' <=> OnTurn(x)
    BY <1>2, GoesOnTurn
  <2>2. \A x \in Tasks : x # handler[h].ev => fate'[x] = fate[x]
    BY <1>2 DEF Started, Announced, TypeOK, Events
  <2>3. \A x \in Tasks : TurnStatus(x)' = TurnStatus(x)
    BY <2>1, <2>2, SameStatus
  <2> QED
    BY <2>3, Unmoved
<1> QED
  BY <1>1, <1>2

\* A prompt that loses its turn before it ends waits, or was discarded.
LEMMA CutStatus ==
  ASSUME TypeOK, PlaceInv, Underway, ~notify, NEW x \in Tasks, OnTurn(x), ~OnTurn(x)', fate'[x] = fate[x]
  PROVE  TurnStatus(x) = "running" /\ TurnStatus(x)' \in {"waiting", "dropped"}
<1>1. OnTurn(x) = TRUE
  BY StatusIs
<1>2. fate[x] # "new"
  <2>1. Places(x) # {} \/ Running(x)
    BY DEF OnTurn, TurnPcs, Places, Running
  <2> QED
    BY <2>1 DEF PlaceInv, InPlace, Unsent, Events
<1>3. fate[x] \in Fates /\ fate[x] # "done"
  BY DEF TypeOK, Underway, Events
<1>4. fate'[x] \in Kept \cup {"sent"} \cup {"refused", "evicted", "discarded"}
  BY <1>2, <1>3 DEF Fates, Kept
<1>5. TurnStatus(x)' \in {"waiting", "dropped"}
  BY <1>4, StatusAfter
<1> QED
  BY <1>1, <1>5, StatusIs, SeenAsIs

\* A handler is cancelled between its acquire and its try block only when the
\* loop has ended.
LEMMA CancelledStep ==
  ASSUME TypeOK, TurnInv, PlaceInv, Underway, ~notify, NEW h \in Handlers, CancelledEarly(h)
  PROVE  Turns!Next
<1>1. /\ handler[h].pc \in {"starting", "announcing"} /\ h \in doomed
      /\ Leave(h) /\ UNCHANGED <<mode, fate>>
  BY DEF CancelledEarly, process
<1>2. handler[h].pc \in TurnPcs /\ handler[h].ev \in Tasks
  BY <1>1, BusyHandler DEF TurnPcs
<1> PICK t \in Tasks : t = handler[h].ev
  BY <1>2
<1>3. mode' = "exiting"
  BY <1>1 DEF TurnInv, DoomedAreReplying
<1>4. ~Awake'
  BY <1>3 DEF Awake
<1>5. OnTurn(t) /\ ~OnTurn(t)'
  BY <1>1, <1>2, LeavesAlone
<1>6. TurnStatus(t) = "running" /\ TurnStatus(t)' \in {"waiting", "dropped"}
  BY <1>1, <1>2, <1>5, CutStatus
<1>7. \A x \in Tasks : x # t => TurnStatus(x)' = TurnStatus(x)
  <2>1. \A x \in Tasks : x # t => (OnTurn(x)' <=> OnTurn(x))
    BY <1>1, LeavesTurn
  <2> QED
    BY <1>1, <2>1, SameStatus
<1>8. {t} \in SUBSET Tasks
  OBVIOUS
<1>9. \A x \in {t} : TurnStatus(x) = "running" /\ TurnStatus(x)' \in {"waiting", "dropped"}
  BY <1>6
<1>10. \A x \in Tasks : x \notin {t} => TurnStatus(x)' = TurnStatus(x)
  BY <1>7
<1> QED
  BY <1>4, <1>8, <1>9, <1>10, CutOff

\* A process that stops cuts off what runs.
LEMMA VanishStep ==
  ASSUME TypeOK, PlaceInv, Underway, ~notify, Vanish
  PROVE  Turns!Next
<1>1. UNCHANGED fate /\ ~Awake' /\ \A x : ~OnTurn(x)'
  BY DEF Vanish, Awake, OnTurn, Idle, TurnPcs
<1> DEFINE C == {x \in Tasks : OnTurn(x)}
<1>2. \A x \in C : TurnStatus(x) = "running" /\ TurnStatus(x)' \in {"waiting", "dropped"}
  BY <1>1, CutStatus
<1>3. \A x \in Tasks : x \notin C => TurnStatus(x)' = TurnStatus(x)
  BY <1>1, SameStatus
<1> QED
  BY <1>1, <1>2, <1>3, CutOff

\* A process that starts finds nothing running; what it recovers was waiting.
LEMMA BootStep ==
  ASSUME TypeOK, StoreInv, PlaceInv, ~notify, Boot
  PROVE  Turns!Next
<1>1. /\ mode = "down" /\ mode' = "up" /\ UNCHANGED handler /\ Recover(CliChats)
      /\ \A h \in Handlers : handler[h] = Idle
  BY DEF Boot, PlaceInv, Quiet
<1>2. \A x \in Tasks : ~OnTurn(x) /\ ~OnTurn(x)'
  BY <1>1 DEF OnTurn, Idle, TurnPcs
<1>3. ASSUME NEW x \in Tasks PROVE TurnStatus(x)' = TurnStatus(x)
  <2>1. CASE \E c \in CliChats : x = inProgress[c]
    <3>1. PICK c \in CliChats : x = inProgress[c]
      BY <2>1
    <3>2. c \in Chats
      BY TaskDispatchAssumption
    <3>3. TurnStatus(x) = "waiting"
      BY <1>2, <3>1, <3>2, MarkedWaits
    <3>4. fate'[x] = "interrupted"
      BY <1>1, <3>1 DEF Recover, Events
    <3> QED
      BY <1>2, <3>3, <3>4, StatusAfter DEF Kept
  <2>2. CASE ~\E c \in CliChats : x = inProgress[c]
    <3>1. fate'[x] = fate[x]
      BY <1>1, <2>2 DEF Recover, Events
    <3> QED
      BY <1>2, <3>1, SameStatus
  <2> QED
    BY <2>1, <2>2
<1>4. ~Awake /\ Awake' = TRUE
  BY <1>1, AwakeIs DEF Awake
<1>5. \A x \in Tasks : TurnStatus(x) # "running"
  BY <1>2, StatusIs, SeenAsIs
<1>6. Turns!Start
  BY <1>3, <1>4, <1>5 DEF Turns!Start
<1> QED
  BY <1>6 DEF Turns!Next

\* No prompt that has the turn has ended: only its own handler ends it.
LEMMA UnderwayStep ==
  ASSUME TypeOK, StoreInv, TurnInv, PlaceInv, Underway, [Next]_vars
  PROVE  Underway'
<1>1. UNCHANGED notify
  BY DEF Next, vars
<1>2. SUFFICES ASSUME ~notify PROVE \A t \in Tasks : OnTurn(t)' => fate'[t] # "done"
  BY <1>1 DEF Underway
<1>3. ASSUME \A x \in Tasks : OnTurn(x)' => OnTurn(x),
             \A x \in Tasks : fate'[x] = "done" => fate[x] = "done"
      PROVE  \A t \in Tasks : OnTurn(t)' => fate'[t] # "done"
  BY <1>2, <1>3 DEF Underway
<1>4. ASSUME UNCHANGED handler, \A x \in Tasks : fate'[x] = "done" => fate[x] = "done"
      PROVE  \A t \in Tasks : OnTurn(t)' => fate'[t] # "done"
  BY <1>3, <1>4, SameTurns
<1>5. ASSUME NEW c, Discard(c) PROVE \A x \in Tasks : fate'[x] = "done" => fate[x] = "done"
  BY <1>5 DEF Discard, Events
<1>6. ASSUME NEW C, Recover(C) PROVE \A x \in Tasks : fate'[x] = "done" => fate[x] = "done"
  BY <1>6 DEF Recover, Events
<1>7. ASSUME NEW e \in Events, Submit(e) \/ Deliver(e)
      PROVE  \A t \in Tasks : OnTurn(t)' => fate'[t] # "done"
  BY <1>4, <1>7 DEF Submit, Deliver, Arrive, TypeOK, Events
<1>8. ASSUME NEW h \in Handlers, Handle(h) PROVE \A t \in Tasks : OnTurn(t)' => fate'[t] # "done"
  <2>1. ASSUME NEW e \in Events, StartTurn(h, e) PROVE \A t \in Tasks : OnTurn(t)' => fate'[t] # "done"
    <3>1. /\ Take(h, e) /\ e \in Tasks /\ UNCHANGED fate
          /\ handler' = [handler EXCEPT ![h] = [ev |-> e, pc |-> "starting"]]
      BY <2>1 DEF StartTurn
    <3>2. \A x \in Tasks : OnTurn(x)' <=> OnTurn(x) \/ x = e
      BY <3>1, TakesTurns
    <3>3. fate[e] # "done"
      <4>1. "inbox" \in Places(e)
        BY <3>1, TakeRows DEF Places
      <4>2. fate[e] \in Kept \cup {"sent"}
        BY <1>2, <3>1, <4>1 DEF PlaceInv, InPlace, Owed, Events
      <4> QED
        BY <4>2 DEF Kept
    <3> QED
      BY <1>2, <3>1, <3>2, <3>3 DEF Underway
  <2>2. ASSUME NEW e \in Events, Enqueue(h, e) \/ Refuse(h, e) \/ Command(h, e)
        PROVE  \A t \in Tasks : OnTurn(t)' => fate'[t] # "done"
    <3>1. Take(h, e) /\ handler' = [handler EXCEPT ![h] = [ev |-> e, pc |-> "reply"]]
      BY <2>2 DEF Enqueue, Refuse, Command
    <3>2. \A x \in Tasks : OnTurn(x)' <=> OnTurn(x)
      BY <3>1, TakesTurns
    <3>3. ASSUME NEW x \in Tasks, fate'[x] = "done" PROVE fate[x] = "done"
      <4>1. CASE Enqueue(h, e)
        BY <3>3, <4>1 DEF Enqueue, Events
      <4>2. CASE Refuse(h, e)
        BY <3>3, <4>2 DEF Refuse, TypeOK, Events
      <4>3. CASE Command(h, e)
        BY <1>5, <3>3, <4>3 DEF Command
      <4> QED
        BY <2>2, <4>1, <4>2, <4>3
    <3> QED
      BY <1>3, <3>2, <3>3
  <2>3. CASE EndReply(h)
    <3>1. /\ Leave(h) /\ handler[h].pc = "reply"
          /\ fate' = [fate EXCEPT ![handler[h].ev] = IF @ = "sent" THEN "done" ELSE @]
      BY <2>3 DEF EndReply
    <3>2. ASSUME NEW x \in Tasks PROVE fate'[x] = fate[x]
      <4>1. x = handler[h].ev => fate[x] # "sent"
        BY <3>1, <3>2 DEF PlaceInv, Answered
      <4> QED
        BY <3>1, <4>1 DEF TypeOK, Events
    <3> QED
      BY <1>3, <3>1, <3>2, LeavesTurn
  <2>4. CASE Started(h) \/ Announced(h)
    <3>1. \A x \in Tasks : OnTurn(x)' <=> OnTurn(x)
      BY <2>4, GoesOnTurn
    <3>2. \A x \in Tasks : fate'[x] = "done" => fate[x] = "done"
      BY <2>4 DEF Started, Announced, TypeOK, Events
    <3> QED
      BY <1>3, <3>1, <3>2
  <2>5. CASE EndBody(h)
    <3>1. /\ Leave(h) /\ handler[h].pc = "body"
          /\ fate' = [fate EXCEPT ![handler[h].ev] = "done"]
      BY <2>5 DEF EndBody
    <3>2. \A x \in Tasks : fate'[x] = "done" => x = handler[h].ev \/ fate[x] = "done"
      BY <3>1 DEF TypeOK, Events
    <3>3. \A x \in Tasks : x = handler[h].ev => ~OnTurn(x)'
      BY <3>1, LeavesAlone DEF TurnPcs
    <3>4. \A x \in Tasks : OnTurn(x)' => OnTurn(x)
      BY <3>1, LeavesTurn
    <3> QED
      BY <1>2, <3>2, <3>3, <3>4 DEF Underway
  <2>6. CASE CancelledEarly(h)
    <3>1. Leave(h) /\ UNCHANGED fate
      BY <2>6 DEF CancelledEarly
    <3> QED
      BY <1>3, <3>1, LeavesTurn
  <2> QED
    BY <1>8, <2>1, <2>2, <2>3, <2>4, <2>5, <2>6 DEF Handle
<1>9. ASSUME NEW c \in Chats, Resume(c) \/ DiscardButton(c)
      PROVE  \A t \in Tasks : OnTurn(t)' => fate'[t] # "done"
  BY <1>4, <1>5, <1>9 DEF Resume, DiscardButton
<1>10. CASE Notifier
  BY <1>4, <1>6, <1>10 DEF Notifier, NotifierWakes, NotifierVisits
<1>11. CASE Shell
  <2>1. UNCHANGED handler
    BY <1>11 DEF Shell, ShellTakes, ShellContinues, ShellDiscards, ShellPublishes, Arrive
  <2>2. \A x \in Tasks : fate'[x] = "done" => fate[x] = "done"
    BY <1>5, <1>11 DEF Shell, ShellTakes, ShellContinues, ShellDiscards, ShellPublishes, TypeOK, Events
  <2> QED
    BY <1>4, <2>1, <2>2
<1>12. CASE Process
  <2>1. CASE Reexec \/ Exited \/ Crash
    <3>1. \A x \in Tasks : ~OnTurn(x)'
      BY <2>1 DEF Reexec, Exited, Crash, Vanish, OnTurn, Idle, TurnPcs
    <3> QED
      BY <3>1
  <2>2. CASE Boot
    BY <1>4, <1>6, <2>2 DEF Boot
  <2> QED
    BY <1>4, <1>12, <2>1, <2>2 DEF Process, RequestRestart, ConfirmRestart, ShellExits, ConsumerStops,
                                   LoopEnds, AllButMode
<1>13. CASE UNCHANGED vars
  BY <1>4, <1>13 DEF vars
<1> QED
  BY <1>7, <1>8, <1>9, <1>10, <1>11, <1>12, <1>13 DEF Next, Users

LEMMA UnderwayInvariant == Spec => []Underway
<1>1. Init => Underway
  BY DEF Init, Underway, OnTurn, Idle, TurnPcs
<1>2. TypeOK /\ StoreInv /\ TurnInv /\ PlaceInv /\ Underway /\ [Next]_vars => Underway'
  BY UnderwayStep
<1> QED
  BY <1>1, <1>2, TypeCorrect, StoreInvariant, TurnInvariant, PlaceInvariant, PTL DEF Spec

\* Every step is one of ChatTurns or none, stops and starts included.
LEMMA TurnsStep ==
  ASSUME TypeOK, StoreInv, TurnInv, PlaceInv, Underway, ~notify, [Next]_vars
  PROVE  Turns!Next \/ (UNCHANGED Statuses /\ Awake' = Awake)
<1>1. ASSUME UNCHANGED <<handler, fate>> PROVE UNCHANGED Statuses
  BY <1>1, SameTurns, SameStatus, Unmoved
<1>2. ASSUME NEW e \in Events, Arrive(e) PROVE Awake /\ Awake' = Awake
  <2>1. Awake /\ Awake'
    BY <1>2 DEF Arrive, Awake
  <2> QED
    BY <2>1, AwakeIs
<1>3. ASSUME mode \in {"up", "stopping", "deaf"}, UNCHANGED mode PROVE Awake /\ Awake' = Awake
  BY <1>3, AwakeIs DEF Awake
<1>4. ASSUME NEW c \in Chats, Discard(c), UNCHANGED <<handler, mode>>,
             mode \in {"up", "stopping", "deaf"}
      PROVE  Turns!Next
  <2>1. \A x \in Tasks : OnTurn(x)' <=> OnTurn(x)
    BY <1>4, SameTurns
  <2> QED
    BY <1>3, <1>4, <2>1, DiscardDrops
<1>5. ASSUME NEW e \in Events, Submit(e) PROVE Turns!Next \/ (UNCHANGED Statuses /\ Awake' = Awake)
  <2>1. Arrive(e) /\ fate[e] = "new" /\ fate' = [fate EXCEPT ![e] = "sent"] /\ UNCHANGED handler
    BY <1>5 DEF Submit, Arrive
  <2> QED
    BY <1>2, <2>1, SendRequests
<1>6. ASSUME \/ (\E e \in Events : Deliver(e)) \/ (\E c \in Chats : Resume(c) \/ ShellContinues(c))
             \/ ShellPublishes \/ UNCHANGED vars
      PROVE  UNCHANGED Statuses /\ Awake' = Awake
  <2>1. UNCHANGED <<handler, fate>>
    BY <1>6 DEF Deliver, Arrive, Resume, ShellContinues, ShellPublishes, vars
  <2>2. Awake' = Awake
    <3>1. ASSUME NEW e \in Events, Deliver(e) PROVE Awake' = Awake
      BY <1>2, <3>1 DEF Deliver
    <3>2. CASE ShellPublishes
      BY <1>2, <3>2 DEF ShellPublishes
    <3>3. ASSUME NEW c \in Chats, Resume(c) \/ ShellContinues(c) PROVE Awake' = Awake
      BY <3>3, AwakeIs DEF Resume, ShellContinues, process
    <3>4. CASE UNCHANGED vars
      BY <3>4, AwakeIs DEF vars, process
    <3> QED
      BY <1>6, <3>1, <3>2, <3>3, <3>4
  <2> QED
    BY <1>1, <2>1, <2>2
<1>7. ASSUME NEW c \in Chats, DiscardButton(c) PROVE Turns!Next
  BY <1>4, <1>7 DEF DiscardButton, process
<1>8. ASSUME ShellDiscards PROVE Turns!Next \/ (UNCHANGED Statuses /\ Awake' = Awake)
  <2>1. /\ mode \in {"up", "stopping", "deaf"} /\ UNCHANGED <<handler, mode>>
        /\ (\E c \in CliChats : Discard(c)) \/ UNCHANGED fate
    BY <1>8 DEF ShellDiscards, Asks, Awake
  <2>2. ASSUME NEW c \in CliChats, Discard(c) PROVE Turns!Next
    BY <1>4, <2>1, <2>2, TaskDispatchAssumption
  <2>3. CASE UNCHANGED fate
    BY <1>1, <1>3, <2>1, <2>3
  <2> QED
    BY <2>1, <2>2, <2>3
<1>9. ASSUME NEW t \in Tasks, ShellTakes(t) PROVE Turns!Next \/ (UNCHANGED Statuses /\ Awake' = Awake)
  <2>1. /\ t \in Events /\ fate[t] = "new" /\ UNCHANGED <<handler, mode>> /\ mode = "up"
        /\ fate' = [fate EXCEPT ![t] = "sent"]
    BY <1>9 DEF ShellTakes, Events
  <2> QED
    BY <1>3, <2>1, SendRequests
<1>10. ASSUME NEW h \in Handlers, Handle(h)
       PROVE  Turns!Next \/ (UNCHANGED Statuses /\ Awake' = Awake)
  <2>1. ASSUME NEW e \in Events, StartTurn(h, e) \/ Enqueue(h, e) \/ Refuse(h, e) \/ Command(h, e)
        PROVE  Turns!Next \/ (UNCHANGED Statuses /\ Awake' = Awake)
    BY <2>1, TakeStep
  <2>2. CASE EndReply(h) \/ Started(h) \/ Announced(h)
    <3>1. Awake' = Awake
      BY <2>2, AwakeIs DEF EndReply, Started, Announced, process
    <3> QED
      BY <2>2, <3>1, GoOnStep
  <2>3. CASE EndBody(h)
    BY <2>3, EndStep
  <2>4. CASE CancelledEarly(h)
    BY <2>4, CancelledStep
  <2> QED
    BY <1>10, <2>1, <2>2, <2>3, <2>4 DEF Handle
<1>11. ~Notifier
  <2>1. todo = {} /\ todo # None
    BY TaskDispatchAssumption DEF PlaceInv, Quiet
  <2> QED
    BY <2>1 DEF Notifier, NotifierWakes, NotifierVisits
<1>12. CASE Process
  <2>1. ASSUME (\E c \in Chats : RequestRestart(c)) \/ ConfirmRestart \/ ShellExits \/ ConsumerStops
        PROVE  UNCHANGED Statuses /\ Awake' = Awake
    <3>1. UNCHANGED <<handler, fate>>
      BY <2>1 DEF RequestRestart, ConfirmRestart, ShellExits, ConsumerStops, AllButMode
    <3>2. Awake /\ Awake'
      BY <2>1 DEF RequestRestart, ConfirmRestart, ShellExits, ConsumerStops, Awake
    <3> QED
      BY <1>1, <3>1, <3>2, AwakeIs
  <2>2. CASE LoopEnds
    <3>1. UNCHANGED <<handler, fate>> /\ ~Awake'
      BY <2>2 DEF LoopEnds, Awake
    <3>2. \A x \in Tasks : TurnStatus(x)' = TurnStatus(x)
      BY <3>1, SameTurns, SameStatus
    <3>3. {} \in SUBSET Tasks
      OBVIOUS
    <3> QED
      BY <3>1, <3>2, <3>3, CutOff
  <2>3. CASE Reexec \/ Exited \/ Crash
    BY <2>3, VanishStep DEF Reexec, Exited, Crash
  <2>4. CASE Boot
    BY <2>4, BootStep
  <2> QED
    BY <1>12, <2>1, <2>2, <2>3, <2>4 DEF Process
<1> QED
  BY <1>5, <1>6, <1>7, <1>8, <1>9, <1>10, <1>11, <1>12 DEF Next, Users, Shell

\* With the notifier off the dispatcher implements ChatTurns, for any stops:
\* prompts of a chat run one at a time, one runs again only in another process,
\* and one that ended or was refused, evicted or discarded never does.
THEOREM TurnsAreChatTurns == Spec => RunsOnceAlone
<1>1. Init => Turns!Init
  <2> SUFFICES ASSUME Init PROVE Turns!Init
    OBVIOUS
  <2>1. Awake = TRUE
    BY AwakeIs DEF Init, Awake
  <2>2. ASSUME NEW t \in Tasks PROVE TurnStatus(t) = "new"
    <3>1. ~OnTurn(t) /\ fate[t] = "new"
      BY DEF Init, OnTurn, Idle, TurnPcs, Events
    <3> QED
      BY <3>1, StatusBefore
  <2> QED
    BY <2>1, <2>2 DEF Turns!Init
<1>2. ASSUME TypeOK, StoreInv, TurnInv, PlaceInv, Underway, [Next]_vars
      PROVE  [notify \/ Turns!Next]_Turns!vars
  <2>1. CASE notify
    BY <2>1
  <2>2. CASE Turns!Next
    BY <2>2
  <2>3. CASE UNCHANGED Statuses /\ Awake' = Awake
    BY <2>3 DEF Turns!vars, Statuses
  <2> QED
    BY <1>2, <2>1, <2>2, <2>3, TurnsStep
<1> QED
  BY <1>1, <1>2, TypeCorrect, StoreInvariant, TurnInvariant, PlaceInvariant, UnderwayInvariant, PTL
     DEF Spec, RunsOnceAlone
=============================================================================
