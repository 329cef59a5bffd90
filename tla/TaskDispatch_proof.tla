------------------------- MODULE TaskDispatch_proof -------------------------
(***************************************************************************)
(* Theorems about TaskDispatch: its type invariant, and the ownership of a *)
(* chat's turn, for any chats, prompts, commands, number of handlers, cap, *)
(* and however often and however the process stops.                        *)
(***************************************************************************)
EXTENDS TaskDispatch, SequenceTheorems, TLAPS

-----------------------------------------------------------------------------
(* Type correctness.                                                       *)

\* Trimming a queue to its newest rows gives a queue of the same.
LEMMA NewestType ==
  ASSUME NEW S, NEW s \in Seq(S), s # <<>>
  PROVE  Newest(s) \in Seq(S)
<1>1. CASE MaxPerChat > 0 /\ Len(s) > MaxPerChat
  <2>1. /\ Len(s) - MaxPerChat + 1 \in 1..Len(s)
        /\ Len(s) \in 1..Len(s)
    BY <1>1, TaskDispatchAssumption, LenProperties, SMT
  <2>2. SubSeq(s, Len(s) - MaxPerChat + 1, Len(s)) \in Seq(S)
    BY <2>1, SubSeqProperties
  <2> QED
    BY <1>1, <2>2 DEF Newest
<1>2. CASE ~(MaxPerChat > 0 /\ Len(s) > MaxPerChat)
  BY <1>2 DEF Newest
<1> QED
  BY <1>1, <1>2

\* A busy handler has an event and a chat.
LEMMA BusyHandler ==
  ASSUME TypeOK, NEW h \in Handlers, handler[h].pc # "idle"
  PROVE  /\ handler[h].ev \in Events
         /\ ChatOf[handler[h].ev] \in Chats
         /\ handler[h].pc \in TurnPcs => /\ handler[h].ev \in Tasks
                                        /\ handler[h] \in [ev : Tasks, pc : TurnPcs]
<1>1. handler[h] \in HandlerStates
  BY DEF TypeOK
<1>2. CASE handler[h] \in [ev : Tasks, pc : TurnPcs]
  BY <1>2, TaskDispatchAssumption DEF Events
<1>3. CASE handler[h] \in [ev : Events, pc : {"reply"}]
  BY <1>3, TaskDispatchAssumption DEF TurnPcs
<1>4. CASE handler[h] = Idle
  BY <1>4 DEF Idle
<1> QED
  BY <1>1, <1>2, <1>3, <1>4 DEF HandlerStates

\* The ways one step moves the turn variables, typed once each.
LEMMA ArriveType ==
  ASSUME TypeOK, NEW e \in Events, Arrive(e)
  PROVE  /\ inbox' \in Seq(Events)
         /\ mode' \in {"up", "stopping", "deaf"}
<1>1. Append(inbox, e) \in Seq(Events)
  BY AppendProperties DEF TypeOK
<1> QED
  BY <1>1 DEF TypeOK, Arrive

\* ... taking an event,
LEMMA TakeType ==
  ASSUME TypeOK, NEW h \in Handlers, NEW e \in Events, Take(h, e)
  PROVE  /\ inbox' \in Seq(Events)
         /\ current' \in [Chats -> Handlers \cup {None}]
  BY TaskDispatchAssumption, HeadTailProperties DEF TypeOK, Take

\* ... handing a turn on,
LEMMA HandOnType ==
  ASSUME TypeOK, NEW c \in Chats, HandOn(c)
  PROVE  /\ queue' \in [Chats -> Seq(Tasks)]
         /\ publishing' \subseteq Events
<1>1. CASE queue[c] = <<>>
  BY <1>1 DEF TypeOK, HandOn
<1>2. CASE queue[c] # <<>>
  <2>1. queue[c] \in Seq(Tasks)
    BY DEF TypeOK
  <2>2. Head(queue[c]) \in Tasks /\ Tail(queue[c]) \in Seq(Tasks)
    BY <1>2, <2>1, HeadTailProperties
  <2> QED
    BY <1>2, <2>2 DEF TypeOK, HandOn, Events
<1> QED
  BY <1>1, <1>2

\* ... a handler that leaves,
LEMMA LeaveType ==
  ASSUME TypeOK, NEW h \in Handlers, handler[h].pc # "idle", Leave(h)
  PROVE  /\ handler' \in [Handlers -> HandlerStates]
         /\ current' \in [Chats -> Handlers \cup {None}]
         /\ doomed' \subseteq Handlers
  BY BusyHandler DEF TypeOK, Leave, HandlerStates

\* ... marks put back in front of their queues,
LEMMA RecoverType ==
  ASSUME TypeOK, NEW C \in SUBSET Chats, Recover(C)
  PROVE  /\ queue' \in [Chats -> Seq(Tasks)]
         /\ inProgress' \in [Chats -> Tasks \cup {None}]
         /\ fate' \in [Events -> Fates]
<1>1. ASSUME NEW c \in Chats
      PROVE  (IF c \in C /\ inProgress[c] # None
              THEN <<inProgress[c]>> \o queue[c] ELSE queue[c]) \in Seq(Tasks)
  <2>1. queue[c] \in Seq(Tasks) /\ inProgress[c] \in Tasks \cup {None}
    BY DEF TypeOK
  <2>2. ASSUME inProgress[c] # None
        PROVE  <<inProgress[c]>> \o queue[c] \in Seq(Tasks)
    <3>1. <<inProgress[c]>> \in Seq(Tasks)
      BY <2>1, <2>2
    <3> QED
      BY <2>1, <3>1, ConcatProperties
  <2> QED
    BY <2>1, <2>2
<1>2. queue' \in [Chats -> Seq(Tasks)]
  BY <1>1 DEF Recover
<1> QED
  BY <1>2 DEF TypeOK, Recover, Fates

\* ... and a chat whose rows are discarded.
LEMMA DiscardType ==
  ASSUME TypeOK, NEW c \in Chats, Discard(c)
  PROVE  /\ queue' \in [Chats -> Seq(Tasks)]
         /\ inProgress' \in [Chats -> Tasks \cup {None}]
         /\ fate' \in [Events -> Fates]
  BY DEF TypeOK, Discard, Fates

\* The first state is well typed.
LEMMA TypeInit == Init => TypeOK
<1> SUFFICES ASSUME Init PROVE TypeOK
  OBVIOUS
<1>1. inbox \in Seq(Events)
  BY EmptySeq DEF Init
<1>2. queue \in [Chats -> Seq(Tasks)]
  <2>1. <<>> \in Seq(Tasks)
    BY EmptySeq
  <2> QED
    BY <2>1, Zenon DEF Init
<1>3. handler \in [Handlers -> HandlerStates]
  BY DEF Init, HandlerStates
<1>4. /\ locked \in [Chats -> BOOLEAN]
      /\ current \in [Chats -> Handlers \cup {None}]
      /\ inProgress \in [Chats -> Tasks \cup {None}]
      /\ fate \in [Events -> Fates]
  BY DEF Init, Fates
<1>5. /\ publishing \subseteq Events /\ doomed \subseteq Handlers
      /\ notify \in Notify /\ todo \in (SUBSET Chats) \cup {None}
      /\ mode \in {"up", "stopping", "deaf", "exiting", "down"}
      /\ reexec \in BOOLEAN /\ stops \in Nat
      /\ shell \in Tasks \cup {None, "start"}
  BY DEF Init
<1> QED
  BY <1>1, <1>2, <1>3, <1>4, <1>5 DEF TypeOK

\* Every step keeps the types, action by action.
LEMMA TypeStep ==
  ASSUME TypeOK, [Next]_vars
  PROVE  TypeOK'
<1>1. ASSUME NEW e \in Events, Submit(e), UNCHANGED notify
      PROVE  TypeOK'
  BY <1>1, ArriveType DEF TypeOK, Submit, Arrive, store, Fates
<1>2. ASSUME NEW e \in Events, Deliver(e), UNCHANGED notify
      PROVE  TypeOK'
  BY <1>2, ArriveType DEF TypeOK, Deliver, Arrive, store
<1>3. ASSUME NEW h \in Handlers, NEW e \in Events, StartTurn(h, e), UNCHANGED notify
      PROVE  TypeOK'
  <2>1. Take(h, e)
    BY <1>3 DEF StartTurn
  <2>2. handler' \in [Handlers -> HandlerStates]
    BY <1>3 DEF TypeOK, StartTurn, TurnPcs, HandlerStates
  <2> QED
    BY <1>3, <2>1, <2>2, TakeType DEF TypeOK, StartTurn, Take, store, process
<1>4. ASSUME NEW h \in Handlers, NEW e \in Events, Enqueue(h, e), UNCHANGED notify
      PROVE  TypeOK'
  <2>1. Take(h, e) /\ e \in Tasks /\ ChatOf[e] \in Chats
    BY <1>4, TaskDispatchAssumption DEF Enqueue
  <2>2. handler' \in [Handlers -> HandlerStates]
    BY <1>4 DEF TypeOK, Enqueue, HandlerStates
  <2>3. /\ Append(queue[ChatOf[e]], e) \in Seq(Tasks)
        /\ Append(queue[ChatOf[e]], e) # <<>>
    <3>1. queue[ChatOf[e]] \in Seq(Tasks)
      BY <2>1 DEF TypeOK
    <3> QED
      BY <2>1, <3>1, AppendProperties
  <2>4. queue' \in [Chats -> Seq(Tasks)]
    BY <1>4, <2>3, NewestType DEF TypeOK, Enqueue
  <2>5. fate' \in [Events -> Fates]
    BY <1>4 DEF TypeOK, Enqueue, Fates
  <2> QED
    BY <1>4, <2>1, <2>2, <2>4, <2>5, TakeType DEF TypeOK, Enqueue, Take, process
<1>5. ASSUME NEW h \in Handlers, NEW e \in Events, Refuse(h, e), UNCHANGED notify
      PROVE  TypeOK'
  <2>1. Take(h, e)
    BY <1>5 DEF Refuse
  <2>2. handler' \in [Handlers -> HandlerStates]
    BY <1>5 DEF TypeOK, Refuse, HandlerStates
  <2> QED
    BY <1>5, <2>1, <2>2, TakeType DEF TypeOK, Refuse, Take, store, process, Fates
<1>6. ASSUME NEW h \in Handlers, NEW e \in Events, Command(h, e), UNCHANGED notify
      PROVE  TypeOK'
  <2>1. Take(h, e) /\ ChatOf[e] \in Chats
    BY <1>6, TaskDispatchAssumption DEF Command
  <2>2. handler' \in [Handlers -> HandlerStates]
    BY <1>6 DEF TypeOK, Command, HandlerStates
  <2>3. doomed' \subseteq Handlers
    BY <1>6, <2>1 DEF TypeOK, Command, CancelTarget, Take
  <2>4. /\ queue' \in [Chats -> Seq(Tasks)]
        /\ inProgress' \in [Chats -> Tasks \cup {None}]
        /\ fate' \in [Events -> Fates]
    BY <1>6, <2>1, DiscardType DEF TypeOK, Command, store
  <2> QED
    BY <1>6, <2>1, <2>2, <2>3, <2>4, TakeType DEF TypeOK, Command, Take, process
<1>7. ASSUME NEW h \in Handlers, EndReply(h), UNCHANGED notify
      PROVE  TypeOK'
  <2>1. Leave(h) /\ handler[h].pc # "idle"
    BY <1>7 DEF EndReply
  <2> QED
    BY <1>7, <2>1, LeaveType DEF TypeOK, EndReply, store, process, Fates
<1>8. ASSUME NEW h \in Handlers, Started(h), UNCHANGED notify
      PROVE  TypeOK'
  <2>1. handler[h].pc = "starting"
    BY <1>8 DEF Started
  <2>2. /\ handler[h] \in [ev : Tasks, pc : TurnPcs]
        /\ handler[h].ev \in Tasks
        /\ ChatOf[handler[h].ev] \in Chats
    BY <2>1, BusyHandler DEF TurnPcs
  <2>3. handler' = [handler EXCEPT ![h].pc = "announcing"]
    BY <1>8 DEF Started
  <2>4. handler' \in [Handlers -> HandlerStates]
    BY <2>2, <2>3 DEF TypeOK, HandlerStates, TurnPcs
  <2> QED
    BY <1>8, <2>2, <2>4 DEF TypeOK, Started, process, Fates
<1>9. ASSUME NEW h \in Handlers, Announced(h), UNCHANGED notify
      PROVE  TypeOK'
  <2>1. handler[h].pc = "announcing"
    BY <1>9 DEF Announced
  <2>2. /\ handler[h] \in [ev : Tasks, pc : TurnPcs]
        /\ handler[h].ev \in Tasks
        /\ ChatOf[handler[h].ev] \in Chats
    BY <2>1, BusyHandler DEF TurnPcs
  <2>3. handler' = [handler EXCEPT ![h].pc = "body"]
    BY <1>9 DEF Announced
  <2>4. handler' \in [Handlers -> HandlerStates]
    BY <2>2, <2>3 DEF TypeOK, HandlerStates, TurnPcs
  <2> QED
    BY <1>9, <2>2, <2>4 DEF TypeOK, Announced, store, process
<1>10. ASSUME NEW h \in Handlers, EndBody(h), UNCHANGED notify
       PROVE  TypeOK'
  <2>1. /\ Leave(h) /\ handler[h].pc # "idle"
        /\ HandOn(ChatOf[handler[h].ev])
        /\ ChatOf[handler[h].ev] \in Chats
    BY <1>10, BusyHandler DEF EndBody
  <2> QED
    BY <1>10, <2>1, LeaveType, HandOnType DEF TypeOK, EndBody, Release, process, Fates
<1>11. ASSUME NEW h \in Handlers, CancelledEarly(h), UNCHANGED notify
       PROVE  TypeOK'
  <2>1. Leave(h) /\ handler[h].pc # "idle"
    BY <1>11 DEF CancelledEarly
  <2> QED
    BY <1>11, <2>1, LeaveType DEF TypeOK, CancelledEarly, store, process
<1>12. ASSUME NEW c \in Chats, Resume(c), UNCHANGED notify
       PROVE  TypeOK'
  BY <1>12, HandOnType DEF TypeOK, Resume, process
<1>13. ASSUME NEW c \in Chats, DiscardButton(c), UNCHANGED notify
       PROVE  TypeOK'
  BY <1>13, DiscardType DEF TypeOK, DiscardButton, process
<1>14. ASSUME NotifierWakes, UNCHANGED notify
       PROVE  TypeOK'
  BY <1>14 DEF TypeOK, NotifierWakes, store
<1>15. ASSUME NEW c \in Chats, NotifierVisits(c), UNCHANGED notify
       PROVE  TypeOK'
  <2>1. /\ Recover({c}) /\ {c} \in SUBSET Chats
        /\ todo # None /\ todo' = todo \ {c}
    BY <1>15 DEF NotifierVisits
  <2>2. todo' \in (SUBSET Chats) \cup {None}
    BY <2>1 DEF TypeOK
  <2> QED
    BY <1>15, <2>1, <2>2, RecoverType DEF TypeOK, NotifierVisits
<1>16. ASSUME \/ \E c \in Chats : RequestRestart(c)
              \/ ConfirmRestart \/ ShellExits \/ ConsumerStops,
              UNCHANGED notify
       PROVE  TypeOK'
  BY <1>16 DEF TypeOK, RequestRestart, ConfirmRestart, ShellExits, ConsumerStops,
               AllButMode, store
<1>17. ASSUME LoopEnds, UNCHANGED notify
       PROVE  TypeOK'
  BY <1>17 DEF TypeOK, LoopEnds, store
<1>18. ASSUME Reexec \/ Exited \/ Crash, UNCHANGED notify
       PROVE  TypeOK'
  <2>1. Vanish
    BY <1>18 DEF Reexec, Exited, Crash
  <2>2. inbox' \in Seq(Events)
    BY <2>1, EmptySeq DEF Vanish
  <2>3. /\ handler' \in [Handlers -> HandlerStates]
        /\ locked' \in [Chats -> BOOLEAN]
        /\ current' \in [Chats -> Handlers \cup {None}]
    BY <2>1 DEF Vanish, HandlerStates
  <2>4. /\ UNCHANGED <<queue, inProgress, fate>>
        /\ publishing' = {} /\ doomed' = {} /\ todo' = {} /\ shell' = None
        /\ mode' = "down" /\ reexec' = FALSE /\ stops' \in Nat
    BY <2>1 DEF Vanish, store, TypeOK
  <2> QED
    BY <1>18, <2>2, <2>3, <2>4 DEF TypeOK
<1>19. ASSUME Boot, UNCHANGED notify
       PROVE  TypeOK'
  <2>1. Recover(CliChats) /\ CliChats \in SUBSET Chats
    BY <1>19, TaskDispatchAssumption DEF Boot
  <2> QED
    BY <1>19, <2>1, RecoverType DEF TypeOK, Boot
<1>20. ASSUME UNCHANGED vars
       PROVE  TypeOK'
  BY <1>20 DEF TypeOK, vars, store, process
<1>21. ASSUME NEW t \in Tasks, ShellTakes(t), UNCHANGED notify
       PROVE  TypeOK'
  BY <1>21 DEF TypeOK, ShellTakes, store, Fates
<1>22. ASSUME NEW c \in Chats, ShellContinues(c), UNCHANGED notify
       PROVE  TypeOK'
  <2>1. queue[c] \in Seq(Tasks) /\ queue[c] # <<>>
    BY <1>22 DEF TypeOK, ShellContinues
  <2>2. Head(queue[c]) \in Tasks /\ Tail(queue[c]) \in Seq(Tasks)
    BY <2>1, HeadTailProperties
  <2> QED
    BY <1>22, <2>2 DEF TypeOK, ShellContinues
<1>23. ASSUME ShellDiscards, UNCHANGED notify
       PROVE  TypeOK'
  <2>1. /\ queue' \in [Chats -> Seq(Tasks)]
        /\ inProgress' \in [Chats -> Tasks \cup {None}]
        /\ fate' \in [Events -> Fates]
    BY <1>23, DiscardType, TaskDispatchAssumption DEF TypeOK, ShellDiscards, store
  <2> QED
    BY <1>23, <2>1 DEF TypeOK, ShellDiscards
<1>24. ASSUME ShellPublishes, UNCHANGED notify
       PROVE  TypeOK'
  BY <1>24, ArriveType DEF TypeOK, ShellPublishes, Arrive, store
<1> QED
  BY <1>1, <1>2, <1>3, <1>4, <1>5, <1>6, <1>7, <1>8, <1>9, <1>10, <1>11, <1>12, <1>13,
     <1>14, <1>15, <1>16, <1>17, <1>18, <1>19, <1>20, <1>21, <1>22, <1>23, <1>24
     DEF Next, Users, Shell, Notifier, Process, Handle

\* Every reachable state is well typed: no step of a handler, a user, the
\* notifier or a stop puts a command in a queue, a handler of the wrong kind
\* in a slot, or anything but prompts on file.
THEOREM TypeCorrect == Spec => []TypeOK
<1>1. Init => TypeOK
  BY TypeInit
<1>2. TypeOK /\ [Next]_vars => TypeOK'
  BY TypeStep
<1> QED
  BY <1>1, <1>2, PTL DEF Spec

-----------------------------------------------------------------------------
(* What is on file belongs to its chat, and a stopped process has no shell. *)

TasksOf(c) == {t \in Tasks : ChatOf[t] = c}

OwnRows(c) == queue[c] \in Seq(TasksOf(c)) /\ inProgress[c] \in TasksOf(c) \cup {None}

StoreInv ==
  /\ \A c \in Chats : OwnRows(c)
  /\ mode = "down" => shell = None

\* A step that leaves the store alone and does not stop the process.
LEMMA StoreKept ==
  ASSUME StoreInv, UNCHANGED store, mode' = "down" => mode = "down" /\ UNCHANGED shell
  PROVE  StoreInv'
  BY DEF StoreInv, OwnRows, store

\* Popping a row, to hand on or for the shell, leaves a chat its own rows,
LEMMA OwnHandOn ==
  ASSUME TypeOK, StoreInv, NEW c \in Chats, HandOn(c) \/ queue' = [queue EXCEPT ![c] = Tail(@)],
         queue[c] # <<>> \/ HandOn(c),
         NEW d \in Chats
  PROVE  queue'[d] \in Seq(TasksOf(d))
<1>1. queue[c] \in Seq(TasksOf(c)) /\ queue[d] \in Seq(TasksOf(d))
  BY DEF StoreInv, OwnRows
<1>2. CASE UNCHANGED queue
  BY <1>1, <1>2
<1>3. CASE queue[c] # <<>> /\ queue' = [queue EXCEPT ![c] = Tail(@)]
  <2>1. Tail(queue[c]) \in Seq(TasksOf(c))
    BY <1>1, <1>3, HeadTailProperties
  <2> QED
    BY <1>1, <1>3, <2>1 DEF TypeOK
<1> QED
  BY <1>2, <1>3 DEF HandOn

\* ... a discard empties the rows of its chat,
LEMMA OwnDiscard ==
  ASSUME TypeOK, StoreInv, NEW c \in Chats, Discard(c), NEW d \in Chats
  PROVE  OwnRows(d)'
<1>1. <<>> \in Seq(TasksOf(d))
  BY EmptySeq
<1>2. OwnRows(d)
  BY DEF StoreInv
<1> QED
  BY <1>1, <1>2 DEF TypeOK, Discard, OwnRows

\* ... and a recovery puts a chat's own mark in front of them.
LEMMA OwnRecover ==
  ASSUME TypeOK, StoreInv, NEW C \in SUBSET Chats, Recover(C), NEW d \in Chats
  PROVE  OwnRows(d)'
<1>1. queue[d] \in Seq(TasksOf(d)) /\ inProgress[d] \in TasksOf(d) \cup {None}
  BY DEF StoreInv, OwnRows
<1>2. ASSUME inProgress[d] # None
      PROVE  <<inProgress[d]>> \o queue[d] \in Seq(TasksOf(d))
  <2>1. <<inProgress[d]>> \in Seq(TasksOf(d))
    BY <1>1, <1>2
  <2> QED
    BY <1>1, <2>1, ConcatProperties
<1>3. queue'[d] = IF d \in C /\ inProgress[d] # None
                  THEN <<inProgress[d]>> \o queue[d] ELSE queue[d]
  BY DEF Recover
<1>4. inProgress'[d] = IF d \in C THEN None ELSE inProgress[d]
  BY DEF Recover
<1> QED
  BY <1>1, <1>2, <1>3, <1>4 DEF OwnRows

\* Every step keeps the rows of a chat its own, action by action.
LEMMA StoreStep ==
  ASSUME TypeOK, StoreInv, [Next]_vars
  PROVE  StoreInv'
<1>1. ASSUME NEW e \in Events, Submit(e) \/ Deliver(e)
      PROVE  StoreInv'
  BY <1>1, StoreKept DEF Submit, Deliver, Arrive
<1>2. ASSUME NEW h \in Handlers, NEW e \in Events, StartTurn(h, e) \/ Refuse(h, e)
      PROVE  StoreInv'
  BY <1>2, StoreKept DEF StartTurn, Refuse, Take, process
<1>3. ASSUME NEW h \in Handlers, NEW e \in Events, Enqueue(h, e)
      PROVE  StoreInv'
  <2> DEFINE c == ChatOf[e]
  <2>1. /\ e \in TasksOf(c) /\ c \in Chats
        /\ queue' = [queue EXCEPT ![c] = Newest(Append(queue[c], e))]
        /\ UNCHANGED <<inProgress, mode, shell>>
    BY <1>3, TaskDispatchAssumption DEF Enqueue, Take, process, TasksOf
  <2>2. queue[c] \in Seq(TasksOf(c))
    BY <2>1 DEF StoreInv, OwnRows
  <2>3. Append(queue[c], e) \in Seq(TasksOf(c)) /\ Append(queue[c], e) # <<>>
    BY <2>1, <2>2, AppendProperties
  <2>4. Newest(Append(queue[c], e)) \in Seq(TasksOf(c))
    BY <2>3, NewestType
  <2>5. \A d \in Chats : OwnRows(d)'
    BY <2>1, <2>4 DEF TypeOK, StoreInv, OwnRows
  <2> QED
    BY <2>1, <2>5 DEF StoreInv
<1>4. ASSUME NEW h \in Handlers, NEW e \in Events, Command(h, e)
      PROVE  StoreInv'
  <2>1. /\ Discard(ChatOf[e]) \/ UNCHANGED store
        /\ ChatOf[e] \in Chats /\ UNCHANGED <<mode, shell>>
    BY <1>4, TaskDispatchAssumption DEF Command, Take, process
  <2>2. CASE Discard(ChatOf[e])
    BY <2>1, <2>2, OwnDiscard DEF StoreInv
  <2> QED
    BY <2>1, <2>2, StoreKept
<1>5. ASSUME NEW h \in Handlers, EndReply(h) \/ Announced(h) \/ CancelledEarly(h)
      PROVE  StoreInv'
  BY <1>5, StoreKept DEF EndReply, Announced, CancelledEarly, process
<1>6. ASSUME NEW h \in Handlers, Started(h)
      PROVE  StoreInv'
  <2> DEFINE t == handler[h].ev
  <2>1. /\ inProgress' = [inProgress EXCEPT ![ChatOf[t]] = t]
        /\ handler[h].pc = "starting" /\ UNCHANGED <<queue, mode, shell>>
    BY <1>6 DEF Started, process
  <2>2. ChatOf[t] \in Chats /\ t \in TasksOf(ChatOf[t])
    BY <2>1, BusyHandler DEF TurnPcs, TasksOf
  <2>3. \A d \in Chats : OwnRows(d)'
    BY <2>1, <2>2 DEF TypeOK, StoreInv, OwnRows
  <2> QED
    BY <2>1, <2>3 DEF StoreInv
<1>7. ASSUME NEW h \in Handlers, EndBody(h)
      PROVE  StoreInv'
  <2> DEFINE c == ChatOf[handler[h].ev]
  <2>1. /\ HandOn(c) /\ c \in Chats /\ UNCHANGED <<mode, shell>>
        /\ inProgress' = [inProgress EXCEPT ![c] = None]
    BY <1>7, BusyHandler DEF EndBody, Release, process
  <2>2. \A d \in Chats : queue'[d] \in Seq(TasksOf(d))
    BY <2>1, OwnHandOn
  <2>3. \A d \in Chats : OwnRows(d)'
    BY <2>1, <2>2 DEF TypeOK, StoreInv, OwnRows
  <2> QED
    BY <2>1, <2>3 DEF StoreInv
<1>8. ASSUME NEW c \in Chats, Resume(c)
      PROVE  StoreInv'
  <2>1. HandOn(c) /\ UNCHANGED <<inProgress, mode, shell>>
    BY <1>8 DEF Resume, process
  <2>2. \A d \in Chats : OwnRows(d)'
    BY <2>1, OwnHandOn DEF StoreInv, OwnRows
  <2> QED
    BY <2>1, <2>2 DEF StoreInv
<1>9. ASSUME NEW c \in Chats, DiscardButton(c)
      PROVE  StoreInv'
  BY <1>9, OwnDiscard DEF DiscardButton, StoreInv, process
<1>10. ASSUME NEW c \in Chats, NotifierVisits(c)
       PROVE  StoreInv'
  <2>1. Recover({c}) /\ {c} \in SUBSET Chats /\ UNCHANGED <<mode, shell>>
    BY <1>10 DEF NotifierVisits
  <2> QED
    BY <2>1, OwnRecover DEF StoreInv
<1>11. ASSUME Boot
       PROVE  StoreInv'
  <2>1. Recover(CliChats) /\ CliChats \in SUBSET Chats /\ mode' = "up"
    BY <1>11, TaskDispatchAssumption DEF Boot
  <2> QED
    BY <2>1, OwnRecover DEF StoreInv
<1>12. ASSUME NEW c \in Chats, ShellContinues(c)
       PROVE  StoreInv'
  <2>1. /\ queue' = [queue EXCEPT ![c] = Tail(@)] /\ queue[c] # <<>>
        /\ UNCHANGED <<inProgress, mode>> /\ mode # "down"
    BY <1>12 DEF ShellContinues, Asks, Awake
  <2>2. \A d \in Chats : OwnRows(d)'
    BY <2>1, OwnHandOn DEF StoreInv, OwnRows
  <2> QED
    BY <2>1, <2>2 DEF StoreInv
<1>13. ASSUME ShellDiscards
       PROVE  StoreInv'
  <2>1. mode' # "down"
    BY <1>13 DEF ShellDiscards, Asks, Awake
  <2>2. CASE UNCHANGED store
    BY <2>1, <2>2, StoreKept
  <2>3. ASSUME NEW c \in CliChats, Discard(c)
        PROVE  StoreInv'
    BY <2>1, <2>3, OwnDiscard, TaskDispatchAssumption DEF StoreInv
  <2> QED
    BY <1>13, <2>2, <2>3 DEF ShellDiscards
<1>14. ASSUME NEW t \in Tasks, ShellTakes(t)
       PROVE  StoreInv'
  BY <1>14, StoreKept DEF ShellTakes
<1>15. ASSUME ShellPublishes \/ NotifierWakes \/ ConfirmRestart \/ ShellExits
                \/ ConsumerStops \/ LoopEnds \/ \E c \in Chats : RequestRestart(c)
       PROVE  StoreInv'
  BY <1>15, StoreKept DEF ShellPublishes, Arrive, NotifierWakes, ConfirmRestart, ShellExits,
               ConsumerStops, LoopEnds, RequestRestart, AllButMode, store
<1>16. ASSUME Reexec \/ Exited \/ Crash
       PROVE  StoreInv'
  BY <1>16 DEF Reexec, Exited, Crash, Vanish, StoreInv, OwnRows, store
<1>17. ASSUME UNCHANGED vars
       PROVE  StoreInv'
  BY <1>17, StoreKept DEF vars, process
<1> QED
  BY <1>1, <1>2, <1>3, <1>4, <1>5, <1>6, <1>7, <1>8, <1>9, <1>10, <1>11, <1>12, <1>13,
     <1>14, <1>15, <1>16, <1>17
     DEF Next, Users, Shell, Notifier, Process, Handle

\* A chat's rows and mark are its own prompts in every reachable state.
LEMMA StoreInvariant == Spec => []StoreInv
<1>1. Init => StoreInv
  <2>1. \A c \in Chats : <<>> \in Seq(TasksOf(c))
    BY EmptySeq
  <2> QED
    BY <2>1 DEF Init, StoreInv, OwnRows
<1>2. TypeOK /\ StoreInv /\ [Next]_vars => StoreInv'
  BY StoreStep
<1> QED
  BY <1>1, <1>2, TypeCorrect, PTL DEF Spec

-----------------------------------------------------------------------------
(* Who owns a chat's turn.                                                 *)

\* OneTurnPerChat and LockIffHeld are not inductive.  While the loop ends a
\* cancelled holder leaves its lock behind, so the implication from holder
\* (handler or shell) to lock has to be kept on its own; and a holder never loses its turn before
\* that because only handlers that are sending a reply are ever doomed.
HoldersLock ==
  \A c \in Chats : ShellHas(c) \/ (\E h \in Handlers : HasTurn(h, c)) => locked[c]

DoomedAreReplying ==
  mode # "exiting" => \A h \in doomed : handler[h].pc = "reply"

TurnInv ==
  /\ OneTurnPerChat
  /\ LockIffHeld
  /\ HoldersLock
  /\ DoomedAreReplying

\* A step that leaves the turns and locks alone, and does not come back from
\* the end of the loop, keeps what is said of them.
LEMMA TurnsKept ==
  ASSUME TurnInv, UNCHANGED locked,
         \A c \in Chats : ShellHas(c)' <=> ShellHas(c),
         \A c \in Chats, g \in Handlers : HasTurn(g, c)' <=> HasTurn(g, c),
         mode = "exiting" => mode' = "exiting"
  PROVE  OneTurnPerChat' /\ LockIffHeld' /\ HoldersLock'
  BY DEF TurnInv, OneTurnPerChat, LockIffHeld, HoldersLock

\* A step that does not touch the handlers.
LEMMA HandlersKept ==
  ASSUME TurnInv, UNCHANGED <<handler, locked, doomed>>,
         \A c \in Chats : ShellHas(c)' <=> ShellHas(c),
         mode = "exiting" => mode' = "exiting"
  PROVE  TurnInv'
<1>1. \A c \in Chats, g \in Handlers : HasTurn(g, c)' <=> HasTurn(g, c)
  BY DEF HasTurn
<1>2. OneTurnPerChat' /\ LockIffHeld' /\ HoldersLock'
  BY <1>1, TurnsKept
<1>3. DoomedAreReplying'
  BY DEF TurnInv, DoomedAreReplying
<1> QED
  BY <1>2, <1>3 DEF TurnInv

\* A step that leaves the shell's part alone keeps what it has.
LEMMA ShellKept ==
  ASSUME UNCHANGED shell
  PROVE  \A c \in Chats : ShellHas(c)' <=> ShellHas(c)
  BY DEF ShellHas

\* At the start, or when it reads, the shell has no lock.
LEMMA ShellHasNone ==
  ASSUME NEW s \in {None, "start"}
  PROVE  s \notin Events
  BY TaskDispatchAssumption

\* The shell takes the free lock of a chat.
LEMMA ShellLocks ==
  ASSUME TypeOK, TurnInv, NEW c \in Chats, NEW t \in Tasks, ChatOf[t] = c,
         shell \in {None, "start"}, ~locked[c], shell' = t,
         locked' = [locked EXCEPT ![c] = TRUE],
         UNCHANGED <<handler, doomed, mode>>
  PROVE  TurnInv'
<1>1. \A d \in Chats : ShellHas(d)' <=> d = c
  BY DEF ShellHas, Events
<1>2. \A d \in Chats : ~ShellHas(d)
  BY ShellHasNone DEF ShellHas
<1>3. \A d \in Chats, g \in Handlers : HasTurn(g, d)' <=> HasTurn(g, d)
  BY DEF HasTurn
<1>4. \A g \in Handlers : ~HasTurn(g, c)
  BY DEF TurnInv, HoldersLock
<1>5. \A d \in Chats : locked'[d] <=> locked[d] \/ d = c
  BY DEF TypeOK
<1>6. OneTurnPerChat' /\ HoldersLock'
  BY <1>1, <1>3, <1>4, <1>5 DEF TurnInv, OneTurnPerChat, HoldersLock
<1>7. LockIffHeld'
  BY <1>1, <1>2, <1>3, <1>5 DEF TurnInv, LockIffHeld
<1>8. DoomedAreReplying'
  BY DEF TurnInv, DoomedAreReplying
<1> QED
  BY <1>6, <1>7, <1>8 DEF TurnInv

\* The shell has published and gives its lock back.
LEMMA ShellUnlocks ==
  ASSUME TypeOK, TurnInv, ShellPublishes
  PROVE  TurnInv'
<1> DEFINE c == ChatOf[shell]
<1>1. /\ c \in Chats /\ ShellHas(c)
      /\ shell' = None /\ locked' = [locked EXCEPT ![c] = FALSE]
      /\ UNCHANGED <<handler, doomed>>
      /\ mode # "exiting"
  BY TaskDispatchAssumption DEF ShellPublishes, Arrive, ShellHas
<1>2. \A d \in Chats : ShellHas(d) <=> d = c
  BY <1>1 DEF ShellHas
<1>3. \A d \in Chats : ~ShellHas(d)'
  BY <1>1, ShellHasNone DEF ShellHas
<1>4. \A d \in Chats, g \in Handlers : HasTurn(g, d)' <=> HasTurn(g, d)
  BY <1>1 DEF HasTurn
<1>5. \A g \in Handlers : ~HasTurn(g, c)
  BY <1>1 DEF TurnInv, OneTurnPerChat
<1>6. \A d \in Chats : locked'[d] <=> locked[d] /\ d # c
  BY <1>1 DEF TypeOK
<1>7. OneTurnPerChat' /\ HoldersLock'
  BY <1>3, <1>4, <1>5, <1>6 DEF TurnInv, OneTurnPerChat, HoldersLock
<1>8. LockIffHeld'
  BY <1>1, <1>2, <1>3, <1>4, <1>5, <1>6 DEF TurnInv, LockIffHeld
<1>9. DoomedAreReplying'
  BY <1>1 DEF TurnInv, DoomedAreReplying
<1> QED
  BY <1>7, <1>8, <1>9 DEF TurnInv

\* An event is dealt with without a turn.
LEMMA ReplyStep ==
  ASSUME TypeOK, TurnInv, NEW h \in Handlers, NEW e \in Events, Take(h, e),
         handler' = [handler EXCEPT ![h] = [ev |-> e, pc |-> "reply"]],
         doomed' \subseteq doomed \cup {h}, UNCHANGED locked
  PROVE  TurnInv'
<1>1. \A c \in Chats, g \in Handlers : HasTurn(g, c)' <=> HasTurn(g, c)
  BY DEF TypeOK, HasTurn, TurnPcs, Take, Idle
<1>2. mode' = mode /\ mode # "exiting"
  BY DEF Take, Awake, process
<1>3. OneTurnPerChat' /\ LockIffHeld' /\ HoldersLock'
  BY <1>1, <1>2, TurnsKept, ShellKept DEF Take, process
<1>4. DoomedAreReplying'
  BY <1>2 DEF TypeOK, TurnInv, DoomedAreReplying
<1> QED
  BY <1>3, <1>4 DEF TurnInv

\* A handler that has left has no turn; the turns of the others stay.
LEMMA LeaveTurns ==
  ASSUME TypeOK, NEW h \in Handlers, Leave(h)
  PROVE  \A c \in Chats, g \in Handlers : HasTurn(g, c)' <=> HasTurn(g, c) /\ g # h
  BY DEF TypeOK, HasTurn, TurnPcs, Leave, Idle

\* A handler that leaves takes its cancellation along.
LEMMA LeaveDoomed ==
  ASSUME TypeOK, TurnInv, NEW h \in Handlers, Leave(h), UNCHANGED mode
  PROVE  DoomedAreReplying'
  BY DEF TypeOK, TurnInv, DoomedAreReplying, Leave

\* At first nobody has a turn.
LEMMA TurnInit == Init => TurnInv
  BY TaskDispatchAssumption
     DEF Init, TurnInv, OneTurnPerChat, LockIffHeld, HoldersLock, DoomedAreReplying,
         HasTurn, ShellHas, TurnPcs, Idle

\* Every step keeps the ownership of the turns, action by action.
LEMMA TurnStep ==
  ASSUME TypeOK, StoreInv, TurnInv, [Next]_vars
  PROVE  TurnInv'
<1>1. ASSUME NEW e \in Events, Submit(e) \/ Deliver(e)
      PROVE  TurnInv'
  BY <1>1, HandlersKept, ShellKept DEF Submit, Deliver, Arrive
<1>2. ASSUME NEW h \in Handlers, NEW e \in Events, StartTurn(h, e)
      PROVE  TurnInv'
  <2> DEFINE c == ChatOf[e]
  <2>1. /\ ~locked[c] /\ c \in Chats /\ handler[h] = Idle /\ UNCHANGED shell
        /\ mode' = mode /\ mode # "exiting" /\ doomed' = doomed
        /\ locked' = [locked EXCEPT ![c] = TRUE]
        /\ handler' = [handler EXCEPT ![h] = [ev |-> e, pc |-> "starting"]]
    BY <1>2, TaskDispatchAssumption DEF StartTurn, Take, TurnFree, Awake, process
  <2>2. ASSUME NEW d \in Chats, NEW g \in Handlers
        PROVE  HasTurn(g, d)' <=> HasTurn(g, d) \/ (g = h /\ d = c)
    <3>1. CASE g = h
      BY <2>1, <3>1 DEF TypeOK, HasTurn, TurnPcs, Idle
    <3>2. CASE g # h
      BY <2>1, <3>2 DEF TypeOK, HasTurn
    <3> QED
      BY <3>1, <3>2
  <2>3. ~ShellHas(c) /\ \A g \in Handlers : ~HasTurn(g, c)
    BY <2>1 DEF TurnInv, HoldersLock
  <2>4. \A d \in Chats : locked'[d] <=> locked[d] \/ d = c
    BY <2>1 DEF TypeOK
  <2>5. OneTurnPerChat' /\ HoldersLock'
    BY <2>1, <2>2, <2>3, <2>4, ShellKept DEF TurnInv, OneTurnPerChat, HoldersLock
  <2>6. LockIffHeld'
    BY <2>1, <2>2, <2>4, ShellKept DEF TurnInv, LockIffHeld
  <2>7. DoomedAreReplying'
    BY <2>1 DEF TypeOK, TurnInv, DoomedAreReplying, Idle
  <2> QED
    BY <2>5, <2>6, <2>7 DEF TurnInv
<1>3. ASSUME NEW h \in Handlers, NEW e \in Events, Enqueue(h, e) \/ Refuse(h, e)
      PROVE  TurnInv'
  BY <1>3, ReplyStep DEF Enqueue, Refuse
<1>4. ASSUME NEW h \in Handlers, NEW e \in Events, Command(h, e)
      PROVE  TurnInv'
  <2>1. current'[ChatOf[e]] = h
    BY <1>4, TaskDispatchAssumption DEF Command, Take, TypeOK
  <2>2. doomed' \subseteq doomed \cup {h}
    BY <1>4, <2>1 DEF Command, CancelTarget
  <2> QED
    BY <1>4, <2>2, ReplyStep DEF Command
<1>5. ASSUME NEW h \in Handlers, EndReply(h)
      PROVE  TurnInv'
  <2>1. Leave(h) /\ UNCHANGED <<locked, mode, shell>>
    BY <1>5 DEF EndReply, process
  <2>2. \A c \in Chats : ~HasTurn(h, c)
    BY <1>5 DEF EndReply, HasTurn, TurnPcs
  <2>3. \A c \in Chats, g \in Handlers : HasTurn(g, c)' <=> HasTurn(g, c)
    BY <2>1, <2>2, LeaveTurns
  <2>4. OneTurnPerChat' /\ LockIffHeld' /\ HoldersLock'
    BY <2>1, <2>3, TurnsKept, ShellKept
  <2> QED
    BY <2>1, <2>4, LeaveDoomed DEF TurnInv
<1>6. ASSUME NEW h \in Handlers, Started(h) \/ Announced(h)
      PROVE  TurnInv'
  <2>1. PICK p \in TurnPcs : /\ handler' = [handler EXCEPT ![h].pc = p]
                             /\ handler[h].pc \in TurnPcs
    BY <1>6 DEF Started, Announced, TurnPcs
  <2>2. UNCHANGED <<locked, doomed, mode, shell>>
    BY <1>6 DEF Started, Announced, process
  <2>3. /\ handler[h] \in [ev : Tasks, pc : TurnPcs]
        /\ handler'[h].pc = p /\ handler'[h].ev = handler[h].ev
        /\ \A g \in Handlers : g # h => handler'[g] = handler[g]
    BY <2>1, BusyHandler DEF TypeOK, TurnPcs
  <2>4. \A c \in Chats, g \in Handlers : HasTurn(g, c)' <=> HasTurn(g, c)
    BY <2>1, <2>3 DEF HasTurn
  <2>5. OneTurnPerChat' /\ LockIffHeld' /\ HoldersLock'
    BY <2>2, <2>4, TurnsKept, ShellKept
  <2>6. mode # "exiting" => h \notin doomed
    BY <2>1 DEF TurnInv, DoomedAreReplying, TurnPcs
  <2>7. DoomedAreReplying'
    BY <2>2, <2>3, <2>6 DEF TypeOK, TurnInv, DoomedAreReplying
  <2> QED
    BY <2>5, <2>7 DEF TurnInv
<1>7. ASSUME NEW h \in Handlers, EndBody(h)
      PROVE  TurnInv'
  <2> DEFINE c == ChatOf[handler[h].ev]
  <2>1. /\ Leave(h) /\ UNCHANGED <<mode, shell>>
        /\ locked' = [locked EXCEPT ![c] = FALSE]
        /\ handler[h].pc = "body"
    BY <1>7 DEF EndBody, Release, process
  <2>2. c \in Chats /\ HasTurn(h, c)
    BY <2>1, BusyHandler DEF HasTurn, TurnPcs
  <2>3. ~ShellHas(c) /\ \A g \in Handlers : HasTurn(g, c) => g = h
    BY <2>2 DEF TurnInv, OneTurnPerChat
  <2>4. \A d \in Chats : HasTurn(h, d) => d = c
    BY DEF HasTurn
  <2>5. \A d \in Chats : locked'[d] <=> locked[d] /\ d # c
    BY <2>1 DEF TypeOK
  <2>6. \A d \in Chats, g \in Handlers : HasTurn(g, d)' <=> HasTurn(g, d) /\ g # h
    BY <2>1, LeaveTurns
  <2>7. OneTurnPerChat' /\ HoldersLock'
    BY <2>1, <2>3, <2>5, <2>6, ShellKept DEF TurnInv, OneTurnPerChat, HoldersLock
  <2>8. LockIffHeld'
    BY <2>1, <2>3, <2>4, <2>5, <2>6, ShellKept DEF TurnInv, LockIffHeld
  <2> QED
    BY <2>1, <2>7, <2>8, LeaveDoomed DEF TurnInv
<1>8. ASSUME NEW h \in Handlers, CancelledEarly(h)
      PROVE  TurnInv'
  <2>1. /\ Leave(h) /\ UNCHANGED <<locked, mode, shell>>
        /\ h \in doomed /\ handler[h].pc # "reply"
    BY <1>8 DEF CancelledEarly, process
  <2>2. mode = "exiting"
    BY <2>1 DEF TurnInv, DoomedAreReplying
  <2>3. \A d \in Chats, g \in Handlers : HasTurn(g, d)' <=> HasTurn(g, d) /\ g # h
    BY <2>1, LeaveTurns
  <2>4. OneTurnPerChat' /\ HoldersLock' /\ LockIffHeld'
    BY <2>1, <2>2, <2>3, ShellKept DEF TurnInv, OneTurnPerChat, HoldersLock, LockIffHeld
  <2> QED
    BY <2>1, <2>4, LeaveDoomed DEF TurnInv
<1>9. ASSUME NEW c \in Chats, Resume(c) \/ DiscardButton(c) \/ NotifierVisits(c)
                              \/ RequestRestart(c)
      PROVE  TurnInv'
  <2>1. /\ UNCHANGED <<handler, locked, doomed, shell>>
        /\ mode = "exiting" => mode' = "exiting"
    BY <1>9 DEF Resume, DiscardButton, NotifierVisits, RequestRestart, AllButMode, process
  <2> QED
    BY <2>1, HandlersKept, ShellKept
<1>10. ASSUME NotifierWakes \/ ConfirmRestart \/ ShellExits \/ ConsumerStops
       PROVE  TurnInv'
  <2>1. /\ UNCHANGED <<handler, locked, doomed, shell>>
        /\ mode = "exiting" => mode' = "exiting"
    BY <1>10 DEF NotifierWakes, ConfirmRestart, ShellExits, ConsumerStops, AllButMode
  <2> QED
    BY <2>1, HandlersKept, ShellKept
<1>11. ASSUME LoopEnds
       PROVE  TurnInv'
  BY <1>11 DEF LoopEnds, TurnInv, OneTurnPerChat, HoldersLock, LockIffHeld,
               DoomedAreReplying, HasTurn, ShellHas
<1>12. ASSUME Reexec \/ Exited \/ Crash
       PROVE  TurnInv'
  <2>1. Vanish
    BY <1>12 DEF Reexec, Exited, Crash
  <2> QED
    BY <2>1, TaskDispatchAssumption
       DEF Vanish, TurnInv, OneTurnPerChat, HoldersLock, LockIffHeld,
           DoomedAreReplying, HasTurn, ShellHas, TurnPcs, Idle
<1>13. ASSUME UNCHANGED vars
       PROVE  TurnInv'
  BY <1>13, HandlersKept, ShellKept DEF vars, process
<1>14. ASSUME NEW t \in Tasks, ShellTakes(t)
       PROVE  TurnInv'
  BY <1>14, ShellLocks, TaskDispatchAssumption DEF ShellTakes, Events
<1>15. ASSUME NEW c \in Chats, ShellContinues(c)
       PROVE  TurnInv'
  <2>1. queue[c] \in Seq(TasksOf(c)) /\ queue[c] # <<>>
    BY <1>15 DEF StoreInv, OwnRows, ShellContinues
  <2>2. Head(queue[c]) \in TasksOf(c)
    BY <2>1, HeadTailProperties
  <2> QED
    BY <1>15, <2>2, ShellLocks DEF ShellContinues, Asks, Awake, TasksOf
<1>16. ASSUME ShellDiscards \/ Boot
       PROVE  TurnInv'
  <2>1. /\ UNCHANGED <<handler, locked, doomed>> /\ mode' # "exiting" /\ mode # "exiting"
        /\ shell \in {None, "start"} /\ shell' \in {None, "start"}
    BY <1>16 DEF ShellDiscards, Asks, Awake, Boot, StoreInv
  <2>2. \A c \in Chats : ShellHas(c)' <=> ShellHas(c)
    BY <2>1, ShellHasNone DEF ShellHas
  <2> QED
    BY <2>1, <2>2, HandlersKept
<1> QED
  BY <1>1, <1>2, <1>3, <1>4, <1>5, <1>6, <1>7, <1>8, <1>9, <1>10, <1>11, <1>12, <1>13,
     <1>14, <1>15, <1>16, ShellUnlocks
     DEF Next, Users, Shell, Notifier, Process, Handle

\* The inductive invariant holds in every reachable state.
LEMMA TurnInvariant == Spec => []TurnInv
<1>1. Init => TurnInv
  BY TurnInit
<1>2. TypeOK /\ StoreInv /\ TurnInv /\ [Next]_vars => TurnInv'
  BY TurnStep
<1> QED
  BY <1>1, <1>2, TypeCorrect, StoreInvariant, PTL DEF Spec

\* For any number of handlers: no two of them ever have the turn of the same
\* chat, whatever is cancelled and however the process stops.
THEOREM MutualExclusion == Spec => []OneTurnPerChat
<1>1. TurnInv => OneTurnPerChat
  BY DEF TurnInv
<1> QED
  BY <1>1, TurnInvariant, PTL

\* No lock leaks: until the loop ends, a chat is locked exactly while some
\* handler has its turn.  A cancellation between the acquire and the try block
\* of process() would leak the lock; no /queue cancel ever strikes there.
THEOREM NoLeakedLock == Spec => []LockIffHeld
<1>1. TurnInv => LockIffHeld
  BY DEF TurnInv
<1> QED
  BY <1>1, TurnInvariant, PTL

-----------------------------------------------------------------------------
(* The cancel slot.                                                        *)

\* A busy handler is not Idle.
LEMMA BusyIsNotIdle ==
  ASSUME NEW e \in Events, NEW p \in TurnPcs \cup {"reply"}
  PROVE  [ev |-> e, pc |-> p] # Idle
  BY DEF Idle, TurnPcs

\* Taking an event takes the slot of its chat, and of no other.
LEMMA TakeSlot ==
  ASSUME TypeOK, SlotIsOwn, NEW h \in Handlers, NEW e \in Events, Take(h, e),
         NEW p \in TurnPcs \cup {"reply"},
         handler' = [handler EXCEPT ![h] = [ev |-> e, pc |-> p]]
  PROVE  SlotIsOwn'
<1> SUFFICES ASSUME NEW c \in Chats, current'[c] # None
             PROVE  /\ handler'[current'[c]] # Idle
                    /\ ChatOf[handler'[current'[c]].ev] = c
  BY DEF SlotIsOwn
<1>1. handler[h] = Idle /\ current' = [current EXCEPT ![ChatOf[e]] = h]
  BY DEF Take
<1>2. handler'[h] = [ev |-> e, pc |-> p]
  BY DEF TypeOK
<1>3. CASE c = ChatOf[e]
  <2>1. current'[c] = h
    BY <1>1, <1>3 DEF TypeOK
  <2> QED
    BY <1>2, <1>3, <2>1, BusyIsNotIdle
<1>4. CASE c # ChatOf[e]
  <2>1. current'[c] = current[c] /\ current[c] \in Handlers
    BY <1>1, <1>4 DEF TypeOK
  <2>2. handler[current[c]] # Idle /\ ChatOf[handler[current[c]].ev] = c
    BY <2>1 DEF SlotIsOwn
  <2>3. handler'[current[c]] = handler[current[c]]
    BY <1>1, <2>1, <2>2 DEF TypeOK
  <2> QED
    BY <2>1, <2>2, <2>3
<1> QED
  BY <1>3, <1>4

\* A handler that leaves gives back the only slot that can be its own.
LEMMA LeaveGivesSlot ==
  ASSUME TypeOK, SlotIsOwn, NEW h \in Handlers, Leave(h)
  PROVE  SlotIsOwn'
<1> SUFFICES ASSUME NEW c \in Chats, current'[c] # None
             PROVE  /\ handler'[current'[c]] # Idle
                    /\ ChatOf[handler'[current'[c]].ev] = c
  BY DEF SlotIsOwn
<1>1. current'[c] = current[c] /\ current[c] \in Handlers
  BY DEF TypeOK, Leave
<1>2. handler[current[c]] # Idle /\ ChatOf[handler[current[c]].ev] = c
  BY <1>1 DEF SlotIsOwn
<1>3. current[c] # h
  BY <1>1, <1>2 DEF TypeOK, Leave
<1>4. handler'[current[c]] = handler[current[c]]
  BY <1>1, <1>3 DEF TypeOK, Leave
<1> QED
  BY <1>1, <1>2, <1>4

\* A handler that goes on keeps its event.
LEMMA GoOnKeepsSlot ==
  ASSUME TypeOK, SlotIsOwn, NEW h \in Handlers, Started(h) \/ Announced(h)
  PROVE  SlotIsOwn'
<1> SUFFICES ASSUME NEW c \in Chats, current'[c] # None
             PROVE  /\ handler'[current'[c]] # Idle
                    /\ ChatOf[handler'[current'[c]].ev] = c
  BY DEF SlotIsOwn
<1>1. PICK p \in TurnPcs : /\ handler' = [handler EXCEPT ![h].pc = p]
                           /\ handler[h].pc \in TurnPcs
  BY DEF Started, Announced, TurnPcs
<1>2. /\ ChatOf[handler[h].ev] \in Chats
      /\ handler[h] \in [ev : Tasks, pc : TurnPcs]
  BY <1>1, BusyHandler DEF TurnPcs
<1>3. /\ handler'[h].ev = handler[h].ev /\ handler'[h].pc = p
      /\ \A g \in Handlers : g # h => handler'[g] = handler[g]
  BY <1>1, <1>2 DEF TypeOK
<1>4. handler'[h] # Idle
  BY <1>3 DEF Idle, TurnPcs
<1>5. (current'[c] = h /\ c = ChatOf[handler[h].ev]) \/ current'[c] = current[c]
  BY <1>2 DEF TypeOK, Started, Announced
<1>6. CASE current'[c] = h /\ c = ChatOf[handler[h].ev]
  BY <1>3, <1>4, <1>6
<1>7. CASE current'[c] = current[c]
  <2>1. /\ current[c] \in Handlers /\ handler[current[c]] # Idle
        /\ ChatOf[handler[current[c]].ev] = c
    BY <1>7 DEF TypeOK, SlotIsOwn
  <2> QED
    BY <1>3, <1>4, <1>7, <2>1
<1> QED
  BY <1>5, <1>6, <1>7

\* Every step keeps the slots in the right hands.
LEMMA SlotStep ==
  ASSUME TypeOK, SlotIsOwn, [Next]_vars
  PROVE  SlotIsOwn'
<1>1. ASSUME UNCHANGED <<handler, current>>
      PROVE  SlotIsOwn'
  BY <1>1 DEF SlotIsOwn
<1>2. ASSUME NEW e \in Events, Submit(e) \/ Deliver(e)
      PROVE  SlotIsOwn'
  BY <1>1, <1>2 DEF Submit, Deliver, Arrive
<1>3. ASSUME NEW h \in Handlers, NEW e \in Events,
             StartTurn(h, e) \/ Enqueue(h, e) \/ Refuse(h, e) \/ Command(h, e)
      PROVE  SlotIsOwn'
  <2>1. CASE StartTurn(h, e)
    BY <2>1, TakeSlot DEF StartTurn, TurnPcs
  <2>2. CASE Enqueue(h, e) \/ Refuse(h, e) \/ Command(h, e)
    BY <2>2, TakeSlot DEF Enqueue, Refuse, Command
  <2> QED
    BY <1>3, <2>1, <2>2
<1>4. ASSUME NEW h \in Handlers, EndReply(h) \/ EndBody(h) \/ CancelledEarly(h)
      PROVE  SlotIsOwn'
  BY <1>4, LeaveGivesSlot DEF EndReply, EndBody, CancelledEarly
<1>5. ASSUME NEW h \in Handlers, Started(h) \/ Announced(h)
      PROVE  SlotIsOwn'
  BY <1>5, GoOnKeepsSlot
<1>6. ASSUME NEW c \in Chats, Resume(c) \/ DiscardButton(c) \/ NotifierVisits(c)
                              \/ RequestRestart(c)
      PROVE  SlotIsOwn'
  BY <1>1, <1>6 DEF Resume, DiscardButton, NotifierVisits, RequestRestart, AllButMode
<1>7. ASSUME NotifierWakes \/ ConfirmRestart \/ ShellExits \/ ConsumerStops \/ LoopEnds \/ Boot
      PROVE  SlotIsOwn'
  BY <1>1, <1>7 DEF NotifierWakes, ConfirmRestart, ShellExits, ConsumerStops, LoopEnds,
                    Boot, AllButMode
<1>8. ASSUME Reexec \/ Exited \/ Crash
      PROVE  SlotIsOwn'
  BY <1>8 DEF Reexec, Exited, Crash, Vanish, SlotIsOwn
<1>9. ASSUME UNCHANGED vars
      PROVE  SlotIsOwn'
  BY <1>1, <1>9 DEF vars
<1>10. ASSUME Shell
       PROVE  SlotIsOwn'
  BY <1>1, <1>10 DEF Shell, ShellTakes, ShellContinues, ShellDiscards, ShellPublishes, Arrive
<1> QED
  BY <1>2, <1>3, <1>4, <1>5, <1>6, <1>7, <1>8, <1>9, <1>10
     DEF Next, Users, Notifier, Process, Handle

\* A cancel cannot hit a handler that has left, or one that works for another
\* chat: the slot a /queue cancel reads names a busy handler of its chat.
THEOREM SlotOwnership == Spec => []SlotIsOwn
<1>1. Init => SlotIsOwn
  BY DEF Init, SlotIsOwn
<1>2. TypeOK /\ SlotIsOwn /\ [Next]_vars => SlotIsOwn'
  BY SlotStep
<1> QED
  BY <1>1, <1>2, TypeCorrect, PTL DEF Spec
=============================================================================
