----------------------------- MODULE TaskDispatch -----------------------------
(***************************************************************************)
(* How a prompt gets its turn.  core/lifecycle_manager.py consumes the     *)
(* system.events topic and runs one handler per event, a semaphore at a    *)
(* time; cortex/decision_processor.py (process) gives a chat's turn to one *)
(* handler, queues the prompts that find the chat busy, and on release     *)
(* publishes the next queued prompt again.  Around it: the queue commands  *)
(* and buttons, the notifier that runs after a start, and the ways a       *)
(* process stops.                                                          *)
(*                                                                         *)
(* asyncio runs one coroutine at a time: an action is what a handler does  *)
(* between two awaits that may suspend it.  The task file is               *)
(* <<queue, inProgress>>: here every write succeeds and no time to live or *)
(* global cap is set (TaskQueue has those).                                *)
(***************************************************************************)
EXTENDS Integers, Sequences, FiniteSets

CONSTANTS
  Chats,         \* chat identifiers
  Tasks,         \* prompts, each sent once by its user
  Commands,      \* /queue commands, each sent once
  ChatOf,        \* the chat of a prompt or command
  TextOf,        \* the text of a prompt: equal texts are duplicates
  KindOf,        \* "status", "discard" or "cancel": what a command asks
  Handlers,      \* as many as ADAMI_EVENT_CONSUMER_MAX_CONCURRENT
  None,          \* Python's None
  MaxPerChat,    \* ADAMI_TASK_QUEUE_MAX_PER_CHAT, 0 = no cap
  Reject,        \* is ADAMI_TASK_QUEUE_OVERFLOW_MODE "reject"?
  Notify,        \* values of ADAMI_TASK_QUEUE_NOTIFY_ON_BOOT an installation may have
  CliChats,      \* the chats of the interactive shell ("cli")
  Stops,         \* ways the process may stop: "crash", "restart", "exit"
  MaxStops       \* bound of the model: how often it stops

Events == Tasks \cup Commands

ASSUME TaskDispatchAssumption ==
  /\ ChatOf \in [Events -> Chats]
  /\ DOMAIN TextOf = Tasks
  /\ KindOf \in [Commands -> {"status", "discard", "cancel"}]
  /\ Tasks \cap Commands = {}
  /\ None \notin Events \cup Handlers /\ \A C \in SUBSET Chats : None # C
  /\ "start" \notin Events
  /\ MaxPerChat \in Nat /\ MaxStops \in Nat
  /\ Reject \in BOOLEAN /\ Notify \subseteq BOOLEAN
  /\ CliChats \subseteq Chats
  /\ Stops \subseteq {"crash", "restart", "exit"}

VARIABLES
  publishing,  \* events a task was created to publish, not delivered yet
  inbox,       \* the consumer's queue, then the waiters of _event_sem: FIFO
  handler,     \* run_one: the event it has and where process() is suspended
  locked,      \* session_locks[c].locked()
  current,     \* _chat_running_tasks: the handler /queue cancel would cancel
  doomed,      \* handlers cancel() was called on and that have not seen it yet
  queue,       \* TaskQueueStore._queues, in memory and on file
  inProgress,  \* TaskQueueStore._in_progress, in memory and on file
  shell,       \* "start" while it asks about the rows it found, the prompt it is
               \* publishing under the session lock, or None: it reads
  todo,        \* chats the boot notifier has still to visit; None: it sleeps
  notify,      \* the installation's ADAMI_TASK_QUEUE_NOTIFY_ON_BOOT
  mode,        \* of the process: up, stopping, deaf, exiting, down
  reexec,      \* _restart_process_after_shutdown
  fate,        \* history: what became of an event, as its user knows it
  stops        \* how often the process has stopped

store == <<queue, inProgress>>
process == <<mode, reexec, stops, todo, shell>>
vars == <<publishing, inbox, handler, locked, current, doomed, store, process, fate, notify>>

Fates == {"new", "sent", "accepted", "begun", "interrupted",
          "done", "refused", "evicted", "discarded"}

Idle == [ev |-> None, pc |-> "idle"]

\* Where process() may be suspended while its handler owns the chat's turn.
TurnPcs == {"starting", "announcing", "body"}

HandlerStates == [ev : Tasks, pc : TurnPcs] \cup [ev : Events, pc : {"reply"}] \cup {Idle}

HasTurn(h, c) == handler[h].pc \in TurnPcs /\ ChatOf[handler[h].ev] = c

\* The shell takes the lock of its chat around a publish of its own.
ShellHas(c) == shell \in Events /\ ChatOf[shell] = c

Awake == mode \in {"up", "stopping", "deaf"}

-----------------------------------------------------------------------------
Init ==
  /\ publishing = {}
  /\ inbox = <<>>
  /\ handler = [h \in Handlers |-> Idle]
  /\ locked = [c \in Chats |-> FALSE]
  /\ current = [c \in Chats |-> None]
  /\ doomed = {}
  /\ queue = [c \in Chats |-> <<>>]
  /\ inProgress = [c \in Chats |-> None]
  /\ notify \in Notify
  /\ todo = IF notify THEN None ELSE {}
  /\ shell = None
  /\ mode = "up"
  /\ reexec = FALSE
  /\ fate = [e \in Events |-> "new"]
  /\ stops = 0

-----------------------------------------------------------------------------
(* Events reach the consumer.                                              *)

\* An event is put on the consumer's queue.  Once _running is FALSE the
\* consumer still takes the one event its pending get() was waiting for;
\* after that the queue has no reader.
Arrive(e) ==
  /\ \/ mode = "up" /\ inbox' = Append(inbox, e) /\ mode' = mode
     \/ mode = "stopping" /\ inbox' = Append(inbox, e) /\ mode' = "deaf"
     \/ mode = "deaf" /\ inbox' = inbox /\ mode' = mode
  /\ UNCHANGED <<handler, current, doomed, store, reexec, stops, todo>>

\* A user sends a prompt or a command; in the shell, when it reads.
Submit(e) ==
  /\ fate[e] = "new"
  /\ ChatOf[e] \in CliChats => shell = None
  /\ fate' = [fate EXCEPT ![e] = "sent"]
  /\ Arrive(e)
  /\ UNCHANGED <<publishing, locked, shell>>

\* A publish task created by a release or by the Resume button runs.
Deliver(e) ==
  /\ e \in publishing
  /\ publishing' = publishing \ {e}
  /\ Arrive(e)
  /\ UNCHANGED <<locked, shell, fate>>

\* The report menu of the shell, when the chat is free, takes its lock before
\* it publishes: a prompt like any other.  (When it is not, see Submit.)
ShellTakes(t) ==
  /\ mode = "up" /\ shell = None
  /\ fate[t] = "new" /\ ChatOf[t] \in CliChats
  /\ ~locked[ChatOf[t]]
  /\ locked' = [locked EXCEPT ![ChatOf[t]] = TRUE]
  /\ shell' = t
  /\ fate' = [fate EXCEPT ![t] = "sent"]
  /\ UNCHANGED <<publishing, inbox, handler, current, doomed, store, mode, reexec, stops, todo>>

\* A wrong publish of the shell: the lock stays.
ShellKeeps ==
  /\ shell \in Events
  /\ Arrive(shell)
  /\ shell' = None
  /\ UNCHANGED <<publishing, locked, fate>>

\* Its publish returns and the lock is released.  Nothing is handed on: the
\* shell's own prompt will do that when its turn ends.
ShellPublishes ==
  /\ shell \in Events
  /\ Arrive(shell)
  /\ shell' = None
  /\ locked' = [locked EXCEPT ![ChatOf[shell]] = FALSE]
  /\ UNCHANGED <<publishing, fate>>

-----------------------------------------------------------------------------
(* run_one and process: from the semaphore to the first await.             *)

\* h gets the semaphore for the oldest event and takes the chat's slot.
Take(h, e) ==
  /\ Awake
  /\ handler[h] = Idle
  /\ inbox # <<>>
  /\ e = Head(inbox)
  /\ inbox' = Tail(inbox)
  /\ current' = [current EXCEPT ![ChatOf[e]] = h]
  /\ UNCHANGED <<publishing, process>>

\* A wrong test of the turn: by the mark, which is written an await later.
TurnFreeByMark(c) == inProgress[c] = None

\* _try_acquire_session_turn, under its meta lock: is the chat free?
TurnFree(c) == ~locked[c]

\* The chat is free and h takes its turn.
StartTurn(h, e) ==
  /\ Take(h, e)
  /\ e \in Tasks
  /\ TurnFree(ChatOf[e])
  /\ locked' = [locked EXCEPT ![ChatOf[e]] = TRUE]
  /\ handler' = [handler EXCEPT ![h] = [ev |-> e, pc |-> "starting"]]
  /\ UNCHANGED <<doomed, store, fate>>

Duplicate(t) ==
  LET q == queue[ChatOf[t]] IN \E i \in DOMAIN q : TextOf[q[i]] = TextOf[t]

Full(c) == Reject /\ MaxPerChat > 0 /\ Len(queue[c]) >= MaxPerChat

\* _enforce_max_per_chat: the newest MaxPerChat rows stay.
Newest(s) ==
  IF MaxPerChat > 0 /\ Len(s) > MaxPerChat
  THEN SubSeq(s, Len(s) - MaxPerChat + 1, Len(s)) ELSE s

Rows(s) == {s[i] : i \in DOMAIN s}

\* The chat is busy and the store takes the prompt.
Enqueue(h, e) ==
  LET c == ChatOf[e]
      q == Append(queue[c], e)
  IN  /\ Take(h, e)
      /\ e \in Tasks
      /\ ~TurnFree(c)
      /\ ~Duplicate(e) /\ ~Full(c)
      /\ queue' = [queue EXCEPT ![c] = Newest(q)]
      /\ fate' = [x \in Events |-> IF x \in Rows(q) \ Rows(Newest(q)) THEN "evicted"
                                   ELSE IF x = e THEN "accepted" ELSE fate[x]]
      /\ handler' = [handler EXCEPT ![h] = [ev |-> e, pc |-> "reply"]]
      /\ UNCHANGED <<locked, doomed, inProgress>>

\* The chat is busy and the prompt is a duplicate or over the cap.
Refuse(h, e) ==
  /\ Take(h, e)
  /\ e \in Tasks
  /\ ~TurnFree(ChatOf[e])
  /\ Duplicate(e) \/ Full(ChatOf[e])
  /\ fate' = [fate EXCEPT ![e] = "refused"]
  /\ handler' = [handler EXCEPT ![h] = [ev |-> e, pc |-> "reply"]]
  /\ UNCHANGED <<locked, doomed, store>>

\* discard_all: the waiting rows go, and the mark of the running one.
Discard(c) ==
  /\ queue' = [queue EXCEPT ![c] = <<>>]
  /\ inProgress' = [inProgress EXCEPT ![c] = None]
  /\ fate' = [x \in Events |-> IF x \in Rows(queue[c]) \cup {inProgress[c]}
                               THEN "discarded" ELSE fate[x]]

\* A wrong cancel: of the handler that had the slot before the command.
CancelHolder(c) == IF current[c] # None THEN {current[c]} ELSE {current'[c]}

\* cancel_current_task_for_chat: whoever has the slot; Take has just put the
\* handler of the command itself there.
CancelTarget(c) == {current'[c]}

\* A /queue command: dealt with before the turn is asked for.
Command(h, e) ==
  /\ Take(h, e)
  /\ e \in Commands
  /\ handler' = [handler EXCEPT ![h] = [ev |-> e, pc |-> "reply"]]
  /\ doomed' = IF KindOf[e] = "cancel" THEN doomed \cup CancelTarget(ChatOf[e]) ELSE doomed
  /\ IF KindOf[e] = "discard" THEN Discard(ChatOf[e]) ELSE UNCHANGED <<store, fate>>
  /\ UNCHANGED locked

-----------------------------------------------------------------------------
(* A handler goes on after an await.                                       *)

\* A wrong end of run_one: the slot stays.
LeaveSlot(h) ==
  /\ handler' = [handler EXCEPT ![h] = Idle]
  /\ doomed' = doomed \ {h}
  /\ UNCHANGED current

\* run_one ends: its slot is cleared if it is still its own.
Leave(h) ==
  LET c == ChatOf[handler[h].ev]
  IN  /\ handler' = [handler EXCEPT ![h] = Idle]
      /\ current' = [current EXCEPT ![c] = IF @ = h THEN None ELSE @]
      /\ doomed' = doomed \ {h}

\* The reply of a command, a refusal or an enqueue has been sent, or its
\* await was where a cancellation struck.
EndReply(h) ==
  /\ handler[h].pc = "reply"
  /\ Leave(h)
  /\ fate' = [fate EXCEPT ![handler[h].ev] = IF @ = "sent" THEN "done" ELSE @]
  /\ UNCHANGED <<publishing, inbox, locked, store, process>>

\* The "thinking" update has been sent: mark_started, which overwrites the
\* mark of a run that never finished.
Started(h) ==
  LET t == handler[h].ev
  IN  /\ Awake
      /\ handler[h].pc = "starting" /\ h \notin doomed
      /\ inProgress' = [inProgress EXCEPT ![ChatOf[t]] = t]
      /\ fate' = [fate EXCEPT ![t] = "begun"]
      /\ handler' = [handler EXCEPT ![h].pc = "announcing"]
      /\ UNCHANGED <<publishing, inbox, locked, current, doomed, queue, process>>

\* The "started" reply has been sent: the slot is taken again.
Announced(h) ==
  /\ Awake
  /\ handler[h].pc = "announcing" /\ h \notin doomed
  /\ current' = [current EXCEPT ![ChatOf[handler[h].ev]] = h]
  /\ handler' = [handler EXCEPT ![h].pc = "body"]
  /\ UNCHANGED <<publishing, inbox, locked, doomed, store, process, fate>>

\* Three wrong ways to hand on: not at all, without publishing what was
\* popped, and publishing without popping.
NoHandOn(c) == UNCHANGED <<queue, publishing>>

PopOnly(c) ==
  /\ queue' = [queue EXCEPT ![c] = IF @ = <<>> THEN @ ELSE Tail(@)]
  /\ UNCHANGED publishing

PeekOnly(c) ==
  /\ publishing' = publishing \cup (IF queue[c] = <<>> THEN {} ELSE {Head(queue[c])})
  /\ UNCHANGED queue

\* pop_next, and a task that publishes what it returned
HandOn(c) ==
  IF queue[c] = <<>>
  THEN UNCHANGED <<queue, publishing>>
  ELSE /\ queue' = [queue EXCEPT ![c] = Tail(@)]
       /\ publishing' = publishing \cup {Head(queue[c])}

\* A wrong release: the mark stays.
ReleaseLockOnly(c) ==
  /\ locked' = [locked EXCEPT ![c] = FALSE]
  /\ UNCHANGED inProgress

\* _release_session_lock up to mark_finished
Release(c) ==
  /\ locked' = [locked EXCEPT ![c] = FALSE]
  /\ inProgress' = [inProgress EXCEPT ![c] = None]

\* The body ends: result, error, hard timeout or cancellation.  The finally
\* clause releases the turn and publishes the next waiting prompt.
EndBody(h) ==
  LET t == handler[h].ev
      c == ChatOf[t]
  IN  /\ handler[h].pc = "body"
      /\ Leave(h)
      /\ Release(c)
      /\ HandOn(c)
      /\ fate' = [fate EXCEPT ![t] = "done"]
      /\ UNCHANGED <<inbox, process>>

\* Cancelled before the try block that holds the finally clause: the turn is
\* not released.
CancelledEarly(h) ==
  /\ handler[h].pc \in {"starting", "announcing"}
  /\ h \in doomed
  /\ Leave(h)
  /\ UNCHANGED <<publishing, inbox, locked, store, process, fate>>

-----------------------------------------------------------------------------
(* Buttons and the boot notifier.                                          *)

\* has_pending_or_in_progress
Unfinished(c) == queue[c] # <<>> \/ inProgress[c] # None

\* Only the boot notifier sends the two buttons; once sent they stay in the
\* chat and may be pressed at any later time.
HasButtons(c) == notify /\ c \notin CliChats

\* resume_task_queue_for_chat, the Continue button of Telegram and Discord
Resume(c) ==
  /\ mode \in {"up", "stopping"}
  /\ HasButtons(c)
  /\ queue[c] # <<>>
  /\ HandOn(c)
  /\ UNCHANGED <<inbox, handler, locked, current, doomed, inProgress, process, fate>>

\* discard_task_queue_for_chat, the Discard button
DiscardButton(c) ==
  /\ mode \in {"up", "stopping"}
  /\ HasButtons(c)
  /\ Unfinished(c)
  /\ Discard(c)
  /\ UNCHANGED <<publishing, inbox, handler, locked, current, doomed, process>>

\* A second after the start the notifier wakes and lists the chats to visit.
NotifierWakes ==
  /\ Awake
  /\ todo = None
  /\ todo' = {c \in Chats : Unfinished(c)}
  /\ UNCHANGED <<publishing, inbox, handler, locked, current, doomed, store,
                 mode, reexec, stops, shell, fate>>

\* A wrong recovery: the mark stays.
RecoverKeepsMark(C) ==
  /\ queue' = [c \in Chats |-> IF c \in C /\ inProgress[c] # None
                               THEN <<inProgress[c]>> \o queue[c] ELSE queue[c]]
  /\ fate' = [x \in Events |-> IF \E c \in C : x = inProgress[c]
                               THEN "interrupted" ELSE fate[x]]
  /\ UNCHANGED inProgress

\* recover_in_progress_to_front, for the chats in C that have a mark
Recover(C) ==
  /\ queue' = [c \in Chats |-> IF c \in C /\ inProgress[c] # None
                               THEN <<inProgress[c]>> \o queue[c] ELSE queue[c]]
  /\ inProgress' = [c \in Chats |-> IF c \in C THEN None ELSE inProgress[c]]
  /\ fate' = [x \in Events |-> IF \E c \in C : x = inProgress[c]
                               THEN "interrupted" ELSE fate[x]]

NotifierVisits(c) ==
  /\ Awake
  /\ todo # None
  /\ c \in todo
  /\ todo' = todo \ {c}
  /\ Recover({c})
  /\ UNCHANGED <<publishing, inbox, handler, locked, current, doomed,
                 mode, reexec, stops, shell>>

\* The shell still waits for the answer when a restart is asked for elsewhere.
Asks == shell = "start" /\ (mode = "up" \/ (Awake /\ reexec))

\* Asked at the start, the user of the shell goes on: the first row is popped
\* and published under the session lock.
ShellContinues(c) ==
  /\ Asks
  /\ c \in CliChats /\ queue[c] # <<>>
  /\ ~locked[c]
  /\ queue' = [queue EXCEPT ![c] = Tail(@)]
  /\ shell' = Head(queue[c])
  /\ locked' = [locked EXCEPT ![c] = TRUE]
  /\ UNCHANGED <<publishing, inbox, handler, current, doomed, inProgress,
                 mode, reexec, stops, todo, fate>>

\* ... or discards everything, or there was nothing.
ShellDiscards ==
  /\ Asks
  /\ shell' = None
  /\ \/ \E c \in CliChats : Discard(c)
     \/ (\A c \in CliChats : queue[c] = <<>>) /\ UNCHANGED <<store, fate>>
  /\ UNCHANGED <<publishing, inbox, handler, locked, current, doomed,
                 mode, reexec, stops, todo>>

-----------------------------------------------------------------------------
(* The process stops and starts.                                           *)

AllButMode == <<publishing, inbox, handler, locked, current, doomed, store, todo, shell, fate>>

\* The restart menu of a chat: only the file rows of that chat are looked at.
RequestRestart(c) ==
  /\ mode = "up" /\ stops < MaxStops /\ "restart" \in Stops
  /\ ~Unfinished(c)
  /\ mode' = "stopping" /\ reexec' = TRUE
  /\ UNCHANGED <<AllButMode, stops>>

\* The confirmation, or the restart entry of the shell once answered.
ConfirmRestart ==
  /\ mode = "up" /\ stops < MaxStops /\ "restart" \in Stops
  /\ mode' = "stopping" /\ reexec' = TRUE
  /\ UNCHANGED <<AllButMode, stops>>

\* exit, quit or end of input in the shell, also as an answer at the start
ShellExits ==
  /\ mode = "up" /\ stops < MaxStops /\ "exit" \in Stops
  /\ shell \notin Events
  /\ mode' = "stopping"
  /\ UNCHANGED <<AllButMode, reexec, stops>>

\* The consumer ends, when its get() times out or when _shutdown cancels the
\* background tasks, the notifier with it.
ConsumerStops ==
  /\ mode \in {"stopping", "deaf"}
  /\ mode' = "deaf"
  /\ todo' \in {todo, {}}
  /\ mode' # mode \/ todo' # todo
  /\ UNCHANGED <<publishing, inbox, handler, locked, current, doomed, store,
                 reexec, stops, shell, fate>>

\* The loop of asyncio.run ends and cancels every task that is left.
LoopEnds ==
  /\ mode = "deaf" /\ ~reexec
  /\ mode' = "exiting"
  /\ doomed' = {h \in Handlers : handler[h] # Idle}
  /\ inbox' = <<>>
  /\ publishing' = {}
  /\ UNCHANGED <<handler, locked, current, store, todo, reexec, stops, shell, fate>>

\* What is in memory only is gone.
Vanish ==
  /\ mode' = "down"
  /\ stops' = stops + 1
  /\ publishing' = {} /\ inbox' = <<>>
  /\ handler' = [h \in Handlers |-> Idle]
  /\ locked' = [c \in Chats |-> FALSE]
  /\ current' = [c \in Chats |-> None]
  /\ doomed' = {} /\ todo' = {} /\ reexec' = FALSE /\ shell' = None
  /\ UNCHANGED <<store, fate>>

\* os.execv replaces the process image under whatever was running.
Reexec == mode = "deaf" /\ reexec /\ Vanish

Exited == mode = "exiting" /\ (\A h \in Handlers : handler[h] = Idle) /\ Vanish

Crash == mode # "down" /\ stops < MaxStops /\ "crash" \in Stops /\ Vanish

\* A new process: the shell puts the interrupted run of its own chat back and
\* asks about its rows before it reads anything.
Boot ==
  /\ mode = "down"
  /\ mode' = "up"
  /\ todo' = IF notify THEN None ELSE {}
  /\ Recover(CliChats)
  /\ shell' = IF CliChats = {} THEN None ELSE "start"
  /\ UNCHANGED <<publishing, inbox, handler, locked, current, doomed, reexec, stops>>

-----------------------------------------------------------------------------
Handle(h) ==
  \/ \E e \in Events : \/ StartTurn(h, e) \/ Enqueue(h, e)
                       \/ Refuse(h, e) \/ Command(h, e)
  \/ EndReply(h)
  \/ Started(h)
  \/ Announced(h)
  \/ EndBody(h)
  \/ CancelledEarly(h)

Users ==
  \/ \E e \in Events : Submit(e)
  \/ \E c \in Chats : Resume(c) \/ DiscardButton(c)

Shell ==
  \/ \E t \in Tasks : ShellTakes(t)
  \/ \E c \in Chats : ShellContinues(c)
  \/ ShellDiscards
  \/ ShellPublishes

Notifier ==
  \/ NotifierWakes
  \/ \E c \in Chats : NotifierVisits(c)

Process ==
  \/ \E c \in Chats : RequestRestart(c)
  \/ ConfirmRestart \/ ShellExits \/ ConsumerStops \/ LoopEnds
  \/ Reexec \/ Exited \/ Crash \/ Boot

Next ==
  /\ \/ Users \/ Shell \/ Notifier \/ Process
     \/ \E e \in Events : Deliver(e)
     \/ \E h \in Handlers : Handle(h)
  /\ UNCHANGED notify

Spec == Init /\ [][Next]_vars

\* The event loop runs every ready task; replies are sent or time out, and
\* the hard timeout ends every body.  Users and stops are not fair.
Fairness ==
  /\ \A e \in Events : WF_vars(Deliver(e) /\ UNCHANGED notify)
  /\ \A h \in Handlers : WF_vars(Handle(h) /\ UNCHANGED notify)
  /\ WF_vars(ShellPublishes /\ UNCHANGED notify)

FairSpec == Spec /\ Fairness
-----------------------------------------------------------------------------
(* Properties.                                                             *)

TypeOK ==
  /\ publishing \subseteq Events
  /\ inbox \in Seq(Events)
  /\ handler \in [Handlers -> HandlerStates]
  /\ locked \in [Chats -> BOOLEAN]
  /\ current \in [Chats -> Handlers \cup {None}]
  /\ doomed \subseteq Handlers
  /\ queue \in [Chats -> Seq(Tasks)]
  /\ inProgress \in [Chats -> Tasks \cup {None}]
  /\ notify \in Notify
  /\ todo \in (SUBSET Chats) \cup {None}
  /\ shell \in Tasks \cup {None, "start"}
  /\ mode \in {"up", "stopping", "deaf", "exiting", "down"}
  /\ reexec \in BOOLEAN
  /\ fate \in [Events -> Fates]
  /\ stops \in Nat

\* One turn per chat: however many handlers the consumer runs, and across
\* cancellations, restarts and exits, no two of them are ever between taking
\* and releasing the turn of the same chat (_try_acquire_session_turn), nor
\* one of them while the shell has the chat's lock.
OneTurnPerChat ==
  \A c \in Chats, h \in Handlers : HasTurn(h, c) =>
    /\ \A g \in Handlers : HasTurn(g, c) => g = h
    /\ ~ShellHas(c)

\* A chat whose lock is held has a handler that will release it, or the shell
\* has it for the time of a publish.  Nothing frees a leaked lock but the end
\* of the process, so a cancellation must never reach a handler between its
\* acquire and its try block; only the end of the loop may.
LockIffHeld ==
  mode # "exiting" => \A c \in Chats :
    locked[c] <=> ShellHas(c) \/ \E h \in Handlers : HasTurn(h, c)

\* The cancel slot of a chat never names a handler that has left or that
\* works for another chat: a cancel cannot hit a stranger.
SlotIsOwn ==
  \A c \in Chats :
    current[c] # None => /\ handler[current[c]] # Idle
                         /\ ChatOf[handler[current[c]].ev] = c

InFlight(e) ==
  \/ e \in publishing \cup {shell}
  \/ \E i \in DOMAIN inbox : inbox[i] = e
  \/ \E h \in Handlers : handler[h].ev = e /\ handler[h].pc \in TurnPcs

OnFile(t) == inProgress[ChatOf[t]] = t \/ t \in Rows(queue[ChatOf[t]])

Kept == {"accepted", "begun", "interrupted"}

\* Nothing accepted drops out of sight: while the process has not stopped, a
\* prompt its user was told is queued or running is in the store or on its
\* way back to a handler, through release, re-publication, a second busy
\* answer, eviction, discard and the buttons.
NoLimbo ==
  stops = 0 /\ mode = "up" =>
    \A t \in Tasks : fate[t] \in Kept => OnFile(t) \/ InFlight(t)

\* The drain never stalls: while the process has not stopped, a chat with
\* waiting rows has a turn that will release and pop, or a prompt of its own
\* in flight that will take the turn.
DrainGoesOn ==
  stops = 0 /\ mode = "up" =>
    \A c \in Chats : queue[c] # <<>> =>
      locked[c] \/ \E t \in Tasks : ChatOf[t] = c /\ InFlight(t)

\* What the file offers to run again is unfinished: with the notifier off, a
\* prompt that has ended, was refused, evicted or discarded is neither marked
\* nor waiting, whatever stops and starts have happened.  (With it on this
\* fails: it may put back the prompt that is running, see README.)
NothingFinishedOnFile ==
  ~notify => \A t \in Tasks : OnFile(t) => fate[t] \in Kept

\* A prompt is on file once: were it both marked and waiting, or waiting
\* twice, the next process would run it twice.
OnFileOnce ==
  \A c \in Chats :
    /\ inProgress[c] # None => inProgress[c] \notin Rows(queue[c])
    /\ \A i, j \in DOMAIN queue[c] : queue[c][i] = queue[c][j] => i = j

\* Every prompt settles: sent, accepted or begun, it ends, is refused, is
\* evicted or is discarded, although an accepted prompt may lose its place
\* each time it is published again.
EveryPromptSettles ==
  \A t \in Tasks :
    fate[t] \in {"sent", "accepted", "begun"} ~>
      fate[t] \in {"done", "refused", "evicted", "discarded"}

\* No chat stays busy for ever: a turn that is taken is released, whatever is
\* cancelled meanwhile.
EveryTurnEnds == \A c \in Chats : locked[c] ~> ~locked[c]

\* What the turns amount to: ChatTurns, by what a prompt's handler does and
\* what its user knows.
TurnStatus(t) ==
  IF \E h \in Handlers : handler[h].ev = t /\ handler[h].pc \in TurnPcs THEN "running"
  ELSE CASE fate[t] = "new"  -> "new"
         [] fate[t] = "done" -> "ended"
         [] fate[t] \in {"refused", "evicted", "discarded"} -> "dropped"
         [] OTHER -> "waiting"

Turns == INSTANCE ChatTurns WITH status <- [t \in Tasks |-> TurnStatus(t)], up <- Awake

\* With the notifier off the dispatcher implements ChatTurns, whatever stops:
\* prompts of a chat run one at a time, a prompt is run again only after the
\* process that ran it has ended under it, and one that ended, or was refused,
\* evicted or discarded, never is.  (A notifier may put back the row of a
\* prompt that runs.)
RunsOnceAlone == Turns!Init /\ [][notify \/ Turns!Next]_Turns!vars

-----------------------------------------------------------------------------
(* What the documentation and the comments say, and the code does not do.  *)

\* "/queue cancel (cancel current task)" (docs/vnext/roadmap.md:39): what a
\* cancellation strikes has the chat's turn.
CancelStrikesTheTurn ==
  mode = "up" => \A h \in doomed : handler[h].pc \in TurnPcs

\* "Restart / exit safety" (README.md:253): after a stop that was asked for,
\* a prompt its user was told is queued or running is on file.
PlannedStopKeepsAccepted ==
  mode = "down" => \A t \in Tasks : fate[t] \in Kept => OnFile(t)
=============================================================================
