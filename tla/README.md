# A TLA+ model of adami-kernel

adami-kernel is an asyncio program: one process, one event loop, prompts that
come from a shell, Telegram or Discord, an event bus between the components, a
few SQLite databases and JSON files that outlive the process. This directory
models two parts. The first decides *which prompt runs when, and what survives*:
the task queue, the dispatcher that gives a chat's turn to one handler, the
restart and exit paths around it, and the event bus with its dead-letter queue.
The second carries out *what takes several steps*: the workflow engine with the
human in its loop, the chain of agents, and the checkpoints a workflow can be
rolled back to.

Paths below are relative to `src/src/adami_kernel/` unless they start with
`README` or `docs`, which are those of the repository.

## 1. Inventory

| component | state | operations | interacts with |
|---|---|---|---|
| task queue store (`core/task_queue.py`) | pending rows per chat (an ordered dict), one running mark per chat, a JSON file | enqueue, pop, mark started/finished, discard, recover, sweep, load | called by the dispatcher, the buttons, the shell, the boot notifier |
| event consumer (`core/lifecycle_manager.py`) | the subscriber queue of `system.events`, a semaphore, `_chat_running_tasks` | take the next event, run one handler per event, cancel a chat's handler | bus, dispatcher |
| dispatcher (`cortex/decision_processor.py`) | a session lock and a meta lock per chat, replies already sent | take the turn, queue, refuse, run, release and publish the next prompt | store, bus, kernel replies |
| restart, exit, boot (`core/lifecycle_manager.py`, `core/restart_control.py`, `nexus/shell.py`, `kernel.py`) | `_running`, `_restart_process_after_shutdown`, background tasks | restart menu and confirmation, exit, shutdown, re-exec, recovery, boot notice | store, consumer |
| event bus (`nexus/bus.py`) | subscriber queues, RBAC, middlewares | subscribe, publish, replay | everything |
| dead-letter queue (`nexus/dlq.py`) | the SQLite table `dead_letters` | push, pop_all, clear | bus |
| workflow engine (`orchestrator/workflow_engine.py`) | the row of each workflow, the futures of its callers, a lock per workflow, tasks that run a node | start, execute node, route, retry, recover, fail, pause, cancel, resume | bus, layered memory, HITL |
| HITL handler (`orchestrator/hitl_handler.py`) | the paused workflows whose buttons are out | ask, take the answer | workflow engine, Telegram |
| checkpoints (`hippocampus/layered_memory.py`, `orchestrator/long_task_checkpoint.py`, `long_task_recovery.py`, `long_task_phase_gate.py`) | rows with sequence numbers and last_good pointers, one SQLite connection, `_db_lock` | save with and without `expected_seq`, retry, roll back | workflow engine, orchestrator, every other writer of the database |
| multi-agent orchestrator (`orchestrator/multi_agent_orchestrator.py`) | per workflow a plan, a current task and retry counts; `task_futures`, `workflow_futures` | look up a skill, plan, hand out, wait, retry, pause; a listener that runs the agents | bus, planner, checkpoints |
| everything else: router, skills, evolution, MCP, market, web console, telemetry, training, demo service, simulation harness, i18n | mostly data, files and network I/O | | listed with the reason in `PROJECT.json` |

What makes each of the modelled components correct, and what is hard about it:

* **Store.** Its caps hold, and its file rebuilds its memory, although purges run
  in memory only, recovery skips the caps, and a failed write is swallowed.
* **Dispatcher.** Handlers of one chat interleave at every await. One turn per
  chat; a turn always ends and leaves no lock behind; a prompt that was accepted
  ends, is refused, evicted or discarded, but is not lost in between, although it is
  popped, published and queued again any number of times. (Of an eviction by a cap
  its user is not told.)
* **Restart and exit.** Handlers go on while the consumer no longer reads, and a
  crash may strike between any two awaits: what the file offers to run again is
  unfinished, and is there once.
* **Bus.** A letter is delivered at most once; while the process lives it is not
  lost before its retries are used up, and it is not tried more often than that;
  what access control turns away is never kept.
* **Workflow engine.** Tasks, the listener and the human work on copies of the
  row that they loaded before they had the lock. At any time one of them works
  for a workflow, its copy is the row on file, the caller hears what the row
  says, and retries, recoveries and loops end.
* **Chain of agents.** A task is sent again while its first copy may still be
  worked on, and replies are matched by workflow and role alone. Roles work in
  the plan's order, each result is its role's, and every workflow ends although
  agents hang.
* **Checkpoints.** A failed save leaves its rows on a connection that the next
  writer commits. Sequence numbers stay dense, the last_good pointer names a
  record, an acknowledged save survives, and nobody writes twice.

Every hazard is in `PROJECT.json`, at its line, with the property that would
catch it, or with the reason why none does yet.

## 2. Modules

| module | models |
|---|---|
| `TaskQueue` | class `TaskQueueStore`: every method that changes its state is an action |
| `TaskDispatch` | consumer, `process()`, release, buttons, notifier, stops and starts |
| `ChatTurns` | what the dispatcher promises: prompts of a chat run one at a time, what ended or was dropped does not run, and only a stop cuts off a run, which another process may repeat |
| `EventBus` | `publish`, `push`, `pop_all`, the replay task, the boot order of the bus |
| `Mailbox` | what the bus promises of an event: delivered at most once and only to a topic somebody takes, kept as a letter if granted and not taken, tried again until it is taken or its retries are used up, otherwise lost only with the process or to a clear on boot |
| `WorkflowEngine` | class `WorkflowEngine` and `HITLHandler`: tasks, listener, human |
| `GraphRun` | what the engine promises: node by node along the graph, a pause before a high-risk node, an end its caller hears of |
| `MultiAgent` | class `MultiAgentOrchestrator`: `_orchestrate`, the waits, the listener |
| `Pipeline` | what the chain promises: stages in order, success with the last one |
| `Checkpoints` | phase checkpoints, the retrying writer, the rollback |
| `Ledger` | what the checkpoint store promises: numbers and marks given once and kept, nobody told of a save that has none, no number for a save that was refused |
| `TaskQueue_proof`, `TaskDispatch_proof`, `TaskPlaces_proof`, `TaskTurns_proof`, `EventBus_proof`, `WorkflowEngine_proof`, `MultiAgent_proof`, `Checkpoints_proof` | theorems and their proofs |
| `MCTaskQueue`, `MCTaskDispatch`, `MCEventBus`, `MCWorkflowEngine`, `MCMultiAgent`, `MCCheckpoints` | instances for TLC |

### TaskQueue

`queues` is `_queues`, kept as a sequence of `[chat, items]` entries because
`_enforce_max_total` drops from the *first* of the longest lists, and a Python
dict keeps the order of insertion. `inProgress` is `_in_progress`. `disk` is what
the file holds, `unsaved` how many writes have failed since the last that
succeeded. Each action calls `Save` where the code calls `_save()`, which purges
first and swallows a failed write; `PurgeOnly` is a `_purge_stale()` that no write
follows. `now` is the clock.

### TaskDispatch

asyncio runs one coroutine at a time, so an action is what a handler does between
two awaits that may suspend it. `handler[h].pc` says where `process()` is
suspended:

| pc | where | leaves by |
|---|---|---|
| `idle` | waiting for the semaphore | `StartTurn`, `Enqueue`, `Refuse`, `Command` |
| `reply` | sending the reply to a command, a refusal or an enqueue | `EndReply` |
| `starting` | has the turn, awaits the "thinking" update | `Started` (mark_started), `CancelledEarly` |
| `announcing` | awaits the "started" reply | `Announced` (takes the cancel slot again), `CancelledEarly` |
| `body` | inside the try block that releases the turn | `EndBody`: mark_finished, pop_next, publish |

`_try_acquire_session_turn` takes a meta lock around the test and the acquire;
since the lock is free when the test says so, the acquire does not suspend, and
test and acquire are one step. `publishing` holds the events that
`create_task(bus.publish(...))` will deliver, in any order; `inbox` is the
consumer's queue followed by the waiters of the semaphore, both FIFO. `mode` is
the process: `up`; `stopping` once `_running` is FALSE (the consumer's pending
`get()` still takes one event); `deaf` when nothing reads the queue any more but
handlers go on; `exiting` when `asyncio.run` has cancelled what was left; `down`.
`shell` is the interactive shell, the other holder of a session lock: it takes
the lock of its chat around a publish of its own, from the report menu
(`ShellTakes`) or when its user, asked at the start about the rows it found, goes
on (`ShellContinues`). Taking and publishing are two steps, since the put inside
`bus.publish` is awaited through `asyncio.wait_for`, which suspends the shell.
Its release hands nothing on. While it asks it reads nothing else; the answer may
come when a restart has been asked for elsewhere (`Asks`). The Continue and Discard
buttons are those the boot notifier sends (`HasButtons`): with the notifier off no
chat has them.

`fate` is a history variable, what became of an event as its user knows it.
Writes of the task file succeed here and no TTL or global cap is set, since
`TaskQueue` covers those. The offline simulation's inline dispatch
(`ADAMI_SIM_OFFLINE`) is not modelled.

### EventBus

Subscriber queues are unbounded and both installed middlewares return True, so a
letter arises in one way: an event outside the whitelist, granted by RBAC, whose
topic has no subscriber. A publish that dead-letters is suspended in `push`
(`pushing`); the replayer holds a popped batch (`batch`) that a stop of the
process loses. `retry` is the `retry_count` of a letter as the code computes it
(`Filed`), `retries` a history variable, how often the replayer has really
published the event: the limit of `bus.py:110` is stated with the second. `Mailbox`
allows a letter to be given up at the limit (`GiveUp`) and a boot to clear the
letters (`Clear`); the code never comes to do either. `phase` follows `BootManager.boot`: `bus.initialize()`, then the
rights, then `bus.dlq_db`.

### WorkflowEngine

`row` is the newest row of a workflow on file, with what routing depends on: the
status, the current node, the counts, and the edges, which a condition rewrites.
`spawned` holds the tasks that `create_task(_execute_node(state))` has made, each
with the copy it was given; `running` is the copy of the one that has the lock.
`handled` is what `_handle_workflow_event` holds between its load of the row and
its wait for the lock, `answer` the same of `process_resume`. What happens under
the lock is one step, since everybody else waits for it; what happens before it
(`GiveUp`, `Started`, the test in `Resume`) is not. A node is of a kind: `work`
may fail, transiently or for good; a `condition` chooses its edge; `risky` is
what `_is_high_risk_action` finds; any other passes. A result may name the next
node. What a node computes is that choice.

Retry, provide and replay, the buttons, differ in what they add to the context and
are one button, `resume`. Saves succeed: the code swallows an error there and the
workflow goes on in memory.

### MultiAgent

`pc` says where `_orchestrate` is: in its `loop`, `waiting` in
`asyncio.wait_for(_distribute_and_wait(...))`, or `ended`. `awaited` is the entry
of the workflow in `task_futures`, `answer` the future itself once its waiter has
not run yet, `caller` the future that `start_multi_agent_workflow` returned, and
`held` whether the local variable `future` still is that one. `mail` is the
topic, `busy` the message whose agent the listener awaits. A timeout may come at
any time of a wait, also when the answer has arrived and the waiter has not run.
`Fail` is an exception in what follows an answer; lookup, plan, hand-out and the
timeout handler succeed. The publish of a task is assumed to end within the wait.

### Checkpoints

`table` is the rows of one workflow as the shared connection shows them,
`durable` how many of them are committed. A save is `Enter` (lock, read of the
newest seq), `InsertRecord`, `InsertPointer`, `Commit`, with an await between
each; `Break` is an error at any of these awaits: the code logs it, gives the lock
back and does not roll back. `Flush` is the commit of any other writer, `Forget` a
rollback or a new connection, which drops what was not committed, and `Crash` the
end of the process. `Role` says how a job saves: appending, as the phase gate and
the orchestrator do, retrying on conflicts, or rolling back.

## 3. Runs

| run | instance | shows |
|---|---|---|
| `queue_store` | 2 chats (symmetric), 1 text, both TTLs one tick, 3 ticks of clock, 2 rows a chat, 3 in all, both overflow modes, a failed write before each that succeeds | types and one entry per chat; both caps hold up to recovered rows; the file rebuilds the memory; of a chat's rows the oldest leave first, and rows come back only from a file whose last write failed |
| `dispatch_concurrent` | 2 handlers, 3 prompts of the shell's chat, two with the same text, a cancel command, cap 1 with drop_oldest | one turn per chat, no leaked lock, cancel slots are owned, nothing accepted is lost; with fairness every prompt settles, every turn ends |
| `dispatch_restart` | 2 chats, 2 prompts and 1, a discard command, cap 2 with reject, one crash, restart or exit anywhere, notifier on and off; c1 a Telegram chat with its buttons, c2 the shell's | the same safety across stops, and, before the first one, nothing accepted is lost; what is on file is unfinished and there once; the drain goes on; with the notifier off the dispatcher implements `ChatTurns` across the stop |
| `bus_dlq` | 2 granted events, a denied and a system one, 2 topics, 1 crash | a letter is in one place, only granted events are filed; the bus implements `Mailbox`; with fairness a letter that may still be retried is delivered once its topic has a subscriber |
| `workflow` | a graph with a loop, a condition with three ways out and a node that may jump to a high-risk one, 2 retries, 2 recoveries, 5 steps; a second workflow begun by `start_workflow`; with and without a human | one at a time, on fresh copies; nobody is stranded; the caller hears the row; the trail is a path; tries are bounded; the engine implements `GraphRun`; with fairness a workflow somebody waits for ends or pauses |
| `agents` | a workflow of four roles and one of two, one retry each | order of the roles, whose results they are, waits that can be answered, truth to the caller; no more messages of a role than its retries allow, and no new ones once it is done; with fairness every workflow ends; the orchestrator implements `Pipeline` |
| `checkpoints` | an appending writer and 2 retrying ones of one phase, an appending one of another, 1 rollback, 2 tries, 2 faults | dense numbers, a pointer that names a record, one write per job, a rollback that is not behind; the store implements `Ledger`; with fairness every job ends |

Why the bounds are enough. Two handlers are the least that interleave, and turns
of one chat only exclude each other: a third handler adds no new pair. Three
prompts give one running, one waiting and one that comes late, the case that
evicts, refuses or overtakes; equal texts give the duplicate. In `TaskQueue` the
clock needs one tick past each TTL and one more for a row that was recovered; two
chats are needed for the global trim, and three rows for a chat over its cap. The
chats are interchangeable, so the run uses their symmetry. `MaxUnsaved` = 1 lets a
write fail after each that succeeds; what several in a row leave behind, memory and
file any number of calls apart, is proved.
One stop may fall between any two steps; everything that a second one could find
in memory is lost with the first. The handlers are interchangeable, so
`dispatch_restart` uses their symmetry (it checks no liveness). In `workflow` five
steps are one round of the loop and a way out, and two retries and two recoveries
are the least at which one count can be set back while the other is not at its
limit; workflows share nothing but the listener, so a second one that needs it is
enough. In `agents` two workflows share the listener; one retry is enough for a
late reply to answer the repetition, and `agents_answer` has the code's two. In
`checkpoints` two faults let a failed save be followed by a crash. Three writers
compete for the numbers of one phase, one appending and two that retry; the other
phase moves the last_good pointer away under the rollback.

Deadlock is checked in the queue run. The others switch it off: with every
prompt, workflow and job at its end the system rightly waits for its users.

**Fairness.** `TaskDispatch.FairSpec` lets every publish task, every handler and
a publishing shell that can go on do so: the event loop runs each ready task, replies and UI updates
end or time out inside their libraries, and `ADAMI_CLI_TASK_HARD_TIMEOUT_SEC` /
`ADAMI_TASK_HARD_TIMEOUT_SEC` end every body. Users, buttons and stops are not
fair. `EventBus.FairSpec` lets the boot, SQLite and the replay loop go on;
modules and subscribers are not fair.
In `WorkflowEngine` tasks, the listener and what follows a pressed button are
fair: a node's body ends within `node.timeout`. Pressing a button is not. In
`MultiAgent` the timer and the steps of an orchestration are fair and the
listener is not, for an agent may hang in `process()`. In `Checkpoints` every job
is fair, since the lock is; faults, other writers and crashes are not.

### What the code does not do although it is written down

Five runs expect a violation. Each states what a comment, a message or a document
of the repository says.

| run | says | the code |
|---|---|---|
| `dispatch_cancel` | `docs/vnext/roadmap.md:39`, `decision_processor.py:878`: `/queue cancel` cancels the current task, also under the consumer | `run_one` gives the slot to the command's own handler first, so the command cancels itself |
| `dispatch_stop` | `README.md:253`: restart and exit are safe | a turn that ends during the stop pops the next prompt and publishes it to a consumer that no longer reads (`decision_processor.py:1874`): the prompt is on no file and in no queue |
| `bus_retries` | `dlq.py:27`, `bus.py:110`: the retry count goes up with each try, and above five a letter is dropped for good | an `AdamiEvent` has no field for the count, so what `bus.py:122` passes is dropped and `dlq.py:108` files 1 again: the letter is replayed without end |
| `agents_answer` | `common.json:563`: the caller is told "Workflow ended with status ..." | the timeout handler overwrites the variable with the caller's future (`multi_agent_orchestrator.py:881`): after any timeout nobody is told, and `planner.py:446` waits until the hard task timeout ends the whole prompt |
| `workflow_confirm` | `common.json:595`, `:592`: a high-risk node requires confirmation, and the button says Retry | the risk test knows no confirmation: the node pauses again and is never run |

Facts met while modelling that no run is about:

* Dispatcher. With `ADAMI_TASK_QUEUE_NOTIFY_ON_BOOT` on, `NothingFinishedOnFile`
  does not hold: the notifier wakes a second after the start and recovers the mark
  of whatever runs then; the property asks for the default, off. The queue is not
  FIFO, as `README.md:239` and `decision_processor.py:1869` say: the popped prompt is
  published behind events that came later (`:1894`), one of which takes the turn, and
  then goes to the tail; there it may even be refused, as a duplicate or at the cap
  (`:729`), of which its user is told. The default
  semaphore has one permit (`config.py:462`), so a `/queue` command waits for the
  running prompt although `decision_processor.py:589` says it should not.
* Store. After a recovery, which skips the caps, the trim of a later enqueue may
  drop the row it then returns as queued (`task_queue.py:178`).
* Bus. `ADAMI_DLQ_CLEAR_ON_BOOT` clears nothing: the clear (`bus.py:53`) runs before
  the bus is given its queue. Since the retry count stays at 1 (`bus_retries`), the
  properties of `bus_dlq` say of a letter only what the limit would grant it too: it
  is kept, and delivered to a late subscriber, while it has used up fewer than its
  tries (`Entitled`). They hold of the code as it is, and would of code that counts.
* Engine. A result that names a `next_node` no node has (`workflow_engine.py:816`) is
  saved as the current node; the task for it returns silently (`:342`), and the
  workflow stays RUNNING with its caller waiting. The constants exclude it. The idempotency test (`:360`) never applies, no history entry has
  `status` SUCCESS. `telegram_sensory.py:60` imports `hitl_handler` while it is
  still None, so the buttons of the bot do nothing as wired, and
  `ADAMI_ENABLE_HITL` is off by default: both values are checked.
* Orchestrator. The third error that should pause a workflow never counts, since
  every run drops its counts at its end (`multi_agent_orchestrator.py:1087`). An
  "error" reply about a missing skill is made a result. `common.json:596` tells of a
  role that "timed out twice in a row"; the pause comes with the third timeout
  (`multi_agent_orchestrator.py:908`). `pause_plan`,
  `resume_plan` and `execute_workflow` have no caller.
* Checkpoints. A save may return `ok=False` and yet be written, by the next
  commit. A rollback takes the newest record of the phase the pointer names, which
  may be one from before a pause, or one nobody acknowledged.
  `save_phase_checkpoint_with_retry` is called by tests only.
  `list_active_workflows` filters rows by status before it takes the newest of each
  workflow, so a workflow that ended may be listed by an old RUNNING row.

## 4. Proofs

TLAPS proves the following for every value of the constants, from the module's
assumption (`TaskQueueAssumption`, `TaskDispatchAssumption`, `EventBusAssumption`,
`WorkflowEngineAssumption` with `NoneIsNoRecord`, `MultiAgentAssumption`,
`CheckpointsAssumption`) alone.

**TaskQueue_proof**

* `QueueTypeCorrect` (`TypeOK`), `QueuePerChatCap` (`PerChatCapHolds`), `QueueTotalCap`
  (`TotalCapHolds`) and `QueueFileRebuilds` (`FileRebuildsMemory`), from one inductive
  invariant, `QueueInvariant`: memory and file each hold a dict, one entry per
  chat, that is within both caps, and the file, read back at this moment, gives
  what a purge of the memory gives. Neither cap is inductive by itself: a `Reload`
  takes over whatever the file holds, so the caps must hold of the file too, and
  of a file that an earlier, failed write left behind. That the file rebuilds the
  memory although purges write nothing needs that a purge now and a purge later
  are one purge later: what is stale stays stale. Any number of writes may fail in a
  row.
* The store's list comprehensions and its trim loop are recursive functions. The
  library's induction theorems cannot be used, so induction over a *set* of
  numbers is derived from the well-foundedness of `<`, and from it what the
  lemmas need of them: a comprehension's result grows with its list
  (`AppendUp`, `PrefixRecursion`), and each round of the trim loop removes the
  first row of one list (`DropOne`, `DroppedRows`), so that it ends at the cap.
* `QueueOldestLeaveFirst` (`OldestLeaveFirst`): an action property from the same
  invariant. After any step the rows of a chat are those it had, or those of them
  that are not past their time, without some of the first. A new row may stand
  behind them, and in front of them the prompt of an interrupted run whose mark
  goes in the same step. The trim of another chat's enqueue is such a step too:
  `Behind`, being what is left when the first rows go, is carried from round to
  round of the loop and through the purge before each write. A `Reload` is one
  because a file that rebuilds the memory is a purge of it (`Rebuilds`); only after
  a failed write does it bring back older rows, those on file. The property is what
  a chat sees of the queue's order: no operation reorders what is waiting.

**TaskDispatch_proof**

* `TypeCorrect`: type correctness.
* `MutualExclusion` (`OneTurnPerChat`), `NoLeakedLock` (`LockIffHeld`): these two
  need each other, and neither is inductive. A turn is exclusive because it is
  taken only when the lock is free, and nobody, handler or shell, holds a free
  chat; that fails once the loop has ended and `CancelledEarly` leaves locks
  behind, and it must be known that until then a cancellation never reaches a
  handler between its acquire and its try block. The inductive invariant `TurnInv`
  has four parts: the two properties; `HoldersLock`, a chat that a handler or
  the shell holds is locked, in every mode; and `DoomedAreReplying`, before the
  loop ends only handlers that are sending a reply have been cancelled. The last
  part is the fact that `/queue cancel` strikes its own handler: the defect of
  `dispatch_cancel` is what keeps the lock from leaking. The shell pops a row of
  *its* chat and takes the lock of the chat that row names; that these are the
  same chat is `StoreInvariant`, proved first: rows and marks on file are prompts
  of their own chat, and a stopped process has no shell.
* `SlotOwnership` (`SlotIsOwn`): the cancel slot of a chat names only a live
  handler of that chat. Inductive with the types.

**TaskPlaces_proof**

* `OneCopyOnFile` (`OnFileOnce`) and `FileOwesOnly` (`NothingFinishedOnFile`), for
  any number of stops of any kind. The invariant `PlaceInv` follows a prompt through
  its places: a publish task, the consumer's queue, the shell, a row, a mark, a turn
  that has not written its mark. It is in at most one (`Alone`), in none before
  it is sent (`Unsent`); with the notifier off a prompt that runs is at most
  in its mark (`NotTwice`), and what is somewhere is owed (`Owed`). The lemmas
  `Rests`, `Hops`, `GetsOnFile` and `GetsNowhere` are the ways a step may move a
  prompt, and each action is shown to be one of them. With the notifier on,
  `Alone` still holds, and it is `NotTwice` that fails: the notifier puts back
  the row of a prompt that runs.

**TaskTurns_proof**

* `NothingInLimbo` (`NoLimbo`) and `DrainNeverStalls` (`DrainGoesOn`), from
  `UpInv`, which speaks of a process that has not stopped: every mark is that of a
  prompt that runs (`MarksRun`), what is owed is in sight (`KeptInSight`), and a
  chat with rows is locked, or one of its prompts is being published or in the
  consumer's queue (`Drained`). `MarksRun` is why a turn that starts overwrites no
  mark that is still needed; it is what a crash destroys.
* `TurnsAreChatTurns` (`RunsOnceAlone`): the refinement, for any number of stops of any
  kind. A first send is `Request`, `StartTurn` is `Run`, `EndBody` is `End`; an
  eviction, a refusal and a discard are `Drop`; the end of the loop and a crash are
  `Stop`, which sends the prompts it cuts off back to waiting, or drops those that
  were discarded while they ran; `Boot` is `Start`; everything else is no step of
  ChatTurns. That a prompt taken from a queue still waits, and does not run
  already, is `PlaceInv`; the invariant `Underway` adds that a prompt that has the
  turn has not ended. With the notifier on nothing is claimed, and the property
  says so: the notifier may queue the row of a prompt that runs.

**EventBus_proof**

* `BusTypeCorrect`, and `DeniedNeverFiled` (`OnlyGrantedOnFile`): an event that
  access control turns away is never dead-lettered. It rests on the order of the
  boot: the bus has its rights whenever it has its dead-letter queue.
* `NowhereTwice` (`OnePlace`) and `NoLetterLost` (`DeadLetterKept`: while the process
  lives, what was handed to the queue and may still be retried is in exactly one
  place), from the invariant `PlaceInv`: `OnePlace`, `LettersKept` and `Filings`.
  `LettersKept` is stronger than what is promised, for it asks nothing of the number
  of tries: `Filings` says that every letter has counted one, so that the replayer
  gives none up, which is the defect of `bus_retries`. It also says that what has not
  been published is in no place, that only handed-over events are on file, and that
  the replayer holds a batch only while the queue is attached. Each step that takes an
  event from one place puts it into one other; the lemmas count.
* `BusIsAMailbox` (`ImplementsMailbox`): the refinement, for any number of crashes.
  What became of an event (`FateOf`) is told by where it is: not published, in some
  place but not delivered (a `letter`), delivered, or nowhere any more. A publish by
  a module is `Deliver`, `Keep` or `Drop`; the publish of a replay is `Deliver`, or,
  when the letter is filed again, `Again`; the push into the table and the pop of a
  batch are no steps either, which is what the counting lemmas say; the boot is
  `Boot`; a crash is `Die`, which drops the letters that were being filed or replayed,
  and no others. That a replay delivers only a letter is `PlaceInv`; that it is
  allowed to, although the rights may be back only later in the boot, is
  `DeniedNeverFiled`.

**WorkflowEngine_proof**

* `EngineOneAtATime`, `EngineCopiesAreFresh`, `EngineStrandsNobody`,
  `EngineTellsTheRow`, `EngineFinalIsFinal`, `EngineTypeCorrect`, from one
  inductive invariant, `EngineInvariant`. Its part for a workflow, `Core`, says:
  at most one holder (a spawned task, the running one, an event, the handled
  event, a request, an answer); a row that is RUNNING has one that is no request,
  a PAUSED one has its request or answer or nobody asks, a final or fresh one has
  none; every copy held equals the row; the caller's future says what the row
  says; and the counts of the row are within their limits. None of the properties
  is inductive alone: that a copy is fresh when it is saved needs that nobody else
  held one meanwhile, and that there is one holder needs the status to be what
  the holder loaded.

* `EngineTrailIsAPath` (`TrailIsAPath`) and `EngineTriesAreBounded` (`BoundedTries`):
  what the histories say. On top of `EngineInvariant` the invariant `Ways` follows
  the one who works for a workflow: while a run of the row's node is to come or
  under way, the trail leads to that node, and the node's tries are those its
  retries and recoveries have counted, or one more; an event not yet
  handled says which of the two, and a success names the last step. That one holder
  works on a fresh copy is what makes an event of the topic speak of the row.
* `EngineIsAGraphRun` (`ImplementsGraphRun`): the refinement. `Prepare` and
  `StartWorkflow` are `Begin`, a body that returns is `Do`, a pause is `Pause`,
  `RouteEnd` is `Succeed`, a task that gives up and a failure past the retries and
  recoveries are `Fail`; routes, retries, recoveries, events, requests and
  presses of buttons are no step of GraphRun. `Ways` tells that the node done is
  the one the workflow stands at, and `EdgesKept`, that only conditions have their
  edges on file rewritten, that it goes on along an edge of its graph.
  `EngineFinalIsFinal` says in addition that a row on file as ended is not even
  written again.

**MultiAgent_proof**

* `AgentsInOrder`, `RightResults`, `WaitsAreRegistered`, `CallersHearTruth`,
  `AgentsTypeCorrect`, from the invariant `Inv`. For a workflow it says where in
  its plan it is and that exactly the roles before have results (`Course`), that
  whoever waits is registered under that role, and an answer that has come is
  this role's (`Wait`), what the caller may have heard (`Hears`), and whose
  the results are (`Kept`). `PipelineOrder` speaks of every message on the topic,
  also of those nobody waits for any more; it stays because plans are fixed
  and results are kept.
* `AgentsAreAPipeline` (`ImplementsPipeline`): the refinement. `Plan` is the chain's
  `Choose`; `Advance` and `Succeed` are its `Do` of the next role, the last one with
  success; `Fail` and `Pause` are `GiveUp`; everything else, the listener included,
  is no step of the chain.
* `WorkIsBounded` (`WorkBound`): an action property. The invariant behind it: a role's
  messages on the topic are no more than the quota its workflow has used up, nothing
  for a role to come, one and the retries for the current one, and no more than the
  limit allows for one that is done. A step adds to them only when the orchestration
  hands out its current task, and the current role has no result yet
  (`CurrentNotFound`); what the listener does with a task or a reply leaves as many or
  fewer (`ListenCopies`).

**Checkpoints_proof**

* `SeqsNeverRepeat`, `PointerNeverDangles`, `AcknowledgedSurvives`,
  `NoSecondRecord`, `RollbackKeepsUp`, `StoreTypeCorrect`. The newest row of a
  phase is a `CHOOSE`, and that there is one to choose is itself an invariant,
  `NewestExists`; since a crash keeps the first rows only, it speaks of every
  prefix of the table. Next to the types it is `TypeInv`. `LogInv` then holds
  the properties of the table together with `Alone`, the job under the lock is
  alone between its read and its commit, and `OwnRows`, what a job under way has
  read and inserted is what the table shows of it. `Written` adds what each job
  that ended has written, and `RollInv` that a rollback knows acknowledged
  saves only.
* `StoreIsALedger` (`ImplementsLedger`): the refinement. `Ledger` forgets the rows:
  it has a number for each save that is on file, a mark for each good one, what
  each job was told, and the save a rollback went to. `Commit` is its `Save`, a last
  `Conflict` its `Refuse`, the second read of a rollback its `Align`; `Flush`, by which
  a stranger commits rows of a save that failed, is `File`, and `Break`, `Forget` and
  `Crash` are no step at all. A number is read off the committed rows, so that there
  is at most one row to read it off (`Written`) and who signed it (`Signed`) are
  part of the invariant, next to `Pointed`: what a rollback holds between its
  reads is a pointer some save has written, committed or not. A rollback may thus go
  to a save that has no number yet, and the ledger says so.

Every safety property of every passing run is stated by a theorem. Only
model-checked is liveness (`EveryPromptSettles`, `EveryTurnEnds`,
`LettersReachSubscribers`, `EveryWorkflowSettles`, `EveryOrchestrationEnds`,
`EveryJobEnds`), which is out of the prover's reach.

## 5. Not modelled

What a task body, a node or an agent computes; the wording, the throttle and the
once-only rule of replies; encryption of the task file; the offline simulation;
retry_node, modify_node_config and skip_node, which only the reflexion loop calls
and nothing triggers; failed saves of a workflow's row; a crash of the process with
workflows under way, whose rows no later process takes up; the other domains of
layered memory; what `PROJECT.json` lists as `not_modelled`. Of errors of single
calls these are left out: an `os.execv` that fails (`Reexec` ends the process); a
publish or push that raises for a letter already popped, or an SQLite error in push
(`bus.py:133`, `dlq.py:148`), which loses the letter while the process lives; buttons
that cannot be sent (`hitl_handler.py:166`), which leave a paused workflow with a
request its human does not see; an exception between the registration of a wait's
future and its try block, or in the timeout handler
(`multi_agent_orchestrator.py:704-787`, `:878-926`), since `Fail` comes only after an
answer. A bus publish and the
arrival in the subscriber's queue are one step, and a loss of what the consumer
had not read is part of a stop. The components left out are mostly text, network
I/O and storage by similarity, where there is little control to check: they are
also most of the program's lines.

## 6. Plan

Done: `TaskQueue`, `TaskDispatch` with `ChatTurns`, `EventBus` with `Mailbox`, `WorkflowEngine`
with the HITL handler and `GraphRun`, `MultiAgent` with `Pipeline`, `Checkpoints` with `Ledger`,
and the proofs above.

Still worth doing, in this order:

1. **One store.** `TaskQueue` and `TaskDispatch` model the same store twice, the first
   with its clock, its caps and its writes, the second with what its callers need of
   it. A short abstract store that both implement would say that they agree.
2. **Composition.** `WorkflowEngine` with `Checkpoints`: a recovery that finds what
   the phase gate saved, instead of a choice.
3. **Replies.** The once-only set of `decision_processor.py:123-180`, marked before
   the send, and its rule by prompt text that outlives the trace.
