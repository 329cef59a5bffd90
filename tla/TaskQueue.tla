------------------------------ MODULE TaskQueue ------------------------------
(***************************************************************************)
(* The per-chat task queue of core/task_queue.py (class TaskQueueStore):   *)
(* pending prompts of every chat, the prompt each chat is running, the     *)
(* JSON file both are written to, the two time-to-live rules and the       *)
(* per-chat and global caps with their two overflow modes.                 *)
(*                                                                         *)
(* Python's dict keeps insertion order, and _enforce_max_total depends on  *)
(* it, so the dict of queues is a sequence of [chat, items] entries.       *)
(* Encryption at rest and the text of the file are not modelled: the file  *)
(* is the pair of dicts it encodes.                                        *)
(***************************************************************************)
EXTENDS Integers, Sequences, FiniteSets

CONSTANTS
  Chats,          \* chat identifiers
  Tasks,          \* prompt texts
  None,           \* Python's None
  Ttl,            \* ADAMI_TASK_QUEUE_TTL_SEC, 0 = off
  InProgressTtl,  \* ADAMI_TASK_QUEUE_IN_PROGRESS_TTL_SEC, 0 = off
  MaxPerChat,     \* ADAMI_TASK_QUEUE_MAX_PER_CHAT, 0 = no cap
  MaxTotal,       \* ADAMI_TASK_QUEUE_MAX_TOTAL, 0 = no cap
  Modes,          \* values of ADAMI_TASK_QUEUE_OVERFLOW_MODE a process may have
  MaxTime,        \* bound of the model: the clock stops here
  MaxLen,         \* bound of the model: no call is made on a longer queue
  MaxUnsaved      \* bound of the model: how many writes in a row may fail

ASSUME TaskQueueAssumption ==
  /\ None \notin Tasks
  /\ {Ttl, InProgressTtl, MaxPerChat, MaxTotal, MaxTime, MaxLen, MaxUnsaved}
       \subseteq Nat
  /\ Modes \subseteq {"drop_oldest", "reject"}

VARIABLES
  mode,        \* _overflow_mode, set once by the constructor
  queues,      \* _queues, an ordered dict: Seq of [chat, items]
  inProgress,  \* _in_progress: [task, at] or None for every chat
  disk,        \* what the file holds: [queues, inProgress]
  unsaved,     \* how many writes of _save have failed since the last that did not
               \* (a failure is non-fatal)
  now          \* time.time()

vars == <<mode, queues, inProgress, disk, unsaved, now>>

Item == [task : Tasks, at : 0..MaxTime, recovered : BOOLEAN]
Running == [task : Tasks, at : 0..MaxTime]
Dict == [chat : Chats, items : Seq(Item)]

\* A list comprehension: the elements of s at the places of K, in their order.
Only(s, K) ==
  LET upTo[n \in 0..Len(s)] ==
        IF n = 0 THEN <<>>
        ELSE IF n \in K THEN Append(upTo[n - 1], s[n]) ELSE upTo[n - 1]
  IN  IF K = DOMAIN s THEN s ELSE upTo[Len(s)]

-----------------------------------------------------------------------------
(* The ordered dict.                                                       *)

ItemsOf(d, c) ==
  LET hit == {i \in DOMAIN d : d[i].chat = c}
  IN  IF hit = {} THEN <<>> ELSE d[CHOOSE i \in hit : TRUE].items

Keys(d) == {d[i].chat : i \in DOMAIN d}

\* A wrong assignment: the key is always new.
PutLast(d, c, s) == Append(d, [chat |-> c, items |-> s])

\* d[c] = s : a key keeps its place, a new key goes last.
Put(d, c, s) ==
  IF c \in Keys(d)
  THEN [i \in DOMAIN d |-> IF d[i].chat = c THEN [d[i] EXCEPT !.items = s] ELSE d[i]]
  ELSE Append(d, [chat |-> c, items |-> s])

Delete(d, c) == Only(d, {i \in DOMAIN d : d[i].chat # c})

\* d[c] = s, where an emptied list takes its key away.
PutOrDelete(d, c, s) == IF s = <<>> THEN Delete(d, c) ELSE Put(d, c, s)

\* The rows of every chat, each as the place of its entry and its own place.
Rows(d) == UNION {{i} \X DOMAIN d[i].items : i \in DOMAIN d}

TotalPending(d) == Cardinality(Rows(d))

-----------------------------------------------------------------------------
(* _purge_stale: pending rows and running marks past their time to live.   *)

Unexpired(s) == Only(s, {k \in DOMAIN s : Ttl = 0 \/ s[k].at >= now - Ttl})

NonEmpty(d) == Only(d, {i \in DOMAIN d : d[i].items # <<>>})

PurgedQueues(d) ==
  IF Ttl = 0 THEN d
  ELSE NonEmpty([i \in DOMAIN d |-> [d[i] EXCEPT !.items = Unexpired(@)]])

PurgedInProgress(ip) ==
  [c \in Chats |->
     IF InProgressTtl > 0 /\ ip[c] # None /\ ip[c].at < now - InProgressTtl
     THEN None ELSE ip[c]]

\* _save: purge, then replace the file; a failed write leaves the old file.
Save(d, ip) ==
  /\ queues' = PurgedQueues(d)
  /\ inProgress' = PurgedInProgress(ip)
  /\ \/ /\ unsaved' = 0
        /\ disk' = [queues |-> queues', inProgress |-> inProgress']
     \/ /\ unsaved < MaxUnsaved /\ unsaved' = unsaved + 1
        /\ disk' = disk

\* A purge in memory that no write follows.
PurgeOnly ==
  /\ queues' = PurgedQueues(queues)
  /\ inProgress' = PurgedInProgress(inProgress)
  /\ UNCHANGED <<disk, unsaved>>

-----------------------------------------------------------------------------
(* The caps of the drop_oldest mode.                                       *)

\* A wrong cap: one row too many.
LastFewAndOne(s) ==
  IF MaxPerChat > 0 /\ Len(s) > MaxPerChat
  THEN SubSeq(s, Len(s) - MaxPerChat, Len(s)) ELSE s

\* _enforce_max_per_chat: the newest MaxPerChat items stay.
LastFew(s) ==
  IF MaxPerChat > 0 /\ Len(s) > MaxPerChat
  THEN SubSeq(s, Len(s) - MaxPerChat + 1, Len(s)) ELSE s

\* The entry _enforce_max_total drops from: the first of the longest.
FirstLongest(d) ==
  CHOOSE i \in DOMAIN d :
    \A j \in DOMAIN d : /\ Len(d[j].items) <= Len(d[i].items)
                        /\ Len(d[j].items) = Len(d[i].items) => i <= j

\* A wrong trim: the newest row of the entry goes.
DropNewestOfLongest(d) ==
  LET e == d[FirstLongest(d)]
  IN  PutOrDelete(d, e.chat, SubSeq(e.items, 1, Len(e.items) - 1))

DropFromLongest(d) ==
  LET e == d[FirstLongest(d)] IN PutOrDelete(d, e.chat, Tail(e.items))

\* A wrong trim: one row per call, where the loop goes on.
TrimOnce(d) ==
  IF MaxTotal > 0 /\ TotalPending(d) > MaxTotal THEN DropFromLongest(d) ELSE d

\* _enforce_max_total
TrimTotal(d) ==
  LET excess == IF MaxTotal > 0 /\ TotalPending(d) > MaxTotal
                THEN TotalPending(d) - MaxTotal ELSE 0
      drop[n \in 0..excess] == IF n = 0 THEN d ELSE DropFromLongest(drop[n - 1])
  IN  drop[excess]

-----------------------------------------------------------------------------
(* The operations.                                                         *)

Init ==
  /\ mode \in Modes
  /\ queues = <<>>
  /\ inProgress = [c \in Chats |-> None]
  /\ disk = [queues |-> queues, inProgress |-> inProgress]
  /\ unsaved = 0
  /\ now = 0

\* enqueue, refused at a cap: setdefault has left the chat a (maybe empty) list.
EnqueueRefused(c) ==
  LET d == PurgedQueues(queues)
      q == ItemsOf(d, c)
  IN  /\ mode = "reject"
      /\ \/ MaxTotal > 0 /\ TotalPending(d) >= MaxTotal
         \/ MaxPerChat > 0 /\ Len(q) >= MaxPerChat
      /\ queues' = Put(d, c, q)
      /\ inProgress' = PurgedInProgress(inProgress)
      /\ UNCHANGED <<disk, unsaved, now>>

\* enqueue, accepted
Enqueue(c, t) ==
  LET d == PurgedQueues(queues)
      q == ItemsOf(d, c)
      x == [task |-> t, at |-> now, recovered |-> FALSE]
  IN  /\ Len(q) < MaxLen
      /\ IF mode = "reject"
         THEN /\ ~(MaxTotal > 0 /\ TotalPending(d) >= MaxTotal)
              /\ ~(MaxPerChat > 0 /\ Len(q) >= MaxPerChat)
              /\ Save(Put(d, c, Append(q, x)), inProgress)
         ELSE Save(TrimTotal(Put(d, c, LastFew(Append(q, x)))), inProgress)
      /\ UNCHANGED now

\* list_pending and chat_ids_with_pending answer from memory after a purge.
ListPending ==
  /\ PurgeOnly
  /\ UNCHANGED now

\* pop_next
PopNext(c) ==
  LET d == PurgedQueues(queues)
      q == ItemsOf(d, c)
  IN  /\ IF q = <<>> THEN PurgeOnly
                     ELSE Save(PutOrDelete(d, c, Tail(q)), inProgress)
      /\ UNCHANGED now

\* mark_started: the mark of a task that never finished is overwritten.
MarkStarted(c, t) ==
  /\ Save(queues, [inProgress EXCEPT ![c] = [task |-> t, at |-> now]])
  /\ UNCHANGED now

\* mark_finished
MarkFinished(c) ==
  /\ inProgress[c] # None
  /\ Save(queues, [inProgress EXCEPT ![c] = None])
  /\ UNCHANGED now

\* A wrong discard: the file is not written.
DiscardInMemory(c) ==
  /\ queues' = Delete(queues, c)
  /\ inProgress' = [inProgress EXCEPT ![c] = None]
  /\ UNCHANGED <<disk, unsaved, now>>

\* discard_all
DiscardAll(c) ==
  /\ Save(Delete(queues, c), [inProgress EXCEPT ![c] = None])
  /\ UNCHANGED now

\* recover_in_progress_to_front: the item keeps the age of the run it was,
\* and the purge inside _save may drop it at once.
RecoverInProgress(c) ==
  /\ inProgress[c] # None
  /\ Len(ItemsOf(queues, c)) < MaxLen
  /\ LET x == [task |-> inProgress[c].task, at |-> inProgress[c].at, recovered |-> TRUE]
     IN  Save(Put(queues, c, <<x>> \o ItemsOf(queues, c)),
              [inProgress EXCEPT ![c] = None])
  /\ UNCHANGED now

\* persist_after_purge, the body of the sweep loop: written when a row or a mark
\* has gone, an empty list does not count.
Sweep ==
  /\ IF \/ TotalPending(PurgedQueues(queues)) < TotalPending(queues)
        \/ PurgedInProgress(inProgress) # inProgress
     THEN Save(queues, inProgress) ELSE PurgeOnly
  /\ UNCHANGED now

\* A new process: _load reads the file (empty lists are skipped) and purges.
Reload ==
  /\ queues' = PurgedQueues(NonEmpty(disk.queues))
  /\ inProgress' = PurgedInProgress(disk.inProgress)
  /\ unsaved' = 0
  /\ UNCHANGED <<disk, now>>

Tick ==
  /\ now < MaxTime
  /\ now' = now + 1
  /\ UNCHANGED <<queues, inProgress, disk, unsaved>>

Next ==
  /\ mode' = mode
  /\ \/ \E c \in Chats, t \in Tasks : Enqueue(c, t)
     \/ \E c \in Chats, t \in Tasks : MarkStarted(c, t)
     \/ \E c \in Chats : EnqueueRefused(c)
     \/ \E c \in Chats : PopNext(c)
     \/ \E c \in Chats : MarkFinished(c)
     \/ \E c \in Chats : DiscardAll(c)
     \/ \E c \in Chats : RecoverInProgress(c)
     \/ ListPending
     \/ Sweep
     \/ Reload
     \/ Tick

Spec == Init /\ [][Next]_vars

-----------------------------------------------------------------------------
(* Properties.                                                             *)

\* Every variable has its type, and the dict has one entry per chat.
TypeOK ==
  /\ mode \in Modes
  /\ queues \in Seq(Dict)
  /\ inProgress \in [Chats -> Running \cup {None}]
  /\ disk \in [queues : Seq(Dict), inProgress : [Chats -> Running \cup {None}]]
  /\ unsaved \in 0..MaxUnsaved
  /\ now \in 0..MaxTime
  /\ \A i, j \in DOMAIN queues : queues[i].chat = queues[j].chat => i = j

\* The places of the rows that recovery did not put back.
FreshPlaces(s) == {k \in DOMAIN s : ~s[k].recovered}
FreshRows(d) == {r \in Rows(d) : ~d[r[1]].items[r[2]].recovered}

\* The per-chat cap: apart from rows put back by recovery, which skips the
\* caps, no chat ever holds more pending rows than MaxPerChat, in either
\* overflow mode and whatever purges, restarts and recoveries happen.
PerChatCapHolds ==
  MaxPerChat > 0 =>
    \A c \in Chats : Cardinality(FreshPlaces(ItemsOf(queues, c))) <= MaxPerChat

\* The global cap, likewise: the trim loop of _enforce_max_total stops only
\* when the instance is back under it.
TotalCapHolds == MaxTotal > 0 => Cardinality(FreshRows(queues)) <= MaxTotal

\* The file rebuilds the memory: while the last write succeeded, reloading it
\* gives the same live rows, in the same order, as the process holds, however
\* many purges have happened in memory only. A failed write is healed by the
\* next one that succeeds.
FileRebuildsMemory ==
  unsaved = 0 =>
    /\ \A c \in Chats :
         Unexpired(ItemsOf(disk.queues, c)) = Unexpired(ItemsOf(queues, c))
    /\ PurgedInProgress(disk.inProgress) = PurgedInProgress(inProgress)

\* s is what the rows u become when the first ones go.
Behind(s, u) == \E n \in 0..Len(u) : s = SubSeq(u, n + 1, Len(u))

\* ... or those past their time, and then the first ones.
Shortened(s, u) == Behind(s, u) \/ Behind(s, Unexpired(u))

\* What a step may do to the rows of a chat.
RowsMove(c) ==
  LET old == ItemsOf(queues, c)
      new == ItemsOf(queues', c)
      ip == inProgress[c]
  IN  \/ Shortened(new, old)
      \/ \E t \in Tasks :
           Shortened(new, Append(old, [task |-> t, at |-> now, recovered |-> FALSE]))
      \/ /\ ip # None /\ inProgress'[c] = None
         /\ Shortened(new, <<[task |-> ip.task, at |-> ip.at, recovered |-> TRUE]>> \o old)
      \/ unsaved > 0 /\ Shortened(new, ItemsOf(disk.queues, c))

\* The oldest leave first: whatever is popped, evicted, discarded, purged or
\* read back, of the rows of a chat that have not expired the newest stay, in
\* their order; a new row joins behind them, and only the prompt of an
\* interrupted run, whose mark is taken away, in front.  Only a new process
\* whose last write had failed goes back to older rows, those on file.
OldestLeaveFirst == [][\A c \in Chats : RowsMove(c)]_vars
=============================================================================
