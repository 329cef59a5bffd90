------------------------------- MODULE EventBus -------------------------------
(***************************************************************************)
(* nexus/bus.py (EventBus) with its dead-letter queue, nexus/dlq.py: what  *)
(* publish does with an event, the letters kept in SQLite, the task that   *)
(* replays them, and the order in which a boot puts the bus together       *)
(* (core/boot_manager.py).                                                 *)
(*                                                                         *)
(* Subscriber queues have no limit, so put neither fails nor times out,    *)
(* and both middlewares let every event pass: an event of a module that is *)
(* granted its topic becomes a letter only when the topic has no           *)
(* subscriber.  Payloads, priorities and redaction are not modelled.       *)
(***************************************************************************)
EXTENDS Integers, Sequences, FiniteSets

CONSTANTS
  Events,       \* each published once by its module
  Topics,
  TopicOf,      \* target_topic
  ClassOf,      \* "system", "granted" or "denied": whitelist and RBAC matrix
  ClearOnBoot,  \* ADAMI_DLQ_CLEAR_ON_BOOT
  MaxCrashes    \* bound of the model

ASSUME EventBusAssumption ==
  /\ TopicOf \in [Events -> Topics]
  /\ ClassOf \in [Events -> {"system", "granted", "denied"}]
  /\ ClearOnBoot \in BOOLEAN
  /\ MaxCrashes \in Nat

VARIABLES
  phase,        \* of the process: down, created, initialized, guarded, ready
  subscribers,  \* topics that have one
  new,          \* events not published yet
  pushing,      \* [ev, by]: publish calls that wait for dlq.push
  dlq,          \* the table dead_letters: Seq of [ev, retry]
  batch,        \* letters popped and not yet replayed
  delivered,    \* history: how often an event was put on its topic's queue
  handed,       \* history: events publish has given to the dead-letter queue
  retries,      \* history: how often the replayer published an event, up to
                \* one more than the limit
  crashes       \* history: how often the process died

vars ==
  <<phase, subscribers, new, pushing, dlq, batch, delivered, handed, retries, crashes>>

\* The largest retry_count the replayer takes for another try.
RetryLimit == 5

Letters == [ev : Events, retry : 1..RetryLimit]
Callers == {"module", "replayer"}

\* A wrong boot: the dead-letter queue is there before the access rights are.
AttachedAtOnce == phase \in {"initialized", "guarded", "ready"}

\* bus.dlq_db is set, the last step of the three.
Attached == phase = "ready"

\* bus.rbac is set.
Guarded == phase \in {"guarded", "ready"}

Init ==
  /\ phase = "created"
  /\ subscribers = {}
  /\ new = Events
  /\ pushing = {} /\ dlq = <<>> /\ batch = <<>>
  /\ delivered = [e \in Events |-> 0]
  /\ handed = {}
  /\ retries = [e \in Events |-> 0]
  /\ crashes = 0

-----------------------------------------------------------------------------
(* The boot.                                                               *)

\* bus.initialize: dlq_db is set two steps later, so the test in front of
\* the clear never finds it.
Initialize ==
  /\ phase = "created"
  /\ phase' = "initialized"
  /\ dlq' = IF ClearOnBoot /\ Attached THEN <<>> ELSE dlq
  /\ UNCHANGED <<subscribers, new, pushing, batch, delivered, handed, retries, crashes>>

SetRbac ==
  /\ phase = "initialized"
  /\ phase' = "guarded"
  /\ UNCHANGED <<subscribers, new, pushing, dlq, batch, delivered, handed, retries, crashes>>

AttachDlq ==
  /\ phase = "guarded"
  /\ phase' = "ready"
  /\ UNCHANGED <<subscribers, new, pushing, dlq, batch, delivered, handed, retries, crashes>>

\* Components subscribe during the boot and after it; nobody unsubscribes.
Subscribe(t) ==
  /\ phase # "down"
  /\ t \notin subscribers
  /\ subscribers' = subscribers \cup {t}
  /\ UNCHANGED <<phase, new, pushing, dlq, batch, delivered, handed, retries, crashes>>

-----------------------------------------------------------------------------
(* publish                                                                 *)

Passes(e) == ClassOf[e] = "system" \/ ~Guarded \/ ClassOf[e] = "granted"

\* A wrong publish: what the replayer cannot deliver is not filed again.
DeadLettersOnce(e, by) ==
  /\ by = "module"
  /\ ClassOf[e] # "system" /\ Passes(e) /\ TopicOf[e] \notin subscribers /\ Attached

\* Only an event outside the whitelist is kept when nobody takes it.
DeadLetters(e, by) ==
  ClassOf[e] # "system" /\ Passes(e) /\ TopicOf[e] \notin subscribers /\ Attached

Publish(e, by) ==
  /\ delivered' = IF Passes(e) /\ TopicOf[e] \in subscribers
                  THEN [delivered EXCEPT ![e] = @ + 1] ELSE delivered
  /\ IF DeadLetters(e, by)
     THEN /\ pushing' = pushing \cup {[ev |-> e, by |-> by]}
          /\ handed' = handed \cup {e}
     ELSE UNCHANGED <<pushing, handed>>

ModulePublishes(e) ==
  /\ phase # "down"
  /\ e \in new
  /\ new' = new \ {e}
  /\ Publish(e, "module")
  /\ UNCHANGED <<phase, subscribers, dlq, batch, retries, crashes>>

\* The row push writes: one more than the retry_count of the event's dump,
\* and an AdamiEvent has no such field.
Filed(e) == [ev |-> e, retry |-> 0 + 1]

\* dlq.push gets the lock and commits.
Push(p) ==
  /\ p \in pushing
  /\ pushing' = pushing \ {p}
  /\ dlq' = Append(dlq, Filed(p.ev))
  /\ UNCHANGED <<phase, subscribers, new, batch, delivered, handed, retries, crashes>>

-----------------------------------------------------------------------------
(* _auto_replay_dlq                                                        *)

Replaying == batch # <<>> \/ \E p \in pushing : p.by = "replayer"

\* A wrong pop_all: the rows stay.
PeekAll == batch' = dlq /\ UNCHANGED dlq

\* pop_all: the rows are read and deleted in one committed transaction.
PopAll == batch' = dlq /\ dlq' = <<>>

\* The task wakes, half a minute after it last finished.
ReplayerWakes ==
  /\ Attached
  /\ ~Replaying
  /\ dlq # <<>>
  /\ PopAll
  /\ UNCHANGED <<phase, subscribers, new, pushing, delivered, handed, retries, crashes>>

CountRetry(n) == IF n > RetryLimit THEN n ELSE n + 1

\* A wrong limit: one retry.
GivesUpAtOnce(l) == l.retry + 1 > 1

GivesUp(l) == l.retry + 1 > RetryLimit

\* The next letter of the batch, once the push of the last one has ended.
ReplayNext ==
  LET l == Head(batch)
  IN  /\ phase # "down"
      /\ batch # <<>>
      /\ ~\E p \in pushing : p.by = "replayer"
      /\ batch' = Tail(batch)
      /\ IF GivesUp(l)
         THEN UNCHANGED <<pushing, delivered, handed, retries>>
         ELSE /\ Publish(l.ev, "replayer")
              /\ retries' = [retries EXCEPT ![l.ev] = CountRetry(@)]
      /\ UNCHANGED <<phase, subscribers, new, dlq, crashes>>

-----------------------------------------------------------------------------
\* The process dies or is stopped: only the table is left.
Crash ==
  /\ phase # "down" /\ crashes < MaxCrashes
  /\ phase' = "down" /\ crashes' = crashes + 1
  /\ subscribers' = {} /\ pushing' = {} /\ batch' = <<>>
  /\ UNCHANGED <<new, dlq, delivered, handed, retries>>

Restart ==
  /\ phase = "down"
  /\ phase' = "created"
  /\ UNCHANGED <<subscribers, new, pushing, dlq, batch, delivered, handed, retries, crashes>>

Next ==
  \/ Initialize \/ SetRbac \/ AttachDlq
  \/ \E t \in Topics : Subscribe(t)
  \/ \E e \in Events : ModulePublishes(e)
  \/ \E p \in [ev : Events, by : Callers] : Push(p)
  \/ ReplayerWakes \/ ReplayNext
  \/ Crash \/ Restart

Spec == Init /\ [][Next]_vars

\* The boot goes on, SQLite answers and the replay loop never ends; modules
\* need not publish, topics need not get a subscriber.
Fairness ==
  /\ WF_vars(Initialize) /\ WF_vars(SetRbac) /\ WF_vars(AttachDlq)
  /\ \A p \in [ev : Events, by : Callers] : WF_vars(Push(p))
  /\ WF_vars(ReplayerWakes) /\ WF_vars(ReplayNext)

FairSpec == Spec /\ Fairness

-----------------------------------------------------------------------------
(* Properties.                                                             *)

TypeOK ==
  /\ phase \in {"down", "created", "initialized", "guarded", "ready"}
  /\ subscribers \subseteq Topics
  /\ new \subseteq Events
  /\ pushing \subseteq [ev : Events, by : Callers]
  /\ dlq \in Seq(Letters) /\ batch \in Seq(Letters)
  /\ delivered \in [Events -> Nat]
  /\ handed \subseteq Events
  /\ retries \in [Events -> Nat]
  /\ crashes \in 0..MaxCrashes

Copies(s, e) == Cardinality({i \in DOMAIN s : s[i].ev = e})

\* Where an event is, counted.
Places(e) == delivered[e] + Cardinality({p \in pushing : p.ev = e})
               + Copies(dlq, e) + Copies(batch, e)

\* An event is in one place: delivered, on file, in the replayer's hands or
\* being filed, and never in two.  So replaying delivers nothing twice,
\* whenever the process dies between the commit of pop_all and the republish.
OnePlace == \A e \in Events : Places(e) <= 1

\* What the limit entitles a letter to: its retry_count starts at 1, so it is
\* given up once four replays have found nobody.
Entitled(e) == retries[e] + 1 < RetryLimit

\* While the process lives, a letter that publish has handed to the dead-letter
\* queue and that may still be retried is delivered, or somewhere: no round of
\* the replay loses it.
DeadLetterKept == crashes = 0 => \A e \in handed : Entitled(e) => Places(e) = 1

\* A letter is not replayed more often than the limit allows.
RetriesAreLimited == \A e \in Events : retries[e] <= RetryLimit

\* What access control turns away is never filed, not even when it comes
\* while the boot has not yet given the bus its rights.
OnlyGrantedOnFile == \A e \in handed : ClassOf[e] = "granted"

FateOf(e) ==
  CASE e \in new -> "new"
    [] e \notin new /\ delivered[e] > 0 -> "delivered"
    [] e \notin new /\ delivered[e] = 0 /\ Places(e) > 0 -> "letter"
    [] OTHER -> "dropped"

Mail == INSTANCE Mailbox WITH
  stage <- IF phase \in {"created", "initialized"} THEN "open" ELSE phase,
  takers <- subscribers,
  fate <- [e \in Events |-> FateOf(e)],
  times <- delivered

\* The bus implements Mailbox: whatever is pushed, popped and replayed, a
\* letter that may still be retried waits until it is delivered, once, and only
\* the end of the process loses one.
ImplementsMailbox == Mail!Spec

\* A letter on file that may still be retried is delivered once its topic has a
\* subscriber, unless the process dies first.
LettersReachSubscribers ==
  \A e \in Events :
    Copies(dlq, e) > 0 /\ Attached /\ TopicOf[e] \in subscribers /\ Entitled(e)
      ~> delivered[e] > 0 \/ phase = "down"
=============================================================================
