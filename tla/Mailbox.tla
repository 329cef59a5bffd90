------------------------------- MODULE Mailbox -------------------------------
(***************************************************************************)
(* What the bus promises of an event: it is delivered at most once, and    *)
(* only to a topic somebody takes; one that is granted and finds nobody    *)
(* becomes a letter, and a letter is tried again until its topic is taken  *)
(* or it has used up its retries.  Otherwise only the end of the process   *)
(* loses letters, or a boot that is told to clear them.  The table, the    *)
(* calls that file and the batch that is replayed are EventBus's.          *)
(***************************************************************************)
EXTENDS Naturals

CONSTANTS Events, Topics, TopicOf, ClassOf, ClearOnBoot, RetryLimit

VARIABLES
  stage,   \* of the process: down, open, guarded by its rights, ready for letters
  takers,  \* topics somebody takes
  fate,    \* of each event: new, letter, delivered, dropped
  times,   \* how often each was delivered
  retries  \* how often each was tried again, up to one more than the limit

vars == <<stage, takers, fate, times, retries>>

Init ==
  /\ stage = "open"
  /\ takers = {}
  /\ fate = [e \in Events |-> "new"]
  /\ times = [e \in Events |-> 0]
  /\ retries = [e \in Events |-> 0]

Boot ==
  /\ <<stage, stage'>> \in {<<"down", "open">>, <<"open", "guarded">>, <<"guarded", "ready">>}
  /\ UNCHANGED <<takers, fate, times, retries>>

Subscribe(t) ==
  /\ stage # "down"
  /\ takers' = takers \cup {t}
  /\ UNCHANGED <<stage, fate, times, retries>>

Becomes(e, f) == fate' = [fate EXCEPT ![e] = f] /\ UNCHANGED <<stage, takers>>

\* Before the bus has its rights it refuses nobody.
Allowed(e) == ClassOf[e] # "denied" \/ stage = "open"

CountRetry(e) == retries' = [retries EXCEPT ![e] = IF @ > RetryLimit THEN @ ELSE @ + 1]

Deliver(e) ==
  /\ stage # "down"
  /\ \/ fate[e] = "new" /\ UNCHANGED retries
     \/ fate[e] = "letter" /\ CountRetry(e)
  /\ Allowed(e) /\ TopicOf[e] \in takers
  /\ times' = [times EXCEPT ![e] = @ + 1]
  /\ Becomes(e, "delivered")

\* A letter is tried again and finds nobody.
Again(e) ==
  /\ stage = "ready" /\ fate[e] = "letter" /\ TopicOf[e] \notin takers
  /\ CountRetry(e)
  /\ UNCHANGED <<stage, takers, fate, times>>

\* Its retry_count, 1 when it is first filed, has reached the limit.
GiveUp(e) ==
  /\ stage = "ready" /\ fate[e] = "letter" /\ retries[e] + 1 >= RetryLimit
  /\ UNCHANGED <<times, retries>>
  /\ Becomes(e, "dropped")

Keep(e) ==
  /\ stage = "ready" /\ fate[e] = "new"
  /\ ClassOf[e] = "granted" /\ TopicOf[e] \notin takers
  /\ UNCHANGED <<times, retries>>
  /\ Becomes(e, "letter")

\* Refused, or nobody takes it and it may not become a letter.
Drop(e) ==
  /\ stage # "down" /\ fate[e] = "new"
  /\ \/ ~Allowed(e)
     \/ TopicOf[e] \notin takers /\ (ClassOf[e] # "granted" \/ stage # "ready")
  /\ UNCHANGED <<times, retries>>
  /\ Becomes(e, "dropped")

\* Told to, the boot throws away what is on file.
Clear ==
  /\ ClearOnBoot /\ stage = "open"
  /\ fate' = [e \in Events |-> IF fate[e] = "letter" THEN "dropped" ELSE fate[e]]
  /\ UNCHANGED <<stage, takers, times, retries>>

\* The process ends, and letters that were not on file are lost.
Die(L) ==
  /\ stage # "down"
  /\ \A e \in L : fate[e] = "letter"
  /\ stage' = "down" /\ takers' = {}
  /\ fate' = [e \in Events |-> IF e \in L THEN "dropped" ELSE fate[e]]
  /\ UNCHANGED <<times, retries>>

Next ==
  \/ Boot
  \/ \E t \in Topics : Subscribe(t)
  \/ \E e \in Events : Deliver(e) \/ Keep(e) \/ Drop(e) \/ Again(e) \/ GiveUp(e)
  \/ Clear
  \/ \E L \in SUBSET Events : Die(L)

Spec == Init /\ [][Next]_vars
=============================================================================
