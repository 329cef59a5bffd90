--------------------------- MODULE TaskPlaces_proof ---------------------------
(***************************************************************************)
(* Where a prompt of TaskDispatch is: on its way, waiting, marked or about *)
(* to start, and never in two of these places, whatever stops.  What the   *)
(* file offers to run again follows.                                       *)
(***************************************************************************)
EXTENDS TaskDispatch_proof

\* The places a prompt may be in, outside of a turn that has begun.
Places(e) ==
  {p \in {"publishing", "inbox", "shell", "queue", "mark", "starting"} :
     \/ p = "publishing" /\ e \in publishing
     \/ p = "inbox" /\ e \in Rows(inbox)
     \/ p = "shell" /\ shell = e
     \/ p = "queue" /\ e \in Rows(queue[ChatOf[e]])
     \/ p = "mark" /\ inProgress[ChatOf[e]] = e
     \/ p = "starting" /\ \E h \in Handlers : handler[h].ev = e /\ handler[h].pc = "starting"}

\* Its turn has begun: the mark was written.
Running(e) == \E h \in Handlers : handler[h].ev = e /\ handler[h].pc \in {"announcing", "body"}

Once(s) == \A i, j \in DOMAIN s : s[i] = s[j] => i = j

\* An event is in one place.  Before it is sent it is in none; with the
\* notifier off one that runs is in no other than its mark, and what is
\* somewhere is owed to its user.
Alone(e) == \A p, q \in Places(e) : p = q
Unsent(e) == fate[e] = "new" => Places(e) = {} /\ ~Running(e)
NotTwice(e) == ~notify /\ Running(e) => Places(e) \subseteq {"mark"}
Owed(e) ==
  ~notify /\ e \in Tasks =>
    /\ Places(e) # {} => fate[e] \in Kept \cup {"sent"}
    /\ "queue" \in Places(e) \/ "mark" \in Places(e) => fate[e] \in Kept

InPlace(e) == Alone(e) /\ Unsent(e) /\ NotTwice(e) /\ Owed(e)

RowsOnce == Once(inbox) /\ \A c \in Chats : Once(queue[c])

\* A prompt that was queued or refused is not taken for one that was sent.
Answered ==
  \A h \in Handlers : handler[h].pc = "reply" /\ handler[h].ev \in Tasks =>
    fate[handler[h].ev] \notin {"new", "sent"}

\* The notifier, when it is off, visits nobody; in a stopped process nothing runs.
Quiet ==
  /\ ~notify => todo = {}
  /\ mode = "down" => \A h \in Handlers : handler[h] = Idle

PlaceInv == (\A e \in Events : InPlace(e)) /\ RowsOnce /\ Answered /\ Quiet

-----------------------------------------------------------------------------
(* Rows of a sequence.                                                     *)

LEMMA AppendRows ==
  ASSUME NEW S, NEW s \in Seq(S), NEW e \in S
  PROVE  /\ Rows(Append(s, e)) = Rows(s) \cup {e}
         /\ Once(s) /\ e \notin Rows(s) => Once(Append(s, e))
<1>1. /\ Len(s) \in Nat
      /\ DOMAIN s = 1..Len(s) /\ DOMAIN Append(s, e) = 1..(Len(s) + 1)
      /\ \A i \in 1..Len(s) : Append(s, e)[i] = s[i]
      /\ Append(s, e)[Len(s) + 1] = e
  OBVIOUS
<1>2. 1..(Len(s) + 1) = 1..Len(s) \cup {Len(s) + 1}
  BY <1>1
<1>3. Rows(Append(s, e)) = Rows(s) \cup {e}
  BY <1>1, <1>2 DEF Rows
<1>4. Once(s) /\ e \notin Rows(s) => Once(Append(s, e))
  BY <1>1, <1>2 DEF Once, Rows
<1> QED
  BY <1>3, <1>4

LEMMA TailRows ==
  ASSUME NEW S, NEW s \in Seq(S), s # <<>>
  PROVE  /\ Rows(Tail(s)) \subseteq Rows(s) /\ Head(s) \in Rows(s)
         /\ Rows(s) = {Head(s)} \cup Rows(Tail(s))
         /\ Once(s) => Once(Tail(s)) /\ Head(s) \notin Rows(Tail(s))
<1>1. /\ Len(s) \in Nat \ {0}
      /\ DOMAIN s = 1..Len(s) /\ DOMAIN Tail(s) = 1..(Len(s) - 1)
      /\ \A i \in 1..(Len(s) - 1) : Tail(s)[i] = s[i + 1]
      /\ Head(s) = s[1]
  BY HeadTailProperties, EmptySeq, LenProperties
<1>2. /\ \A i \in 1..(Len(s) - 1) : i + 1 \in 1..Len(s) /\ i + 1 # 1
      /\ \A i \in 1..Len(s) : i # 1 => i - 1 \in 1..(Len(s) - 1) /\ (i - 1) + 1 = i
      /\ 1 \in 1..Len(s)
  BY <1>1
<1>3. Rows(Tail(s)) \subseteq Rows(s) /\ Head(s) \in Rows(s)
  BY <1>1, <1>2 DEF Rows
<1>4. Rows(s) = {Head(s)} \cup Rows(Tail(s))
  <2>1. ASSUME NEW i \in 1..Len(s), i # 1 PROVE s[i] \in Rows(Tail(s))
    <3>1. i - 1 \in 1..(Len(s) - 1) /\ Tail(s)[i - 1] = s[i]
      BY <1>1, <1>2, <2>1
    <3> QED
      BY <1>1, <3>1 DEF Rows
  <2> QED
    BY <1>1, <1>3, <2>1 DEF Rows
<1>5. ASSUME Once(s) PROVE Once(Tail(s)) /\ Head(s) \notin Rows(Tail(s))
  <2>1. \A i, j \in 1..(Len(s) - 1) : i + 1 = j + 1 => i = j
    BY <1>1
  <2>2. \A i, j \in 1..(Len(s) - 1) : Tail(s)[i] = Tail(s)[j] => i = j
    BY <1>1, <1>2, <1>5, <2>1 DEF Once
  <2>3. \A i \in 1..(Len(s) - 1) : Tail(s)[i] # Head(s)
    BY <1>1, <1>2, <1>5 DEF Once
  <2> QED
    BY <1>1, <2>2, <2>3 DEF Once, Rows
<1> QED
  BY <1>3, <1>4, <1>5

\* A mark put in front.
LEMMA FrontRows ==
  ASSUME NEW S, NEW s \in Seq(S), NEW e \in S
  PROVE  /\ Rows(<<e>> \o s) = {e} \cup Rows(s)
         /\ Once(s) /\ e \notin Rows(s) => Once(<<e>> \o s)
<1> DEFINE q == <<e>> \o s
<1>1. <<e>> \in Seq(S) /\ Len(<<e>>) = 1 /\ <<e>>[1] = e
  OBVIOUS
<1>2. /\ Len(s) \in Nat /\ DOMAIN s = 1..Len(s) /\ DOMAIN q = 1..(Len(s) + 1)
      /\ \A i \in 1..(Len(s) + 1) : q[i] = IF i <= 1 THEN e ELSE s[i - 1]
  <2>1. /\ q \in Seq(S) /\ Len(q) = 1 + Len(s)
        /\ \A i \in 1..(1 + Len(s)) : q[i] = IF i <= 1 THEN <<e>>[i] ELSE s[i - 1]
    BY <1>1, ConcatProperties
  <2>2. Len(s) \in Nat /\ 1 + Len(s) = Len(s) + 1 /\ \A i \in 1..(Len(s) + 1) : i <= 1 => i = 1
    OBVIOUS
  <2>3. DOMAIN s = 1..Len(s) /\ DOMAIN q = 1..Len(q)
    BY <2>1, LenProperties
  <2> QED
    BY <1>1, <2>1, <2>2, <2>3
<1> HIDE DEF q
<1>3. /\ \A i \in 1..Len(s) : i + 1 \in 1..(Len(s) + 1) /\ ~(i + 1 <= 1) /\ (i + 1) - 1 = i
      /\ \A i \in 1..(Len(s) + 1) : i <= 1 \/ (i - 1 \in 1..Len(s))
      /\ \A i, j \in 1..(Len(s) + 1) : i <= 1 /\ j <= 1 => i = j
      /\ \A i, j \in 1..(Len(s) + 1) : i - 1 = j - 1 => i = j
      /\ 1 \in 1..(Len(s) + 1) /\ 1 <= 1
  BY <1>2
<1>4. Rows(q) = {e} \cup Rows(s)
  <2>1. \A i \in 1..Len(s) : q[i + 1] = s[i]
    BY <1>2, <1>3
  <2>2. q[1] = e
    BY <1>2, <1>3
  <2>3. \A i \in 1..(Len(s) + 1) : q[i] = e \/ q[i] \in Rows(s)
    BY <1>2, <1>3 DEF Rows
  <2>4. Rows(s) \subseteq Rows(q) /\ e \in Rows(q)
    BY <1>2, <1>3, <2>1, <2>2 DEF Rows
  <2>5. Rows(q) \subseteq {e} \cup Rows(s)
    BY <1>2, <2>3 DEF Rows
  <2> QED
    BY <2>4, <2>5
<1>5. ASSUME Once(s), e \notin Rows(s) PROVE Once(q)
  <2>1. \A k, l \in 1..Len(s) : s[k] = s[l] => k = l
    BY <1>2, <1>5 DEF Once
  <2>2. \A k \in 1..Len(s) : s[k] # e
    BY <1>2, <1>5 DEF Rows
  <2>3. \A i, j \in 1..(Len(s) + 1) : q[i] = q[j] => i = j
    BY <1>2, <1>3, <2>1, <2>2
  <2> QED
    BY <1>2, <2>3 DEF Once
<1> QED
  BY <1>4, <1>5 DEF q

\* The newest rows are some of the rows.
LEMMA NewestRows ==
  ASSUME NEW S, NEW s \in Seq(S), s # <<>>
  PROVE  Rows(Newest(s)) \subseteq Rows(s) /\ (Once(s) => Once(Newest(s)))
<1>1. CASE MaxPerChat > 0 /\ Len(s) > MaxPerChat
  <2> DEFINE m == Len(s) - MaxPerChat
             q == SubSeq(s, m + 1, Len(s))
  <2>1. Len(s) \in Nat /\ m \in Nat /\ m <= Len(s) /\ m + 1 \in Int /\ DOMAIN s = 1..Len(s)
    BY <1>1, TaskDispatchAssumption, LenProperties
  <2>2. Newest(s) = q
    BY <1>1 DEF Newest
  <2> HIDE DEF m
  <2>3. \A i \in (m + 1)..Len(s) : s[i] \in S
    BY <2>1
  <2>4. /\ q \in Seq(S) /\ Len(q) = IF m + 1 <= Len(s) THEN Len(s) - (m + 1) + 1 ELSE 0
        /\ \A i \in 1..(Len(s) - (m + 1) + 1) : q[i] = s[(m + 1) + i - 1]
    BY <2>1, <2>3, SubSeqProperties
  <2> HIDE DEF q
  <2>5. DOMAIN q = 1..Len(q)
    BY <2>4, LenProperties
  <2>6. Len(q) = Len(s) - m /\ \A i \in 1..(Len(s) - m) : (m + 1) + i - 1 = m + i
    <3>1. \A a, b \in Nat : b <= a =>
            /\ (IF b + 1 <= a THEN a - (b + 1) + 1 ELSE 0) = a - b
            /\ \A i \in 1..(a - b) : (b + 1) + i - 1 = b + i
      OBVIOUS
    <3> QED
      BY <2>1, <2>4, <3>1
  <2>7. \A i \in DOMAIN q : q[i] = s[m + i]
    <3>1. Len(s) - (m + 1) + 1 = Len(s) - m
      BY <2>1
    <3> QED
      BY <2>4, <2>5, <2>6, <3>1
  <2>8. /\ \A i \in DOMAIN q : m + i \in 1..Len(s)
        /\ \A i, j \in DOMAIN q : m + i = m + j => i = j
    BY <2>1, <2>5, <2>6
  <2> QED
    BY <2>1, <2>2, <2>7, <2>8 DEF Rows, Once
<1>2. CASE ~(MaxPerChat > 0 /\ Len(s) > MaxPerChat)
  BY <1>2 DEF Newest
<1> QED
  BY <1>1, <1>2

-----------------------------------------------------------------------------
(* What a step may do to an event.                                         *)

\* It gets at most into the place to, and is no longer in from.
Goes(e, from, to) ==
  /\ e \in publishing' => (e \in publishing /\ from # "publishing") \/ to = "publishing"
  /\ e \in Rows(inbox') => (e \in Rows(inbox) /\ from # "inbox") \/ to = "inbox"
  /\ shell' = e => (shell = e /\ from # "shell") \/ to = "shell"
  /\ e \in Rows(queue'[ChatOf[e]]) => (e \in Rows(queue[ChatOf[e]]) /\ from # "queue") \/ to = "queue"
  /\ inProgress'[ChatOf[e]] = e => (inProgress[ChatOf[e]] = e /\ from # "mark") \/ to = "mark"
  /\ \A h \in Handlers : handler'[h].ev = e /\ handler'[h].pc = "starting" =>
       (handler[h].ev = e /\ handler[h].pc = "starting" /\ from # "starting") \/ to = "starting"

LEMMA PlacesGo ==
  ASSUME NEW e, NEW from, NEW to, Goes(e, from, to)
  PROVE  Places(e)' \subseteq (Places(e) \ {from}) \cup {to}
<1> SUFFICES ASSUME NEW p \in Places(e)' PROVE p \in (Places(e) \ {from}) \cup {to}
  OBVIOUS
<1>1. CASE p = "publishing"
  BY <1>1 DEF Places, Goes
<1>2. CASE p = "inbox"
  BY <1>2 DEF Places, Goes
<1>3. CASE p = "shell"
  BY <1>3 DEF Places, Goes
<1>4. CASE p = "queue"
  BY <1>4 DEF Places, Goes
<1>5. CASE p = "mark"
  BY <1>5 DEF Places, Goes
<1>6. CASE p = "starting"
  BY <1>6 DEF Places, Goes
<1> QED
  BY <1>1, <1>2, <1>3, <1>4, <1>5, <1>6 DEF Places

\* It stays where it is, or leaves.
LEMMA PlacesFewer ==
  ASSUME NEW e,
         e \in publishing' => e \in publishing,
         e \in Rows(inbox') => e \in Rows(inbox),
         shell' = e => shell = e,
         e \in Rows(queue'[ChatOf[e]]) => e \in Rows(queue[ChatOf[e]]),
         inProgress'[ChatOf[e]] = e => inProgress[ChatOf[e]] = e,
         \A h \in Handlers : handler'[h].ev = e /\ handler'[h].pc = "starting" =>
           handler[h].ev = e /\ handler[h].pc = "starting"
  PROVE  Places(e)' \subseteq Places(e)
<1> SUFFICES ASSUME NEW p \in Places(e)' PROVE p \in Places(e)
  OBVIOUS
<1>1. CASE p = "publishing"
  BY <1>1 DEF Places
<1>2. CASE p = "inbox"
  BY <1>2 DEF Places
<1>3. CASE p = "shell"
  BY <1>3 DEF Places
<1>4. CASE p = "queue"
  BY <1>4 DEF Places
<1>5. CASE p = "mark"
  BY <1>5 DEF Places
<1>6. CASE p = "starting"
  BY <1>6 DEF Places
<1> QED
  BY <1>1, <1>2, <1>3, <1>4, <1>5, <1>6 DEF Places

LEMMA Rests ==
  ASSUME NEW e, InPlace(e), Places(e)' \subseteq Places(e), Running(e)' => Running(e),
         fate'[e] = fate[e], UNCHANGED notify
  PROVE  InPlace(e)'
<1>1. Alone(e)' /\ Unsent(e)'
  BY DEF InPlace, Alone, Unsent
<1>2. NotTwice(e)'
  BY DEF InPlace, NotTwice
<1>3. Owed(e)'
  BY DEF InPlace, Owed
<1> QED
  BY <1>1, <1>2, <1>3 DEF InPlace

\* It goes from one place to another, its user told nothing new.
LEMMA Hops ==
  ASSUME NEW e, NEW from \in {"publishing", "inbox", "shell", "queue", "starting"},
         NEW to \in {"publishing", "inbox", "shell", "starting"},
         InPlace(e), from \in Places(e), Goes(e, from, to),
         Running(e)' => Running(e), fate'[e] = fate[e], UNCHANGED notify
  PROVE  InPlace(e)'
<1>1. Places(e)' \subseteq {to}
  BY PlacesGo DEF InPlace, Alone
<1>2. Alone(e)'
  BY <1>1 DEF Alone
<1>3. fate[e] # "new"
  BY DEF InPlace, Unsent
<1>4. ~notify => ~Running(e) /\ (e \in Tasks => fate[e] \in Kept \cup {"sent"})
  BY DEF InPlace, NotTwice, Owed
<1>5. Unsent(e)' /\ NotTwice(e)'
  BY <1>3, <1>4 DEF Unsent, NotTwice
<1>6. Owed(e)'
  BY <1>1, <1>4 DEF Owed, Kept
<1> QED
  BY <1>2, <1>5, <1>6 DEF InPlace

\* It gets onto the file, and is owed to its user.
LEMMA GetsOnFile ==
  ASSUME NEW e, NEW to \in {"queue", "mark"}, Places(e)' \subseteq {to},
         fate'[e] \in Kept, ~notify' => ~Running(e)' \/ to = "mark"
  PROVE  InPlace(e)'
  BY DEF InPlace, Alone, Unsent, NotTwice, Owed, Kept

\* It is nowhere any more.
LEMMA GetsNowhere ==
  ASSUME NEW e, Places(e)' = {}, fate'[e] # "new"
  PROVE  InPlace(e)'
  BY DEF InPlace, Alone, Unsent, NotTwice, Owed

\* How handlers change.
LEMMA TakesHandler ==
  ASSUME TypeOK, NEW h \in Handlers, NEW e \in Events, Take(h, e), NEW p \in {"starting", "reply"},
         handler' = [handler EXCEPT ![h] = [ev |-> e, pc |-> p]]
  PROVE  /\ \A x \in Events : Running(x)' <=> Running(x)
         /\ \A x \in Events, g \in Handlers : handler'[g].ev = x /\ handler'[g].pc = "starting" =>
              (handler[g].ev = x /\ handler[g].pc = "starting") \/ (x = e /\ p = "starting")
<1>1. handler[h].pc = "idle"
  BY DEF Take, Idle
<1>2. handler'[h].pc = p /\ handler'[h].ev = e /\ \A g \in Handlers : g # h => handler'[g] = handler[g]
  BY DEF TypeOK
<1>3. ASSUME NEW x \in Events PROVE Running(x)' <=> Running(x)
  <2>1. ASSUME NEW g \in Handlers
        PROVE  handler'[g].ev = x /\ handler'[g].pc \in {"announcing", "body"} <=>
               handler[g].ev = x /\ handler[g].pc \in {"announcing", "body"}
    BY <1>1, <1>2, <2>1
  <2> QED
    BY <2>1 DEF Running
<1>4. ASSUME NEW x \in Events, NEW g \in Handlers, handler'[g].ev = x, handler'[g].pc = "starting"
      PROVE  (handler[g].ev = x /\ handler[g].pc = "starting") \/ (x = e /\ p = "starting")
  BY <1>2, <1>4
<1> QED
  BY <1>3, <1>4

LEMMA LeavesHandler ==
  ASSUME TypeOK, NEW h \in Handlers, Leave(h)
  PROVE  /\ \A x : Running(x)' => Running(x)
         /\ \A x, g : g \in Handlers /\ handler'[g].pc # "idle" => g # h /\ handler'[g] = handler[g]
<1>1. handler'[h].pc = "idle" /\ \A g \in Handlers : g # h => handler'[g] = handler[g]
  BY DEF TypeOK, Leave, Idle
<1> QED
  BY <1>1 DEF Running

LEMMA SameHandlers ==
  ASSUME UNCHANGED handler
  PROVE  \A x : Running(x)' <=> Running(x)
  BY DEF Running

\* It has been sent.
LEMMA IsSent ==
  ASSUME NEW e, NEW to \in {"inbox", "shell"}, Places(e)' \subseteq {to},
         fate'[e] = "sent", ~Running(e)'
  PROVE  InPlace(e)'
  BY DEF InPlace, Alone, Unsent, NotTwice, Owed, Kept

\* Its user is told, of a command, that it is done.
LEMMA CommandRests ==
  ASSUME NEW e, InPlace(e), e \notin Tasks, Places(e)' \subseteq Places(e),
         Running(e)' => Running(e), fate'[e] # "new", UNCHANGED notify
  PROVE  InPlace(e)'
  BY DEF InPlace, Alone, Unsent, NotTwice, Owed

\* With the notifier on, a turn that ends may leave its prompt in one place.
LEMMA LeftOnce ==
  ASSUME NEW e, Alone(e)', fate'[e] # "new", notify'
  PROVE  InPlace(e)'
  BY DEF InPlace, Unsent, NotTwice, Owed

LEMMA NoSuchPlace == \A e : "gone" \notin Places(e)
  BY DEF Places

LEMMA NoneIsNoEvent == None \notin Events /\ None \notin Tasks /\ "start" \notin Events
  BY TaskDispatchAssumption DEF Events

\* Prompts are alone where they are.
LEMMA AloneThere ==
  ASSUME NEW e, InPlace(e), NEW p \in Places(e)
  PROVE  Places(e) = {p} /\ fate[e] # "new" /\ (~notify /\ p # "mark" => ~Running(e))
  BY DEF InPlace, Alone, Unsent, NotTwice

LEMMA ArriveRows ==
  ASSUME TypeOK, NEW e \in Events, Arrive(e)
  PROVE  /\ Rows(inbox') \subseteq Rows(inbox) \cup {e}
         /\ Once(inbox) /\ e \notin Rows(inbox) => Once(inbox')
<1>1. inbox \in Seq(Events)
  BY DEF TypeOK
<1>2. inbox' = inbox \/ inbox' = Append(inbox, e)
  BY DEF Arrive
<1>3. CASE inbox' = inbox
  BY <1>3 DEF Rows
<1>4. CASE inbox' = Append(inbox, e)
  BY <1>1, <1>4, AppendRows
<1> QED
  BY <1>2, <1>3, <1>4

LEMMA TakeRows ==
  ASSUME TypeOK, NEW h \in Handlers, NEW e \in Events, Take(h, e)
  PROVE  /\ Rows(inbox') \subseteq Rows(inbox) /\ e \in Rows(inbox)
         /\ Once(inbox) => Once(inbox') /\ e \notin Rows(inbox')
<1>1. inbox \in Seq(Events) /\ inbox # <<>> /\ e = Head(inbox) /\ inbox' = Tail(inbox)
  BY DEF TypeOK, Take
<1> QED
  BY <1>1, TailRows

\* The oldest row of a chat is popped.
LEMMA PopRows ==
  ASSUME TypeOK, StoreInv, RowsOnce, NEW c \in Chats, queue[c] # <<>>,
         queue' = [queue EXCEPT ![c] = Tail(@)]
  PROVE  /\ Head(queue[c]) \in Tasks /\ ChatOf[Head(queue[c])] = c
         /\ Head(queue[c]) \in Rows(queue[c]) /\ Head(queue[c]) \notin Rows(queue'[c])
         /\ \A d \in Chats : Rows(queue'[d]) \subseteq Rows(queue[d]) /\ Once(queue'[d])
<1>1. queue[c] \in Seq(TasksOf(c)) /\ Once(queue[c])
  BY DEF StoreInv, OwnRows, RowsOnce
<1>2. /\ Rows(Tail(queue[c])) \subseteq Rows(queue[c]) /\ Head(queue[c]) \in Rows(queue[c])
      /\ Once(Tail(queue[c])) /\ Head(queue[c]) \notin Rows(Tail(queue[c]))
  BY <1>1, TailRows
<1>3. Head(queue[c]) \in TasksOf(c)
  BY <1>1, HeadTailProperties
<1>4. queue'[c] = Tail(queue[c]) /\ \A d \in Chats : d # c => queue'[d] = queue[d]
  BY DEF TypeOK
<1> QED
  BY <1>2, <1>3, <1>4 DEF TasksOf, RowsOnce

\* What a chat has on file is its own.
LEMMA RowsAreOwn ==
  ASSUME StoreInv, NEW c \in Chats, NEW x, x \in Rows(queue[c]) \/ (x = inProgress[c] /\ x # None)
  PROVE  x \in Tasks /\ ChatOf[x] = c
<1>1. queue[c] \in Seq(TasksOf(c)) /\ inProgress[c] \in TasksOf(c) \cup {None}
  BY DEF StoreInv, OwnRows
<1>2. x \in TasksOf(c)
  BY <1>1 DEF Rows
<1> QED
  BY <1>2 DEF TasksOf

-----------------------------------------------------------------------------
(* Every step, action by action.                                           *)

LEMMA SendPlaces ==
  ASSUME TypeOK, PlaceInv, NEW e \in Events, Submit(e) \/ Deliver(e), UNCHANGED notify,
         NEW x \in Events
  PROVE  InPlace(x)'
<1>1. /\ Arrive(e) /\ UNCHANGED <<handler, queue, inProgress, shell>>
      /\ publishing' \subseteq publishing /\ (x # e => fate'[x] = fate[x])
  BY DEF Submit, Deliver, Arrive, store, TypeOK
<1>2. Rows(inbox') \subseteq Rows(inbox) \cup {e}
  BY <1>1, ArriveRows
<1>3. InPlace(x) /\ (Running(x)' <=> Running(x))
  BY <1>1, SameHandlers DEF PlaceInv
<1>4. CASE x # e
  <2>1. Places(x)' \subseteq Places(x)
    BY <1>1, <1>2, <1>4, PlacesFewer
  <2> QED
    BY <1>1, <1>3, <1>4, <2>1, Rests
<1>5. CASE x = e /\ Submit(e)
  <2>1. Places(x) = {} /\ ~Running(x) /\ fate'[x] = "sent"
    BY <1>3, <1>5 DEF InPlace, Unsent, Submit, TypeOK
  <2>2. Goes(x, "gone", "inbox")
    BY <1>1, <1>2 DEF Goes
  <2> QED
    BY <1>3, <2>1, <2>2, PlacesGo, IsSent
<1>6. CASE x = e /\ Deliver(e)
  <2>1. "publishing" \in Places(x) /\ x \notin publishing' /\ fate'[x] = fate[x]
    BY <1>6 DEF Deliver, Places
  <2>2. Goes(x, "publishing", "inbox")
    BY <1>1, <1>2, <2>1 DEF Goes
  <2> QED
    BY <1>3, <2>1, <2>2, Hops
<1> QED
  BY <1>4, <1>5, <1>6

LEMMA StartPlaces ==
  ASSUME TypeOK, PlaceInv, NEW h \in Handlers, NEW e \in Events, StartTurn(h, e), UNCHANGED notify,
         NEW x \in Events
  PROVE  InPlace(x)'
<1>1. /\ Take(h, e) /\ UNCHANGED <<publishing, queue, inProgress, shell, fate>>
      /\ handler' = [handler EXCEPT ![h] = [ev |-> e, pc |-> "starting"]]
  BY DEF StartTurn, Take, store, process
<1>2. /\ Rows(inbox') \subseteq Rows(inbox) /\ e \in Rows(inbox) /\ e \notin Rows(inbox')
  BY <1>1, TakeRows DEF PlaceInv, RowsOnce
<1>3. InPlace(x) /\ (Running(x)' <=> Running(x))
  BY <1>1, TakesHandler DEF PlaceInv
<1>4. \A g \in Handlers : handler'[g].ev = x /\ handler'[g].pc = "starting" =>
        (handler[g].ev = x /\ handler[g].pc = "starting") \/ x = e
  BY <1>1, TakesHandler
<1>5. CASE x # e
  <2>1. Places(x)' \subseteq Places(x)
    BY <1>1, <1>2, <1>4, <1>5, PlacesFewer
  <2> QED
    BY <1>1, <1>3, <2>1, Rests
<1>6. CASE x = e
  <2>1. "inbox" \in Places(x)
    BY <1>2, <1>6 DEF Places
  <2>2. Goes(x, "inbox", "starting")
    BY <1>1, <1>2, <1>6 DEF Goes
  <2> QED
    BY <1>1, <1>3, <2>1, <2>2, Hops
<1> QED
  BY <1>5, <1>6

\* An event is taken and dealt with without a turn.
LEMMA TakenAway ==
  ASSUME TypeOK, PlaceInv, NEW h \in Handlers, NEW e \in Events, Take(h, e),
         handler' = [handler EXCEPT ![h] = [ev |-> e, pc |-> "reply"]], NEW x \in Events
  PROVE  /\ x \in publishing' => x \in publishing
         /\ x \in Rows(inbox') => x \in Rows(inbox) /\ x # e
         /\ shell' = x => shell = x
         /\ \A g \in Handlers : handler'[g].ev = x /\ handler'[g].pc = "starting" =>
              handler[g].ev = x /\ handler[g].pc = "starting"
         /\ InPlace(x) /\ (Running(x)' <=> Running(x))
         /\ x = e => "inbox" \in Places(x)
<1>1. UNCHANGED <<publishing, shell>>
  BY DEF Take, process
<1>2. Rows(inbox') \subseteq Rows(inbox) /\ e \in Rows(inbox) /\ e \notin Rows(inbox')
  BY TakeRows DEF PlaceInv, RowsOnce
<1>3. x = e => "inbox" \in Places(x)
  BY <1>2 DEF Places
<1>4. InPlace(x) /\ (Running(x)' <=> Running(x))
  BY TakesHandler DEF PlaceInv
<1>5. \A g \in Handlers : handler'[g].ev = x /\ handler'[g].pc = "starting" =>
        handler[g].ev = x /\ handler[g].pc = "starting"
  BY TakesHandler
<1> QED
  BY <1>1, <1>2, <1>3, <1>4, <1>5

LEMMA RefusePlaces ==
  ASSUME TypeOK, PlaceInv, NEW h \in Handlers, NEW e \in Events, Refuse(h, e), UNCHANGED notify,
         NEW x \in Events
  PROVE  InPlace(x)'
<1>1. /\ Take(h, e) /\ UNCHANGED <<queue, inProgress>>
      /\ fate' = [fate EXCEPT ![e] = "refused"]
      /\ handler' = [handler EXCEPT ![h] = [ev |-> e, pc |-> "reply"]]
  BY DEF Refuse, store
<1>2. /\ x \in publishing' => x \in publishing
      /\ x \in Rows(inbox') => x \in Rows(inbox) /\ x # e
      /\ shell' = x => shell = x
      /\ \A g \in Handlers : handler'[g].ev = x /\ handler'[g].pc = "starting" =>
           handler[g].ev = x /\ handler[g].pc = "starting"
      /\ InPlace(x) /\ (Running(x)' <=> Running(x))
      /\ x = e => "inbox" \in Places(x)
  BY <1>1, TakenAway
<1>3. CASE x # e
  <2>1. Places(x)' \subseteq Places(x) /\ fate'[x] = fate[x]
    BY <1>1, <1>2, <1>3, PlacesFewer DEF TypeOK
  <2> QED
    BY <1>2, <2>1, Rests
<1>4. CASE x = e
  <2>1. Goes(x, "inbox", "gone")
    BY <1>1, <1>2, <1>4 DEF Goes
  <2>2. "gone" \notin Places(x)'
    BY DEF Places
  <2>3. Places(x)' = {} /\ fate'[x] = "refused"
    BY <1>1, <1>2, <1>4, <2>1, <2>2, PlacesGo, AloneThere DEF TypeOK
  <2> QED
    BY <2>3, GetsNowhere
<1> QED
  BY <1>3, <1>4

LEMMA EnqueuePlaces ==
  ASSUME TypeOK, StoreInv, PlaceInv, NEW h \in Handlers, NEW e \in Events, Enqueue(h, e),
         UNCHANGED notify, NEW x \in Events
  PROVE  InPlace(x)'
<1> DEFINE c == ChatOf[e]
           q == Append(queue[c], e)
           n == Newest(q)
<1>1. /\ Take(h, e) /\ e \in Tasks /\ c \in Chats /\ inProgress' = inProgress
      /\ queue' = [queue EXCEPT ![c] = n]
      /\ fate'[x] = IF x \in Rows(q) \ Rows(n) THEN "evicted"
                    ELSE IF x = e THEN "accepted" ELSE fate[x]
      /\ handler' = [handler EXCEPT ![h] = [ev |-> e, pc |-> "reply"]]
  BY TaskDispatchAssumption DEF Enqueue
<1>2. /\ x \in publishing' => x \in publishing
      /\ x \in Rows(inbox') => x \in Rows(inbox) /\ x # e
      /\ shell' = x => shell = x
      /\ \A g \in Handlers : handler'[g].ev = x /\ handler'[g].pc = "starting" =>
           handler[g].ev = x /\ handler[g].pc = "starting"
      /\ InPlace(x) /\ (Running(x)' <=> Running(x))
      /\ x = e => "inbox" \in Places(x)
  BY <1>1, TakenAway
<1>3. Rows(q) = Rows(queue[c]) \cup {e} /\ Rows(n) \subseteq Rows(q)
  <2>1. queue[c] \in Seq(Tasks) /\ e \in Tasks
    BY <1>1 DEF TypeOK
  <2>2. q \in Seq(Tasks) /\ q # <<>>
    BY <2>1, AppendProperties
  <2>3. Rows(q) = Rows(queue[c]) \cup {e}
    BY <2>1, AppendRows
  <2>4. Rows(n) \subseteq Rows(q)
    BY <2>2, NewestRows
  <2> QED
    BY <2>3, <2>4
<1>4. queue'[c] = n /\ \A d \in Chats : d # c => queue'[d] = queue[d]
  BY <1>1 DEF TypeOK
<1> HIDE DEF n, q
<1>5. ChatOf[x] \in Chats
  BY TaskDispatchAssumption
<1>6. CASE x = e
  <2>1. Places(x) = {"inbox"} /\ (~notify => ~Running(x))
    BY <1>2, <1>6, AloneThere
  <2>2. CASE x \in Rows(n)
    <3>1. Goes(x, "inbox", "queue")
      BY <1>1, <1>2, <1>6 DEF Goes
    <3>2. Places(x)' \subseteq {"queue"}
      BY <2>1, <3>1, PlacesGo
    <3>3. fate'[x] \in Kept
      BY <1>1, <1>6, <2>2 DEF Kept
    <3> QED
      BY <1>2, <2>1, <3>2, <3>3, GetsOnFile
  <2>3. CASE x \notin Rows(n)
    <3>1. Goes(x, "inbox", "gone")
      BY <1>1, <1>2, <1>4, <1>6, <2>3 DEF Goes
    <3>2. "gone" \notin Places(x)'
      BY DEF Places
    <3>3. Places(x)' = {}
      BY <2>1, <3>1, <3>2, PlacesGo
    <3>4. fate'[x] = "evicted"
      BY <1>1, <1>3, <1>6, <2>3
    <3> QED
      BY <3>3, <3>4, GetsNowhere
  <2> QED
    BY <2>2, <2>3
<1>7. CASE x # e /\ x \in Rows(q) \ Rows(n)
  <2>1. x \in Rows(queue[c]) /\ ChatOf[x] = c
    BY <1>1, <1>3, <1>7, RowsAreOwn
  <2>2. "queue" \in Places(x)
    BY <2>1 DEF Places
  <2>3. Goes(x, "queue", "gone")
    BY <1>1, <1>2, <1>4, <1>7, <2>1 DEF Goes
  <2>4. "gone" \notin Places(x)'
    BY DEF Places
  <2>5. Places(x)' = {}
    BY <1>2, <2>2, <2>3, <2>4, PlacesGo, AloneThere
  <2>6. fate'[x] = "evicted"
    BY <1>1, <1>7
  <2> QED
    BY <2>5, <2>6, GetsNowhere
<1>8. CASE x # e /\ x \notin Rows(q) \ Rows(n)
  <2>1. x \in Rows(queue'[ChatOf[x]]) => x \in Rows(queue[ChatOf[x]])
    BY <1>3, <1>4, <1>5, <1>8
  <2>2. Places(x)' \subseteq Places(x)
    BY <1>1, <1>2, <2>1, PlacesFewer
  <2> QED
    BY <1>1, <1>2, <1>8, <2>2, Rests
<1> QED
  BY <1>6, <1>7, <1>8

\* What else a discard leaves alone, or takes away.
LEMMA Discarded ==
  ASSUME TypeOK, StoreInv, NEW c \in Chats, Discard(c), NEW x \in Events, InPlace(x),
         x \in publishing' => x \in publishing,
         x \in Rows(inbox') => x \in Rows(inbox),
         shell' = x => shell = x,
         \A g \in Handlers : handler'[g].ev = x /\ handler'[g].pc = "starting" =>
           handler[g].ev = x /\ handler[g].pc = "starting",
         Running(x)' => Running(x), UNCHANGED notify
  PROVE  InPlace(x)'
<1> DEFINE d == ChatOf[x]
<1>1. /\ d \in Chats /\ x # None
      /\ queue'[d] = IF d = c THEN <<>> ELSE queue[d]
      /\ inProgress'[d] = IF d = c THEN None ELSE inProgress[d]
      /\ fate'[x] = IF x \in Rows(queue[c]) \cup {inProgress[c]} THEN "discarded" ELSE fate[x]
  BY TaskDispatchAssumption, NoneIsNoEvent DEF Discard, TypeOK
<1>2. Rows(<<>>) = {}
  BY DEF Rows
<1>3. CASE x \in Rows(queue[c]) \cup {inProgress[c]}
  <2>1. d = c
    BY <1>1, <1>3, RowsAreOwn
  <2>2. PICK p \in {"queue", "mark"} : p \in Places(x)
    BY <1>3, <2>1 DEF Places
  <2>3. Places(x) = {p}
    BY <2>2, AloneThere
  <2>4. x \notin publishing /\ x \notin Rows(inbox) /\ shell # x
        /\ \A g \in Handlers : ~(handler[g].ev = x /\ handler[g].pc = "starting")
    BY <2>2, <2>3 DEF Places
  <2>5. x \notin Rows(queue'[d]) /\ inProgress'[d] # x
    BY <1>1, <1>2, <2>1
  <2>6. Places(x)' = {}
    BY <2>4, <2>5 DEF Places
  <2> QED
    BY <1>1, <1>3, <2>6, GetsNowhere
<1>4. CASE x \notin Rows(queue[c]) \cup {inProgress[c]}
  <2>1. (x \in Rows(queue'[d]) => x \in Rows(queue[d])) /\ (inProgress'[d] = x => inProgress[d] = x)
    BY <1>1, <1>2
  <2>2. Places(x)' \subseteq Places(x)
    BY <2>1, PlacesFewer
  <2> QED
    BY <1>1, <1>4, <2>2, Rests
<1> QED
  BY <1>3, <1>4

LEMMA CommandPlaces ==
  ASSUME TypeOK, StoreInv, PlaceInv, NEW h \in Handlers, NEW e \in Events, Command(h, e),
         UNCHANGED notify, NEW x \in Events
  PROVE  InPlace(x)'
<1>1. /\ Take(h, e) /\ ChatOf[e] \in Chats
      /\ Discard(ChatOf[e]) \/ UNCHANGED <<queue, inProgress, fate>>
      /\ handler' = [handler EXCEPT ![h] = [ev |-> e, pc |-> "reply"]]
  BY TaskDispatchAssumption DEF Command, store
<1>2. /\ x \in publishing' => x \in publishing
      /\ x \in Rows(inbox') => x \in Rows(inbox)
      /\ shell' = x => shell = x
      /\ \A g \in Handlers : handler'[g].ev = x /\ handler'[g].pc = "starting" =>
           handler[g].ev = x /\ handler[g].pc = "starting"
      /\ InPlace(x) /\ (Running(x)' <=> Running(x))
  BY <1>1, TakenAway
<1>3. CASE Discard(ChatOf[e])
  BY <1>1, <1>2, <1>3, Discarded
<1>4. CASE UNCHANGED <<queue, inProgress, fate>>
  <2>1. Places(x)' \subseteq Places(x)
    BY <1>2, <1>4, PlacesFewer
  <2> QED
    BY <1>2, <1>4, <2>1, Rests
<1> QED
  BY <1>1, <1>3, <1>4

LEMMA EndReplyPlaces ==
  ASSUME TypeOK, PlaceInv, NEW h \in Handlers, EndReply(h), UNCHANGED notify, NEW x \in Events
  PROVE  InPlace(x)'
<1>1. /\ Leave(h) /\ UNCHANGED <<publishing, inbox, queue, inProgress, shell>>
      /\ fate'[x] = IF x = handler[h].ev /\ fate[x] = "sent" THEN "done" ELSE fate[x]
      /\ handler[h].pc = "reply"
  BY DEF EndReply, store, process, TypeOK
<1>2. InPlace(x) /\ (Running(x)' => Running(x))
  BY <1>1, LeavesHandler DEF PlaceInv
<1>3. Places(x)' \subseteq Places(x)
  BY <1>1, LeavesHandler, PlacesFewer
<1>4. CASE fate'[x] = fate[x]
  BY <1>2, <1>3, <1>4, Rests
<1>5. CASE fate'[x] # fate[x]
  <2>1. x \notin Tasks /\ fate'[x] = "done"
    BY <1>1, <1>5 DEF PlaceInv, Answered
  <2> QED
    BY <1>2, <1>3, <2>1, CommandRests
<1> QED
  BY <1>4, <1>5

LEMMA GoOnPlaces ==
  ASSUME TypeOK, TurnInv, PlaceInv, NEW h \in Handlers, Started(h) \/ Announced(h), UNCHANGED notify,
         NEW x \in Events
  PROVE  InPlace(x)'
<1> DEFINE t == handler[h].ev
<1>1. PICK p \in {"announcing", "body"} : handler' = [handler EXCEPT ![h].pc = p]
  BY DEF Started, Announced
<1>2. /\ handler[h].pc \in TurnPcs /\ UNCHANGED <<publishing, inbox, queue, shell>>
  BY DEF Started, Announced, store, process, TurnPcs
<1>3. /\ t \in Tasks /\ ChatOf[t] \in Chats /\ handler[h] \in [ev : Tasks, pc : TurnPcs]
  BY <1>2, BusyHandler DEF TurnPcs
<1>4. /\ handler'[h].pc = p /\ handler'[h].ev = t
      /\ \A g \in Handlers : g # h => handler'[g] = handler[g]
  BY <1>1, <1>3 DEF TypeOK
<1>5. ASSUME NEW g \in Handlers, handler'[g].ev = x, handler'[g].pc = "starting"
      PROVE  g # h /\ handler[g].ev = x /\ handler[g].pc = "starting"
  BY <1>4, <1>5
<1>6. InPlace(x)
  BY DEF PlaceInv
<1>7. CASE Started(h) /\ x = t
  <2>1. "starting" \in Places(x)
    BY <1>7 DEF Started, Places
  <2>2. \A g \in Handlers : g # h => ~(handler[g].ev = x /\ handler[g].pc = "starting")
    <3>1. HasTurn(h, ChatOf[x])
      BY <1>2, <1>7 DEF HasTurn
    <3>2. \A g \in Handlers : HasTurn(g, ChatOf[x]) => g = h
      BY <1>3, <1>7, <3>1 DEF TurnInv, OneTurnPerChat
    <3> QED
      BY <3>2 DEF HasTurn, TurnPcs
  <2>3. Goes(x, "starting", "mark")
    BY <1>2, <1>5, <2>2 DEF Goes
  <2>4. Places(x)' \subseteq {"mark"}
    BY <1>6, <2>1, <2>3, AloneThere, PlacesGo
  <2>5. fate'[x] \in Kept
    BY <1>7 DEF Started, Kept, TypeOK
  <2> QED
    BY <2>4, <2>5, GetsOnFile
<1>8. CASE Announced(h) \/ x # t
  <2>1. inProgress'[ChatOf[x]] = x => inProgress[ChatOf[x]] = x
    <3>1. inProgress' = inProgress \/ (x # t /\ inProgress' = [inProgress EXCEPT ![ChatOf[t]] = t])
      BY <1>8 DEF Started, Announced, store
    <3>2. ChatOf[x] \in Chats
      BY TaskDispatchAssumption
    <3> QED
      BY <1>3, <3>1, <3>2 DEF TypeOK
  <2>2. Places(x)' \subseteq Places(x)
    BY <1>2, <1>5, <2>1, PlacesFewer
  <2>3. Running(x)' => Running(x)
    <3>1. ASSUME NEW g \in Handlers, handler'[g].ev = x, handler'[g].pc \in {"announcing", "body"}
          PROVE  handler[g].ev = x /\ handler[g].pc \in {"announcing", "body"}
      BY <1>4, <1>8, <3>1 DEF Announced
    <3> QED
      BY <3>1 DEF Running
  <2>4. fate'[x] = fate[x]
    BY <1>8 DEF Started, Announced, TypeOK
  <2> QED
    BY <1>6, <2>2, <2>3, <2>4, Rests
<1> QED
  BY <1>7, <1>8

\* The next prompt of a chat, if one waits, is popped and will be published.
LEMMA HandOnPlaces ==
  ASSUME TypeOK, StoreInv, PlaceInv, NEW c \in Chats, HandOn(c), NEW x \in Events,
         x \in Rows(inbox') => x \in Rows(inbox),
         shell' = x => shell = x,
         inProgress'[ChatOf[x]] = x => inProgress[ChatOf[x]] = x,
         \A g \in Handlers : handler'[g].ev = x /\ handler'[g].pc = "starting" =>
           handler[g].ev = x /\ handler[g].pc = "starting"
  PROVE  \/ Places(x)' \subseteq Places(x)
         \/ "queue" \in Places(x) /\ Goes(x, "queue", "publishing")
<1>1. CASE queue[c] = <<>>
  BY <1>1, PlacesFewer DEF HandOn
<1>2. CASE queue[c] # <<>>
  <2> DEFINE u == Head(queue[c])
  <2>1. queue' = [queue EXCEPT ![c] = Tail(@)] /\ publishing' = publishing \cup {u}
    BY <1>2 DEF HandOn
  <2>2. /\ ChatOf[u] = c /\ u \in Rows(queue[c]) /\ u \notin Rows(queue'[c])
        /\ \A d \in Chats : Rows(queue'[d]) \subseteq Rows(queue[d])
    BY <1>2, <2>1, PopRows DEF PlaceInv
  <2>3. ChatOf[x] \in Chats
    BY TaskDispatchAssumption
  <2> HIDE DEF u
  <2>4. CASE x = u
    <3>1. "queue" \in Places(x)
      BY <2>2, <2>4 DEF Places
    <3>2. Goes(x, "queue", "publishing")
      BY <2>1, <2>2, <2>3, <2>4 DEF Goes
    <3> QED
      BY <3>1, <3>2
  <2>5. CASE x # u
    BY <2>1, <2>2, <2>3, <2>5, PlacesFewer
  <2> QED
    BY <2>4, <2>5
<1> QED
  BY <1>1, <1>2

LEMMA EndBodyPlaces ==
  ASSUME TypeOK, StoreInv, PlaceInv, NEW h \in Handlers, EndBody(h), UNCHANGED notify,
         NEW x \in Events
  PROVE  InPlace(x)'
<1> DEFINE t == handler[h].ev
           c == ChatOf[t]
<1>1. /\ Leave(h) /\ HandOn(c) /\ UNCHANGED <<inbox, shell>>
      /\ inProgress' = [inProgress EXCEPT ![c] = None]
      /\ fate'[x] = IF x = t THEN "done" ELSE fate[x]
      /\ handler[h].pc = "body"
  BY DEF EndBody, Release, process, TypeOK
<1>2. c \in Chats /\ ChatOf[x] \in Chats /\ x # None
  BY <1>1, BusyHandler, TaskDispatchAssumption, NoneIsNoEvent
<1>3. InPlace(x) /\ (Running(x)' => Running(x))
  BY <1>1, LeavesHandler DEF PlaceInv
<1>4. inProgress'[ChatOf[x]] = x => inProgress[ChatOf[x]] = x /\ ChatOf[x] # c
  BY <1>1, <1>2 DEF TypeOK
<1>5. \/ Places(x)' \subseteq Places(x)
      \/ "queue" \in Places(x) /\ Goes(x, "queue", "publishing")
  BY <1>1, <1>2, <1>4, LeavesHandler, HandOnPlaces
<1>6. CASE x # t
  <2>1. fate'[x] = fate[x]
    BY <1>1, <1>6
  <2> QED
    BY <1>3, <1>5, <2>1, Rests, Hops
<1>7. CASE x = t /\ notify
  <2>1. Alone(x)'
    <3>1. Places(x)' \subseteq Places(x) \/ Places(x)' \subseteq {"publishing"}
      BY <1>3, <1>5, PlacesGo, AloneThere
    <3> QED
      BY <1>3, <3>1 DEF InPlace, Alone
  <2> QED
    BY <1>1, <1>7, <2>1, LeftOnce
<1>8. CASE x = t /\ ~notify
  <2>1. Running(x)
    BY <1>1, <1>8 DEF Running
  <2>2. Places(x) \subseteq {"mark"}
    BY <1>3, <1>8, <2>1 DEF InPlace, NotTwice
  <2>3. Places(x)' \subseteq {"mark"}
    BY <1>5, <2>2
  <2>4. "mark" \notin Places(x)'
    BY <1>4, <1>8 DEF Places
  <2>5. Places(x)' = {} /\ fate'[x] = "done"
    BY <1>1, <1>8, <2>3, <2>4
  <2> QED
    BY <2>5, GetsNowhere
<1> QED
  BY <1>6, <1>7, <1>8

LEMMA ResumePlaces ==
  ASSUME TypeOK, StoreInv, PlaceInv, NEW c \in Chats, Resume(c), UNCHANGED notify, NEW x \in Events
  PROVE  InPlace(x)'
<1>1. HandOn(c) /\ UNCHANGED <<inbox, handler, inProgress, shell, fate>>
  BY DEF Resume, process
<1>2. InPlace(x) /\ (Running(x)' => Running(x))
  BY <1>1, SameHandlers DEF PlaceInv
<1>3. \/ Places(x)' \subseteq Places(x)
      \/ "queue" \in Places(x) /\ Goes(x, "queue", "publishing")
  BY <1>1, HandOnPlaces
<1> QED
  BY <1>1, <1>2, <1>3, Rests, Hops

\* Marks are put back in front of the rows of their chats.
LEMMA Recovered ==
  ASSUME TypeOK, StoreInv, NEW C \in SUBSET Chats, Recover(C), NEW x \in Events, InPlace(x),
         UNCHANGED <<publishing, inbox, handler, notify>>, shell' = x => shell = x,
         notify \/ ~Running(x)
  PROVE  InPlace(x)'
<1> DEFINE d == ChatOf[x]
<1>1. /\ d \in Chats /\ x # None
      /\ queue'[d] = IF d \in C /\ inProgress[d] # None
                     THEN <<inProgress[d]>> \o queue[d] ELSE queue[d]
      /\ inProgress'[d] = IF d \in C THEN None ELSE inProgress[d]
      /\ fate'[x] = IF \E c \in C : x = inProgress[c] THEN "interrupted" ELSE fate[x]
  BY TaskDispatchAssumption, NoneIsNoEvent DEF Recover
<1>2. inProgress[d] # None => Rows(<<inProgress[d]>> \o queue[d]) = {inProgress[d]} \cup Rows(queue[d])
  <2>1. queue[d] \in Seq(Tasks) /\ inProgress[d] \in Tasks \cup {None}
    BY <1>1 DEF TypeOK
  <2> QED
    BY <2>1, FrontRows
<1>3. Running(x)' <=> Running(x)
  BY SameHandlers
<1>4. ASSUME NEW c \in C, x = inProgress[c]
      PROVE  InPlace(x)'
  <2>1. d = c
    BY <1>1, <1>4, RowsAreOwn
  <2>2. "mark" \in Places(x)
    BY <1>4, <2>1 DEF Places
  <2>3. Goes(x, "mark", "queue")
    BY <1>1, <1>4, <2>1 DEF Goes
  <2>4. Places(x)' \subseteq {"queue"}
    BY <2>2, <2>3, AloneThere, PlacesGo
  <2>5. fate'[x] \in Kept
    BY <1>1, <1>4 DEF Kept
  <2> QED
    BY <1>3, <2>4, <2>5, GetsOnFile
<1>5. CASE ~\E c \in C : x = inProgress[c]
  <2>1. /\ x \in Rows(queue'[d]) => x \in Rows(queue[d])
        /\ inProgress'[d] = x => inProgress[d] = x
    BY <1>1, <1>2, <1>5
  <2>2. Places(x)' \subseteq Places(x) /\ fate'[x] = fate[x]
    BY <1>1, <1>5, <2>1, PlacesFewer
  <2> QED
    BY <1>3, <2>2, Rests
<1> QED
  BY <1>4, <1>5

LEMMA RecoverPlaces ==
  ASSUME TypeOK, StoreInv, PlaceInv, Boot \/ (\E c \in Chats : NotifierVisits(c)), UNCHANGED notify,
         NEW x \in Events
  PROVE  InPlace(x)'
<1>1. InPlace(x)
  BY DEF PlaceInv
<1>2. CASE Boot
  <2>1. /\ Recover(CliChats) /\ CliChats \in SUBSET Chats
        /\ UNCHANGED <<publishing, inbox, handler>> /\ mode = "down" /\ shell' \in {None, "start"}
    BY <1>2, TaskDispatchAssumption DEF Boot
  <2>2. ~Running(x)
    BY <2>1 DEF PlaceInv, Quiet, Running, Idle
  <2>3. shell' # x
    BY <2>1, NoneIsNoEvent
  <2> QED
    BY <1>1, <2>1, <2>2, <2>3, Recovered
<1>3. ASSUME NEW c \in Chats, NotifierVisits(c)
      PROVE  InPlace(x)'
  <2>1. /\ Recover({c}) /\ {c} \in SUBSET Chats
        /\ UNCHANGED <<publishing, inbox, handler, shell>> /\ c \in todo
    BY <1>3 DEF NotifierVisits
  <2>2. notify
    BY <2>1 DEF PlaceInv, Quiet
  <2> QED
    BY <1>1, <2>1, <2>2, Recovered
<1> QED
  BY <1>2, <1>3

LEMMA ShellPlaces ==
  ASSUME TypeOK, StoreInv, PlaceInv, Shell, UNCHANGED notify, NEW x \in Events
  PROVE  InPlace(x)'
<1>1. InPlace(x)
  BY DEF PlaceInv
<1>2. ASSUME NEW t \in Tasks, ShellTakes(t) PROVE InPlace(x)'
  <2>1. /\ UNCHANGED <<publishing, inbox, handler, queue, inProgress>> /\ shell' = t
        /\ fate[t] = "new" /\ fate'[x] = IF x = t THEN "sent" ELSE fate[x]
    BY <1>2 DEF ShellTakes, store, TypeOK
  <2>2. Running(x)' <=> Running(x)
    BY <2>1, SameHandlers
  <2>3. CASE x = t
    <3>1. Places(x) = {} /\ ~Running(x)
      BY <1>1, <2>1, <2>3 DEF InPlace, Unsent
    <3>2. Goes(x, "gone", "shell")
      BY <2>1 DEF Goes
    <3>3. Places(x)' \subseteq {"shell"}
      BY <3>1, <3>2, PlacesGo
    <3> QED
      BY <2>1, <2>2, <2>3, <3>1, <3>3, IsSent
  <2>4. CASE x # t
    <3>1. Places(x)' \subseteq Places(x)
      BY <2>1, <2>4, PlacesFewer
    <3> QED
      BY <1>1, <2>1, <2>2, <2>4, <3>1, Rests
  <2> QED
    BY <2>3, <2>4
<1>3. ASSUME NEW c \in Chats, ShellContinues(c) PROVE InPlace(x)'
  <2> DEFINE u == Head(queue[c])
  <2>1. /\ UNCHANGED <<publishing, inbox, handler, inProgress, fate>> /\ queue[c] # <<>>
        /\ queue' = [queue EXCEPT ![c] = Tail(@)] /\ shell' = u
    BY <1>3 DEF ShellContinues
  <2>2. /\ ChatOf[u] = c /\ u \in Rows(queue[c]) /\ u \notin Rows(queue'[c])
        /\ \A d \in Chats : Rows(queue'[d]) \subseteq Rows(queue[d])
    BY <2>1, PopRows DEF PlaceInv
  <2>3. ChatOf[x] \in Chats /\ (Running(x)' <=> Running(x))
    BY <2>1, TaskDispatchAssumption, SameHandlers
  <2> HIDE DEF u
  <2>4. CASE x = u
    <3>1. "queue" \in Places(x)
      BY <2>2, <2>4 DEF Places
    <3>2. Goes(x, "queue", "shell")
      BY <2>1, <2>2, <2>3, <2>4 DEF Goes
    <3> QED
      BY <1>1, <2>1, <2>3, <3>1, <3>2, Hops
  <2>5. CASE x # u
    <3>1. Places(x)' \subseteq Places(x)
      BY <2>1, <2>2, <2>3, <2>5, PlacesFewer
    <3> QED
      BY <1>1, <2>1, <2>3, <3>1, Rests
  <2> QED
    BY <2>4, <2>5
<1>4. CASE ShellDiscards
  <2>1. UNCHANGED <<publishing, inbox, handler>> /\ shell' = None /\ CliChats \subseteq Chats
    BY <1>4, TaskDispatchAssumption DEF ShellDiscards
  <2>2. shell' # x /\ (Running(x)' <=> Running(x))
    BY <2>1, NoneIsNoEvent, SameHandlers
  <2>3. ASSUME NEW c \in CliChats, Discard(c) PROVE InPlace(x)'
    BY <1>1, <2>1, <2>2, <2>3, Discarded
  <2>4. CASE UNCHANGED <<store, fate>>
    <3>1. Places(x)' \subseteq Places(x)
      BY <2>1, <2>2, <2>4, PlacesFewer DEF store
    <3> QED
      BY <1>1, <2>2, <2>4, <3>1, Rests
  <2> QED
    BY <1>4, <2>3, <2>4 DEF ShellDiscards
<1>5. CASE ShellPublishes
  <2>1. /\ shell \in Events /\ Arrive(shell) /\ shell' = None
        /\ UNCHANGED <<publishing, handler, queue, inProgress, fate>>
    BY <1>5 DEF ShellPublishes, Arrive, store
  <2>2. Rows(inbox') \subseteq Rows(inbox) \cup {shell}
    BY <2>1, ArriveRows
  <2>3. shell' # x /\ (Running(x)' <=> Running(x))
    BY <2>1, NoneIsNoEvent, SameHandlers
  <2>4. CASE x = shell
    <3>1. "shell" \in Places(x)
      BY <2>4 DEF Places
    <3>2. Goes(x, "shell", "inbox")
      BY <2>1, <2>2, <2>3 DEF Goes
    <3> QED
      BY <1>1, <2>1, <2>3, <3>1, <3>2, Hops
  <2>5. CASE x # shell
    <3>1. Places(x)' \subseteq Places(x)
      BY <2>1, <2>2, <2>3, <2>5, PlacesFewer
    <3> QED
      BY <1>1, <2>1, <2>3, <3>1, Rests
  <2> QED
    BY <2>4, <2>5
<1> QED
  BY <1>2, <1>3, <1>4, <1>5 DEF Shell

\* Steps that put nothing anywhere.
LEMMA OtherPlaces ==
  ASSUME TypeOK, StoreInv, PlaceInv, UNCHANGED notify, NEW x \in Events,
         \/ \E h \in Handlers : CancelledEarly(h)
         \/ \E c \in Chats : DiscardButton(c) \/ RequestRestart(c)
         \/ NotifierWakes \/ ConfirmRestart \/ ShellExits \/ ConsumerStops \/ LoopEnds
         \/ Reexec \/ Exited \/ Crash \/ UNCHANGED vars
  PROVE  InPlace(x)'
<1>1. InPlace(x)
  BY DEF PlaceInv
<1>2. ASSUME NEW h \in Handlers, CancelledEarly(h) PROVE InPlace(x)'
  <2>1. Leave(h) /\ UNCHANGED <<publishing, inbox, queue, inProgress, shell, fate>>
    BY <1>2 DEF CancelledEarly, store, process
  <2>2. (Running(x)' => Running(x)) /\ Places(x)' \subseteq Places(x)
    BY <2>1, LeavesHandler, PlacesFewer
  <2> QED
    BY <1>1, <2>1, <2>2, Rests
<1>3. ASSUME NEW c \in Chats, DiscardButton(c) PROVE InPlace(x)'
  <2>1. Discard(c) /\ UNCHANGED <<publishing, inbox, handler, shell>>
    BY <1>3 DEF DiscardButton, process
  <2>2. Running(x)' <=> Running(x)
    BY <2>1, SameHandlers
  <2> QED
    BY <1>1, <2>1, <2>2, Discarded
<1>4. CASE UNCHANGED <<publishing, inbox, handler, queue, inProgress, shell, fate>>
  <2>1. (Running(x)' <=> Running(x)) /\ Places(x)' \subseteq Places(x)
    BY <1>4, SameHandlers, PlacesFewer
  <2> QED
    BY <1>1, <1>4, <2>1, Rests
<1>5. CASE LoopEnds
  <2>1. UNCHANGED <<handler, queue, inProgress, shell, fate>> /\ publishing' = {} /\ Rows(inbox') = {}
    BY <1>5 DEF LoopEnds, store, Rows
  <2>2. (Running(x)' <=> Running(x)) /\ Places(x)' \subseteq Places(x)
    BY <2>1, SameHandlers, PlacesFewer
  <2> QED
    BY <1>1, <2>1, <2>2, Rests
<1>6. CASE Reexec \/ Exited \/ Crash
  <2>1. /\ UNCHANGED <<queue, inProgress, fate>> /\ publishing' = {} /\ Rows(inbox') = {}
        /\ shell' = None /\ handler' = [h \in Handlers |-> Idle]
    BY <1>6 DEF Reexec, Exited, Crash, Vanish, store, Rows
  <2>2. x # None /\ \A h \in Handlers : handler'[h].pc = "idle"
    BY <2>1, NoneIsNoEvent DEF Idle
  <2>3. ~Running(x)' /\ Places(x)' \subseteq Places(x)
    BY <2>1, <2>2, PlacesFewer DEF Running
  <2> QED
    BY <1>1, <2>1, <2>3, Rests
<1>7. ASSUME \/ \E c \in Chats : RequestRestart(c)
             \/ NotifierWakes \/ ConfirmRestart \/ ShellExits \/ ConsumerStops \/ UNCHANGED vars
      PROVE  UNCHANGED <<publishing, inbox, handler, queue, inProgress, shell, fate>>
  BY <1>7 DEF RequestRestart, NotifierWakes, ConfirmRestart, ShellExits, ConsumerStops,
              AllButMode, vars, process, store
<1> QED
  BY <1>2, <1>3, <1>4, <1>5, <1>6, <1>7

LEMMA PlacesStep ==
  ASSUME TypeOK, StoreInv, TurnInv, PlaceInv, [Next]_vars, NEW x \in Events
  PROVE  InPlace(x)'
<1>1. UNCHANGED notify
  BY DEF Next, vars
<1>2. ASSUME NEW e \in Events, Submit(e) \/ Deliver(e) PROVE InPlace(x)'
  BY <1>1, <1>2, SendPlaces
<1>3. ASSUME NEW h \in Handlers, Handle(h) PROVE InPlace(x)'
  <2>1. ASSUME NEW e \in Events, StartTurn(h, e) PROVE InPlace(x)'
    BY <1>1, <2>1, StartPlaces
  <2>2. ASSUME NEW e \in Events, Enqueue(h, e) PROVE InPlace(x)'
    BY <1>1, <2>2, EnqueuePlaces
  <2>3. ASSUME NEW e \in Events, Refuse(h, e) PROVE InPlace(x)'
    BY <1>1, <2>3, RefusePlaces
  <2>4. ASSUME NEW e \in Events, Command(h, e) PROVE InPlace(x)'
    BY <1>1, <2>4, CommandPlaces
  <2>5. CASE EndReply(h)
    BY <1>1, <2>5, EndReplyPlaces
  <2>6. CASE Started(h) \/ Announced(h)
    BY <1>1, <2>6, GoOnPlaces
  <2>7. CASE EndBody(h)
    BY <1>1, <2>7, EndBodyPlaces
  <2>8. CASE CancelledEarly(h)
    BY <1>1, <2>8, OtherPlaces
  <2> QED
    BY <1>3, <2>1, <2>2, <2>3, <2>4, <2>5, <2>6, <2>7, <2>8 DEF Handle
<1>4. ASSUME NEW c \in Chats, Resume(c) \/ DiscardButton(c) PROVE InPlace(x)'
  BY <1>1, <1>4, ResumePlaces, OtherPlaces
<1>5. CASE Notifier
  BY <1>1, <1>5, RecoverPlaces, OtherPlaces DEF Notifier
<1>6. CASE Shell
  BY <1>1, <1>6, ShellPlaces
<1>7. CASE Process
  BY <1>1, <1>7, RecoverPlaces, OtherPlaces DEF Process
<1>8. CASE UNCHANGED vars
  BY <1>1, <1>8, OtherPlaces
<1> QED
  BY <1>2, <1>3, <1>4, <1>5, <1>6, <1>7, <1>8 DEF Next, Users

\* No event is twice on the consumer's queue, no prompt twice in its chat's.
LEMMA OnceStep ==
  ASSUME TypeOK, StoreInv, PlaceInv, [Next]_vars
  PROVE  RowsOnce'
<1>0. RowsOnce /\ \A x \in Events : InPlace(x)
  BY DEF PlaceInv
<1>1. CASE UNCHANGED <<inbox, queue>>
  BY <1>0, <1>1 DEF RowsOnce, Once
<1>2. ASSUME NEW e \in Events, Arrive(e), e \notin Rows(inbox) PROVE RowsOnce'
  BY <1>0, <1>2, ArriveRows DEF RowsOnce, Arrive, store
<1>3. ASSUME NEW e \in Events, Submit(e) \/ Deliver(e) PROVE RowsOnce'
  <2>1. Arrive(e)
    BY <1>3 DEF Submit, Deliver
  <2>2. "inbox" \notin Places(e)
    <3>1. CASE Submit(e)
      BY <1>0, <3>1 DEF Submit, InPlace, Unsent
    <3>2. CASE Deliver(e)
      <4>1. "publishing" \in Places(e)
        BY <3>2 DEF Deliver, Places
      <4> QED
        BY <1>0, <4>1, AloneThere
    <3> QED
      BY <1>3, <3>1, <3>2
  <2>3. e \notin Rows(inbox)
    BY <2>2 DEF Places
  <2> QED
    BY <1>2, <2>1, <2>3
<1>4. CASE ShellPublishes
  <2>1. shell \in Events /\ Arrive(shell)
    BY <1>4 DEF ShellPublishes
  <2>2. "shell" \in Places(shell)
    BY DEF Places
  <2>3. "inbox" \notin Places(shell)
    BY <1>0, <2>1, <2>2, AloneThere
  <2>4. shell \notin Rows(inbox)
    BY <2>3 DEF Places
  <2> QED
    BY <1>2, <2>1, <2>4
<1>5. ASSUME NEW h \in Handlers, NEW e \in Events, Take(h, e) PROVE Once(inbox')
  BY <1>0, <1>5, TakeRows DEF RowsOnce
<1>6. ASSUME NEW h \in Handlers, NEW e \in Events, StartTurn(h, e) \/ Refuse(h, e) PROVE RowsOnce'
  BY <1>0, <1>5, <1>6 DEF StartTurn, Refuse, RowsOnce, store, Once
<1>7. ASSUME NEW h \in Handlers, NEW e \in Events, Enqueue(h, e) PROVE RowsOnce'
  <2> DEFINE c == ChatOf[e]
             q == Append(queue[c], e)
  <2>1. /\ Take(h, e) /\ e \in Tasks /\ c \in Chats /\ queue[c] \in Seq(Tasks)
        /\ queue' = [queue EXCEPT ![c] = Newest(q)]
    BY <1>7, TaskDispatchAssumption DEF Enqueue, TypeOK
  <2>2. e \in Rows(inbox)
    BY <2>1, TakeRows
  <2>3. "inbox" \in Places(e)
    BY <2>2 DEF Places
  <2>4. "queue" \notin Places(e)
    BY <1>0, <2>3, AloneThere
  <2>5. e \notin Rows(queue[c]) /\ Once(queue[c])
    BY <1>0, <2>1, <2>4 DEF Places, RowsOnce
  <2>6. Once(q) /\ q \in Seq(Tasks) /\ q # <<>>
    BY <2>1, <2>5, AppendRows, AppendProperties
  <2>7. Once(Newest(q))
    BY <2>6, NewestRows
  <2> HIDE DEF q
  <2>8. \A d \in Chats : Once(queue'[d])
    BY <1>0, <2>1, <2>7 DEF TypeOK, RowsOnce
  <2> QED
    BY <1>5, <2>1, <2>8 DEF RowsOnce
<1>8. ASSUME NEW c \in Chats, Discard(c), Once(inbox') PROVE RowsOnce'
  <2>1. \A d \in Chats : queue'[d] = <<>> \/ queue'[d] = queue[d]
    BY <1>8 DEF Discard, TypeOK
  <2>2. Once(<<>>)
    BY DEF Once
  <2>3. \A d \in Chats : Once(queue'[d])
    BY <1>0, <2>1, <2>2 DEF RowsOnce
  <2> QED
    BY <1>8, <2>3 DEF RowsOnce
<1>9. ASSUME NEW h \in Handlers, NEW e \in Events, Command(h, e) PROVE RowsOnce'
  <2>1. Once(inbox') /\ ChatOf[e] \in Chats
    BY <1>5, <1>9, TaskDispatchAssumption DEF Command
  <2>2. Discard(ChatOf[e]) \/ UNCHANGED queue
    BY <1>9 DEF Command, store
  <2> QED
    BY <1>0, <1>8, <2>1, <2>2 DEF RowsOnce
<1>10. ASSUME NEW c \in Chats, HandOn(c), UNCHANGED inbox PROVE RowsOnce'
  <2>1. CASE queue[c] = <<>>
    BY <1>1, <1>10, <2>1 DEF HandOn
  <2>2. CASE queue[c] # <<>>
    <3>1. \A d \in Chats : Once(queue'[d])
      BY <1>0, <1>10, <2>2, PopRows DEF HandOn
    <3> QED
      BY <1>0, <1>10, <3>1 DEF RowsOnce
  <2> QED
    BY <2>1, <2>2
<1>11. ASSUME NEW C \in SUBSET Chats, Recover(C), UNCHANGED inbox PROVE RowsOnce'
  <2>1. ASSUME NEW d \in Chats PROVE Once(queue'[d])
    <3>1. queue[d] \in Seq(Tasks) /\ inProgress[d] \in Tasks \cup {None} /\ Once(queue[d])
      BY <1>0 DEF TypeOK, RowsOnce
    <3>2. queue'[d] = queue[d] \/ (queue'[d] = <<inProgress[d]>> \o queue[d] /\ inProgress[d] \in Tasks)
      BY <1>11, <3>1 DEF Recover
    <3>3. CASE inProgress[d] \in Tasks
      <4>1. ChatOf[inProgress[d]] = d
        BY <3>3, NoneIsNoEvent DEF StoreInv, OwnRows, TasksOf
      <4>2. "mark" \in Places(inProgress[d])
        BY <4>1 DEF Places
      <4>3. "queue" \notin Places(inProgress[d])
        BY <1>0, <3>3, <4>2, AloneThere DEF Events
      <4>4. inProgress[d] \notin Rows(queue[d])
        BY <4>1, <4>3 DEF Places
      <4>5. Once(<<inProgress[d]>> \o queue[d])
        BY <3>1, <3>3, <4>4, FrontRows
      <4> QED
        BY <3>1, <3>2, <4>5
    <3> QED
      BY <3>1, <3>2, <3>3
  <2> QED
    BY <1>0, <1>11, <2>1 DEF RowsOnce
<1>12. ASSUME NEW c \in Chats, ShellContinues(c) PROVE RowsOnce'
  <2>1. queue[c] # <<>> /\ queue' = [queue EXCEPT ![c] = Tail(@)] /\ UNCHANGED inbox
    BY <1>12 DEF ShellContinues
  <2>2. \A d \in Chats : Once(queue'[d])
    BY <1>0, <2>1, PopRows
  <2> QED
    BY <1>0, <2>1, <2>2 DEF RowsOnce
<1>13. ASSUME NEW h \in Handlers, Handle(h) PROVE RowsOnce'
  <2>1. CASE EndReply(h) \/ Started(h) \/ Announced(h) \/ CancelledEarly(h)
    BY <1>1, <2>1 DEF EndReply, Started, Announced, CancelledEarly, store
  <2>2. CASE EndBody(h)
    <3>1. HandOn(ChatOf[handler[h].ev]) /\ ChatOf[handler[h].ev] \in Chats /\ UNCHANGED inbox
      BY <2>2, BusyHandler DEF EndBody
    <3> QED
      BY <1>10, <3>1
  <2> QED
    BY <1>6, <1>7, <1>9, <1>13, <2>1, <2>2 DEF Handle
<1>14. ASSUME NEW c \in Chats, Resume(c) \/ DiscardButton(c) PROVE RowsOnce'
  BY <1>0, <1>8, <1>10, <1>14 DEF Resume, DiscardButton, RowsOnce, Once
<1>15. CASE Notifier
  <2>1. ASSUME NEW c \in Chats, NotifierVisits(c) PROVE RowsOnce'
    <3>1. Recover({c}) /\ {c} \in SUBSET Chats /\ UNCHANGED inbox
      BY <2>1 DEF NotifierVisits
    <3> QED
      BY <1>11, <3>1
  <2> QED
    BY <1>1, <1>15, <2>1 DEF Notifier, NotifierWakes, store
<1>16. CASE Shell
  <2>1. ASSUME ShellDiscards PROVE RowsOnce'
    <3>1. UNCHANGED inbox /\ Once(inbox)' /\ CliChats \subseteq Chats
      BY <1>0, <2>1, TaskDispatchAssumption DEF ShellDiscards, RowsOnce, Once
    <3>2. (\E c \in CliChats : Discard(c)) \/ UNCHANGED queue
      BY <2>1 DEF ShellDiscards, store
    <3> QED
      BY <1>1, <1>8, <3>1, <3>2
  <2>2. ASSUME NEW t \in Tasks, ShellTakes(t) PROVE RowsOnce'
    BY <1>1, <2>2 DEF ShellTakes, store
  <2> QED
    BY <1>4, <1>12, <1>16, <2>1, <2>2 DEF Shell
<1>17. CASE Process
  <2>1. CASE Boot
    <3>1. Recover(CliChats) /\ CliChats \in SUBSET Chats /\ UNCHANGED inbox
      BY <2>1, TaskDispatchAssumption DEF Boot
    <3> QED
      BY <1>11, <3>1
  <2>2. CASE LoopEnds \/ Reexec \/ Exited \/ Crash
    <3>1. inbox' = <<>> /\ UNCHANGED queue
      BY <2>2 DEF LoopEnds, Reexec, Exited, Crash, Vanish, store
    <3> QED
      BY <1>0, <3>1 DEF RowsOnce, Once
  <2>3. CASE (\E c \in Chats : RequestRestart(c)) \/ ConfirmRestart \/ ShellExits \/ ConsumerStops
    BY <1>1, <2>3 DEF RequestRestart, ConfirmRestart, ShellExits, ConsumerStops, AllButMode, store
  <2> QED
    BY <1>17, <2>1, <2>2, <2>3 DEF Process
<1>18. CASE UNCHANGED vars
  BY <1>1, <1>18 DEF vars, store
<1> QED
  BY <1>3, <1>13, <1>14, <1>15, <1>16, <1>17, <1>18 DEF Next, Users

\* Nothing its user was told of becomes unknown again.
LEMMA FateStep ==
  ASSUME TypeOK, [Next]_vars, NEW x \in Events, fate'[x] \in {"new", "sent"}
  PROVE  fate[x] \in {"new", "sent"}
<1>1. ASSUME NEW c, Discard(c) PROVE fate[x] \in {"new", "sent"}
  BY <1>1 DEF Discard
<1>2. ASSUME NEW C, Recover(C) PROVE fate[x] \in {"new", "sent"}
  BY <1>2 DEF Recover
<1>3. CASE UNCHANGED fate
  BY <1>3
<1>4. ASSUME NEW e \in Events, Submit(e) \/ Deliver(e) PROVE fate[x] \in {"new", "sent"}
  BY <1>4 DEF Submit, Deliver, TypeOK
<1>5. ASSUME NEW h \in Handlers, Handle(h) PROVE fate[x] \in {"new", "sent"}
  <2>1. ASSUME NEW e \in Events, StartTurn(h, e) \/ Refuse(h, e) PROVE fate[x] \in {"new", "sent"}
    BY <2>1 DEF StartTurn, Refuse, TypeOK
  <2>2. ASSUME NEW e \in Events, Enqueue(h, e) PROVE fate[x] \in {"new", "sent"}
    BY <2>2 DEF Enqueue
  <2>3. ASSUME NEW e \in Events, Command(h, e) PROVE fate[x] \in {"new", "sent"}
    BY <1>1, <2>3 DEF Command
  <2>4. CASE EndReply(h) \/ Started(h) \/ EndBody(h)
    BY <2>4 DEF EndReply, Started, EndBody, TypeOK
  <2>5. CASE Announced(h) \/ CancelledEarly(h)
    BY <2>5 DEF Announced, CancelledEarly
  <2> QED
    BY <1>5, <2>1, <2>2, <2>3, <2>4, <2>5 DEF Handle
<1>6. ASSUME NEW c \in Chats, Resume(c) \/ DiscardButton(c) PROVE fate[x] \in {"new", "sent"}
  BY <1>1, <1>6 DEF Resume, DiscardButton
<1>7. CASE Notifier
  BY <1>2, <1>7 DEF Notifier, NotifierWakes, NotifierVisits
<1>8. CASE Shell
  BY <1>1, <1>8 DEF Shell, ShellTakes, ShellContinues, ShellDiscards, ShellPublishes, TypeOK
<1>9. CASE Process
  BY <1>2, <1>3, <1>9 DEF Process, RequestRestart, ConfirmRestart, ShellExits, ConsumerStops, LoopEnds,
                    Reexec, Exited, Crash, Vanish, Boot, AllButMode
<1>10. CASE UNCHANGED vars
  BY <1>3, <1>10 DEF vars
<1> QED
  BY <1>4, <1>5, <1>6, <1>7, <1>8, <1>9, <1>10 DEF Next, Users

LEMMA AnsweredStep ==
  ASSUME TypeOK, PlaceInv, [Next]_vars
  PROVE  Answered'
<1>0. Answered
  BY DEF PlaceInv
<1>1. \A x \in Tasks : fate[x] \notin {"new", "sent"} => fate'[x] \notin {"new", "sent"}
  BY FateStep DEF Events
<1>2. ASSUME \A g \in Handlers : handler'[g].pc = "reply" => handler'[g] = handler[g]
      PROVE  Answered'
  BY <1>0, <1>1, <1>2 DEF Answered
<1>3. ASSUME NEW h \in Handlers, NEW e \in Events, handler' = [handler EXCEPT ![h] = [ev |-> e, pc |-> "reply"]],
             e \in Tasks => fate'[e] \notin {"new", "sent"}
      PROVE  Answered'
  <2>1. handler'[h].ev = e /\ \A g \in Handlers : g # h => handler'[g] = handler[g]
    BY <1>3 DEF TypeOK
  <2> QED
    BY <1>0, <1>1, <1>3, <2>1 DEF Answered
<1>4. ASSUME NEW h \in Handlers, Handle(h) PROVE Answered'
  <2>1. ASSUME NEW e \in Events, StartTurn(h, e) PROVE Answered'
    <3>1. handler' = [handler EXCEPT ![h] = [ev |-> e, pc |-> "starting"]]
      BY <2>1 DEF StartTurn
    <3> QED
      BY <1>2, <3>1 DEF TypeOK
  <2>2. ASSUME NEW e \in Events, Enqueue(h, e) PROVE Answered'
    <3>1. fate'[e] \in {"evicted", "accepted"} /\ handler' = [handler EXCEPT ![h] = [ev |-> e, pc |-> "reply"]]
      BY <2>2 DEF Enqueue
    <3> QED
      BY <1>3, <3>1
  <2>3. ASSUME NEW e \in Events, Refuse(h, e) PROVE Answered'
    <3>1. fate'[e] = "refused" /\ handler' = [handler EXCEPT ![h] = [ev |-> e, pc |-> "reply"]]
      BY <2>3 DEF Refuse, TypeOK
    <3> QED
      BY <1>3, <3>1
  <2>4. ASSUME NEW e \in Events, Command(h, e) PROVE Answered'
    <3>1. e \notin Tasks /\ handler' = [handler EXCEPT ![h] = [ev |-> e, pc |-> "reply"]]
      BY <2>4, TaskDispatchAssumption DEF Command
    <3> QED
      BY <1>3, <3>1
  <2>5. CASE EndReply(h) \/ EndBody(h) \/ CancelledEarly(h)
    <3>1. Leave(h)
      BY <2>5 DEF EndReply, EndBody, CancelledEarly
    <3>2. \A g \in Handlers : handler'[g].pc = "reply" => handler'[g] = handler[g]
      BY <3>1 DEF Leave, Idle, TypeOK
    <3> QED
      BY <1>2, <3>2
  <2>6. CASE Started(h) \/ Announced(h)
    <3>1. PICK p \in {"announcing", "body"} : handler' = [handler EXCEPT ![h].pc = p]
      BY <2>6 DEF Started, Announced
    <3>2. handler[h] \in [ev : Tasks, pc : TurnPcs]
      BY <2>6, BusyHandler DEF Started, Announced, TurnPcs
    <3>3. handler'[h].pc = p /\ \A g \in Handlers : g # h => handler'[g] = handler[g]
      BY <3>1, <3>2 DEF TypeOK
    <3> QED
      BY <1>2, <3>3
  <2> QED
    BY <1>4, <2>1, <2>2, <2>3, <2>4, <2>5, <2>6 DEF Handle
<1>5. CASE UNCHANGED handler
  BY <1>2, <1>5
<1>6. ASSUME NEW e \in Events, Submit(e) \/ Deliver(e) PROVE UNCHANGED handler
  BY <1>6 DEF Submit, Deliver, Arrive
<1>7. ASSUME NEW c \in Chats, Resume(c) \/ DiscardButton(c) PROVE UNCHANGED handler
  BY <1>7 DEF Resume, DiscardButton
<1>8. CASE Notifier
  BY <1>5, <1>8 DEF Notifier, NotifierWakes, NotifierVisits
<1>9. CASE Shell
  BY <1>5, <1>9 DEF Shell, ShellTakes, ShellContinues, ShellDiscards, ShellPublishes, Arrive
<1>10. CASE Process
  <2>1. CASE Reexec \/ Exited \/ Crash
    <3>1. \A g \in Handlers : handler'[g].pc # "reply"
      BY <2>1 DEF Reexec, Exited, Crash, Vanish, Idle
    <3> QED
      BY <1>2, <3>1
  <2> QED
    BY <1>5, <1>10, <2>1 DEF Process, RequestRestart, ConfirmRestart, ShellExits, ConsumerStops, LoopEnds,
                       Boot, AllButMode
<1>11. CASE UNCHANGED vars
  BY <1>5, <1>11 DEF vars
<1> QED
  BY <1>4, <1>5, <1>6, <1>7, <1>8, <1>9, <1>10, <1>11 DEF Next, Users

LEMMA QuietStep ==
  ASSUME TypeOK, PlaceInv, [Next]_vars
  PROVE  Quiet'
<1>0. Quiet /\ UNCHANGED notify
  BY DEF PlaceInv, Next, vars
<1>1. ASSUME UNCHANGED todo, mode' # "down" \/ (mode = "down" /\ UNCHANGED handler) PROVE Quiet'
  BY <1>0, <1>1 DEF Quiet
<1>2. ASSUME NEW e \in Events, Submit(e) \/ Deliver(e) PROVE Quiet'
  BY <1>1, <1>2 DEF Submit, Deliver, Arrive
<1>3. ASSUME NEW h \in Handlers, Handle(h) PROVE Quiet'
  <2>1. UNCHANGED <<todo, mode>>
    BY <1>3 DEF Handle, StartTurn, Enqueue, Refuse, Command, Take, EndReply, Started, Announced, EndBody,
                CancelledEarly, process
  <2>2. mode # "down"
    <3>1. ASSUME mode = "down" PROVE handler[h].pc = "idle"
      BY <1>0, <3>1 DEF Quiet, Idle
    <3> QED
      BY <1>3, <3>1 DEF Handle, StartTurn, Enqueue, Refuse, Command, Take, Awake, EndReply, Started,
                  Announced, EndBody, CancelledEarly
  <2> QED
    BY <1>1, <2>1, <2>2
<1>4. ASSUME NEW c \in Chats, Resume(c) \/ DiscardButton(c) PROVE Quiet'
  BY <1>1, <1>4 DEF Resume, DiscardButton, process
<1>5. CASE Notifier
  <2>1. UNCHANGED <<handler, mode>>
    BY <1>5 DEF Notifier, NotifierWakes, NotifierVisits
  <2>2. ~notify => FALSE
    <3>1. ~notify => todo = {} /\ todo # None
      BY <1>0, TaskDispatchAssumption DEF Quiet
    <3> QED
      BY <1>5, <3>1 DEF Notifier, NotifierWakes, NotifierVisits
  <2> QED
    BY <1>0, <2>1, <2>2 DEF Quiet
<1>6. CASE Shell
  BY <1>1, <1>6 DEF Shell, ShellTakes, ShellContinues, ShellDiscards, ShellPublishes, Arrive
<1>7. CASE Process
  <2>1. CASE Reexec \/ Exited \/ Crash
    <3>1. todo' = {} /\ handler' = [h \in Handlers |-> Idle]
      BY <2>1 DEF Reexec, Exited, Crash, Vanish
    <3> QED
      BY <3>1 DEF Quiet
  <2>2. CASE Boot
    BY <1>0, <2>2 DEF Boot, Quiet
  <2>3. CASE ConsumerStops
    BY <1>0, <2>3 DEF ConsumerStops, Quiet
  <2>4. CASE (\E c \in Chats : RequestRestart(c)) \/ ConfirmRestart \/ ShellExits \/ LoopEnds
    BY <1>1, <2>4 DEF RequestRestart, ConfirmRestart, ShellExits, LoopEnds, AllButMode
  <2> QED
    BY <1>7, <2>1, <2>2, <2>3, <2>4 DEF Process
<1>8. CASE UNCHANGED vars
  BY <1>0, <1>8 DEF vars, process, Quiet
<1> QED
  BY <1>2, <1>3, <1>4, <1>5, <1>6, <1>7, <1>8 DEF Next, Users

\* Every event is where the invariant says, in every reachable state.
LEMMA PlaceInvariant == Spec => []PlaceInv
<1>1. Init => PlaceInv
  <2> SUFFICES ASSUME Init PROVE PlaceInv
    OBVIOUS
  <2>1. ASSUME NEW x \in Events PROVE Places(x) = {} /\ ~Running(x)
    BY <2>1, TaskDispatchAssumption, NoneIsNoEvent DEF Init, Places, Running, Rows, Idle
  <2>2. ASSUME NEW x \in Events PROVE InPlace(x)
    BY <2>1 DEF InPlace, Alone, Unsent, NotTwice, Owed
  <2>3. RowsOnce
    BY DEF Init, RowsOnce, Once
  <2>4. Answered /\ Quiet
    BY DEF Init, Answered, Quiet, Idle
  <2> QED
    BY <2>2, <2>3, <2>4 DEF PlaceInv
<1>2. TypeOK /\ StoreInv /\ TurnInv /\ PlaceInv /\ [Next]_vars => PlaceInv'
  BY PlacesStep, OnceStep, AnsweredStep, QuietStep DEF PlaceInv
<1> QED
  BY <1>1, <1>2, TypeCorrect, StoreInvariant, TurnInvariant, PTL DEF Spec

\* A prompt is on file once, in a mark or in one row, however often it was
\* popped, published, queued again, recovered or interrupted by a stop: no
\* later process can run it twice.
THEOREM OneCopyOnFile == Spec => []OnFileOnce
<1>1. TypeOK /\ StoreInv /\ PlaceInv => OnFileOnce
  <2> SUFFICES ASSUME TypeOK, StoreInv, PlaceInv, NEW c \in Chats
               PROVE  /\ inProgress[c] # None => inProgress[c] \notin Rows(queue[c])
                      /\ \A i, j \in DOMAIN queue[c] : queue[c][i] = queue[c][j] => i = j
    BY DEF OnFileOnce
  <2>1. Once(queue[c])
    BY DEF PlaceInv, RowsOnce
  <2>2. ASSUME inProgress[c] # None PROVE inProgress[c] \notin Rows(queue[c])
    <3>1. inProgress[c] \in Events /\ ChatOf[inProgress[c]] = c
      BY <2>2, RowsAreOwn DEF Events
    <3>2. "mark" \in Places(inProgress[c])
      BY <3>1 DEF Places
    <3>3. "queue" \notin Places(inProgress[c])
      BY <3>1, <3>2, AloneThere DEF PlaceInv
    <3> QED
      BY <3>1, <3>3 DEF Places
  <2> QED
    BY <2>1, <2>2 DEF Once
<1> QED
  BY <1>1, TypeCorrect, StoreInvariant, PlaceInvariant, PTL

\* What the file offers to run again is owed to its user, with the notifier
\* off: a prompt that ended, was refused, evicted or discarded is not on it.
THEOREM FileOwesOnly == Spec => []NothingFinishedOnFile
<1>1. PlaceInv => NothingFinishedOnFile
  <2> SUFFICES ASSUME PlaceInv, ~notify, NEW t \in Tasks, OnFile(t) PROVE fate[t] \in Kept
    BY DEF NothingFinishedOnFile
  <2>1. "queue" \in Places(t) \/ "mark" \in Places(t)
    BY DEF OnFile, Places
  <2> QED
    BY <2>1 DEF PlaceInv, InPlace, Owed, Events
<1> QED
  BY <1>1, PlaceInvariant, PTL
=============================================================================
