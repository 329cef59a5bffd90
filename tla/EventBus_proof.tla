---------------------------- MODULE EventBus_proof ----------------------------
(***************************************************************************)
(* Proofs about EventBus, for any events, topics and bounds.               *)
(***************************************************************************)
EXTENDS EventBus, FiniteSetTheorems, FunctionTheorems, TLAPS

\* What the replayer takes from a batch is a letter, and the rest of the
\* batch is letters: the replay loop of _auto_replay_dlq.
LEMMA BatchLetters ==
  ASSUME NEW s \in Seq(Letters), s # <<>>
  PROVE  Head(s) \in Letters /\ Tail(s) \in Seq(Letters)
  OBVIOUS

\* publish keeps the types of what it writes, whoever calls it.
LEMMA PublishTypes ==
  ASSUME TypeOK, NEW e \in Events, NEW by \in Callers, Publish(e, by)
  PROVE  /\ delivered' \in [Events -> Nat]
         /\ pushing' \subseteq [ev : Events, by : Callers]
         /\ handed' \subseteq Events
  BY DEF TypeOK, Publish

\* Every variable of the bus keeps its type; a letter on file or in the
\* replayer's batch is one that push has counted.
THEOREM BusTypeCorrect == Spec => []TypeOK
<1>1. Init => TypeOK
  BY EventBusAssumption DEF Init, TypeOK
<1>2. TypeOK /\ [Next]_vars => TypeOK'
  <2> SUFFICES ASSUME TypeOK, [Next]_vars PROVE TypeOK'
    OBVIOUS
  <2> USE EventBusAssumption
  <2>1. CASE Initialize
    BY <2>1 DEF Initialize, TypeOK
  <2>2. CASE SetRbac
    BY <2>2 DEF SetRbac, TypeOK
  <2>3. CASE AttachDlq
    BY <2>3 DEF AttachDlq, TypeOK
  <2>4. ASSUME NEW t \in Topics, Subscribe(t) PROVE TypeOK'
    BY <2>4 DEF Subscribe, TypeOK
  <2>5. ASSUME NEW e \in Events, ModulePublishes(e) PROVE TypeOK'
    <3>1. Publish(e, "module") /\ "module" \in Callers
      BY <2>5 DEF ModulePublishes, Callers
    <3> QED
      BY <2>5, <3>1, PublishTypes DEF ModulePublishes, TypeOK
  <2>6. ASSUME NEW p \in [ev : Events, by : Callers], Push(p) PROVE TypeOK'
    <3>1. Filed(p.ev) \in Letters
      BY DEF Filed, Letters, RetryLimit
    <3> QED
      BY <2>6, <3>1 DEF Push, TypeOK
  <2>7. CASE ReplayerWakes
    BY <2>7 DEF ReplayerWakes, PopAll, TypeOK
  <2>8. CASE ReplayNext
    <3>1. Head(batch) \in Letters /\ batch' \in Seq(Letters)
      BY <2>8, BatchLetters DEF ReplayNext, TypeOK
    <3>2. Head(batch).ev \in Events
      BY <3>1 DEF Letters
    <3>3. CASE GivesUp(Head(batch))
      BY <2>8, <3>1, <3>3 DEF ReplayNext, TypeOK
    <3>4. CASE ~GivesUp(Head(batch))
      <4>1. Publish(Head(batch).ev, "replayer") /\ "replayer" \in Callers
        BY <2>8, <3>4 DEF ReplayNext, Callers
      <4>2. retries' \in [Events -> Nat]
        BY <2>8, <3>2, <3>4 DEF ReplayNext, CountRetry, TypeOK
      <4> QED
        BY <2>8, <3>1, <3>2, <4>1, <4>2, PublishTypes DEF ReplayNext, TypeOK
    <3> QED
      BY <3>3, <3>4
  <2>9. CASE Crash
    BY <2>9 DEF Crash, TypeOK
  <2>10. CASE Restart
    BY <2>10 DEF Restart, TypeOK
  <2>11. CASE UNCHANGED vars
    BY <2>11 DEF vars, TypeOK
  <2> QED
    BY <2>1, <2>2, <2>3, <2>4, <2>5, <2>6, <2>7, <2>8, <2>9, <2>10, <2>11 DEF Next
<1> QED
  BY <1>1, <1>2, PTL DEF Spec

\* What publish hands to the dead-letter queue was granted its topic: the
\* queue is attached after the rights are.
LEMMA PublishHandsGranted ==
  ASSUME OnlyGrantedOnFile, NEW e \in Events, NEW by, Publish(e, by)
  PROVE  OnlyGrantedOnFile'
<1>1. CASE DeadLetters(e, by)
  <2>1. ClassOf[e] = "granted"
    BY <1>1, EventBusAssumption DEF DeadLetters, Passes, Attached, Guarded
  <2> QED
    BY <1>1, <2>1 DEF Publish, OnlyGrantedOnFile
<1>2. CASE ~DeadLetters(e, by)
  BY <1>2 DEF Publish, OnlyGrantedOnFile
<1> QED
  BY <1>1, <1>2

\* An event that access control turns away is never filed, in whatever order
\* modules publish, topics get subscribers, the boot goes on, letters are
\* replayed and the process dies.
THEOREM DeniedNeverFiled == Spec => []OnlyGrantedOnFile
<1>1. Init => OnlyGrantedOnFile
  BY DEF Init, OnlyGrantedOnFile
<1>2. TypeOK /\ OnlyGrantedOnFile /\ [Next]_vars => OnlyGrantedOnFile'
  <2> SUFFICES ASSUME TypeOK, OnlyGrantedOnFile, [Next]_vars PROVE OnlyGrantedOnFile'
    OBVIOUS
  <2>1. CASE UNCHANGED handed
    BY <2>1 DEF OnlyGrantedOnFile
  <2>2. ASSUME NEW e \in Events, ModulePublishes(e) PROVE OnlyGrantedOnFile'
    BY <2>2, PublishHandsGranted DEF ModulePublishes
  <2>3. CASE ReplayNext
    <3>1. Head(batch).ev \in Events
      BY <2>3, BatchLetters DEF ReplayNext, TypeOK, Letters
    <3>2. UNCHANGED handed \/ Publish(Head(batch).ev, "replayer")
      BY <2>3 DEF ReplayNext
    <3> QED
      BY <2>1, <3>1, <3>2, PublishHandsGranted
  <2>4. ASSUME NEW t \in Topics, Subscribe(t) PROVE UNCHANGED handed
    BY <2>4 DEF Subscribe
  <2>5. ASSUME NEW p, Push(p) PROVE UNCHANGED handed
    BY <2>5 DEF Push
  <2> QED
    BY <2>1, <2>2, <2>3, <2>4, <2>5
    DEF Next, vars, Initialize, SetRbac, AttachDlq, ReplayerWakes, Crash, Restart
<1> QED
  BY <1>1, <1>2, BusTypeCorrect, PTL DEF Spec
-----------------------------------------------------------------------------
(* Counting the copies of an event.                                        *)

LEMMA CopiesCounted ==
  ASSUME NEW s \in Seq(Letters), NEW e
  PROVE  IsFiniteSet({i \in DOMAIN s : s[i].ev = e}) /\ Copies(s, e) \in Nat
<1>1. DOMAIN s = 1..Len(s) /\ Len(s) \in Nat
  OBVIOUS
<1>2. IsFiniteSet(1..Len(s))
  BY <1>1, FS_Interval
<1>3. {i \in DOMAIN s : s[i].ev = e} \subseteq 1..Len(s)
  BY <1>1
<1>4. IsFiniteSet({i \in DOMAIN s : s[i].ev = e})
  BY <1>2, <1>3, FS_Subset
<1> QED
  BY <1>4, FS_CardinalityType DEF Copies

LEMMA NoCopies == \A e : Copies(<<>>, e) = 0
<1> TAKE e
<1>1. {i \in DOMAIN <<>> : <<>>[i].ev = e} = {}
  OBVIOUS
<1> QED
  BY <1>1, FS_EmptySet DEF Copies

LEMMA AppendedAt ==
  ASSUME NEW s \in Seq(Letters), NEW l \in Letters, NEW i \in DOMAIN Append(s, l)
  PROVE  Append(s, l)[i] = l \/ (i \in DOMAIN s /\ Append(s, l)[i] = s[i])
  OBVIOUS

LEMMA CopiesAppended ==
  ASSUME NEW s \in Seq(Letters), NEW l \in Letters, NEW e
  PROVE  Copies(Append(s, l), e) = Copies(s, e) + (IF l.ev = e THEN 1 ELSE 0)
<1> DEFINE S == {i \in DOMAIN s : s[i].ev = e}
           T == {i \in DOMAIN Append(s, l) : Append(s, l)[i].ev = e}
<1>0. Copies(s, e) = Cardinality(S) /\ Copies(Append(s, l), e) = Cardinality(T)
  BY DEF Copies
<1>1. IsFiniteSet(S) /\ Copies(s, e) \in Nat
  BY CopiesCounted
<1>2. /\ DOMAIN s = 1..Len(s) /\ DOMAIN Append(s, l) = 1..(Len(s) + 1) /\ Len(s) \in Nat
      /\ \A i \in 1..Len(s) : Append(s, l)[i] = s[i]
      /\ Append(s, l)[Len(s) + 1] = l
  OBVIOUS
<1>3. Len(s) + 1 \notin S
  BY <1>2
<1>4. CASE l.ev = e
  <2>1. T = S \cup {Len(s) + 1}
    BY <1>2, <1>4
  <2>2. Cardinality(S \cup {Len(s) + 1}) = Cardinality(S) + 1
    BY <1>1, <1>3, FS_AddElement
  <2> QED
    BY ONLY <1>0, <1>4, <2>1, <2>2
<1>5. CASE l.ev # e
  <2>1. T = S
    BY <1>2, <1>5
  <2>2. Cardinality(T) = Cardinality(S)
    BY ONLY <2>1, Zenon
  <2> HIDE DEF S, T
  <2> QED
    BY <1>0, <1>1, <1>5, <2>2
<1> QED
  BY <1>4, <1>5

LEMMA CopiesWithoutHead ==
  ASSUME NEW s \in Seq(Letters), s # <<>>, NEW e
  PROVE  Copies(s, e) = Copies(Tail(s), e) + (IF Head(s).ev = e THEN 1 ELSE 0)
<1> DEFINE S == {i \in DOMAIN s : s[i].ev = e}
           T == {i \in DOMAIN Tail(s) : Tail(s)[i].ev = e}
           f == [i \in T |-> i + 1]
<1>0. Copies(s, e) = Cardinality(S) /\ Copies(Tail(s), e) = Cardinality(T)
  BY DEF Copies
<1>1. /\ DOMAIN s = 1..Len(s) /\ DOMAIN Tail(s) = 1..(Len(s) - 1) /\ Len(s) \in Nat \ {0}
      /\ \A i \in 1..(Len(s) - 1) : Tail(s)[i] = s[i + 1]
      /\ Head(s) = s[1] /\ Tail(s) \in Seq(Letters)
  OBVIOUS
<1>2. IsFiniteSet(T) /\ Copies(Tail(s), e) \in Nat
  BY <1>1, CopiesCounted
<1>3. f \in Bijection(T, S \ {1})
  <2>1. f \in [T -> S \ {1}]
    BY <1>1
  <2>2. \A i, j \in T : f[i] = f[j] => i = j
    BY <1>1
  <2>3. \A k \in S \ {1} : \E i \in T : f[i] = k
    <3> TAKE k \in S \ {1}
    <3>1. k - 1 \in T /\ f[k - 1] = k
      BY <1>1
    <3> QED
      BY <3>1
  <2> QED
    BY <2>1, <2>2, <2>3 DEF Bijection, Injection, Surjection, IsInjective
<1>4. IsFiniteSet(S \ {1}) /\ Cardinality(S \ {1}) = Cardinality(T)
  BY <1>2, <1>3, FS_Bijection DEF ExistsBijection
<1>5. CASE Head(s).ev = e
  <2>1. S = (S \ {1}) \cup {1}
    BY <1>1, <1>5
  <2>2. Cardinality((S \ {1}) \cup {1}) = Cardinality(S \ {1}) + 1
    BY <1>4, FS_AddElement
  <2> QED
    BY ONLY <1>0, <1>4, <1>5, <2>1, <2>2
<1>6. CASE Head(s).ev # e
  <2>1. S = S \ {1}
    BY <1>1, <1>6
  <2>2. Cardinality(S) = Cardinality(S \ {1})
    BY ONLY <2>1, Zenon
  <2> HIDE DEF S, T
  <2> QED
    BY <1>0, <1>2, <1>4, <1>6, <2>2
<1> QED
  BY <1>5, <1>6

\* The push calls under way for an event.
Filing(e) == {p \in pushing : p.ev = e}

LEMMA CallsCounted ==
  ASSUME NEW P \in SUBSET [ev : Events, by : Callers], NEW e
  PROVE  IsFiniteSet({p \in P : p.ev = e}) /\ Cardinality({p \in P : p.ev = e}) \in Nat
<1> DEFINE C == {p \in P : p.ev = e}
           M == {[ev |-> e, by |-> "module"]} \cup {[ev |-> e, by |-> "replayer"]}
<1>1. C \subseteq M
  BY DEF Callers
<1>2. IsFiniteSet(M)
  <2>1. IsFiniteSet({[ev |-> e, by |-> "module"]})
    BY FS_Singleton
  <2> QED
    BY <2>1, FS_AddElement
<1> QED
  BY <1>1, <1>2, FS_Subset, FS_CardinalityType

LEMMA FilingCounted ==
  ASSUME TypeOK, NEW e
  PROVE  IsFiniteSet(Filing(e)) /\ Cardinality(Filing(e)) \in Nat
  BY CallsCounted DEF TypeOK, Filing

LEMMA PlacesCounted ==
  ASSUME TypeOK, NEW e \in Events
  PROVE  /\ delivered[e] \in Nat /\ Cardinality(Filing(e)) \in Nat
         /\ Copies(dlq, e) \in Nat /\ Copies(batch, e) \in Nat
         /\ Places(e) = delivered[e] + Cardinality(Filing(e)) + Copies(dlq, e) + Copies(batch, e)
<1>1. delivered[e] \in Nat /\ dlq \in Seq(Letters) /\ batch \in Seq(Letters)
  BY DEF TypeOK
<1>2. Copies(dlq, e) \in Nat /\ Copies(batch, e) \in Nat
  BY <1>1, CopiesCounted
<1>3. Cardinality(Filing(e)) \in Nat
  BY FilingCounted
<1> QED
  BY <1>1, <1>2, <1>3 DEF Places, Filing

\* What publish passes on is delivered or being filed afterwards, and nothing
\* else moves.
LEMMA PublishPlaces ==
  ASSUME TypeOK, NEW e \in Events, NEW by \in Callers, Publish(e, by), Filing(e) = {}
  PROVE  \A d \in Events :
           delivered'[d] + Cardinality(Filing(d)') =
             delivered[d] + Cardinality(Filing(d))
               + (IF d = e /\ Passes(e) /\ (TopicOf[e] \in subscribers \/ DeadLetters(e, by))
                  THEN 1 ELSE 0)
<1> TAKE d \in Events
<1>1. /\ delivered \in [Events -> Nat] /\ delivered[d] \in Nat
      /\ IsFiniteSet(Filing(d)) /\ Cardinality(Filing(d)) \in Nat
  BY FilingCounted DEF TypeOK
<1>2. CASE DeadLetters(e, by)
  <2>1. delivered' = delivered /\ Passes(e)
    BY <1>2 DEF Publish, DeadLetters
  <2>2. pushing' = pushing \cup {[ev |-> e, by |-> by]}
    BY <1>2 DEF Publish
  <2>3. CASE d = e
    <3>1. Filing(d)' = Filing(d) \cup {[ev |-> e, by |-> by]}
      BY <2>2, <2>3 DEF Filing
    <3>2. [ev |-> e, by |-> by] \notin Filing(d)
      BY <2>3
    <3>3. Cardinality(Filing(d) \cup {[ev |-> e, by |-> by]}) = Cardinality(Filing(d)) + 1
      BY <1>1, <3>2, FS_AddElement
    <3>4. Cardinality(Filing(d)') = Cardinality(Filing(d)) + 1
      BY <3>1, <3>3
    <3> QED
      BY <1>1, <1>2, <2>1, <2>3, <3>4
  <2>4. CASE d # e
    <3>1. Filing(d)' = Filing(d)
      BY <2>2, <2>4 DEF Filing
    <3> QED
      BY <1>1, <2>1, <2>4, <3>1
  <2> QED
    BY <2>3, <2>4
<1>3. CASE ~DeadLetters(e, by)
  <2>1. pushing' = pushing
    BY <1>3 DEF Publish
  <2>2. Filing(d)' = Filing(d)
    BY <2>1 DEF Filing
  <2>3. delivered'[d] = delivered[d]
          + (IF d = e /\ Passes(e) /\ TopicOf[e] \in subscribers THEN 1 ELSE 0)
    BY <1>1 DEF Publish
  <2> QED
    BY <1>1, <1>3, <2>2, <2>3
<1> QED
  BY <1>2, <1>3

-----------------------------------------------------------------------------
\* What the replayer may rely on: letters are counted once and were handed
\* over, a batch is there only while the queue is attached, and an event that
\* is not published is nowhere.
Filings ==
  /\ \A i \in DOMAIN dlq : dlq[i].retry = 1 /\ dlq[i].ev \in handed
  /\ \A i \in DOMAIN batch : batch[i].retry = 1 /\ batch[i].ev \in handed
  /\ \A p \in pushing : p.ev \in handed
  /\ batch # <<>> => phase = "ready"
  /\ \A e \in new : Places(e) = 0 /\ e \notin handed

\* The code keeps even the letters that have used up their retries: no count
\* it reads exceeds 1 (RetriesAreLimited fails), so it gives up none.
LettersKept == crashes = 0 => \A e \in handed : Places(e) = 1

PlaceInv == Filings /\ OnePlace /\ LettersKept

\* A step that moves no letter.
LEMMA NothingMoves ==
  ASSUME PlaceInv, UNCHANGED <<new, pushing, dlq, batch, delivered, handed, retries, crashes>>,
         batch # <<>> => UNCHANGED phase
  PROVE  PlaceInv'
<1>1. \A e : Places(e)' = Places(e)
  BY DEF Places, Copies
<1> QED
  BY <1>1 DEF PlaceInv, Filings, OnePlace, LettersKept

\* A step that leaves every event where it counted once, and hands nothing over.
LEMMA SamePlaces ==
  ASSUME OnePlace, LettersKept, UNCHANGED <<new, handed, crashes>>,
         \A e \in Events : Places(e)' = Places(e)
  PROVE  OnePlace' /\ (TypeOK => LettersKept')
  BY DEF OnePlace, LettersKept, TypeOK

\* Where an event is, before and after its module publishes it.
LEMMA ModulePlaces ==
  ASSUME TypeOK, PlaceInv, NEW e \in Events, ModulePublishes(e)
  PROVE  /\ e \in new /\ e \notin handed /\ Places(e) = 0 /\ delivered[e] = 0
         /\ \A d \in Events : Places(d)' = Places(d)
              + (IF d = e /\ Passes(e) /\ (TopicOf[e] \in subscribers \/ DeadLetters(e, "module"))
                 THEN 1 ELSE 0)
<1> USE DEF PlaceInv
<1>1. e \in new /\ e \notin handed /\ Places(e) = 0
  BY DEF ModulePublishes, Filings
<1>2. /\ Publish(e, "module") /\ "module" \in Callers
      /\ UNCHANGED <<phase, subscribers, dlq, batch, retries, crashes>> /\ new' = new \ {e}
  BY DEF ModulePublishes, Callers
<1>3. delivered[e] = 0 /\ Cardinality(Filing(e)) = 0 /\ IsFiniteSet(Filing(e))
  BY <1>1, PlacesCounted, FilingCounted
<1>4. Filing(e) = {}
  BY <1>3, FS_EmptySet
<1>5. TypeOK'
  BY <1>2, PublishTypes DEF TypeOK
<1>6. \A d \in Events : Places(d)' = Places(d)
        + (IF d = e /\ Passes(e) /\ (TopicOf[e] \in subscribers \/ DeadLetters(e, "module"))
           THEN 1 ELSE 0)
  <2> TAKE d \in Events
  <2>1. /\ delivered'[d] \in Nat /\ Cardinality(Filing(d)') \in Nat
        /\ Places(d)' = delivered'[d] + Cardinality(Filing(d)') + Copies(dlq, d) + Copies(batch, d)
    <3>1. delivered'[d] \in Nat /\ pushing' \in SUBSET [ev : Events, by : Callers]
      BY <1>5 DEF TypeOK
    <3>2. Cardinality(Filing(d)') \in Nat
      BY <3>1, CallsCounted DEF Filing
    <3> QED
      BY <1>2, <3>1, <3>2 DEF Places, Filing, Copies
  <2> QED
    BY <1>2, <1>4, <2>1, PlacesCounted, PublishPlaces
<1> QED
  BY <1>1, <1>3, <1>6

LEMMA PlaceModule ==
  ASSUME TypeOK, PlaceInv, NEW e \in Events, ModulePublishes(e)
  PROVE  PlaceInv'
<1> USE DEF PlaceInv
<1>1. e \in new /\ e \notin handed /\ Places(e) = 0
  BY ModulePlaces
<1>2. /\ Publish(e, "module")
      /\ UNCHANGED <<phase, subscribers, dlq, batch, retries, crashes>> /\ new' = new \ {e}
  BY DEF ModulePublishes
<1>6. \A d \in Events : Places(d)' = Places(d)
        + (IF d = e /\ Passes(e) /\ (TopicOf[e] \in subscribers \/ DeadLetters(e, "module"))
           THEN 1 ELSE 0)
  BY ModulePlaces
<1>7. handed' = handed \cup (IF DeadLetters(e, "module") THEN {e} ELSE {})
  BY <1>2 DEF Publish
<1>8. Filings'
  BY <1>1, <1>2, <1>6, <1>7 DEF Filings, Publish, TypeOK
<1>9. OnePlace'
  <2>1. \A d \in Events : Places(d) \in Nat
    BY PlacesCounted
  <2> QED
    BY <1>1, <1>6, <2>1 DEF OnePlace
<1>10. LettersKept'
  BY <1>1, <1>2, <1>6, <1>7 DEF LettersKept, DeadLetters, TypeOK
<1> QED
  BY <1>8, <1>9, <1>10

LEMMA PushPlaces ==
  ASSUME TypeOK, NEW p \in [ev : Events, by : Callers], Push(p)
  PROVE  \A d \in Events : Places(d)' = Places(d)
<1>1. /\ p \in pushing /\ pushing' = pushing \ {p}
      /\ dlq' = Append(dlq, Filed(p.ev)) /\ Filed(p.ev) \in Letters
      /\ Filed(p.ev).ev = p.ev /\ Filed(p.ev).retry = 1
      /\ UNCHANGED <<phase, subscribers, new, batch, delivered, handed, retries, crashes>>
  BY DEF Push, Filed, Letters, RetryLimit
<1>2. \A d \in Events : Places(d)' = Places(d)
  <2> TAKE d \in Events
  <2>1. Copies(dlq', d) = Copies(dlq, d) + (IF p.ev = d THEN 1 ELSE 0)
    BY <1>1, CopiesAppended DEF TypeOK
  <2>2. Cardinality(Filing(d)') = Cardinality(Filing(d)) - (IF p.ev = d THEN 1 ELSE 0)
    <3>1. IsFiniteSet(Filing(d)) /\ Cardinality(Filing(d)) \in Nat
      BY FilingCounted
    <3>2. CASE p.ev = d
      <4>1. Filing(d)' = Filing(d) \ {p} /\ p \in Filing(d)
        BY <1>1, <3>2 DEF Filing
      <4>2. Cardinality(Filing(d) \ {p}) = Cardinality(Filing(d)) - 1
        BY <3>1, <4>1, FS_RemoveElement
      <4> QED
        BY <3>2, <4>1, <4>2
    <3>3. CASE p.ev # d
      <4>1. Filing(d)' = Filing(d)
        BY <1>1, <3>3 DEF Filing
      <4> QED
        BY <3>1, <3>3, <4>1
    <3> QED
      BY <3>2, <3>3
  <2>3. Places(d)' = delivered[d] + Cardinality(Filing(d)') + Copies(dlq', d) + Copies(batch, d)
    BY <1>1 DEF Places, Filing, Copies
  <2> QED
    BY <2>1, <2>2, <2>3, PlacesCounted
<1> QED
  BY <1>2

LEMMA PlacePush ==
  ASSUME TypeOK, PlaceInv, NEW p \in [ev : Events, by : Callers], Push(p)
  PROVE  PlaceInv'
<1> USE DEF PlaceInv
<1>1. /\ p \in pushing /\ pushing' = pushing \ {p}
      /\ dlq' = Append(dlq, Filed(p.ev)) /\ Filed(p.ev) \in Letters
      /\ Filed(p.ev).ev = p.ev /\ Filed(p.ev).retry = 1
      /\ UNCHANGED <<phase, subscribers, new, batch, delivered, handed, retries, crashes>>
  BY DEF Push, Filed, Letters, RetryLimit
<1>2. \A d \in Events : Places(d)' = Places(d)
  BY PushPlaces
<1>3. OnePlace' /\ LettersKept'
  BY <1>1, <1>2, SamePlaces
<1>4. \A i \in DOMAIN dlq' : dlq'[i].retry = 1 /\ dlq'[i].ev \in handed
  <2>1. dlq \in Seq(Letters)
    BY DEF TypeOK
  <2>2. \A i \in DOMAIN dlq' : dlq'[i] = Filed(p.ev) \/ (i \in DOMAIN dlq /\ dlq'[i] = dlq[i])
    BY <1>1, <2>1, AppendedAt
  <2> QED
    BY <1>1, <2>2 DEF Filings
<1>5. \A e \in new' : Places(e)' = 0 /\ e \notin handed'
  BY <1>1, <1>2 DEF Filings, TypeOK
<1> QED
  BY <1>1, <1>3, <1>4, <1>5 DEF Filings

LEMMA WakesPlaces ==
  ASSUME TypeOK, ReplayerWakes
  PROVE  \A d \in Events : Places(d)' = Places(d)
<1>1. /\ batch = <<>> /\ batch' = dlq /\ dlq' = <<>> /\ phase = "ready"
      /\ UNCHANGED <<phase, subscribers, new, pushing, delivered, handed, retries, crashes>>
  BY DEF ReplayerWakes, Replaying, PopAll, Attached
<1>2. \A d \in Events : Places(d)' = Places(d)
  <2> TAKE d \in Events
  <2>1. Copies(batch, d) = 0 /\ Copies(dlq', d) = 0 /\ Copies(batch', d) = Copies(dlq, d)
    BY <1>1, NoCopies
  <2>2. Places(d)' = delivered[d] + Cardinality(Filing(d)) + Copies(dlq', d) + Copies(batch', d)
    BY <1>1 DEF Places, Filing, Copies
  <2> QED
    BY <2>1, <2>2, PlacesCounted
<1> QED
  BY <1>2

LEMMA PlaceWakes ==
  ASSUME TypeOK, PlaceInv, ReplayerWakes
  PROVE  PlaceInv'
<1> USE DEF PlaceInv
<1>1. /\ batch = <<>> /\ batch' = dlq /\ dlq' = <<>> /\ phase = "ready"
      /\ UNCHANGED <<phase, subscribers, new, pushing, delivered, handed, retries, crashes>>
  BY DEF ReplayerWakes, Replaying, PopAll, Attached
<1>2. \A d \in Events : Places(d)' = Places(d)
  BY WakesPlaces
<1>3. OnePlace' /\ LettersKept'
  BY <1>1, <1>2, SamePlaces
<1>4. \A e \in new' : Places(e)' = 0 /\ e \notin handed'
  BY <1>1, <1>2 DEF Filings, TypeOK
<1> QED
  BY <1>1, <1>3, <1>4 DEF Filings

\* The letter at the head of the batch is nowhere else; the replayer never
\* gives up on it, and publish delivers it or files it again.
LEMMA ReplayPlaces ==
  ASSUME TypeOK, PlaceInv, OnlyGrantedOnFile, ReplayNext, NEW e, e = Head(batch).ev
  PROVE  /\ e \in Events /\ Publish(e, "replayer") /\ batch' = Tail(batch)
         /\ UNCHANGED <<phase, subscribers, new, dlq, crashes>> /\ phase = "ready"
         /\ batch # <<>> /\ batch \in Seq(Letters) /\ e \in handed
         /\ delivered[e] = 0 /\ Places(e) = 1 /\ Passes(e)
         /\ retries' = [retries EXCEPT ![e] = CountRetry(@)]
         /\ \A d \in Events : Places(d)' = Places(d)
<1> USE DEF PlaceInv
<1>1. batch # <<>> /\ batch \in Seq(Letters) /\ e \in Events
  BY BatchLetters DEF ReplayNext, TypeOK, Letters
<1>2. Head(batch).retry = 1 /\ e \in handed /\ phase = "ready"
  BY <1>1 DEF Filings
<1>3. /\ Publish(e, "replayer") /\ "replayer" \in Callers /\ batch' = Tail(batch)
      /\ retries' = [retries EXCEPT ![e] = CountRetry(@)]
      /\ UNCHANGED <<phase, subscribers, new, dlq, crashes>>
  BY <1>2 DEF ReplayNext, GivesUp, RetryLimit, Callers
<1>4. \A d \in Events : Copies(batch, d) = Copies(batch', d) + (IF d = e THEN 1 ELSE 0)
  BY <1>1, <1>3, CopiesWithoutHead
<1>5. TypeOK'
  <2>1. batch' \in Seq(Letters)
    BY <1>1, <1>3, BatchLetters
  <2>2. retries' \in [Events -> Nat]
    BY <1>1, <1>3 DEF CountRetry, TypeOK
  <2> QED
    BY <1>1, <1>3, <2>1, <2>2, PublishTypes DEF TypeOK
<1>6. \A d \in Events : Copies(batch', d) \in Nat
  BY <1>5, CopiesCounted DEF TypeOK
<1>7. /\ Cardinality(Filing(e)) = 0 /\ Copies(batch, e) = 1
      /\ delivered[e] = 0 /\ Places(e) = 1
  <2>1. /\ delivered[e] \in Nat /\ Cardinality(Filing(e)) \in Nat /\ Copies(dlq, e) \in Nat
        /\ delivered[e] + Cardinality(Filing(e)) + Copies(dlq, e) + Copies(batch, e) <= 1
    BY <1>1, PlacesCounted DEF OnePlace
  <2>2. Copies(batch, e) \in Nat \ {0}
    <3>1. Copies(batch', e) \in Nat /\ Copies(batch, e) = Copies(batch', e) + 1
      BY <1>1, <1>4, <1>6
    <3> QED
      BY <3>1
  <2>3. \A a, b, c \in Nat, d \in Nat \ {0} :
          a + b + c + d <= 1 => a = 0 /\ b = 0 /\ d = 1 /\ a + b + c + d = 1
    OBVIOUS
  <2>4. Places(e) = delivered[e] + Cardinality(Filing(e)) + Copies(dlq, e) + Copies(batch, e)
    BY <1>1, PlacesCounted
  <2> QED
    BY <2>1, <2>2, <2>3, <2>4
<1>8. Filing(e) = {}
  BY <1>7, FilingCounted, FS_EmptySet
<1>9. Passes(e) /\ (TopicOf[e] \in subscribers \/ DeadLetters(e, "replayer"))
  BY <1>2 DEF OnlyGrantedOnFile, Passes, DeadLetters, Attached
<1>10. \A d \in Events : Places(d)' = Places(d)
  <2> TAKE d \in Events
  <2>1. delivered'[d] + Cardinality(Filing(d)')
          = delivered[d] + Cardinality(Filing(d)) + (IF d = e THEN 1 ELSE 0)
    BY <1>1, <1>3, <1>8, <1>9, PublishPlaces
  <2>2. /\ delivered'[d] \in Nat /\ Cardinality(Filing(d)') \in Nat
        /\ Places(d)' = delivered'[d] + Cardinality(Filing(d)') + Copies(dlq, d) + Copies(batch', d)
    <3>1. delivered'[d] \in Nat /\ pushing' \in SUBSET [ev : Events, by : Callers]
      BY <1>5 DEF TypeOK
    <3>2. Cardinality(Filing(d)') \in Nat
      BY <3>1, CallsCounted DEF Filing
    <3> QED
      BY <1>3, <3>1, <3>2 DEF Places, Filing, Copies
  <2> QED
    BY <1>4, <1>6, <2>1, <2>2, PlacesCounted
<1> QED
  BY <1>1, <1>2, <1>3, <1>7, <1>9, <1>10

LEMMA PlaceReplay ==
  ASSUME TypeOK, PlaceInv, OnlyGrantedOnFile, ReplayNext
  PROVE  PlaceInv'
<1> USE DEF PlaceInv
<1>1. PICK e : e = Head(batch).ev
  OBVIOUS
<1>2. /\ e \in Events /\ Publish(e, "replayer") /\ batch' = Tail(batch)
      /\ UNCHANGED <<phase, subscribers, new, dlq, crashes>> /\ phase = "ready"
      /\ batch # <<>> /\ batch \in Seq(Letters) /\ e \in handed
  BY <1>1, ReplayPlaces
<1>10. \A d \in Events : Places(d)' = Places(d)
  BY <1>1, ReplayPlaces
<1>11. handed' = handed
  BY <1>2 DEF Publish
<1>12. OnePlace' /\ LettersKept'
  BY <1>2, <1>10, <1>11, SamePlaces
<1>13. \A i \in DOMAIN batch' : batch'[i].retry = 1 /\ batch'[i].ev \in handed
  <2>1. \A i \in DOMAIN batch' : i + 1 \in DOMAIN batch /\ batch'[i] = batch[i + 1]
    BY <1>2
  <2> QED
    BY <2>1 DEF Filings
<1>14. \A p \in pushing' : p.ev \in handed
  BY <1>2 DEF Filings, Publish
<1>15. \A d \in new' : Places(d)' = 0 /\ d \notin handed'
  BY <1>2, <1>10, <1>11 DEF Filings, TypeOK
<1> QED
  BY <1>2, <1>11, <1>12, <1>13, <1>14, <1>15 DEF Filings

LEMMA CrashPlaces ==
  ASSUME TypeOK, Crash
  PROVE  \A d \in Events : Places(d)' <= Places(d) /\ Places(d)' \in Nat /\ Places(d) \in Nat
<1>1. /\ pushing' = {} /\ batch' = <<>> /\ crashes' # 0
      /\ UNCHANGED <<new, dlq, delivered, handed>>
  BY EventBusAssumption DEF Crash, TypeOK
<1>2. \A d \in Events : Places(d)' = delivered[d] + Copies(dlq, d)
  <2> TAKE d \in Events
  <2>1. Filing(d)' = {} /\ Cardinality({}) = 0 /\ Copies(batch', d) = 0
    BY <1>1, NoCopies, FS_EmptySet DEF Filing
  <2>2. Places(d)' = delivered[d] + Cardinality(Filing(d)') + Copies(dlq, d) + Copies(batch', d)
    BY <1>1 DEF Places, Filing, Copies
  <2> QED
    BY <2>1, <2>2, PlacesCounted
<1>3. \A d \in Events : Places(d)' <= Places(d) /\ Places(d)' \in Nat /\ Places(d) \in Nat
  BY <1>2, PlacesCounted
<1> QED
  BY <1>3

LEMMA PlaceCrash ==
  ASSUME TypeOK, PlaceInv, Crash
  PROVE  PlaceInv'
<1> USE DEF PlaceInv
<1>1. /\ pushing' = {} /\ batch' = <<>> /\ crashes' # 0
      /\ UNCHANGED <<new, dlq, delivered, handed>>
  BY EventBusAssumption DEF Crash, TypeOK
<1>3. \A d \in Events : Places(d)' <= Places(d) /\ Places(d)' \in Nat /\ Places(d) \in Nat
  BY CrashPlaces
<1>4. OnePlace' /\ LettersKept'
  BY <1>1, <1>3 DEF OnePlace, LettersKept
<1>5. \A d \in new' : Places(d)' = 0 /\ d \notin handed'
  BY <1>1, <1>3 DEF Filings, TypeOK
<1> QED
  BY <1>1, <1>4, <1>5 DEF Filings

LEMMA PlaceInit == Init => PlaceInv
<1> SUFFICES ASSUME Init PROVE PlaceInv
  OBVIOUS
<1>1. \A e \in Events : Places(e) = 0
  <2> TAKE e \in Events
  <2>1. Copies(dlq, e) = 0 /\ Copies(batch, e) = 0 /\ delivered[e] = 0
    BY NoCopies DEF Init
  <2>2. {p \in pushing : p.ev = e} = {}
    BY DEF Init
  <2>3. Cardinality({p \in pushing : p.ev = e}) = 0
    BY <2>2, FS_EmptySet
  <2> QED
    BY <2>1, <2>3 DEF Places
<1> QED
  BY <1>1 DEF Init, PlaceInv, Filings, OnePlace, LettersKept

LEMMA PlaceInvariant == Spec => []PlaceInv
<1>1. TypeOK /\ OnlyGrantedOnFile /\ PlaceInv /\ [Next]_vars => PlaceInv'
  <2> SUFFICES ASSUME TypeOK, OnlyGrantedOnFile, PlaceInv, [Next]_vars PROVE PlaceInv'
    OBVIOUS
  <2>1. CASE Initialize
    BY <2>1, NothingMoves DEF Initialize, Attached, PlaceInv, Filings
  <2>2. CASE SetRbac
    BY <2>2, NothingMoves DEF SetRbac, PlaceInv, Filings
  <2>3. CASE AttachDlq
    BY <2>3, NothingMoves DEF AttachDlq, PlaceInv, Filings
  <2>4. ASSUME NEW t \in Topics, Subscribe(t) PROVE PlaceInv'
    BY <2>4, NothingMoves DEF Subscribe
  <2>5. CASE Restart
    BY <2>5, NothingMoves DEF Restart, PlaceInv, Filings
  <2>6. CASE UNCHANGED vars
    BY <2>6, NothingMoves DEF vars
  <2> QED
    BY <2>1, <2>2, <2>3, <2>4, <2>5, <2>6,
       PlaceModule, PlacePush, PlaceWakes, PlaceReplay, PlaceCrash DEF Next
<1> QED
  BY <1>1, PlaceInit, BusTypeCorrect, DeniedNeverFiled, PTL DEF Spec

\* An event is never in two places: no replay delivers what was delivered or
\* is still on file, wherever the process dies.
THEOREM NowhereTwice == Spec => []OnePlace
  BY PlaceInvariant, PTL DEF PlaceInv

\* While the process lives no letter that publish handed over, and that the
\* limit entitles to another try, is lost: not between pop_all and the publish
\* of the replay, not between that publish and the next push.
THEOREM NoLetterLost == Spec => []DeadLetterKept
<1>1. PlaceInv => DeadLetterKept
  BY DEF PlaceInv, LettersKept, DeadLetterKept
<1> QED
  BY <1>1, PlaceInvariant, PTL

-----------------------------------------------------------------------------
(* The bus implements Mailbox.  What becomes of an event is told by where  *)
(* it is, which the lemmas above count.                                    *)

Fates == [e \in Events |-> FateOf(e)]

Stage == IF phase \in {"created", "initialized"} THEN "open" ELSE phase

\* A step is one of Mailbox's or leaves all it has as it was.
Mapped == Mail!Next \/ UNCHANGED Mail!vars

\* What has a place is not new.
LEMMA NewIsNowhere ==
  ASSUME PlaceInv, NEW e, e \in new
  PROVE  Places(e) = 0
  BY DEF PlaceInv, Filings

\* Nothing becomes of an event that stays where it is counted.
LEMMA FateSame ==
  ASSUME UNCHANGED <<new, delivered>>, \A e \in Events : Places(e)' = Places(e)
  PROVE  Fates' = Fates
<1>1. \A e \in Events : FateOf(e)' = FateOf(e)
  BY DEF FateOf
<1> QED
  BY <1>1 DEF Fates

\* What becomes of one event, the others staying where they are.
LEMMA FateBecomes ==
  ASSUME NEW e \in Events, NEW f, FateOf(e)' = f,
         \A d \in Events \ {e} : /\ (d \in new)' <=> d \in new
                                 /\ delivered'[d] = delivered[d] /\ Places(d)' = Places(d)
  PROVE  Fates' = [Fates EXCEPT ![e] = f]
<1>1. \A d \in Events \ {e} : FateOf(d)' = FateOf(d)
  BY DEF FateOf
<1> QED
  BY <1>1 DEF Fates

LEMMA MapsBoot ==
  ASSUME TypeOK, Initialize \/ SetRbac \/ AttachDlq \/ Restart
  PROVE  Mapped
<1>1. UNCHANGED <<new, delivered, retries, subscribers>> /\ \A e \in Events : Places(e)' = Places(e)
  BY DEF Initialize, SetRbac, AttachDlq, Restart, Attached, Places, Copies
<1>2. Fates' = Fates
  BY <1>1, FateSame
<1>3. \/ Stage' = Stage
      \/ <<Stage, Stage'>> \in {<<"down", "open">>, <<"open", "guarded">>, <<"guarded", "ready">>}
  BY DEF Initialize, SetRbac, AttachDlq, Restart, Stage
<1> QED
  BY <1>1, <1>2, <1>3 DEF Mapped, Mail!Next, Mail!Boot, Mail!vars, Stage, Fates

LEMMA MapsSubscribe ==
  ASSUME NEW t \in Topics, Subscribe(t)
  PROVE  Mapped
<1>1. /\ UNCHANGED <<new, delivered, retries, phase>> /\ \A e \in Events : Places(e)' = Places(e)
      /\ subscribers' = subscribers \cup {t} /\ phase # "down"
  BY DEF Subscribe, Places, Copies
<1>2. Fates' = Fates
  BY <1>1, FateSame
<1>3. Mail!Subscribe(t)
  BY <1>1, <1>2 DEF Mail!Subscribe, Fates
<1> QED
  BY <1>3 DEF Mapped, Mail!Next

\* An event that is new or a letter is delivered; for a letter that is a retry.
LEMMA MapsDelivery ==
  ASSUME TypeOK, NEW e \in Events, delivered[e] = 0,
         \/ FateOf(e) = "new" /\ UNCHANGED retries
         \/ FateOf(e) = "letter" /\ retries' = [retries EXCEPT ![e] = CountRetry(@)],
         phase # "down", Passes(e), TopicOf[e] \in subscribers, e \notin new',
         delivered' = [delivered EXCEPT ![e] = @ + 1], UNCHANGED <<phase, subscribers>>,
         \A d \in Events \ {e} : ((d \in new)' <=> d \in new) /\ Places(d)' = Places(d)
  PROVE  Mapped
<1>1. delivered'[e] = 1 /\ \A d \in Events \ {e} : delivered'[d] = delivered[d]
  BY DEF TypeOK
<1>2. FateOf(e)' = "delivered"
  BY <1>1 DEF FateOf
<1>3. Fates' = [Fates EXCEPT ![e] = "delivered"]
  BY <1>1, <1>2, FateBecomes
<1>4. Mail!Allowed(e)
  BY EventBusAssumption DEF Mail!Allowed, Passes, Guarded, TypeOK
<1>5. \/ Fates[e] = "new" /\ UNCHANGED retries
      \/ Fates[e] = "letter" /\ Mail!CountRetry(e)
  BY DEF Fates, CountRetry, Mail!CountRetry
<1>6. Mail!Deliver(e)
  BY <1>3, <1>4, <1>5 DEF Mail!Deliver, Mail!Becomes, Fates
<1> QED
  BY <1>6 DEF Mapped, Mail!Next

LEMMA MapsModule ==
  ASSUME TypeOK, PlaceInv, NEW e \in Events, ModulePublishes(e)
  PROVE  Mapped
<1>1. /\ e \in new /\ Places(e) = 0 /\ delivered[e] = 0
      /\ \A d \in Events : Places(d)' = Places(d)
           + (IF d = e /\ Passes(e) /\ (TopicOf[e] \in subscribers \/ DeadLetters(e, "module"))
              THEN 1 ELSE 0)
  BY ModulePlaces
<1>2. /\ phase # "down" /\ Publish(e, "module") /\ new' = new \ {e}
      /\ UNCHANGED <<phase, subscribers, dlq, batch, retries, crashes>>
  BY DEF ModulePublishes
<1>3. FateOf(e) = "new" /\ Fates[e] = "new"
  BY <1>1 DEF FateOf, Fates
<1>4. \A d \in Events \ {e} : ((d \in new)' <=> d \in new) /\ Places(d)' = Places(d)
  <2>1. \A d \in Events : Places(d) \in Nat
    BY PlacesCounted
  <2> QED
    BY <1>1, <1>2, <2>1
<1>5. CASE Passes(e) /\ TopicOf[e] \in subscribers
  <2>1. delivered' = [delivered EXCEPT ![e] = @ + 1]
    BY <1>2, <1>5 DEF Publish
  <2> QED
    BY <1>1, <1>2, <1>3, <1>4, <1>5, <2>1, MapsDelivery
<1>6. CASE DeadLetters(e, "module")
  <2>1. delivered' = delivered /\ ClassOf[e] = "granted" /\ phase = "ready"
        /\ Passes(e) /\ TopicOf[e] \notin subscribers
    BY <1>2, <1>6, EventBusAssumption DEF Publish, DeadLetters, Passes, Attached, Guarded
  <2>2. Places(e)' = 1
    BY <1>1, <1>6, <2>1
  <2>3. FateOf(e)' = "letter"
    BY <1>1, <1>2, <2>1, <2>2 DEF FateOf
  <2>4. Fates' = [Fates EXCEPT ![e] = "letter"]
    BY <1>4, <2>1, <2>3, FateBecomes
  <2>5. Mail!Keep(e)
    BY <1>2, <1>3, <2>1, <2>4 DEF Mail!Keep, Mail!Becomes, Fates
  <2> QED
    BY <2>5 DEF Mapped, Mail!Next
<1>7. CASE ~(Passes(e) /\ TopicOf[e] \in subscribers) /\ ~DeadLetters(e, "module")
  <2>1. delivered' = delivered
    BY <1>2, <1>7 DEF Publish
  <2>2. Places(e)' = 0
    BY <1>1, <1>7
  <2>3. FateOf(e)' = "dropped"
    BY <1>1, <1>2, <2>1, <2>2 DEF FateOf
  <2>4. Fates' = [Fates EXCEPT ![e] = "dropped"]
    BY <1>4, <2>1, <2>3, FateBecomes
  <2>5. \/ ~Mail!Allowed(e)
        \/ TopicOf[e] \notin subscribers /\ (ClassOf[e] # "granted" \/ phase # "ready")
    BY <1>7, EventBusAssumption
    DEF Mail!Allowed, DeadLetters, Passes, Attached, Guarded, TypeOK
  <2>6. Mail!Drop(e)
    BY <1>2, <1>3, <2>1, <2>4, <2>5 DEF Mail!Drop, Mail!Becomes, Fates
  <2> QED
    BY <2>6 DEF Mapped, Mail!Next
<1> QED
  BY <1>5, <1>6, <1>7

LEMMA MapsReplay ==
  ASSUME TypeOK, PlaceInv, OnlyGrantedOnFile, ReplayNext
  PROVE  Mapped
<1>1. PICK e : e = Head(batch).ev
  OBVIOUS
<1>2. /\ e \in Events /\ Publish(e, "replayer") /\ phase = "ready"
      /\ UNCHANGED <<phase, subscribers, new, dlq, crashes>>
      /\ delivered[e] = 0 /\ Places(e) = 1 /\ Passes(e)
      /\ retries' = [retries EXCEPT ![e] = CountRetry(@)]
      /\ \A d \in Events : Places(d)' = Places(d)
  BY <1>1, ReplayPlaces
<1>3. e \notin new /\ FateOf(e) = "letter"
  <2>1. e \notin new
    BY <1>2, NewIsNowhere
  <2> QED
    BY <1>2, <2>1 DEF FateOf
<1>4. CASE TopicOf[e] \in subscribers
  <2>1. delivered' = [delivered EXCEPT ![e] = @ + 1]
    BY <1>2, <1>4 DEF Publish
  <2> QED
    BY <1>2, <1>3, <1>4, <2>1, MapsDelivery
<1>5. CASE TopicOf[e] \notin subscribers
  <2>1. delivered' = delivered
    BY <1>2, <1>5 DEF Publish
  <2>2. Fates' = Fates
    BY <1>2, <2>1, FateSame
  <2>3. Fates[e] = "letter"
    BY <1>2, <1>3 DEF Fates
  <2>4. Mail!CountRetry(e)
    BY <1>2 DEF CountRetry, Mail!CountRetry
  <2>5. Mail!Again(e)
    BY <1>2, <1>5, <2>1, <2>2, <2>3, <2>4 DEF Mail!Again, Fates
  <2> QED
    BY <1>2, <2>5 DEF Mapped, Mail!Next
<1> QED
  BY <1>4, <1>5

LEMMA MapsCrash ==
  ASSUME TypeOK, PlaceInv, Crash
  PROVE  Mapped
<1> DEFINE L == {e \in Events : FateOf(e) = "letter" /\ Places(e)' = 0}
<1>1. phase # "down" /\ phase' = "down" /\ subscribers' = {} /\ UNCHANGED <<new, delivered, retries>>
  BY DEF Crash
<1>2. ASSUME NEW e \in Events
      PROVE  FateOf(e)' = IF e \in L THEN "dropped" ELSE FateOf(e)
  <2>1. Places(e)' <= Places(e) /\ Places(e)' \in Nat /\ Places(e) \in Nat
    BY CrashPlaces
  <2>2. delivered[e] \in Nat
    BY DEF TypeOK
  <2> QED
    BY <1>1, <2>1, <2>2 DEF FateOf
<1>3. Fates' = [e \in Events |-> IF e \in L THEN "dropped" ELSE Fates[e]]
  BY <1>2 DEF Fates
<1>4. \A e \in L : Fates[e] = "letter"
  BY DEF Fates
<1>5. L \in SUBSET Events
  OBVIOUS
<1> HIDE DEF L
<1>6. Mail!Die(L)
  BY <1>1, <1>3, <1>4, <1>5 DEF Mail!Die, Fates
<1> QED
  BY <1>5, <1>6 DEF Mapped, Mail!Next

\* The bus implements Mailbox: a letter is tried again until its topic is taken
\* or its retries are used up, is delivered once, and is lost otherwise only if
\* the process ends before it is on file.
THEOREM BusIsAMailbox == Spec => ImplementsMailbox
<1>1. Init => Mail!Init
  <2> SUFFICES ASSUME Init PROVE Mail!Init
    OBVIOUS
  <2>1. Fates = [e \in Events |-> "new"]
    BY DEF Init, Fates, FateOf
  <2> QED
    BY <2>1 DEF Init, Mail!Init, Fates
<1>2. TypeOK /\ OnlyGrantedOnFile /\ PlaceInv /\ [Next]_vars => [Mail!Next]_Mail!vars
  <2> SUFFICES ASSUME TypeOK, OnlyGrantedOnFile, PlaceInv, [Next]_vars PROVE Mapped
    BY DEF Mapped
  <2>1. ASSUME UNCHANGED <<new, delivered, retries, phase, subscribers>>,
               \A e \in Events : Places(e)' = Places(e)
        PROVE  Mapped
    <3>1. Fates' = Fates
      BY <2>1, FateSame
    <3> QED
      BY <2>1, <3>1 DEF Mapped, Mail!vars, Fates
  <2>2. ASSUME NEW p \in [ev : Events, by : Callers], Push(p) PROVE Mapped
    BY <2>1, <2>2, PushPlaces DEF Push
  <2>3. CASE ReplayerWakes
    BY <2>1, <2>3, WakesPlaces DEF ReplayerWakes
  <2>4. CASE UNCHANGED vars
    BY <2>1, <2>4 DEF vars, Places, Copies
  <2> QED
    BY <2>2, <2>3, <2>4, MapsBoot, MapsSubscribe, MapsModule, MapsReplay, MapsCrash DEF Next
<1> QED
  BY <1>1, <1>2, BusTypeCorrect, DeniedNeverFiled, PlaceInvariant, PTL
  DEF Spec, ImplementsMailbox, Mail!Spec
=============================================================================
