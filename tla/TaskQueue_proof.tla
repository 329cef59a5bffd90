--------------------------- MODULE TaskQueue_proof ---------------------------
(***************************************************************************)
(* What the task queue store keeps, and in which order rows leave it, for  *)
(* every number of chats and prompts, every cap and every time to live.    *)
(*                                                                         *)
(* The store's helpers are recursions over a list. The prover has no       *)
(* induction of its own, so it is derived here for a SET of numbers or of  *)
(* sequences, from the well-foundedness of < on Nat: the set is the one of *)
(* all those the claim holds for.                                          *)
(***************************************************************************)
EXTENDS TaskQueue, SequenceTheorems, FiniteSetTheorems, WellFoundedInduction, TLAPS

-----------------------------------------------------------------------------
(* Induction and recursion.                                                *)

\* A set that holds 0 and the successor of each of its numbers holds them all.
LEMMA CountUp ==
  ASSUME NEW P, 0 \in P, \A n \in Nat : n \in P => n + 1 \in P
  PROVE  Nat \subseteq P
<1>1. SUFFICES ASSUME Nat \ P # {} PROVE FALSE
  OBVIOUS
<1>2. PICK m \in Nat \ P : \A k \in Nat \ P : ~(<<k, m>> \in OpToRel(<, Nat))
  BY <1>1, NatLessThanWellFounded, WFMin, Nat \ P \subseteq Nat
<1>3. \A k \in Nat \ P : ~(k < m)
  BY <1>2 DEF OpToRel
<1>4. m # 0 /\ m - 1 \in Nat
  OBVIOUS
<1>5. m - 1 \in P
  BY <1>3, <1>4
<1> QED
  BY <1>4, <1>5

\* A set that holds <<>> and every extension of its sequences holds them all.
LEMMA AppendUp ==
  ASSUME NEW S, NEW P, <<>> \in P,
         \A s \in Seq(S), x \in S : s \in P => Append(s, x) \in P
  PROVE  Seq(S) \subseteq P
<1> DEFINE Q == {n \in Nat : \A s \in Seq(S) : Len(s) = n => s \in P}
<1>1. 0 \in Q
  BY EmptySeq
<1>2. ASSUME NEW n \in Nat, n \in Q PROVE n + 1 \in Q
  <2>1. SUFFICES ASSUME NEW s \in Seq(S), Len(s) = n + 1 PROVE s \in P
    OBVIOUS
  <2>2. s # <<>>
    BY <2>1
  <2>3. PICK r \in Seq(S), x \in S : s = Append(r, x)
    BY <2>2, SequenceEmptyOrAppend
  <2>4. Len(r) = n
    BY <2>1, <2>3, AppendProperties, LenProperties
  <2> QED
    BY <1>2, <2>3, <2>4
<1>3. Nat \subseteq Q
  BY <1>1, <1>2, CountUp
<1> QED
  BY <1>3, LenProperties

\* f is the function on 0..N with this first value and this step.
RecursesTo(f, S, N, start, step) ==
  /\ f \in [0..N -> S]
  /\ f[0] = start
  /\ \A n \in 1..N : f[n] = step[n][f[n - 1]]

\* A function given by a first value and a step exists.
LEMMA PrefixRecursion ==
  ASSUME NEW S, NEW N \in Nat, NEW start \in S,
         NEW step \in [1..N -> [S -> S]]
  PROVE  \E f : RecursesTo(f, S, N, start, step)
<1> DEFINE P == {m \in Nat : m <= N =>
                   \E f \in [0..m -> S] :
                      f[0] = start /\ \A n \in 1..m : f[n] = step[n][f[n - 1]]}
<1>1. 0 \in P
  <2> DEFINE f == [n \in 0..0 |-> start]
  <2>1. f \in [0..0 -> S] /\ f[0] = start
    OBVIOUS
  <2>2. \A n \in 1..0 : f[n] = step[n][f[n - 1]]
    OBVIOUS
  <2> HIDE DEF f
  <2> QED
    BY <2>1, <2>2
<1>2. ASSUME NEW m \in Nat, m \in P PROVE m + 1 \in P
  <2>1. SUFFICES ASSUME m + 1 <= N
                 PROVE  \E f \in [0..(m + 1) -> S] :
                          f[0] = start /\ \A n \in 1..(m + 1) : f[n] = step[n][f[n - 1]]
    OBVIOUS
  <2>2. PICK f \in [0..m -> S] :
           f[0] = start /\ \A n \in 1..m : f[n] = step[n][f[n - 1]]
    BY <1>2, <2>1
  <2> DEFINE g == [n \in 0..(m + 1) |-> IF n = m + 1 THEN step[m + 1][f[m]] ELSE f[n]]
  <2>3. g \in [0..(m + 1) -> S]
    BY <2>1
  <2>4. g[0] = start
    BY <2>2
  <2>5. ASSUME NEW n \in 1..(m + 1) PROVE g[n] = step[n][g[n - 1]]
    BY <2>2
  <2> HIDE DEF g
  <2> QED
    BY <2>3, <2>4, <2>5
<1>3. Nat \subseteq P
  BY <1>1, <1>2, CountUp
<1> QED
  BY <1>3 DEF RecursesTo

-----------------------------------------------------------------------------
(* Only: what a list comprehension returns.                                *)

\* The recursion inside Only: the comprehension of each prefix of s.
Kept(s, K) ==
  CHOOSE upTo : upTo =
    [n \in 0..Len(s) |->
       IF n = 0 THEN <<>>
       ELSE IF n \in K THEN Append(upTo[n - 1], s[n]) ELSE upTo[n - 1]]

\* The recursion defines a function.
LEMMA KeptRecursion ==
  ASSUME NEW S, NEW s \in Seq(S), NEW K
  PROVE  /\ Kept(s, K) \in [0..Len(s) -> Seq(S)]
         /\ Kept(s, K)[0] = <<>>
         /\ \A n \in 1..Len(s) :
              Kept(s, K)[n] = IF n \in K THEN Append(Kept(s, K)[n - 1], s[n])
                                         ELSE Kept(s, K)[n - 1]
<1> DEFINE N == Len(s)
           step == [n \in 1..N |-> [r \in Seq(S) |-> IF n \in K THEN Append(r, s[n]) ELSE r]]
           Body(u) == [n \in 0..N |->
                         IF n = 0 THEN <<>>
                         ELSE IF n \in K THEN Append(u[n - 1], s[n]) ELSE u[n - 1]]
<1>1. N \in Nat /\ \A n \in 1..N : s[n] \in S
  BY LenProperties, ElementOfSeq
<1>2. step \in [1..N -> [Seq(S) -> Seq(S)]]
  BY <1>1, AppendProperties
<1>3. PICK f \in [0..N -> Seq(S)] :
         f[0] = <<>> /\ \A n \in 1..N : f[n] = step[n][f[n - 1]]
  <2>1. <<>> \in Seq(S)
    BY EmptySeq
  <2> HIDE DEF step, N
  <2>2. \E f : RecursesTo(f, Seq(S), N, <<>>, step)
    BY <1>1, <1>2, <2>1, PrefixRecursion
  <2> QED
    BY <2>2 DEF RecursesTo
<1>4. \A n \in 1..N : f[n - 1] \in Seq(S)
  BY <1>1
<1>5. \A n \in 1..N : f[n] = IF n \in K THEN Append(f[n - 1], s[n]) ELSE f[n - 1]
  BY <1>3, <1>4
<1>6. f = Body(f)
  <2>1. ASSUME NEW n \in 0..N PROVE f[n] = Body(f)[n]
    <3>1. CASE n = 0
      BY <1>3, <3>1
    <3>2. CASE n # 0
      <4>1. n \in 1..N
        BY <3>2, <1>1
      <4> QED
        BY <1>5, <4>1, <3>2
    <3> QED
      BY <3>1, <3>2
  <2> QED
    BY <2>1
<1>7. Kept(s, K) = Body(Kept(s, K))
  BY <1>6 DEF Kept
<1> QED
  <2> DEFINE g == Kept(s, K)
      P == {m \in Nat : m <= N => g[m] = f[m]}
  <2>1. 0 \in P
    BY <1>1, <1>3, <1>7
  <2>2. ASSUME NEW m \in Nat, m \in P PROVE m + 1 \in P
    <3>1. SUFFICES ASSUME m + 1 <= N PROVE g[m + 1] = f[m + 1]
      OBVIOUS
    <3>2. g[m] = f[m]
      BY <2>2, <3>1, <1>1
    <3>3. g[m + 1] = IF m + 1 \in K THEN Append(g[m], s[m + 1]) ELSE g[m]
      <4>1. m + 1 \in 0..N /\ m + 1 # 0 /\ (m + 1) - 1 = m
        BY <3>1, <1>1
      <4> HIDE DEF g
      <4>2. g = Body(g)
        BY <1>7 DEF g
      <4> QED
        BY <4>1, <4>2
    <3> QED
      BY <3>1, <3>2, <3>3, <1>5, <1>1
  <2>3. Nat \subseteq P
    BY <2>1, <2>2, CountUp
  <2>4. DOMAIN g = 0..N
    BY <1>7
  <2>5. \A n \in 0..N : g[n] = f[n]
    BY <2>3, <1>1
  <2>6. \A n \in 1..N : g[n] = IF n \in K THEN Append(g[n - 1], s[n]) ELSE g[n - 1]
    BY <1>5, <2>5, <1>1
  <2>7. g = [n \in 0..N |-> g[n]]
    BY <1>7
  <2> HIDE DEF g
  <2>8. g \in [0..N -> Seq(S)]
    BY <2>5, <2>7
  <2> QED
    BY <2>5, <2>6, <2>8, <1>1, <1>3 DEF g

LEMMA OnlyIsKept ==
  ASSUME NEW S, NEW s \in Seq(S), NEW K
  PROVE  Only(s, K) = Kept(s, K)[Len(s)] /\ Only(s, K) \in Seq(S)
<1> DEFINE N == Len(s)
           P == {m \in Nat : m <= N => Kept(s, K)[m] = SubSeq(s, 1, m)}
<1>1. N \in Nat /\ DOMAIN s = 1..N /\ \A n \in 1..N : s[n] \in S
  BY LenProperties, ElementOfSeq
<1>4. \A n \in 1..N : Kept(s, K)[n] = IF n \in K THEN Append(Kept(s, K)[n - 1], s[n])
                                                ELSE Kept(s, K)[n - 1]
  BY KeptRecursion
<1>2. CASE K # DOMAIN s
  <2>1. Only(s, K) = Kept(s, K)[N]
    BY <1>2 DEF Only, Kept
  <2> QED
    BY <2>1, <1>1, KeptRecursion
<1>3. CASE K = DOMAIN s
  <2>1. 0 \in P
    BY <1>1, KeptRecursion, SubSeqEmpty
  <2>2. ASSUME NEW m \in Nat, m \in P PROVE m + 1 \in P
    <3>1. SUFFICES ASSUME m + 1 <= N
                   PROVE  Kept(s, K)[m + 1] = SubSeq(s, 1, m + 1)
      OBVIOUS
    <3>2. Kept(s, K)[m + 1] = Append(Kept(s, K)[m], s[m + 1])
      <4>1. m + 1 \in 1..Len(s) /\ (m + 1) - 1 = m
        BY <3>1, <1>1
      <4> QED
        BY <4>1, <1>1, <1>3, <1>4
    <3>3. Append(SubSeq(s, 1, m), s[m + 1]) = SubSeq(s, 1, m + 1)
      BY <1>1, <3>1
    <3> QED
      BY <2>2, <3>1, <3>2, <3>3
  <2>3. Nat \subseteq P
    BY <2>1, <2>2, CountUp
  <2>4. Kept(s, K)[N] = SubSeq(s, 1, N)
    BY <2>3, <1>1
  <2> QED
    BY <2>4, <1>3, SubSeqFull DEF Only
<1> QED
  BY <1>2, <1>3

\* s and t, and K and L, agree on their first M places.
Agree(s, t, K, L, M) ==
  /\ M \in Nat /\ M <= Len(s) /\ M <= Len(t)
  /\ \A n \in 1..M : s[n] = t[n] /\ (n \in K <=> n \in L)

\* A prefix decides what the comprehension makes of it.
LEMMA KeptAgrees ==
  ASSUME NEW S, NEW s \in Seq(S), NEW t \in Seq(S), NEW K, NEW L, NEW M,
         Agree(s, t, K, L, M)
  PROVE  Kept(s, K)[M] = Kept(t, L)[M]
<1> DEFINE P == {m \in Nat : m <= M => Kept(s, K)[m] = Kept(t, L)[m]}
<1>5. M \in Nat /\ M <= Len(s) /\ M <= Len(t)
      /\ \A n \in 1..M : s[n] = t[n] /\ (n \in K <=> n \in L)
  BY DEF Agree
<1>1. /\ Len(s) \in Nat /\ Len(t) \in Nat
      /\ \A n \in 1..Len(s) : Kept(s, K)[n] = IF n \in K THEN Append(Kept(s, K)[n - 1], s[n])
                                              ELSE Kept(s, K)[n - 1]
      /\ \A n \in 1..Len(t) : Kept(t, L)[n] = IF n \in L THEN Append(Kept(t, L)[n - 1], t[n])
                                              ELSE Kept(t, L)[n - 1]
  BY KeptRecursion, LenProperties
<1>2. 0 \in P
  BY KeptRecursion
<1>3. ASSUME NEW m \in Nat, m \in P PROVE m + 1 \in P
  <2>1. SUFFICES ASSUME m + 1 <= M PROVE Kept(s, K)[m + 1] = Kept(t, L)[m + 1]
    OBVIOUS
  <2>2. /\ m + 1 \in 1..Len(s) /\ m + 1 \in 1..Len(t) /\ m + 1 \in 1..M
        /\ (m + 1) - 1 = m /\ m <= M
    BY <2>1, <1>1, <1>5
  <2> QED
    BY <1>1, <1>3, <1>5, <2>2
<1>4. Nat \subseteq P
  BY <1>2, <1>3, CountUp
<1> QED
  BY <1>4, <1>5

-----------------------------------------------------------------------------
(* A comprehension whose condition is a set of values.                     *)

Filter(s, V) == Only(s, {i \in DOMAIN s : s[i] \in V})

LEMMA FilterEmpty ==
  ASSUME NEW S, NEW V
  PROVE  Filter(<<>>, V) = <<>>
<1> DEFINE K == {i \in DOMAIN <<>> : <<>>[i] \in V}
<1>1. SUFFICES ASSUME NEW e \in Seq(S), Len(e) = 0 PROVE Only(e, K) = <<>>
  BY EmptySeq DEF Filter
<1>2. Only(e, K) = Kept(e, K)[Len(e)] /\ Kept(e, K)[0] = <<>>
  BY OnlyIsKept, KeptRecursion
<1> QED
  BY <1>1, <1>2

LEMMA FilterAppend ==
  ASSUME NEW S, NEW s \in Seq(S), NEW x \in S, NEW V
  PROVE  /\ Filter(s, V) \in Seq(S)
         /\ Filter(Append(s, x), V) =
              IF x \in V THEN Append(Filter(s, V), x) ELSE Filter(s, V)
<1> DEFINE t == Append(s, x)
           K == {i \in DOMAIN s : s[i] \in V}
           L == {i \in DOMAIN t : t[i] \in V}
<1>1. /\ t \in Seq(S) /\ Len(t) = Len(s) + 1 /\ Len(s) \in Nat
      /\ DOMAIN t = 1..Len(t) /\ DOMAIN s = 1..Len(s)
      /\ t[Len(t)] = x
      /\ \A n \in 1..Len(s) : t[n] = s[n]
  BY AppendProperties, LenProperties
<1> HIDE DEF t
<1>2. Filter(s, V) = Kept(s, K)[Len(s)] /\ Filter(s, V) \in Seq(S)
  BY OnlyIsKept DEF Filter
<1>3. Filter(t, V) = Kept(t, L)[Len(t)]
  BY OnlyIsKept, <1>1 DEF Filter
<1>4. Agree(s, t, K, L, Len(s))
  BY <1>1 DEF Agree
<1> HIDE DEF K, L
<1>5. Kept(s, K)[Len(s)] = Kept(t, L)[Len(s)]
  BY <1>1, <1>4, KeptAgrees
<1>6. /\ Len(t) \in 1..Len(t) /\ Len(t) - 1 = Len(s)
  BY <1>1
<1>7. Kept(t, L)[Len(t)] = IF Len(t) \in L THEN Append(Kept(t, L)[Len(s)], t[Len(t)])
                                           ELSE Kept(t, L)[Len(s)]
  BY <1>1, <1>6, KeptRecursion
<1>8. Len(t) \in L <=> x \in V
  BY <1>1, <1>6 DEF L
<1> QED
  BY <1>1, <1>2, <1>3, <1>5, <1>7, <1>8 DEF t

\* Two comprehensions in a row are one.
LEMMA FilterFilter ==
  ASSUME NEW S, NEW s \in Seq(S), NEW V, NEW W
  PROVE  Filter(Filter(s, V), W) = Filter(s, V \cap W)
<1> DEFINE VW == V \cap W
           P == {r \in Seq(S) : Filter(Filter(r, V), W) = Filter(r, VW)}
<1>0. \A x : x \in VW <=> x \in V /\ x \in W
  OBVIOUS
<1> HIDE DEF VW
<1>1. <<>> \in P
  BY FilterEmpty, EmptySeq
<1>2. ASSUME NEW r \in Seq(S), NEW x \in S, r \in P PROVE Append(r, x) \in P
  <2>1. Append(r, x) \in Seq(S)
    BY AppendProperties
  <2>2. Filter(r, V) \in Seq(S)
    BY FilterAppend
  <2>3. Filter(Append(r, x), V) = IF x \in V THEN Append(Filter(r, V), x) ELSE Filter(r, V)
    BY FilterAppend
  <2>4. Filter(Append(r, x), VW) = IF x \in VW THEN Append(Filter(r, VW), x) ELSE Filter(r, VW)
    BY FilterAppend
  <2>5. Filter(Append(Filter(r, V), x), W) =
          IF x \in W THEN Append(Filter(Filter(r, V), W), x) ELSE Filter(Filter(r, V), W)
    BY FilterAppend, <2>2
  <2> QED
    <3>1. CASE x \in V
      <4>1. Filter(Filter(Append(r, x), V), W)
              = IF x \in W THEN Append(Filter(Filter(r, V), W), x) ELSE Filter(Filter(r, V), W)
        BY <3>1, <2>3, <2>5
      <4>2. Filter(Filter(r, V), W) = Filter(r, VW)
        BY <1>2
      <4> QED
        BY <3>1, <1>0, <2>1, <2>4, <4>1, <4>2
    <3>2. CASE x \notin V
      BY <3>2, <1>0, <1>2, <2>1, <2>3, <2>4
    <3> QED
      BY <3>1, <3>2
<1>3. Seq(S) \subseteq P
  BY <1>1, <1>2, AppendUp
<1> QED
  BY <1>3 DEF VW

\* g says where in s each element of the comprehension stood.
StandsAt(g, s, V) ==
  LET r == Filter(s, V) IN
  /\ g \in [1..Len(r) -> DOMAIN s]
  /\ \A k \in 1..Len(r) : r[k] = s[g[k]] /\ s[g[k]] \in V
  /\ \A j, k \in 1..Len(r) : j < k => g[j] < g[k]
  /\ \A i \in DOMAIN s : s[i] \in V => \E k \in 1..Len(r) : g[k] = i

LEMMA FilterPlaces ==
  ASSUME NEW S, NEW s \in Seq(S), NEW V
  PROVE  \E g : StandsAt(g, s, V)
<1> DEFINE P == {r \in Seq(S) : \E g : StandsAt(g, r, V)}
<1>1. <<>> \in P
  <2> DEFINE g == [k \in {} |-> 0]
  <2>1. Filter(<<>>, V) = <<>> /\ <<>> \in Seq(S) /\ Len(<<>>) = 0 /\ DOMAIN <<>> = {}
    BY FilterEmpty, EmptySeq
  <2>2. g \in [{} -> {}] /\ 1..0 = {}
    OBVIOUS
  <2> HIDE DEF g
  <2>3. StandsAt(g, <<>>, V)
    BY <2>1, <2>2 DEF StandsAt
  <2> QED
    BY <2>1, <2>3
<1>2. ASSUME NEW r \in Seq(S), NEW x \in S, r \in P PROVE Append(r, x) \in P
  <2>1. PICK g : StandsAt(g, r, V)
    BY <1>2
  <2> DEFINE t == Append(r, x)
             u == Filter(r, V)
             w == Filter(t, V)
             h == IF x \in V THEN [k \in 1..(Len(u) + 1) |-> IF k <= Len(u) THEN g[k] ELSE Len(t)]
                             ELSE g
  <2>2. /\ t \in Seq(S) /\ Len(t) = Len(r) + 1 /\ Len(r) \in Nat
        /\ DOMAIN t = 1..Len(t) /\ DOMAIN r = 1..Len(r)
        /\ t[Len(t)] = x
        /\ \A n \in 1..Len(r) : t[n] = r[n]
    BY AppendProperties, LenProperties
  <2>3. u \in Seq(S) /\ w = IF x \in V THEN Append(u, x) ELSE u
    BY FilterAppend
  <2>4. Len(u) \in Nat /\ Len(Append(u, x)) = Len(u) + 1
        /\ Append(u, x)[Len(u) + 1] = x
        /\ \A k \in 1..Len(u) : Append(u, x)[k] = u[k]
    BY <2>3, AppendProperties, LenProperties
  <2>5. /\ g \in [1..Len(u) -> 1..Len(r)]
        /\ \A k \in 1..Len(u) : u[k] = r[g[k]] /\ r[g[k]] \in V
        /\ \A j, k \in 1..Len(u) : j < k => g[j] < g[k]
        /\ \A i \in 1..Len(r) : r[i] \in V => \E k \in 1..Len(u) : g[k] = i
    BY <2>1, <2>2 DEF StandsAt
  <2> HIDE DEF t, u, w
  <2>6. CASE x \in V
    <3>1. w = Append(u, x) /\ Len(w) = Len(u) + 1
      BY <2>3, <2>4, <2>6
    <3>2. h = [k \in 1..(Len(u) + 1) |-> IF k <= Len(u) THEN g[k] ELSE Len(t)]
      BY <2>6
    <3> HIDE DEF h
    <3>9. h[Len(u) + 1] = Len(t) /\ \A k \in 1..Len(u) : h[k] = g[k] /\ g[k] \in 1..Len(r)
      <4>1. Len(u) + 1 \in 1..(Len(u) + 1) /\ ~(Len(u) + 1 <= Len(u))
        BY <2>4
      <4>2. \A k \in 1..Len(u) : k \in 1..(Len(u) + 1) /\ k <= Len(u)
        BY <2>4
      <4> QED
        BY <3>2, <4>1, <4>2, <2>5
    <3>8. 1..Len(w) = 1..Len(u) \cup {Len(u) + 1}
      BY <3>1, <2>4
    <3>3. h \in [1..Len(w) -> DOMAIN t]
      BY <3>1, <3>2, <2>2, <2>4, <2>5
    <3>4. \A k \in 1..Len(w) : w[k] = t[h[k]] /\ t[h[k]] \in V
      <4>1. ASSUME NEW k \in 1..Len(w) PROVE w[k] = t[h[k]] /\ t[h[k]] \in V
        <5>1. CASE k <= Len(u)
          <6>1. k \in 1..Len(u) /\ h[k] = g[k] /\ g[k] \in 1..Len(r)
            BY <5>1, <3>8, <3>9, <2>4
          <6> QED
            BY <6>1, <3>1, <2>2, <2>4, <2>5
        <5>2. CASE ~(k <= Len(u))
          <6>1. k = Len(u) + 1 /\ h[k] = Len(t)
            BY <5>2, <3>1, <3>2, <2>4
          <6> QED
            BY <6>1, <3>1, <2>2, <2>4, <2>6
        <5> QED
          BY <5>1, <5>2
      <4> QED
        BY <4>1
    <3>5. \A j, k \in 1..Len(w) : j < k => h[j] < h[k]
      <4>1. ASSUME NEW j \in 1..Len(w), NEW k \in 1..Len(w), j < k PROVE h[j] < h[k]
        <5>1. j \in 1..Len(u) /\ h[j] = g[j] /\ g[j] \in 1..Len(r)
          BY <4>1, <3>8, <3>9, <2>4
        <5>2. CASE k \in 1..Len(u)
          BY <5>1, <5>2, <4>1, <3>9, <2>5
        <5>3. CASE k = Len(u) + 1
          BY <5>1, <5>3, <3>9, <2>2
        <5> QED
          BY <5>2, <5>3, <3>8
      <4> QED
        BY <4>1
    <3>6. ASSUME NEW i \in DOMAIN t, t[i] \in V PROVE \E k \in 1..Len(w) : h[k] = i
      <4>1. CASE i = Len(t)
        BY <4>1, <3>1, <3>2, <2>4
      <4>2. CASE i # Len(t)
        <5>1. i \in 1..Len(r) /\ r[i] \in V
          BY <4>2, <3>6, <2>2
        <5>2. PICK k \in 1..Len(u) : g[k] = i
          BY <5>1, <2>5
        <5> QED
          BY <5>2, <3>1, <3>2, <2>4
      <4> QED
        BY <4>1, <4>2
    <3>7. StandsAt(h, t, V)
      BY <3>3, <3>4, <3>5, <3>6 DEF StandsAt, w
    <3> QED
      BY <3>7, <2>2 DEF t
  <2>7. CASE x \notin V
    <3>1. w = u
      BY <2>3, <2>7
    <3>2. g \in [1..Len(w) -> DOMAIN t]
      BY <3>1, <2>2, <2>5
    <3>3. \A k \in 1..Len(w) : w[k] = t[g[k]] /\ t[g[k]] \in V
      BY <3>1, <2>2, <2>5
    <3>4. ASSUME NEW i \in DOMAIN t, t[i] \in V PROVE \E k \in 1..Len(w) : g[k] = i
      BY <3>1, <3>4, <2>2, <2>5, <2>7
    <3>5. StandsAt(g, t, V)
      BY <3>1, <3>2, <3>3, <3>4, <2>5 DEF StandsAt, w
    <3> QED
      BY <3>5, <2>2 DEF t
  <2> QED
    BY <2>6, <2>7
<1>3. Seq(S) \subseteq P
  BY <1>1, <1>2, AppendUp
<1> QED
  BY <1>3

-----------------------------------------------------------------------------
(* The dict: at most one entry per chat.                                   *)

IsDict(d) ==
  /\ d \in Seq(Dict)
  /\ \A i, j \in DOMAIN d : d[i].chat = d[j].chat => i = j

LEMMA DictFacts ==
  ASSUME NEW d, IsDict(d)
  PROVE  /\ d \in Seq(Dict) /\ Len(d) \in Nat /\ DOMAIN d = 1..Len(d)
         /\ \A i \in DOMAIN d : /\ d[i] \in Dict /\ d[i].chat \in Chats
                                /\ d[i].items \in Seq(Item)
         /\ \A i, j \in DOMAIN d : d[i].chat = d[j].chat => i = j
<1>1. d \in Seq(Dict) /\ \A i, j \in DOMAIN d : d[i].chat = d[j].chat => i = j
  BY DEF IsDict
<1>2. Len(d) \in Nat /\ DOMAIN d = 1..Len(d) /\ \A i \in DOMAIN d : d[i] \in Dict
  BY <1>1, LenProperties, ElementOfSeq
<1>3. \A e \in Dict : e.chat \in Chats /\ e.items \in Seq(Item)
  BY DEF Dict
<1> QED
  BY <1>1, <1>2, <1>3

\* A chat's items are those of its entry, or none.
LEMMA ItemsOfEntry ==
  ASSUME NEW d, IsDict(d), NEW c
  PROVE  /\ \A i \in DOMAIN d : d[i].chat = c => ItemsOf(d, c) = d[i].items
         /\ c \notin Keys(d) => ItemsOf(d, c) = <<>>
         /\ ItemsOf(d, c) \in Seq(Item)
<1> DEFINE hit == {i \in DOMAIN d : d[i].chat = c}
<1>1. \A i \in DOMAIN d : d[i].chat = c => ItemsOf(d, c) = d[i].items
  <2>1. SUFFICES ASSUME NEW i \in DOMAIN d, d[i].chat = c
                 PROVE  ItemsOf(d, c) = d[i].items
    OBVIOUS
  <2>2. hit = {i}
    BY <2>1 DEF IsDict
  <2>3. (CHOOSE j \in hit : TRUE) = i
    BY <2>2
  <2> QED
    BY <2>2, <2>3 DEF ItemsOf
<1>2. c \notin Keys(d) => ItemsOf(d, c) = <<>>
  BY DEF ItemsOf, Keys
<1>3. ItemsOf(d, c) \in Seq(Item)
  <2>1. CASE c \notin Keys(d)
    BY <2>1, <1>2, EmptySeq
  <2>2. CASE c \in Keys(d)
    BY <2>2, <1>1, DictFacts DEF Keys
  <2> QED
    BY <2>1, <2>2
<1> QED
  BY <1>1, <1>2, <1>3

LEMMA EntryWithItems ==
  ASSUME NEW e \in Dict, NEW s \in Seq(Item)
  PROVE  /\ [e EXCEPT !.items = s] \in Dict
         /\ [e EXCEPT !.items = s].chat = e.chat
         /\ [e EXCEPT !.items = s].items = s
BY DEF Dict

\* d[c] = s
LEMMA PutDict ==
  ASSUME NEW d, IsDict(d), NEW c \in Chats, NEW s \in Seq(Item)
  PROVE  /\ IsDict(Put(d, c, s))
         /\ \A b \in Chats : ItemsOf(Put(d, c, s), b) = IF b = c THEN s ELSE ItemsOf(d, b)
<1> DEFINE e == Put(d, c, s)
<1>1. /\ d \in Seq(Dict) /\ Len(d) \in Nat /\ DOMAIN d = 1..Len(d)
      /\ \A i \in DOMAIN d : d[i] \in Dict
      /\ \A i, j \in DOMAIN d : d[i].chat = d[j].chat => i = j
  BY DictFacts
<1>2. CASE c \in Keys(d)
  <2>1. e = [i \in DOMAIN d |-> IF d[i].chat = c THEN [d[i] EXCEPT !.items = s] ELSE d[i]]
    BY <1>2 DEF Put
  <2>2. DOMAIN e = 1..Len(d)
    BY <2>1, <1>1
  <2>3. \A i \in 1..Len(d) :
           /\ e[i] \in Dict /\ e[i].chat = d[i].chat
           /\ e[i].items = IF d[i].chat = c THEN s ELSE d[i].items
    BY <2>1, <1>1, EntryWithItems
  <2> HIDE DEF e
  <2>4. e \in [1..Len(d) -> Dict]
    <3>1. e = [i \in 1..Len(d) |-> e[i]]
      BY <2>1, <1>1
    <3> QED
      BY <3>1, <2>3
  <2>5. e \in Seq(Dict)
    BY <2>4, <1>1
  <2>6. IsDict(e)
    BY <1>1, <2>2, <2>3, <2>5 DEF IsDict
  <2>7. ASSUME NEW b \in Chats
        PROVE  ItemsOf(e, b) = IF b = c THEN s ELSE ItemsOf(d, b)
    <3>1. CASE b \in Keys(d)
      <4>1. PICK i \in 1..Len(d) : d[i].chat = b
        BY <3>1, <1>1 DEF Keys
      <4>2. ItemsOf(d, b) = d[i].items
        BY <4>1, <1>1, ItemsOfEntry
      <4>3. i \in DOMAIN e /\ e[i].chat = b
        BY <4>1, <2>2, <2>3
      <4>4. ItemsOf(e, b) = e[i].items
        BY <4>3, <2>6, ItemsOfEntry
      <4> QED
        BY <4>1, <4>2, <4>4, <2>3
    <3>2. CASE b \notin Keys(d)
      <4>1. b \notin Keys(e)
        BY <3>2, <1>1, <2>2, <2>3 DEF Keys
      <4> QED
        BY <4>1, <3>2, <2>6, <1>2, ItemsOfEntry
    <3> QED
      BY <3>1, <3>2
  <2> QED
    BY <2>6, <2>7 DEF e
<1>3. CASE c \notin Keys(d)
  <2> DEFINE x == [chat |-> c, items |-> s]
  <2>1. e = Append(d, x)
    BY <1>3 DEF Put
  <2>2. x \in Dict /\ x.chat = c /\ x.items = s
    BY DEF Dict
  <2> HIDE DEF e, x
  <2>3. /\ e \in Seq(Dict) /\ Len(e) = Len(d) + 1 /\ e[Len(d) + 1] = x
        /\ \A i \in 1..Len(d) : e[i] = d[i]
    BY <2>1, <2>2, <1>1, AppendProperties
  <2>4. DOMAIN e = 1..(Len(d) + 1)
    BY <2>3, LenProperties
  <2>5. \A i \in 1..Len(d) : d[i].chat # c
    BY <1>1, <1>3 DEF Keys
  <2>6. IsDict(e)
    <3>1. ASSUME NEW i \in DOMAIN e, NEW j \in DOMAIN e, e[i].chat = e[j].chat PROVE i = j
      <4>1. CASE i \in 1..Len(d) /\ j \in 1..Len(d)
        BY <3>1, <4>1, <2>3, <1>1
      <4>2. CASE i \notin 1..Len(d)
        <5>1. i = Len(d) + 1
          BY <4>2, <2>4, <1>1
        <5> QED
          BY <5>1, <3>1, <2>2, <2>3, <2>4, <2>5, <1>1
      <4>3. CASE j \notin 1..Len(d)
        <5>1. j = Len(d) + 1
          BY <4>3, <2>4, <1>1
        <5> QED
          BY <5>1, <3>1, <2>2, <2>3, <2>4, <2>5, <1>1
      <4> QED
        BY <4>1, <4>2, <4>3
    <3> QED
      BY <3>1, <2>3 DEF IsDict
  <2>7. ASSUME NEW b \in Chats
        PROVE  ItemsOf(e, b) = IF b = c THEN s ELSE ItemsOf(d, b)
    <3>1. CASE b = c
      <4>1. Len(d) + 1 \in DOMAIN e /\ e[Len(d) + 1].chat = c /\ e[Len(d) + 1].items = s
        BY <2>2, <2>3, <2>4, <1>1
      <4> QED
        BY <4>1, <3>1, <2>6, ItemsOfEntry
    <3>2. CASE b # c /\ b \in Keys(d)
      <4>1. PICK i \in 1..Len(d) : d[i].chat = b
        BY <3>2, <1>1 DEF Keys
      <4>2. i \in DOMAIN e /\ e[i] = d[i]
        BY <2>3, <2>4, <1>1
      <4> QED
        BY <4>1, <4>2, <3>2, <2>6, <1>1, ItemsOfEntry
    <3>3. CASE b # c /\ b \notin Keys(d)
      <4>1. b \notin Keys(e)
        <5>1. \A i \in DOMAIN e : e[i].chat = c \/ e[i].chat \in Keys(d)
          BY <2>2, <2>3, <2>4, <1>1 DEF Keys
        <5> QED
          BY <5>1, <3>3 DEF Keys
      <4> QED
        BY <4>1, <3>3, <2>6, ItemsOfEntry
    <3> QED
      BY <3>1, <3>2, <3>3
  <2> QED
    BY <2>6, <2>7 DEF e
<1> QED
  BY <1>2, <1>3

\* A comprehension of the entries: an entry keeps its items or goes.
LEMMA FilterDict ==
  ASSUME NEW d, IsDict(d), NEW V
  PROVE  /\ IsDict(Filter(d, V))
         /\ \A i \in DOMAIN d : d[i] \in V => ItemsOf(Filter(d, V), d[i].chat) = d[i].items
         /\ \A i \in DOMAIN d : d[i] \notin V => ItemsOf(Filter(d, V), d[i].chat) = <<>>
         /\ \A c : c \notin Keys(d) => ItemsOf(Filter(d, V), c) = <<>>
<1> DEFINE e == Filter(d, V)
<1>1. /\ d \in Seq(Dict) /\ DOMAIN d = 1..Len(d)
      /\ \A i \in DOMAIN d : d[i] \in Dict
      /\ \A i, j \in DOMAIN d : d[i].chat = d[j].chat => i = j
  BY DictFacts
<1>2. e \in Seq(Dict)
  BY <1>1, OnlyIsKept DEF Filter
<1>3. DOMAIN e = 1..Len(e)
  BY <1>2, LenProperties
<1>4. PICK g : StandsAt(g, d, V)
  BY <1>1, FilterPlaces
<1>5. /\ g \in [DOMAIN e -> DOMAIN d]
      /\ \A k \in DOMAIN e : e[k] = d[g[k]] /\ d[g[k]] \in V
      /\ \A j, k \in DOMAIN e : j < k => g[j] < g[k]
      /\ \A i \in DOMAIN d : d[i] \in V => \E k \in DOMAIN e : g[k] = i
  BY <1>3, <1>4 DEF StandsAt
<1> HIDE DEF e
<1>6. IsDict(e)
  <2>1. ASSUME NEW j \in DOMAIN e, NEW k \in DOMAIN e, e[j].chat = e[k].chat PROVE j = k
    <3>1. g[j] = g[k] /\ g[j] \in Int
      BY <2>1, <1>1, <1>5
    <3>2. j \in Int /\ k \in Int /\ ~(j < k) /\ ~(k < j)
      BY <3>1, <1>3, <1>5
    <3> QED
      BY <3>2
  <2> QED
    BY <2>1, <1>2 DEF IsDict
<1>7. ASSUME NEW i \in DOMAIN d, d[i] \in V PROVE ItemsOf(e, d[i].chat) = d[i].items
  <2>1. PICK k \in DOMAIN e : g[k] = i
    BY <1>5, <1>7
  <2>2. e[k] = d[i]
    BY <1>5, <2>1
  <2> QED
    BY <2>2, <1>6, ItemsOfEntry
<1>8. ASSUME NEW i \in DOMAIN d, d[i] \notin V PROVE ItemsOf(e, d[i].chat) = <<>>
  <2>1. ASSUME NEW k \in DOMAIN e PROVE e[k].chat # d[i].chat
    BY <1>1, <1>5, <1>8
  <2>2. d[i].chat \notin Keys(e)
    BY <2>1 DEF Keys
  <2> QED
    BY <2>2, <1>6, ItemsOfEntry
<1>9. ASSUME NEW c, c \notin Keys(d) PROVE ItemsOf(e, c) = <<>>
  <2>1. c \notin Keys(e)
    BY <1>5, <1>9 DEF Keys
  <2> QED
    BY <2>1, <1>6, ItemsOfEntry
<1> QED
  BY <1>6, <1>7, <1>8, <1>9 DEF e

\* Dropping the empty lists changes no chat's items.
LEMMA NonEmptyDict ==
  ASSUME NEW d, IsDict(d)
  PROVE  /\ IsDict(NonEmpty(d))
         /\ \A c : ItemsOf(NonEmpty(d), c) = ItemsOf(d, c)
<1> DEFINE V == {e \in Dict : e.items # <<>>}
<1>1. NonEmpty(d) = Filter(d, V)
  <2>1. \A i \in DOMAIN d : d[i] \in Dict
    BY DictFacts
  <2>2. {i \in DOMAIN d : d[i].items # <<>>} = {i \in DOMAIN d : d[i] \in V}
    BY <2>1
  <2> QED
    BY <2>2 DEF NonEmpty, Filter
<1>2. ASSUME NEW c PROVE ItemsOf(NonEmpty(d), c) = ItemsOf(d, c)
  <2>1. CASE c \in Keys(d)
    <3>1. PICK i \in DOMAIN d : d[i].chat = c
      BY <2>1 DEF Keys
    <3>2. ItemsOf(d, c) = d[i].items /\ d[i] \in Dict
      BY <3>1, ItemsOfEntry, DictFacts
    <3>3. CASE d[i].items # <<>>
      BY <3>1, <3>2, <3>3, <1>1, FilterDict
    <3>4. CASE d[i].items = <<>>
      BY <3>1, <3>2, <3>4, <1>1, FilterDict
    <3> QED
      BY <3>3, <3>4
  <2>2. CASE c \notin Keys(d)
    BY <2>2, <1>1, FilterDict, ItemsOfEntry
  <2> QED
    BY <2>1, <2>2
<1> QED
  BY <1>1, <1>2, FilterDict

\* d.pop(c)
LEMMA DeleteDict ==
  ASSUME NEW d, IsDict(d), NEW c
  PROVE  /\ IsDict(Delete(d, c))
         /\ \A b : ItemsOf(Delete(d, c), b) = IF b = c THEN <<>> ELSE ItemsOf(d, b)
<1> DEFINE V == {e \in Dict : e.chat # c}
<1>1. Delete(d, c) = Filter(d, V)
  <2>1. \A i \in DOMAIN d : d[i] \in Dict
    BY DictFacts
  <2>2. {i \in DOMAIN d : d[i].chat # c} = {i \in DOMAIN d : d[i] \in V}
    BY <2>1
  <2> QED
    BY <2>2 DEF Delete, Filter
<1>2. ASSUME NEW b
      PROVE  ItemsOf(Delete(d, c), b) = IF b = c THEN <<>> ELSE ItemsOf(d, b)
  <2>1. CASE b \in Keys(d)
    <3>1. PICK i \in DOMAIN d : d[i].chat = b
      BY <2>1 DEF Keys
    <3>2. ItemsOf(d, b) = d[i].items /\ d[i] \in Dict
      BY <3>1, ItemsOfEntry, DictFacts
    <3>3. CASE b # c
      BY <3>1, <3>2, <3>3, <1>1, FilterDict
    <3>4. CASE b = c
      BY <3>1, <3>2, <3>4, <1>1, FilterDict
    <3> QED
      BY <3>3, <3>4
  <2>2. CASE b \notin Keys(d)
    BY <2>2, <1>1, FilterDict, ItemsOfEntry
  <2> QED
    BY <2>1, <2>2
<1> QED
  BY <1>1, <1>2, FilterDict

\* d[c] = s, or its key goes with its last item
LEMMA PutOrDeleteDict ==
  ASSUME NEW d, IsDict(d), NEW c \in Chats, NEW s \in Seq(Item)
  PROVE  /\ IsDict(PutOrDelete(d, c, s))
         /\ \A b \in Chats : ItemsOf(PutOrDelete(d, c, s), b) = IF b = c THEN s ELSE ItemsOf(d, b)
BY PutDict, DeleteDict DEF PutOrDelete

-----------------------------------------------------------------------------
(* The purge, at any time t.                                               *)

Live(t) == {x \in Item : Ttl = 0 \/ x.at >= t - Ttl}
LiveAt(s, t) == Filter(s, Live(t))

PurgedAt(d, t) ==
  IF Ttl = 0 THEN d
  ELSE NonEmpty([i \in DOMAIN d |-> [d[i] EXCEPT !.items = LiveAt(@, t)]])

MarksAt(ip, t) ==
  [c \in Chats |->
     IF InProgressTtl > 0 /\ ip[c] # None /\ ip[c].at < t - InProgressTtl
     THEN None ELSE ip[c]]

LEMMA UnexpiredIsLive ==
  ASSUME NEW s \in Seq(Item)
  PROVE  Unexpired(s) = LiveAt(s, now)
<1>1. \A k \in DOMAIN s : s[k] \in Item
  BY LenProperties, ElementOfSeq
<1>2. {k \in DOMAIN s : Ttl = 0 \/ s[k].at >= now - Ttl} = {k \in DOMAIN s : s[k] \in Live(now)}
  BY <1>1 DEF Live
<1> QED
  BY <1>2 DEF Unexpired, LiveAt, Filter

LEMMA PurgedQueuesIsPurged ==
  ASSUME NEW d, IsDict(d)
  PROVE  PurgedQueues(d) = PurgedAt(d, now)
<1>1. \A i \in DOMAIN d : d[i].items \in Seq(Item)
  BY DictFacts
<1>2. \A i \in DOMAIN d : Unexpired(d[i].items) = LiveAt(d[i].items, now)
  BY <1>1, UnexpiredIsLive
<1>3. [i \in DOMAIN d |-> [d[i] EXCEPT !.items = Unexpired(@)]]
        = [i \in DOMAIN d |-> [d[i] EXCEPT !.items = LiveAt(@, now)]]
  BY <1>2
<1> QED
  BY <1>3 DEF PurgedQueues, PurgedAt

LEMMA PurgedInProgressIsMarks ==
  ASSUME NEW ip
  PROVE  PurgedInProgress(ip) = MarksAt(ip, now)
BY DEF PurgedInProgress, MarksAt

LEMMA LiveSeq ==
  ASSUME NEW s \in Seq(Item), NEW t
  PROVE  LiveAt(s, t) \in Seq(Item) /\ (Ttl = 0 => LiveAt(s, t) = s)
<1>1. LiveAt(s, t) \in Seq(Item)
  BY OnlyIsKept DEF LiveAt, Filter
<1>2. ASSUME Ttl = 0 PROVE LiveAt(s, t) = s
  <2>1. \A k \in DOMAIN s : s[k] \in Item
    BY LenProperties, ElementOfSeq
  <2>2. {k \in DOMAIN s : s[k] \in Live(t)} = DOMAIN s
    BY <1>2, <2>1 DEF Live
  <2> QED
    BY <2>2 DEF LiveAt, Filter, Only
<1> QED
  BY <1>1, <1>2

\* What a purge drops, every later purge drops.
LEMMA LiveLater ==
  ASSUME NEW s \in Seq(Item), NEW t \in Int, NEW u \in Int, t <= u
  PROVE  LiveAt(LiveAt(s, t), u) = LiveAt(s, u)
<1>1. Ttl \in Nat
  BY TaskQueueAssumption DEF TaskQueueAssumption
<1>2. \A x \in Item : x.at \in Int
  BY TaskQueueAssumption DEF Item, TaskQueueAssumption
<1>3. Live(t) \cap Live(u) = Live(u)
  <2>1. ASSUME NEW x \in Live(u) PROVE x \in Live(t)
    BY <2>1, <1>1, <1>2 DEF Live
  <2> QED
    BY <2>1
<1> QED
  BY <1>3, FilterFilter DEF LiveAt

LEMMA PurgeDict ==
  ASSUME NEW d, IsDict(d), NEW t
  PROVE  /\ IsDict(PurgedAt(d, t))
         /\ \A c : ItemsOf(PurgedAt(d, t), c) = LiveAt(ItemsOf(d, c), t)
<1>1. CASE Ttl = 0
  BY <1>1, LiveSeq, ItemsOfEntry DEF PurgedAt
<1>2. CASE Ttl # 0
  <2> DEFINE e == [i \in DOMAIN d |-> [d[i] EXCEPT !.items = LiveAt(@, t)]]
  <2>1. /\ Len(d) \in Nat /\ DOMAIN d = 1..Len(d)
        /\ \A i \in DOMAIN d : d[i] \in Dict /\ d[i].items \in Seq(Item)
        /\ \A i, j \in DOMAIN d : d[i].chat = d[j].chat => i = j
    BY DictFacts
  <2>2. \A i \in DOMAIN d :
           /\ e[i] \in Dict /\ e[i].chat = d[i].chat
           /\ e[i].items = LiveAt(d[i].items, t)
    <3>1. ASSUME NEW i \in DOMAIN d
          PROVE  /\ e[i] \in Dict /\ e[i].chat = d[i].chat
                 /\ e[i].items = LiveAt(d[i].items, t)
      <4>1. LiveAt(d[i].items, t) \in Seq(Item)
        BY <2>1, LiveSeq
      <4>2. e[i] = [d[i] EXCEPT !.items = LiveAt(d[i].items, t)]
        OBVIOUS
      <4> QED
        BY <4>1, <4>2, <2>1, EntryWithItems
    <3> QED
      BY <3>1
  <2>3. DOMAIN e = DOMAIN d /\ e = [i \in DOMAIN d |-> e[i]]
    OBVIOUS
  <2>4. PurgedAt(d, t) = NonEmpty(e)
    BY <1>2 DEF PurgedAt
  <2> HIDE DEF e
  <2>5. e \in [1..Len(d) -> Dict]
    BY <2>1, <2>2, <2>3
  <2>6. e \in Seq(Dict)
    BY <2>1, <2>5
  <2>7. IsDict(e)
    BY <2>1, <2>2, <2>3, <2>6 DEF IsDict
  <2>8. ASSUME NEW c PROVE ItemsOf(e, c) = LiveAt(ItemsOf(d, c), t)
    <3>1. CASE c \in Keys(d)
      <4>1. PICK i \in DOMAIN d : d[i].chat = c
        BY <3>1 DEF Keys
      <4>2. ItemsOf(d, c) = d[i].items
        BY <4>1, ItemsOfEntry
      <4>3. i \in DOMAIN e /\ e[i].chat = c
        BY <4>1, <2>2, <2>3
      <4>4. ItemsOf(e, c) = e[i].items
        BY <4>3, <2>7, ItemsOfEntry
      <4> QED
        BY <4>1, <4>2, <4>4, <2>2
    <3>2. CASE c \notin Keys(d)
      <4>1. c \notin Keys(e)
        BY <3>2, <2>2, <2>3 DEF Keys
      <4>2. LiveAt(<<>>, t) = <<>>
        BY FilterEmpty DEF LiveAt
      <4> QED
        BY <4>1, <4>2, <3>2, <2>7, ItemsOfEntry
    <3> QED
      BY <3>1, <3>2
  <2> QED
    BY <2>4, <2>7, <2>8, NonEmptyDict
<1> QED
  BY <1>1, <1>2

-----------------------------------------------------------------------------
(* Counting the rows that recovery did not put back.                       *)

\* Every such row of s is one of u.
FreshWithin(s, u) ==
  \E h \in [FreshPlaces(s) -> FreshPlaces(u)] :
    \A j, k \in FreshPlaces(s) : h[j] = h[k] => j = k

LEMMA FreshWithinItself ==
  ASSUME NEW s
  PROVE  FreshWithin(s, s)
<1> DEFINE h == [k \in FreshPlaces(s) |-> k]
<1>1. h \in [FreshPlaces(s) -> FreshPlaces(s)]
  OBVIOUS
<1>2. \A j, k \in FreshPlaces(s) : h[j] = h[k] => j = k
  OBVIOUS
<1> QED
  BY <1>1, <1>2 DEF FreshWithin

\* A comprehension has no row its list does not have.
LEMMA FilterFresh ==
  ASSUME NEW s \in Seq(Item), NEW V
  PROVE  FreshWithin(Filter(s, V), s)
<1> DEFINE r == Filter(s, V)
<1>1. PICK g : StandsAt(g, s, V)
  BY FilterPlaces
<1>2. r \in Seq(Item) /\ DOMAIN r = 1..Len(r) /\ Len(r) \in Nat
  BY OnlyIsKept, LenProperties DEF Filter
<1>3. /\ g \in [DOMAIN r -> DOMAIN s]
      /\ \A k \in DOMAIN r : r[k] = s[g[k]]
      /\ \A j, k \in DOMAIN r : j < k => g[j] < g[k]
  BY <1>1, <1>2 DEF StandsAt
<1>4. DOMAIN s = 1..Len(s) /\ Len(s) \in Nat
  BY LenProperties
<1> HIDE DEF r
<1> DEFINE h == [k \in FreshPlaces(r) |-> g[k]]
<1>5. h \in [FreshPlaces(r) -> FreshPlaces(s)]
  BY <1>3 DEF FreshPlaces
<1>6. ASSUME NEW j \in FreshPlaces(r), NEW k \in FreshPlaces(r), h[j] = h[k] PROVE j = k
  <2>1. j \in DOMAIN r /\ k \in DOMAIN r /\ g[j] = g[k] /\ g[j] \in Int
    BY <1>3, <1>4, <1>6 DEF FreshPlaces
  <2>2. ~(j < k) /\ ~(k < j) /\ j \in Int /\ k \in Int
    BY <2>1, <1>2, <1>3
  <2> QED
    BY <2>2
<1> HIDE DEF h
<1>7. FreshWithin(r, s)
  BY <1>5, <1>6 DEF FreshWithin
<1> QED
  BY <1>7 DEF r

LEMMA FreshCount ==
  ASSUME NEW s \in Seq(Item)
  PROVE  /\ IsFiniteSet(FreshPlaces(s))
         /\ Cardinality(FreshPlaces(s)) \in Nat
         /\ Cardinality(FreshPlaces(s)) <= Len(s)
<1>1. DOMAIN s = 1..Len(s) /\ Len(s) \in Nat
  BY LenProperties
<1>2. FreshPlaces(s) \in SUBSET (1..Len(s))
  BY <1>1 DEF FreshPlaces
<1>3. IsFiniteSet(1..Len(s)) /\ Cardinality(1..Len(s)) = Len(s)
  BY <1>1, FS_Interval
<1>4. IsFiniteSet(FreshPlaces(s)) /\ Cardinality(FreshPlaces(s)) <= Len(s)
  BY <1>2, <1>3, FS_Subset
<1> QED
  BY <1>4, FS_CardinalityType

LEMMA FreshWithinCount ==
  ASSUME NEW s \in Seq(Item), NEW u \in Seq(Item), FreshWithin(s, u)
  PROVE  Cardinality(FreshPlaces(s)) <= Cardinality(FreshPlaces(u))
<1>1. PICK h \in [FreshPlaces(s) -> FreshPlaces(u)] :
         \A j, k \in FreshPlaces(s) : h[j] = h[k] => j = k
  BY DEF FreshWithin
<1>2. h \in Injection(FreshPlaces(s), FreshPlaces(u))
  BY <1>1 DEF Injection, IsInjective
<1> QED
  BY <1>2, FreshCount, FS_Injection

\* insert(0, item) of a recovered item
LEMMA RecoveredFresh ==
  ASSUME NEW s \in Seq(Item), NEW x \in Item, x.recovered
  PROVE  <<x>> \o s \in Seq(Item) /\ FreshWithin(<<x>> \o s, s)
<1> DEFINE r == <<x>> \o s
           h == [k \in FreshPlaces(r) |-> k - 1]
<1>1. <<x>> \in Seq(Item) /\ Len(<<x>>) = 1 /\ <<x>>[1] = x
  OBVIOUS
<1>2. /\ r \in Seq(Item) /\ Len(r) = 1 + Len(s)
      /\ \A k \in 1..(1 + Len(s)) : r[k] = IF k <= 1 THEN <<x>>[k] ELSE s[k - 1]
  BY <1>1, ConcatProperties
<1>3. DOMAIN r = 1..Len(r) /\ DOMAIN s = 1..Len(s) /\ Len(s) \in Nat
  BY <1>2, LenProperties
<1> HIDE DEF r
<1>4. r[1] = x
  BY <1>1, <1>2, <1>3
<1>5. ASSUME NEW k \in FreshPlaces(r) PROVE k - 1 \in FreshPlaces(s) /\ k \in Int
  <2>1. k \in 1..(1 + Len(s)) /\ ~r[k].recovered /\ k # 1
    BY <1>2, <1>3, <1>4, <1>5 DEF FreshPlaces
  <2>2. r[k] = s[k - 1] /\ k - 1 \in 1..Len(s)
    BY <2>1, <1>2, <1>3
  <2> QED
    BY <2>1, <2>2, <1>3 DEF FreshPlaces
<1>6. h \in [FreshPlaces(r) -> FreshPlaces(s)]
  BY <1>5
<1>7. \A j, k \in FreshPlaces(r) : h[j] = h[k] => j = k
  BY <1>5
<1> HIDE DEF h
<1>8. FreshWithin(r, s)
  BY <1>6, <1>7 DEF FreshWithin
<1> QED
  BY <1>2, <1>8 DEF r

-----------------------------------------------------------------------------
(* What is left of a list when its first rows go.                          *)

\* s is u without its first n rows.
Lacks(s, u, n) ==
  /\ s \in Seq(Item) /\ n \in 0..Len(u) /\ Len(s) = Len(u) - n
  /\ \A k \in 1..Len(s) : s[k] = u[k + n]

LEMMA BehindPlaces ==
  ASSUME NEW u \in Seq(Item), NEW s
  PROVE  /\ Behind(s, u) => \E n \in 0..Len(u) : Lacks(s, u, n)
         /\ \A n : Lacks(s, u, n) => Behind(s, u)
<1>1. Len(u) \in Nat /\ \A i \in 1..Len(u) : u[i] \in Item
  BY LenProperties, ElementOfSeq
<1>2. ASSUME NEW n \in 0..Len(u)
      PROVE  Lacks(SubSeq(u, n + 1, Len(u)), u, n)
  <2>1. n + 1 \in 1..(Len(u) + 1) /\ \A i \in (n + 1)..Len(u) : u[i] \in Item
    BY <1>1
  <2>2. /\ SubSeq(u, n + 1, Len(u)) \in Seq(Item)
        /\ Len(SubSeq(u, n + 1, Len(u))) =
             IF n + 1 <= Len(u) THEN Len(u) - (n + 1) + 1 ELSE 0
        /\ \A i \in 1..(Len(u) - (n + 1) + 1) :
             SubSeq(u, n + 1, Len(u))[i] = u[(n + 1) + i - 1]
    BY <1>1, <2>1, SubSeqProperties
  <2>3. Len(u) - (n + 1) + 1 = Len(u) - n /\ (~(n + 1 <= Len(u)) => Len(u) - n = 0)
    BY <1>1
  <2>4. \A k \in 1..(Len(u) - n) : (n + 1) + k - 1 = k + n
    BY <1>1
  <2> QED
    BY <2>2, <2>3, <2>4 DEF Lacks
<1>3. ASSUME NEW n, Lacks(s, u, n) PROVE s = SubSeq(u, n + 1, Len(u))
  <2>1. Lacks(SubSeq(u, n + 1, Len(u)), u, n)
    BY <1>2, <1>3 DEF Lacks
  <2> DEFINE r == SubSeq(u, n + 1, Len(u))
  <2> HIDE DEF r
  <2>2. r \in Seq(Item) /\ s \in Seq(Item) /\ Len(s) = Len(r)
        /\ \A k \in 1..Len(s) : s[k] = r[k]
    BY <1>3, <2>1 DEF Lacks, r
  <2>3. s = r
    BY <2>2, SeqEqual
  <2> QED
    BY <2>3 DEF r
<1>4. ASSUME Behind(s, u) PROVE \E n \in 0..Len(u) : Lacks(s, u, n)
  <2>1. PICK n \in 0..Len(u) : s = SubSeq(u, n + 1, Len(u))
    BY <1>4 DEF Behind
  <2> QED
    BY <1>2, <2>1
<1>5. ASSUME NEW n, Lacks(s, u, n) PROVE Behind(s, u)
  <2>1. n \in 0..Len(u)
    BY <1>5 DEF Lacks
  <2> QED
    BY <1>3, <1>5, <2>1 DEF Behind
<1> QED
  BY <1>4, <1>5

LEMMA BehindItself ==
  ASSUME NEW u \in Seq(Item)
  PROVE  Behind(u, u) /\ Behind(<<>>, u)
<1>1. Len(u) \in Nat /\ 0 \in 0..Len(u) /\ Len(u) \in 0..Len(u)
  BY LenProperties
<1>2. Lacks(u, u, 0)
  BY <1>1 DEF Lacks
<1>3. ASSUME NEW e \in Seq(Item), Len(e) = 0 PROVE Behind(e, u)
  <2>1. Lacks(e, u, Len(u))
    BY <1>1, <1>3 DEF Lacks
  <2> QED
    BY <2>1, BehindPlaces
<1>4. <<>> \in Seq(Item) /\ Len(<<>>) = 0
  BY EmptySeq
<1> QED
  BY <1>2, <1>3, <1>4, BehindPlaces

LEMMA BehindTrans ==
  ASSUME NEW w \in Seq(Item), NEW u, NEW s, Behind(u, w), Behind(s, u)
  PROVE  s \in Seq(Item) /\ Behind(s, w)
<1>1. PICK n \in 0..Len(w) : Lacks(u, w, n)
  BY BehindPlaces
<1>2. u \in Seq(Item) /\ Len(w) \in Nat /\ Len(u) \in Nat
  BY <1>1, LenProperties DEF Lacks
<1>3. PICK m \in 0..Len(u) : Lacks(s, u, m)
  BY <1>2, BehindPlaces
<1>4. n + m \in 0..Len(w) /\ Len(s) = Len(w) - (n + m)
  BY <1>1, <1>2, <1>3 DEF Lacks
<1>5. ASSUME NEW k \in 1..Len(s) PROVE s[k] = w[k + (n + m)]
  <2>1. k + m \in 1..Len(u) /\ (k + m) + n = k + (n + m)
    BY <1>1, <1>2, <1>3 DEF Lacks
  <2> QED
    BY <1>1, <1>3, <2>1 DEF Lacks
<1>6. Lacks(s, w, n + m)
  BY <1>3, <1>4, <1>5 DEF Lacks
<1>7. s \in Seq(Item)
  BY <1>3 DEF Lacks
<1> QED
  BY <1>6, <1>7, BehindPlaces

\* items.pop(0)
LEMMA TailBehind ==
  ASSUME NEW s \in Seq(Item), s # <<>>
  PROVE  Tail(s) \in Seq(Item) /\ Behind(Tail(s), s)
<1>1. /\ Tail(s) \in Seq(Item) /\ Len(Tail(s)) = Len(s) - 1 /\ Len(s) \in Nat
      /\ \A k \in 1..Len(Tail(s)) : Tail(s)[k] = s[k + 1]
  BY HeadTailProperties, LenProperties
<1>2. Len(s) # 0
  BY EmptySeq
<1>3. 1 \in 0..Len(s)
  BY <1>1, <1>2
<1> DEFINE r == Tail(s)
<1> HIDE DEF r
<1>4. Lacks(r, s, 1)
  BY <1>1, <1>3 DEF Lacks, r
<1>5. Behind(r, s)
  BY <1>4, BehindPlaces
<1> QED
  BY <1>1, <1>5 DEF r

\* What is behind has no row the list does not have.
LEMMA BehindFresh ==
  ASSUME NEW u \in Seq(Item), NEW s, Behind(s, u)
  PROVE  s \in Seq(Item) /\ FreshWithin(s, u)
<1>1. PICK n \in 0..Len(u) : Lacks(s, u, n)
  BY BehindPlaces
<1>2. s \in Seq(Item)
  BY <1>1 DEF Lacks
<1>3. DOMAIN s = 1..Len(s) /\ DOMAIN u = 1..Len(u) /\ Len(u) \in Nat
  BY <1>2, LenProperties
<1> DEFINE h == [k \in FreshPlaces(s) |-> k + n]
<1>4. \A k \in FreshPlaces(s) : k + n \in FreshPlaces(u) /\ k \in Int
  BY <1>1, <1>3 DEF FreshPlaces, Lacks
<1>5. h \in [FreshPlaces(s) -> FreshPlaces(u)]
  BY <1>4
<1>6. \A j, k \in FreshPlaces(s) : h[j] = h[k] => j = k
  BY <1>1, <1>4
<1> HIDE DEF h
<1>7. FreshWithin(s, u)
  BY <1>5, <1>6 DEF FreshWithin
<1> QED
  BY <1>2, <1>7

-----------------------------------------------------------------------------
(* Rows: the pending rows of the whole dict.                               *)

LEMMA RowsMember ==
  ASSUME NEW d, NEW r
  PROVE  r \in Rows(d) <=> \E i \in DOMAIN d : \E k \in DOMAIN d[i].items : r = <<i, k>>
BY DEF Rows

LEMMA RowsFinite ==
  ASSUME NEW d \in Seq(Dict)
  PROVE  IsFiniteSet(Rows(d)) /\ Cardinality(Rows(d)) \in Nat
<1> DEFINE P == {e \in Seq(Dict) : IsFiniteSet(Rows(e))}
<1>1. <<>> \in P
  <2>1. Rows(<<>>) = {}
    BY DEF Rows
  <2> QED
    BY <2>1, FS_EmptySet, EmptySeq
<1>2. ASSUME NEW e \in Seq(Dict), NEW x \in Dict, e \in P PROVE Append(e, x) \in P
  <2> DEFINE t == Append(e, x)
             R == {Len(e) + 1} \X DOMAIN x.items
  <2>1. /\ t \in Seq(Dict) /\ Len(t) = Len(e) + 1 /\ Len(e) \in Nat
        /\ DOMAIN t = 1..Len(t) /\ DOMAIN e = 1..Len(e) /\ t[Len(t)] = x
        /\ \A i \in 1..Len(e) : t[i] = e[i]
    BY AppendProperties, LenProperties
  <2>2. IsFiniteSet({Len(e) + 1})
    BY FS_Singleton
  <2>3. x.items \in Seq(Item)
    BY DEF Dict
  <2>4. DOMAIN x.items = 1..Len(x.items) /\ Len(x.items) \in Nat
    BY <2>3, LenProperties
  <2>5. IsFiniteSet(DOMAIN x.items)
    BY <2>4, FS_Interval
  <2>6. IsFiniteSet(R)
    BY <2>2, <2>5, FS_Product
  <2> HIDE DEF t
  <2>7. Rows(t) = Rows(e) \cup R
    <3>1. ASSUME NEW r PROVE r \in Rows(t) <=> r \in Rows(e) \/ r \in R
      <4>1. r \in R <=> \E k \in DOMAIN t[Len(t)].items : r = <<Len(t), k>>
        BY <2>1
      <4>2. r \in Rows(e) <=> \E i \in 1..Len(e) : \E k \in DOMAIN t[i].items : r = <<i, k>>
        BY <2>1, RowsMember
      <4>3. r \in Rows(t) <=> \E i \in 1..Len(t) : \E k \in DOMAIN t[i].items : r = <<i, k>>
        BY <2>1, RowsMember
      <4>4. \A i : i \in 1..Len(t) <=> i \in 1..Len(e) \/ i = Len(t)
        BY <2>1
      <4> HIDE DEF R
      <4> QED
        BY <4>1, <4>2, <4>3, <4>4
    <3> QED
      BY <3>1
  <2>9. IsFiniteSet(Rows(e))
    BY <1>2
  <2> HIDE DEF R
  <2>8. IsFiniteSet(Rows(t))
    BY <2>6, <2>7, <2>9, FS_Union
  <2> QED
    BY <2>1, <2>8 DEF t
<1>3. Seq(Dict) \subseteq P
  BY <1>1, <1>2, AppendUp
<1> QED
  BY <1>3, FS_CardinalityType

LEMMA FreshRowsFinite ==
  ASSUME NEW d \in Seq(Dict)
  PROVE  /\ IsFiniteSet(FreshRows(d)) /\ Cardinality(FreshRows(d)) \in Nat
         /\ Cardinality(FreshRows(d)) <= TotalPending(d)
<1>1. FreshRows(d) \in SUBSET Rows(d)
  BY DEF FreshRows
<1>2. IsFiniteSet(FreshRows(d)) /\ Cardinality(FreshRows(d)) <= Cardinality(Rows(d))
  BY <1>1, RowsFinite, FS_Subset
<1> QED
  BY <1>2, FS_CardinalityType DEF TotalPending

\* What no chat has more of, the dict has no more of.
LEMMA FreshRowsWithin ==
  ASSUME NEW d, IsDict(d), NEW e, IsDict(e),
         \A c \in Chats : FreshWithin(ItemsOf(e, c), ItemsOf(d, c))
  PROVE  Cardinality(FreshRows(e)) <= Cardinality(FreshRows(d))
<1>1. /\ \A i, j \in DOMAIN d : d[i].chat = d[j].chat => i = j
      /\ \A i, j \in DOMAIN e : e[i].chat = e[j].chat => i = j
      /\ \A i \in DOMAIN e : e[i].chat \in Chats
      /\ d \in Seq(Dict)
  BY DictFacts
<1> DEFINE IsH(h, c) == /\ h \in [FreshPlaces(ItemsOf(e, c)) -> FreshPlaces(ItemsOf(d, c))]
                        /\ \A j, k \in FreshPlaces(ItemsOf(e, c)) : h[j] = h[k] => j = k
           H == [c \in Chats |-> CHOOSE h : IsH(h, c)]
           G == [i \in DOMAIN e |-> CHOOSE j \in DOMAIN d : d[j].chat = e[i].chat]
<1>2. ASSUME NEW c \in Chats
      PROVE  /\ H[c] \in [FreshPlaces(ItemsOf(e, c)) -> FreshPlaces(ItemsOf(d, c))]
             /\ \A j, k \in FreshPlaces(ItemsOf(e, c)) : H[c][j] = H[c][k] => j = k
  <2>1. \E h : IsH(h, c)
    BY DEF FreshWithin
  <2>2. IsH(CHOOSE h : IsH(h, c), c)
    BY <2>1
  <2>3. H[c] = CHOOSE h : IsH(h, c)
    OBVIOUS
  <2>4. IsH(H[c], c)
    BY <2>2, <2>3
  <2> QED
    BY <2>4
<1>3. ASSUME NEW r \in FreshRows(e)
      PROVE  \E i \in DOMAIN e : \E k \in FreshPlaces(e[i].items) :
               /\ r = <<i, k>>
               /\ ItemsOf(e, e[i].chat) = e[i].items
               /\ G[i] \in DOMAIN d /\ d[G[i]].chat = e[i].chat
               /\ H[e[i].chat][k] \in FreshPlaces(d[G[i]].items)
  <2>9. PICK i \in DOMAIN e : \E k \in DOMAIN e[i].items : r = <<i, k>>
    BY <1>3, RowsMember DEF FreshRows
  <2>1. PICK k \in DOMAIN e[i].items : r = <<i, k>>
    BY <2>9
  <2>2. k \in FreshPlaces(e[i].items)
    BY <1>3, <2>1 DEF FreshRows, FreshPlaces
  <2>3. ItemsOf(e, e[i].chat) = e[i].items
    BY ItemsOfEntry
  <2>4. H[e[i].chat][k] \in FreshPlaces(ItemsOf(d, e[i].chat))
    <3>1. e[i].chat \in Chats
      BY <1>1
    <3> HIDE DEF H
    <3> QED
      BY <3>1, <1>2, <2>2, <2>3
  <2>5. e[i].chat \in Keys(d)
    <3>1. ASSUME e[i].chat \notin Keys(d) PROVE FALSE
      <4>1. ItemsOf(d, e[i].chat) = <<>>
        BY <3>1, ItemsOfEntry
      <4>2. FreshPlaces(<<>>) = {}
        BY DEF FreshPlaces
      <4> QED
        BY <4>1, <4>2, <2>4
    <3> QED
      BY <3>1
  <2>6. \E j \in DOMAIN d : d[j].chat = e[i].chat
    BY <2>5 DEF Keys
  <2>7. G[i] \in DOMAIN d /\ d[G[i]].chat = e[i].chat
    BY <2>6
  <2>8. ItemsOf(d, e[i].chat) = d[G[i]].items
    <3> HIDE DEF G
    <3> QED
      BY <2>7, ItemsOfEntry
  <2> HIDE DEF G, H
  <2> QED
    BY <2>1, <2>2, <2>3, <2>4, <2>7, <2>8
<1> HIDE DEF G, H
<1> DEFINE f == [r \in FreshRows(e) |-> <<G[r[1]], H[e[r[1]].chat][r[2]]>>]
<1>4. ASSUME NEW r \in FreshRows(e) PROVE f[r] \in FreshRows(d)
  <2>9. PICK i \in DOMAIN e : \E k \in FreshPlaces(e[i].items) :
               /\ r = <<i, k>>
               /\ G[i] \in DOMAIN d /\ d[G[i]].chat = e[i].chat
               /\ H[e[i].chat][k] \in FreshPlaces(d[G[i]].items)
    BY <1>3
  <2>1. PICK k \in FreshPlaces(e[i].items) :
               /\ r = <<i, k>>
               /\ G[i] \in DOMAIN d /\ d[G[i]].chat = e[i].chat
               /\ H[e[i].chat][k] \in FreshPlaces(d[G[i]].items)
    BY <2>9
  <2> DEFINE y == H[e[i].chat][k]
  <2>2. f[r] = <<G[i], y>>
    BY <2>1
  <2> HIDE DEF f, y
  <2>3. y \in DOMAIN d[G[i]].items /\ ~d[G[i]].items[y].recovered
    BY <2>1 DEF FreshPlaces, y
  <2>4. f[r] \in Rows(d)
    BY <2>1, <2>2, <2>3, RowsMember
  <2> QED
    BY <2>2, <2>3, <2>4 DEF FreshRows
<1>5. ASSUME NEW r \in FreshRows(e), NEW q \in FreshRows(e), f[r] = f[q] PROVE r = q
  <2>7. PICK i \in DOMAIN e : \E k \in FreshPlaces(e[i].items) :
               /\ r = <<i, k>>
               /\ ItemsOf(e, e[i].chat) = e[i].items
               /\ G[i] \in DOMAIN d /\ d[G[i]].chat = e[i].chat
    BY <1>3
  <2>1. PICK k \in FreshPlaces(e[i].items) :
               /\ r = <<i, k>>
               /\ ItemsOf(e, e[i].chat) = e[i].items
               /\ G[i] \in DOMAIN d /\ d[G[i]].chat = e[i].chat
    BY <2>7
  <2>8. PICK j \in DOMAIN e : \E l \in FreshPlaces(e[j].items) :
               /\ q = <<j, l>>
               /\ G[j] \in DOMAIN d /\ d[G[j]].chat = e[j].chat
    BY <1>3
  <2>2. PICK l \in FreshPlaces(e[j].items) :
               /\ q = <<j, l>>
               /\ G[j] \in DOMAIN d /\ d[G[j]].chat = e[j].chat
    BY <2>8
  <2>3. f[r] = <<G[i], H[e[i].chat][k]>> /\ f[q] = <<G[j], H[e[j].chat][l]>>
    BY <2>1, <2>2
  <2> HIDE DEF f
  <2>4. G[i] = G[j] /\ H[e[i].chat][k] = H[e[j].chat][l]
    BY <2>3, <1>5
  <2>5. i = j
    BY <2>1, <2>2, <2>4, <1>1
  <2>6. k = l
    BY <2>1, <2>2, <2>4, <2>5, <1>1, <1>2
  <2> QED
    BY <2>1, <2>2, <2>5, <2>6
<1>6. f \in Injection(FreshRows(e), FreshRows(d))
  <2>1. f \in [FreshRows(e) -> FreshRows(d)]
    BY <1>4
  <2> HIDE DEF f
  <2> QED
    BY <2>1, <1>5 DEF Injection, IsInjective
<1> HIDE DEF f
<1> QED
  BY <1>1, <1>6, FreshRowsFinite, FS_Injection

-----------------------------------------------------------------------------
(* The caps of a dict.                                                     *)

PerChatCap(d) ==
  MaxPerChat > 0 => \A c \in Chats : Cardinality(FreshPlaces(ItemsOf(d, c))) <= MaxPerChat

TotalCap(d) == MaxTotal > 0 => Cardinality(FreshRows(d)) <= MaxTotal

\* The dicts the store may hold.
StoreDict(d) == IsDict(d) /\ PerChatCap(d) /\ TotalCap(d)

LEMMA CapsWithin ==
  ASSUME NEW d, IsDict(d), PerChatCap(d), TotalCap(d), NEW e, IsDict(e),
         \A c \in Chats : FreshWithin(ItemsOf(e, c), ItemsOf(d, c))
  PROVE  PerChatCap(e) /\ TotalCap(e)
<1>1. \A c \in Chats : /\ Cardinality(FreshPlaces(ItemsOf(d, c))) \in Nat
                       /\ Cardinality(FreshPlaces(ItemsOf(e, c))) \in Nat
                       /\ Cardinality(FreshPlaces(ItemsOf(e, c)))
                            <= Cardinality(FreshPlaces(ItemsOf(d, c)))
  BY ItemsOfEntry, FreshCount, FreshWithinCount
<1>2. /\ Cardinality(FreshRows(d)) \in Nat /\ Cardinality(FreshRows(e)) \in Nat
      /\ Cardinality(FreshRows(e)) <= Cardinality(FreshRows(d))
  BY FreshRowsWithin, FreshRowsFinite DEF IsDict
<1>3. MaxPerChat \in Nat /\ MaxTotal \in Nat
  BY TaskQueueAssumption DEF TaskQueueAssumption
<1>4. PerChatCap(e)
  BY <1>1, <1>3 DEF PerChatCap
<1>5. TotalCap(e)
  BY <1>2, <1>3 DEF TotalCap
<1> QED
  BY <1>4, <1>5

\* The first of the longest lists exists.
LEMMA FirstLongestEntry ==
  ASSUME NEW d \in Seq(Dict), d # <<>>
  PROVE  /\ FirstLongest(d) \in DOMAIN d
         /\ \A j \in DOMAIN d : Len(d[j].items) <= Len(d[FirstLongest(d)].items)
<1> DEFINE IsFirst(e, i) ==
             \A j \in DOMAIN e : /\ Len(e[j].items) <= Len(e[i].items)
                                 /\ Len(e[j].items) = Len(e[i].items) => i <= j
           P == {e \in Seq(Dict) : e # <<>> => \E i \in DOMAIN e : IsFirst(e, i)}
<1>1. <<>> \in P
  BY EmptySeq
<1>2. ASSUME NEW e \in Seq(Dict), NEW x \in Dict, e \in P PROVE Append(e, x) \in P
  <2> DEFINE t == Append(e, x)
  <2>1. /\ t \in Seq(Dict) /\ Len(t) = Len(e) + 1 /\ Len(e) \in Nat
        /\ DOMAIN t = 1..Len(t) /\ DOMAIN e = 1..Len(e) /\ t[Len(t)] = x
        /\ \A i \in 1..Len(e) : t[i] = e[i]
    BY AppendProperties, LenProperties
  <2>2. \A i \in 1..Len(t) : Len(t[i].items) \in Nat
    <3>1. \A i \in 1..Len(t) : t[i] \in Dict
      BY <2>1, ElementOfSeq
    <3>2. \A i \in 1..Len(t) : t[i].items \in Seq(Item)
      BY <3>1 DEF Dict
    <3> QED
      BY <3>2, LenProperties
  <2> HIDE DEF t
  <2>3. CASE e = <<>>
    <3>1. Len(e) = 0
      BY <2>3
    <3>2. IsFirst(t, 1) /\ 1 \in DOMAIN t
      BY <3>1, <2>1, <2>2
    <3> QED
      BY <3>2, <2>1 DEF t
  <2>4. CASE e # <<>>
    <3>1. PICK i \in DOMAIN e : IsFirst(e, i)
      BY <1>2, <2>4
    <3>2. i \in 1..Len(t) /\ i \in 1..Len(e) /\ t[i] = e[i] /\ Len(t) \in 1..Len(t)
          /\ \A j \in 1..Len(t) : j \in 1..Len(e) \/ j = Len(t)
      BY <3>1, <2>1
    <3>3. CASE Len(t[Len(t)].items) <= Len(t[i].items)
      <4>1. IsFirst(t, i)
        BY <3>1, <3>2, <3>3, <2>1, <2>2
      <4> QED
        BY <4>1, <3>2, <2>1 DEF t
    <3>4. CASE ~(Len(t[Len(t)].items) <= Len(t[i].items))
      <4>1. ASSUME NEW j \in 1..Len(e)
            PROVE  Len(t[j].items) < Len(t[Len(t)].items)
        <5>1. Len(t[j].items) <= Len(t[i].items)
          BY <3>1, <3>2, <2>1
        <5>2. j \in 1..Len(t)
          BY <2>1
        <5> QED
          BY <5>1, <5>2, <3>2, <3>4, <2>2
      <4>2. IsFirst(t, Len(t))
        BY <4>1, <3>2, <2>1, <2>2
      <4> QED
        BY <4>2, <3>2, <2>1 DEF t
    <3> QED
      BY <3>3, <3>4
  <2> QED
    BY <2>3, <2>4
<1>3. Seq(Dict) \subseteq P
  BY <1>1, <1>2, AppendUp
<1>4. \E i \in DOMAIN d : IsFirst(d, i)
  BY <1>3
<1>5. FirstLongest(d) \in DOMAIN d /\ IsFirst(d, FirstLongest(d))
  BY <1>4 DEF FirstLongest
<1> QED
  BY <1>5

LEMMA SomeRow ==
  ASSUME NEW d, IsDict(d), TotalPending(d) > 0
  PROVE  /\ d # <<>>
         /\ FirstLongest(d) \in DOMAIN d
         /\ d[FirstLongest(d)].items # <<>>
         /\ \A j \in DOMAIN d : Len(d[j].items) <= Len(d[FirstLongest(d)].items)
<1>1. Rows(d) # {}
  BY FS_EmptySet DEF TotalPending
<1>2. PICK i \in DOMAIN d : DOMAIN d[i].items # {}
  BY <1>1 DEF Rows
<1>3. d \in Seq(Dict) /\ d # <<>> /\ \A j \in DOMAIN d : d[j].items \in Seq(Item)
  BY <1>2, DictFacts
<1>4. /\ FirstLongest(d) \in DOMAIN d
      /\ \A j \in DOMAIN d : Len(d[j].items) <= Len(d[FirstLongest(d)].items)
  BY <1>3, FirstLongestEntry
<1>5. Len(d[i].items) \in Nat /\ DOMAIN d[i].items = 1..Len(d[i].items)
  BY <1>3, LenProperties
<1>6. Len(d[i].items) > 0
  BY <1>2, <1>5
<1>7. Len(d[FirstLongest(d)].items) > 0
  <2>1. Len(d[FirstLongest(d)].items) \in Nat
    BY <1>3, <1>4, LenProperties
  <2> QED
    BY <2>1, <1>4, <1>5, <1>6
<1>8. d[FirstLongest(d)].items # <<>>
  BY <1>7
<1> QED
  BY <1>3, <1>4, <1>8

LEMMA PutEntries ==
  ASSUME NEW d, IsDict(d), NEW i \in DOMAIN d, NEW s \in Seq(Item)
  PROVE  LET e == Put(d, d[i].chat, s)
         IN  /\ DOMAIN e = DOMAIN d
             /\ \A j \in DOMAIN d : e[j].items = IF j = i THEN s ELSE d[j].items
<1>1. d[i].chat \in Keys(d)
  BY DEF Keys
<1>2. Put(d, d[i].chat, s) =
        [j \in DOMAIN d |-> IF d[j].chat = d[i].chat THEN [d[j] EXCEPT !.items = s] ELSE d[j]]
  BY <1>1 DEF Put
<1>3. \A j \in DOMAIN d : d[j] \in Dict /\ (d[j].chat = d[i].chat <=> j = i)
  BY DictFacts
<1> QED
  BY <1>2, <1>3, EntryWithItems

\* One pop of the trim loop: one row less, the first of its list.
LEMMA DropOne ==
  ASSUME NEW d, IsDict(d), TotalPending(d) > 0
  PROVE  /\ IsDict(DropFromLongest(d))
         /\ \A c \in Chats : Behind(ItemsOf(DropFromLongest(d), c), ItemsOf(d, c))
         /\ TotalPending(DropFromLongest(d)) = TotalPending(d) - 1
<1> DEFINE i == FirstLongest(d)
           c == d[i].chat
           s == d[i].items
           u == Tail(s)
           e == DropFromLongest(d)
<1>1. /\ i \in DOMAIN d /\ s = d[i].items /\ c = d[i].chat /\ s # <<>> /\ c \in Chats /\ s \in Seq(Item)
      /\ \A j \in DOMAIN d : Len(d[j].items) <= Len(s)
      /\ \A j \in DOMAIN d : d[j].items \in Seq(Item)
      /\ \A j, k \in DOMAIN d : d[j].chat = d[k].chat => j = k
      /\ d \in Seq(Dict) /\ DOMAIN d = 1..Len(d)
  BY SomeRow, DictFacts
<1>2. e = PutOrDelete(d, c, u)
  BY DEF DropFromLongest
<1> HIDE DEF e, i, c, s
<1>3. u \in Seq(Item) /\ Behind(u, s)
  BY <1>1, TailBehind
<1>11. Len(s) \in Nat /\ DOMAIN s = 1..Len(s) /\ Len(u) = Len(s) - 1
  BY <1>1, HeadTailProperties, LenProperties
<1> HIDE DEF u
<1>4. /\ IsDict(e)
      /\ \A b \in Chats : ItemsOf(e, b) = IF b = c THEN u ELSE ItemsOf(d, b)
  BY <1>1, <1>2, <1>3, PutOrDeleteDict
<1>5. ItemsOf(d, c) = s
  BY <1>1, ItemsOfEntry
<1>6. \A b \in Chats : Behind(ItemsOf(e, b), ItemsOf(d, b))
  BY <1>1, <1>3, <1>4, <1>5, BehindItself, ItemsOfEntry
<1>7. /\ Len(s) \in Nat /\ Len(s) > 0 /\ DOMAIN s = 1..Len(s)
      /\ Len(u) = Len(s) - 1 /\ DOMAIN u = 1..(Len(s) - 1)
  BY <1>1, <1>3, <1>11, LenProperties, EmptySeq
<1>8. IsFiniteSet(Rows(d)) /\ Cardinality(Rows(d)) \in Nat
  BY <1>1, RowsFinite
<1>9. CASE u # <<>>
  <2>1. e = Put(d, d[i].chat, u)
    BY <1>1, <1>2, <1>9 DEF PutOrDelete
  <2>2. /\ DOMAIN e = DOMAIN d
        /\ \A j \in DOMAIN d : e[j].items = IF j = i THEN u ELSE d[j].items
    BY <2>1, <1>1, <1>3, PutEntries
  <2>3. Rows(e) = Rows(d) \ {<<i, Len(s)>>}
    <3>1. ASSUME NEW r PROVE r \in Rows(e) <=> r \in Rows(d) /\ r # <<i, Len(s)>>
      <4>1. ASSUME r \in Rows(e) PROVE r \in Rows(d) /\ r # <<i, Len(s)>>
        <5>1. PICK j \in DOMAIN e : \E k \in DOMAIN e[j].items : r = <<j, k>>
          BY <4>1, RowsMember
        <5>2. PICK k \in DOMAIN e[j].items : r = <<j, k>>
          BY <5>1
        <5>3. CASE j = i
          <6>1. k \in 1..(Len(s) - 1)
            BY <5>2, <5>3, <2>2, <1>1, <1>7
          <6>2. k \in DOMAIN d[j].items /\ k # Len(s)
            BY <6>1, <5>3, <1>1, <1>7
          <6> QED
            BY <6>2, <5>2, <5>3, <1>1, RowsMember
        <5>4. CASE j # i
          BY <5>1, <5>2, <5>4, <2>2, RowsMember
        <5> QED
          BY <5>3, <5>4
      <4>2. ASSUME r \in Rows(d), r # <<i, Len(s)>> PROVE r \in Rows(e)
        <5>1. PICK j \in DOMAIN d : \E k \in DOMAIN d[j].items : r = <<j, k>>
          BY <4>2, RowsMember
        <5>2. PICK k \in DOMAIN d[j].items : r = <<j, k>>
          BY <5>1
        <5>3. k \in DOMAIN e[j].items
          <6>1. CASE j = i
            <7>1. k \in 1..Len(s) /\ k # Len(s)
              BY <6>1, <5>2, <4>2, <1>1, <1>7
            <7> QED
              BY <7>1, <6>1, <2>2, <1>1, <1>7
          <6>2. CASE j # i
            BY <6>2, <5>1, <5>2, <2>2
          <6> QED
            BY <6>1, <6>2
        <5> QED
          BY <5>1, <5>2, <5>3, <2>2, RowsMember
      <4> QED
        BY <4>1, <4>2
    <3> QED
      BY <3>1
  <2>4. <<i, Len(s)>> \in Rows(d)
    BY <1>1, <1>7, RowsMember
  <2>5. Cardinality(Rows(e)) = Cardinality(Rows(d)) - 1
    <3>1. \A x : Cardinality(Rows(d) \ {x}) = IF x \in Rows(d) THEN Cardinality(Rows(d)) - 1
                                              ELSE Cardinality(Rows(d))
      BY <1>8, FS_RemoveElement
    <3> QED
      BY <2>3, <2>4, <3>1
  <2> QED
    BY <2>5, <1>4, <1>6 DEF TotalPending, e
<1>10. CASE u = <<>>
  <2> DEFINE V == {x \in Dict : x.chat # c}
  <2>1. e = Filter(d, V)
    <3>1. e = Delete(d, c)
      BY <1>2, <1>10 DEF PutOrDelete
    <3>2. \A j \in DOMAIN d : d[j] \in Dict
      BY DictFacts
    <3>3. {j \in DOMAIN d : d[j].chat # c} = {j \in DOMAIN d : d[j] \in V}
      BY <3>2
    <3> QED
      BY <3>1, <3>3 DEF Delete, Filter
  <2>2. Len(s) = 1
    <3>1. Len(u) = 0
      BY <1>10
    <3>2. Len(s) \in Nat
      BY <1>11
    <3>3. Len(s) - 1 = 0
      BY <3>1, <1>11
    <3> HIDE DEF V
    <3> QED
      BY <3>2, <3>3
  <2>3. PICK g : StandsAt(g, d, V)
    BY <1>1, FilterPlaces
  <2>4. DOMAIN e = 1..Len(e) /\ Len(e) \in Nat
    BY <1>4, DictFacts
  <2>5. /\ g \in [DOMAIN e -> DOMAIN d]
        /\ \A k \in DOMAIN e : e[k] = d[g[k]] /\ g[k] # i
        /\ \A j, k \in DOMAIN e : g[j] = g[k] => j = k
        /\ \A j \in DOMAIN d : j # i => \E k \in DOMAIN e : g[k] = j
    <3>1. /\ g \in [DOMAIN e -> DOMAIN d]
          /\ \A k \in DOMAIN e : e[k] = d[g[k]] /\ d[g[k]] \in V
          /\ \A j, k \in DOMAIN e : j < k => g[j] < g[k]
          /\ \A j \in DOMAIN d : d[j] \in V => \E k \in DOMAIN e : g[k] = j
      BY <2>1, <2>3, <2>4 DEF StandsAt
    <3>2. \A j \in DOMAIN d : j # i <=> d[j] \in V
      BY <1>1, DictFacts
    <3>3. ASSUME NEW j \in DOMAIN e, NEW k \in DOMAIN e, g[j] = g[k] PROVE j = k
      <4>1. g[j] \in Int /\ j \in Int /\ k \in Int
        BY <3>1, <2>4, <1>1
      <4>2. ~(j < k) /\ ~(k < j)
        BY <3>1, <3>3, <4>1
      <4> QED
        BY <4>1, <4>2
    <3> QED
      BY <3>1, <3>2, <3>3
  <2> HIDE DEF V
  <2> DEFINE T == Rows(d) \ {<<i, 1>>}
             f == [r \in Rows(e) |-> <<g[r[1]], r[2]>>]
  <2>6. ASSUME NEW r \in Rows(e) PROVE f[r] \in T
    <3>1. PICK j \in DOMAIN e : \E k \in DOMAIN e[j].items : r = <<j, k>>
      BY RowsMember
    <3>2. PICK k \in DOMAIN e[j].items : r = <<j, k>>
      BY <3>1
    <3>3. f[r] = <<g[j], k>>
      BY <3>2
    <3>4. g[j] \in DOMAIN d /\ g[j] # i /\ k \in DOMAIN d[g[j]].items
      BY <3>1, <3>2, <2>5
    <3>5. <<g[j], k>> \in Rows(d)
      BY <3>4, RowsMember
    <3> QED
      BY <3>3, <3>4, <3>5
  <2>7. ASSUME NEW r \in Rows(e), NEW q \in Rows(e), f[r] = f[q] PROVE r = q
    <3>1. PICK j \in DOMAIN e : \E k \in DOMAIN e[j].items : r = <<j, k>>
      BY RowsMember
    <3>2. PICK k \in DOMAIN e[j].items : r = <<j, k>>
      BY <3>1
    <3>3. PICK l \in DOMAIN e : \E m \in DOMAIN e[l].items : q = <<l, m>>
      BY RowsMember
    <3>4. PICK m \in DOMAIN e[l].items : q = <<l, m>>
      BY <3>3
    <3>5. g[j] = g[l] /\ k = m
      BY <2>7, <3>2, <3>4
    <3> QED
      BY <3>2, <3>4, <3>5, <2>5
  <2>8. ASSUME NEW q \in T PROVE \E r \in Rows(e) : f[r] = q
    <3>1. PICK j \in DOMAIN d : \E k \in DOMAIN d[j].items : q = <<j, k>>
      BY RowsMember
    <3>2. PICK k \in DOMAIN d[j].items : q = <<j, k>>
      BY <3>1
    <3>3. j # i
      <4>1. ASSUME j = i PROVE FALSE
        <5>1. k \in 1..1
          BY <4>1, <3>2, <2>2, <1>1, <1>7
        <5>2. q = <<i, 1>>
          BY <5>1, <4>1, <3>2
        <5> QED
          BY <5>2, <2>8
      <4> QED
        BY <4>1
    <3>4. PICK l \in DOMAIN e : g[l] = j
      BY <3>3, <2>5
    <3>5. k \in DOMAIN e[l].items
      BY <3>2, <3>4, <2>5
    <3>6. <<l, k>> \in Rows(e)
      BY <3>4, <3>5, RowsMember
    <3>7. f[<<l, k>>] = q
      BY <3>2, <3>4, <3>6
    <3> QED
      BY <3>6, <3>7
  <2>9. f \in [Rows(e) -> T]
    BY <2>6
  <2>10. <<i, 1>> \in Rows(d)
    BY <2>2, <1>1, <1>7, RowsMember
  <2>11. IsFiniteSet(T) /\ Cardinality(T) = Cardinality(Rows(d)) - 1
    BY <2>10, <1>8, FS_RemoveElement
  <2> HIDE DEF f, T
  <2>12. f \in Injection(Rows(e), T) /\ f \in Surjection(Rows(e), T)
    BY <2>7, <2>8, <2>9 DEF Injection, IsInjective, Surjection
  <2>13. Cardinality(Rows(e)) = Cardinality(T)
    BY <2>11, <2>12, FS_Injection
  <2> QED
    BY <2>11, <2>13, <1>4, <1>6 DEF TotalPending, e
<1> QED
  BY <1>9, <1>10

\* The recursion inside TrimTotal, for N pops.
Dropped(d, N) ==
  CHOOSE drop : drop = [n \in 0..N |-> IF n = 0 THEN d ELSE DropFromLongest(drop[n - 1])]

\* n pops later: n rows less, the first of their lists.
LessRows(e, d, n) ==
  /\ IsDict(e)
  /\ \A c \in Chats : Behind(ItemsOf(e, c), ItemsOf(d, c))
  /\ TotalPending(e) = TotalPending(d) - n

LEMMA LessRowsStep ==
  ASSUME NEW d, IsDict(d), NEW n \in Nat, n < TotalPending(d), NEW e, LessRows(e, d, n)
  PROVE  TotalPending(e) > 0 /\ LessRows(DropFromLongest(e), d, n + 1)
<1>1. TotalPending(d) \in Nat
  BY RowsFinite DEF TotalPending, IsDict
<1>2. IsDict(e) /\ TotalPending(e) = TotalPending(d) - n
  BY DEF LessRows
<1>3. TotalPending(e) > 0
  BY <1>1, <1>2
<1>4. /\ IsDict(DropFromLongest(e))
      /\ \A c \in Chats : Behind(ItemsOf(DropFromLongest(e), c), ItemsOf(e, c))
      /\ TotalPending(DropFromLongest(e)) = TotalPending(e) - 1
  BY <1>2, <1>3, DropOne
<1>5. \A c \in Chats : Behind(ItemsOf(DropFromLongest(e), c), ItemsOf(d, c))
  BY <1>4, ItemsOfEntry, BehindTrans DEF LessRows
<1>6. TotalPending(DropFromLongest(e)) = TotalPending(d) - (n + 1)
  BY <1>1, <1>2, <1>4
<1> QED
  BY <1>3, <1>4, <1>5, <1>6 DEF LessRows

LEMMA DroppedRows ==
  ASSUME NEW d, IsDict(d), NEW N \in Nat, N <= TotalPending(d)
  PROVE  LessRows(Dropped(d, N)[N], d, N)
<1>1. TotalPending(d) \in Nat
  BY RowsFinite DEF TotalPending, IsDict
<1> DEFINE S == {x \in Seq(Dict) : IsDict(x)}
           step == [n \in 1..N |-> [x \in S |-> IF TotalPending(x) > 0 THEN DropFromLongest(x) ELSE x]]
           Body(u) == [n \in 0..N |-> IF n = 0 THEN d ELSE DropFromLongest(u[n - 1])]
<1>2. step \in [1..N -> [S -> S]]
  <2>1. ASSUME NEW x \in S, TotalPending(x) > 0 PROVE DropFromLongest(x) \in S
    BY <2>1, DropOne DEF IsDict
  <2> QED
    BY <2>1
<1>3. d \in S
  BY DEF IsDict
<1>4. PICK f : RecursesTo(f, S, N, d, step)
  <2> HIDE DEF S, step
  <2> QED
    BY <1>2, <1>3, PrefixRecursion
<1>5. /\ f \in [0..N -> S] /\ f[0] = d
      /\ \A n \in 1..N : f[n] = step[n][f[n - 1]]
  BY <1>4 DEF RecursesTo
<1>6. LessRows(d, d, 0)
  BY <1>1, ItemsOfEntry, BehindItself DEF LessRows
<1>7. ASSUME NEW m \in Nat, m + 1 <= N, LessRows(f[m], d, m)
      PROVE  f[m + 1] = DropFromLongest(f[m]) /\ LessRows(f[m + 1], d, m + 1)
  <2>1. m < TotalPending(d) /\ m + 1 \in 1..N /\ (m + 1) - 1 = m /\ m \in 0..N
    BY <1>1, <1>7
  <2>2. TotalPending(f[m]) > 0 /\ LessRows(DropFromLongest(f[m]), d, m + 1)
    BY <1>7, <2>1, LessRowsStep
  <2>3. f[m] \in S
    BY <1>5, <2>1
  <2>4. f[m + 1] = step[m + 1][f[m]]
    BY <1>5, <2>1
  <2>5. step[m + 1][f[m]] = IF TotalPending(f[m]) > 0 THEN DropFromLongest(f[m]) ELSE f[m]
    <3> HIDE DEF S
    <3> QED
      BY <2>1, <2>3
  <2> HIDE DEF step
  <2> QED
    BY <2>2, <2>4, <2>5
<1> DEFINE P == {m \in Nat : m <= N => LessRows(f[m], d, m)}
<1>8. Nat \subseteq P
  <2>1. 0 \in P
    BY <1>5, <1>6
  <2>2. ASSUME NEW m \in Nat, m \in P PROVE m + 1 \in P
    BY <2>2, <1>7
  <2> QED
    BY <2>1, <2>2, CountUp
<1>9. \A n \in 0..N : LessRows(f[n], d, n)
  BY <1>8
<1>10. ASSUME NEW n \in 1..N PROVE f[n] = DropFromLongest(f[n - 1])
  <2>1. n - 1 \in Nat /\ (n - 1) + 1 = n /\ n - 1 \in 0..N
    OBVIOUS
  <2>2. LessRows(f[n - 1], d, n - 1)
    BY <2>1, <1>9
  <2>3. f[(n - 1) + 1] = DropFromLongest(f[n - 1])
    BY <2>1, <2>2, <1>7
  <2> QED
    BY <2>1, <2>3
<1>11. f = Body(f)
  <2>1. ASSUME NEW n \in 0..N PROVE f[n] = Body(f)[n]
    <3>1. CASE n = 0
      BY <3>1, <1>5
    <3>2. CASE n # 0
      <4>1. n \in 1..N
        BY <3>2
      <4> QED
        BY <4>1, <3>2, <1>10
    <3> QED
      BY <3>1, <3>2
  <2> HIDE DEF S
  <2> QED
    BY <2>1, <1>5
<1>12. Dropped(d, N) = Body(Dropped(d, N))
  BY <1>11 DEF Dropped
<1> DEFINE g == Dropped(d, N)
           Q == {m \in Nat : m <= N => g[m] = f[m]}
<1>13. Nat \subseteq Q
  <2> HIDE DEF g
  <2>1. g = Body(g)
    BY <1>12 DEF g
  <2>2. 0 \in Q
    BY <2>1, <1>5
  <2>3. ASSUME NEW m \in Nat, m \in Q PROVE m + 1 \in Q
    <3>1. SUFFICES ASSUME m + 1 <= N PROVE g[m + 1] = f[m + 1]
      OBVIOUS
    <3>2. m + 1 \in 0..N /\ m + 1 # 0 /\ (m + 1) - 1 = m /\ m + 1 \in 1..N
      BY <3>1
    <3>3. g[m + 1] = DropFromLongest(g[m])
      BY <3>2, <2>1
    <3>4. f[m + 1] = DropFromLongest(f[m])
      BY <3>2, <1>10
    <3>5. g[m] = f[m]
      BY <2>3, <3>1
    <3> QED
      BY <3>3, <3>4, <3>5
  <2> QED
    BY <2>2, <2>3, CountUp
<1>14. Dropped(d, N)[N] = f[N]
  BY <1>13
<1> QED
  BY <1>9, <1>14

\* _enforce_max_total
LEMMA TrimDict ==
  ASSUME NEW d, IsDict(d)
  PROVE  /\ IsDict(TrimTotal(d))
         /\ \A c \in Chats : Behind(ItemsOf(TrimTotal(d), c), ItemsOf(d, c))
         /\ MaxTotal > 0 => TotalPending(TrimTotal(d)) <= MaxTotal
<1> DEFINE N == IF MaxTotal > 0 /\ TotalPending(d) > MaxTotal
                THEN TotalPending(d) - MaxTotal ELSE 0
<1>1. TotalPending(d) \in Nat /\ MaxTotal \in Nat
  BY RowsFinite, TaskQueueAssumption DEF TotalPending, IsDict, TaskQueueAssumption
<1>2. TrimTotal(d) = Dropped(d, N)[N]
  BY DEF TrimTotal, Dropped
<1>3. N \in Nat /\ N <= TotalPending(d) /\ (MaxTotal > 0 => TotalPending(d) - N <= MaxTotal)
  BY <1>1
<1> HIDE DEF N
<1>4. LessRows(TrimTotal(d), d, N)
  BY <1>2, <1>3, DroppedRows
<1> QED
  BY <1>3, <1>4 DEF LessRows

\* q.append(item): one row more.
LEMMA AppendRow ==
  ASSUME NEW d, IsDict(d), NEW c \in Chats, NEW x \in Item
  PROVE  TotalPending(Put(d, c, Append(ItemsOf(d, c), x))) <= TotalPending(d) + 1
<1> DEFINE q == ItemsOf(d, c)
           s == Append(q, x)
           e == Put(d, c, s)
<1>1. /\ d \in Seq(Dict) /\ Len(d) \in Nat /\ DOMAIN d = 1..Len(d)
      /\ IsFiniteSet(Rows(d)) /\ Cardinality(Rows(d)) \in Nat
      /\ q \in Seq(Item)
  BY DictFacts, RowsFinite, ItemsOfEntry
<1>2. /\ s \in Seq(Item) /\ Len(s) = Len(q) + 1 /\ Len(q) \in Nat
      /\ DOMAIN s = 1..Len(s) /\ DOMAIN q = 1..Len(q)
  BY <1>1, AppendProperties, LenProperties
<1> HIDE DEF s
<1>3. IsDict(e)
  BY <1>2, PutDict
<1>4. \E y : Rows(e) \subseteq Rows(d) \cup {y}
  <2>1. CASE c \in Keys(d)
    <3>1. PICK i \in DOMAIN d : d[i].chat = c
      BY <2>1 DEF Keys
    <3>2. /\ DOMAIN e = DOMAIN d
          /\ \A j \in DOMAIN d : e[j].items = IF j = i THEN s ELSE d[j].items
      BY <3>1, <1>2, PutEntries
    <3>3. q = d[i].items
      BY <3>1, ItemsOfEntry
    <3> HIDE DEF e, q
    <3>4. ASSUME NEW r \in Rows(e) PROVE r \in Rows(d) \/ r = <<i, Len(s)>>
      <4>1. PICK j \in DOMAIN e : \E k \in DOMAIN e[j].items : r = <<j, k>>
        BY RowsMember
      <4>2. PICK k \in DOMAIN e[j].items : r = <<j, k>>
        BY <4>1
      <4>3. CASE j = i
        <5>1. k \in 1..Len(s) /\ d[j].items = q
          BY <4>2, <4>3, <3>1, <3>2, <3>3, <1>2
        <5>2. k \in DOMAIN d[j].items \/ k = Len(s)
          BY <5>1, <1>2
        <5> QED
          BY <5>2, <4>2, <4>3, <3>1, RowsMember
      <4>4. CASE j # i
        BY <4>1, <4>2, <4>4, <3>2, RowsMember
      <4> QED
        BY <4>3, <4>4
    <3> QED
      BY <3>4
  <2>2. CASE c \notin Keys(d)
    <3> DEFINE z == [chat |-> c, items |-> s]
    <3>1. q = <<>>
      BY <2>2, ItemsOfEntry
    <3>2. e = Append(d, z) /\ z \in Dict /\ z.items = s
      BY <2>2, <1>2 DEF Put, Dict
    <3> HIDE DEF z, e, q
    <3>3. /\ Len(e) = Len(d) + 1 /\ DOMAIN e = 1..Len(e) /\ e[Len(e)] = z
          /\ \A i \in 1..Len(d) : e[i] = d[i]
      BY <3>2, <1>1, AppendProperties, LenProperties
    <3>4. DOMAIN s = {1}
      <4>1. Len(q) = 0
        BY <3>1
      <4>2. Len(s) = 1
        BY <4>1, <1>2
      <4> QED
        BY <4>2, <1>2
    <3>5. ASSUME NEW r \in Rows(e) PROVE r \in Rows(d) \/ r = <<Len(e), 1>>
      <4>1. PICK j \in DOMAIN e : \E k \in DOMAIN e[j].items : r = <<j, k>>
        BY RowsMember
      <4>2. PICK k \in DOMAIN e[j].items : r = <<j, k>>
        BY <4>1
      <4>3. CASE j = Len(e)
        BY <4>2, <4>3, <3>2, <3>3, <3>4
      <4>4. CASE j # Len(e)
        <5>1. j \in DOMAIN d /\ e[j] = d[j]
          BY <4>4, <3>3, <1>1
        <5> QED
          BY <5>1, <4>2, RowsMember
      <4> QED
        BY <4>3, <4>4
    <3> QED
      BY <3>5
  <2> QED
    BY <2>1, <2>2
<1>5. PICK y : Rows(e) \subseteq Rows(d) \cup {y}
  BY <1>4
<1> HIDE DEF e
<1>6. IsFiniteSet(Rows(d) \cup {y}) /\ Cardinality(Rows(d) \cup {y}) <= Cardinality(Rows(d)) + 1
  <2>1. /\ IsFiniteSet(Rows(d) \cup {y})
        /\ Cardinality(Rows(d) \cup {y}) =
             IF y \in Rows(d) THEN Cardinality(Rows(d)) ELSE Cardinality(Rows(d)) + 1
    BY <1>1, FS_AddElement
  <2> QED
    BY <2>1, <1>1
<1>7. Cardinality(Rows(e)) <= Cardinality(Rows(d) \cup {y}) /\ Cardinality(Rows(e)) \in Nat
  BY <1>3, <1>5, <1>6, FS_Subset, RowsFinite DEF IsDict
<1>8. Cardinality(Rows(d) \cup {y}) \in Nat
  BY <1>6, FS_CardinalityType
<1>9. Cardinality(Rows(e)) <= Cardinality(Rows(d)) + 1
  BY <1>1, <1>6, <1>7, <1>8
<1> QED
  BY <1>9 DEF TotalPending, e, s

\* One chat changed its items, within its cap.
LEMMA PutPerChat ==
  ASSUME NEW d, IsDict(d), PerChatCap(d), NEW c \in Chats, NEW s \in Seq(Item),
         MaxPerChat > 0 => Len(s) <= MaxPerChat
  PROVE  IsDict(Put(d, c, s)) /\ PerChatCap(Put(d, c, s))
<1>1. /\ IsDict(Put(d, c, s))
      /\ \A b \in Chats : ItemsOf(Put(d, c, s), b) = IF b = c THEN s ELSE ItemsOf(d, b)
  BY PutDict
<1>2. /\ Cardinality(FreshPlaces(s)) \in Nat /\ Cardinality(FreshPlaces(s)) <= Len(s)
      /\ Len(s) \in Nat /\ MaxPerChat \in Nat
  BY FreshCount, LenProperties, TaskQueueAssumption DEF TaskQueueAssumption
<1>3. MaxPerChat > 0 => Cardinality(FreshPlaces(s)) <= MaxPerChat
  BY <1>2
<1>4. PerChatCap(Put(d, c, s))
  BY <1>1, <1>3 DEF PerChatCap
<1> QED
  BY <1>1, <1>4

LEMMA LastFewItems ==
  ASSUME NEW s \in Seq(Item)
  PROVE  LastFew(s) \in Seq(Item) /\ (MaxPerChat > 0 => Len(LastFew(s)) <= MaxPerChat)
<1>1. MaxPerChat \in Nat /\ Len(s) \in Nat /\ \A i \in 1..Len(s) : s[i] \in Item
  BY LenProperties, ElementOfSeq, TaskQueueAssumption DEF TaskQueueAssumption
<1>2. CASE MaxPerChat > 0 /\ Len(s) > MaxPerChat
  <2> DEFINE m == Len(s) - MaxPerChat + 1
  <2>1. m \in Int /\ m >= 1 /\ m <= Len(s) /\ Len(s) - m + 1 = MaxPerChat
    BY <1>1, <1>2
  <2>2. LastFew(s) = SubSeq(s, m, Len(s))
    BY <1>2 DEF LastFew
  <2> HIDE DEF m
  <2>3. \A i \in m..Len(s) : s[i] \in Item
    BY <1>1, <2>1
  <2>4. /\ SubSeq(s, m, Len(s)) \in Seq(Item)
        /\ Len(SubSeq(s, m, Len(s))) = IF m <= Len(s) THEN Len(s) - m + 1 ELSE 0
    BY <1>1, <2>1, <2>3, SubSeqProperties
  <2> QED
    BY <2>1, <2>2, <2>4, <1>1
<1>3. CASE ~(MaxPerChat > 0 /\ Len(s) > MaxPerChat)
  BY <1>1, <1>3 DEF LastFew
<1> QED
  BY <1>2, <1>3

\* A row put in by an enqueue that drops the oldest.
LEMMA DropOldestDict ==
  ASSUME NEW d, StoreDict(d), NEW c \in Chats, NEW x \in Item
  PROVE  StoreDict(TrimTotal(Put(d, c, LastFew(Append(ItemsOf(d, c), x)))))
<1> DEFINE s == LastFew(Append(ItemsOf(d, c), x))
           e == Put(d, c, s)
           t == TrimTotal(e)
<1>1. Append(ItemsOf(d, c), x) \in Seq(Item)
  BY ItemsOfEntry, AppendProperties DEF StoreDict
<1>2. s \in Seq(Item) /\ (MaxPerChat > 0 => Len(s) <= MaxPerChat)
  BY <1>1, LastFewItems
<1> HIDE DEF s
<1>3. IsDict(e) /\ PerChatCap(e)
  BY <1>2, PutPerChat DEF StoreDict
<1> HIDE DEF e
<1>4. /\ IsDict(t)
      /\ \A b \in Chats : Behind(ItemsOf(t, b), ItemsOf(e, b))
      /\ MaxTotal > 0 => TotalPending(t) <= MaxTotal
  BY <1>3, TrimDict
<1> HIDE DEF t
<1>5. PerChatCap(t)
  <2>1. \A b \in Chats : /\ Cardinality(FreshPlaces(ItemsOf(t, b))) \in Nat
                         /\ Cardinality(FreshPlaces(ItemsOf(e, b))) \in Nat
                         /\ Cardinality(FreshPlaces(ItemsOf(t, b)))
                              <= Cardinality(FreshPlaces(ItemsOf(e, b)))
    BY <1>3, <1>4, ItemsOfEntry, BehindFresh, FreshCount, FreshWithinCount
  <2>2. MaxPerChat \in Nat
    BY TaskQueueAssumption DEF TaskQueueAssumption
  <2> QED
    BY <2>1, <2>2, <1>3 DEF PerChatCap
<1>6. TotalCap(t)
  <2>1. /\ Cardinality(FreshRows(t)) \in Nat /\ Cardinality(FreshRows(t)) <= TotalPending(t)
        /\ TotalPending(t) \in Nat /\ MaxTotal \in Nat
    BY <1>4, FreshRowsFinite, RowsFinite, TaskQueueAssumption
    DEF IsDict, TotalPending, TaskQueueAssumption
  <2> QED
    BY <2>1, <1>4 DEF TotalCap
<1> QED
  BY <1>4, <1>5, <1>6 DEF StoreDict, t, e, s

\* A row put in by an enqueue that would have been refused at a cap.
LEMMA RejectDict ==
  ASSUME NEW d, StoreDict(d), NEW c \in Chats, NEW x \in Item,
         ~(MaxTotal > 0 /\ TotalPending(d) >= MaxTotal),
         ~(MaxPerChat > 0 /\ Len(ItemsOf(d, c)) >= MaxPerChat)
  PROVE  StoreDict(Put(d, c, Append(ItemsOf(d, c), x)))
<1> DEFINE q == ItemsOf(d, c)
           s == Append(q, x)
           e == Put(d, c, s)
<1>1. q \in Seq(Item)
  BY ItemsOfEntry DEF StoreDict
<1>2. s \in Seq(Item) /\ Len(s) = Len(q) + 1 /\ Len(q) \in Nat
  BY <1>1, AppendProperties, LenProperties
<1>3. MaxPerChat \in Nat /\ MaxTotal \in Nat
  BY TaskQueueAssumption DEF TaskQueueAssumption
<1>4. MaxPerChat > 0 => Len(s) <= MaxPerChat
  BY <1>2, <1>3
<1>5. TotalPending(e) <= TotalPending(d) + 1
  BY AppendRow DEF StoreDict
<1> HIDE DEF s, q
<1>6. IsDict(e) /\ PerChatCap(e)
  BY <1>2, <1>4, PutPerChat DEF StoreDict
<1> HIDE DEF e
<1>7. TotalCap(e)
  <2>1. /\ Cardinality(FreshRows(e)) \in Nat /\ Cardinality(FreshRows(e)) <= TotalPending(e)
        /\ TotalPending(e) \in Nat /\ TotalPending(d) \in Nat
    BY <1>6, FreshRowsFinite, RowsFinite DEF IsDict, TotalPending, StoreDict
  <2> QED
    BY <2>1, <1>3, <1>5 DEF TotalCap
<1> QED
  BY <1>6, <1>7 DEF StoreDict, e, s, q

\* Every dict with no row more, chat by chat, is within the caps.
LEMMA LessDict ==
  ASSUME NEW d, StoreDict(d), NEW e, IsDict(e),
         \A c \in Chats : FreshWithin(ItemsOf(e, c), ItemsOf(d, c))
  PROVE  StoreDict(e)
BY CapsWithin DEF StoreDict

LEMMA PurgedStore ==
  ASSUME NEW d, StoreDict(d), NEW t
  PROVE  StoreDict(PurgedAt(d, t))
<1>1. IsDict(d)
  BY DEF StoreDict
<1>2. /\ IsDict(PurgedAt(d, t))
      /\ \A c : ItemsOf(PurgedAt(d, t), c) = LiveAt(ItemsOf(d, c), t)
  BY <1>1, PurgeDict
<1>3. \A c \in Chats : FreshWithin(LiveAt(ItemsOf(d, c), t), ItemsOf(d, c))
  BY <1>1, ItemsOfEntry, FilterFresh DEF LiveAt
<1> QED
  BY <1>2, <1>3, LessDict

LEMMA NonEmptyStore ==
  ASSUME NEW d, StoreDict(d)
  PROVE  StoreDict(NonEmpty(d))
<1>1. IsDict(d)
  BY DEF StoreDict
<1> QED
  BY <1>1, NonEmptyDict, FreshWithinItself, LessDict

LEMMA SetDefaultStore ==
  ASSUME NEW d, StoreDict(d), NEW c \in Chats
  PROVE  StoreDict(Put(d, c, ItemsOf(d, c)))
<1>1. IsDict(d) /\ ItemsOf(d, c) \in Seq(Item)
  BY ItemsOfEntry DEF StoreDict
<1>2. /\ IsDict(Put(d, c, ItemsOf(d, c)))
      /\ \A b \in Chats : ItemsOf(Put(d, c, ItemsOf(d, c)), b) = ItemsOf(d, b)
  BY <1>1, PutDict
<1> QED
  BY <1>2, FreshWithinItself, LessDict

LEMMA PopStore ==
  ASSUME NEW d, StoreDict(d), NEW c \in Chats, ItemsOf(d, c) # <<>>
  PROVE  StoreDict(PutOrDelete(d, c, Tail(ItemsOf(d, c))))
<1> DEFINE u == Tail(ItemsOf(d, c))
           e == PutOrDelete(d, c, u)
<1>1. IsDict(d) /\ ItemsOf(d, c) \in Seq(Item)
  BY ItemsOfEntry DEF StoreDict
<1>2. u \in Seq(Item) /\ FreshWithin(u, ItemsOf(d, c))
  BY <1>1, TailBehind, BehindFresh
<1> HIDE DEF u
<1>3. /\ IsDict(e)
      /\ \A b \in Chats : ItemsOf(e, b) = IF b = c THEN u ELSE ItemsOf(d, b)
  BY <1>1, <1>2, PutOrDeleteDict
<1> HIDE DEF e
<1>4. \A b \in Chats : FreshWithin(ItemsOf(e, b), ItemsOf(d, b))
  BY <1>2, <1>3, FreshWithinItself
<1>5. StoreDict(e)
  BY <1>3, <1>4, LessDict
<1> QED
  BY <1>5 DEF e, u

LEMMA DiscardStore ==
  ASSUME NEW d, StoreDict(d), NEW c \in Chats
  PROVE  StoreDict(Delete(d, c))
<1>1. IsDict(d)
  BY DEF StoreDict
<1>2. /\ IsDict(Delete(d, c))
      /\ \A b : ItemsOf(Delete(d, c), b) = IF b = c THEN <<>> ELSE ItemsOf(d, b)
  BY <1>1, DeleteDict
<1>3. \A s : FreshWithin(<<>>, s)
  <2>1. FreshPlaces(<<>>) = {}
    BY DEF FreshPlaces
  <2>2. ASSUME NEW s PROVE FreshWithin(<<>>, s)
    <3> DEFINE h == [k \in {} |-> k]
    <3>1. h \in [{} -> FreshPlaces(s)]
      OBVIOUS
    <3> QED
      BY <3>1, <2>1 DEF FreshWithin
  <2> QED
    BY <2>2
<1>4. \A b \in Chats : FreshWithin(ItemsOf(Delete(d, c), b), ItemsOf(d, b))
  BY <1>2, <1>3, FreshWithinItself
<1> QED
  BY <1>2, <1>4, LessDict

LEMMA RecoverStore ==
  ASSUME NEW d, StoreDict(d), NEW c \in Chats, NEW x \in Item, x.recovered
  PROVE  StoreDict(Put(d, c, <<x>> \o ItemsOf(d, c)))
<1> DEFINE u == <<x>> \o ItemsOf(d, c)
           e == Put(d, c, u)
<1>1. IsDict(d) /\ ItemsOf(d, c) \in Seq(Item)
  BY ItemsOfEntry DEF StoreDict
<1>2. u \in Seq(Item) /\ FreshWithin(u, ItemsOf(d, c))
  BY <1>1, RecoveredFresh
<1> HIDE DEF u
<1>3. /\ IsDict(e)
      /\ \A b \in Chats : ItemsOf(e, b) = IF b = c THEN u ELSE ItemsOf(d, b)
  BY <1>1, <1>2, PutDict
<1> HIDE DEF e
<1>4. \A b \in Chats : FreshWithin(ItemsOf(e, b), ItemsOf(d, b))
  BY <1>2, <1>3, FreshWithinItself
<1>5. StoreDict(e)
  BY <1>3, <1>4, LessDict
<1> QED
  BY <1>5 DEF e, u

-----------------------------------------------------------------------------
(* The invariant.                                                          *)

Marks == [Chats -> Running \cup {None}]

\* The file and the memory hold the same live rows and marks at time t.
Rebuilds(file, qs, ip, t) ==
  /\ \A c \in Chats : LiveAt(ItemsOf(file.queues, c), t) = LiveAt(ItemsOf(qs, c), t)
  /\ MarksAt(file.inProgress, t) = MarksAt(ip, t)

\* The dicts of the memory and of the file are within the caps, and while the
\* last write succeeded the file rebuilds the memory.
StoreInv ==
  /\ mode \in Modes /\ unsaved \in 0..MaxUnsaved /\ now \in 0..MaxTime
  /\ StoreDict(queues) /\ inProgress \in Marks
  /\ disk = [queues |-> disk.queues, inProgress |-> disk.inProgress]
  /\ StoreDict(disk.queues) /\ disk.inProgress \in Marks
  /\ unsaved = 0 => Rebuilds(disk, queues, inProgress, now)

LEMMA MarksTyped ==
  ASSUME NEW ip \in Marks, NEW t
  PROVE  MarksAt(ip, t) \in Marks
BY DEF Marks, MarksAt

LEMMA MarksLater ==
  ASSUME NEW ip \in Marks, NEW t \in Int, NEW u \in Int, t <= u
  PROVE  MarksAt(MarksAt(ip, t), u) = MarksAt(ip, u)
<1>1. InProgressTtl \in Nat /\ None \notin Tasks
  BY TaskQueueAssumption DEF TaskQueueAssumption
<1>2. ASSUME NEW c \in Chats PROVE MarksAt(MarksAt(ip, t), u)[c] = MarksAt(ip, u)[c]
  <2>1. ip[c] = None \/ ip[c].at \in Int
    BY TaskQueueAssumption DEF Marks, Running, TaskQueueAssumption
  <2> QED
    BY <1>1, <2>1 DEF MarksAt
<1> QED
  BY <1>2 DEF MarksAt

\* A purge leaves what the file rebuilds as it was.
LEMMA PurgeRebuilds ==
  ASSUME NEW qs, IsDict(qs), NEW ip \in Marks, NEW t \in Int
  PROVE  /\ \A c : LiveAt(ItemsOf(PurgedAt(qs, t), c), t) = LiveAt(ItemsOf(qs, c), t)
         /\ MarksAt(MarksAt(ip, t), t) = MarksAt(ip, t)
<1>1. \A c : LiveAt(LiveAt(ItemsOf(qs, c), t), t) = LiveAt(ItemsOf(qs, c), t)
  BY ItemsOfEntry, LiveLater
<1> QED
  BY <1>1, PurgeDict, MarksLater

LEMMA NowIsInt ==
  ASSUME StoreInv
  PROVE  now \in Int
BY TaskQueueAssumption DEF StoreInv, TaskQueueAssumption

\* A call that ends in _save.
LEMMA SaveKeeps ==
  ASSUME StoreInv, NEW d, StoreDict(d), NEW ip \in Marks,
         Save(d, ip), mode' = mode, now' = now
  PROVE  StoreInv'
<1>1. IsDict(d)
  BY DEF StoreDict
<1>2. queues' = PurgedAt(d, now) /\ inProgress' = MarksAt(ip, now)
  BY <1>1, PurgedQueuesIsPurged, PurgedInProgressIsMarks DEF Save
<1>3. StoreDict(queues') /\ inProgress' \in Marks
  BY <1>2, PurgedStore, MarksTyped
<1>4. CASE unsaved' = 0 /\ disk' = [queues |-> queues', inProgress |-> inProgress']
  <2>1. disk'.queues = queues' /\ disk'.inProgress = inProgress'
    BY <1>4
  <2>2. Rebuilds(disk', queues', inProgress', now')
    BY <2>1 DEF Rebuilds
  <2> QED
    BY <1>3, <1>4, <2>1, <2>2, TaskQueueAssumption DEF StoreInv, TaskQueueAssumption
<1>5. CASE unsaved < MaxUnsaved /\ unsaved' = unsaved + 1 /\ disk' = disk
  <2>1. unsaved' \in 0..MaxUnsaved /\ unsaved' # 0
    BY <1>5, TaskQueueAssumption DEF StoreInv, TaskQueueAssumption
  <2> QED
    BY <1>3, <1>5, <2>1 DEF StoreInv
<1> QED
  BY <1>4, <1>5 DEF Save

\* A call that changes the memory only: a purge, and at most an empty list.
LEMMA MemoryKeeps ==
  ASSUME StoreInv, StoreDict(queues'), UNCHANGED <<mode, disk, unsaved, now>>,
         \A c \in Chats : LiveAt(ItemsOf(queues', c), now) = LiveAt(ItemsOf(queues, c), now),
         inProgress' = MarksAt(inProgress, now)
  PROVE  StoreInv'
<1>1. inProgress \in Marks /\ now \in Int
  BY NowIsInt DEF StoreInv
<1>2. inProgress' \in Marks /\ MarksAt(inProgress', now) = MarksAt(inProgress, now)
  BY <1>1, MarksTyped, MarksLater
<1>3. unsaved = 0 => Rebuilds(disk, queues', inProgress', now)
  BY <1>2 DEF StoreInv, Rebuilds
<1> QED
  BY <1>2, <1>3 DEF StoreInv

LEMMA PurgeOnlyKeeps ==
  ASSUME StoreInv, PurgeOnly, mode' = mode, now' = now
  PROVE  StoreInv'
<1>1. IsDict(queues) /\ StoreDict(queues) /\ inProgress \in Marks /\ now \in Int
  BY NowIsInt DEF StoreInv, StoreDict
<1>2. queues' = PurgedAt(queues, now) /\ inProgress' = MarksAt(inProgress, now)
  BY <1>1, PurgedQueuesIsPurged, PurgedInProgressIsMarks DEF PurgeOnly
<1>3. StoreDict(queues')
  BY <1>1, <1>2, PurgedStore
<1>4. \A c \in Chats : LiveAt(ItemsOf(queues', c), now) = LiveAt(ItemsOf(queues, c), now)
  BY <1>1, <1>2, PurgeRebuilds
<1> QED
  BY <1>2, <1>3, <1>4, MemoryKeeps DEF PurgeOnly

LEMMA PurgedFacts ==
  ASSUME StoreInv
  PROVE  PurgedQueues(queues) = PurgedAt(queues, now) /\ StoreDict(PurgedAt(queues, now))
BY PurgedQueuesIsPurged, PurgedStore DEF StoreInv, StoreDict

LEMMA EnqueueKeeps ==
  ASSUME StoreInv, NEW c \in Chats, NEW t \in Tasks, Enqueue(c, t), mode' = mode
  PROVE  StoreInv'
<1> DEFINE d == PurgedAt(queues, now)
           q == ItemsOf(d, c)
           x == [task |-> t, at |-> now, recovered |-> FALSE]
<1>1. StoreDict(d) /\ PurgedQueues(queues) = d
  BY PurgedFacts
<1>2. x \in Item /\ inProgress \in Marks
  BY DEF StoreInv, Item
<1>3. now' = now
  BY DEF Enqueue
<1> HIDE DEF x
<1>4. CASE mode = "reject"
  <2>1. /\ ~(MaxTotal > 0 /\ TotalPending(d) >= MaxTotal)
        /\ ~(MaxPerChat > 0 /\ Len(q) >= MaxPerChat)
        /\ Save(Put(d, c, Append(q, x)), inProgress)
    BY <1>1, <1>4 DEF Enqueue, x
  <2> HIDE DEF d
  <2>2. StoreDict(Put(d, c, Append(q, x)))
    BY <1>1, <1>2, <2>1, RejectDict
  <2> HIDE DEF q
  <2> QED
    BY <1>2, <1>3, <2>1, <2>2, SaveKeeps
<1>5. CASE mode # "reject"
  <2>1. Save(TrimTotal(Put(d, c, LastFew(Append(q, x)))), inProgress)
    BY <1>1, <1>5 DEF Enqueue, x
  <2> HIDE DEF d
  <2>2. StoreDict(TrimTotal(Put(d, c, LastFew(Append(q, x)))))
    BY <1>1, <1>2, DropOldestDict
  <2> HIDE DEF q
  <2> QED
    BY <1>2, <1>3, <2>1, <2>2, SaveKeeps
<1> QED
  BY <1>4, <1>5

LEMMA EnqueueRefusedKeeps ==
  ASSUME StoreInv, NEW c \in Chats, EnqueueRefused(c), mode' = mode
  PROVE  StoreInv'
<1> DEFINE d == PurgedAt(queues, now)
<1>1. StoreDict(d) /\ IsDict(d) /\ PurgedQueues(queues) = d /\ IsDict(queues)
      /\ inProgress \in Marks /\ now \in Int
  BY PurgedFacts, NowIsInt DEF StoreInv, StoreDict
<1>2. /\ queues' = Put(d, c, ItemsOf(d, c)) /\ inProgress' = MarksAt(inProgress, now)
      /\ UNCHANGED <<disk, unsaved, now>>
  BY <1>1, PurgedInProgressIsMarks DEF EnqueueRefused
<1>3. \A b \in Chats : LiveAt(ItemsOf(d, b), now) = LiveAt(ItemsOf(queues, b), now)
  BY <1>1, PurgeRebuilds
<1> HIDE DEF d
<1>4. StoreDict(queues')
  BY <1>1, <1>2, SetDefaultStore
<1>5. \A b \in Chats : ItemsOf(queues', b) = ItemsOf(d, b)
  <2>1. ItemsOf(d, c) \in Seq(Item)
    BY <1>1, ItemsOfEntry
  <2> QED
    BY <1>1, <1>2, <2>1, PutDict
<1> QED
  BY <1>2, <1>3, <1>4, <1>5, MemoryKeeps

LEMMA PopNextKeeps ==
  ASSUME StoreInv, NEW c \in Chats, PopNext(c), mode' = mode
  PROVE  StoreInv'
<1> DEFINE d == PurgedAt(queues, now)
<1>1. StoreDict(d) /\ PurgedQueues(queues) = d /\ inProgress \in Marks /\ now' = now
  BY PurgedFacts DEF StoreInv, PopNext
<1>2. CASE ItemsOf(d, c) = <<>>
  BY <1>1, <1>2, PurgeOnlyKeeps DEF PopNext
<1>3. CASE ItemsOf(d, c) # <<>>
  <2>1. Save(PutOrDelete(d, c, Tail(ItemsOf(d, c))), inProgress)
    BY <1>1, <1>3 DEF PopNext
  <2> HIDE DEF d
  <2>2. StoreDict(PutOrDelete(d, c, Tail(ItemsOf(d, c))))
    BY <1>1, <1>3, PopStore
  <2> QED
    BY <1>1, <2>1, <2>2, SaveKeeps
<1> QED
  BY <1>2, <1>3

LEMMA MarkedTyped ==
  ASSUME StoreInv, NEW c \in Chats, NEW m \in Running \cup {None}
  PROVE  [inProgress EXCEPT ![c] = m] \in Marks
BY DEF StoreInv, Marks

LEMMA MarkStartedKeeps ==
  ASSUME StoreInv, NEW c \in Chats, NEW t \in Tasks, MarkStarted(c, t), mode' = mode
  PROVE  StoreInv'
<1>1. [task |-> t, at |-> now] \in Running \cup {None}
  BY DEF StoreInv, Running
<1>2. [inProgress EXCEPT ![c] = [task |-> t, at |-> now]] \in Marks
  BY <1>1, MarkedTyped
<1> QED
  BY <1>2, SaveKeeps DEF MarkStarted, StoreInv

LEMMA MarkFinishedKeeps ==
  ASSUME StoreInv, NEW c \in Chats, MarkFinished(c), mode' = mode
  PROVE  StoreInv'
BY MarkedTyped, SaveKeeps DEF MarkFinished, StoreInv

LEMMA DiscardAllKeeps ==
  ASSUME StoreInv, NEW c \in Chats, DiscardAll(c), mode' = mode
  PROVE  StoreInv'
<1>1. StoreDict(Delete(queues, c))
  BY DiscardStore DEF StoreInv
<1> QED
  BY <1>1, MarkedTyped, SaveKeeps DEF DiscardAll

LEMMA RecoverInProgressKeeps ==
  ASSUME StoreInv, NEW c \in Chats, RecoverInProgress(c), mode' = mode
  PROVE  StoreInv'
<1> DEFINE x == [task |-> inProgress[c].task, at |-> inProgress[c].at, recovered |-> TRUE]
<1>1. x \in Item /\ x.recovered
  BY DEF StoreInv, Marks, Running, Item, RecoverInProgress
<1>2. /\ Save(Put(queues, c, <<x>> \o ItemsOf(queues, c)), [inProgress EXCEPT ![c] = None])
      /\ now' = now
  BY DEF RecoverInProgress
<1> HIDE DEF x
<1>3. StoreDict(Put(queues, c, <<x>> \o ItemsOf(queues, c)))
  BY <1>1, RecoverStore DEF StoreInv
<1> QED
  BY <1>2, <1>3, MarkedTyped, SaveKeeps

LEMMA ReloadKeeps ==
  ASSUME StoreInv, Reload, mode' = mode
  PROVE  StoreInv'
<1> DEFINE d == NonEmpty(disk.queues)
<1>1. StoreDict(d) /\ IsDict(d) /\ IsDict(disk.queues) /\ disk.inProgress \in Marks /\ now \in Int
  BY NonEmptyStore, NowIsInt DEF StoreInv, StoreDict
<1>2. /\ queues' = PurgedAt(d, now) /\ inProgress' = MarksAt(disk.inProgress, now)
      /\ unsaved' = 0 /\ UNCHANGED <<disk, now>>
  BY <1>1, PurgedQueuesIsPurged, PurgedInProgressIsMarks DEF Reload
<1>3. \A c : ItemsOf(d, c) = ItemsOf(disk.queues, c)
  BY <1>1, NonEmptyDict
<1> HIDE DEF d
<1>4. StoreDict(queues') /\ inProgress' \in Marks
  BY <1>1, <1>2, PurgedStore, MarksTyped
<1>5. Rebuilds(disk, queues', inProgress', now)
  BY <1>1, <1>2, <1>3, PurgeRebuilds DEF Rebuilds
<1> QED
  BY <1>2, <1>4, <1>5, TaskQueueAssumption DEF StoreInv, TaskQueueAssumption

LEMMA TickKeeps ==
  ASSUME StoreInv, Tick, mode' = mode
  PROVE  StoreInv'
<1>1. /\ now \in Int /\ now + 1 \in Int /\ now' = now + 1 /\ now' \in 0..MaxTime
      /\ UNCHANGED <<queues, inProgress, disk, unsaved>>
  BY NowIsInt, TaskQueueAssumption DEF Tick, StoreInv, TaskQueueAssumption
<1>2. ASSUME unsaved = 0 PROVE Rebuilds(disk, queues, inProgress, now + 1)
  <2>1. Rebuilds(disk, queues, inProgress, now)
    BY <1>2 DEF StoreInv
  <2>2. ASSUME NEW c \in Chats
        PROVE  LiveAt(ItemsOf(disk.queues, c), now + 1) = LiveAt(ItemsOf(queues, c), now + 1)
    <3>1. ItemsOf(disk.queues, c) \in Seq(Item) /\ ItemsOf(queues, c) \in Seq(Item)
      BY ItemsOfEntry DEF StoreInv, StoreDict
    <3>2. /\ LiveAt(LiveAt(ItemsOf(disk.queues, c), now), now + 1) = LiveAt(ItemsOf(disk.queues, c), now + 1)
          /\ LiveAt(LiveAt(ItemsOf(queues, c), now), now + 1) = LiveAt(ItemsOf(queues, c), now + 1)
      BY <1>1, <3>1, LiveLater
    <3> QED
      BY <2>1, <3>2 DEF Rebuilds
  <2>3. MarksAt(disk.inProgress, now + 1) = MarksAt(inProgress, now + 1)
    <3>1. /\ MarksAt(MarksAt(disk.inProgress, now), now + 1) = MarksAt(disk.inProgress, now + 1)
          /\ MarksAt(MarksAt(inProgress, now), now + 1) = MarksAt(inProgress, now + 1)
      BY <1>1, MarksLater DEF StoreInv
    <3> QED
      BY <2>1, <3>1 DEF Rebuilds
  <2> QED
    BY <2>2, <2>3 DEF Rebuilds
<1> QED
  BY <1>1, <1>2 DEF StoreInv

-----------------------------------------------------------------------------
(* The theorems.                                                           *)

LEMMA InitStore ==
  ASSUME Init
  PROVE  StoreInv
<1>1. <<>> \in Seq(Dict) /\ DOMAIN <<>> = {}
  BY EmptySeq
<1>2. IsDict(<<>>)
  BY <1>1 DEF IsDict
<1>3. \A c : ItemsOf(<<>>, c) = <<>>
  BY <1>2, ItemsOfEntry DEF Keys
<1>4. FreshPlaces(<<>>) = {} /\ Rows(<<>>) = {}
  BY DEF FreshPlaces, Rows
<1>5. FreshRows(<<>>) = {}
  BY <1>4 DEF FreshRows
<1>6. {MaxPerChat, MaxTotal, MaxTime, MaxUnsaved} \subseteq Nat
  BY TaskQueueAssumption DEF TaskQueueAssumption
<1>7. PerChatCap(<<>>) /\ TotalCap(<<>>)
  <2>1. Cardinality({}) = 0
    BY FS_EmptySet
  <2>2. ASSUME NEW c \in Chats PROVE Cardinality(FreshPlaces(ItemsOf(<<>>, c))) = 0
    BY <1>3, <1>4, <2>1
  <2>3. Cardinality(FreshRows(<<>>)) = 0
    BY <1>5, <2>1
  <2> QED
    BY <1>6, <2>2, <2>3 DEF PerChatCap, TotalCap
<1>8. StoreDict(<<>>) /\ [c \in Chats |-> None] \in Marks
  BY <1>2, <1>7 DEF StoreDict, Marks
<1>9. disk.queues = queues /\ disk.inProgress = inProgress
  BY DEF Init
<1> QED
  BY <1>6, <1>8, <1>9 DEF Init, StoreInv, Rebuilds

LEMMA NextStore ==
  ASSUME StoreInv, [Next]_vars
  PROVE  StoreInv'
<1>1. CASE UNCHANGED vars
  BY <1>1 DEF vars, StoreInv
<1>2. CASE Next
  <2>1. mode' = mode
    BY <1>2 DEF Next
  <2>2. ASSUME NEW c \in Chats, NEW t \in Tasks, Enqueue(c, t) PROVE StoreInv'
    BY <2>1, <2>2, EnqueueKeeps
  <2>3. ASSUME NEW c \in Chats, NEW t \in Tasks, MarkStarted(c, t) PROVE StoreInv'
    BY <2>1, <2>3, MarkStartedKeeps
  <2>4. ASSUME NEW c \in Chats, EnqueueRefused(c) PROVE StoreInv'
    BY <2>1, <2>4, EnqueueRefusedKeeps
  <2>5. ASSUME NEW c \in Chats, PopNext(c) PROVE StoreInv'
    BY <2>1, <2>5, PopNextKeeps
  <2>6. ASSUME NEW c \in Chats, MarkFinished(c) PROVE StoreInv'
    BY <2>1, <2>6, MarkFinishedKeeps
  <2>7. ASSUME NEW c \in Chats, DiscardAll(c) PROVE StoreInv'
    BY <2>1, <2>7, DiscardAllKeeps
  <2>8. ASSUME NEW c \in Chats, RecoverInProgress(c) PROVE StoreInv'
    BY <2>1, <2>8, RecoverInProgressKeeps
  <2>9. ASSUME ListPending PROVE StoreInv'
    BY <2>1, <2>9, PurgeOnlyKeeps DEF ListPending
  <2>10. ASSUME Sweep PROVE StoreInv'
    <3>1. now' = now /\ StoreDict(queues) /\ inProgress \in Marks
      BY <2>10 DEF Sweep, StoreInv
    <3>2. Save(queues, inProgress) \/ PurgeOnly
      BY <2>10 DEF Sweep
    <3>3. CASE Save(queues, inProgress)
      BY <2>1, <3>1, <3>3, SaveKeeps
    <3>4. CASE PurgeOnly
      BY <2>1, <3>1, <3>4, PurgeOnlyKeeps
    <3> QED
      BY <3>2, <3>3, <3>4
  <2>11. ASSUME Reload PROVE StoreInv'
    BY <2>1, <2>11, ReloadKeeps
  <2>12. ASSUME Tick PROVE StoreInv'
    BY <2>1, <2>12, TickKeeps
  <2> QED
    BY <1>2, <2>2, <2>3, <2>4, <2>5, <2>6, <2>7, <2>8, <2>9, <2>10, <2>11, <2>12 DEF Next
<1> QED
  BY <1>1, <1>2

\* The invariant all the properties follow from: memory and file hold dicts
\* within the caps, and the file, if written last, rebuilds the memory.
THEOREM QueueInvariant == Spec => []StoreInv
<1>1. Init => StoreInv
  BY InitStore
<1>2. StoreInv /\ [Next]_vars => StoreInv'
  BY NextStore
<1> QED
  BY <1>1, <1>2, PTL DEF Spec

\* Every variable has its type, and the dict has one entry per chat.
THEOREM QueueTypeCorrect == Spec => []TypeOK
<1>1. StoreInv => TypeOK
  BY DEF StoreInv, StoreDict, IsDict, Marks, TypeOK
<1> QED
  BY <1>1, QueueInvariant, PTL

\* The per-chat cap, for every cap, time to live and number of chats.
THEOREM QueuePerChatCap == Spec => []PerChatCapHolds
<1>1. StoreInv => PerChatCapHolds
  BY DEF StoreInv, StoreDict, PerChatCap, PerChatCapHolds
<1> QED
  BY <1>1, QueueInvariant, PTL

\* The global cap: the trim loop ends under it and no other call goes over it.
THEOREM QueueTotalCap == Spec => []TotalCapHolds
<1>1. StoreInv => TotalCapHolds
  BY DEF StoreInv, StoreDict, TotalCap, TotalCapHolds
<1> QED
  BY <1>1, QueueInvariant, PTL

\* While the last write succeeded, reloading the file gives the live rows and
\* marks the process holds.
THEOREM QueueFileRebuilds == Spec => []FileRebuildsMemory
<1>1. ASSUME StoreInv PROVE FileRebuildsMemory
  <2>1. \A c \in Chats : /\ ItemsOf(disk.queues, c) \in Seq(Item)
                         /\ ItemsOf(queues, c) \in Seq(Item)
    BY <1>1, ItemsOfEntry DEF StoreInv, StoreDict
  <2>2. \A c \in Chats : /\ Unexpired(ItemsOf(disk.queues, c)) = LiveAt(ItemsOf(disk.queues, c), now)
                         /\ Unexpired(ItemsOf(queues, c)) = LiveAt(ItemsOf(queues, c), now)
    BY <2>1, UnexpiredIsLive
  <2> QED
    BY <1>1, <2>2, PurgedInProgressIsMarks DEF StoreInv, Rebuilds, FileRebuildsMemory
<1> QED
  BY <1>1, QueueInvariant, PTL

-----------------------------------------------------------------------------
(* The order of a chat's rows.                                             *)

\* A comprehension that keeps all is its list.
LEMMA FilterAll ==
  ASSUME NEW s, NEW V, \A k \in DOMAIN s : s[k] \in V
  PROVE  Filter(s, V) = s
<1>1. {i \in DOMAIN s : s[i] \in V} = DOMAIN s
  OBVIOUS
<1> QED
  BY <1>1 DEF Filter, Only

\* What is left of purged rows is not purged again.
LEMMA BehindLive ==
  ASSUME NEW u \in Seq(Item), NEW t, NEW s, Behind(s, LiveAt(u, t))
  PROVE  s \in Seq(Item) /\ LiveAt(s, t) = s
<1> DEFINE r == LiveAt(u, t)
<1>1. r \in Seq(Item) /\ Len(r) \in Nat
  BY LiveSeq, LenProperties
<1>2. \A k \in 1..Len(r) : r[k] \in Live(t)
  <2>1. PICK g : StandsAt(g, u, Live(t))
    BY FilterPlaces
  <2> QED
    BY <2>1 DEF StandsAt, LiveAt
<1> HIDE DEF r
<1>3. PICK n \in 0..Len(r) : Lacks(s, r, n)
  BY <1>1, BehindPlaces DEF r
<1>4. s \in Seq(Item) /\ DOMAIN s = 1..Len(s)
  BY <1>3, LenProperties DEF Lacks
<1>5. \A k \in DOMAIN s : s[k] \in Live(t)
  <2>1. ASSUME NEW k \in 1..Len(s) PROVE s[k] \in Live(t)
    <3>1. s[k] = r[k + n] /\ k + n \in 1..Len(r)
      BY <1>1, <1>3, <2>1 DEF Lacks
    <3> QED
      BY <1>2, <3>1
  <2> QED
    BY <1>4, <2>1
<1>6. Filter(s, Live(t)) = s
  BY <1>5, FilterAll
<1> QED
  BY <1>4, <1>6 DEF LiveAt

LEMMA BehindLiveShortened ==
  ASSUME StoreInv, NEW u \in Seq(Item), NEW s, Behind(s, LiveAt(u, now))
  PROVE  Shortened(s, u)
  BY UnexpiredIsLive DEF Shortened

LEMMA LiveShortened ==
  ASSUME StoreInv, NEW u \in Seq(Item)
  PROVE  Shortened(LiveAt(u, now), u)
  BY LiveSeq, BehindItself, BehindLiveShortened

\* _enforce_max_per_chat takes the first rows away.
LEMMA LastFewBehind ==
  ASSUME NEW s \in Seq(Item)
  PROVE  Behind(LastFew(s), s)
<1>1. MaxPerChat \in Nat /\ Len(s) \in Nat
  BY LenProperties, TaskQueueAssumption DEF TaskQueueAssumption
<1>2. CASE MaxPerChat > 0 /\ Len(s) > MaxPerChat
  <2>1. Len(s) - MaxPerChat \in 0..Len(s)
    BY <1>1, <1>2
  <2> QED
    BY <1>2, <2>1 DEF LastFew, Behind
<1>3. CASE ~(MaxPerChat > 0 /\ Len(s) > MaxPerChat)
  BY <1>3, BehindItself DEF LastFew
<1> QED
  BY <1>2, <1>3

\* The memory after a call that ends in _save.
LEMMA SavedRows ==
  ASSUME StoreInv, NEW d, IsDict(d), NEW ip, Save(d, ip), NEW b \in Chats
  PROVE  ItemsOf(queues', b) = LiveAt(ItemsOf(d, b), now) /\ inProgress' = MarksAt(ip, now)
<1>1. queues' = PurgedAt(d, now) /\ inProgress' = MarksAt(ip, now)
  BY PurgedQueuesIsPurged, PurgedInProgressIsMarks DEF Save
<1> QED
  BY <1>1, PurgeDict

\* The rows a process holds, and what a purge makes of them.
LEMMA OldRows ==
  ASSUME StoreInv, NEW b \in Chats
  PROVE  LET d == PurgedAt(queues, now)
         IN  /\ IsDict(queues) /\ IsDict(d) /\ PurgedQueues(queues) = d
             /\ ItemsOf(queues, b) \in Seq(Item)
             /\ ItemsOf(d, b) = LiveAt(ItemsOf(queues, b), now)
             /\ LiveAt(ItemsOf(d, b), now) = LiveAt(ItemsOf(queues, b), now)
<1>1. IsDict(queues) /\ now \in Int
  BY NowIsInt DEF StoreInv, StoreDict
<1> QED
  BY <1>1, PurgeDict, PurgedQueuesIsPurged, ItemsOfEntry, LiveLater

\* A call whose rows are purged and nothing else.
LEMMA PurgeMoves ==
  ASSUME StoreInv, NEW b \in Chats, ItemsOf(queues', b) = LiveAt(ItemsOf(queues, b), now)
  PROVE  RowsMove(b)
  BY OldRows, LiveShortened DEF RowsMove

LEMMA PurgeOnlyMoves ==
  ASSUME StoreInv, PurgeOnly, NEW b \in Chats
  PROVE  RowsMove(b)
<1>1. ItemsOf(queues', b) = LiveAt(ItemsOf(queues, b), now)
  BY OldRows DEF PurgeOnly
<1> QED
  BY <1>1, PurgeMoves

LEMMA SaveMoves ==
  ASSUME StoreInv, NEW ip, Save(queues, ip), NEW b \in Chats
  PROVE  RowsMove(b)
<1>1. ItemsOf(queues', b) = LiveAt(ItemsOf(queues, b), now)
  BY OldRows, SavedRows
<1> QED
  BY <1>1, PurgeMoves

\* A row that is put in now is not expired.
LEMMA NewRow ==
  ASSUME StoreInv, NEW t \in Tasks, NEW u \in Seq(Item)
  PROVE  LET x == [task |-> t, at |-> now, recovered |-> FALSE]
         IN  /\ x \in Item
             /\ Append(u, x) \in Seq(Item)
             /\ LiveAt(Append(u, x), now) = Append(LiveAt(u, now), x)
<1> DEFINE x == [task |-> t, at |-> now, recovered |-> FALSE]
<1>1. x \in Item /\ now \in Int /\ Ttl \in Nat
  BY NowIsInt, TaskQueueAssumption DEF StoreInv, Item, TaskQueueAssumption
<1>2. x.at = now
  OBVIOUS
<1> HIDE DEF x
<1>3. x \in Live(now)
  BY <1>1, <1>2 DEF Live
<1>4. LiveAt(Append(u, x), now) = Append(LiveAt(u, now), x)
  BY <1>1, <1>3, FilterAppend DEF LiveAt
<1> QED
  BY <1>1, <1>4, AppendProperties DEF x

LEMMA EnqueueMoves ==
  ASSUME StoreInv, NEW c \in Chats, NEW t \in Tasks, Enqueue(c, t), NEW b \in Chats
  PROVE  RowsMove(b)
<1> DEFINE d == PurgedAt(queues, now)
           q == ItemsOf(d, c)
           x == [task |-> t, at |-> now, recovered |-> FALSE]
           old == ItemsOf(queues, c)
           v == Append(old, x)
           k == IF mode = "reject" THEN Append(q, x) ELSE LastFew(Append(q, x))
           e == Put(d, c, k)
           f == IF mode = "reject" THEN e ELSE TrimTotal(e)
<1>1. /\ IsDict(d) /\ PurgedQueues(queues) = d /\ old \in Seq(Item)
      /\ q = LiveAt(old, now) /\ q \in Seq(Item)
  BY OldRows, LiveSeq
<1>2. /\ x \in Item /\ v \in Seq(Item)
      /\ Append(q, x) = LiveAt(v, now)
  BY <1>1, NewRow
<1>3. Save(f, inProgress)
  BY <1>1 DEF Enqueue
<1> HIDE DEF d, q, x, old, v
<1>4. k \in Seq(Item) /\ Behind(k, LiveAt(v, now))
  <2>1. Append(q, x) \in Seq(Item)
    BY <1>1, <1>2, AppendProperties
  <2> QED
    BY <1>2, <2>1, LastFewBehind, LastFewItems, BehindItself
<1> HIDE DEF k
<1>5. IsDict(e) /\ \A a \in Chats : ItemsOf(e, a) = IF a = c THEN k ELSE ItemsOf(d, a)
  BY <1>1, <1>4, PutDict
<1> HIDE DEF e
<1>6. IsDict(f) /\ Behind(ItemsOf(f, b), ItemsOf(e, b))
  BY <1>5, TrimDict, ItemsOfEntry, BehindItself
<1> HIDE DEF f
<1>7. ItemsOf(queues', b) = LiveAt(ItemsOf(f, b), now)
  BY <1>3, <1>6, SavedRows
<1>8. CASE b = c
  <2>1. LiveAt(v, now) \in Seq(Item)
    BY <1>2, LiveSeq
  <2>2. Behind(ItemsOf(f, b), LiveAt(v, now))
    BY <1>4, <1>5, <1>6, <1>8, <2>1, BehindTrans
  <2>3. Behind(ItemsOf(queues', b), LiveAt(v, now))
    BY <1>2, <1>7, <2>2, BehindLive
  <2>4. Shortened(ItemsOf(queues', b), v)
    BY <1>2, <2>3, BehindLiveShortened
  <2> QED
    BY <1>8, <2>4 DEF RowsMove, old, x, v
<1>9. CASE b # c
  <2>1. ItemsOf(e, b) = LiveAt(ItemsOf(queues, b), now) /\ ItemsOf(queues, b) \in Seq(Item)
    BY <1>5, <1>9, OldRows DEF d
  <2>2. Behind(ItemsOf(queues', b), LiveAt(ItemsOf(queues, b), now))
    BY <1>6, <1>7, <2>1, BehindLive
  <2> QED
    BY <2>1, <2>2, BehindLiveShortened DEF RowsMove
<1> QED
  BY <1>8, <1>9

LEMMA EnqueueRefusedMoves ==
  ASSUME StoreInv, NEW c \in Chats, EnqueueRefused(c), NEW b \in Chats
  PROVE  RowsMove(b)
<1> DEFINE d == PurgedAt(queues, now)
<1>1. /\ IsDict(d) /\ PurgedQueues(queues) = d /\ ItemsOf(d, c) \in Seq(Item)
      /\ ItemsOf(d, b) = LiveAt(ItemsOf(queues, b), now)
  BY OldRows, ItemsOfEntry
<1>2. queues' = Put(d, c, ItemsOf(d, c))
  BY <1>1 DEF EnqueueRefused
<1> HIDE DEF d
<1>3. ItemsOf(queues', b) = ItemsOf(d, b)
  BY <1>1, <1>2, PutDict
<1> QED
  BY <1>1, <1>3, PurgeMoves

LEMMA PopNextMoves ==
  ASSUME StoreInv, NEW c \in Chats, PopNext(c), NEW b \in Chats
  PROVE  RowsMove(b)
<1> DEFINE d == PurgedAt(queues, now)
           q == ItemsOf(d, c)
           u == Tail(q)
           e == PutOrDelete(d, c, u)
<1>1. /\ IsDict(d) /\ PurgedQueues(queues) = d /\ ItemsOf(queues, b) \in Seq(Item)
      /\ ItemsOf(d, b) = LiveAt(ItemsOf(queues, b), now) /\ q \in Seq(Item)
  BY OldRows, ItemsOfEntry
<1>2. CASE q = <<>>
  BY <1>1, <1>2, PurgeOnlyMoves DEF PopNext
<1>3. CASE q # <<>>
  <2>1. Save(e, inProgress)
    BY <1>1, <1>3 DEF PopNext
  <2> HIDE DEF d
  <2>2. u \in Seq(Item) /\ Behind(u, q)
    BY <1>1, <1>3, TailBehind
  <2> HIDE DEF u
  <2>3. IsDict(e) /\ ItemsOf(e, b) = IF b = c THEN u ELSE ItemsOf(d, b)
    BY <1>1, <2>2, PutOrDeleteDict
  <2> HIDE DEF e
  <2>4. ItemsOf(queues', b) = LiveAt(ItemsOf(e, b), now)
    BY <2>1, <2>3, SavedRows
  <2>5. Behind(ItemsOf(e, b), ItemsOf(d, b))
    <3>1. ItemsOf(d, b) \in Seq(Item)
      BY <1>1, LiveSeq
    <3> QED
      BY <2>2, <2>3, <3>1, BehindItself
  <2>6. Behind(ItemsOf(queues', b), LiveAt(ItemsOf(queues, b), now))
    BY <1>1, <2>4, <2>5, BehindLive
  <2> QED
    BY <1>1, <2>6, BehindLiveShortened DEF RowsMove
<1> QED
  BY <1>2, <1>3

LEMMA DiscardAllMoves ==
  ASSUME StoreInv, NEW c \in Chats, DiscardAll(c), NEW b \in Chats
  PROVE  RowsMove(b)
<1>1. IsDict(queues) /\ ItemsOf(queues, b) \in Seq(Item)
  BY OldRows
<1>2. /\ IsDict(Delete(queues, c))
      /\ ItemsOf(Delete(queues, c), b) = IF b = c THEN <<>> ELSE ItemsOf(queues, b)
  BY <1>1, DeleteDict
<1>3. ItemsOf(queues', b) = LiveAt(ItemsOf(Delete(queues, c), b), now)
  BY <1>2, SavedRows DEF DiscardAll
<1>4. CASE b = c
  <2>1. LiveAt(<<>>, now) = <<>>
    BY FilterEmpty DEF LiveAt
  <2>2. Shortened(ItemsOf(queues', b), ItemsOf(queues, b))
    BY <1>1, <1>2, <1>3, <1>4, <2>1, BehindItself DEF Shortened
  <2> QED
    BY <2>2 DEF RowsMove
<1>5. CASE b # c
  BY <1>2, <1>3, <1>5, PurgeMoves
<1> QED
  BY <1>4, <1>5

LEMMA RecoverInProgressMoves ==
  ASSUME StoreInv, NEW c \in Chats, RecoverInProgress(c), NEW b \in Chats
  PROVE  RowsMove(b)
<1> DEFINE x == [task |-> inProgress[c].task, at |-> inProgress[c].at, recovered |-> TRUE]
           u == <<x>> \o ItemsOf(queues, c)
           e == Put(queues, c, u)
           ip == [inProgress EXCEPT ![c] = None]
<1>1. x \in Item /\ x.recovered /\ inProgress[c] # None /\ inProgress \in Marks
  BY DEF StoreInv, Marks, Running, Item, RecoverInProgress
<1>2. Save(e, ip)
  BY DEF RecoverInProgress
<1>3. IsDict(queues) /\ ItemsOf(queues, c) \in Seq(Item)
  BY OldRows
<1> HIDE DEF x
<1>4. u \in Seq(Item)
  BY <1>1, <1>3, RecoveredFresh
<1> HIDE DEF u
<1>5. IsDict(e) /\ ItemsOf(e, b) = IF b = c THEN u ELSE ItemsOf(queues, b)
  BY <1>3, <1>4, PutDict
<1> HIDE DEF e
<1>6. ItemsOf(queues', b) = LiveAt(ItemsOf(e, b), now) /\ inProgress' = MarksAt(ip, now)
  BY <1>2, <1>5, SavedRows
<1>7. CASE b = c
  <2>1. inProgress'[c] = None
    BY <1>1, <1>6 DEF MarksAt, Marks
  <2>2. Shortened(ItemsOf(queues', b), u)
    BY <1>4, <1>5, <1>6, <1>7, LiveShortened
  <2> QED
    BY <1>1, <1>7, <2>1, <2>2 DEF RowsMove, u, x
<1>8. CASE b # c
  BY <1>5, <1>6, <1>8, PurgeMoves
<1> QED
  BY <1>7, <1>8

LEMMA ReloadMoves ==
  ASSUME StoreInv, Reload, NEW b \in Chats
  PROVE  RowsMove(b)
<1> DEFINE d == NonEmpty(disk.queues)
           u == ItemsOf(disk.queues, b)
<1>1. IsDict(disk.queues) /\ u \in Seq(Item)
  BY ItemsOfEntry DEF StoreInv, StoreDict
<1>2. IsDict(d) /\ ItemsOf(d, b) = u
  BY <1>1, NonEmptyDict
<1>3. queues' = PurgedAt(d, now)
  BY <1>2, PurgedQueuesIsPurged DEF Reload
<1> HIDE DEF d
<1>4. ItemsOf(queues', b) = LiveAt(u, now)
  BY <1>2, <1>3, PurgeDict
<1>5. CASE unsaved = 0
  <2>1. LiveAt(u, now) = LiveAt(ItemsOf(queues, b), now)
    BY <1>5 DEF StoreInv, Rebuilds
  <2> QED
    BY <1>4, <2>1, PurgeMoves
<1>6. CASE unsaved # 0
  <2>1. unsaved > 0
    BY <1>6, TaskQueueAssumption DEF StoreInv, TaskQueueAssumption
  <2> QED
    BY <1>1, <1>4, <2>1, LiveShortened DEF RowsMove
<1> QED
  BY <1>5, <1>6

\* A step that leaves the rows alone.
LEMMA SameMoves ==
  ASSUME StoreInv, queues' = queues, NEW b \in Chats
  PROVE  RowsMove(b)
  BY OldRows, BehindItself DEF RowsMove, Shortened

\* The oldest rows of a chat leave first, new ones join behind, a recovered
\* one in front, and only a failed write brings back what had left.
THEOREM QueueOldestLeaveFirst == Spec => OldestLeaveFirst
<1>1. ASSUME StoreInv, [Next]_vars PROVE [\A c \in Chats : RowsMove(c)]_vars
  <2> SUFFICES ASSUME NEW b \in Chats PROVE RowsMove(b)
    OBVIOUS
  <2>1. CASE UNCHANGED vars
    BY <1>1, <2>1, SameMoves DEF vars
  <2>2. ASSUME NEW c \in Chats, NEW t \in Tasks, Enqueue(c, t) \/ MarkStarted(c, t)
        PROVE  RowsMove(b)
    BY <1>1, <2>2, EnqueueMoves, SaveMoves DEF MarkStarted
  <2>3. ASSUME NEW c \in Chats, EnqueueRefused(c) \/ PopNext(c) \/ MarkFinished(c)
        PROVE  RowsMove(b)
    BY <1>1, <2>3, EnqueueRefusedMoves, PopNextMoves, SaveMoves DEF MarkFinished
  <2>4. ASSUME NEW c \in Chats, DiscardAll(c) \/ RecoverInProgress(c) PROVE RowsMove(b)
    BY <1>1, <2>4, DiscardAllMoves, RecoverInProgressMoves
  <2>5. CASE ListPending
    BY <1>1, <2>5, PurgeOnlyMoves DEF ListPending
  <2>6. CASE Sweep
    BY <1>1, <2>6, PurgeOnlyMoves, SaveMoves DEF Sweep
  <2>7. CASE Reload
    BY <1>1, <2>7, ReloadMoves
  <2>8. CASE Tick
    BY <1>1, <2>8, SameMoves DEF Tick
  <2> QED
    BY <1>1, <2>1, <2>2, <2>3, <2>4, <2>5, <2>6, <2>7, <2>8 DEF Next
<1> QED
  BY <1>1, QueueInvariant, PTL DEF Spec, OldestLeaveFirst
=============================================================================
