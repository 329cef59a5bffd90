--------------------------- MODULE Checkpoints_proof ---------------------------
(***************************************************************************)
(* Proofs about Checkpoints, for any jobs, phases, retries and any number  *)
(* of errors, lost connections and crashes.                                *)
(***************************************************************************)
EXTENDS Checkpoints, TLAPS

\* What an insert and a loss do to the rows.
LEMMA AppendRows ==
  ASSUME NEW s \in Seq(Rows), NEW row \in Rows
  PROVE  /\ Append(s, row) \in Seq(Rows)
         /\ Len(Append(s, row)) = Len(s) + 1
         /\ DOMAIN Append(s, row) = DOMAIN s \cup {Len(s) + 1}
         /\ \A i \in DOMAIN s : Append(s, row)[i] = s[i]
         /\ Append(s, row)[Len(s) + 1] = row
  OBVIOUS

LEMMA KeptRows ==
  ASSUME NEW s \in Seq(Rows), NEW n \in 0..Len(s)
  PROVE  /\ SubSeq(s, 1, n) \in Seq(Rows)
         /\ Len(SubSeq(s, 1, n)) = n
         /\ DOMAIN SubSeq(s, 1, n) = 1..n
         /\ \A i \in 1..n : SubSeq(s, 1, n)[i] = s[i]
  OBVIOUS

\* The three things a step may do to the rows.
Inserts(j) ==
  /\ \/ at[j] = "read" /\ table' = Append(table, Row("record", j, seq[j] + 1))
     \/ at[j] = "inserted" /\ table' = Append(table, Row("pointer", j, seq[j]))
  /\ UNCHANGED durable

Drops == table' = SubSeq(table, 1, durable) /\ UNCHANGED durable

Keeps == UNCHANGED table /\ durable' \in {durable, Len(table)}

LEMMA ThreeWays ==
  ASSUME [Next]_vars
  PROVE  (\E j \in Jobs : InsertRecord(j) \/ InsertPointer(j)) \/ Drops \/ Keeps
  BY DEF Next, vars, Step, Save, Begin, Enter, Conflict, Commit, Break, ReadSeq,
         ReadPointer, ReadRecord, Flush, Forget, Crash, Drops, Keeps

HasNewest(ids) == ids = {} \/ \E m \in ids : \A k \in ids : k <= m

\* Of the first n rows one is the newest record of a phase, and one the newest
\* pointer, for every n.
NewestExists ==
  \A n \in 0..Len(table) :
    /\ \A p \in Phases : HasNewest({i \in Records(p) : i <= n})
    /\ HasNewest({i \in Pointers : i <= n})

LEMMA NewestIs ==
  ASSUME NEW ids, ids # {}, HasNewest(ids)
  PROVE  Newest(ids) \in ids /\ \A k \in ids : k <= Newest(ids)
  BY DEF HasNewest, Newest

LEMMA NewestRow ==
  ASSUME TypeOK, NewestExists
  PROVE  /\ \A p \in Phases :
              /\ Records(p) # {} =>
                   /\ NewestRecord(p) \in Records(p)
                   /\ \A k \in Records(p) : k <= NewestRecord(p)
              /\ LatestSeq(p) \in Nat
         /\ Pointers # {} => Newest(Pointers) \in Pointers
<1>1. Len(table) \in Nat /\ DOMAIN table = 1..Len(table)
  BY DEF TypeOK
<1>2. ASSUME NEW p \in Phases, Records(p) # {}
      PROVE  /\ NewestRecord(p) \in Records(p)
             /\ \A k \in Records(p) : k <= NewestRecord(p)
             /\ LatestSeq(p) \in Nat
  <2>1. {i \in Records(p) : i <= Len(table)} = Records(p)
    BY <1>1 DEF Records
  <2>2. HasNewest(Records(p))
    <3>1. HasNewest({i \in Records(p) : i <= Len(table)})
      BY <1>1, Len(table) \in 0..Len(table) DEF NewestExists
    <3> QED
      BY <2>1, <3>1, Zenon
  <2>3. NewestRecord(p) \in Records(p) /\ \A k \in Records(p) : k <= NewestRecord(p)
    BY <1>2, <2>2, NewestIs DEF NewestRecord
  <2>4. table[NewestRecord(p)] \in Rows
    BY <2>3 DEF TypeOK, Records
  <2> QED
    BY <1>2, <2>3, <2>4 DEF LatestSeq, NewestRecord, Rows
<1>3. ASSUME Pointers # {} PROVE Newest(Pointers) \in Pointers
  <2>1. {i \in Pointers : i <= Len(table)} = Pointers
    BY <1>1 DEF Pointers
  <2>2. HasNewest(Pointers)
    <3>1. HasNewest({i \in Pointers : i <= Len(table)})
      BY <1>1, Len(table) \in 0..Len(table) DEF NewestExists
    <3> QED
      BY <2>1, <3>1, Zenon
  <2> QED
    BY <1>3, <2>2, NewestIs
<1>4. ASSUME NEW p \in Phases, Records(p) = {} PROVE LatestSeq(p) \in Nat
  BY <1>4 DEF LatestSeq
<1> QED
  BY <1>2, <1>3, <1>4

\* The rows after a step, in terms of the rows before.
LEMMA RowsAfterInsert ==
  ASSUME TypeOK, NEW row \in Rows, table' = Append(table, row)
  PROVE  /\ table' \in Seq(Rows)
         /\ Len(table) \in Nat
         /\ Len(table') = Len(table) + 1
         /\ DOMAIN table = 1..Len(table)
         /\ DOMAIN table' = 1..(Len(table) + 1)
         /\ \A i \in DOMAIN table : table'[i] = table[i]
         /\ table'[Len(table) + 1] = row
  BY AppendRows DEF TypeOK

LEMMA RowsAfterDrop ==
  ASSUME TypeOK, table' = SubSeq(table, 1, durable)
  PROVE  /\ table' \in Seq(Rows)
         /\ Len(table) \in Nat
         /\ durable \in 0..Len(table)
         /\ Len(table') = durable
         /\ DOMAIN table = 1..Len(table)
         /\ DOMAIN table' = 1..durable
         /\ \A i \in DOMAIN table' : i \in DOMAIN table /\ table'[i] = table[i]
  BY KeptRows DEF TypeOK

LEMMA NewestAfterInsert ==
  ASSUME TypeOK, NewestExists, NEW row \in Rows, table' = Append(table, row)
  PROVE  NewestExists'
<1> DEFINE last == Len(table) + 1
<1>1. /\ Len(table) \in Nat /\ Len(table') = last /\ last \in Nat
      /\ DOMAIN table = 1..Len(table) /\ DOMAIN table' = 1..last
      /\ \A i \in DOMAIN table : table'[i] = table[i]
  BY RowsAfterInsert
<1>2. SUFFICES ASSUME NEW n \in 0..last
      PROVE  /\ \A p \in Phases : HasNewest({i \in Records(p)' : i <= n})
             /\ HasNewest({i \in Pointers' : i <= n})
  BY <1>1 DEF NewestExists, HasNewest
<1>3. CASE n \in 0..Len(table)
  <2>1. ASSUME NEW p \in Phases PROVE HasNewest({i \in Records(p)' : i <= n})
    <3>1. {i \in Records(p)' : i <= n} = {i \in Records(p) : i <= n}
      BY <1>1, <1>3 DEF Records
    <3> QED
      BY <1>3, <3>1 DEF NewestExists
  <2>2. {i \in Pointers' : i <= n} = {i \in Pointers : i <= n}
    BY <1>1, <1>3 DEF Pointers
  <2> QED
    BY <1>3, <2>1, <2>2 DEF NewestExists
<1>4. CASE n = last
  <2>1. ASSUME NEW p \in Phases PROVE HasNewest({i \in Records(p)' : i <= n})
    <3>1. CASE last \in Records(p)'
      BY <1>1, <1>4, <3>1 DEF HasNewest, Records
    <3>2. CASE last \notin Records(p)'
      <4>1. {i \in Records(p)' : i <= n} = {i \in Records(p) : i <= Len(table)}
        BY <1>1, <1>4, <3>2 DEF Records
      <4> QED
        BY <1>1, <4>1, Len(table) \in 0..Len(table) DEF NewestExists
    <3> QED
      BY <3>1, <3>2
  <2>2. HasNewest({i \in Pointers' : i <= n})
    <3>1. CASE last \in Pointers'
      BY <1>1, <1>4, <3>1 DEF HasNewest, Pointers
    <3>2. CASE last \notin Pointers'
      <4>1. {i \in Pointers' : i <= n} = {i \in Pointers : i <= Len(table)}
        BY <1>1, <1>4, <3>2 DEF Pointers
      <4> QED
        BY <1>1, <4>1, Len(table) \in 0..Len(table) DEF NewestExists
    <3> QED
      BY <3>1, <3>2
  <2> QED
    BY <2>1, <2>2
<1> QED
  BY <1>1, <1>3, <1>4

LEMMA NewestAfterDrop ==
  ASSUME TypeOK, NewestExists, table' = SubSeq(table, 1, durable)
  PROVE  NewestExists'
<1>1. /\ Len(table) \in Nat /\ durable \in 0..Len(table) /\ Len(table') = durable
      /\ DOMAIN table = 1..Len(table) /\ DOMAIN table' = 1..durable
      /\ \A i \in DOMAIN table' : i \in DOMAIN table /\ table'[i] = table[i]
  BY RowsAfterDrop
<1>2. SUFFICES ASSUME NEW n \in 0..durable
      PROVE  /\ \A p \in Phases : HasNewest({i \in Records(p)' : i <= n})
             /\ HasNewest({i \in Pointers' : i <= n})
  BY <1>1 DEF NewestExists, HasNewest
<1>3. n \in 0..Len(table)
  BY <1>1
<1>4. ASSUME NEW p \in Phases PROVE HasNewest({i \in Records(p)' : i <= n})
  <2>1. {i \in Records(p)' : i <= n} = {i \in Records(p) : i <= n}
    BY <1>1 DEF Records
  <2> QED
    BY <1>3, <2>1 DEF NewestExists
<1>5. {i \in Pointers' : i <= n} = {i \in Pointers : i <= n}
  BY <1>1 DEF Pointers
<1> QED
  BY <1>3, <1>4, <1>5 DEF NewestExists

LEMMA NewestSame ==
  ASSUME NewestExists, UNCHANGED table PROVE NewestExists'
<1>1. Pointers' = Pointers /\ \A p \in Phases : Records(p)' = Records(p)
  BY DEF Pointers, Records
<1>2. \A ids : HasNewest(ids)' = HasNewest(ids)
  BY DEF HasNewest
<1> QED
  BY <1>1, <1>2 DEF NewestExists, Records, Pointers, HasNewest

\* Every variable keeps its type; of the rows one is the newest.
TypeInv == TypeOK /\ NewestExists

LEMMA TypeStep == TypeInv /\ [Next]_vars => TypeInv'
<1> SUFFICES ASSUME TypeOK, NewestExists, [Next]_vars PROVE TypeOK' /\ NewestExists'
  BY DEF TypeInv
<1> USE CheckpointsAssumption
<1>1. ASSUME NEW j \in Jobs, Begin(j) PROVE TypeOK' /\ NewestExists'
  BY <1>1, NewestSame DEF Begin, Go, TypeOK
<1>2. ASSUME NEW j \in Jobs, Enter(j) PROVE TypeOK' /\ NewestExists'
  <2>1. LatestSeq(Phase[j]) \in Nat
    BY NewestRow
  <2>2. TypeOK'
    BY <1>2, <2>1 DEF Enter, Go, TypeOK, Inside
  <2> QED
    BY <1>2, <2>2, NewestSame DEF Enter
<1>3. ASSUME NEW j \in Jobs, Conflict(j) PROVE TypeOK' /\ NewestExists'
  <2>1. LatestSeq(Phase[j]) \in Nat
    BY NewestRow
  <2>2. at' \in [Jobs -> {"start", "ask", "again", "pointed"} \cup Inside \cup Ended]
    BY <1>3 DEF Conflict, Go, TypeOK, Ended
  <2>3. tries' \in [Jobs -> Nat] /\ seq' \in [Jobs -> Nat]
    BY <1>3, <2>1 DEF Conflict, TypeOK
  <2>4. TypeOK'
    BY <1>3, <2>2, <2>3 DEF Conflict, TypeOK
  <2> QED
    BY <1>3, <2>4, NewestSame DEF Conflict
<1>4. ASSUME NEW j \in Jobs, InsertRecord(j) PROVE TypeOK' /\ NewestExists'
  <2> DEFINE row == Row("record", j, seq[j] + 1)
  <2>1. row \in Rows /\ table' = Append(table, row)
    BY <1>4 DEF InsertRecord, AppendRow, Row, Rows, TypeOK
  <2> HIDE DEF row
  <2>2. table' \in Seq(Rows) /\ durable' \in 0..Len(table')
    BY <1>4, <2>1, RowsAfterInsert DEF InsertRecord, TypeOK
  <2>3. TypeOK'
    BY <1>4, <2>2 DEF InsertRecord, Go, TypeOK, Inside
  <2> QED
    BY <2>1, <2>3, NewestAfterInsert
<1>5. ASSUME NEW j \in Jobs, InsertPointer(j) PROVE TypeOK' /\ NewestExists'
  <2> DEFINE row == Row("pointer", j, seq[j])
  <2>1. row \in Rows /\ table' = Append(table, row)
    BY <1>5 DEF InsertPointer, AppendRow, Row, Rows, TypeOK
  <2> HIDE DEF row
  <2>2. table' \in Seq(Rows) /\ durable' \in 0..Len(table')
    BY <1>5, <2>1, RowsAfterInsert DEF InsertPointer, TypeOK
  <2>3. TypeOK'
    BY <1>5, <2>2 DEF InsertPointer, Go, TypeOK, Inside
  <2> QED
    BY <2>1, <2>3, NewestAfterInsert
<1>6. ASSUME NEW j \in Jobs, Commit(j) PROVE TypeOK' /\ NewestExists'
  <2>1. TypeOK'
    BY <1>6 DEF Commit, Go, TypeOK, Ended
  <2> QED
    BY <1>6, <2>1, NewestSame DEF Commit
<1>7. ASSUME NEW j \in Jobs, Break(j) PROVE TypeOK' /\ NewestExists'
  <2>1. TypeOK'
    BY <1>7 DEF Break, Fault, TypeOK, Ended
  <2> QED
    BY <1>7, <2>1, NewestSame DEF Break
<1>8. ASSUME NEW j \in Jobs, ReadSeq(j) PROVE TypeOK' /\ NewestExists'
  <2>1. LatestSeq(Phase[j]) \in Nat
    BY NewestRow
  <2>2. expected' \in [Jobs -> Nat \cup {None}] /\ faults' \in 0..MaxFaults
    <3>1. \E e \in Nat : expected' = [expected EXCEPT ![j] = e]
      BY <1>8, <2>1 DEF ReadSeq
    <3>2. expected' \in [Jobs -> Nat \cup {None}]
      BY <3>1 DEF TypeOK
    <3>3. faults' \in 0..MaxFaults
      BY <1>8 DEF ReadSeq, Fault, TypeOK
    <3> QED
      BY <3>2, <3>3
  <2>3. TypeOK'
    BY <1>8, <2>2 DEF ReadSeq, TypeOK
  <2> QED
    BY <1>8, <2>3, NewestSame DEF ReadSeq
<1>9. ASSUME NEW j \in Jobs, ReadPointer(j) PROVE TypeOK' /\ NewestExists'
  <2>1. Pointers # {} => table[Newest(Pointers)] \in Rows
    BY NewestRow DEF TypeOK, Pointers
  <2>2. /\ pointed' \in [Jobs -> Rows \cup {None}]
        /\ faults' \in 0..MaxFaults
        /\ at' \in [Jobs -> {"start", "ask", "again", "pointed"} \cup Inside \cup Ended]
    <3> DEFINE r == table[Newest(Pointers)]
    <3>1. \/ Pointers # {} /\ pointed' = [pointed EXCEPT ![j] = r]
          \/ UNCHANGED pointed
      BY <1>9 DEF ReadPointer
    <3>2. faults' \in 0..MaxFaults
      BY <1>9 DEF ReadPointer, Fault, TypeOK
    <3>3. \E to \in Ended \cup {"pointed"} : at' = [at EXCEPT ![j] = to]
      BY <1>9 DEF ReadPointer, Go, Ended
    <3> HIDE DEF r
    <3>4. Pointers # {} => r \in Rows
      BY <2>1 DEF r
    <3>5. pointed' \in [Jobs -> Rows \cup {None}]
      BY <3>1, <3>4 DEF TypeOK
    <3>6. at' \in [Jobs -> {"start", "ask", "again", "pointed"} \cup Inside \cup Ended]
      BY <3>3 DEF TypeOK
    <3> QED
      BY <3>2, <3>5, <3>6
  <2>3. known' \in [Jobs -> SUBSET Jobs]
    BY <1>9 DEF ReadPointer, TypeOK
  <2>4. TypeOK'
    BY <1>9, <2>2, <2>3 DEF ReadPointer, TypeOK
  <2> QED
    BY <1>9, <2>4, NewestSame DEF ReadPointer
<1>10. ASSUME NEW j \in Jobs, ReadRecord(j) PROVE TypeOK' /\ NewestExists'
  <2>1. at[j] = "pointed" /\ UNCHANGED <<table, durable, lock, expected, seq, tries, pointed, known>>
    BY <1>10 DEF ReadRecord
  <2>2. ASSUME Records(pointed[j].phase) # {}
        PROVE  table[NewestRecord(pointed[j].phase)] \in Rows
    <3>1. PICK i \in DOMAIN table : table[i].phase = pointed[j].phase
      BY <2>2 DEF Records
    <3>2. table[i] \in Rows
      BY <3>1 DEF TypeOK
    <3>3. pointed[j].phase \in Phases
      BY <3>1, <3>2 DEF Rows
    <3>4. NewestRecord(pointed[j].phase) \in DOMAIN table
      BY <2>2, <3>3, NewestRow DEF Records
    <3> QED
      BY <3>4 DEF TypeOK
  <2>3. /\ found' \in [Jobs -> Rows \cup {None}]
        /\ faults' \in 0..MaxFaults
        /\ at' \in [Jobs -> {"start", "ask", "again", "pointed"} \cup Inside \cup Ended]
    <3> DEFINE r == table[NewestRecord(pointed[j].phase)]
    <3>1. \/ Records(pointed[j].phase) # {} /\ found' = [found EXCEPT ![j] = r]
          \/ UNCHANGED found
      BY <1>10 DEF ReadRecord
    <3>2. faults' \in 0..MaxFaults
      BY <1>10 DEF ReadRecord, Fault, TypeOK
    <3>3. \E to \in Ended : at' = [at EXCEPT ![j] = to]
      BY <1>10 DEF ReadRecord, Go, Ended
    <3> HIDE DEF r
    <3>4. Records(pointed[j].phase) # {} => r \in Rows
      BY <2>2 DEF r
    <3>5. found' \in [Jobs -> Rows \cup {None}]
      BY <3>1, <3>4 DEF TypeOK
    <3>6. at' \in [Jobs -> {"start", "ask", "again", "pointed"} \cup Inside \cup Ended]
      BY <3>3 DEF TypeOK
    <3> QED
      BY <3>2, <3>5, <3>6
  <2>4. TypeOK'
    BY <2>1, <2>3 DEF TypeOK
  <2> QED
    BY <2>1, <2>4, NewestSame
<1>11. CASE Flush
  <2>1. TypeOK'
    BY <1>11 DEF Flush, TypeOK
  <2> QED
    BY <1>11, <2>1, NewestSame DEF Flush
<1>12. CASE Forget
  <2>1. table' \in Seq(Rows) /\ durable' \in 0..Len(table')
    BY <1>12, RowsAfterDrop DEF Forget
  <2>2. TypeOK'
    BY <1>12, <2>1 DEF Forget, Fault, TypeOK
  <2> QED
    BY <1>12, <2>2, NewestAfterDrop DEF Forget
<1>13. CASE Crash
  <2>1. table' \in Seq(Rows) /\ durable' \in 0..Len(table')
    BY <1>13, RowsAfterDrop DEF Crash
  <2>2. TypeOK'
    BY <1>13, <2>1 DEF Crash, Fault, TypeOK, Ended
  <2> QED
    BY <1>13, <2>2, NewestAfterDrop DEF Crash
<1>14. CASE UNCHANGED vars
  BY <1>14, NewestSame DEF vars, TypeOK
<1> QED
  BY <1>1, <1>2, <1>3, <1>4, <1>5, <1>6, <1>7, <1>8, <1>9, <1>10, <1>11, <1>12, <1>13,
     <1>14 DEF Next, Step, Save

LEMMA TypeInvariant == Spec => []TypeInv
<1>1. Init => TypeInv
  BY CheckpointsAssumption DEF Init, TypeInv, TypeOK, NewestExists, HasNewest, Records, Pointers
<1> QED
  BY <1>1, TypeStep, PTL DEF Spec

\* Every variable of the checkpoint store keeps its type.
THEOREM StoreTypeCorrect == Spec => []TypeOK
<1>1. TypeInv => TypeOK
  BY DEF TypeInv
<1> QED
  BY <1>1, TypeInvariant, PTL

-----------------------------------------------------------------------------
\* At an await under the lock a job is alone.
Alone == \A j \in Jobs : at[j] \in Inside => lock = j

\* A writer under the lock knows the newest record and has its own rows.
OwnRows ==
  \A j \in Jobs :
    /\ at[j] = "read" =>
         /\ \A i \in Records(Phase[j]) : table[i].seq <= seq[j]
         /\ seq[j] = 0 \/ \E i \in Records(Phase[j]) : table[i].seq = seq[j]
    /\ at[j] \in {"inserted", "written"} =>
         \E i \in DOMAIN table : table[i] = Row("record", j, seq[j])
    /\ at[j] = "written" =>
         j \in Good /\ \E i \in DOMAIN table : table[i] = Row("pointer", j, seq[j])

LogInv == Alone /\ OwnRows /\ SeqsAreDense /\ PointerNamesRecord /\ AcknowledgedIsDurable

LEMMA AloneStep ==
  ASSUME TypeOK, Alone, [Next]_vars PROVE Alone'
<1> USE CheckpointsAssumption DEF Inside, Ended
<1>1. ASSUME NEW j \in Jobs, Enter(j) PROVE Alone'
  BY <1>1 DEF Enter, Go, Alone, TypeOK
<1>2. ASSUME NEW j \in Jobs, InsertRecord(j) \/ InsertPointer(j) PROVE Alone'
  BY <1>2 DEF InsertRecord, InsertPointer, Go, Alone, TypeOK
<1>3. ASSUME NEW j \in Jobs, Commit(j) PROVE Alone'
  <2>1. at[j] \in Inside /\ lock = j
    BY <1>3 DEF Commit, Go, Alone
  <2> QED
    BY <1>3, <2>1 DEF Commit, Go, Alone, TypeOK
<1>4. ASSUME NEW j \in Jobs, Break(j) PROVE Alone'
  BY <1>4 DEF Break, Alone, TypeOK
<1>5. ASSUME NEW j \in Jobs, Begin(j) \/ Conflict(j) \/ ReadSeq(j) PROVE Alone'
  BY <1>5 DEF Begin, Conflict, ReadSeq, Go, Alone, TypeOK
<1>6. ASSUME NEW j \in Jobs, ReadPointer(j) \/ ReadRecord(j) PROVE Alone'
  BY <1>6 DEF ReadPointer, ReadRecord, Go, Alone, TypeOK
<1>7. CASE Flush \/ Forget \/ UNCHANGED vars
  BY <1>7 DEF Flush, Forget, vars, Alone
<1>8. CASE Crash
  BY <1>8 DEF Crash, Alone, TypeOK
<1> QED
  BY <1>1, <1>2, <1>3, <1>4, <1>5, <1>6, <1>7, <1>8 DEF Next, Step, Save

\* The newest record has the highest seq.
LEMMA LatestIsHighest ==
  ASSUME TypeInv, SeqsAreDense, NEW p \in Phases
  PROVE  /\ \A i \in Records(p) : table[i].seq <= LatestSeq(p)
         /\ LatestSeq(p) = 0 \/ \E i \in Records(p) : table[i].seq = LatestSeq(p)
<1>1. CASE Records(p) = {}
  BY <1>1 DEF LatestSeq
<1>2. CASE Records(p) # {}
  <2> DEFINE m == NewestRecord(p)
  <2>1. m \in Records(p) /\ (\A k \in Records(p) : k <= m) /\ LatestSeq(p) = table[m].seq
    BY <1>2, NewestRow DEF TypeInv, LatestSeq, NewestRecord
  <2> HIDE DEF m
  <2>2. ASSUME NEW i \in Records(p) PROVE table[i].seq <= table[m].seq
    <3>1. i \in DOMAIN table /\ m \in DOMAIN table /\ i \in Nat /\ m \in Nat /\ i <= m
      BY <2>1 DEF Records, TypeInv, TypeOK
    <3>2. table[i].seq \in Nat /\ table[m].seq \in Nat
      <4>1. table[i] \in Rows /\ table[m] \in Rows
        BY <3>1 DEF TypeInv, TypeOK
      <4> QED
        BY <4>1 DEF Rows
    <3>3. table[m].kind = "record" /\ table[m].phase = p
      BY <2>1 DEF Records
    <3>4. i < m => table[i].seq < table[m].seq
      BY <3>1, <3>3 DEF SeqsAreDense
    <3> QED
      BY <3>1, <3>2, <3>4
  <2> QED
    BY <2>1, <2>2
<1> QED
  BY <1>1, <1>2

LEMMA OwnRowsStep ==
  ASSUME TypeInv, Alone, OwnRows, SeqsAreDense, [Next]_vars PROVE OwnRows'
<1> USE CheckpointsAssumption DEF TypeInv
<1>1. ASSUME NEW j \in Jobs, Enter(j) PROVE OwnRows'
  <2>1. \A k \in Jobs : at[k] \notin Inside
    BY <1>1 DEF Enter, Alone
  <2>2. /\ \A k \in Jobs \ {j} : at'[k] \notin Inside
        /\ at'[j] = "read" /\ seq'[j] = LatestSeq(Phase[j]) /\ UNCHANGED table
    BY <1>1, <2>1 DEF Enter, Go, TypeOK
  <2>3. Records(Phase[j])' = Records(Phase[j]) /\ Phase[j] \in Phases
    BY <2>2 DEF Records
  <2> QED
    BY <2>2, <2>3, LatestIsHighest DEF OwnRows, Inside
<1>2. ASSUME NEW j \in Jobs, InsertRecord(j) PROVE OwnRows'
  <2> DEFINE row == Row("record", j, seq[j] + 1)
  <2>1. \A k \in Jobs \ {j} : at'[k] \notin Inside
    BY <1>2 DEF InsertRecord, Go, Alone, TypeOK, Inside
  <2>2. /\ at'[j] = "inserted" /\ seq'[j] = seq[j] + 1
        /\ row \in Rows /\ table' = Append(table, row)
    BY <1>2 DEF InsertRecord, Go, AppendRow, Row, Rows, TypeOK
  <2>3. table'[Len(table) + 1] = Row("record", j, seq'[j]) /\ Len(table) + 1 \in DOMAIN table'
    BY <2>2, RowsAfterInsert
  <2> HIDE DEF row
  <2> QED
    BY <2>1, <2>2, <2>3 DEF OwnRows, Inside, Row
<1>3. ASSUME NEW j \in Jobs, InsertPointer(j) PROVE OwnRows'
  <2> DEFINE row == Row("pointer", j, seq[j])
  <2>1. \A k \in Jobs \ {j} : at'[k] \notin Inside
    BY <1>3 DEF InsertPointer, Go, Alone, TypeOK, Inside
  <2>2. /\ at[j] = "inserted" /\ at'[j] = "written" /\ seq'[j] = seq[j] /\ j \in Good
        /\ row \in Rows /\ table' = Append(table, row)
    BY <1>3 DEF InsertPointer, Go, AppendRow, Row, Rows, TypeOK
  <2>3. table'[Len(table) + 1] = Row("pointer", j, seq'[j]) /\ Len(table) + 1 \in DOMAIN table'
    BY <2>2, RowsAfterInsert
  <2>4. PICK i \in DOMAIN table : table[i] = Row("record", j, seq[j])
    BY <2>2 DEF OwnRows
  <2>5. i \in DOMAIN table' /\ table'[i] = Row("record", j, seq'[j])
    BY <2>2, <2>4, RowsAfterInsert DEF Row
  <2> HIDE DEF row
  <2> QED
    BY <2>1, <2>2, <2>3, <2>5 DEF OwnRows, Inside, Row
<1>4. ASSUME UNCHANGED table,
             \A k \in Jobs : at'[k] \in Inside => at'[k] = at[k] /\ seq'[k] = seq[k]
      PROVE  OwnRows'
  <2>1. \A p : Records(p)' = Records(p)
    BY <1>4 DEF Records
  <2> QED
    BY <1>4, <2>1 DEF OwnRows, Inside, Row
<1>5. ASSUME NEW j \in Jobs, Begin(j) \/ Conflict(j) \/ Commit(j) \/ Break(j) PROVE OwnRows'
  BY <1>4, <1>5 DEF Begin, Conflict, Commit, Break, Go, Inside, TypeOK
<1>6. ASSUME NEW j \in Jobs, ReadSeq(j) \/ ReadPointer(j) \/ ReadRecord(j) PROVE OwnRows'
  BY <1>4, <1>6 DEF ReadSeq, ReadPointer, ReadRecord, Go, Inside, TypeOK
<1>7. CASE Flush \/ UNCHANGED vars
  BY <1>4, <1>7 DEF Flush, vars
<1>8. CASE Forget \/ Crash
  <2>1. \A k \in Jobs : at'[k] \notin Inside
    BY <1>8 DEF Forget, Crash, Alone, TypeOK, Inside, Ended
  <2> QED
    BY <2>1 DEF OwnRows, Inside
<1> QED
  BY <1>1, <1>2, <1>3, <1>5, <1>6, <1>7, <1>8 DEF Next, Step, Save

LEMMA SeqsStep ==
  ASSUME TypeInv, OwnRows, SeqsAreDense, [Next]_vars PROVE SeqsAreDense'
<1> USE CheckpointsAssumption DEF TypeInv
<1>1. ASSUME NEW j \in Jobs, InsertRecord(j) PROVE SeqsAreDense'
  <2> DEFINE row == Row("record", j, seq[j] + 1)
             last == Len(table) + 1
  <2>1. /\ row \in Rows /\ table' = Append(table, row) /\ seq[j] \in Nat
        /\ row.kind = "record" /\ row.phase = Phase[j] /\ row.seq = seq[j] + 1
        /\ at[j] = "read" /\ Phase[j] \in Phases
    BY <1>1 DEF InsertRecord, Go, AppendRow, Row, Rows, TypeOK
  <2> HIDE DEF row
  <2>2. /\ Len(table) \in Nat
        /\ DOMAIN table = 1..Len(table) /\ DOMAIN table' = 1..last
        /\ (\A i \in DOMAIN table : table'[i] = table[i]) /\ table'[last] = row
    BY <2>1, RowsAfterInsert
  <2>3. /\ \A i \in Records(Phase[j]) : table[i].seq <= seq[j]
        /\ seq[j] = 0 \/ \E i \in Records(Phase[j]) : table[i].seq = seq[j]
    BY <2>1 DEF OwnRows
  <2>4. \A i \in DOMAIN table : table[i].seq \in Nat
    <3>1. \A i \in DOMAIN table : table[i] \in Rows
      BY DEF TypeOK
    <3> QED
      BY <3>1 DEF Rows
  <2>5. ASSUME NEW i \in DOMAIN table', table'[i].kind = "record"
        PROVE  /\ \A k \in Records(table[i].phase)' : k < i => table'[k].seq < table'[i].seq
               /\ \/ table'[i].seq = 1
                  \/ \E k \in Records(table[i].phase)' :
                       k < i /\ table'[k].seq = table'[i].seq - 1
    <3>1. CASE i \in DOMAIN table
      <4>1. table'[i] = table[i] /\ i \in 1..Len(table)
        BY <2>2, <3>1
      <4>2. \A k : k < i => (k \in Records(table[i].phase)' <=> k \in Records(table[i].phase))
        BY <2>2, <4>1 DEF Records
      <4>3. \A k \in Records(table[i].phase) : table'[k] = table[k]
        BY <2>2 DEF Records
      <4>4. /\ \A k \in Records(table[i].phase) : k < i => table[k].seq < table[i].seq
            /\ \/ table[i].seq = 1
               \/ \E k \in Records(table[i].phase) : k < i /\ table[k].seq = table[i].seq - 1
        BY <2>5, <3>1, <4>1 DEF SeqsAreDense
      <4> QED
        BY <4>1, <4>2, <4>3, <4>4
    <3>2. CASE i = last
      <4>1. \A k : k < i => (k \in Records(table[i].phase)' <=> k \in Records(Phase[j]))
        BY <2>1, <2>2, <3>2 DEF Records
      <4>2. \A k \in Records(Phase[j]) : k \in DOMAIN table /\ k < i
        BY <2>2, <3>2 DEF Records
      <4>3. \A k \in Records(Phase[j]) : table'[k].seq = table[k].seq /\ table[k].seq \in Nat
        BY <2>2, <2>4, <4>2
      <4>4. table'[i].seq = seq[j] + 1
        BY <2>1, <2>2, <3>2
      <4>5. ASSUME NEW k \in Records(table[i].phase)', k < i PROVE table'[k].seq < table'[i].seq
        <5>1. k \in Records(Phase[j])
          BY <4>1, <4>5
        <5>2. table[k].seq <= seq[j] /\ table'[k].seq = table[k].seq /\ table[k].seq \in Nat
          BY <2>3, <4>3, <5>1
        <5> QED
          BY <2>1, <4>4, <5>2
      <4>6. ASSUME NEW k \in Records(Phase[j]), table[k].seq = seq[j]
            PROVE  \E m \in Records(table[i].phase)' : m < i /\ table'[m].seq = table'[i].seq - 1
        <5>1. k \in Records(table[i].phase)' /\ k < i
          BY <4>1, <4>2
        <5>2. table'[k].seq = table'[i].seq - 1
          <6>1. table'[k].seq = seq[j]
            BY <4>3, <4>6
          <6> QED
            BY <2>1, <4>4, <6>1
        <5> QED
          BY <5>1, <5>2
      <4>7. seq[j] = 0 => table'[i].seq = 1
        BY <4>4
      <4> QED
        BY <2>3, <4>5, <4>6, <4>7
    <3> QED
      BY <2>2, <3>1, <3>2
  <2> QED
    BY <2>5 DEF SeqsAreDense
<1>2. ASSUME NEW j \in Jobs, InsertPointer(j) PROVE SeqsAreDense'
  <2> DEFINE row == Row("pointer", j, seq[j])
  <2>1. row \in Rows /\ table' = Append(table, row) /\ row.kind = "pointer"
    BY <1>2 DEF InsertPointer, AppendRow, Row, Rows, TypeOK
  <2> HIDE DEF row
  <2>2. /\ Len(table) \in Nat
        /\ DOMAIN table = 1..Len(table) /\ DOMAIN table' = 1..(Len(table) + 1)
        /\ \A i \in DOMAIN table : table'[i] = table[i]
        /\ table'[Len(table) + 1].kind = "pointer"
    BY <2>1, RowsAfterInsert
  <2>3. \A p : Records(p)' = Records(p)
    BY <2>2 DEF Records
  <2> QED
    BY <2>2, <2>3 DEF SeqsAreDense, Records
<1>3. CASE Drops
  <2>1. /\ DOMAIN table = 1..Len(table) /\ DOMAIN table' = 1..durable
        /\ Len(table) \in Nat /\ durable \in 0..Len(table)
        /\ \A i \in DOMAIN table' : i \in DOMAIN table /\ table'[i] = table[i]
    BY <1>3, RowsAfterDrop DEF Drops
  <2>2. ASSUME NEW i \in DOMAIN table', NEW p
        PROVE  \A k : k < i => (k \in Records(p)' <=> k \in Records(p))
    BY <2>1 DEF Records
  <2> QED
    BY <2>1, <2>2 DEF SeqsAreDense, Records
<1>4. CASE Keeps
  BY <1>4 DEF Keeps, SeqsAreDense, Records
<1> QED
  BY <1>1, <1>2, <1>3, <1>4, ThreeWays

LEMMA PointersStep ==
  ASSUME TypeInv, OwnRows, PointerNamesRecord, [Next]_vars PROVE PointerNamesRecord'
<1> USE CheckpointsAssumption DEF TypeInv
<1> SUFFICES ASSUME NEW i \in Pointers'
    PROVE  \E k \in Records(table[i].phase)' :
             /\ k < i /\ table'[k].seq = table'[i].seq
             /\ i <= durable' => k <= durable'
  BY DEF PointerNamesRecord
<1>1. ASSUME NEW row \in Rows, table' = Append(table, row), UNCHANGED durable, i \in DOMAIN table
      PROVE  \E k \in Records(table[i].phase)' :
               /\ k < i /\ table'[k].seq = table'[i].seq
               /\ i <= durable' => k <= durable'
  <2>1. /\ DOMAIN table = 1..Len(table) /\ DOMAIN table' = 1..(Len(table) + 1)
        /\ Len(table) \in Nat /\ \A k \in DOMAIN table : table'[k] = table[k]
    BY <1>1, RowsAfterInsert
  <2>2. PICK k \in Records(table[i].phase) :
          k < i /\ table[k].seq = table[i].seq /\ (i <= durable => k <= durable)
    BY <1>1, <2>1 DEF PointerNamesRecord, Pointers
  <2> QED
    BY <1>1, <2>1, <2>2 DEF Records
<1>2. ASSUME NEW j \in Jobs, InsertRecord(j)
      PROVE  \E k \in Records(table[i].phase)' :
               /\ k < i /\ table'[k].seq = table'[i].seq
               /\ i <= durable' => k <= durable'
  <2> DEFINE row == Row("record", j, seq[j] + 1)
  <2>1. row \in Rows /\ table' = Append(table, row) /\ UNCHANGED durable /\ row.kind = "record"
    BY <1>2 DEF InsertRecord, AppendRow, Row, Rows, TypeOK
  <2> HIDE DEF row
  <2>2. i \in DOMAIN table
    BY <2>1, RowsAfterInsert DEF Pointers
  <2> QED
    BY <1>1, <2>1, <2>2
<1>3. ASSUME NEW j \in Jobs, InsertPointer(j)
      PROVE  \E k \in Records(table[i].phase)' :
               /\ k < i /\ table'[k].seq = table'[i].seq
               /\ i <= durable' => k <= durable'
  <2> DEFINE row == Row("pointer", j, seq[j])
  <2>1. /\ row \in Rows /\ table' = Append(table, row) /\ UNCHANGED durable
        /\ row.phase = Phase[j] /\ row.seq = seq[j] /\ at[j] = "inserted"
    BY <1>3 DEF InsertPointer, Go, AppendRow, Row, Rows, TypeOK
  <2> HIDE DEF row
  <2>2. /\ DOMAIN table = 1..Len(table) /\ DOMAIN table' = 1..(Len(table) + 1)
        /\ Len(table) \in Nat /\ durable \in 0..Len(table)
        /\ (\A k \in DOMAIN table : table'[k] = table[k]) /\ table'[Len(table) + 1] = row
    BY <2>1, RowsAfterInsert DEF TypeOK
  <2>3. CASE i \in DOMAIN table
    BY <1>1, <2>1, <2>3
  <2>4. CASE i = Len(table) + 1
    <3>1. PICK k \in DOMAIN table : table[k] = Row("record", j, seq[j])
      BY <2>1 DEF OwnRows
    <3>2. table'[k].kind = "record" /\ table'[k].phase = Phase[j] /\ table'[k].seq = seq[j]
      BY <2>2, <3>1 DEF Row
    <3> QED
      BY <2>1, <2>2, <2>4, <3>1, <3>2 DEF Records
  <2> QED
    BY <2>2, <2>3, <2>4 DEF Pointers
<1>4. CASE Drops
  <2>1. /\ DOMAIN table = 1..Len(table) /\ DOMAIN table' = 1..durable
        /\ Len(table) \in Nat /\ durable \in 0..Len(table) /\ durable' = durable
        /\ \A k \in DOMAIN table' : k \in DOMAIN table /\ table'[k] = table[k]
    BY <1>4, RowsAfterDrop DEF Drops
  <2>2. PICK k \in Records(table[i].phase) :
          k < i /\ table[k].seq = table[i].seq /\ (i <= durable => k <= durable)
    BY <2>1 DEF PointerNamesRecord, Pointers
  <2>3. i \in 1..durable /\ k \in 1..durable /\ table'[k] = table[k] /\ table'[i] = table[i]
    BY <2>1, <2>2 DEF Pointers, Records
  <2> QED
    BY <2>1, <2>2, <2>3 DEF Records
<1>5. CASE Keeps
  <2>1. PICK k \in Records(table[i].phase) :
          k < i /\ table[k].seq = table[i].seq /\ (i <= durable => k <= durable)
    BY <1>5 DEF PointerNamesRecord, Pointers, Keeps
  <2>2. k \in Records(table[i].phase)' /\ k \in 1..Len(table) /\ Len(table) \in Nat
    BY <1>5, <2>1 DEF Records, Keeps, TypeOK
  <2> QED
    BY <1>5, <2>1, <2>2 DEF Keeps
<1> QED
  BY <1>2, <1>3, <1>4, <1>5, ThreeWays

\* An acknowledged save stays acknowledged, and only a commit adds one.
LEMMA OkStays ==
  ASSUME TypeOK, [Next]_vars, NEW k \in Jobs
  PROVE  /\ at[k] = "ok" => at'[k] = "ok" /\ seq'[k] = seq[k]
         /\ at'[k] = "ok" => at[k] = "ok" \/ Commit(k)
<1> USE DEF TypeOK, Inside, Ended
<1>1. ASSUME NEW j \in Jobs, Begin(j) \/ Enter(j) \/ Conflict(j)
      PROVE  (at[k] = "ok" => at'[k] = "ok" /\ seq'[k] = seq[k]) /\ (at'[k] = "ok" => at[k] = "ok")
  BY <1>1 DEF Begin, Enter, Conflict, Go
<1>2. ASSUME NEW j \in Jobs, InsertRecord(j) \/ InsertPointer(j)
      PROVE  (at[k] = "ok" => at'[k] = "ok" /\ seq'[k] = seq[k]) /\ (at'[k] = "ok" => at[k] = "ok")
  BY <1>2 DEF InsertRecord, InsertPointer, Go
<1>3. ASSUME NEW j \in Jobs, Commit(j)
      PROVE  /\ at[k] = "ok" => at'[k] = "ok" /\ seq'[k] = seq[k]
             /\ at'[k] = "ok" => at[k] = "ok" \/ Commit(k)
  BY <1>3 DEF Commit, Go
<1>4. ASSUME NEW j \in Jobs, Break(j) \/ ReadSeq(j) \/ ReadPointer(j) \/ ReadRecord(j)
      PROVE  (at[k] = "ok" => at'[k] = "ok" /\ seq'[k] = seq[k]) /\ (at'[k] = "ok" => at[k] = "ok")
  BY <1>4 DEF Break, ReadSeq, ReadPointer, ReadRecord, Go
<1>5. CASE Flush \/ Forget \/ Crash \/ UNCHANGED vars
  BY <1>5 DEF Flush, Forget, Crash, vars
<1> QED
  BY <1>1, <1>2, <1>3, <1>4, <1>5 DEF Next, Step, Save

\* What is committed stays.
LEMMA CommittedStays ==
  ASSUME TypeOK, [Next]_vars, NEW i \in 1..durable
  PROVE  i \in 1..durable' /\ table'[i] = table[i]
<1>1. CASE Drops
  BY <1>1, RowsAfterDrop DEF Drops
<1>2. CASE Keeps
  BY <1>2 DEF Keeps, TypeOK
<1>3. ASSUME NEW row \in Rows, table' = Append(table, row), UNCHANGED durable
      PROVE  i \in 1..durable' /\ table'[i] = table[i]
  BY <1>3, RowsAfterInsert DEF TypeOK
<1>4. ASSUME NEW j \in Jobs, InsertRecord(j) PROVE i \in 1..durable' /\ table'[i] = table[i]
  BY <1>3, <1>4, CheckpointsAssumption DEF InsertRecord, AppendRow, Row, Rows, TypeOK
<1>5. ASSUME NEW j \in Jobs, InsertPointer(j) PROVE i \in 1..durable' /\ table'[i] = table[i]
  BY <1>3, <1>5, CheckpointsAssumption DEF InsertPointer, AppendRow, Row, Rows, TypeOK
<1> QED
  BY <1>1, <1>2, <1>4, <1>5, ThreeWays

LEMMA AcknowledgedStep ==
  ASSUME TypeOK, OwnRows, AcknowledgedIsDurable, [Next]_vars PROVE AcknowledgedIsDurable'
<1> SUFFICES ASSUME NEW j \in Jobs, at'[j] = "ok"
    PROVE  \E i \in 1..durable' :
             /\ table'[i] = Row("record", j, seq'[j])
             /\ j \in Good => \E k \in 1..durable' : table'[k] = Row("pointer", j, seq'[j])
  BY DEF AcknowledgedIsDurable, Row
<1>1. CASE at[j] = "ok"
  <2>1. PICK i \in 1..durable :
          /\ table[i] = Row("record", j, seq[j])
          /\ j \in Good => \E k \in 1..durable : table[k] = Row("pointer", j, seq[j])
    BY <1>1 DEF AcknowledgedIsDurable
  <2>2. seq'[j] = seq[j]
    BY <1>1, OkStays
  <2> QED
    BY <2>1, <2>2, CommittedStays
<1>2. CASE Commit(j)
  <2>1. /\ UNCHANGED <<table, seq>> /\ durable' = Len(table) /\ DOMAIN table = 1..durable'
        /\ at[j] = IF j \in Good THEN "written" ELSE "inserted"
    BY <1>2 DEF Commit, Go, TypeOK
  <2> QED
    BY <2>1 DEF OwnRows
<1> QED
  BY <1>1, <1>2, OkStays

LEMMA LogInvariant == Spec => []LogInv
<1>1. Init => LogInv
  BY DEF Init, LogInv, Alone, OwnRows, SeqsAreDense, PointerNamesRecord, AcknowledgedIsDurable,
         Inside, Pointers
<1>2. TypeInv /\ LogInv /\ [Next]_vars => LogInv'
  BY AloneStep, OwnRowsStep, SeqsStep, PointersStep, AcknowledgedStep DEF LogInv, TypeInv
<1> QED
  BY <1>1, <1>2, TypeInvariant, PTL DEF Spec

\* The seqs of a phase are 1, 2, 3, ... in the order of the rows, whatever
\* errors, lost rows and crashes there are: the lock spans read and insert.
THEOREM SeqsNeverRepeat == Spec => []SeqsAreDense
<1>1. LogInv => SeqsAreDense
  BY DEF LogInv
<1> QED
  BY <1>1, LogInvariant, PTL

\* The last_good pointer never dangles, in memory or on file.
THEOREM PointerNeverDangles == Spec => []PointerNamesRecord
<1>1. LogInv => PointerNamesRecord
  BY DEF LogInv
<1> QED
  BY <1>1, LogInvariant, PTL

\* No crash, lost connection or other writer's rollback takes away what a save
\* that returned ok has written.
THEOREM AcknowledgedSurvives == Spec => []AcknowledgedIsDurable
<1>1. LogInv => AcknowledgedIsDurable
  BY DEF LogInv
<1> QED
  BY <1>1, LogInvariant, PTL

-----------------------------------------------------------------------------
\* A rollback knows acknowledged saves only, and is over when it has found
\* its record.
RollInv ==
  \A j \in Jobs :
    /\ known[j] \subseteq {k \in Good : at[k] = "ok"}
    /\ at[j] = "pointed" => pointed[j] \in Rows
    /\ found[j] # None => at[j] = "back"

LEMMA RollStep ==
  ASSUME TypeInv, LogInv, RollInv, RollbackNotBehind, [Next]_vars
  PROVE  RollInv' /\ RollbackNotBehind'
<1> USE CheckpointsAssumption DEF TypeInv, LogInv
<1>1. \A k \in Jobs : at[k] = "ok" => at'[k] = "ok" /\ seq'[k] = seq[k]
  BY OkStays
<1>2. ASSUME UNCHANGED <<pointed, found, known>>,
             \A j \in Jobs : /\ at'[j] = "pointed" => at[j] = "pointed"
                             /\ at[j] = "back" => at'[j] = "back"
      PROVE  RollInv' /\ RollbackNotBehind'
  <2>1. RollInv'
    BY <1>1, <1>2 DEF RollInv
  <2>2. \A j \in Jobs : \A k \in known[j] : k \in Jobs /\ seq'[k] = seq[k]
    BY <1>1 DEF RollInv
  <2> QED
    BY <1>2, <2>1, <2>2 DEF RollbackNotBehind
<1>3. ASSUME NEW j \in Jobs, Begin(j) \/ Enter(j) \/ Conflict(j) \/ Commit(j)
      PROVE  RollInv' /\ RollbackNotBehind'
  BY <1>2, <1>3 DEF Begin, Enter, Conflict, Commit, Go, TypeOK
<1>4. ASSUME NEW j \in Jobs, InsertRecord(j) \/ InsertPointer(j) \/ Break(j) \/ ReadSeq(j)
      PROVE  RollInv' /\ RollbackNotBehind'
  BY <1>2, <1>4 DEF InsertRecord, InsertPointer, Break, ReadSeq, Go, Inside, TypeOK
<1>5. CASE Flush \/ Forget \/ Crash \/ UNCHANGED vars
  BY <1>2, <1>5 DEF Flush, Forget, Crash, vars, Ended, TypeOK
<1>6. ASSUME NEW j \in Jobs, ReadPointer(j) PROVE RollInv' /\ RollbackNotBehind'
  <2>1. /\ at[j] = "start" /\ UNCHANGED <<table, seq, found>>
        /\ known' = [known EXCEPT ![j] = {k \in Good : at[k] = "ok"}]
    BY <1>6 DEF ReadPointer, Go
  <2>2. found[j] = None
    BY <2>1 DEF RollInv
  <2>3. \A i \in Jobs \ {j} : at'[i] = at[i] /\ pointed'[i] = pointed[i] /\ known'[i] = known[i]
    BY <1>6 DEF ReadPointer, Go, TypeOK
  <2>4. at'[j] = "pointed" => pointed'[j] \in Rows
    <3>1. CASE at'[j] = "pointed"
      <4>1. Pointers # {} /\ pointed'[j] = table[Newest(Pointers)]
        BY <1>6, <3>1 DEF ReadPointer, Go, TypeOK
      <4> QED
        BY <4>1, NewestRow DEF Pointers, TypeOK
    <3> QED
      BY <3>1
  <2>5. known'[j] = {k \in Good : at[k] = "ok"}
    BY <2>1 DEF TypeOK
  <2>6. RollInv'
    BY <1>1, <2>1, <2>2, <2>3, <2>4, <2>5 DEF RollInv
  <2> QED
    BY <2>1, <2>2, <2>3, <2>6 DEF RollbackNotBehind
<1>7. ASSUME NEW j \in Jobs, ReadRecord(j) PROVE RollInv' /\ RollbackNotBehind'
  <2> DEFINE p == pointed[j].phase
             r == table[NewestRecord(p)]
  <2>1. at[j] = "pointed" /\ UNCHANGED <<table, seq, pointed, known>>
    BY <1>7 DEF ReadRecord
  <2>2. p \in Phases
    BY <2>1 DEF RollInv, Rows
  <2>3. \A i \in Jobs \ {j} : at'[i] = at[i] /\ found'[i] = found[i]
    BY <1>7 DEF ReadRecord, Go, TypeOK
  <2>4. /\ at'[j] # "pointed"
        /\ \/ at'[j] = "back" /\ Records(p) # {} /\ found'[j] = r
           \/ found'[j] = found[j] /\ found[j] = None
    BY <1>7, <2>1 DEF ReadRecord, Go, RollInv, TypeOK
  <2>5. RollInv'
    BY <1>1, <2>1, <2>3, <2>4 DEF RollInv
  <2>6. ASSUME Records(p) # {}
        PROVE  r.phase = p /\ r.seq = LatestSeq(p)
    BY <2>2, <2>6, NewestRow DEF LatestSeq, NewestRecord, Records
  <2>7. ASSUME NEW k \in known[j], Phase[k] = p PROVE seq[k] <= LatestSeq(p)
    <3>1. k \in Jobs /\ at[k] = "ok"
      BY DEF RollInv
    <3>2. PICK i \in 1..durable : table[i] = Row("record", k, seq[k])
      BY <3>1 DEF AcknowledgedIsDurable
    <3>3. i \in Records(p) /\ table[i].seq = seq[k]
      BY <2>7, <3>2 DEF Records, Row, TypeOK
    <3> QED
      BY <2>2, <3>3, LatestIsHighest
  <2> HIDE DEF p, r
  <2>8. found'[j] # None =>
          /\ found'[j].phase = p
          /\ \A k \in known[j] : Phase[k] = found'[j].phase => seq[k] <= found'[j].seq
    BY <2>4, <2>6, <2>7
  <2> QED
    BY <2>1, <2>3, <2>5, <2>8 DEF RollbackNotBehind, p
<1> QED
  BY <1>3, <1>4, <1>5, <1>6, <1>7 DEF Next, Step, Save

LEMMA RollInvariant == Spec => [](RollInv /\ RollbackNotBehind)
<1>1. Init => RollInv /\ RollbackNotBehind
  BY DEF Init, RollInv, RollbackNotBehind
<1>2. TypeInv /\ LogInv /\ RollInv /\ RollbackNotBehind /\ [Next]_vars
        => RollInv' /\ RollbackNotBehind'
  BY RollStep
<1> QED
  BY <1>1, <1>2, TypeInvariant, LogInvariant, PTL DEF Spec

\* A rollback never falls behind a good checkpoint of its phase that was
\* acknowledged before it began, though it reads in two sections.
THEOREM RollbackKeepsUp == Spec => []RollbackNotBehind
  BY RollInvariant, PTL

\* The places of a job that has inserted its record.
Past == {"inserted", "written", "ok", "failed", "lost"}

\* Nobody goes back behind the insert.
LEMMA PastStays ==
  ASSUME TypeOK, [Next]_vars, NEW k \in Jobs, at[k] \in Past PROVE at'[k] \in Past
<1> USE CheckpointsAssumption DEF Past
<1>1. ASSUME NEW j \in Jobs, Begin(j) \/ Enter(j) \/ Conflict(j) \/ ReadSeq(j)
      PROVE  at'[k] \in Past
  BY <1>1 DEF Begin, Enter, Conflict, ReadSeq, Go, TypeOK
<1>2. ASSUME NEW j \in Jobs, InsertRecord(j) \/ InsertPointer(j) \/ Commit(j) \/ Break(j)
      PROVE  at'[k] \in Past
  BY <1>2 DEF InsertRecord, InsertPointer, Commit, Break, Go, TypeOK
<1>3. ASSUME NEW j \in Jobs, ReadPointer(j) \/ ReadRecord(j) PROVE at'[k] \in Past
  BY <1>3 DEF ReadPointer, ReadRecord, Go, TypeOK
<1>4. CASE Flush \/ Forget \/ Crash \/ UNCHANGED vars
  BY <1>4 DEF Flush, Forget, Crash, vars, TypeOK
<1> QED
  BY <1>1, <1>2, <1>3, <1>4 DEF Next, Step, Save

\* Whoever has a record has inserted it and does not come back to insert
\* another.
Written ==
  \A i \in DOMAIN table :
    table[i].kind = "record" =>
      /\ at[table[i].by] \in Past
      /\ \A k \in DOMAIN table :
           table[k].kind = "record" /\ table[k].by = table[i].by => k = i

LEMMA WrittenStep ==
  ASSUME TypeOK, Written, [Next]_vars PROVE Written'
<1> USE CheckpointsAssumption
<1>1. \A i \in DOMAIN table : table[i].by \in Jobs
  <2>1. \A i \in DOMAIN table : table[i] \in Rows
    BY DEF TypeOK
  <2> QED
    BY <2>1 DEF Rows
<1>2. ASSUME NEW k \in Jobs, at[k] \in Past PROVE at'[k] \in Past
  BY <1>2, PastStays
<1>3. ASSUME NEW j \in Jobs, InsertRecord(j) PROVE Written'
  <2> DEFINE row == Row("record", j, seq[j] + 1)
  <2>1. /\ row \in Rows /\ table' = Append(table, row) /\ row.by = j
        /\ at[j] = "read" /\ at'[j] = "inserted"
    BY <1>3 DEF InsertRecord, Go, AppendRow, Row, Rows, TypeOK
  <2> HIDE DEF row
  <2>2. /\ Len(table) \in Nat
        /\ DOMAIN table = 1..Len(table) /\ DOMAIN table' = DOMAIN table \cup {Len(table) + 1}
        /\ (\A i \in DOMAIN table : table'[i] = table[i]) /\ table'[Len(table) + 1] = row
    BY <2>1, RowsAfterInsert
  <2>3. \A i \in DOMAIN table : table[i].kind = "record" => table[i].by # j
    BY <2>1 DEF Written, Past
  <2> QED
    BY <1>1, <1>2, <2>1, <2>2, <2>3 DEF Written, Past
<1>4. ASSUME NEW j \in Jobs, InsertPointer(j) PROVE Written'
  <2> DEFINE row == Row("pointer", j, seq[j])
  <2>1. row \in Rows /\ table' = Append(table, row) /\ row.kind = "pointer"
    BY <1>4 DEF InsertPointer, AppendRow, Row, Rows, TypeOK
  <2> HIDE DEF row
  <2>2. /\ DOMAIN table' = 1..(Len(table) + 1) /\ DOMAIN table = 1..Len(table)
        /\ Len(table) \in Nat
        /\ (\A i \in DOMAIN table : table'[i] = table[i])
        /\ table'[Len(table) + 1].kind = "pointer"
    BY <2>1, RowsAfterInsert
  <2> QED
    BY <1>1, <1>2, <2>2 DEF Written
<1>5. CASE Drops
  <2>1. \A i \in DOMAIN table' : i \in DOMAIN table /\ table'[i] = table[i]
    BY <1>5, RowsAfterDrop DEF Drops
  <2> QED
    BY <1>1, <1>2, <2>1 DEF Written
<1>6. CASE Keeps
  BY <1>1, <1>2, <1>6 DEF Keeps, Written
<1> QED
  BY <1>3, <1>4, <1>5, <1>6, ThreeWays

LEMMA WrittenInvariant == Spec => []Written
<1>1. Init => Written
  BY DEF Init, Written
<1>2. TypeInv /\ Written /\ [Next]_vars => Written'
  BY WrittenStep DEF TypeInv
<1> QED
  BY <1>1, <1>2, TypeInvariant, PTL DEF Spec

\* A checkpoint is written once, however often its writer tries: only a
\* conflict is retried, and a conflict has written nothing.
THEOREM NoSecondRecord == Spec => []WrittenOnce
<1>1. Written => WrittenOnce
  BY DEF Written, WrittenOnce, Past
<1> QED
  BY <1>1, WrittenInvariant, PTL

-----------------------------------------------------------------------------
(* The store implements Ledger.  Every row is signed by a job that has     *)
(* inserted its record, and a pointer stands behind the record of its job. *)

Signed ==
  \A i \in DOMAIN table :
    /\ table[i].phase = Phase[table[i].by]
    /\ at[table[i].by] \in Past
    /\ table[i].kind = "pointer" =>
         /\ table[i].by \in Good
         /\ \E k \in DOMAIN table :
              k < i /\ table[k].kind = "record" /\ table[k].by = table[i].by

\* A rollback between its reads has a pointer so signed, on file or not.
Pointed ==
  \A j \in Jobs : at[j] = "pointed" =>
    /\ pointed[j].by \in Good
    /\ pointed[j].phase = Phase[pointed[j].by]
    /\ at[pointed[j].by] \in Past

LEMMA SignedStep ==
  ASSUME TypeInv, OwnRows, Signed, [Next]_vars PROVE Signed'
<1> USE CheckpointsAssumption DEF TypeInv
<1>1. \A i \in DOMAIN table : table[i].by \in Jobs
  <2>1. \A i \in DOMAIN table : table[i] \in Rows
    BY DEF TypeOK
  <2> QED
    BY <2>1 DEF Rows
<1>2. ASSUME NEW k \in Jobs, at[k] \in Past PROVE at'[k] \in Past
  BY <1>2, PastStays
<1>3. ASSUME NEW j \in Jobs, InsertRecord(j) PROVE Signed'
  <2> DEFINE row == Row("record", j, seq[j] + 1)
  <2>1. /\ row \in Rows /\ table' = Append(table, row) /\ row.kind = "record"
        /\ row.by = j /\ row.phase = Phase[j] /\ at'[j] \in Past
    BY <1>3 DEF InsertRecord, Go, AppendRow, Row, Rows, Past, TypeOK
  <2> HIDE DEF row
  <2>2. /\ DOMAIN table' = 1..(Len(table) + 1) /\ DOMAIN table = 1..Len(table)
        /\ Len(table) \in Nat
        /\ (\A i \in DOMAIN table : table'[i] = table[i]) /\ table'[Len(table) + 1] = row
    BY <2>1, RowsAfterInsert
  <2> QED
    BY <1>1, <1>2, <2>1, <2>2 DEF Signed
<1>4. ASSUME NEW j \in Jobs, InsertPointer(j) PROVE Signed'
  <2> DEFINE row == Row("pointer", j, seq[j])
  <2>1. /\ row \in Rows /\ table' = Append(table, row)
        /\ row.by = j /\ row.phase = Phase[j] /\ at'[j] \in Past
        /\ j \in Good /\ at[j] = "inserted"
    BY <1>4 DEF InsertPointer, Go, AppendRow, Row, Rows, Past, TypeOK
  <2>2. PICK k \in DOMAIN table : table[k].kind = "record" /\ table[k].by = j
    BY <2>1 DEF OwnRows, Row
  <2> HIDE DEF row
  <2>3. /\ DOMAIN table' = 1..(Len(table) + 1) /\ DOMAIN table = 1..Len(table)
        /\ Len(table) \in Nat
        /\ (\A i \in DOMAIN table : table'[i] = table[i]) /\ table'[Len(table) + 1] = row
    BY <2>1, RowsAfterInsert
  <2> QED
    BY <1>1, <1>2, <2>1, <2>2, <2>3 DEF Signed
<1>5. CASE Drops
  <2>1. /\ DOMAIN table' = 1..durable /\ durable \in Nat /\ DOMAIN table = 1..Len(table)
        /\ \A i \in DOMAIN table' : i \in DOMAIN table /\ table'[i] = table[i]
    BY <1>5, RowsAfterDrop DEF Drops
  <2>2. ASSUME NEW i \in DOMAIN table'
        PROVE  /\ table'[i].phase = Phase[table'[i].by]
               /\ at'[table'[i].by] \in Past
               /\ table'[i].kind = "pointer" => table'[i].by \in Good
    BY <1>1, <1>2, <2>1 DEF Signed
  <2>3. ASSUME NEW i \in DOMAIN table', table'[i].kind = "pointer"
        PROVE  \E k \in DOMAIN table' :
                 k < i /\ table'[k].kind = "record" /\ table'[k].by = table'[i].by
    <3>1. PICK k \in DOMAIN table :
            k < i /\ table[k].kind = "record" /\ table[k].by = table[i].by
      BY <2>1, <2>3 DEF Signed
    <3>2. k \in DOMAIN table'
      BY <2>1, <3>1 DEF TypeOK
    <3> QED
      BY <2>1, <3>1, <3>2
  <2> QED
    BY <2>2, <2>3 DEF Signed
<1>6. CASE Keeps
  BY <1>1, <1>2, <1>6 DEF Keeps, Signed
<1> QED
  BY <1>3, <1>4, <1>5, <1>6, ThreeWays

LEMMA SignedInvariant == Spec => []Signed
<1>1. Init => Signed
  BY DEF Init, Signed
<1>2. TypeInv /\ LogInv /\ Signed /\ [Next]_vars => Signed'
  BY SignedStep DEF LogInv
<1> QED
  BY <1>1, <1>2, TypeInvariant, LogInvariant, PTL DEF Spec

LEMMA PointedStep ==
  ASSUME TypeInv, Signed, Pointed, [Next]_vars PROVE Pointed'
<1> USE CheckpointsAssumption DEF TypeInv
<1>1. \A k \in Jobs : at[k] \in Past => at'[k] \in Past
  BY PastStays
<1>2. ASSUME UNCHANGED pointed, \A j \in Jobs : at'[j] = "pointed" => at[j] = "pointed"
      PROVE  Pointed'
  BY <1>1, <1>2 DEF Pointed
<1>3. ASSUME NEW j \in Jobs, Begin(j) \/ Save(j) PROVE Pointed'
  BY <1>2, <1>3
  DEF Begin, Save, Enter, Conflict, InsertRecord, InsertPointer, Commit, Go, TypeOK
<1>4. ASSUME NEW j \in Jobs, ReadSeq(j) \/ ReadRecord(j) \/ Break(j) PROVE Pointed'
  BY <1>2, <1>4 DEF ReadSeq, ReadRecord, Break, Go, TypeOK
<1>5. CASE Flush \/ Forget \/ Crash \/ UNCHANGED vars
  BY <1>2, <1>5 DEF Flush, Forget, Crash, vars, TypeOK
<1>6. ASSUME NEW j \in Jobs, ReadPointer(j) PROVE Pointed'
  <2> DEFINE m == Newest(Pointers)
  <2>1. /\ \A i \in Jobs \ {j} : pointed'[i] = pointed[i] /\ at'[i] = at[i]
        /\ at'[j] = "pointed" => Pointers # {} /\ pointed'[j] = table[m]
    BY <1>6 DEF ReadPointer, Go, TypeOK
  <2>2. Pointers # {} => m \in DOMAIN table /\ table[m].kind = "pointer"
    BY NewestRow DEF Pointers
  <2> HIDE DEF m
  <2>3. Pointers # {} => /\ table[m].by \in Good /\ table[m].phase = Phase[table[m].by]
                         /\ at[table[m].by] \in Past
    BY <2>2 DEF Signed
  <2> QED
    BY <1>1, <2>1, <2>3 DEF Pointed
<1> QED
  BY <1>3, <1>4, <1>5, <1>6 DEF Next, Step

LEMMA PointedInvariant == Spec => []Pointed
<1>1. Init => Pointed
  BY DEF Init, Pointed
<1>2. TypeInv /\ Signed /\ Pointed /\ [Next]_vars => Pointed'
  BY PointedStep
<1> QED
  BY <1>1, <1>2, TypeInvariant, SignedInvariant, PTL DEF Spec

\* Ledger's variables.
Numbers == [j \in Jobs |-> NumberOf(j)]

Marks == {j \in Jobs : OnFile("pointer", j) # {}}

Told == [j \in Jobs |-> Heard(j)]

Aligned == [j \in Jobs |-> IF found[j] = None THEN None ELSE found[j].by]

\* The number of a job is the seq of its record among the committed rows.
NumbersAreSeqs ==
  \A j \in Jobs :
    /\ NumberOf(j) \in Nat
    /\ NumberOf(j) # 0 =>
         \E i \in 1..durable :
           table[i].kind = "record" /\ table[i].by = j /\ table[i].seq = NumberOf(j)
    /\ \A i \in 1..durable :
         table[i].kind = "record" /\ table[i].by = j => NumberOf(j) = table[i].seq /\ NumberOf(j) # 0

LEMMA NumbersFromRows ==
  ASSUME TypeOK, SeqsAreDense, Written PROVE NumbersAreSeqs
<1> SUFFICES ASSUME NEW j \in Jobs
    PROVE  /\ NumberOf(j) \in Nat
           /\ NumberOf(j) # 0 =>
                \E i \in 1..durable :
                  table[i].kind = "record" /\ table[i].by = j /\ table[i].seq = NumberOf(j)
           /\ \A i \in 1..durable :
                table[i].kind = "record" /\ table[i].by = j
                  => NumberOf(j) = table[i].seq /\ NumberOf(j) # 0
  BY DEF NumbersAreSeqs
<1>1. 1..durable \subseteq DOMAIN table /\ durable \in Nat /\ \A i \in DOMAIN table : i \in Nat
  BY DEF TypeOK
<1>2. CASE OnFile("record", j) = {}
  BY <1>2 DEF OnFile, NumberOf
<1>3. ASSUME NEW i \in OnFile("record", j)
      PROVE  /\ OnFile("record", j) = {i}
             /\ NumberOf(j) = table[i].seq /\ NumberOf(j) \in Nat /\ NumberOf(j) # 0
  <2>1. i \in DOMAIN table /\ i \in 1..durable /\ table[i].kind = "record" /\ table[i].by = j
    BY <1>1 DEF OnFile
  <2>2. OnFile("record", j) = {i}
    BY <1>1, <2>1 DEF OnFile, Written
  <2>3. Newest({i}) = i
    BY <1>1, <2>1 DEF Newest
  <2>4. table[i].seq \in Nat
    <3>1. table[i] \in Rows
      BY <2>1 DEF TypeOK
    <3> QED
      BY <3>1 DEF Rows
  <2>5. table[i].seq # 0
    <3>1. CASE table[i].seq # 1
      <4>1. PICK k \in Records(table[i].phase) : table[k].seq = table[i].seq - 1
        BY <2>1, <3>1 DEF SeqsAreDense
      <4>2. table[k] \in Rows
        BY <4>1 DEF Records, TypeOK
      <4>3. table[k].seq \in Nat
        BY <4>2 DEF Rows
      <4> QED
        BY <2>4, <4>1, <4>3
    <3> QED
      BY <3>1
  <2> QED
    BY <2>2, <2>3, <2>4, <2>5 DEF NumberOf
<1>4. CASE OnFile("record", j) # {}
  <2>1. PICK i \in OnFile("record", j) : TRUE
    BY <1>4
  <2> QED
    BY <1>3, <2>1 DEF OnFile
<1> QED
  BY <1>2, <1>4

\* What is on file is a ledger's: numbers are dense, and a mark has a number.
Filed ==
  /\ NumbersAreSeqs
  /\ L!Numbered(Numbers)
  /\ \A j \in Marks : j \in Good /\ NumberOf(j) # 0

LEMMA FiledNow ==
  ASSUME TypeOK, SeqsAreDense, Written, Signed PROVE Filed
<1> USE CheckpointsAssumption
<1>1. NumbersAreSeqs
  BY NumbersFromRows
<1>2. /\ 1..durable \subseteq DOMAIN table /\ durable \in Nat
      /\ \A i \in DOMAIN table : i \in Nat /\ table[i].by \in Jobs
  <2>1. \A i \in DOMAIN table : table[i] \in Rows
    BY DEF TypeOK
  <2> QED
    BY <2>1 DEF Rows, TypeOK
<1>3. ASSUME NEW j \in Jobs, NumberOf(j) # 0
      PROVE  /\ \A k \in Jobs : Phase[j] = Phase[k] /\ NumberOf(k) = NumberOf(j) => k = j
             /\ \/ NumberOf(j) = 1
                \/ \E k \in Jobs : Phase[j] = Phase[k] /\ NumberOf(k) = NumberOf(j) - 1
  <2>1. PICK i \in 1..durable :
          table[i].kind = "record" /\ table[i].by = j /\ table[i].seq = NumberOf(j)
    BY <1>1, <1>3 DEF NumbersAreSeqs
  <2>2. i \in DOMAIN table /\ table[i].phase = Phase[j]
    BY <1>2, <2>1 DEF Signed
  <2>3. ASSUME NEW k \in Jobs, Phase[j] = Phase[k], NumberOf(k) = NumberOf(j) PROVE k = j
    <3>1. PICK m \in 1..durable :
            table[m].kind = "record" /\ table[m].by = k /\ table[m].seq = NumberOf(k)
      BY <1>1, <1>3, <2>3 DEF NumbersAreSeqs
    <3>2. m \in DOMAIN table /\ table[m].phase = Phase[k]
      BY <1>2, <3>1 DEF Signed
    <3>3. i \in Records(table[i].phase) /\ m \in Records(table[i].phase)
          /\ table[m].phase = table[i].phase
      BY <2>1, <2>2, <2>3, <3>1, <3>2 DEF Records
    <3>4. ~(m < i) /\ ~(i < m)
      BY <1>1, <2>1, <2>2, <2>3, <3>1, <3>2, <3>3 DEF SeqsAreDense, NumbersAreSeqs
    <3>5. m = i
      BY <1>2, <2>2, <3>2, <3>4
    <3> QED
      BY <2>1, <3>1, <3>5
  <2>4. ASSUME NumberOf(j) # 1
        PROVE  \E k \in Jobs : Phase[j] = Phase[k] /\ NumberOf(k) = NumberOf(j) - 1
    <3>1. PICK m \in Records(table[i].phase) : m < i /\ table[m].seq = table[i].seq - 1
      BY <2>1, <2>2, <2>4 DEF SeqsAreDense
    <3>2. /\ m \in DOMAIN table /\ table[m].kind = "record" /\ table[m].phase = Phase[j]
          /\ m \in 1..durable
      BY <1>2, <2>1, <2>2, <3>1 DEF Records, TypeOK
    <3>3. table[m].by \in Jobs /\ Phase[table[m].by] = Phase[j]
      BY <1>2, <3>2 DEF Signed
    <3>4. NumberOf(table[m].by) = table[m].seq
      BY <1>1, <3>2, <3>3 DEF NumbersAreSeqs
    <3> QED
      BY <2>1, <3>1, <3>3, <3>4
  <2> QED
    BY <2>3, <2>4
<1>4. L!Numbered(Numbers)
  BY <1>3 DEF L!Numbered, L!SamePhase, Numbers
<1>5. ASSUME NEW j \in Marks PROVE j \in Good /\ NumberOf(j) # 0
  <2>1. PICK i \in 1..durable : table[i].kind = "pointer" /\ table[i].by = j
    BY DEF Marks, OnFile
  <2>2. j \in Good
    BY <1>2, <2>1 DEF Signed
  <2>3. PICK k \in DOMAIN table : k < i /\ table[k].kind = "record" /\ table[k].by = j
    BY <1>2, <2>1 DEF Signed
  <2>4. k \in 1..durable
    BY <1>2, <2>3 DEF TypeOK
  <2> QED
    BY <1>1, <2>2, <2>3, <2>4 DEF NumbersAreSeqs, Marks
<1> QED
  BY <1>1, <1>4, <1>5 DEF Filed

LEMMA FiledInvariant == Spec => []Filed
<1>1. TypeInv /\ LogInv /\ Written /\ Signed => Filed
  BY FiledNow DEF TypeInv, LogInv
<1> QED
  BY <1>1, TypeInvariant, LogInvariant, WrittenInvariant, SignedInvariant, PTL

\* What a job was told it stays told; only a commit and the last conflict tell.
LEMMA ToldStays ==
  ASSUME TypeOK, [Next]_vars, NEW k \in Jobs
  PROVE  \/ Told'[k] = Told[k]
         \/ Commit(k) /\ Told[k] = "nothing" /\ Told'[k] = "saved"
         \/ Conflict(k) /\ Told[k] = "nothing" /\ Told'[k] = "refused"
<1> USE CheckpointsAssumption DEF Told, Heard, TypeOK, Inside, Ended
<1>1. ASSUME NEW j \in Jobs, Begin(j) \/ Enter(j) \/ ReadSeq(j) PROVE Told'[k] = Told[k]
  BY <1>1 DEF Begin, Enter, ReadSeq, Go
<1>2. ASSUME NEW j \in Jobs, InsertRecord(j) \/ InsertPointer(j) \/ Break(j)
      PROVE  Told'[k] = Told[k]
  BY <1>2 DEF InsertRecord, InsertPointer, Break, Go
<1>3. ASSUME NEW j \in Jobs, ReadPointer(j) \/ ReadRecord(j) PROVE Told'[k] = Told[k]
  BY <1>3 DEF ReadPointer, ReadRecord, Go
<1>4. ASSUME NEW j \in Jobs, Conflict(j)
      PROVE  \/ Told'[k] = Told[k]
             \/ k = j /\ Told[k] = "nothing" /\ Told'[k] = "refused"
  BY <1>4 DEF Conflict, Go
<1>5. ASSUME NEW j \in Jobs, Commit(j)
      PROVE  \/ Told'[k] = Told[k]
             \/ k = j /\ Told[k] = "nothing" /\ Told'[k] = "saved"
  BY <1>5 DEF Commit, Go
<1>6. CASE Flush \/ Forget \/ UNCHANGED vars
  BY <1>6 DEF Flush, Forget, vars
<1>7. CASE Crash
  BY <1>7 DEF Crash
<1> QED
  BY <1>1, <1>2, <1>3, <1>4, <1>5, <1>6, <1>7 DEF Next, Step, Save

\* Every step keeps the numbers and the marks that are given.
LEMMA StepGrows ==
  ASSUME TypeOK, TypeOK', Filed, Filed', Written', [Next]_vars
  PROVE  L!Grows
<1>1. Numbers' \in [Jobs -> Nat] /\ L!Numbered(Numbers')
  <2>1. Numbers' \in [Jobs -> Nat]
    BY DEF Filed, NumbersAreSeqs, Numbers
  <2>2. L!Numbered(Numbers')
    BY DEF Filed, L!Numbered, L!SamePhase
  <2> QED
    BY <2>1, <2>2
<1>2. ASSUME NEW j \in Jobs, NumberOf(j) # 0 PROVE NumberOf(j)' = NumberOf(j)
  <2>1. PICK i \in 1..durable :
          table[i].kind = "record" /\ table[i].by = j /\ table[i].seq = NumberOf(j)
    BY <1>2 DEF Filed, NumbersAreSeqs
  <2>2. i \in 1..durable' /\ table'[i] = table[i]
    BY CommittedStays
  <2> QED
    BY <2>1, <2>2 DEF Filed, NumbersAreSeqs
<1>3. ASSUME NEW j \in Jobs, Told[j] = "refused" PROVE NumberOf(j)' = 0
  <2>1. Told'[j] = "refused"
    BY <1>3, ToldStays
  <2>2. at'[j] = "conflict"
    BY <2>1 DEF Told, Heard
  <2>3. ASSUME NEW i \in 1..durable', table'[i].kind = "record", table'[i].by = j PROVE FALSE
    <3>1. i \in DOMAIN table'
      BY DEF TypeOK
    <3> QED
      BY <2>2, <2>3, <3>1 DEF Written, Past
  <2> QED
    BY <2>3 DEF Filed, NumbersAreSeqs
<1>4. ASSUME NEW j \in Marks PROVE j \in Marks'
  <2>1. PICK i \in 1..durable : table[i].kind = "pointer" /\ table[i].by = j
    BY DEF Marks, OnFile
  <2>2. i \in 1..durable' /\ table'[i] = table[i]
    BY CommittedStays
  <2> QED
    BY <2>1, <2>2 DEF Marks, OnFile
<1>5. \A j \in Marks' : j \in Good /\ NumberOf(j)' # 0
  BY DEF Filed
<1> QED
  BY <1>1, <1>2, <1>3, <1>4, <1>5 DEF L!Grows, Numbers, Marks, Told

\* Only the second read of a rollback that finds its record aligns it.
LEMMA AlignedStays ==
  ASSUME RollInv, [Next]_vars, ~\E j \in Jobs : ReadRecord(j)
  PROVE  Aligned' = Aligned
<1>1. UNCHANGED found
  BY DEF Next, vars, Step, Save, Begin, Enter, Conflict, InsertRecord, InsertPointer, Commit,
         Break, ReadSeq, ReadPointer, Flush, Forget, Crash
<1> QED
  BY <1>1 DEF Aligned

\* The same rows on file, the same numbers and marks.
LEMMA SameFile ==
  ASSUME Filed, Filed', UNCHANGED <<table, durable>>
  PROVE  Numbers' = Numbers /\ Marks' = Marks
<1>1. ASSUME NEW j \in Jobs PROVE NumberOf(j)' = NumberOf(j)
  <2>1. CASE NumberOf(j) # 0
    BY <2>1 DEF Filed, NumbersAreSeqs
  <2>2. CASE NumberOf(j)' # 0
    BY <2>2 DEF Filed, NumbersAreSeqs
  <2> QED
    BY <2>1, <2>2
<1>2. Marks' = Marks
  BY DEF Marks, OnFile
<1> QED
  BY <1>1, <1>2 DEF Numbers

\* A step is one of Ledger's or leaves all it has as it was.
Recorded == L!Next \/ UNCHANGED L!vars

LEMMA MapsCommit ==
  ASSUME TypeOK, OwnRows, Filed', L!Grows, NEW j \in Jobs, Commit(j),
         Told' = [Told EXCEPT ![j] = "saved"], Told[j] = "nothing", Aligned' = Aligned
  PROVE  Recorded
<1>1. /\ UNCHANGED <<table, seq>> /\ durable' = Len(table) /\ DOMAIN table = 1..durable'
      /\ at[j] = IF j \in Good THEN "written" ELSE "inserted"
  BY DEF Commit, Go, TypeOK
<1>2. NumberOf(j)' # 0
  <2>1. PICK i \in DOMAIN table : table[i] = Row("record", j, seq[j])
    BY <1>1 DEF OwnRows
  <2> QED
    BY <1>1, <2>1 DEF Filed, NumbersAreSeqs, Row
<1>3. ASSUME j \in Good PROVE j \in Marks'
  <2>1. PICK i \in DOMAIN table : table[i] = Row("pointer", j, seq[j])
    BY <1>1, <1>3 DEF OwnRows
  <2>2. i \in 1..durable' /\ table'[i].kind = "pointer" /\ table'[i].by = j
    BY <1>1, <2>1 DEF Row
  <2> QED
    BY <2>2 DEF Marks, OnFile
<1>4. L!Save(j)
  BY <1>2, <1>3 DEF L!Save, L!Tell, Numbers, Marks, Told, Aligned
<1> QED
  BY <1>4 DEF Recorded, L!Next

LEMMA MapsConflict ==
  ASSUME TypeOK, Filed, Filed', Written, NEW j \in Jobs, Conflict(j),
         Told' = [Told EXCEPT ![j] = "refused"], Told[j] = "nothing", Aligned' = Aligned
  PROVE  Recorded
<1>1. at[j] = "ask" /\ UNCHANGED <<table, durable>>
  BY DEF Conflict, Go
<1>2. NumberOf(j) = 0
  <2>1. ASSUME NEW i \in 1..durable, table[i].kind = "record", table[i].by = j PROVE FALSE
    <3>1. i \in DOMAIN table
      BY DEF TypeOK
    <3> QED
      BY <1>1, <2>1, <3>1 DEF Written, Past
  <2> QED
    BY <2>1 DEF Filed, NumbersAreSeqs
<1>3. Numbers' = Numbers /\ Marks' = Marks
  BY <1>1, SameFile
<1>4. L!Refuse(j)
  BY <1>2, <1>3 DEF L!Refuse, L!Tell, Numbers, Marks, Told, Aligned
<1> QED
  BY <1>4 DEF Recorded, L!Next

LEMMA MapsRead ==
  ASSUME TypeInv, LogInv, RollInv, Written, Signed, Pointed, Filed, Filed', NEW j \in Jobs,
         ReadRecord(j)
  PROVE  Recorded
<1> USE CheckpointsAssumption DEF TypeInv, LogInv
<1> DEFINE p == pointed[j].phase
           m == NewestRecord(p)
<1>1. at[j] = "pointed" /\ found[j] = None /\ UNCHANGED <<table, durable>>
  BY DEF ReadRecord, RollInv
<1>2. \A i \in Jobs : Heard(i)' = Heard(i)
  BY DEF ReadRecord, Go, Heard, TypeOK
<1>3. Told' = Told
  BY <1>2 DEF Told
<1>4. Numbers' = Numbers /\ Marks' = Marks
  BY <1>1, SameFile
<1>5. CASE found' = found
  BY <1>3, <1>4, <1>5 DEF Recorded, L!vars, Numbers, Marks, Told, Aligned
<1>6. CASE Records(p) # {} /\ found' = [found EXCEPT ![j] = table[m]] /\ table[m] = None
  <2>1. found' = found
    BY <1>1, <1>6 DEF TypeOK
  <2> QED
    BY <1>5, <2>1
<1>7. CASE Records(p) # {} /\ found' = [found EXCEPT ![j] = table[m]] /\ table[m] # None
  <2>1. pointed[j].by \in Good /\ p = Phase[pointed[j].by] /\ at[pointed[j].by] \in Past
    BY <1>1 DEF Pointed
  <2>2. p \in Phases
    BY <2>1
  <2>3. /\ m \in DOMAIN table /\ table[m].kind = "record" /\ table[m].phase = p
        /\ table[m].seq = LatestSeq(p)
    BY <1>7, <2>2, NewestRow DEF Records, LatestSeq, NewestRecord
  <2> HIDE DEF m
  <2>4. table[m].by \in Jobs /\ Phase[table[m].by] = p /\ at[table[m].by] \in Past
    <3>1. table[m] \in Rows
      BY <2>3 DEF TypeOK
    <3> QED
      BY <2>3, <3>1 DEF Rows, Signed
  <2> HIDE DEF p
  <2>5. PICK k \in Jobs : k = table[m].by
    BY <2>4
  <2>6. Phase[k] = p /\ at[k] \in Past
    BY <2>4, <2>5
  <2>7. Aligned' = [Aligned EXCEPT ![j] = k]
    BY <1>7, <2>5 DEF Aligned, TypeOK
  <2>8. Told[j] = "nothing" /\ Aligned[j] = None /\ Told[k] # "refused"
    BY <1>1, <2>6 DEF Told, Heard, Aligned, Past
  <2>9. \E g \in Good : Phase[g] = Phase[k] /\ Told[g] # "refused"
    BY <2>1, <2>6 DEF Told, Heard, Past
  <2>10. ASSUME Numbers[k] # 0, NEW i \in Jobs, Phase[i] = Phase[k]
         PROVE  Numbers[i] <= Numbers[k]
    <3>1. NumberOf(k) # 0 /\ NumberOf(k) \in Nat /\ NumberOf(i) \in Nat
      BY <2>10 DEF Numbers, Filed, NumbersAreSeqs
    <3>2. PICK n \in 1..durable :
            table[n].kind = "record" /\ table[n].by = k /\ table[n].seq = NumberOf(k)
      BY <3>1 DEF Filed, NumbersAreSeqs
    <3>3. n = m
      BY <2>3, <2>5, <3>2 DEF Written, TypeOK
    <3>4. CASE NumberOf(i) # 0
      <4>1. PICK o \in 1..durable :
              table[o].kind = "record" /\ table[o].by = i /\ table[o].seq = NumberOf(i)
        BY <3>4 DEF Filed, NumbersAreSeqs
      <4>2. o \in Records(p)
        <5>1. o \in DOMAIN table
          BY DEF TypeOK
        <5> QED
          BY <2>6, <2>10, <4>1, <5>1 DEF Records, Signed
      <4>3. NumberOf(i) <= LatestSeq(p)
        BY <2>2, <4>1, <4>2, LatestIsHighest
      <4> QED
        BY <2>3, <3>2, <3>3, <4>3 DEF Numbers
    <3>5. CASE NumberOf(i) = 0
      BY <3>1, <3>5 DEF Numbers
    <3> QED
      BY <3>4, <3>5
  <2>11. L!Align(j, k)
    BY <1>3, <1>4, <2>7, <2>8, <2>9, <2>10
    DEF L!Align, L!SamePhase, Numbers, Marks, Told, Aligned
  <2> QED
    BY <2>11 DEF Recorded, L!Next
<1> QED
  BY <1>5, <1>6, <1>7 DEF ReadRecord

\* The store implements Ledger: no error, lost connection or crash does
\* anything to the numbers and marks on file, a refused save has none, and a
\* rollback goes to the newest save of its phase.
THEOREM StoreIsALedger == Spec => ImplementsLedger
<1>1. Init => L!Init
  <2> SUFFICES ASSUME Init PROVE L!Init
    OBVIOUS
  <2>1. \A j \in Jobs : NumberOf(j) = 0 /\ OnFile("pointer", j) = {}
    <3>1. 1..durable = {}
      BY DEF Init
    <3> QED
      BY <3>1 DEF NumberOf, OnFile
  <2>2. \A j \in Jobs : Heard(j) = "nothing" /\ found[j] = None
    BY DEF Init, Heard
  <2> QED
    BY <2>1, <2>2 DEF L!Init
<1>2. ASSUME TypeInv, LogInv, RollInv, Written, Signed, Pointed, Filed, [Next]_vars,
             TypeInv', Written', Filed'
      PROVE  [L!Next]_L!vars
  <2> SUFFICES Recorded
    BY DEF Recorded
  <2> USE <1>2
  <2>1. L!Grows
    BY StepGrows DEF TypeInv
  <2>2. ASSUME NEW j \in Jobs, ReadRecord(j) PROVE Recorded
    BY <2>2, MapsRead
  <2>3. ASSUME ~\E j \in Jobs : ReadRecord(j) PROVE Recorded
    <3>1. Aligned' = Aligned
      BY <2>3, AlignedStays
    <3>2. CASE Told' = Told
      <4>1. L!File
        BY <2>1, <3>1, <3>2 DEF L!File, Told, Aligned
      <4> QED
        BY <4>1 DEF Recorded, L!Next
    <3>3. ASSUME NEW j \in Jobs, Commit(j), Told[j] = "nothing", Told'[j] = "saved"
          PROVE  Recorded
      <4>1. \A i \in Jobs \ {j} : Told'[i] = Told[i]
        BY <3>3 DEF Commit, Go, Told, Heard, TypeInv, TypeOK
      <4>2. Told' = [Told EXCEPT ![j] = "saved"]
        BY <3>3, <4>1 DEF Told
      <4> QED
        BY <2>1, <3>1, <3>3, <4>2, MapsCommit DEF TypeInv, LogInv
    <3>4. ASSUME NEW j \in Jobs, Conflict(j), Told[j] = "nothing", Told'[j] = "refused"
          PROVE  Recorded
      <4>1. \A i \in Jobs \ {j} : Told'[i] = Told[i]
        BY <3>4 DEF Conflict, Go, Told, Heard, TypeInv, TypeOK
      <4>2. Told' = [Told EXCEPT ![j] = "refused"]
        BY <3>4, <4>1 DEF Told
      <4> QED
        BY <3>1, <3>4, <4>2, MapsConflict DEF TypeInv
    <3>5. (\A j \in Jobs : Told'[j] = Told[j]) => Told' = Told
      BY DEF Told
    <3> QED
      BY <3>2, <3>3, <3>4, <3>5, ToldStays DEF TypeInv
  <2> QED
    BY <2>2, <2>3
<1> QED
  BY <1>1, <1>2, TypeInvariant, LogInvariant, RollInvariant, WrittenInvariant, SignedInvariant,
     PointedInvariant, FiledInvariant, PTL
  DEF Spec, ImplementsLedger, L!Spec
=============================================================================
