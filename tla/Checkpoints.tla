------------------------------ MODULE Checkpoints ------------------------------
(***************************************************************************)
(* The phase checkpoints of one workflow: hippocampus/layered_memory.py    *)
(* and the retrying writer and the rollback built on it,                   *)
(* orchestrator/long_task_checkpoint.py and long_task_recovery.py.         *)
(*                                                                         *)
(* All rows go through one connection, under one lock, _db_lock.  A write  *)
(* that fails is not rolled back: the rows it has inserted stay on the     *)
(* connection, where every reader sees them, until the next writer commits *)
(* or a rollback, a new connection or a crash drops them.                  *)
(***************************************************************************)
EXTENDS Integers, Sequences

CONSTANTS
  Jobs,      \* coroutines that save a checkpoint or roll back to one
  Phases,
  None,      \* Python's None
  Role,      \* "append": expected_seq=None; "retry":
             \* save_phase_checkpoint_with_retry; "rollback"
  Phase,     \* the phase a job saves
  Good,      \* the jobs that pass update_last_good=True
  MaxTries,  \* max_retries
  MaxFaults  \* bound: errors, lost connections and crashes

ASSUME CheckpointsAssumption ==
  /\ Role \in [Jobs -> {"append", "retry", "rollback"}]
  /\ Phase \in [Jobs -> Phases]
  /\ Good \subseteq Jobs
  /\ None \notin Jobs \cup Nat
  /\ MaxTries \in Nat \ {0}
  /\ MaxFaults \in Nat

VARIABLES
  table,     \* the rows of the workflow as the connection has them, by id
  durable,   \* how many of them are committed: the first ones
  lock,      \* the job in _db_lock at an await, or None
  at,        \* how far a job is
  expected,  \* expected_seq of the save a job is in, or None
  seq,       \* the newest seq a writer read, then its own
  tries,     \* attempts of a retrying writer that met a conflict
  pointed,   \* the last_good pointer a rollback read, or None
  found,     \* the record a rollback aligned the context to, or None
  faults,
  known      \* history: the good saves acknowledged before a rollback began

vars == <<table, durable, lock, at, expected, seq, tries, pointed, found, faults, known>>

Rows == [kind : {"record", "pointer"}, phase : Phases, seq : Nat, by : Jobs]

Row(kind, j, s) == [kind |-> kind, phase |-> Phase[j], seq |-> s, by |-> j]

\* A save's outcomes are "ok", "conflict" and "failed"; a rollback's "back"
\* and "none"; "lost" is a job that died with the process.
Ended == {"ok", "conflict", "failed", "back", "none", "lost"}

\* The places where a job has the lock.
Inside == {"read", "inserted", "written"}

-----------------------------------------------------------------------------
Init ==
  /\ table = <<>>
  /\ durable = 0
  /\ lock = None
  /\ at = [j \in Jobs |-> "start"]
  /\ expected = [j \in Jobs |-> None]
  /\ seq = [j \in Jobs |-> 0]
  /\ tries = [j \in Jobs |-> 0]
  /\ pointed = [j \in Jobs |-> None]
  /\ found = [j \in Jobs |-> None]
  /\ faults = 0
  /\ known = [j \in Jobs |-> {}]

Go(j, from, to) == at[j] = from /\ at' = [at EXCEPT ![j] = to]

Fault == faults < MaxFaults /\ faults' = faults + 1

Records(p) == {i \in DOMAIN table : table[i].kind = "record" /\ table[i].phase = p}

Pointers == {i \in DOMAIN table : table[i].kind = "pointer"}

\* ORDER BY id DESC LIMIT 1
Newest(ids) == CHOOSE i \in ids : \A k \in ids : k <= i

\* A wrong order: the oldest row.
OldestRecord(p) == CHOOSE i \in Records(p) : \A k \in Records(p) : i <= k

NewestRecord(p) == Newest(Records(p))

LatestSeq(p) == IF Records(p) = {} THEN 0 ELSE table[Newest(Records(p))].seq

-----------------------------------------------------------------------------
(* save_workflow_phase_checkpoint                                          *)

\* A writer that does not expect a seq.
Begin(j) ==
  /\ Role[j] = "append"
  /\ Go(j, "start", "ask")
  /\ UNCHANGED <<table, durable, lock, expected, seq, tries, pointed, found, faults, known>>

\* A wrong lock: the writer does not wait for it.
EnterAnyway(j) ==
  /\ expected[j] \in {None, LatestSeq(Phase[j])}
  /\ Go(j, "ask", "read")
  /\ lock' = j
  /\ seq' = [seq EXCEPT ![j] = LatestSeq(Phase[j])]
  /\ UNCHANGED <<table, durable, expected, tries, pointed, found, faults, known>>

\* The lock is free; the newest seq is read and is the one expected.
Enter(j) ==
  /\ lock = None
  /\ expected[j] \in {None, LatestSeq(Phase[j])}
  /\ Go(j, "ask", "read")
  /\ lock' = j
  /\ seq' = [seq EXCEPT ![j] = LatestSeq(Phase[j])]
  /\ UNCHANGED <<table, durable, expected, tries, pointed, found, faults, known>>

\* It is another: somebody has written since.  Nothing is.
Conflict(j) ==
  /\ lock = None
  /\ expected[j] \notin {None, LatestSeq(Phase[j])}
  /\ Go(j, "ask", IF tries[j] + 1 < MaxTries THEN "again" ELSE "conflict")
  /\ seq' = [seq EXCEPT ![j] = LatestSeq(Phase[j])]
  /\ tries' = [tries EXCEPT ![j] = @ + 1]
  /\ UNCHANGED <<table, durable, lock, expected, pointed, found, faults, known>>

AppendRow(row) == table' = Append(table, row)

InsertRecord(j) ==
  /\ Go(j, "read", "inserted")
  /\ seq' = [seq EXCEPT ![j] = @ + 1]
  /\ AppendRow(Row("record", j, seq[j] + 1))
  /\ UNCHANGED <<durable, lock, expected, tries, pointed, found, faults, known>>

\* A wrong pointer: the seq that was read, not the one written.
InsertPointerToRead(j) ==
  /\ j \in Good
  /\ Go(j, "inserted", "written")
  /\ AppendRow(Row("pointer", j, seq[j] - 1))
  /\ UNCHANGED <<durable, lock, expected, seq, tries, pointed, found, faults, known>>

\* With update_last_good.
InsertPointer(j) ==
  /\ j \in Good
  /\ Go(j, "inserted", "written")
  /\ AppendRow(Row("pointer", j, seq[j]))
  /\ UNCHANGED <<durable, lock, expected, seq, tries, pointed, found, faults, known>>

\* A wrong save: ok is returned, and the commit left to the next writer.
CommitLater(j) ==
  /\ Go(j, IF j \in Good THEN "written" ELSE "inserted", "ok")
  /\ lock' = None
  /\ UNCHANGED <<table, durable, expected, seq, tries, pointed, found, faults, known>>

Commit(j) ==
  /\ Go(j, IF j \in Good THEN "written" ELSE "inserted", "ok")
  /\ durable' = Len(table)
  /\ lock' = None
  /\ UNCHANGED <<table, expected, seq, tries, pointed, found, faults, known>>

\* Two wrong answers to an error: it is taken for a conflict, and the lock is
\* not given back.
BreakLikeConflict(j) ==
  /\ at[j] \in Inside
  /\ at' = [at EXCEPT ![j] = IF Role[j] = "retry" THEN "again" ELSE "failed"]
  /\ lock' = None
  /\ Fault
  /\ UNCHANGED <<table, durable, expected, seq, tries, pointed, found, known>>

BreakHoldingOn(j) ==
  /\ at[j] \in Inside
  /\ at' = [at EXCEPT ![j] = "failed"]
  /\ Fault
  /\ UNCHANGED <<table, durable, lock, expected, seq, tries, pointed, found, known>>

\* An error at one of the awaits under the lock: logged, and the rows inserted
\* so far are left behind.
Break(j) ==
  /\ at[j] \in Inside
  /\ at' = [at EXCEPT ![j] = "failed"]
  /\ lock' = None
  /\ Fault
  /\ UNCHANGED <<table, durable, expected, seq, tries, pointed, found, known>>

-----------------------------------------------------------------------------
(* save_phase_checkpoint_with_retry                                        *)

\* The newest record is read first; a read that fails counts as none.
ReadSeq(j) ==
  /\ Role[j] = "retry" /\ lock = None
  /\ at[j] \in {"start", "again"}
  /\ at' = [at EXCEPT ![j] = "ask"]
  /\ \/ /\ expected' = [expected EXCEPT ![j] = LatestSeq(Phase[j])]
        /\ UNCHANGED faults
     \/ expected' = [expected EXCEPT ![j] = 0] /\ Fault
  /\ UNCHANGED <<table, durable, lock, seq, tries, pointed, found, known>>

-----------------------------------------------------------------------------
(* rollback_to_last_good_checkpoint: two reads, each under the lock, with  *)
(* others in between.                                                      *)

ReadPointer(j) ==
  /\ Role[j] = "rollback" /\ lock = None
  /\ known' = [known EXCEPT ![j] = {k \in Good : at[k] = "ok"}]
  /\ \/ /\ Pointers # {}
        /\ Go(j, "start", "pointed")
        /\ pointed' = [pointed EXCEPT ![j] = table[Newest(Pointers)]]
        /\ UNCHANGED faults
     \/ /\ Pointers = {}
        /\ Go(j, "start", "none")
        /\ UNCHANGED <<pointed, faults>>
     \/ Go(j, "start", "none") /\ Fault /\ UNCHANGED pointed
  /\ UNCHANGED <<table, durable, lock, expected, seq, tries, found>>

\* The newest record of the phase the pointer names, whatever its seq.
ReadRecord(j) ==
  LET p == pointed[j].phase
  IN  /\ at[j] = "pointed" /\ lock = None
      /\ \/ /\ Records(p) # {}
            /\ Go(j, "pointed", "back")
            /\ found' = [found EXCEPT ![j] = table[NewestRecord(p)]]
            /\ UNCHANGED faults
         \/ /\ Records(p) = {}
            /\ Go(j, "pointed", "none")
            /\ UNCHANGED <<found, faults>>
         \/ Go(j, "pointed", "none") /\ Fault /\ UNCHANGED found
      /\ UNCHANGED <<table, durable, lock, expected, seq, tries, pointed, known>>

-----------------------------------------------------------------------------
(* What others do with the connection.                                     *)

\* Any other writer commits: save_workflow_state, store_experience,
\* record_checkpoint_failure, prune_domain.
Flush ==
  /\ lock = None
  /\ durable # Len(table)
  /\ durable' = Len(table)
  /\ UNCHANGED <<table, lock, at, expected, seq, tries, pointed, found, faults, known>>

\* What is not committed is lost: clear_and_rewrite_domain fails and rolls
\* back, or the connection was stale and is opened anew.
Forget ==
  /\ lock = None
  /\ durable # Len(table)
  /\ Fault
  /\ table' = SubSeq(table, 1, durable)
  /\ UNCHANGED <<durable, lock, at, expected, seq, tries, pointed, found, known>>

\* The process dies; the jobs not begun are those of the next one.
Crash ==
  /\ Fault
  /\ table' = SubSeq(table, 1, durable)
  /\ lock' = None
  /\ at' = [j \in Jobs |-> IF at[j] \in Ended \cup {"start"} THEN at[j] ELSE "lost"]
  /\ UNCHANGED <<durable, expected, seq, tries, pointed, found, known>>

Save(j) == Enter(j) \/ Conflict(j) \/ InsertRecord(j) \/ InsertPointer(j) \/ Commit(j)

Step(j) == Begin(j) \/ Save(j) \/ ReadSeq(j) \/ ReadPointer(j) \/ ReadRecord(j)

Next ==
  \/ \E j \in Jobs : Step(j) \/ Break(j)
  \/ Flush \/ Forget \/ Crash

\* The event loop runs every coroutine on, and the lock is fair.
Fairness == \A j \in Jobs : WF_vars(Step(j))

Spec == Init /\ [][Next]_vars /\ Fairness

-----------------------------------------------------------------------------
\* Every variable keeps its type.
TypeOK ==
  /\ table \in Seq(Rows)
  /\ durable \in 0..Len(table)
  /\ lock \in Jobs \cup {None}
  /\ at \in [Jobs -> {"start", "ask", "again", "pointed"} \cup Inside \cup Ended]
  /\ expected \in [Jobs -> Nat \cup {None}]
  /\ seq \in [Jobs -> Nat]
  /\ tries \in [Jobs -> Nat]
  /\ pointed \in [Jobs -> Rows \cup {None}]
  /\ found \in [Jobs -> Rows \cup {None}]
  /\ faults \in 0..MaxFaults
  /\ known \in [Jobs -> SUBSET Jobs]

\* The records of a phase carry the numbers 1, 2, 3, ... in the order of
\* their rows, whoever wrote them and whatever was lost in between: a seq
\* names one record, and the newest row has the highest.
SeqsAreDense ==
  \A i \in DOMAIN table :
    table[i].kind = "record" =>
      /\ \A k \in Records(table[i].phase) : k < i => table[k].seq < table[i].seq
      /\ \/ table[i].seq = 1
         \/ \E k \in Records(table[i].phase) : k < i /\ table[k].seq = table[i].seq - 1

\* The last_good pointer never names a record that is not there: not after an
\* error between the two inserts, and not after a crash, which keeps a part
\* of the rows.
PointerNamesRecord ==
  \A i \in Pointers :
    \E k \in Records(table[i].phase) :
      k < i /\ table[k].seq = table[i].seq /\ (i <= durable => k <= durable)

\* A save that returned ok is on file for good, its pointer with it.
AcknowledgedIsDurable ==
  \A j \in Jobs :
    at[j] = "ok" =>
      \E i \in 1..durable :
        /\ table[i] = Row("record", j, seq[j])
        /\ j \in Good => \E k \in 1..durable : table[k] = Row("pointer", j, seq[j])

\* A job writes its checkpoint once, however often it tries, and one that
\* ends in a conflict has not written it.
WrittenOnce ==
  \A i \in DOMAIN table :
    table[i].kind = "record" =>
      /\ at[table[i].by] # "conflict"
      /\ \A k \in DOMAIN table :
           table[k].kind = "record" /\ table[k].by = table[i].by => k = i

\* What a rollback aligns the context to is not older than any good
\* checkpoint of that phase that was acknowledged before the rollback began,
\* though the pointer and the record are read one after the other.
RollbackNotBehind ==
  \A j \in Jobs :
    found[j] # None =>
      /\ found[j].phase = pointed[j].phase
      /\ \A k \in known[j] : Phase[k] = found[j].phase => seq[k] <= found[j].seq

\* Every save and every rollback comes to an end: no error leaves the lock
\* taken, and the retries stop.
EveryJobEnds ==
  <>[](\A j \in Jobs : at[j] \in {"start"} \cup Ended)

-----------------------------------------------------------------------------
\* The committed rows with j's name.
OnFile(kind, j) == {i \in 1..durable : table[i].kind = kind /\ table[i].by = j}

NumberOf(j) ==
  IF OnFile("record", j) = {} THEN 0 ELSE table[Newest(OnFile("record", j))].seq

Heard(j) ==
  CASE at[j] = "ok" -> "saved" [] at[j] = "conflict" -> "refused" [] OTHER -> "nothing"

L == INSTANCE Ledger WITH
  number <- [j \in Jobs |-> NumberOf(j)],
  marked <- {j \in Jobs : OnFile("pointer", j) # {}},
  told <- [j \in Jobs |-> Heard(j)],
  aligned <- [j \in Jobs |-> IF found[j] = None THEN None ELSE found[j].by]

\* The store is a ledger: whatever fails, is lost with a connection or with
\* the process, or is flushed by another writer, a number once given stays,
\* a refused save never gets one, and a rollback goes to the newest save.
ImplementsLedger == L!Spec
=============================================================================
