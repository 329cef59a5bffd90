--------------------------------- MODULE Ledger ---------------------------------
(***************************************************************************)
(* What the checkpoint store promises of a workflow's saves.  It is a      *)
(* ledger: a save gets the next number of its phase and keeps it, one that *)
(* was refused gets none, and who is told that it is saved has its number  *)
(* and, for a good one, its mark.  A save nobody was told of may get its   *)
(* number at any time, or never.  A rollback goes to the newest save of a  *)
(* phase that has a good one.  Errors, lost connections and the end of the *)
(* process do nothing to the ledger.  Tables, pointers, locks and tries    *)
(* are Checkpoints'.                                                       *)
(***************************************************************************)
EXTENDS Naturals

CONSTANTS Jobs, Phase, Good, None

VARIABLES
  number,  \* of each save in its phase, 0 while it has none
  marked,  \* the saves that are marked as good
  told,    \* what each job was told: nothing, saved, refused
  aligned  \* the save a rollback went to, or None

vars == <<number, marked, told, aligned>>

Init ==
  /\ number = [j \in Jobs |-> 0]
  /\ marked = {}
  /\ told = [j \in Jobs |-> "nothing"]
  /\ aligned = [j \in Jobs |-> None]

SamePhase(j, k) == Phase[j] = Phase[k]

\* The saves of a phase have the numbers 1, 2, 3, ..., each one save.
Numbered(f) ==
  \A j \in Jobs : f[j] # 0 =>
    /\ \A k \in Jobs : SamePhase(j, k) /\ f[k] = f[j] => k = j
    /\ f[j] = 1 \/ \E k \in Jobs : SamePhase(j, k) /\ f[k] = f[j] - 1

\* Numbers and marks are given, to those not refused, and none is taken back.
Grows ==
  /\ number' \in [Jobs -> Nat] /\ Numbered(number')
  /\ \A j \in Jobs :
       /\ number[j] # 0 => number'[j] = number[j]
       /\ told[j] = "refused" => number'[j] = 0
  /\ marked \subseteq marked'
  /\ \A j \in marked' : j \in Good /\ number'[j] # 0

Tell(j, what) == told[j] = "nothing" /\ told' = [told EXCEPT ![j] = what]

File == Grows /\ UNCHANGED <<told, aligned>>

Save(j) ==
  /\ Grows /\ number'[j] # 0 /\ (j \in Good => j \in marked')
  /\ Tell(j, "saved")
  /\ UNCHANGED aligned

Refuse(j) ==
  /\ number[j] = 0
  /\ Tell(j, "refused")
  /\ UNCHANGED <<number, marked, aligned>>

\* Job j goes back to save k, which has no number yet or the last one.
Align(j, k) ==
  /\ told[j] = "nothing" /\ aligned[j] = None
  /\ told[k] # "refused"
  /\ \E g \in Good : SamePhase(g, k) /\ told[g] # "refused"
  /\ number[k] # 0 => \A i \in Jobs : SamePhase(i, k) => number[i] <= number[k]
  /\ aligned' = [aligned EXCEPT ![j] = k]
  /\ UNCHANGED <<number, marked, told>>

Next ==
  \/ File
  \/ \E j \in Jobs : Save(j) \/ Refuse(j) \/ \E k \in Jobs : Align(j, k)

Spec == Init /\ [][Next]_vars
=============================================================================
