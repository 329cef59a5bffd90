------------------------------- MODULE Pipeline -------------------------------
(***************************************************************************)
(* What a chain of agents promises: a job gets one plan, its stages are    *)
(* done in the plan's order, and the job succeeds only when all are done.  *)
(* MultiAgent is the orchestrator that does this over a message topic.     *)
(***************************************************************************)
EXTENDS Integers, Sequences

CONSTANTS Jobs, Plans

VARIABLES
  plan,     \* the stages of a job, in order; <<>> before it has a plan
  done,     \* the stages done
  outcome   \* "open", "success", "failed" or "stuck"

Stages(p) == {p[i] : i \in DOMAIN p}

Init ==
  /\ plan = [j \in Jobs |-> <<>>]
  /\ done = [j \in Jobs |-> {}]
  /\ outcome = [j \in Jobs |-> "open"]

Choose(j, p) ==
  /\ outcome[j] = "open" /\ plan[j] = <<>> /\ done[j] = {}
  /\ plan' = [plan EXCEPT ![j] = p]
  /\ UNCHANGED <<done, outcome>>

\* The i-th stage is done, and with the last one the job.
Do(j, i) ==
  /\ outcome[j] = "open"
  /\ \A k \in 1..(i - 1) : plan[j][k] \in done[j]
  /\ done' = [done EXCEPT ![j] = @ \cup {plan[j][i]}]
  /\ outcome' = [outcome EXCEPT ![j] = IF i = Len(plan[j]) THEN "success" ELSE "open"]
  /\ UNCHANGED plan

GiveUp(j, o) ==
  /\ outcome[j] = "open"
  /\ outcome' = [outcome EXCEPT ![j] = o]
  /\ UNCHANGED <<plan, done>>

Next == \E j \in Jobs :
  \/ \E p \in Plans : Choose(j, p)
  \/ \E i \in DOMAIN plan[j] : Do(j, i)
  \/ \E o \in {"failed", "stuck"} : GiveUp(j, o)

Spec == Init /\ [][Next]_<<plan, done, outcome>>
=============================================================================
