------------------------------ MODULE MCEventBus ------------------------------
(***************************************************************************)
(* Small instances of EventBus: two granted events and a denied one, a     *)
(* system event, two topics.                                               *)
(***************************************************************************)
EXTENDS EventBus

CONSTANTS g1, g2, d1, s1, a, b

MCTopicOf == [e \in Events |-> IF e = g2 THEN b ELSE a]
MCClassOf == [e \in Events |-> CASE e = d1 -> "denied" [] e = s1 -> "system"
                                 [] OTHER -> "granted"]
=============================================================================
