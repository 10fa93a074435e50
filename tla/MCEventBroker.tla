---------------------------- MODULE MCEventBroker ----------------------------
(* A small instance of EventBroker for TLC. *)
EXTENDS EventBroker

CONSTANTS
  i1, i2, s1, s2, s3

(* Two clients follow the same incident, the third another one. *)
MCTopic == [s \in Subscriber |-> IF s = s3 THEN i2 ELSE i1]

(* The events published for each incident. *)
MaxEvents == [i \in {i1, i2} |-> IF i = i1 THEN 4 ELSE 1]

MCNext ==
  \/ \E i \in Incident, kind \in Kind :
       Len(published[i]) < MaxEvents[i] /\ Publish(i, kind)
  \/ \E s \in Subscriber : Stream(s)

MCSpec == Init /\ [][MCNext]_vars /\ Fairness
=============================================================================
