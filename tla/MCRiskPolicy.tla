----------------------------- MODULE MCRiskPolicy -----------------------------
(* A small instance of RiskPolicy for TLC. *)
EXTENDS RiskPolicy

CONSTANTS gateway, order, payment, foreign

(* Topologies over three services, and a foreign one that may be depended  *)
(* on but is not known: the reach of an action runs from one to four.      *)
MCTopology ==
  {t \in [{gateway, order, payment} -> SUBSET {order, payment, foreign}] :
     /\ t[gateway] \subseteq {order, payment}
     /\ t[order] \subseteq {payment}
     /\ t[payment] \subseteq {foreign}}

(* The model claims the lowest tier for whatever it proposes. *)
MCProposed ==
  [type : {"scale_replicas", "modify_configuration", "rollback_deployment"},
   target : Service, destructive : BOOLEAN, tier : {"LOW"}, assessed : {FALSE}]
=============================================================================
