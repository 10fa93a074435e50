---------------------------- MODULE RiskAssessment ----------------------------
(***************************************************************************)
(* The rules of the risk policy (src/safety/policy.py) over the service    *)
(* topology (simulator/services/topology.py): how far an action reaches,   *)
(* its score and tier, and who may approve it.                             *)
(*                                                                         *)
(* A topology is a function from the services it knows to the sets of      *)
(* names they depend on.  Scores are in hundredths: for every base risk    *)
(* and every number of services the code's sums of floats lie on the same  *)
(* side of each threshold.                                                 *)
(***************************************************************************)
EXTENDS Integers, FiniteSets

ActionType == {"restart_service", "rollback_deployment", "scale_replicas",
               "modify_configuration", "run_query", "clear_cache"}
RiskTier == {"LOW", "MEDIUM", "HIGH", "CRITICAL"}
ApproverRole == {"VIEWER", "OPERATOR", "ADMIN"}

Smaller(a, b) == IF a < b THEN a ELSE b

-----------------------------------------------------------------------------
UpstreamDependents(topology, service) ==
  {name \in DOMAIN topology : service \in topology[name]}

DownstreamDependencies(topology, service) ==
  IF service \in DOMAIN topology THEN topology[service] ELSE {}

(* A faulty radius, which leaves out the services that call this one. *)
DownstreamRadius(topology, service) ==
  {service} \cup DownstreamDependencies(topology, service)

BlastRadius(topology, service) ==
  {service} \cup UpstreamDependents(topology, service)
            \cup DownstreamDependencies(topology, service)

-----------------------------------------------------------------------------
BASE_ACTION_RISK ==
  [clear_cache |-> 20, scale_replicas |-> 30, modify_configuration |-> 45,
   restart_service |-> 65, rollback_deployment |-> 70, run_query |-> 85]

(* A faulty penalty, which wraps around where it should stop growing.      *)
WrappedPenalty(reach) == (5 * reach) % 20

BaseRisk(type, destructive) ==
  IF destructive THEN 100 ELSE BASE_ACTION_RISK[type]

BlastPenalty(reach) == Smaller(20, 5 * reach)

Score(type, destructive, reach) ==
  Smaller(100, BaseRisk(type, destructive) + BlastPenalty(reach))

TierOf(score) ==
  CASE score < 35 -> "LOW"
    [] score >= 35 /\ score < 60 -> "MEDIUM"
    [] score >= 60 /\ score < 85 -> "HIGH"
    [] OTHER -> "CRITICAL"

(* The setting auto_remediate_low_risk is declared nowhere: getattr falls  *)
(* back to False.                                                          *)
AutoRemediateEnabled == FALSE

RequiresApproval(tier, destructive) ==
  ~(tier = "LOW" /\ AutoRemediateEnabled /\ ~destructive)

(* A faulty authorization, which keeps out viewers instead of letting in   *)
(* known roles.                                                            *)
AnyoneButViewers(tier, role) ==
  role # "VIEWER" /\ (tier = "CRITICAL" => role = "ADMIN")

Authorized(tier, role) ==
  /\ role \in ApproverRole
  /\ role # "VIEWER"
  /\ tier = "CRITICAL" => role = "ADMIN"
  /\ tier = "HIGH" => role \in {"ADMIN", "OPERATOR"}
=============================================================================
