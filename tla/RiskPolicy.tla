------------------------------ MODULE RiskPolicy ------------------------------
(***************************************************************************)
(* The way of planned actions through the risk policy: the language model  *)
(* proposes each one with a tier of its own choice, the policy assesses    *)
(* it, and somebody's approval is authorized or denied.                    *)
(***************************************************************************)
EXTENDS RiskAssessment

CONSTANTS
  Service,   (* names of services, known to the topology or not *)
  Topology,  (* the topologies the policy may be given          *)
  ActionId,
  Proposed,  (* the actions the model may propose               *)
  Claimed    (* the roles an approver may claim to have         *)

ASSUME TopologyAssumption ==
  /\ IsFiniteSet(Service)
  /\ \A t \in Topology : /\ DOMAIN t \subseteq Service
                         /\ \A s \in DOMAIN t : t[s] \subseteq Service

Planned ==
  [type : ActionType, target : Service, destructive : BOOLEAN,
   tier : RiskTier, assessed : BOOLEAN]

ASSUME InputAssumption ==
  /\ Proposed \subseteq {p \in Planned : ~p.assessed}
  /\ ApproverRole \subseteq Claimed

VARIABLES
  topology,   (* the policy's topology                                    *)
  actions,    (* the plan's actions                                       *)
  granted     (* the approvals authorized: of which action, to which role *)

vars == <<topology, actions, granted>>

-----------------------------------------------------------------------------
(* A faulty assessment, which lets a model's lower tier stand. *)
TrustLowClaim(id) ==
  LET a == actions[id]
      reach == Cardinality(BlastRadius(topology, a.target))
      tier == TierOf(Score(a.type, a.destructive, reach))
  IN  /\ ~a.assessed
      /\ actions' = [actions EXCEPT
           ![id].tier = IF a.tier = "LOW" THEN "LOW" ELSE tier,
           ![id].assessed = TRUE]
      /\ UNCHANGED <<topology, granted>>

AssessActionRisk(id) ==
  LET a == actions[id]
      reach == Cardinality(BlastRadius(topology, a.target))
  IN  /\ ~a.assessed
      /\ actions' = [actions EXCEPT
           ![id].tier = TierOf(Score(a.type, a.destructive, reach)),
           ![id].assessed = TRUE]
      /\ UNCHANGED <<topology, granted>>

(* Only assessed plans reach those who approve. *)
AuthorizeApproval(id, role) ==
  /\ \A other \in ActionId : actions[other].assessed
  /\ Authorized(actions[id].tier, role)
  /\ granted' = granted \cup {<<id, role>>}
  /\ UNCHANGED <<topology, actions>>

Init ==
  /\ topology \in Topology
  /\ actions \in [ActionId -> Proposed]
  /\ granted = {}

Next ==
  \E id \in ActionId :
    \/ AssessActionRisk(id)
    \/ \E role \in Claimed : AuthorizeApproval(id, role)

Spec == Init /\ [][Next]_vars

-----------------------------------------------------------------------------
TierRank == [LOW |-> 1, MEDIUM |-> 2, HIGH |-> 3, CRITICAL |-> 4]

Reach(a) == Cardinality(BlastRadius(topology, a.target))

(* Type invariant: no role but the three known ones is ever granted an     *)
(* approval.                                                               *)
TypeOK ==
  /\ topology \in Topology
  /\ actions \in [ActionId -> Planned]
  /\ granted \subseteq ActionId \X ApproverRole

(* A destructive payload is approved by an administrator or by nobody,     *)
(* whatever action it hides in, and whatever tier the model gave it.       *)
DestructiveNeedsAdmin ==
  \A id \in ActionId, role \in Claimed :
    <<id, role>> \in granted /\ actions[id].destructive => role = "ADMIN"

(* Of two actions of one type the one that reaches more services is never  *)
(* in the lower tier, nor is a destructive one.                            *)
WiderIsNotCheaper ==
  \A i, j \in ActionId :
    LET a == actions[i]
        b == actions[j]
    IN  /\ a.assessed /\ b.assessed
        /\ a.type = b.type
        /\ Reach(a) <= Reach(b)
        /\ a.destructive => b.destructive
        => TierRank[a.tier] <= TierRank[b.tier]
=============================================================================
