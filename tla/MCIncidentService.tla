-------------------------- MODULE MCIncidentService --------------------------
(* A small instance of IncidentService, and of the workflow in it, for TLC. *)
EXTENDS IncidentService

CONSTANTS e1, e2, h1, h2, act1, act2, forward, backward, bare

MCRevert == [p \in {forward, backward, bare} |->
               IF p = forward THEN backward ELSE forward]
MCTargetOnly == [p \in {forward, backward, bare} |-> bare]

(* Reports of nothing, and of one observation or the other. *)
MCFindings == {{}, {e1}, {e2}}

(* No hypothesis, or two of which either may be the primary one: one needs *)
(* the findings of one analyst, the other those of two.                    *)
MCDiagnoses ==
  {<<>>, <<[id |-> h1, cites |-> {e1}], [id |-> h2, cites |-> {e1, e2}]>>}

Planned(id, type, params) ==
  [id |-> id, type |-> type, params |-> params,
   key |-> Runner!IdempotencyKey(type, params)]

(* No action; one without a tool and one undone by a restart; the same     *)
(* call twice, undone by reverting; two calls that differ in their         *)
(* arguments only.                                                         *)
MCActionLists ==
  {<<>>,
   <<Planned(act1, "run_query", bare), Planned(act2, "scale_replicas", forward)>>,
   <<Planned(act1, "rollback_deployment", forward),
     Planned(act2, "rollback_deployment", forward)>>,
   <<Planned(act1, "modify_configuration", forward),
     Planned(act2, "modify_configuration", backward)>>}

MCTier == [a \in PlannedAction |->
             CASE a.type = "rollback_deployment" -> "CRITICAL"
               [] a.type = "modify_configuration" -> "HIGH"
               [] OTHER -> "MEDIUM"]

MCSubmissions ==
  {[decision |-> "APPROVED", role |-> "OPERATOR"],
   [decision |-> "REJECTED", role |-> "ADMIN"],
   [decision |-> "MODIFIED", role |-> "VIEWER"]}
=============================================================================
