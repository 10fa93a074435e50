-------------------------- MODULE MCIncidentWorkflow --------------------------
(* Small instances of IncidentWorkflow for TLC. *)
EXTENDS IncidentWorkflow

CONSTANTS e1, e2, h1, h2, act1, act2, forward, backward, bare

MCRevert == [p \in {forward, backward, bare} |->
               IF p = forward THEN backward ELSE forward]
MCTargetOnly == [p \in {forward, backward, bare} |-> bare]

(* Reports of nothing, of one observation, and of both. *)
MCFindings == {{}, {e1}, {e1, e2}}

(* No hypothesis; one with or without grounds; two of which the second may *)
(* be the primary one.                                                     *)
MCDiagnoses ==
  LET H(id, cites) == [id |-> id, cites |-> cites]
  IN  {<<>>, <<H(h1, {})>>, <<H(h1, {e2})>>, <<H(h1, {e1}), H(h2, {e1, e2})>>}

Planned(id, type, params) ==
  [id |-> id, type |-> type, params |-> params,
   key |-> Runner!IdempotencyKey(type, params)]

(* No action; one that is undone by reverting; one without a tool and one  *)
(* undone by a restart; the same call twice; two calls that differ only in *)
(* their arguments.                                                        *)
MCActionLists ==
  {<<>>,
   <<Planned(act1, "rollback_deployment", forward)>>,
   <<Planned(act1, "run_query", bare), Planned(act2, "scale_replicas", forward)>>,
   <<Planned(act1, "modify_configuration", forward),
     Planned(act2, "modify_configuration", forward)>>,
   <<Planned(act1, "modify_configuration", forward),
     Planned(act2, "modify_configuration", backward)>>}
=============================================================================
