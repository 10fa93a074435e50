-------------------------- MODULE MCExecutionRunner --------------------------
(* Bounded instances of ExecutionRunner for TLC. *)
EXTENDS ExecutionRunner

CONSTANTS
  MaxCalls,  (* calls made to the runner                      *)
  Types,     (* the action types the callers use              *)
  Callers,   (* the roles of the callers                      *)
  forward, backward, bare

(* The previous version, or configuration, of forward is backward. *)
MCRevert == [p \in Params |-> IF p = forward THEN backward ELSE forward]
MCTargetOnly == [p \in Params |-> bare]

MCNext ==
  /\ Len(returned) < MaxCalls
  /\ \E a \in Action, role \in Callers :
       /\ a.type \in Types
       /\ ExecuteAction(a, role) \/ ExecuteRollback(a, role)

MCSpec == Init /\ [][MCNext]_vars
=============================================================================
