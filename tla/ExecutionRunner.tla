--------------------------- MODULE ExecutionRunner ---------------------------
(***************************************************************************)
(* The runner that carries the actions of a remediation plan to the tools  *)
(* (src/safety/execution_runner.py) through the role check of the tool     *)
(* registry (src/tools/registry.py).  One runner serves one incident, and  *)
(* its callers await each call before the next, so a call is one step.     *)
(*                                                                         *)
(* A parameter p \in Params stands for the argument dictionary a tool      *)
(* receives: the target service merged with the action's parameters.       *)
(***************************************************************************)
EXTENDS Naturals, Sequences

CONSTANTS
  ActionId,    (* identifiers the model gives to planned actions           *)
  Params,      (* argument dictionaries                                    *)
  Revert,      (* the arguments that undo given arguments                  *)
  TargetOnly,  (* the arguments reduced to their target service            *)
  NoKey        (* the empty idempotency key                                *)

ActionType == {"restart_service", "rollback_deployment", "scale_replicas",
               "modify_configuration", "run_query", "clear_cache"}

(* The tools registered for actions: no tool is named run_query. *)
RegisteredTools == ActionType \ {"run_query"}

(* What a tool is asked to do. *)
Call == [tool : ActionType, args : Params]

(* The key of a planned action is a hash of its incident, type, target and *)
(* parameters, taken to be injective: within an incident it is the call.   *)
Key == Call

(* A faulty key, for the check of the properties: it forgets the arguments. *)
KeyOfTypeOnly(type, params) == [tool |-> type, args |-> CHOOSE p \in Params : TRUE]

IdempotencyKey(type, params) == [tool |-> type, args |-> params]

(* An action as the policy leaves it, or built by hand with no key. *)
Action ==
  {a \in [id : ActionId, type : ActionType, params : Params,
          key : Key \cup {NoKey}] :
     a.key \in {IdempotencyKey(a.type, a.params), NoKey}}

ASSUME ParamsAssumption ==
  /\ Revert \in [Params -> Params]
  /\ TargetOnly \in [Params -> Params]

ASSUME NoKeyAssumption == NoKey \notin Key

VARIABLES
  executedKeys,  (* _executed_idempotency_keys                             *)
  dispatched,    (* history: the calls that reached a tool, and their end  *)
  returned       (* history: each action handed in and the status returned *)

vars == <<executedKeys, dispatched, returned>>

ResultStatus == {"SUCCESS", "FAILED", "ROLLED_BACK"}

CallOf(a) == [tool |-> a.type, args |-> a.params]

-----------------------------------------------------------------------------
(* The registry's role check: every remediation tool requires OPERATOR. *)
ROLE_HIERARCHY == [VIEWER |-> 1, OPERATOR |-> 2, ADMIN |-> 3]
Role == DOMAIN ROLE_HIERARCHY

Permitted(role) == ROLE_HIERARCHY[role] >= ROLE_HIERARCHY["OPERATOR"]

(* A permitted call runs the tool, which succeeds or fails (a tool's       *)
(* exception is turned into a failure); a denied one never reaches it.     *)
InvokeStatus(role) ==
  IF Permitted(role) THEN {"SUCCESS", "FAILED"} ELSE {"PERMISSION_DENIED"}

-----------------------------------------------------------------------------
(* A faulty guard: keys are remembered but not looked up. *)
NeverLooksUp(a) == FALSE

AlreadyExecuted(a) == a.key # NoKey /\ a.key \in executedKeys

(* Faulty memories: of the empty key, and of calls that failed. *)
RememberAnyKey(a, end) ==
  IF end = "SUCCESS" THEN executedKeys \cup {a.key} ELSE executedKeys
RememberAnyEnd(a, end) ==
  IF a.key # NoKey THEN executedKeys \cup {a.key} ELSE executedKeys

(* The keys known after the tool call for a has ended. *)
Remember(a, end) ==
  IF end = "SUCCESS" /\ a.key # NoKey
  THEN executedKeys \cup {a.key} ELSE executedKeys

(* One run of execute_action on a that comes back with the given status. *)
Perform(a, role, status) ==
  \/ /\ AlreadyExecuted(a)
     /\ status = "SUCCESS"
     /\ UNCHANGED <<executedKeys, dispatched>>
  \/ /\ ~AlreadyExecuted(a)
     /\ a.type \notin RegisteredTools
     /\ status = "FAILED"
     /\ UNCHANGED <<executedKeys, dispatched>>
  \/ /\ ~AlreadyExecuted(a)
     /\ a.type \in RegisteredTools
     /\ \E end \in InvokeStatus(role) :
          /\ dispatched' =
               IF end = "PERMISSION_DENIED" THEN dispatched
               ELSE Append(dispatched,
                           [call |-> CallOf(a), key |-> a.key, status |-> end])
          /\ executedKeys' = Remember(a, end)
          /\ status = IF end = "SUCCESS" THEN "SUCCESS" ELSE "FAILED"

(* The action execute_rollback runs: the same action, key included, with   *)
(* the reverting arguments, or a restart without a key.                    *)
Compensation(a) ==
  IF a.type \in {"rollback_deployment", "modify_configuration"}
  THEN [a EXCEPT !.params = Revert[a.params]]
  ELSE [a EXCEPT !.type = "restart_service", !.params = TargetOnly[a.params],
                 !.key = NoKey]

Return(a, status) ==
  returned' = Append(returned, [action |-> a, status |-> status])

ExecuteAction(a, role) ==
  \E status \in {"SUCCESS", "FAILED"} :
    Perform(a, role, status) /\ Return(a, status)

(* Whatever the compensation came back with, the result says ROLLED_BACK. *)
ExecuteRollback(a, role) ==
  /\ \E status \in {"SUCCESS", "FAILED"} : Perform(Compensation(a), role, status)
  /\ Return(a, "ROLLED_BACK")

Init ==
  /\ executedKeys = {}
  /\ dispatched = <<>>
  /\ returned = <<>>

Next ==
  \E a \in Action, role \in Role :
    ExecuteAction(a, role) \/ ExecuteRollback(a, role)

Spec == Init /\ [][Next]_vars

-----------------------------------------------------------------------------
Dispatch == [call : Call, key : Key \cup {NoKey}, status : {"SUCCESS", "FAILED"}]

(* Type invariant. *)
TypeOK ==
  /\ executedKeys \subseteq Key
  /\ dispatched \in Seq(Dispatch)
  /\ returned \in Seq([action : Action, status : ResultStatus])

(* The runner's memory of what was done is exact: it holds the keys of the *)
(* calls that succeeded at a tool and no other, so that a failed or denied *)
(* action stays open to a retry and a successful one never is.             *)
KeysAreSuccesses ==
  executedKeys =
    {dispatched[i].key : i \in {j \in DOMAIN dispatched :
                                 /\ dispatched[j].status = "SUCCESS"
                                 /\ dispatched[j].key # NoKey}}

(* Idempotency: no two successful calls carry the same key, whatever the   *)
(* order of executions, retries and rollbacks.                             *)
AtMostOnce ==
  \A i, j \in DOMAIN dispatched :
    /\ dispatched[i].status = "SUCCESS" /\ dispatched[j].status = "SUCCESS"
    /\ dispatched[i].key = dispatched[j].key /\ dispatched[i].key # NoKey
    => i = j

(* A success reported for a keyed action is backed by a successful call    *)
(* that carries its key, also when the action was skipped.                 *)
SuccessIsBacked ==
  \A i \in DOMAIN returned :
    returned[i].status = "SUCCESS" =>
      \E j \in DOMAIN dispatched :
        /\ dispatched[j].status = "SUCCESS"
        /\ dispatched[j].key = returned[i].action.key

(* What the README promises of compensation: an action reported as rolled  *)
(* back had its compensation carried out by a tool.                        *)
RollbackCompensates ==
  \A i \in DOMAIN returned :
    returned[i].status = "ROLLED_BACK" =>
      \E j \in DOMAIN dispatched :
        dispatched[j].call = CallOf(Compensation(returned[i].action))
=============================================================================
