------------------------ MODULE ExecutionRunnerProofs ------------------------
(***************************************************************************)
(* Proofs that the runner is idempotent for every set of actions and       *)
(* arguments and every sequence of calls: type correctness, exactness of   *)
(* the executed keys, at most one successful call for each key, and no     *)
(* success reported that a tool did not have.                              *)
(***************************************************************************)
EXTENDS ExecutionRunner, TLAPS

(* An action the runner may be asked to perform, compensations included.   *)
Performable(a) ==
  a.type \in ActionType /\ a.params \in Params /\ a.key \in Key \cup {NoKey}

LEMMA ActionPerformable ==
  ASSUME NEW a \in Action
  PROVE  Performable(a)
BY DEF Action, Performable

(* A compensation is an action the runner can perform. *)
LEMMA CompensationPerformable ==
  ASSUME NEW a \in Action
  PROVE  Performable(Compensation(a))
<1>1. a \in [id : ActionId, type : ActionType, params : Params, key : Key \cup {NoKey}]
  BY DEF Action
<1>2. Revert[a.params] \in Params /\ TargetOnly[a.params] \in Params
  BY <1>1, ParamsAssumption
<1> QED BY <1>1, <1>2 DEF Compensation, Performable, ActionType

(* What one execute_action leaves in the runner has the right types. *)
LEMMA PerformType ==
  ASSUME TypeOK, NEW a, Performable(a), NEW role \in Role, NEW status,
         Perform(a, role, status)
  PROVE  executedKeys' \subseteq Key /\ dispatched' \in Seq(Dispatch)
<1>1. CASE UNCHANGED <<executedKeys, dispatched>>
  BY <1>1 DEF TypeOK
<1>2. ASSUME NEW end \in InvokeStatus(role),
             dispatched' =
               IF end = "PERMISSION_DENIED" THEN dispatched
               ELSE Append(dispatched,
                           [call |-> CallOf(a), key |-> a.key, status |-> end]),
             executedKeys' =
               IF end = "SUCCESS" /\ a.key # NoKey
               THEN executedKeys \cup {a.key} ELSE executedKeys
      PROVE  executedKeys' \subseteq Key /\ dispatched' \in Seq(Dispatch)
  <2>1. CASE end = "PERMISSION_DENIED"
    BY <1>2, <2>1 DEF TypeOK
  <2>2. CASE end # "PERMISSION_DENIED"
    <3>1. end \in {"SUCCESS", "FAILED"}
      BY <1>2, <2>2 DEF InvokeStatus
    <3>2. [call |-> CallOf(a), key |-> a.key, status |-> end] \in Dispatch
      BY <3>1 DEF Dispatch, Performable, CallOf, Call
    <3> QED BY <1>2, <2>2, <3>2 DEF TypeOK, Performable
  <2> QED BY <2>1, <2>2
<1> QED BY <1>1, <1>2 DEF Perform, Remember

(* After one execute_action the keys are still those of the successes, and *)
(* no key has succeeded twice.                                             *)
LEMMA PerformExact ==
  ASSUME TypeOK, KeysAreSuccesses, AtMostOnce, NEW a, Performable(a),
         NEW role \in Role, NEW status, Perform(a, role, status)
  PROVE  KeysAreSuccesses' /\ AtMostOnce'
<1>1. CASE UNCHANGED <<executedKeys, dispatched>>
  BY <1>1 DEF KeysAreSuccesses, AtMostOnce
<1>2. ASSUME ~AlreadyExecuted(a), NEW end \in InvokeStatus(role),
             end # "PERMISSION_DENIED",
             dispatched' = Append(dispatched,
                             [call |-> CallOf(a), key |-> a.key, status |-> end]),
             executedKeys' =
               IF end = "SUCCESS" /\ a.key # NoKey
               THEN executedKeys \cup {a.key} ELSE executedKeys
      PROVE  KeysAreSuccesses' /\ AtMostOnce'
  <2> DEFINE n == Len(dispatched) + 1
  <2>1. /\ Len(dispatched) \in Nat
        /\ DOMAIN dispatched = 1 .. Len(dispatched)
        /\ DOMAIN dispatched' = 1 .. n
        /\ \A i \in DOMAIN dispatched : dispatched'[i] = dispatched[i]
        /\ dispatched'[n].key = a.key /\ dispatched'[n].status = end
    BY <1>2 DEF TypeOK
  <2>2. KeysAreSuccesses'
    BY <1>2, <2>1 DEF KeysAreSuccesses
  <2>3. end = "SUCCESS" /\ a.key # NoKey =>
          \A i \in DOMAIN dispatched :
            dispatched[i].status = "SUCCESS" => dispatched[i].key # a.key
    BY <1>2 DEF AlreadyExecuted, KeysAreSuccesses
  <2>4. AtMostOnce'
    BY <2>1, <2>3 DEF AtMostOnce
  <2> QED BY <2>2, <2>4
<1>3. ASSUME ~AlreadyExecuted(a), dispatched' = dispatched, executedKeys' = executedKeys
      PROVE  KeysAreSuccesses' /\ AtMostOnce'
  BY <1>3 DEF KeysAreSuccesses, AtMostOnce
<1> QED BY <1>1, <1>2, <1>3 DEF Perform, Remember, InvokeStatus

(* An execute_action either leaves the tools alone, and reports a success  *)
(* only of a key it remembers, or makes the call of its action and reports *)
(* how the call ended.                                                     *)
LEMMA PerformOutcome ==
  ASSUME NEW a, NEW role, NEW status, Perform(a, role, status)
  PROVE  \/ /\ UNCHANGED <<executedKeys, dispatched>>
            /\ status = "SUCCESS" => a.key # NoKey /\ a.key \in executedKeys
         \/ /\ status \in {"SUCCESS", "FAILED"}
            /\ dispatched' = Append(dispatched,
                               [call |-> CallOf(a), key |-> a.key, status |-> status])
BY DEF Perform, AlreadyExecuted, InvokeStatus, Remember

(* What was dispatched stays dispatched, and a success is backed by a call *)
(* that succeeded with the action's key, now or before.                    *)
LEMMA PerformBacked ==
  ASSUME TypeOK, KeysAreSuccesses, NEW a, Performable(a),
         NEW role \in Role, NEW status, Perform(a, role, status)
  PROVE  /\ \A j \in DOMAIN dispatched :
              j \in DOMAIN dispatched' /\ dispatched'[j] = dispatched[j]
         /\ status = "SUCCESS" =>
              \E j \in DOMAIN dispatched' :
                dispatched'[j].status = "SUCCESS" /\ dispatched'[j].key = a.key
<1>1. CASE /\ UNCHANGED <<executedKeys, dispatched>>
           /\ status = "SUCCESS" => a.key \in executedKeys
  <2>1. status = "SUCCESS" =>
          \E j \in DOMAIN dispatched :
            dispatched[j].status = "SUCCESS" /\ dispatched[j].key = a.key
    BY <1>1 DEF KeysAreSuccesses
  <2> QED BY <1>1, <2>1
<1>2. CASE dispatched' = Append(dispatched,
                           [call |-> CallOf(a), key |-> a.key, status |-> status])
  <2>1. /\ Len(dispatched) \in Nat /\ DOMAIN dispatched = 1 .. Len(dispatched)
        /\ DOMAIN dispatched' = 1 .. Len(dispatched) + 1
        /\ \A j \in DOMAIN dispatched : dispatched'[j] = dispatched[j]
        /\ dispatched'[Len(dispatched) + 1].key = a.key
        /\ dispatched'[Len(dispatched) + 1].status = status
    BY <1>2 DEF TypeOK
  <2>2. Len(dispatched) + 1 \in DOMAIN dispatched'
    BY <2>1
  <2> QED BY <2>1, <2>2
<1> QED BY <1>1, <1>2, PerformOutcome

(* A result that is no success, or that a call backs, can be returned.     *)
LEMMA BackedStep ==
  ASSUME TypeOK, SuccessIsBacked, NEW a, NEW status, Return(a, status),
         \A j \in DOMAIN dispatched :
           j \in DOMAIN dispatched' /\ dispatched'[j] = dispatched[j],
         status = "SUCCESS" =>
           \E j \in DOMAIN dispatched' :
             dispatched'[j].status = "SUCCESS" /\ dispatched'[j].key = a.key
  PROVE  SuccessIsBacked'
<1>1. /\ Len(returned) \in Nat /\ DOMAIN returned = 1 .. Len(returned)
      /\ DOMAIN returned' = 1 .. Len(returned) + 1
      /\ \A i \in DOMAIN returned : returned'[i] = returned[i]
      /\ returned'[Len(returned) + 1] = [action |-> a, status |-> status]
  BY DEF TypeOK, Return
<1>2. ASSUME NEW i \in DOMAIN returned', returned'[i].status = "SUCCESS"
      PROVE  \E j \in DOMAIN dispatched' :
               /\ dispatched'[j].status = "SUCCESS"
               /\ dispatched'[j].key = returned'[i].action.key
  <2>1. CASE i \in DOMAIN returned
    BY <1>1, <1>2, <2>1 DEF SuccessIsBacked
  <2>2. CASE i = Len(returned) + 1
    BY <1>1, <1>2, <2>2
  <2> QED BY <1>1, <2>1, <2>2
<1> QED BY <1>2 DEF SuccessIsBacked

-----------------------------------------------------------------------------
(* The inductive invariant: the exactness of the keys is what makes the    *)
(* guard of execute_action enough for AtMostOnce, and a skipped action's   *)
(* success one that some call had.                                         *)
IInv == TypeOK /\ KeysAreSuccesses /\ AtMostOnce /\ SuccessIsBacked

LEMMA InitIInv == Init => IInv
BY DEF Init, IInv, TypeOK, KeysAreSuccesses, AtMostOnce, SuccessIsBacked

LEMMA NextIInv == IInv /\ [Next]_vars => IInv'
<1> SUFFICES ASSUME IInv, [Next]_vars PROVE IInv'
  OBVIOUS
<1>1. CASE UNCHANGED vars
  BY <1>1 DEF IInv, vars, TypeOK, KeysAreSuccesses, AtMostOnce, SuccessIsBacked
<1>2. ASSUME NEW a \in Action, NEW role \in Role, ExecuteAction(a, role)
      PROVE  IInv'
  <2>1. PICK status \in {"SUCCESS", "FAILED"} :
          Perform(a, role, status) /\ Return(a, status)
    BY <1>2 DEF ExecuteAction
  <2>2. executedKeys' \subseteq Key /\ dispatched' \in Seq(Dispatch)
    BY <2>1, ActionPerformable, PerformType DEF IInv
  <2>3. KeysAreSuccesses' /\ AtMostOnce'
    BY <2>1, ActionPerformable, PerformExact DEF IInv
  <2>4. returned' \in Seq([action : Action, status : ResultStatus])
    BY <2>1 DEF Return, IInv, TypeOK, ResultStatus
  <2>5. SuccessIsBacked'
    BY <2>1, ActionPerformable, PerformBacked, BackedStep DEF IInv
  <2> QED BY <2>2, <2>3, <2>4, <2>5 DEF IInv, TypeOK
<1>3. ASSUME NEW a \in Action, NEW role \in Role, ExecuteRollback(a, role)
      PROVE  IInv'
  <2>1. PICK status \in {"SUCCESS", "FAILED"} : Perform(Compensation(a), role, status)
    BY <1>3 DEF ExecuteRollback
  <2>2. executedKeys' \subseteq Key /\ dispatched' \in Seq(Dispatch)
    BY <2>1, CompensationPerformable, PerformType DEF IInv
  <2>3. KeysAreSuccesses' /\ AtMostOnce'
    BY <2>1, CompensationPerformable, PerformExact DEF IInv
  <2>4. returned' \in Seq([action : Action, status : ResultStatus])
    BY <1>3 DEF ExecuteRollback, Return, IInv, TypeOK, ResultStatus
  <2>5. SuccessIsBacked'
    <3>1. Return(a, "ROLLED_BACK")
      BY <1>3 DEF ExecuteRollback
    <3> QED BY <2>1, <3>1, CompensationPerformable, PerformBacked, BackedStep DEF IInv
  <2> QED BY <2>2, <2>3, <2>4, <2>5 DEF IInv, TypeOK
<1> QED BY <1>1, <1>2, <1>3 DEF Next

(* The runner's state keeps its type. *)
THEOREM TypeCorrect == Spec => []TypeOK
<1>1. IInv => TypeOK
  BY DEF IInv
<1> QED BY <1>1, InitIInv, NextIInv, PTL DEF Spec

(* The runner forgets no successful call and remembers no other. *)
THEOREM ExactKeys == Spec => []KeysAreSuccesses
<1>1. IInv => KeysAreSuccesses
  BY DEF IInv
<1> QED BY <1>1, InitIInv, NextIInv, PTL DEF Spec

(* Whatever sequence of executions and rollbacks the runner is asked for,  *)
(* no idempotency key has two successful calls.                            *)
THEOREM Idempotent == Spec => []AtMostOnce
<1>1. IInv => AtMostOnce
  BY DEF IInv
<1> QED BY <1>1, InitIInv, NextIInv, PTL DEF Spec

(* Every success reported for an action, also when it was skipped as done  *)
(* before, is the success of a tool call under the action's key.           *)
THEOREM BackedSuccess == Spec => []SuccessIsBacked
<1>1. IInv => SuccessIsBacked
  BY DEF IInv
<1> QED BY <1>1, InitIInv, NextIInv, PTL DEF Spec
=============================================================================
