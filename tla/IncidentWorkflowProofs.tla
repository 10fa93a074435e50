------------------------ MODULE IncidentWorkflowProofs ------------------------
(***************************************************************************)
(* Proofs about IncidentWorkflow for every set of evidence, hypotheses and *)
(* plans and every limit: type correctness, that a plan is grounded, that  *)
(* no analyst is missing when the evidence is joined, the bound on         *)
(* iterations, that what is executed is the plan and what is reported was  *)
(* done, and that the workflow implements SafeRemediation.                 *)
(***************************************************************************)
EXTENDS IncidentWorkflow, TLAPS

RunnerFacts == INSTANCE ExecutionRunnerProofs

(* The runner of the workflow is the runner ExecutionRunnerProofs is about. *)
LEMMA SameRunner ==
  /\ RunnerFacts!TypeOK <=> Runner!TypeOK
  /\ RunnerFacts!Action = Runner!Action
  /\ RunnerFacts!Dispatch = Runner!Dispatch
  /\ RunnerFacts!Key = Runner!Key
  /\ RunnerFacts!Role = Runner!Role
  /\ \A a, role, status :
       RunnerFacts!Perform(a, role, status) <=> Runner!Perform(a, role, status)
  /\ \A a : RunnerFacts!Compensation(a) = Runner!Compensation(a)
<1> USE DEF Runner!Key, Runner!Call, RunnerFacts!Key, RunnerFacts!Call,
            Runner!ActionType, RunnerFacts!ActionType,
            Runner!Dispatch, RunnerFacts!Dispatch,
            Runner!Action, RunnerFacts!Action,
            Runner!ResultStatus, RunnerFacts!ResultStatus,
            Runner!IdempotencyKey, RunnerFacts!IdempotencyKey,
            Runner!Role, RunnerFacts!Role,
            Runner!ROLE_HIERARCHY, RunnerFacts!ROLE_HIERARCHY
<1>1. RunnerFacts!Action = Runner!Action
  OBVIOUS
<1>2. RunnerFacts!Dispatch = Runner!Dispatch /\ RunnerFacts!Key = Runner!Key
  OBVIOUS
<1>3. RunnerFacts!Role = Runner!Role
  OBVIOUS
<1>4. RunnerFacts!TypeOK <=> Runner!TypeOK
  BY Zenon DEF RunnerFacts!TypeOK, Runner!TypeOK
<1>5. ASSUME NEW a, NEW role, NEW status
      PROVE  RunnerFacts!Perform(a, role, status) <=> Runner!Perform(a, role, status)
  BY Zenon DEF RunnerFacts!Perform, Runner!Perform,
               RunnerFacts!AlreadyExecuted, Runner!AlreadyExecuted,
               RunnerFacts!InvokeStatus, Runner!InvokeStatus,
               RunnerFacts!Permitted, Runner!Permitted,
               RunnerFacts!RegisteredTools, Runner!RegisteredTools,
               RunnerFacts!CallOf, Runner!CallOf,
               RunnerFacts!Remember, Runner!Remember
<1>6. ASSUME NEW a
      PROVE  RunnerFacts!Compensation(a) = Runner!Compensation(a)
  BY DEF RunnerFacts!Compensation, Runner!Compensation
<1> QED BY <1>1, <1>2, <1>3, <1>4, <1>5, <1>6

LEMMA OperatorIsRole == "OPERATOR" \in Runner!Role
BY DEF Runner!Role, Runner!ROLE_HIERARCHY

(* An execution and a rollback of an assessed action keep the runner's type. *)
LEMMA ExecuteType ==
  ASSUME Runner!TypeOK, NEW a \in Runner!Action,
         \/ Runner!ExecuteAction(a, "OPERATOR")
         \/ Runner!ExecuteRollback(a, "OPERATOR")
  PROVE  Runner!TypeOK'
<1>1. ASSUME NEW b, RunnerFacts!Performable(b),
             NEW status, Runner!Perform(b, "OPERATOR", status)
      PROVE  executedKeys' \subseteq Runner!Key /\ dispatched' \in Seq(Runner!Dispatch)
  <2>1. /\ RunnerFacts!TypeOK
        /\ "OPERATOR" \in RunnerFacts!Role
        /\ RunnerFacts!Perform(b, "OPERATOR", status)
    BY <1>1, SameRunner, OperatorIsRole
  <2>2. /\ executedKeys' \subseteq RunnerFacts!Key
        /\ dispatched' \in Seq(RunnerFacts!Dispatch)
    BY <1>1, <2>1, RunnerAssumption, SameRunner, RunnerFacts!PerformType
  <2> QED BY <2>2, SameRunner
<1>2. /\ RunnerFacts!Performable(a)
      /\ RunnerFacts!Performable(Runner!Compensation(a))
  BY SameRunner, RunnerAssumption, RunnerFacts!ActionPerformable,
     RunnerFacts!CompensationPerformable
<1>3. PICK b \in {a, Runner!Compensation(a)}, status \in {"SUCCESS", "FAILED"} :
        Runner!Perform(b, "OPERATOR", status)
  BY DEF Runner!ExecuteAction, Runner!ExecuteRollback
<1>4. executedKeys' \subseteq Runner!Key /\ dispatched' \in Seq(Runner!Dispatch)
  BY <1>1, <1>2, <1>3
<1>5. \E end \in Runner!ResultStatus : Runner!Return(a, end)
  BY DEF Runner!ExecuteAction, Runner!ExecuteRollback, Runner!ResultStatus
<1>6. returned' \in Seq([action : Runner!Action, status : Runner!ResultStatus])
  BY <1>5 DEF Runner!TypeOK, Runner!Return
<1> QED BY <1>4, <1>6 DEF Runner!TypeOK

-----------------------------------------------------------------------------
(* Type correctness. *)

LEMMA InitTypeOK == Init => TypeOK
BY LimitAssumption
   DEF Init, TypeOK, Node, Analysts, Stage, Runner!Init, Runner!TypeOK

(* Every edge of the graph leads to nodes. *)
LEMMA ScheduledAreNodes == completed \subseteq Node => Scheduled \subseteq Node
<1>1. ASSUME NEW n \in Node PROVE Successors(n) \subseteq Node
  BY DEF Successors, RouteCriticDecision, StaticEdges, Node, Analysts
<1> QED BY <1>1 DEF Scheduled

(* The actions of a plan are actions the runner takes. *)
LEMMA PlannedActions ==
  ASSUME TypeOK, plan # None
  PROVE  /\ plan \in Plan
         /\ plan.actions \in Seq(Runner!Action)
         /\ Len(plan.actions) \in Nat
         /\ \A i \in 1 .. Len(plan.actions) : plan.actions[i] \in Runner!Action
<1>1. plan \in Plan /\ plan.actions \in Seq(Runner!Action)
  BY InputAssumption DEF TypeOK, Plan
<1> QED BY <1>1

(* Completing a node keeps the schedule's types. *)
LEMMA CompleteType ==
  ASSUME TypeOK, NEW n \in Node, Complete(n)
  PROVE  /\ running' \subseteq Node /\ completed' \subseteq Node
         /\ superstep' \in 1 .. RecursionLimit
         /\ outcome' \in {"RUNNING", "END", "ERROR"}
BY DEF TypeOK, Complete

LEMMA NodeStepTypeOK == TypeOK /\ NodeStep => TypeOK'
<1> SUFFICES ASSUME TypeOK, NodeStep PROVE TypeOK'
  OBVIOUS
<1> USE DEF diagnosisVars, remediationVars, runnerVars, scheduleVars
<1>r. UNCHANGED runnerVars => Runner!TypeOK'
  BY DEF TypeOK, Runner!TypeOK
<1>1. CASE Supervisor
  BY <1>1, <1>r, CompleteType DEF Supervisor, Count, TypeOK, Node, Stage
<1>2. ASSUME NEW a \in Analysts, NEW items \in Findings, Analyst(a, items)
      PROVE  TypeOK'
  BY <1>2, <1>r, CompleteType, InputAssumption DEF Analyst, Count, TypeOK, Node
<1>3. CASE JoinEvidence
  BY <1>3, <1>r, CompleteType DEF JoinEvidence, TypeOK, Node, Stage
<1>4. ASSUME NEW hypotheses \in Diagnoses, NEW primary \in HypothesisId,
             Rca(hypotheses, primary)
      PROVE  TypeOK'
  BY <1>4, <1>r, CompleteType DEF Rca, TypeOK, Node, Stage
<1>5. ASSUME NEW decision \in Decision, Critic(decision)
      PROVE  TypeOK'
  <2>1. critique' \in Critique \cup {None} /\ iteration' \in Nat
    BY <1>5 DEF Critic, TypeOK, Critique, Decision
  <2> QED BY <1>5, <2>1, <1>r, CompleteType DEF Critic, TypeOK, Node, Stage
<1>6. ASSUME NEW actions \in ActionLists, RemediationPlanning(actions)
      PROVE  TypeOK'
  <2>1. plan' \in Plan \cup {None}
    BY <1>6 DEF RemediationPlanning, TypeOK, Plan
  <2>2. stage' \in Stage
    BY <1>6 DEF RemediationPlanning, Stage
  <2> QED BY <1>6, <2>1, <2>2, <1>r, CompleteType DEF RemediationPlanning, TypeOK, Node
<1>7. CASE SkipExecution
  BY <1>7, <1>r, CompleteType DEF SkipExecution, TypeOK, Node, Stage
<1>8. CASE ExecuteNextAction
  <2>1. Len(returned) \in Nat
    BY DEF TypeOK, Runner!TypeOK
  <2>2. /\ plan # None /\ Len(plan.actions) \in Nat
        /\ Len(returned) + 1 \in 1 .. Len(plan.actions)
    BY <1>8, <2>1, PlannedActions DEF ExecuteNextAction, NothingToExecute
  <2>3. Runner!TypeOK'
    BY <1>8, <2>2, PlannedActions, ExecuteType DEF ExecuteNextAction, TypeOK
  <2>4. CASE Complete("execution") /\ stage' = "EXECUTING"
    BY <1>8, <2>3, <2>4, CompleteType DEF ExecuteNextAction, TypeOK, Node, Stage
  <2>5. CASE UNCHANGED <<stage, scheduleVars>>
    BY <1>8, <2>3, <2>5 DEF ExecuteNextAction, TypeOK
  <2> QED BY <1>8, <2>4, <2>5 DEF ExecuteNextAction
<1>9. ASSUME NEW assessment \in Assessment, Verification(assessment)
      PROVE  TypeOK'
  <2>1. ASSUME NeedsRollback(assessment) PROVE Runner!TypeOK'
    <3>1. /\ plan # None /\ plan.actions # <<>>
          /\ Runner!ExecuteRollback(plan.actions[Len(plan.actions)], "OPERATOR")
      BY <1>9, <2>1 DEF Verification, NeedsRollback, LastAction, NothingToExecute
    <3>2. plan.actions[Len(plan.actions)] \in Runner!Action
      BY <3>1, PlannedActions
    <3> QED BY <3>1, <3>2, ExecuteType DEF TypeOK
  <2>2. Runner!TypeOK'
    BY <1>9, <1>r, <2>1 DEF Verification
  <2>3. stage' \in Stage
    BY <1>9 DEF Verification, Stage
  <2> QED BY <1>9, <2>2, <2>3, CompleteType DEF Verification, TypeOK, Node
<1> QED BY <1>1, <1>2, <1>3, <1>4, <1>5, <1>6, <1>7, <1>8, <1>9 DEF NodeStep

LEMMA NextTypeOK == TypeOK /\ [Next]_vars => TypeOK'
<1> SUFFICES ASSUME TypeOK, [Next]_vars PROVE TypeOK'
  OBVIOUS
<1> USE DEF diagnosisVars, remediationVars, runnerVars, scheduleVars
<1>r. UNCHANGED runnerVars => Runner!TypeOK'
  BY DEF TypeOK, Runner!TypeOK
<1>1. CASE NodeStep
  BY <1>1, NodeStepTypeOK
<1>2. ASSUME NEW n \in Node, NodeRaises(n) PROVE TypeOK'
  BY <1>2, <1>r DEF NodeRaises, TypeOK
<1>3. CASE NextSuperstep
  BY <1>3, <1>r, ScheduledAreNodes, LimitAssumption DEF NextSuperstep, TypeOK
<1>4. CASE Finish
  BY <1>4, <1>r DEF Finish, TypeOK
<1>5. CASE UNCHANGED vars
  BY <1>5, <1>r DEF vars, TypeOK
<1> QED BY <1>1, <1>2, <1>3, <1>4, <1>5 DEF Next

(* The workflow's state keeps its type, whatever the models answer. *)
THEOREM TypeCorrect == Spec => []TypeOK
BY InitTypeOK, NextTypeOK, PTL DEF Spec

-----------------------------------------------------------------------------
(* The inductive invariant, in parts. *)

Current == running \cup completed

(* The nodes of a superstep are the four analysts or a single node, and    *)
(* none runs once the graph's run has ended.                               *)
Layered ==
  /\ running \cap completed = {}
  /\ Current \subseteq Analysts \/ \E n \in Node : Current \subseteq {n}
  /\ outcome = "RUNNING" \/ running = {}

(* An analyst is one report behind the supervisor exactly from the end of  *)
(* the supervisor's turn to the end of its own.                            *)
Behind(a) == IF a \in running \/ "supervisor" \in completed THEN 1 ELSE 0

Counted ==
  outcome = "RUNNING" =>
    /\ \A a \in Analysts : reports[a] + Behind(a) = reports["supervisor"]
    /\ Current \cap Analysts # {} => Current = Analysts

(* The round is on its way to the critic. *)
PreCritic ==
  \/ "critic" \in running
  \/ Current \cap (Analysts \cup {"supervisor", "join_evidence", "rca"}) # {}

Iterated ==
  /\ IterationsBounded
  /\ PreCritic => iteration < MaxIterations
  /\ PreCritic /\ "supervisor" \notin running => iteration < reports["supervisor"]

Approved == critique # None /\ critique.decision = "APPROVE"

(* Once a hypothesis is approved the run never returns to the diagnosis,   *)
(* so nothing the approval rests on can change any more.                   *)
Approval ==
  /\ Approved =>
       /\ selected = critique.about
       /\ selected.cites \subseteq evidence
       /\ \/ Current \subseteq RemediationNode
          \/ running = {} /\ completed \subseteq {"critic"}
  /\ Current \cap RemediationNode # {} => Approved
  /\ plan # None => Approved /\ plan.hypothesis = selected

IInv == TypeOK /\ Layered /\ Counted /\ Iterated /\ Approval

LEMMA InitIInv == Init => IInv
<1> SUFFICES ASSUME Init PROVE IInv
  OBVIOUS
<1>1. Layered /\ Counted
  BY DEF Init, Layered, Counted, Current, Behind, Node, Analysts
<1>2. Iterated
  BY LimitAssumption DEF Init, Iterated, IterationsBounded, PreCritic, Analysts
<1>3. Approval
  BY DEF Init, Approval, Approved, Current, RemediationNode
<1> QED BY <1>1, <1>2, <1>3, InitTypeOK DEF IInv

-----------------------------------------------------------------------------
(* How the schedule changes. *)

(* A node that is no analyst runs alone, and completing it ends the        *)
(* superstep.                                                              *)
LEMMA RunsAlone ==
  ASSUME Layered, NEW n \in Node \ Analysts, n \in running
  PROVE  /\ running = {n} /\ completed = {}
         /\ outcome = "RUNNING"
         /\ Complete(n) => running' = {} /\ completed' = {n} /\ outcome' = "RUNNING"
BY DEF Layered, Current, Complete

(* An analyst runs among analysts only. *)
LEMMA RunsWithAnalysts ==
  ASSUME Layered, NEW a \in Analysts, a \in running
  PROVE  Current \subseteq Analysts /\ outcome = "RUNNING"
BY DEF Layered, Current, Analysts

(* The successors of a superstep. *)
LEMMA ScheduledFrom ==
  /\ \A n : completed = {n} => Scheduled = Successors(n)
  /\ completed \subseteq Analysts /\ completed # {} => Scheduled = {"join_evidence"}
  /\ completed = {} => Scheduled = {}
<1>1. \A a \in Analysts : Successors(a) = {"join_evidence"}
  BY DEF Successors, StaticEdges, Analysts, Node
<1> QED BY <1>1 DEF Scheduled

LEMMA SuccessorsOf ==
  /\ Successors("supervisor") = Analysts
  /\ Successors("join_evidence") = {"rca"}
  /\ Successors("rca") = {"critic"}
  /\ Successors("critic") = RouteCriticDecision
  /\ Successors("remediation_planning") = {"execution"}
  /\ Successors("execution") = {"verification"}
  /\ Successors("verification") = {}
BY DEF Successors, StaticEdges, Analysts, Node

(* What a superstep has completed, case by case. *)
LEMMA CompletedCases ==
  ASSUME TypeOK, Layered
  PROVE  \/ completed \subseteq Analysts
         \/ \E n \in Node \ Analysts : completed = {n}
BY DEF TypeOK, Layered, Current

LEMMA LayeredStep == TypeOK /\ Layered /\ [Next]_vars => Layered'
<1> SUFFICES ASSUME TypeOK, Layered, [Next]_vars PROVE Layered'
  OBVIOUS
<1> USE DEF Layered, Current
<1>1. CASE NodeStep
  <2>1. PICK n \in Node : n \in running /\ (Complete(n) \/ UNCHANGED scheduleVars)
    BY <1>1 DEF NodeStep, Supervisor, Analyst, JoinEvidence, Rca, Critic,
                RemediationPlanning, SkipExecution, ExecuteNextAction,
                Verification, Node, scheduleVars
  <2>2. CASE Complete(n)
    <3>1. running' = running \ {n} /\ completed' = completed \cup {n}
          /\ outcome' = outcome /\ (running \cup completed)' = running \cup completed
      BY <2>1, <2>2 DEF Complete
    <3> QED BY <2>1, <3>1
  <2>3. CASE UNCHANGED scheduleVars
    BY <2>3 DEF scheduleVars
  <2> QED BY <2>1, <2>2, <2>3
<1>2. ASSUME NEW n \in Node, NodeRaises(n) PROVE Layered'
  BY <1>2 DEF NodeRaises
<1>3. CASE NextSuperstep
  <2>1. Scheduled \subseteq Analysts \/ \E n \in Node : Scheduled \subseteq {n}
    <3>1. CASE completed \subseteq Analysts
      BY <3>1, ScheduledFrom DEF Node
    <3>2. ASSUME NEW n \in Node \ Analysts, completed = {n}
          PROVE  Scheduled \subseteq Analysts \/ \E m \in Node : Scheduled \subseteq {m}
      BY <3>2, ScheduledFrom, SuccessorsOf DEF Node, RouteCriticDecision
    <3> QED BY <3>1, <3>2, CompletedCases
  <2> QED BY <1>3, <2>1 DEF NextSuperstep, SuperstepDone
<1>4. CASE Finish
  BY <1>4 DEF Finish, SuperstepDone
<1>5. CASE UNCHANGED vars
  BY <1>5 DEF vars, scheduleVars
<1> QED BY <1>1, <1>2, <1>3, <1>4, <1>5 DEF Next

-----------------------------------------------------------------------------
(* A step of a node that is no analyst, as far as the schedule and the     *)
(* reports are concerned. *)
SoloNode(n) ==
  /\ n \in running
  /\ \/ Complete(n)
     \/ n = "execution" /\ UNCHANGED scheduleVars
  /\ IF n = "supervisor" THEN Count(n) ELSE UNCHANGED reports

LEMMA NodeSteps ==
  NodeStep => \/ \E n \in Node \ Analysts : SoloNode(n)
              \/ \E a \in Analysts, items \in Findings : Analyst(a, items)
<1> SUFFICES ASSUME NodeStep,
                    ~ \E a \in Analysts, items \in Findings : Analyst(a, items)
             PROVE  \E n \in Node \ Analysts : SoloNode(n)
  OBVIOUS
<1> USE DEF SoloNode, Node, Analysts
<1>1. CASE Supervisor
  BY <1>1 DEF Supervisor
<1>2. CASE JoinEvidence
  BY <1>2 DEF JoinEvidence
<1>3. ASSUME NEW hypotheses, NEW primary, Rca(hypotheses, primary)
      PROVE  \E n \in Node \ Analysts : SoloNode(n)
  BY <1>3 DEF Rca
<1>4. ASSUME NEW decision, Critic(decision)
      PROVE  \E n \in Node \ Analysts : SoloNode(n)
  BY <1>4 DEF Critic
<1>5. ASSUME NEW actions, RemediationPlanning(actions)
      PROVE  \E n \in Node \ Analysts : SoloNode(n)
  BY <1>5 DEF RemediationPlanning
<1>6. CASE SkipExecution
  BY <1>6 DEF SkipExecution
<1>7. CASE ExecuteNextAction
  BY <1>7 DEF ExecuteNextAction, scheduleVars
<1>8. ASSUME NEW assessment, Verification(assessment)
      PROVE  \E n \in Node \ Analysts : SoloNode(n)
  BY <1>8 DEF Verification
<1> QED BY <1>1, <1>2, <1>3, <1>4, <1>5, <1>6, <1>7, <1>8 DEF NodeStep

LEMMA CountedStep == TypeOK /\ Layered /\ Counted /\ [Next]_vars => Counted'
<1> SUFFICES ASSUME TypeOK, Layered, Counted, [Next]_vars PROVE Counted'
  OBVIOUS
<1>t. \A n \in Analysts \cup {"supervisor"} : reports[n] \in Nat
  BY DEF TypeOK
<1>1. ASSUME NEW n \in Node \ Analysts, SoloNode(n) PROVE Counted'
  <2>1. running = {n} /\ completed = {} /\ outcome = "RUNNING"
    BY <1>1, RunsAlone DEF SoloNode
  <2>2. \A a \in Analysts : reports[a] = reports["supervisor"]
    BY <1>t, <2>1 DEF Counted, Behind
  <2>3. CASE Complete(n)
    <3>1. running' = {} /\ completed' = {n}
      BY <2>1, <2>3 DEF Complete
    <3>2. CASE n = "supervisor"
      <4>1. /\ \A a \in Analysts : reports'[a] = reports[a]
            /\ reports'["supervisor"] = reports["supervisor"] + 1
        BY <1>1, <3>2 DEF SoloNode, Count, TypeOK, Analysts
      <4> QED BY <3>1, <3>2, <4>1, <2>2, <1>t DEF Counted, Behind, Current, Analysts
    <3>3. CASE n # "supervisor"
      BY <1>1, <1>t, <3>1, <3>3, <2>2 DEF SoloNode, Counted, Behind, Current
    <3> QED BY <3>2, <3>3
  <2>4. CASE n = "execution" /\ UNCHANGED scheduleVars
    BY <1>1, <2>4 DEF SoloNode, scheduleVars, Counted, Behind, Current
  <2> QED BY <1>1, <2>3, <2>4 DEF SoloNode
<1>2. ASSUME NEW a \in Analysts, NEW items \in Findings, Analyst(a, items)
      PROVE  Counted'
  <2>1. a \in running /\ Complete(a) /\ Count(a)
    BY <1>2 DEF Analyst
  <2>2. Current \subseteq Analysts /\ outcome = "RUNNING" /\ Current = Analysts
    BY <2>1, RunsWithAnalysts DEF Counted, Current
  <2>3. running' = running \ {a} /\ completed' = completed \cup {a} /\ outcome' = outcome
    BY <2>1 DEF Complete
  <2>4. Current' = Current
    BY <2>1, <2>3 DEF Current
  <2>5. ASSUME NEW b \in Analysts
        PROVE  (reports[b] + Behind(b) = reports["supervisor"])'
    <3>1. reports[b] + Behind(b) = reports["supervisor"]
      BY <2>2 DEF Counted
    <3>2. "supervisor" \notin completed /\ "supervisor" \notin completed'
      BY <2>2, <2>4 DEF Current, Analysts
    <3>3. reports'["supervisor"] = reports["supervisor"]
      BY <2>1 DEF Count, TypeOK, Analysts
    <3>4. CASE b = a
      BY <1>t, <2>1, <2>3, <3>1, <3>2, <3>3, <3>4 DEF Count, TypeOK, Behind
    <3>5. CASE b # a
      BY <1>t, <2>1, <2>3, <3>1, <3>2, <3>3, <3>5 DEF Count, TypeOK, Behind
    <3> QED BY <3>4, <3>5
  <2> QED BY <2>2, <2>4, <2>5 DEF Counted
<1>3. ASSUME NEW n \in Node, NodeRaises(n) PROVE Counted'
  BY <1>3 DEF NodeRaises, Counted
<1>4. CASE NextSuperstep
  <2>1. /\ running = {} /\ outcome = "RUNNING" /\ outcome' = "RUNNING"
        /\ running' = Scheduled /\ completed' = {} /\ reports' = reports
    BY <1>4 DEF NextSuperstep, SuperstepDone
  <2>2. CASE completed = {"supervisor"}
    <3>1. Scheduled = Analysts
      BY <2>2, ScheduledFrom, SuccessorsOf
    <3> QED BY <2>1, <2>2, <3>1 DEF Counted, Behind, Current
  <2>3. CASE completed # {"supervisor"}
    <3>1. \A a \in Analysts : reports[a] = reports["supervisor"]
      <4>1. "supervisor" \notin completed
        BY <2>3, CompletedCases DEF Analysts
      <4> QED BY <1>t, <2>1, <4>1 DEF Counted, Behind
    <3>2. Scheduled \cap Analysts = {}
      <4>1. CASE completed \subseteq Analysts
        BY <4>1, ScheduledFrom DEF Analysts
      <4>2. ASSUME NEW n \in Node \ Analysts, completed = {n}
            PROVE  Scheduled \cap Analysts = {}
        BY <2>3, <4>2, ScheduledFrom, SuccessorsOf DEF Node, Analysts, RouteCriticDecision
      <4> QED BY <4>1, <4>2, CompletedCases
    <3> QED BY <1>t, <2>1, <3>1, <3>2 DEF Counted, Behind, Current
  <2> QED BY <2>2, <2>3
<1>5. CASE Finish
  BY <1>5 DEF Finish, SuperstepDone, Counted
<1>6. CASE UNCHANGED vars
  BY <1>6 DEF vars, scheduleVars, Counted, Behind, Current
<1> QED BY <1>1, <1>2, <1>3, <1>4, <1>5, <1>6, NodeSteps DEF Next

LEMMA IteratedStep == TypeOK /\ Layered /\ Iterated /\ [Next]_vars => Iterated'
<1> SUFFICES ASSUME TypeOK, Layered, Iterated, [Next]_vars PROVE Iterated'
  OBVIOUS
<1> USE DEF Iterated, IterationsBounded
<1>t. /\ iteration \in Nat /\ MaxIterations \in Nat
      /\ \A n \in Analysts \cup {"supervisor"} : reports[n] \in Nat
  BY LimitAssumption DEF TypeOK
<1>1. CASE "supervisor" \in running /\ Supervisor
  <2>1. running = {"supervisor"} /\ running' = {} /\ completed' = {"supervisor"}
    BY <1>1, RunsAlone DEF Supervisor, Node, Analysts
  <2>2. PreCritic
    BY <2>1 DEF PreCritic, Current
  <2>3. iteration' = iteration /\ reports'["supervisor"] = reports["supervisor"] + 1
    BY <1>1 DEF Supervisor, diagnosisVars, Count, TypeOK
  <2> QED BY <1>t, <2>2, <2>3
<1>2. CASE \E decision \in Decision : Critic(decision)
  <2>1. /\ "critic" \in running
        /\ iteration' \in {iteration, iteration + 1} /\ reports' = reports
        /\ running' = {} /\ completed' = {"critic"}
    BY <1>2, RunsAlone DEF Critic, Node, Analysts
  <2>2. iteration < MaxIterations /\ iteration < reports["supervisor"]
    <3>1. running = {"critic"}
      BY <2>1, RunsAlone DEF Node, Analysts
    <3> QED BY <3>1 DEF PreCritic
  <2>3. ~PreCritic'
    BY <2>1 DEF PreCritic, Current, Analysts
  <2> QED BY <1>t, <2>1, <2>2, <2>3
<1>3. ASSUME NEW n \in Node \ Analysts, SoloNode(n), n # "supervisor", n # "critic",
             iteration' = iteration
      PROVE  Iterated'
  <2>1. running = {n} /\ completed = {}
    BY <1>3, RunsAlone DEF SoloNode
  <2>2. reports' = reports
    BY <1>3 DEF SoloNode
  <2>3. PreCritic' => PreCritic /\ "supervisor" \notin running
    <3>1. running' \cup completed' = {n} /\ running' \subseteq {n}
      BY <1>3, <2>1 DEF SoloNode, Complete, scheduleVars
    <3> QED BY <1>3, <2>1, <3>1 DEF PreCritic, Current
  <2> QED BY <1>3, <1>t, <2>2, <2>3
<1>4. ASSUME NEW a \in Analysts, NEW items \in Findings, Analyst(a, items)
      PROVE  Iterated'
  <2>1. Current \subseteq Analysts /\ a \in running
    BY <1>4, RunsWithAnalysts DEF Analyst
  <2>2. PreCritic /\ "supervisor" \notin running
    BY <2>1 DEF PreCritic, Current, Analysts
  <2>3. reports'["supervisor"] = reports["supervisor"] /\ iteration' = iteration
    BY <1>4 DEF Analyst, Count, TypeOK, Analysts
  <2> QED BY <2>2, <2>3
<1>5. ASSUME NEW n \in Node, NodeRaises(n) PROVE Iterated'
  <2>1. /\ running' = {} /\ completed' = completed
        /\ reports' = reports /\ iteration' = iteration
    BY <1>5 DEF NodeRaises, diagnosisVars
  <2>2. PreCritic' => PreCritic
    BY <2>1 DEF PreCritic, Current
  <2>3. n \in running
    BY <1>5 DEF NodeRaises
  <2>4. PreCritic' => "supervisor" \notin running
    BY <2>1, <2>3 DEF PreCritic, Current, Layered, Analysts
  <2> QED BY <2>1, <2>2, <2>4
<1>6. CASE NextSuperstep
  <2>1. /\ running = {} /\ running' = Scheduled /\ completed' = {}
        /\ reports' = reports /\ iteration' = iteration
    BY <1>6 DEF NextSuperstep, SuperstepDone, diagnosisVars
  <2>2. CASE completed = {"critic"}
    <3>1. Scheduled = RouteCriticDecision
      BY <2>2, ScheduledFrom, SuccessorsOf
    <3>2. PreCritic' => iteration < MaxIterations /\ "supervisor" \in running'
      BY <2>1, <3>1 DEF PreCritic, Current, RouteCriticDecision, Analysts
    <3> QED BY <2>1, <3>2
  <2>3. CASE completed # {"critic"}
    <3>1. PreCritic' => PreCritic
      <4>1. CASE completed \subseteq Analysts
        <5>1. CASE completed = {}
          BY <2>1, <5>1, ScheduledFrom DEF PreCritic, Current
        <5>2. CASE completed # {}
          BY <4>1, <5>2 DEF PreCritic, Current
        <5> QED BY <5>1, <5>2
      <4>2. ASSUME NEW n \in Node \ Analysts, completed = {n}
            PROVE  PreCritic' => PreCritic
        <5>1. Scheduled = Successors(n)
          BY <4>2, ScheduledFrom
        <5>2. CASE n \in {"supervisor", "join_evidence", "rca"}
          BY <4>2, <5>2 DEF PreCritic, Current
        <5>3. CASE n \in RemediationNode
          <6>1. Scheduled \subseteq RemediationNode
            BY <5>1, <5>3, SuccessorsOf DEF RemediationNode
          <6>2. CASE Scheduled = {}
            BY <2>1, <4>2, <5>3, <6>2 DEF PreCritic, Current, RemediationNode, Analysts
          <6>3. CASE Scheduled # {}
            BY <2>1, <6>1, <6>3 DEF PreCritic, Current, RemediationNode, Analysts
          <6> QED BY <6>2, <6>3
        <5> QED BY <2>3, <4>2, <5>2, <5>3 DEF Node, Analysts, RemediationNode
      <4> QED BY <4>1, <4>2, CompletedCases
    <3> QED BY <2>1, <3>1
  <2> QED BY <2>2, <2>3
<1>7. CASE Finish
  BY <1>7 DEF Finish, diagnosisVars, PreCritic, Current
<1>8. CASE UNCHANGED vars
  BY <1>8 DEF vars, scheduleVars, diagnosisVars, PreCritic, Current
<1>9. NodeStep =>
        \/ "supervisor" \in running /\ Supervisor
        \/ \E decision \in Decision : Critic(decision)
        \/ \E a \in Analysts, items \in Findings : Analyst(a, items)
        \/ \E n \in Node \ Analysts :
             SoloNode(n) /\ n # "supervisor" /\ n # "critic" /\ iteration' = iteration
  BY DEF NodeStep, Supervisor, JoinEvidence, Rca, RemediationPlanning, SkipExecution,
         ExecuteNextAction, Verification, SoloNode, diagnosisVars, scheduleVars,
         Node, Analysts
<1> QED BY <1>1, <1>2, <1>3, <1>4, <1>5, <1>6, <1>7, <1>8, <1>9 DEF Next

-----------------------------------------------------------------------------
(* The only steps that touch what an approval rests on. *)
LEMMA DiagnosisSteps ==
  NodeStep => \/ \E a \in Analysts, items \in Findings : Analyst(a, items)
              \/ \E hypotheses \in Diagnoses, primary \in HypothesisId :
                   Rca(hypotheses, primary)
              \/ \E decision \in Decision : Critic(decision)
              \/ \E actions \in ActionLists : RemediationPlanning(actions)
              \/ /\ UNCHANGED <<diagnosisVars, plan>>
                 /\ \E n \in Node \ (Analysts \cup {"rca", "critic"}) : SoloNode(n)
BY DEF NodeStep, Supervisor, JoinEvidence, SkipExecution, ExecuteNextAction,
       Verification, SoloNode, diagnosisVars, remediationVars, scheduleVars,
       Node, Analysts

LEMMA ApprovalStep == TypeOK /\ Layered /\ Approval /\ [Next]_vars => Approval'
<1> SUFFICES ASSUME TypeOK, Layered, Approval, [Next]_vars PROVE Approval'
  OBVIOUS
<1> USE DEF Approval
<1>1. ASSUME NEW a \in Analysts, NEW items \in Findings, Analyst(a, items)
      PROVE  Approval'
  <2>1. a \in running /\ Current \subseteq Analysts /\ Current' = Current
    BY <1>1, RunsWithAnalysts DEF Analyst, Complete, Current
  <2>2. ~Approved /\ plan = None /\ Current \cap RemediationNode = {}
    BY <2>1 DEF RemediationNode, Analysts, Current
  <2>3. ~Approved' /\ plan' = None
    BY <1>1, <2>2 DEF Analyst, Approved, remediationVars
  <2> QED BY <2>1, <2>2, <2>3
<1>2. ASSUME NEW hypotheses, NEW primary, Rca(hypotheses, primary)
      PROVE  Approval'
  <2>1. running = {"rca"} /\ running' = {} /\ completed' = {"rca"}
    BY <1>2, RunsAlone DEF Rca, Node, Analysts
  <2>2. ~Approved /\ plan = None
    BY <2>1 DEF RemediationNode, Current
  <2>3. ~Approved' /\ plan' = None
    BY <1>2, <2>2 DEF Rca, Approved, remediationVars
  <2> QED BY <2>1, <2>3 DEF Current, RemediationNode
<1>3. ASSUME NEW decision \in Decision, Critic(decision)
      PROVE  Approval'
  <2>1. running = {"critic"} /\ running' = {} /\ completed' = {"critic"}
    BY <1>3, RunsAlone DEF Critic, Node, Analysts
  <2>2. ~Approved /\ plan = None /\ plan' = None
    BY <1>3, <2>1 DEF RemediationNode, Current, Critic, remediationVars
  <2>3. selected' = selected /\ evidence' = evidence
    BY <1>3 DEF Critic
  <2>4. CASE UNCHANGED critique
    BY <2>1, <2>2, <2>4 DEF Approved, Current, RemediationNode
  <2>5. CASE critique' = [decision |-> IF Fabricated(selected) # {}
                                       THEN "CHALLENGE" ELSE decision,
                          about |-> selected]
    <3>1. Approved' => selected = critique'.about /\ Fabricated(selected) = {}
      BY <2>5 DEF Approved
    <3> QED BY <2>1, <2>2, <2>3, <3>1 DEF Fabricated, Current, RemediationNode
  <2> QED BY <1>3, <2>4, <2>5 DEF Critic
<1>4. ASSUME NEW actions \in ActionLists, RemediationPlanning(actions)
      PROVE  Approval'
  <2>1. running = {"remediation_planning"} /\ completed = {}
        /\ running' = {} /\ completed' = {"remediation_planning"}
    BY <1>4, RunsAlone DEF RemediationPlanning, Node, Analysts
  <2>2. Approved /\ Approved' /\ UNCHANGED <<selected, evidence, critique>>
    BY <1>4, <2>1 DEF RemediationPlanning, diagnosisVars, Approved, Current, RemediationNode
  <2>3. plan' # None => plan' = plan \/ plan'.hypothesis = selected
    BY <1>4 DEF RemediationPlanning
  <2> QED BY <2>1, <2>2, <2>3 DEF Current, RemediationNode
<1>5. ASSUME UNCHANGED <<diagnosisVars, plan>>,
             NEW n \in Node \ (Analysts \cup {"rca", "critic"}), SoloNode(n)
      PROVE  Approval'
  <2>1. Current = {n} /\ Current' = {n} /\ n \in running
    BY <1>5, RunsAlone DEF SoloNode, Complete, scheduleVars, Current
  <2> QED BY <1>5, <2>1 DEF diagnosisVars, Approved
<1>6. ASSUME NEW n \in Node, NodeRaises(n) PROVE Approval'
  BY <1>6 DEF NodeRaises, diagnosisVars, remediationVars, Approved, Current
<1>7. CASE NextSuperstep
  <2>1. /\ running = {} /\ running' = Scheduled /\ completed' = {}
        /\ UNCHANGED <<diagnosisVars, plan>>
    BY <1>7 DEF NextSuperstep, SuperstepDone, remediationVars
  <2>2. Current' = Scheduled /\ (Approved' <=> Approved)
    BY <2>1 DEF Current, Approved, diagnosisVars
  <2>3. ASSUME Approved PROVE Scheduled \subseteq RemediationNode
    <3>1. completed \subseteq RemediationNode \/ completed = {"critic"} \/ completed = {}
      BY <2>1, <2>3 DEF Current
    <3>2. ASSUME NEW n \in RemediationNode PROVE Successors(n) \subseteq RemediationNode
      BY SuccessorsOf DEF RemediationNode
    <3>3. RouteCriticDecision \subseteq RemediationNode
      BY <2>3 DEF Approved, RouteCriticDecision, RemediationNode
    <3> QED BY <3>1, <3>2, <3>3, SuccessorsOf, ScheduledFrom DEF Scheduled
  <2>4. ASSUME ~Approved PROVE Scheduled \cap RemediationNode = {}
    <3>1. completed \cap RemediationNode = {}
      BY <2>4 DEF Current
    <3>2. CASE completed \subseteq Analysts
      BY <3>2, ScheduledFrom DEF RemediationNode
    <3>3. ASSUME NEW n \in Node \ Analysts, completed = {n}
          PROVE  Scheduled \cap RemediationNode = {}
      BY <2>4, <3>1, <3>3, ScheduledFrom, SuccessorsOf
         DEF Node, Analysts, RemediationNode, RouteCriticDecision, Approved
    <3> QED BY <3>2, <3>3, CompletedCases
  <2> QED BY <2>1, <2>2, <2>3, <2>4 DEF diagnosisVars
<1>8. CASE Finish
  BY <1>8 DEF Finish, diagnosisVars, remediationVars, Approved, Current
<1>9. CASE UNCHANGED vars
  BY <1>9 DEF vars, scheduleVars, diagnosisVars, remediationVars, Approved, Current
<1> QED BY <1>1, <1>2, <1>3, <1>4, <1>5, <1>6, <1>7, <1>8, <1>9, DiagnosisSteps DEF Next

-----------------------------------------------------------------------------
(* What the remediation has done so far. *)

Effecting == Current \cap {"execution", "verification"}

(* A plan is written once, nothing is executed before its turn, and the    *)
(* execution node goes through the plan one action after the other.        *)
Progress ==
  /\ outcome = "RUNNING" /\ plan # None =>
       "remediation_planning" \in completed \/ Effecting # {}
  /\ outcome = "RUNNING" /\ returned # <<>> => Effecting # {}
  /\ "execution" \in running =>
       returned = <<>> \/ (plan # None /\ Len(returned) < Len(plan.actions))
  /\ ("execution" \in completed \/ "verification" \in running) /\ plan # None =>
       Len(returned) = Len(plan.actions)

(* Until an action is compensated, every key a tool was called under is    *)
(* the call that was made.                                                 *)
KeysNameCalls ==
  outcome = "RUNNING" /\ "verification" \notin completed =>
    \A j \in DOMAIN dispatched : dispatched[j].key \in {NoKey, dispatched[j].call}

(* The order in which the nodes of the remediation are scheduled. *)
LEMMA RemediationOrder ==
  ASSUME TypeOK, Layered
  PROVE  /\ "remediation_planning" \in completed => Scheduled = {"execution"}
         /\ "execution" \in completed => Scheduled = {"verification"}
         /\ "verification" \in completed => Scheduled = {}
         /\ "execution" \in Scheduled => completed = {"remediation_planning"}
         /\ "verification" \in Scheduled => completed = {"execution"}
<1>1. CASE completed \subseteq Analysts
  BY <1>1, ScheduledFrom DEF Analysts
<1>2. ASSUME NEW n \in Node \ Analysts, completed = {n}
      PROVE  /\ n = "remediation_planning" => Scheduled = {"execution"}
             /\ n = "execution" => Scheduled = {"verification"}
             /\ n = "verification" => Scheduled = {}
             /\ "execution" \in Scheduled => n = "remediation_planning"
             /\ "verification" \in Scheduled => n = "execution"
  BY <1>2, ScheduledFrom, SuccessorsOf DEF Node, Analysts, RouteCriticDecision
<1> QED BY <1>1, <1>2, CompletedCases DEF Analysts

(* The steps that leave the plan and the runner alone. *)
LEMMA QuietSteps ==
  [Next]_vars =>
    \/ \E actions \in ActionLists : RemediationPlanning(actions)
    \/ ExecuteNextAction
    \/ \E assessment \in Assessment : Verification(assessment)
    \/ SkipExecution
    \/ /\ UNCHANGED <<plan, runnerVars>>
       /\ \/ \E a \in Analysts, items \in Findings : Analyst(a, items)
          \/ \E n \in Node \ (Analysts \cup RemediationNode) : SoloNode(n)
          \/ \E n \in Node : NodeRaises(n)
          \/ NextSuperstep
          \/ Finish
          \/ UNCHANGED vars
BY DEF Next, NodeStep, Supervisor, Analyst, JoinEvidence, Rca, Critic, NodeRaises,
       NextSuperstep, Finish, vars, remediationVars, SoloNode, Node, Analysts,
       RemediationNode

(* The lengths the remediation is counted by. *)
LEMMA Lengths ==
  ASSUME TypeOK
  PROVE  /\ Len(returned) \in Nat /\ DOMAIN returned = 1 .. Len(returned)
         /\ returned = <<>> <=> Len(returned) = 0
         /\ plan # None => /\ Len(plan.actions) \in Nat
                           /\ plan.actions = <<>> <=> Len(plan.actions) = 0
<1>1. returned \in Seq([action : Runner!Action, status : Runner!ResultStatus])
  BY DEF TypeOK, Runner!TypeOK
<1>2. returned = <<>> <=> Len(returned) = 0
  BY <1>1
<1>3. plan # None => plan.actions \in Seq(Runner!Action)
  BY PlannedActions
<1> QED BY <1>1, <1>2, <1>3

(* Each step keeps the execution to its plan. *)
LEMMA ProgressStep ==
  ASSUME TypeOK, Layered, Approval, EffectsFollowPlan, Progress, [Next]_vars
  PROVE  Progress' /\ EffectsFollowPlan'
<1> USE DEF Progress
<1>u. /\ Len(returned) \in Nat /\ DOMAIN returned = 1 .. Len(returned)
      /\ returned = <<>> <=> Len(returned) = 0
      /\ plan # None => /\ Len(plan.actions) \in Nat
                        /\ plan.actions = <<>> <=> Len(plan.actions) = 0
  BY Lengths
<1>1. ASSUME NEW actions \in ActionLists, RemediationPlanning(actions)
      PROVE  Progress' /\ EffectsFollowPlan'
  <2>1. /\ running = {"remediation_planning"} /\ completed = {} /\ outcome = "RUNNING"
        /\ running' = {} /\ completed' = {"remediation_planning"}
    BY <1>1, RunsAlone DEF RemediationPlanning, Node, Analysts
  <2>2. returned = <<>> /\ returned' = <<>>
    BY <1>1, <2>1 DEF RemediationPlanning, runnerVars, Effecting, Current
  <2>3. Progress'
    BY <2>1, <2>2
  <2>4. plan' # None => Len(plan'.actions) \in Nat
    BY <1>1, <1>u, InputAssumption DEF RemediationPlanning
  <2>5. EffectsFollowPlan'
    BY <2>2, <2>4 DEF EffectsFollowPlan
  <2> QED BY <2>3, <2>5
<1>2. CASE SkipExecution
  <2>1. /\ running = {"execution"} /\ completed = {} /\ outcome = "RUNNING"
        /\ running' = {} /\ completed' = {"execution"}
    BY <1>2, RunsAlone DEF SkipExecution, Node, Analysts
  <2>2. /\ UNCHANGED <<plan, returned>>
        /\ plan = None \/ plan.actions = <<>>
    BY <1>2 DEF SkipExecution, runnerVars, remediationVars, NothingToExecute
  <2>3. returned = <<>>
    BY <1>u, <2>1, <2>2
  <2>4. Progress'
    BY <1>u, <2>1, <2>2, <2>3 DEF Effecting, Current
  <2>5. EffectsFollowPlan'
    BY <1>u, <2>2, <2>3 DEF EffectsFollowPlan
  <2> QED BY <2>4, <2>5
<1>3. CASE ExecuteNextAction
  <2>1. /\ running = {"execution"} /\ completed = {} /\ outcome = "RUNNING"
    BY <1>3, RunsAlone DEF ExecuteNextAction, Node, Analysts
  <2>2. plan # None /\ UNCHANGED plan /\ Len(returned) < Len(plan.actions)
    BY <1>3, <1>u, <2>1 DEF ExecuteNextAction, NothingToExecute, remediationVars
  <2> DEFINE a == plan.actions[Len(returned) + 1]
  <2>3. PICK status \in {"SUCCESS", "FAILED"} :
          returned' = Append(returned, [action |-> a, status |-> status])
    BY <1>3 DEF ExecuteNextAction, Runner!ExecuteAction, Runner!Return
  <2>4. /\ Len(returned') = Len(returned) + 1
        /\ DOMAIN returned' = 1 .. Len(returned) + 1
        /\ \A i \in DOMAIN returned : returned'[i] = returned[i]
        /\ returned'[Len(returned) + 1] = [action |-> a, status |-> status]
    BY <2>3 DEF TypeOK, Runner!TypeOK
  <2>5. \/ /\ Len(returned) + 1 = Len(plan.actions)
           /\ running' = {} /\ completed' = {"execution"} /\ outcome' = "RUNNING"
        \/ /\ Len(returned) + 1 < Len(plan.actions)
           /\ running' = {"execution"} /\ completed' = {} /\ outcome' = "RUNNING"
    BY <1>3, <2>1 DEF ExecuteNextAction, Complete, scheduleVars
  <2>6. Progress'
    BY <1>u, <2>1, <2>2, <2>4, <2>5 DEF Effecting, Current
  <2>7. ASSUME NEW i \in DOMAIN returned'
        PROVE  /\ i <= Len(plan.actions)
               /\ returned'[i].action = plan.actions[i]
               /\ returned'[i].status # "ROLLED_BACK"
    <3>1. CASE i \in DOMAIN returned
      <4>1. i <= Len(plan.actions)
        BY <1>u, <2>2, <3>1
      <4> QED BY <2>4, <3>1, <4>1 DEF EffectsFollowPlan
    <3>2. CASE i = Len(returned) + 1
      BY <1>u, <2>2, <2>3, <2>4, <3>2
    <3> QED BY <1>u, <2>4, <3>1, <3>2
  <2>8. EffectsFollowPlan'
    BY <1>u, <2>2, <2>4, <2>7 DEF EffectsFollowPlan
  <2> QED BY <2>6, <2>8
<1>4. ASSUME NEW assessment \in Assessment, Verification(assessment)
      PROVE  Progress' /\ EffectsFollowPlan'
  <2>1. /\ running = {"verification"} /\ completed = {} /\ outcome = "RUNNING"
        /\ running' = {} /\ completed' = {"verification"}
    BY <1>4, RunsAlone DEF Verification, Node, Analysts
  <2>2. /\ UNCHANGED plan
        /\ plan # None => Len(returned) = Len(plan.actions)
    BY <1>4, <2>1 DEF Verification
  <2>3. Progress'
    BY <2>1 DEF Effecting, Current
  <2>4. \A i \in DOMAIN returned : i <= Len(plan.actions) \/ plan = None
    BY <1>u, <2>2
  <2>5. CASE UNCHANGED returned
    BY <1>u, <2>2, <2>3, <2>4, <2>5 DEF EffectsFollowPlan
  <2>6. CASE NeedsRollback(assessment)
    <3>1. /\ plan # None /\ plan.actions # <<>> /\ stage' = "FAILED"
          /\ returned' = Append(returned, [action |-> plan.actions[Len(plan.actions)],
                                           status |-> "ROLLED_BACK"])
      BY <1>4, <2>6 DEF Verification, NeedsRollback, NothingToExecute, LastAction,
                        Runner!ExecuteRollback, Runner!Return
    <3>2. /\ DOMAIN returned' = 1 .. Len(returned) + 1
          /\ Len(returned') = Len(returned) + 1
          /\ \A i \in DOMAIN returned : returned'[i] = returned[i]
          /\ returned'[Len(returned) + 1] =
               [action |-> plan.actions[Len(plan.actions)], status |-> "ROLLED_BACK"]
      BY <3>1 DEF TypeOK, Runner!TypeOK
    <3>3. ASSUME NEW i \in DOMAIN returned
          PROVE  /\ i <= Len(plan.actions)
                 /\ returned'[i].action = plan.actions[i]
                 /\ returned'[i].status # "ROLLED_BACK"
      BY <2>4, <3>1, <3>2 DEF EffectsFollowPlan
    <3>4. ~(Len(returned) + 1 <= Len(plan.actions))
      BY <1>u, <2>2, <3>1
    <3>5. \A i \in DOMAIN returned' : i \in DOMAIN returned \/ i = Len(returned) + 1
      BY <1>u, <3>2
    <3> QED BY <1>u, <2>2, <2>3, <3>1, <3>2, <3>3, <3>4, <3>5 DEF EffectsFollowPlan
  <2> QED BY <1>4, <2>3, <2>5, <2>6 DEF Verification, runnerVars
<1>5. ASSUME UNCHANGED <<plan, runnerVars>>,
             stage' = stage \/ returned = <<>> \/ Len(returned) <= Len(plan.actions)
      PROVE  EffectsFollowPlan'
  BY <1>5, <1>u DEF EffectsFollowPlan, runnerVars
<1>6. ASSUME UNCHANGED <<plan, runnerVars>>,
             NEW a \in Analysts, NEW items \in Findings, Analyst(a, items)
      PROVE  Progress' /\ EffectsFollowPlan'
  <2>1. Current \subseteq Analysts /\ Current' = Current /\ outcome' = outcome
    BY <1>6, RunsWithAnalysts DEF Analyst, Complete, Current
  <2>2. stage' = stage
    BY <1>6 DEF Analyst
  <2> QED BY <1>5, <1>6, <2>1, <2>2 DEF Effecting, Current, Analysts, runnerVars
<1>7. ASSUME UNCHANGED <<plan, runnerVars>>,
             NEW n \in Node \ (Analysts \cup RemediationNode), SoloNode(n)
      PROVE  Progress' /\ EffectsFollowPlan'
  <2>1. /\ running = {n} /\ completed = {} /\ outcome = "RUNNING"
        /\ n \notin {"remediation_planning", "execution", "verification"}
        /\ running' = {} /\ completed' = {n} /\ outcome' = "RUNNING"
    BY <1>7, RunsAlone DEF SoloNode, RemediationNode
  <2>2. plan = None /\ returned = <<>>
    BY <2>1 DEF Effecting, Current
  <2> QED BY <1>5, <1>7, <2>1, <2>2 DEF runnerVars
<1>8. ASSUME UNCHANGED <<plan, runnerVars>>, NEW n \in Node, NodeRaises(n)
      PROVE  Progress' /\ EffectsFollowPlan'
  BY <1>5, <1>8 DEF NodeRaises, runnerVars
<1>9. ASSUME UNCHANGED <<plan, runnerVars>>, NextSuperstep
      PROVE  Progress' /\ EffectsFollowPlan'
  <2>1. /\ outcome = "RUNNING" /\ running = {} /\ running' = Scheduled
        /\ completed' = {} /\ Scheduled # {} /\ stage' = stage
    BY <1>9 DEF NextSuperstep, SuperstepDone
  <2>2. plan # None => "remediation_planning" \in completed \/ "execution" \in completed
    BY <2>1, RemediationOrder DEF Effecting, Current
  <2>3. returned # <<>> => "execution" \in completed
    BY <2>1, RemediationOrder DEF Effecting, Current
  <2>4. "execution" \in Scheduled => completed = {"remediation_planning"}
    BY RemediationOrder
  <2>5. "verification" \in Scheduled => "execution" \in completed
    BY RemediationOrder
  <2>6. /\ "remediation_planning" \in completed => Scheduled = {"execution"}
        /\ "execution" \in completed => Scheduled = {"verification"}
    BY RemediationOrder
  <2>7. Progress'
    BY <1>9, <2>1, <2>2, <2>3, <2>4, <2>5, <2>6 DEF Effecting, Current, runnerVars
  <2> QED BY <1>5, <1>9, <2>1, <2>7
<1>10. ASSUME UNCHANGED <<plan, runnerVars>>, Finish
      PROVE  Progress' /\ EffectsFollowPlan'
  BY <1>5, <1>10 DEF Finish, runnerVars, SuperstepDone
<1>11. CASE UNCHANGED vars
  BY <1>5, <1>11 DEF vars, scheduleVars, remediationVars, runnerVars, Effecting, Current
<1> QED BY <1>1, <1>2, <1>3, <1>4, <1>6, <1>7, <1>8, <1>9, <1>10, <1>11, QuietSteps

-----------------------------------------------------------------------------
(* The workflow drives its runner as ExecutionRunner allows. *)
LEMMA SameCalls ==
  /\ \A a : Runner!ExecuteAction(a, "OPERATOR") =>
              RunnerFacts!ExecuteAction(a, "OPERATOR")
  /\ \A a : Runner!ExecuteRollback(a, "OPERATOR") =>
              RunnerFacts!ExecuteRollback(a, "OPERATOR")
  /\ RunnerFacts!KeysAreSuccesses <=> Runner!KeysAreSuccesses
  /\ RunnerFacts!AtMostOnce <=> Runner!AtMostOnce
  /\ RunnerFacts!SuccessIsBacked <=> Runner!SuccessIsBacked
  /\ RunnerFacts!Init <=> Runner!Init
  /\ \A a : RunnerFacts!CallOf(a) = Runner!CallOf(a)
<1>1. ASSUME NEW a, Runner!ExecuteAction(a, "OPERATOR")
      PROVE  RunnerFacts!ExecuteAction(a, "OPERATOR")
  BY <1>1, SameRunner, Zenon
     DEF Runner!ExecuteAction, RunnerFacts!ExecuteAction, Runner!Return, RunnerFacts!Return
<1>2. ASSUME NEW a, Runner!ExecuteRollback(a, "OPERATOR")
      PROVE  RunnerFacts!ExecuteRollback(a, "OPERATOR")
  BY <1>2, SameRunner, Zenon
     DEF Runner!ExecuteRollback, RunnerFacts!ExecuteRollback,
         Runner!Return, RunnerFacts!Return
<1>3. RunnerFacts!KeysAreSuccesses <=> Runner!KeysAreSuccesses
  BY Zenon DEF RunnerFacts!KeysAreSuccesses, Runner!KeysAreSuccesses
<1>4. RunnerFacts!AtMostOnce <=> Runner!AtMostOnce
  BY Zenon DEF RunnerFacts!AtMostOnce, Runner!AtMostOnce
<1>5. RunnerFacts!SuccessIsBacked <=> Runner!SuccessIsBacked
  BY Zenon DEF RunnerFacts!SuccessIsBacked, Runner!SuccessIsBacked
<1>6. RunnerFacts!Init <=> Runner!Init
  BY DEF RunnerFacts!Init, Runner!Init
<1>7. \A a : RunnerFacts!CallOf(a) = Runner!CallOf(a)
  BY DEF RunnerFacts!CallOf, Runner!CallOf
<1> QED BY <1>1, <1>2, <1>3, <1>4, <1>5, <1>6, <1>7

(* Whatever the workflow does to the runner, the runner has an action for. *)
LEMMA RunnerStep == TypeOK /\ [Next]_vars => [RunnerFacts!Next]_(RunnerFacts!vars)
<1> SUFFICES ASSUME TypeOK, [Next]_vars PROVE [RunnerFacts!Next]_(RunnerFacts!vars)
  OBVIOUS
<1>1. ASSUME NEW a \in Runner!Action,
             \/ Runner!ExecuteAction(a, "OPERATOR")
             \/ Runner!ExecuteRollback(a, "OPERATOR")
      PROVE  RunnerFacts!Next
  BY <1>1, SameCalls, SameRunner, OperatorIsRole DEF RunnerFacts!Next
<1>2. CASE ExecuteNextAction
  <2>1. Len(returned) \in Nat
    BY Lengths
  <2>2. plan # None /\ Len(returned) + 1 \in 1 .. Len(plan.actions)
    BY <1>2, <2>1, PlannedActions DEF ExecuteNextAction, NothingToExecute
  <2> QED BY <1>1, <1>2, <2>2, PlannedActions DEF ExecuteNextAction
<1>3. ASSUME NEW assessment \in Assessment, Verification(assessment)
      PROVE  [RunnerFacts!Next]_(RunnerFacts!vars)
  <2>1. ASSUME NeedsRollback(assessment) PROVE RunnerFacts!Next
    <3>1. /\ plan # None /\ plan.actions # <<>>
          /\ Runner!ExecuteRollback(plan.actions[Len(plan.actions)], "OPERATOR")
      BY <1>3, <2>1 DEF Verification, NeedsRollback, LastAction, NothingToExecute
    <3>2. plan.actions[Len(plan.actions)] \in Runner!Action
      BY <3>1, PlannedActions
    <3> QED BY <1>1, <3>1, <3>2
  <2> QED BY <1>3, <2>1 DEF Verification, runnerVars, RunnerFacts!vars
<1>4. ASSUME UNCHANGED runnerVars PROVE UNCHANGED RunnerFacts!vars
  BY <1>4 DEF runnerVars, RunnerFacts!vars
<1>5. SkipExecution => UNCHANGED runnerVars
  BY DEF SkipExecution
<1>6. ASSUME NEW actions, RemediationPlanning(actions) PROVE UNCHANGED runnerVars
  BY <1>6 DEF RemediationPlanning
<1> QED BY <1>2, <1>3, <1>4, <1>5, <1>6, QuietSteps

LEMMA RunnerIInvStep ==
  RunnerFacts!IInv /\ TypeOK /\ [Next]_vars => RunnerFacts!IInv'
BY RunnerStep, RunnerAssumption, SameRunner, RunnerFacts!NextIInv

(* What a planned action's execution leaves behind, as far as the calls    *)
(* are concerned.                                                          *)
LEMMA PlannedKey ==
  ASSUME NEW a \in Runner!Action
  PROVE  a.key \in {NoKey, Runner!CallOf(a)}
BY DEF Runner!Action, Runner!IdempotencyKey, Runner!CallOf

LEMMA SameOutcome ==
  ASSUME NEW a, NEW status, Runner!Perform(a, "OPERATOR", status)
  PROVE  \/ /\ UNCHANGED <<executedKeys, dispatched>>
            /\ status = "SUCCESS" => a.key # NoKey /\ a.key \in executedKeys
         \/ /\ status \in {"SUCCESS", "FAILED"}
            /\ dispatched' = Append(dispatched,
                 [call |-> Runner!CallOf(a), key |-> a.key, status |-> status])
<1>1. RunnerFacts!Perform(a, "OPERATOR", status)
  BY SameRunner
<1>2. \/ /\ UNCHANGED <<executedKeys, dispatched>>
         /\ status = "SUCCESS" => a.key # NoKey /\ a.key \in executedKeys
      \/ /\ status \in {"SUCCESS", "FAILED"}
         /\ dispatched' = Append(dispatched,
              [call |-> RunnerFacts!CallOf(a), key |-> a.key, status |-> status])
  BY <1>1, RunnerAssumption, SameRunner, RunnerFacts!PerformOutcome
<1>3. RunnerFacts!CallOf(a) = Runner!CallOf(a)
  BY SameCalls
<1> QED BY <1>2, <1>3

(* A call that a tool received stays in the history, and at most one joins *)
(* it in a step.                                                           *)
LEMMA DispatchedGrows ==
  ASSUME Runner!TypeOK, NEW d, dispatched' = Append(dispatched, d)
  PROVE  /\ Len(dispatched) \in Nat /\ DOMAIN dispatched = 1 .. Len(dispatched)
         /\ DOMAIN dispatched' = 1 .. Len(dispatched) + 1
         /\ \A j \in DOMAIN dispatched : dispatched'[j] = dispatched[j]
         /\ dispatched'[Len(dispatched) + 1] = d
BY DEF Runner!TypeOK

(* The results so far are still applied when calls are only added.         *)
LEMMA AppliedStep ==
  ASSUME TypeOK, SuccessMeansApplied, NEW a, NEW status, Runner!Return(a, status),
         \A j \in DOMAIN dispatched :
           j \in DOMAIN dispatched' /\ dispatched'[j] = dispatched[j],
         status = "SUCCESS" =>
           \E j \in DOMAIN dispatched' : /\ dispatched'[j].status = "SUCCESS"
                                         /\ dispatched'[j].call = Runner!CallOf(a)
  PROVE  SuccessMeansApplied'
<1>1. /\ Len(returned) \in Nat /\ DOMAIN returned = 1 .. Len(returned)
      /\ DOMAIN returned' = 1 .. Len(returned) + 1
      /\ \A i \in DOMAIN returned : returned'[i] = returned[i]
      /\ returned'[Len(returned) + 1] = [action |-> a, status |-> status]
  BY DEF TypeOK, Runner!TypeOK, Runner!Return
<1>2. ASSUME NEW i \in DOMAIN returned', returned'[i].status = "SUCCESS"
      PROVE  \E j \in DOMAIN dispatched' :
               /\ dispatched'[j].status = "SUCCESS"
               /\ dispatched'[j].call = Runner!CallOf(returned'[i].action)
  <2>1. CASE i \in DOMAIN returned
    BY <1>1, <1>2, <2>1 DEF SuccessMeansApplied
  <2>2. CASE i = Len(returned) + 1
    BY <1>1, <1>2, <2>2
  <2> QED BY <1>1, <2>1, <2>2
<1> QED BY <1>2 DEF SuccessMeansApplied

(* The next planned action: a success is its own call's, also when the     *)
(* runner skipped it, since the key it found is the key of that very call. *)
LEMMA ExecutedIsApplied ==
  ASSUME TypeOK, KeysNameCalls, Runner!KeysAreSuccesses, SuccessMeansApplied,
         outcome = "RUNNING", "verification" \notin completed,
         NEW a \in Runner!Action, Runner!ExecuteAction(a, "OPERATOR")
  PROVE  /\ SuccessMeansApplied'
         /\ \A j \in DOMAIN dispatched' : dispatched'[j].key \in {NoKey, dispatched'[j].call}
<1>1. PICK status \in {"SUCCESS", "FAILED"} :
        Runner!Perform(a, "OPERATOR", status) /\ Runner!Return(a, status)
  BY DEF Runner!ExecuteAction
<1>2. \A j \in DOMAIN dispatched : dispatched[j].key \in {NoKey, dispatched[j].call}
  BY DEF KeysNameCalls
<1>3. CASE /\ UNCHANGED <<executedKeys, dispatched>>
           /\ status = "SUCCESS" => a.key # NoKey /\ a.key \in executedKeys
  <2>1. ASSUME status = "SUCCESS"
        PROVE  \E j \in DOMAIN dispatched : /\ dispatched[j].status = "SUCCESS"
                                            /\ dispatched[j].call = Runner!CallOf(a)
    <3>1. PICK j \in DOMAIN dispatched :
            /\ dispatched[j].status = "SUCCESS" /\ dispatched[j].key = a.key
            /\ a.key # NoKey
      BY <1>3, <2>1 DEF Runner!KeysAreSuccesses
    <3> QED BY <1>2, <3>1, PlannedKey
  <2> QED BY <1>1, <1>2, <1>3, <2>1, AppliedStep
<1>4. CASE dispatched' = Append(dispatched,
             [call |-> Runner!CallOf(a), key |-> a.key, status |-> status])
  <2>1. /\ Len(dispatched) \in Nat /\ DOMAIN dispatched = 1 .. Len(dispatched)
        /\ DOMAIN dispatched' = 1 .. Len(dispatched) + 1
        /\ \A j \in DOMAIN dispatched : dispatched'[j] = dispatched[j]
        /\ dispatched'[Len(dispatched) + 1] =
             [call |-> Runner!CallOf(a), key |-> a.key, status |-> status]
    BY <1>4, DispatchedGrows DEF TypeOK
  <2>2. \A j \in DOMAIN dispatched' : j \in DOMAIN dispatched \/ j = Len(dispatched) + 1
    BY <2>1
  <2>3. \A j \in DOMAIN dispatched :
          j \in DOMAIN dispatched' /\ dispatched'[j] = dispatched[j]
    BY <2>1
  <2>4. Len(dispatched) + 1 \in DOMAIN dispatched'
    BY <2>1
  <2>5. SuccessMeansApplied'
    BY <1>1, <2>1, <2>3, <2>4, AppliedStep
  <2> QED BY <1>2, <2>1, <2>2, <2>5, PlannedKey
<1> QED BY <1>1, <1>3, <1>4, SameOutcome

LEMMA AppliedSteps ==
  ASSUME TypeOK, Layered, Runner!KeysAreSuccesses, KeysNameCalls, SuccessMeansApplied,
         [Next]_vars
  PROVE  KeysNameCalls' /\ SuccessMeansApplied'
<1>1. CASE ExecuteNextAction
  <2>1. outcome = "RUNNING" /\ completed = {}
    BY <1>1, RunsAlone DEF ExecuteNextAction, Node, Analysts
  <2>2. plan # None /\ Len(returned) + 1 \in 1 .. Len(plan.actions)
    BY <1>1, Lengths DEF ExecuteNextAction, NothingToExecute
  <2>3. /\ plan.actions[Len(returned) + 1] \in Runner!Action
        /\ Runner!ExecuteAction(plan.actions[Len(returned) + 1], "OPERATOR")
    BY <1>1, <2>2, PlannedActions DEF ExecuteNextAction
  <2> QED BY <2>1, <2>3, ExecutedIsApplied DEF KeysNameCalls
<1>2. ASSUME NEW assessment \in Assessment, Verification(assessment)
      PROVE  KeysNameCalls' /\ SuccessMeansApplied'
  <2>1. "verification" \in completed'
    BY <1>2 DEF Verification, Complete
  <2>2. CASE UNCHANGED runnerVars
    BY <2>1, <2>2 DEF KeysNameCalls, SuccessMeansApplied, runnerVars
  <2>3. CASE Runner!ExecuteRollback(LastAction, "OPERATOR")
    <3>1. PICK status \in {"SUCCESS", "FAILED"} :
            Runner!Perform(Runner!Compensation(LastAction), "OPERATOR", status)
      BY <2>3 DEF Runner!ExecuteRollback
    <3>2. \A j \in DOMAIN dispatched :
            j \in DOMAIN dispatched' /\ dispatched'[j] = dispatched[j]
      <4>1. CASE UNCHANGED dispatched
        BY <4>1
      <4>2. ASSUME NEW d, dispatched' = Append(dispatched, d)
            PROVE  \A j \in DOMAIN dispatched :
                     j \in DOMAIN dispatched' /\ dispatched'[j] = dispatched[j]
        BY <4>2, DispatchedGrows DEF TypeOK
      <4> QED BY <3>1, <4>1, <4>2, SameOutcome
    <3>3. Runner!Return(LastAction, "ROLLED_BACK")
      BY <2>3 DEF Runner!ExecuteRollback
    <3> QED BY <2>1, <3>2, <3>3, AppliedStep DEF KeysNameCalls
  <2> QED BY <1>2, <2>2, <2>3 DEF Verification
<1>3. ASSUME UNCHANGED runnerVars,
             outcome' = "RUNNING" /\ "verification" \notin completed' =>
               outcome = "RUNNING" /\ "verification" \notin completed
      PROVE  KeysNameCalls' /\ SuccessMeansApplied'
  BY <1>3 DEF KeysNameCalls, SuccessMeansApplied, runnerVars
<1>4. ASSUME NEW actions \in ActionLists, RemediationPlanning(actions)
      PROVE  KeysNameCalls' /\ SuccessMeansApplied'
  BY <1>3, <1>4 DEF RemediationPlanning, Complete
<1>5. CASE SkipExecution
  BY <1>3, <1>5 DEF SkipExecution, Complete
<1>6. ASSUME UNCHANGED runnerVars, NEW a, NEW items, Analyst(a, items)
      PROVE  KeysNameCalls' /\ SuccessMeansApplied'
  BY <1>3, <1>6 DEF Analyst, Complete
<1>7. ASSUME UNCHANGED runnerVars, NEW n, SoloNode(n)
      PROVE  KeysNameCalls' /\ SuccessMeansApplied'
  BY <1>3, <1>7 DEF SoloNode, Complete, scheduleVars
<1>8. ASSUME UNCHANGED runnerVars, NEW n, NodeRaises(n)
      PROVE  KeysNameCalls' /\ SuccessMeansApplied'
  BY <1>3, <1>8 DEF NodeRaises
<1>9. ASSUME UNCHANGED runnerVars, NextSuperstep
      PROVE  KeysNameCalls' /\ SuccessMeansApplied'
  <2>1. "verification" \notin completed /\ outcome = "RUNNING"
    BY <1>9, RemediationOrder DEF NextSuperstep, SuperstepDone
  <2> QED BY <1>3, <1>9, <2>1
<1>10. ASSUME UNCHANGED runnerVars, Finish \/ UNCHANGED vars
       PROVE  KeysNameCalls' /\ SuccessMeansApplied'
  BY <1>3, <1>10 DEF Finish, vars, scheduleVars
<1> QED BY <1>1, <1>2, <1>4, <1>5, <1>6, <1>7, <1>8, <1>9, <1>10, QuietSteps

-----------------------------------------------------------------------------
LEMMA NextIInv == IInv /\ [Next]_vars => IInv'
BY NextTypeOK, LayeredStep, CountedStep, IteratedStep, ApprovalStep DEF IInv

LEMMA InductiveInvariant == Spec => []IInv
BY InitIInv, NextIInv, PTL DEF Spec

(* A plan is only ever made for the hypothesis that is selected, that the  *)
(* critic approved in that same round, and whose citations were collected. *)
THEOREM PlansAreGrounded == Spec => []GroundedPlan
<1>1. IInv => GroundedPlan
  <2> SUFFICES ASSUME IInv, plan # None PROVE GroundedPlan
    BY DEF GroundedPlan
  <2>1. Approved /\ plan.hypothesis = selected /\ selected = critique.about
    BY DEF IInv, Approval
  <2>2. critique = [decision |-> "APPROVE", about |-> critique.about]
    BY <2>1 DEF Approved, IInv, TypeOK, Critique
  <2> QED BY <2>1, <2>2 DEF IInv, Approval, GroundedPlan
<1> QED BY <1>1, InductiveInvariant, PTL

(* The evidence is never joined, analysed or judged while an analyst of    *)
(* the round has yet to report. *)
THEOREM NoAnalystMissing == Spec => []JoinSeesEveryAnalyst
<1>1. IInv => JoinSeesEveryAnalyst
  <2> SUFFICES ASSUME IInv,
                      NEW n \in {"join_evidence", "rca", "critic"} \cup RemediationNode,
                      n \in running
               PROVE  \A a \in Analysts : reports[a] = reports["supervisor"]
    BY DEF JoinSeesEveryAnalyst
  <2>1. running = {n} /\ completed = {} /\ outcome = "RUNNING"
    BY RunsAlone DEF IInv, Node, Analysts, RemediationNode
  <2> QED BY <2>1 DEF IInv, TypeOK, Counted, Behind, Analysts, RemediationNode
<1> QED BY <1>1, InductiveInvariant, PTL

(* However the models answer, the critic is consulted at most              *)
(* MaxIterations times. *)
THEOREM IterationBound == Spec => []IterationsBounded
<1>1. IInv => IterationsBounded
  BY DEF IInv, Iterated
<1> QED BY <1>1, InductiveInvariant, PTL
-----------------------------------------------------------------------------
(* The invariant of the remediation rests on that of the investigation.    *)
RemediationInv ==
  /\ IInv
  /\ EffectsFollowPlan /\ Progress
  /\ RunnerFacts!IInv
  /\ KeysNameCalls /\ SuccessMeansApplied

LEMMA InitRemediationInv == Init => RemediationInv
<1> SUFFICES ASSUME Init PROVE RemediationInv
  OBVIOUS
<1>1. /\ plan = None /\ returned = <<>> /\ dispatched = <<>>
      /\ running = {"supervisor"} /\ completed = {}
  BY DEF Init, Runner!Init
<1>2. EffectsFollowPlan /\ Progress /\ KeysNameCalls /\ SuccessMeansApplied
  BY <1>1 DEF EffectsFollowPlan, Progress, KeysNameCalls, SuccessMeansApplied
<1>3. RunnerFacts!IInv
  BY SameCalls, SameRunner, RunnerAssumption, RunnerFacts!InitIInv DEF Init
<1> QED BY <1>2, <1>3, InitIInv DEF RemediationInv

LEMMA NextRemediationInv == RemediationInv /\ [Next]_vars => RemediationInv'
<1> SUFFICES ASSUME RemediationInv, [Next]_vars PROVE RemediationInv'
  OBVIOUS
<1>1. TypeOK /\ Layered /\ Approval /\ Runner!KeysAreSuccesses
  BY SameCalls DEF RemediationInv, IInv, RunnerFacts!IInv
<1>2. IInv'
  BY NextIInv DEF RemediationInv
<1>3. EffectsFollowPlan' /\ Progress'
  BY <1>1, ProgressStep DEF RemediationInv
<1>4. RunnerFacts!IInv'
  BY <1>1, RunnerIInvStep DEF RemediationInv
<1>5. KeysNameCalls' /\ SuccessMeansApplied'
  BY <1>1, AppliedSteps DEF RemediationInv
<1> QED BY <1>2, <1>3, <1>4, <1>5 DEF RemediationInv

LEMMA RemediationInvariant == Spec => []RemediationInv
BY InitRemediationInv, NextRemediationInv, PTL DEF Spec

(* The tools are asked for the actions of the plan, in their order and     *)
(* each once, and after them at most for the compensation of the last.     *)
THEOREM PlanIsFollowed == Spec => []EffectsFollowPlan
<1>1. RemediationInv => EffectsFollowPlan
  BY DEF RemediationInv
<1> QED BY <1>1, RemediationInvariant, PTL

(* A success reported for a planned action means that its own call, and    *)
(* not only one that shares its key, was carried out with success.         *)
THEOREM SuccessIsApplied == Spec => []SuccessMeansApplied
<1>1. RemediationInv => SuccessMeansApplied
  BY DEF RemediationInv
<1> QED BY <1>1, RemediationInvariant, PTL

(* The workflow does nothing to its runner that ExecutionRunner would not, *)
(* so that what holds of the runner alone holds in every investigation.    *)
THEOREM WorkflowDrivesRunner == Spec => RunnerFacts!Spec
<1>1. Init => RunnerFacts!Init
  BY SameCalls DEF Init
<1> QED BY <1>1, RunnerStep, TypeCorrect, PTL DEF Spec, RunnerFacts!Spec

(* In a whole investigation too, no idempotency key has two successes.     *)
THEOREM WorkflowIsIdempotent == Spec => []Runner!AtMostOnce
<1>1. RemediationInv => Runner!AtMostOnce
  BY SameCalls DEF RemediationInv, RunnerFacts!IInv
<1> QED BY <1>1, RemediationInvariant, PTL

-----------------------------------------------------------------------------
(* The refinement of SafeRemediation. *)

(* The calls dispatched, the effects of the abstract specification. *)
Effects == [i \in DOMAIN dispatched |-> dispatched[i].call]

LEMMA InitRefines == Init => Abstract!Init
<1> SUFFICES ASSUME Init PROVE Abstract!Init
  OBVIOUS
<1>1. Effects = <<>>
  BY DEF Init, Runner!Init, Effects
<1> QED BY <1>1 DEF Init, Abstract!Init, ApprovedHypothesis, Effects

(* A call of the runner is an effect the proposal allows, or none.         *)
LEMMA EffectStep ==
  ASSUME Runner!TypeOK, NEW a, NEW status, Runner!Perform(a, "OPERATOR", status)
  PROVE  Effects' = Effects \/ Effects' = Append(Effects, Runner!CallOf(a))
<1>1. CASE UNCHANGED <<executedKeys, dispatched>>
  BY <1>1 DEF Effects
<1>2. CASE dispatched' = Append(dispatched,
             [call |-> Runner!CallOf(a), key |-> a.key, status |-> status])
  <2> DEFINE n == Len(dispatched)
             call == Runner!CallOf(a)
  <2>1. /\ n \in Nat /\ DOMAIN dispatched = 1 .. n
        /\ DOMAIN dispatched' = 1 .. n + 1
        /\ \A j \in DOMAIN dispatched : dispatched'[j] = dispatched[j]
        /\ dispatched'[n + 1].call = call
    BY <1>2, DispatchedGrows
  <2>2. Effects = [i \in 1 .. n |-> dispatched[i].call] /\ Len(Effects) = n
    BY <2>1 DEF Effects
  <2>3. Effects' = [i \in 1 .. n + 1 |-> dispatched'[i].call]
    BY <2>1 DEF Effects
  <2>4. Append(Effects, call) = [i \in 1 .. n + 1 |-> IF i = n + 1 THEN call ELSE Effects[i]]
    BY <2>2
  <2>5. \A i \in 1 .. n + 1 :
          dispatched'[i].call = IF i = n + 1 THEN call ELSE Effects[i]
    BY <2>1, <2>2
  <2> QED BY <2>3, <2>4, <2>5
<1> QED BY <1>1, <1>2, SameOutcome

(* Each step of the workflow is a step of SafeRemediation, or one it does  *)
(* not see.                                                                *)
LEMMA StepRefines == RemediationInv /\ [Next]_vars => [Abstract!Next]_(Abstract!vars)
<1> SUFFICES ASSUME RemediationInv, [Next]_vars
             PROVE  [Abstract!Next]_(Abstract!vars)
  OBVIOUS
<1>t. TypeOK /\ Layered /\ Approval /\ Progress
  BY DEF RemediationInv, IInv
<1>a. ASSUME UNCHANGED <<evidence, critique, plan, dispatched, outcome>>
      PROVE  UNCHANGED Abstract!vars
  BY <1>a DEF Abstract!vars, ApprovedHypothesis
<1>1. ASSUME NEW a \in Analysts, NEW items \in Findings, Analyst(a, items)
      PROVE  Abstract!Next
  <2>1. a \in running /\ Current \subseteq Analysts /\ outcome = "RUNNING"
    BY <1>t, <1>1, RunsWithAnalysts DEF Analyst
  <2>2. ~Approved
    BY <1>t, <2>1 DEF Approval, RemediationNode, Analysts, Current
  <2>3. /\ evidence' = evidence \cup items /\ items \in SUBSET EvidenceId
        /\ UNCHANGED <<critique, plan, dispatched, outcome>>
    BY <1>1, InputAssumption DEF Analyst, Complete, remediationVars, runnerVars
  <2>4. Abstract!Learn
    BY <2>2, <2>3 DEF Abstract!Learn, ApprovedHypothesis, Approved
  <2> QED BY <2>1, <2>4 DEF Abstract!Next
<1>2. ASSUME NEW hypotheses, NEW primary, Rca(hypotheses, primary)
      PROVE  UNCHANGED Abstract!vars
  BY <1>a, <1>2 DEF Rca, Complete, remediationVars, runnerVars
<1>3. ASSUME NEW decision \in Decision, Critic(decision)
      PROVE  [Abstract!Next]_(Abstract!vars)
  <2>1. running = {"critic"} /\ completed = {} /\ outcome = "RUNNING"
    BY <1>t, <1>3, RunsAlone DEF Critic, Node, Analysts
  <2>2. ~Approved
    BY <1>t, <2>1 DEF Approval, RemediationNode, Current
  <2>3. UNCHANGED <<evidence, plan, dispatched, outcome>>
    BY <1>3 DEF Critic, Complete, remediationVars, runnerVars
  <2>4. CASE UNCHANGED critique
    BY <1>a, <2>3, <2>4
  <2>5. CASE /\ selected # None
             /\ critique' = [decision |-> IF Fabricated(selected) # {}
                                          THEN "CHALLENGE" ELSE decision,
                             about |-> selected]
    <3>1. ApprovedHypothesis = None
      BY <2>2 DEF ApprovedHypothesis, Approved
    <3>2. CASE Approved'
      <4>1. ApprovedHypothesis' = selected /\ Fabricated(selected) = {}
        BY <2>5, <3>2 DEF Approved, ApprovedHypothesis
      <4>2. selected \in Hypothesis /\ selected.cites \subseteq evidence
        BY <1>t, <2>5, <4>1 DEF TypeOK, Fabricated
      <4>3. Abstract!Approve
        BY <2>3, <3>1, <4>1, <4>2 DEF Abstract!Approve
      <4> QED BY <2>1, <4>3 DEF Abstract!Next
    <3>3. CASE ~Approved'
      <4>1. ApprovedHypothesis' = None
        BY <3>3 DEF ApprovedHypothesis, Approved
      <4> QED BY <2>3, <3>1, <4>1 DEF Abstract!vars
    <3> QED BY <3>2, <3>3
  <2> QED BY <1>3, <2>4, <2>5 DEF Critic
<1>4. ASSUME NEW actions \in ActionLists, RemediationPlanning(actions)
      PROVE  [Abstract!Next]_(Abstract!vars)
  <2>1. running = {"remediation_planning"} /\ completed = {} /\ outcome = "RUNNING"
    BY <1>t, <1>4, RunsAlone DEF RemediationPlanning, Node, Analysts
  <2>2. Approved /\ selected = critique.about /\ plan = None
    BY <1>t, <2>1 DEF Approval, Progress, Effecting, RemediationNode, Current
  <2>3. UNCHANGED <<evidence, critique, dispatched, outcome>>
    BY <1>4 DEF RemediationPlanning, Complete, diagnosisVars, runnerVars
  <2>4. CASE UNCHANGED plan
    BY <1>a, <2>3, <2>4
  <2>5. CASE plan' = [hypothesis |-> selected, actions |-> actions] /\ selected # None
    <3>1. plan' # None
      <4>1. plan' \in Plan
        BY <1>t, <2>5 DEF TypeOK, Plan
      <4> QED BY <4>1, NoneAssumption
    <3>2. ApprovedHypothesis # None /\ ApprovedHypothesis' = ApprovedHypothesis
      BY <2>2, <2>3, <2>5 DEF ApprovedHypothesis, Approved
    <3>3. Abstract!Propose
      BY <2>2, <2>3, <2>5, <3>1, <3>2 DEF Abstract!Propose
    <3> QED BY <2>1, <3>3 DEF Abstract!Next
  <2> QED BY <1>4, <2>4, <2>5 DEF RemediationPlanning
<1>5. ASSUME outcome = "RUNNING", plan # None, NEW a, NEW status,
             Runner!Perform(a, "OPERATOR", status),
             Runner!CallOf(a) \in AllowedCalls(plan.actions),
             UNCHANGED <<evidence, critique, plan, outcome>>
      PROVE  [Abstract!Next]_(Abstract!vars)
  <2>1. Effects' = Effects \/ Effects' = Append(Effects, Runner!CallOf(a))
    BY <1>t, <1>5, EffectStep DEF TypeOK
  <2>2. plan.actions # None
    BY <1>t, <1>5, NoneAssumption DEF TypeOK, Plan
  <2>3. CASE Effects' = Effects
    BY <1>5, <2>3 DEF Abstract!vars, Effects, ApprovedHypothesis
  <2>4. CASE Effects' = Append(Effects, Runner!CallOf(a))
    <3>1. Abstract!Act
      BY <1>5, <2>2, <2>4 DEF Abstract!Act, Effects, ApprovedHypothesis
    <3> QED BY <1>5, <3>1 DEF Abstract!Next
  <2> QED BY <2>1, <2>3, <2>4
<1>6. CASE ExecuteNextAction
  <2>1. outcome = "RUNNING"
    BY <1>t, <1>6, RunsAlone DEF ExecuteNextAction, Node, Analysts
  <2>2. plan # None /\ Len(returned) + 1 \in 1 .. Len(plan.actions)
    BY <1>t, <1>6, Lengths DEF ExecuteNextAction, NothingToExecute
  <2> DEFINE a == plan.actions[Len(returned) + 1]
  <2>3. PICK status \in {"SUCCESS", "FAILED"} : Runner!Perform(a, "OPERATOR", status)
    BY <1>6 DEF ExecuteNextAction, Runner!ExecuteAction
  <2>4. Runner!CallOf(a) \in AllowedCalls(plan.actions)
    <3>1. DOMAIN plan.actions = 1 .. Len(plan.actions)
      BY <1>t, <2>2, PlannedActions
    <3> QED BY <2>2, <3>1 DEF AllowedCalls
  <2>5. UNCHANGED <<evidence, critique, plan, outcome>>
    BY <1>6 DEF ExecuteNextAction, Complete, scheduleVars, diagnosisVars, remediationVars
  <2> QED BY <1>5, <2>1, <2>2, <2>3, <2>4, <2>5
<1>7. ASSUME NEW assessment \in Assessment, Verification(assessment)
      PROVE  [Abstract!Next]_(Abstract!vars)
  <2>1. outcome = "RUNNING"
    BY <1>t, <1>7, RunsAlone DEF Verification, Node, Analysts
  <2>2. UNCHANGED <<evidence, critique, plan, outcome>>
    BY <1>7 DEF Verification, Complete, diagnosisVars
  <2>3. CASE UNCHANGED runnerVars
    BY <1>a, <2>2, <2>3 DEF runnerVars
  <2>4. CASE NeedsRollback(assessment)
    <3>1. plan # None /\ plan.actions # <<>>
      BY <2>4 DEF NeedsRollback, NothingToExecute
    <3>2. PICK status \in {"SUCCESS", "FAILED"} :
            Runner!Perform(Runner!Compensation(LastAction), "OPERATOR", status)
      BY <1>7, <2>4 DEF Verification, Runner!ExecuteRollback
    <3>3. Runner!CallOf(Runner!Compensation(LastAction)) \in AllowedCalls(plan.actions)
      BY <3>1 DEF AllowedCalls, LastAction
    <3> QED BY <1>5, <2>1, <2>2, <3>1, <3>2, <3>3
  <2> QED BY <1>7, <2>3, <2>4 DEF Verification
<1>8. ASSUME outcome = "RUNNING", outcome' # "RUNNING",
             UNCHANGED <<evidence, critique, plan, dispatched>>
      PROVE  Abstract!Next
  BY <1>8 DEF Abstract!Next, Abstract!Close, ApprovedHypothesis
<1>9. ASSUME NEW n \in Node, NodeRaises(n) PROVE Abstract!Next
  <2>1. outcome = "RUNNING"
    BY <1>t, <1>9 DEF NodeRaises, Layered
  <2> QED BY <1>8, <1>9, <2>1 DEF NodeRaises, diagnosisVars, remediationVars, runnerVars
<1>10. CASE NextSuperstep
  BY <1>a, <1>10 DEF NextSuperstep, diagnosisVars, remediationVars, runnerVars
<1>11. CASE Finish
  BY <1>8, <1>11 DEF Finish, SuperstepDone, diagnosisVars, remediationVars, runnerVars
<1>12. CASE Supervisor \/ JoinEvidence \/ SkipExecution
  BY <1>a, <1>12 DEF Supervisor, JoinEvidence, SkipExecution, Complete,
                     diagnosisVars, remediationVars, runnerVars
<1>13. CASE UNCHANGED vars
  BY <1>a, <1>13 DEF vars, scheduleVars, diagnosisVars, remediationVars, runnerVars
<1> QED BY <1>1, <1>2, <1>3, <1>4, <1>6, <1>7, <1>9, <1>10, <1>11, <1>12, <1>13
        DEF Next, NodeStep

(* The workflow implements SafeRemediation: one diagnosis, approved on     *)
(* facts that were collected, one proposal for it, and no effect on the    *)
(* systems but a call of the proposal or the compensation of its last.     *)
THEOREM WorkflowIsSafe == Spec => ImplementsSafeRemediation
BY InitRefines, StepRefines, RemediationInvariant, PTL
   DEF Spec, ImplementsSafeRemediation, Abstract!Spec
=============================================================================
