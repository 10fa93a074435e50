--------------------------- MODULE IncidentWorkflow ---------------------------
(***************************************************************************)
(* The investigation of one incident: the LangGraph state machine of       *)
(* src/orchestration/graph.py over the IncidentState of                    *)
(* src/domain/state.py, with the agents of src/agents as its nodes.        *)
(*                                                                         *)
(* LangGraph runs the graph in supersteps: all nodes scheduled for one run *)
(* concurrently, and when the last has completed their successors are      *)
(* scheduled for the next.  A node whose agent raises aborts the run; so   *)
(* does a superstep beyond RecursionLimit.                                 *)
(*                                                                         *)
(* What a language model answers is chosen from constant sets.  Evidence   *)
(* is known by its id and a hypothesis by its id and the ids it cites.     *)
(***************************************************************************)
EXTENDS Naturals, Sequences

CONSTANTS
  EvidenceId,      (* ids a model may give, or cite, as evidence           *)
  HypothesisId,
  Findings,        (* the sets of evidence ids one analyst may report      *)
  Diagnoses,       (* the lists of hypotheses the RCA agent may return     *)
  ActionId, Params, Revert, TargetOnly, NoKey,   (* see ExecutionRunner    *)
  ActionLists,     (* the lists of assessed actions a plan may hold        *)
  MaxIterations,   (* IncidentState.max_iterations                         *)
  RecursionLimit,  (* LangGraph's limit on supersteps                      *)
  None             (* Python's None                                        *)

VARIABLES
  running,       (* nodes of this superstep that have not completed        *)
  completed,     (* nodes of this superstep that have                      *)
  superstep,     (* number of the current superstep                        *)
  outcome,       (* how the graph run ended, "RUNNING" until then          *)
  stage,         (* current_stage                                          *)
  evidence,      (* the ids of the evidence collected                      *)
  selected,      (* selected_hypothesis                                    *)
  critique,      (* critique, with the hypothesis it was about             *)
  iteration,     (* iteration_count                                        *)
  plan,          (* remediation_plan                                       *)
  verification,  (* verification                                           *)
  reports,       (* history: how often each first-line node has completed  *)
  executedKeys, dispatched, returned   (* the ExecutionRunner of this run  *)

Runner == INSTANCE ExecutionRunner

diagnosisVars == <<evidence, selected, critique, iteration>>
remediationVars == <<plan, verification>>
runnerVars == <<executedKeys, dispatched, returned>>
scheduleVars == <<running, completed, superstep, outcome>>
vars == <<scheduleVars, stage, diagnosisVars, remediationVars, reports, runnerVars>>

Hypothesis == [id : HypothesisId, cites : SUBSET EvidenceId]
Decision == {"APPROVE", "CHALLENGE", "NEEDS_MORE_EVIDENCE"}
Critique == [decision : Decision, about : Hypothesis]
Plan == [hypothesis : Hypothesis, actions : ActionLists]
RecoveryStatus == {"RECOVERED", "PARTIALLY_RECOVERED", "UNCHANGED", "DEGRADED"}
Assessment == [status : RecoveryStatus, rollback : BOOLEAN]

Analysts == {"log_analyst", "metrics_analyst", "code_analyst", "memory_analyst"}
Node == Analysts \cup {"supervisor", "join_evidence", "rca", "critic",
                       "remediation_planning", "execution", "verification"}

ASSUME InputAssumption ==
  /\ Findings \subseteq SUBSET EvidenceId
  /\ Diagnoses \subseteq Seq(Hypothesis)
  /\ ActionLists \subseteq Seq(Runner!Action)

ASSUME RunnerAssumption ==
  /\ Revert \in [Params -> Params] /\ TargetOnly \in [Params -> Params]
  /\ NoKey \notin Runner!Key

ASSUME NoneAssumption ==
  None \notin Hypothesis \cup Critique \cup Plan \cup Assessment \cup ActionLists

ASSUME LimitAssumption ==
  MaxIterations \in Nat \ {0} /\ RecursionLimit \in Nat \ {0}

-----------------------------------------------------------------------------
(* Faulty routes out of the critic: one round too many, and a challenged   *)
(* hypothesis that is planned for as if it were approved.                  *)
RouteOneRoundMore ==
  IF /\ critique # None /\ critique.decision = "NEEDS_MORE_EVIDENCE"
     /\ iteration <= MaxIterations
  THEN {"supervisor"}
  ELSE IF critique # None /\ critique.decision = "APPROVE"
  THEN {"remediation_planning"}
  ELSE {}

RouteChallengedToPlanning ==
  IF critique # None /\ critique.decision = "NEEDS_MORE_EVIDENCE"
  THEN IF iteration < MaxIterations THEN {"supervisor"} ELSE {}
  ELSE {"remediation_planning"}

(* The conditional edges out of the critic. *)
RouteCriticDecision ==
  IF /\ critique # None /\ critique.decision = "NEEDS_MORE_EVIDENCE"
     /\ iteration < MaxIterations
  THEN {"supervisor"}
  ELSE IF critique # None /\ critique.decision = "APPROVE"
  THEN {"remediation_planning"}
  ELSE {}

(* Faulty edges: the supervisor does not fan out to the memory analyst. *)
EdgesWithoutMemory ==
  [n \in Node |->
     CASE n = "supervisor" -> Analysts \ {"memory_analyst"}
       [] n \in Analysts -> {"join_evidence"}
       [] n = "join_evidence" -> {"rca"}
       [] n = "rca" -> {"critic"}
       [] n = "remediation_planning" -> {"execution"}
       [] n = "execution" -> {"verification"}
       [] OTHER -> {}]

(* The other edges of build_graph. *)
StaticEdges ==
  [n \in Node |->
     CASE n = "supervisor" -> Analysts
       [] n \in Analysts -> {"join_evidence"}
       [] n = "join_evidence" -> {"rca"}
       [] n = "rca" -> {"critic"}
       [] n = "remediation_planning" -> {"execution"}
       [] n = "execution" -> {"verification"}
       [] OTHER -> {}]

Successors(n) == IF n = "critic" THEN RouteCriticDecision ELSE StaticEdges[n]

Complete(n) ==
  /\ running' = running \ {n}
  /\ completed' = completed \cup {n}
  /\ UNCHANGED <<superstep, outcome>>

Count(n) == reports' = [reports EXCEPT ![n] = @ + 1]

-----------------------------------------------------------------------------
Supervisor ==
  /\ "supervisor" \in running
  /\ stage' = "PLANNING"
  /\ Count("supervisor")
  /\ Complete("supervisor")
  /\ UNCHANGED <<diagnosisVars, remediationVars, runnerVars>>

(* An analyst adds the evidence its model extracted from the tools' data. *)
Analyst(a, items) ==
  /\ a \in running
  /\ evidence' = evidence \cup items
  /\ Count(a)
  /\ Complete(a)
  /\ UNCHANGED <<stage, selected, critique, iteration, remediationVars, runnerVars>>

JoinEvidence ==
  /\ "join_evidence" \in running
  /\ stage' = "INVESTIGATING"
  /\ Complete("join_evidence")
  /\ UNCHANGED <<diagnosisVars, remediationVars, reports, runnerVars>>

(* h is the first hypothesis with the primary id, the first one of the     *)
(* list when none has it, None when the list is empty.                     *)
Selects(hypotheses, primary, h) ==
  \/ hypotheses = <<>> /\ h = None
  \/ \E i \in DOMAIN hypotheses :
       /\ h = hypotheses[i]
       /\ \/ /\ h.id = primary
             /\ \A j \in DOMAIN hypotheses : j < i => hypotheses[j].id # primary
          \/ /\ i = 1
             /\ \A j \in DOMAIN hypotheses : hypotheses[j].id # primary

Rca(hypotheses, primary) ==
  /\ "rca" \in running
  /\ \E h \in Hypothesis \cup {None} :
       Selects(hypotheses, primary, h) /\ selected' = h
  /\ stage' = "ANALYZING"
  /\ Complete("rca")
  /\ UNCHANGED <<evidence, critique, iteration, remediationVars, reports, runnerVars>>

(* A faulty check: one known citation excuses the others. *)
AllFabricated(h) == IF h.cites \cap evidence = {} THEN h.cites ELSE {}

(* The cited ids that no collected evidence has. *)
Fabricated(h) == h.cites \ evidence

(* A hypothesis that cites unknown evidence is challenged without asking   *)
(* the model.  Without a hypothesis, critique and count stay as they are.  *)
Critic(decision) ==
  /\ "critic" \in running
  /\ \/ selected = None /\ UNCHANGED <<critique, iteration>>
     \/ /\ selected # None
        /\ critique' = [decision |-> IF Fabricated(selected) # {}
                                     THEN "CHALLENGE" ELSE decision,
                        about |-> selected]
        /\ iteration' = iteration + 1
  /\ stage' = "CRITIQUING"
  /\ Complete("critic")
  /\ UNCHANGED <<evidence, selected, remediationVars, reports, runnerVars>>

RemediationPlanning(actions) ==
  /\ "remediation_planning" \in running
  /\ \/ selected = None /\ stage' = "FAILED" /\ UNCHANGED plan
     \/ /\ selected # None
        /\ stage' = "REMEDIATION_PLANNING"
        /\ plan' = [hypothesis |-> selected, actions |-> actions]
  /\ Complete("remediation_planning")
  /\ UNCHANGED <<diagnosisVars, verification, reports, runnerVars>>

NothingToExecute == plan = None \/ (plan # None /\ plan.actions = <<>>)

SkipExecution ==
  /\ "execution" \in running
  /\ NothingToExecute
  /\ stage' = "FAILED"
  /\ Complete("execution")
  /\ UNCHANGED <<diagnosisVars, remediationVars, reports, runnerVars>>

(* The node awaits the plan's actions one after the other, whatever each   *)
(* returns, and completes when the last one has.                           *)
ExecuteNextAction ==
  /\ "execution" \in running
  /\ ~NothingToExecute
  /\ Runner!ExecuteAction(plan.actions[Len(returned) + 1], "OPERATOR")
  /\ \/ /\ Len(returned) + 1 = Len(plan.actions)
        /\ stage' = "EXECUTING"
        /\ Complete("execution")
     \/ /\ Len(returned) + 1 < Len(plan.actions)
        /\ UNCHANGED <<stage, scheduleVars>>
  /\ UNCHANGED <<diagnosisVars, remediationVars, reports>>

(* A faulty choice of what to compensate. *)
FirstAction == plan.actions[1]

LastAction == plan.actions[Len(plan.actions)]

NeedsRollback(assessment) == assessment.rollback /\ ~NothingToExecute

(* The verdict on the recovery, and the compensation of the last action    *)
(* that the model may ask for with it.                                     *)
Verification(assessment) ==
  /\ "verification" \in running
  /\ verification' = assessment
  /\ \/ /\ NeedsRollback(assessment)
        /\ Runner!ExecuteRollback(LastAction, "OPERATOR")
        /\ stage' = "FAILED"
     \/ /\ ~NeedsRollback(assessment)
        /\ UNCHANGED runnerVars
        /\ stage' = IF assessment.status = "RECOVERED"
                    THEN "RESOLVED" ELSE "INVESTIGATING"
  /\ Complete("verification")
  /\ UNCHANGED <<diagnosisVars, plan, reports>>

-----------------------------------------------------------------------------
(* The nodes whose agent asks a model, and can therefore raise. *)
AsksModel(n) ==
  \/ n \in Analysts \cup {"supervisor", "rca", "verification"}
  \/ n = "critic" /\ selected # None /\ Fabricated(selected) = {}
  \/ n = "remediation_planning" /\ selected # None

(* The router's providers are exhausted: the run ends with an exception    *)
(* and the other nodes of the superstep are cancelled.                     *)
NodeRaises(n) ==
  /\ n \in running
  /\ AsksModel(n)
  /\ outcome' = "ERROR"
  /\ running' = {}
  /\ UNCHANGED <<completed, superstep, stage, diagnosisVars, remediationVars,
                 reports, runnerVars>>

Scheduled == UNION {Successors(n) : n \in completed}

SuperstepDone == outcome = "RUNNING" /\ running = {}

(* Faulty schedulers: one without a limit, one that stalls at it. *)
NextSuperstepUnlimited ==
  /\ SuperstepDone
  /\ Scheduled # {}
  /\ running' = Scheduled
  /\ completed' = {}
  /\ superstep' = superstep + 1
  /\ UNCHANGED <<outcome, stage, diagnosisVars, remediationVars, reports, runnerVars>>

FinishOnlyAtEnd ==
  /\ SuperstepDone
  /\ Scheduled = {}
  /\ outcome' = "END"
  /\ UNCHANGED <<running, completed, superstep, stage, diagnosisVars,
                 remediationVars, reports, runnerVars>>

(* LangGraph starts the next superstep, ends the run, or gives it up. *)
NextSuperstep ==
  /\ SuperstepDone
  /\ Scheduled # {}
  /\ superstep < RecursionLimit
  /\ running' = Scheduled
  /\ completed' = {}
  /\ superstep' = superstep + 1
  /\ UNCHANGED <<outcome, stage, diagnosisVars, remediationVars, reports, runnerVars>>

Finish ==
  /\ SuperstepDone
  /\ \/ Scheduled = {} /\ outcome' = "END"
     \/ Scheduled # {} /\ superstep = RecursionLimit /\ outcome' = "ERROR"
  /\ UNCHANGED <<running, completed, superstep, stage, diagnosisVars,
                 remediationVars, reports, runnerVars>>

-----------------------------------------------------------------------------
Init ==
  /\ running = {"supervisor"}
  /\ completed = {}
  /\ superstep = 1
  /\ outcome = "RUNNING"
  /\ stage = "CREATED"
  /\ evidence = {}
  /\ selected = None
  /\ critique = None
  /\ iteration = 0
  /\ plan = None
  /\ verification = None
  /\ reports = [n \in Analysts \cup {"supervisor"} |-> 0]
  /\ Runner!Init

NodeStep ==
  \/ Supervisor
  \/ \E a \in Analysts, items \in Findings : Analyst(a, items)
  \/ JoinEvidence
  \/ \E hypotheses \in Diagnoses, primary \in HypothesisId : Rca(hypotheses, primary)
  \/ \E decision \in Decision : Critic(decision)
  \/ \E actions \in ActionLists : RemediationPlanning(actions)
  \/ SkipExecution
  \/ ExecuteNextAction
  \/ \E assessment \in Assessment : Verification(assessment)

Next ==
  \/ NodeStep
  \/ \E n \in Node : NodeRaises(n)
  \/ NextSuperstep
  \/ Finish

Spec == Init /\ [][Next]_vars

-----------------------------------------------------------------------------
RemediationNode == {"remediation_planning", "execution", "verification"}
Stage == {"CREATED", "PLANNING", "INVESTIGATING", "ANALYZING", "CRITIQUING",
          "REMEDIATION_PLANNING", "EXECUTING", "RESOLVED", "FAILED"}

(* Type invariant. *)
TypeOK ==
  /\ running \subseteq Node
  /\ completed \subseteq Node
  /\ superstep \in 1 .. RecursionLimit
  /\ outcome \in {"RUNNING", "END", "ERROR"}
  /\ stage \in Stage
  /\ evidence \subseteq EvidenceId
  /\ selected \in Hypothesis \cup {None}
  /\ critique \in Critique \cup {None}
  /\ iteration \in Nat
  /\ plan \in Plan \cup {None}
  /\ verification \in Assessment \cup {None}
  /\ reports \in [Analysts \cup {"supervisor"} -> Nat]
  /\ Runner!TypeOK

(* A plan exists only for the hypothesis that is still the selected one,   *)
(* that the critic has approved, and not an earlier one of another round,  *)
(* and that cites only evidence the analysts collected.                    *)
GroundedPlan ==
  plan # None =>
    /\ selected = plan.hypothesis
    /\ critique = [decision |-> "APPROVE", about |-> plan.hypothesis]
    /\ plan.hypothesis.cites \subseteq evidence

(* The evidence is joined, and judged, only when each of the four analysts *)
(* has reported in every round: no branch is late or skipped.              *)
JoinSeesEveryAnalyst ==
  running \cap ({"join_evidence", "rca", "critic"} \cup RemediationNode) # {} =>
    \A a \in Analysts : reports[a] = reports["supervisor"]

(* The critic's model is consulted at most MaxIterations times and never   *)
(* more often than the incident was investigated.                          *)
IterationsBounded ==
  iteration <= MaxIterations /\ iteration <= reports["supervisor"]

(* The runner is handed the actions of the plan in their order and each    *)
(* one once; after them only the last may be rolled back, and an incident  *)
(* that was rolled back is never anything but FAILED again.                *)
EffectsFollowPlan ==
  /\ plan = None => returned = <<>>
  /\ plan # None => Len(returned) <= Len(plan.actions) + 1
  /\ \A i \in DOMAIN returned :
       IF i <= Len(plan.actions)
       THEN /\ returned[i].action = plan.actions[i]
            /\ returned[i].status # "ROLLED_BACK"
       ELSE /\ returned[i].action = plan.actions[Len(plan.actions)]
            /\ returned[i].status = "ROLLED_BACK"
            /\ stage = "FAILED"

(* An action reported as a success, be it as skipped, had exactly its call *)
(* carried out with success by a tool.                                     *)
SuccessMeansApplied ==
  \A i \in DOMAIN returned :
    returned[i].status = "SUCCESS" =>
      \E j \in DOMAIN dispatched :
        /\ dispatched[j].status = "SUCCESS"
        /\ dispatched[j].call = Runner!CallOf(returned[i].action)

-----------------------------------------------------------------------------
ApprovedHypothesis ==
  IF critique # None /\ critique.decision = "APPROVE" THEN critique.about ELSE None

AllowedCalls(actions) ==
  {Runner!CallOf(actions[i]) : i \in DOMAIN actions}
    \cup (IF actions = <<>> THEN {}
          ELSE {Runner!CallOf(Runner!Compensation(actions[Len(actions)]))})

Abstract == INSTANCE SafeRemediation WITH
  Fact <- EvidenceId, Diagnosis <- Hypothesis, Proposal <- ActionLists,
  Allowed <- AllowedCalls, None <- None,
  facts <- evidence,
  approved <- ApprovedHypothesis,
  proposal <- IF plan = None THEN None ELSE plan.actions,
  effects <- [i \in DOMAIN dispatched |-> dispatched[i].call],
  closed <- outcome # "RUNNING"

(* The workflow keeps the promise of SafeRemediation: one grounded         *)
(* diagnosis, one proposal, and no effect outside that proposal.           *)
ImplementsSafeRemediation == Abstract!Spec

-----------------------------------------------------------------------------
(* What the generated postmortem says of every resolved incident, that the *)
(* remediation was executed: some action of the plan succeeded.            *)
ResolvedMeansRemediated ==
  stage = "RESOLVED" =>
    \E i \in DOMAIN returned : returned[i].status = "SUCCESS"

(* What the architecture document says of the loop back to the supervisor: *)
(* it is taken only in fewer than MaxIterations loops.                     *)
RoundsBounded == reports["supervisor"] <= MaxIterations
=============================================================================
