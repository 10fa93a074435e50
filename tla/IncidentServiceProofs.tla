------------------------ MODULE IncidentServiceProofs ------------------------
(***************************************************************************)
(* Proofs about IncidentService: it runs the workflow as IncidentWorkflow  *)
(* specifies it, whatever it does with the outputs, so that what is proved *)
(* of the workflow holds in the service; decisions stand; and the record   *)
(* the service keeps of an incident is the graph's, for all it merges,     *)
(* announces and authorizes.                                               *)
(***************************************************************************)
EXTENDS IncidentService, IncidentWorkflowProofs

(* Streaming a node's output does not change what the node does. *)
LEMMA StreamedStep == GraphStep => Next
<1>1. StreamNode => NodeStep
  BY DEF StreamNode, NodeStep
<1>2. StreamRaises => \E n \in Node : NodeRaises(n)
  BY DEF StreamRaises
<1>3. EndSuperstep => NextSuperstep \/ Finish
  BY DEF EndSuperstep
<1> QED BY <1>1, <1>2, <1>3 DEF GraphStep, Next

(* Every step of the service is a step of the workflow or leaves it alone. *)
LEMMA ServiceStep == [ServiceNext]_allVars => [Next]_vars
<1> SUFFICES ASSUME [ServiceNext]_allVars PROVE [Next]_vars
  OBVIOUS
<1>1. CASE CreateIncident
  BY <1>1 DEF CreateIncident
<1>2. CASE InvestigationStep
  BY <1>2, StreamedStep
     DEF InvestigationStep, StartInvestigation, MergeChunk, EndStream,
         IndexReport, FailInvestigation
<1>3. ASSUME NEW id \in ActionId, NEW submission \in Submissions,
             SubmitApproval(id, submission)
      PROVE  [Next]_vars
  BY <1>3 DEF SubmitApproval, Decide
<1>4. ASSUME NEW id \in ActionId, PublishDecision(id)
      PROVE  [Next]_vars
  BY <1>4 DEF PublishDecision
<1>5. CASE UNCHANGED allVars
  BY <1>5 DEF allVars
<1> QED BY <1>1, <1>2, <1>3, <1>4, <1>5 DEF ServiceNext

(* The service implements the workflow: mirroring, announcing and          *)
(* approving add no behaviour to the graph's.                              *)
THEOREM ServiceRunsWorkflow == ServiceSpec => Spec
<1>1. ServiceInit => Init
  BY DEF ServiceInit
<1> QED BY <1>1, ServiceStep, PTL DEF ServiceSpec, Spec

(* In the running service too, a plan is only made for an approved         *)
(* hypothesis whose citations were collected.                              *)
THEOREM ServicePlansAreGrounded == ServiceSpec => []GroundedPlan
BY ServiceRunsWorkflow, PlansAreGrounded, PTL

-----------------------------------------------------------------------------
DecisionRecord == [action : ActionId, decision : Choice, role : Policy!ApproverRole]

(* There is at most one decision on an action. *)
DecidedOnce ==
  /\ decisions \in Seq(DecisionRecord)
  /\ \A i, j \in DOMAIN decisions : decisions[i].action = decisions[j].action => i = j

(* A decision is appended, and only on an action that had none. *)
LEMMA DecideSteps ==
  [ServiceNext]_allVars =>
    \/ UNCHANGED decisions
    \/ \E id \in ActionId, submission \in Submissions :
         /\ DecisionsOn(id) = {}
         /\ decisions' = Append(decisions, [action |-> id,
              decision |-> submission.decision, role |-> submission.role])
<1> SUFFICES ASSUME [ServiceNext]_allVars
             PROVE  \/ UNCHANGED decisions
                    \/ \E id \in ActionId, submission \in Submissions :
                         /\ DecisionsOn(id) = {}
                         /\ decisions' = Append(decisions, [action |-> id,
                              decision |-> submission.decision, role |-> submission.role])
  OBVIOUS
<1>1. CASE CreateIncident
  BY <1>1 DEF CreateIncident
<1>2. CASE InvestigationStep
  BY <1>2 DEF InvestigationStep, StartInvestigation, GraphStep, MergeChunk,
              EndStream, IndexReport, FailInvestigation
<1>3. ASSUME NEW id \in ActionId, NEW submission \in Submissions,
             SubmitApproval(id, submission)
      PROVE  /\ DecisionsOn(id) = {}
             /\ decisions' = Append(decisions, [action |-> id,
                  decision |-> submission.decision, role |-> submission.role])
  BY <1>3 DEF SubmitApproval, Decide
<1>4. ASSUME NEW id \in ActionId, PublishDecision(id)
      PROVE  UNCHANGED decisions
  BY <1>4 DEF PublishDecision
<1>5. CASE UNCHANGED allVars
  BY <1>5 DEF allVars, serviceVars
<1> QED BY <1>1, <1>2, <1>3, <1>4, <1>5 DEF ServiceNext

LEMMA SubmittedRecord ==
  ASSUME NEW id \in ActionId, NEW submission \in Submissions
  PROVE  [action |-> id, decision |-> submission.decision, role |-> submission.role]
           \in DecisionRecord
BY SubmissionAssumption DEF DecisionRecord

LEMMA DecidedOnceStep == DecidedOnce /\ [ServiceNext]_allVars => DecidedOnce'
<1> SUFFICES ASSUME DecidedOnce, [ServiceNext]_allVars PROVE DecidedOnce'
  OBVIOUS
<1>1. CASE UNCHANGED decisions
  BY <1>1 DEF DecidedOnce
<1>2. ASSUME NEW id \in ActionId, NEW d \in DecisionRecord, d.action = id,
             DecisionsOn(id) = {}, decisions' = Append(decisions, d)
      PROVE  DecidedOnce'
  <2>1. /\ DOMAIN decisions = 1 .. Len(decisions) /\ Len(decisions) \in Nat
        /\ DOMAIN decisions' = 1 .. Len(decisions) + 1
        /\ \A i \in DOMAIN decisions : decisions'[i] = decisions[i]
        /\ decisions'[Len(decisions) + 1] = d
    BY <1>2 DEF DecidedOnce
  <2>2. decisions' \in Seq(DecisionRecord)
    BY <1>2 DEF DecidedOnce
  <2>3. \A i \in DOMAIN decisions : decisions[i].action # id
    BY <1>2 DEF DecisionsOn
  <2>4. ASSUME NEW i \in DOMAIN decisions', NEW j \in DOMAIN decisions',
               decisions'[i].action = decisions'[j].action
        PROVE  i = j
    <3>1. \A k \in DOMAIN decisions' : k \in DOMAIN decisions \/ k = Len(decisions) + 1
      BY <2>1
    <3> QED BY <1>2, <2>1, <2>3, <2>4, <3>1 DEF DecidedOnce
  <2> QED BY <2>2, <2>4 DEF DecidedOnce
<1> QED BY <1>1, <1>2, DecideSteps, SubmittedRecord

LEMMA AlwaysDecidedOnce == ServiceSpec => []DecidedOnce
<1>1. ServiceInit => DecidedOnce
  BY DEF ServiceInit, DecidedOnce
<1> QED BY <1>1, DecidedOnceStep, PTL DEF ServiceSpec

(* The listing of a decided action is left alone by every step. *)
LEMMA ListingStep ==
  ASSUME DecidedOnce, [ServiceNext]_allVars, NEW id \in ActionId,
         Listed(id) # "PENDING"
  PROVE  Listed(id)' = Listed(id)
<1>1. CASE UNCHANGED decisions
  BY <1>1 DEF Listed, DecisionsOn
<1>2. ASSUME NEW other \in ActionId, NEW d \in DecisionRecord,
             DecisionsOn(other) = {}, d.action = other,
             decisions' = Append(decisions, d)
      PROVE  Listed(id)' = Listed(id)
  <2>1. DecisionsOn(id) # {} /\ id # other
    BY <1>2 DEF Listed
  <2>2. /\ DOMAIN decisions = 1 .. Len(decisions) /\ Len(decisions) \in Nat
        /\ DOMAIN decisions' = 1 .. Len(decisions) + 1
        /\ \A i \in DOMAIN decisions : decisions'[i] = decisions[i]
        /\ decisions'[Len(decisions) + 1] = d
    BY <1>2 DEF DecidedOnce
  <2>3. DecisionsOn(id)' = DecisionsOn(id)
    BY <1>2, <2>1, <2>2 DEF DecisionsOn
  <2> DEFINE last == CHOOSE i \in DecisionsOn(id) : \A j \in DecisionsOn(id) : j <= i
  <2>4. Listed(id) = decisions[last].decision /\ Listed(id)' = decisions'[last].decision
    BY <2>1, <2>3 DEF Listed
  <2>5. last \in DecisionsOn(id)
    <3>1. PICK i \in DecisionsOn(id) : TRUE
      BY <2>1
    <3>2. i \in Nat /\ \A j \in DecisionsOn(id) : j = i
      BY <2>2 DEF DecisionsOn, DecidedOnce
    <3>3. \A j \in DecisionsOn(id) : j <= i
      BY <3>2
    <3> QED BY <3>1, <3>3, Zenon
  <2> QED BY <2>2, <2>4, <2>5 DEF DecisionsOn
<1> QED BY <1>1, <1>2, DecideSteps, SubmittedRecord

(* Once an action is listed as decided its listing never changes. *)
THEOREM ListingsStand == ServiceSpec => DecisionsStand
<1>1. DecidedOnce /\ [ServiceNext]_allVars =>
        [\A id \in ActionId : Listed(id) # "PENDING" => Listed(id)' = Listed(id)]_allVars
  BY ListingStep
<1> QED BY <1>1, AlwaysDecidedOnce, PTL DEF ServiceSpec, DecisionsStand
-----------------------------------------------------------------------------
(* The invariant that ties the service's record to the graph.              *)

Fields == {"stage", "evidence", "selected", "critique", "iteration", "plan",
           "results", "verification"}

(* A node's output has the types of the state; a plan in it is the plan.   *)
ChunkOK(c) ==
  /\ DOMAIN c \subseteq Fields
  /\ "stage" \in DOMAIN c => c["stage"] \in Stage
  /\ "evidence" \in DOMAIN c => c["evidence"] \subseteq EvidenceId
  /\ "plan" \in DOMAIN c => c["plan"] = plan /\ plan # None

Recorded ==
  /\ record = [f \in Fields |-> record[f]]
  /\ record["stage"] \in Stage
  /\ record["evidence"] \subseteq EvidenceId
  /\ record["plan"] \in {None, plan}
  /\ \E S : chunks \in Seq(S)
  /\ \A i \in DOMAIN chunks : ChunkOK(chunks[i])

(* While analysts run, what was not merged is their evidence alone; after  *)
(* any other node, the one output that is not merged is all that is.       *)
OnlyEvidencePending ==
  /\ \A i \in DOMAIN chunks : DOMAIN chunks[i] = {"evidence"}
  /\ \A f \in Fields \ {"evidence"} : record[f] = GraphState[f]
  /\ evidence =
       record["evidence"] \cup UNION {chunks[i]["evidence"] : i \in DOMAIN chunks}
  /\ chunks # <<>> => Current \subseteq Analysts

OneOutputPending ==
  /\ Len(chunks) = 1
  /\ Merge(chunks[1]) = GraphState
  /\ running = {}

Mirror ==
  Streaming /\ outcome # "ERROR" => OnlyEvidencePending \/ OneOutputPending

(* Before the investigation the record is the fresh incident. *)
Beginning ==
  task \in {"NONE", "CREATED"} =>
    /\ record = GraphState /\ chunks = <<>>
    /\ announced = None /\ stage = "CREATED"

(* No end is announced before the stream has ended. *)
NoEndYet ==
  task \in {"NONE", "CREATED", "STREAMING"} =>
    \A i \in DOMAIN published : ~Terminal(published[i])

VerifiedResolution ==
  stage = "RESOLVED" => verification # None /\ verification.status = "RECOVERED"

(* The graph's state and the record are functions of the same fields. *)
LEMMA GraphFields ==
  /\ GraphState = [f \in Fields |-> GraphState[f]]
  /\ GraphState["stage"] = stage /\ GraphState["evidence"] = evidence
  /\ GraphState["selected"] = selected /\ GraphState["critique"] = critique
  /\ GraphState["iteration"] = iteration /\ GraphState["plan"] = plan
  /\ GraphState["results"] = ExecutionResults
  /\ GraphState["verification"] = verification
BY DEF GraphState, Fields

LEMMA GraphFieldsNext ==
  /\ GraphState' = [f \in Fields |-> GraphState'[f]]
  /\ GraphState'["stage"] = stage' /\ GraphState'["evidence"] = evidence'
  /\ GraphState'["selected"] = selected' /\ GraphState'["critique"] = critique'
  /\ GraphState'["iteration"] = iteration' /\ GraphState'["plan"] = plan'
  /\ GraphState'["results"] = ExecutionResults'
  /\ GraphState'["verification"] = verification'
BY DEF GraphState, Fields

LEMMA SameGraphState ==
  ASSUME UNCHANGED vars
  PROVE  GraphState' = GraphState
BY DEF vars, scheduleVars, diagnosisVars, remediationVars, runnerVars,
       GraphState, ExecutionResults

LEMMA MergeFields ==
  ASSUME Recorded, NEW c
  PROVE  /\ Merge(c) = [f \in Fields |-> Merge(c)[f]]
         /\ \A f \in Fields \ DOMAIN c : Merge(c)[f] = record[f]
         /\ \A f \in (Fields \cap DOMAIN c) \ {"evidence"} : Merge(c)[f] = c[f]
         /\ "evidence" \in DOMAIN c =>
              Merge(c)["evidence"] = record["evidence"] \cup c["evidence"]
BY DEF Recorded, Merge, Fields

(* With nothing left to merge the record is the graph's state. *)
LEMMA MirrorExact ==
  ASSUME Recorded, Mirror, Streaming, outcome # "ERROR", chunks = <<>>
  PROVE  record = GraphState
<1>1. OnlyEvidencePending
  BY DEF Mirror, OneOutputPending
<1>2. UNION {chunks[i]["evidence"] : i \in DOMAIN chunks} = {}
  OBVIOUS
<1>3. record["evidence"] = GraphState["evidence"]
  BY <1>1, <1>2, GraphFields DEF OnlyEvidencePending
<1>4. \A f \in Fields : record[f] = GraphState[f]
  BY <1>1, <1>3 DEF OnlyEvidencePending
<1> QED BY <1>4, GraphFields DEF Recorded

(* A record that is up to date, and nothing to merge, is a mirror. *)
LEMMA EmptyMirrors ==
  ASSUME record' = GraphState', chunks' = <<>>
  PROVE  OnlyEvidencePending' /\ Mirror'
<1>1. UNION {chunks'[i]["evidence"] : i \in DOMAIN chunks'} = {}
  OBVIOUS
<1>2. \A f \in Fields : record'[f] = GraphState'[f]
  OBVIOUS
<1>3. evidence' = record'["evidence"]
                    \cup UNION {chunks'[i]["evidence"] : i \in DOMAIN chunks'}
  BY <1>1, GraphFieldsNext
<1>4. \A i \in DOMAIN chunks' : DOMAIN chunks'[i] = {"evidence"}
  OBVIOUS
<1> QED BY <1>2, <1>3, <1>4 DEF OnlyEvidencePending, Mirror

(* A node that runs alone starts from a record that is up to date. *)
LEMMA SoloStarts ==
  ASSUME Recorded, Mirror, Streaming, Layered, NEW n \in Node \ Analysts, n \in running
  PROVE  chunks = <<>> /\ record = GraphState
<1>1. running = {n} /\ completed = {} /\ outcome = "RUNNING"
  BY RunsAlone
<1>2. OnlyEvidencePending
  BY <1>1 DEF Mirror, OneOutputPending
<1>3. chunks = <<>>
  BY <1>1, <1>2 DEF OnlyEvidencePending, Current
<1> QED BY <1>1, <1>3, MirrorExact

(* The output of such a node is all that separates the two copies. *)
LEMMA SoloEmits ==
  ASSUME TypeOK', Recorded, chunks = <<>>, record = GraphState,
         running' = {}, UNCHANGED <<task, record>>,
         NEW S \in SUBSET (Fields \ {"evidence"}), Emit(S),
         \A f \in Fields \ S : GraphState'[f] = GraphState[f],
         "plan" \in S => plan = None /\ plan' # None
  PROVE  Recorded' /\ Mirror'
<1>1. PICK c : c = [f \in S |-> GraphState'[f]]
  OBVIOUS
<1>2. DOMAIN c = S /\ \A f \in S : c[f] = GraphState'[f]
  BY <1>1
<1>d. chunks' = <<c>> /\ Len(chunks') = 1 /\ chunks'[1] = c /\ DOMAIN chunks' = {1}
  BY <1>1 DEF Emit
<1>3. ChunkOK(c)'
  <2>1. stage' \in Stage
    BY DEF TypeOK
  <2>2. "stage" \in S => c["stage"] \in Stage
    BY <1>2, <2>1, GraphFieldsNext
  <2>3. "plan" \in S => c["plan"] = plan' /\ plan' # None
    BY <1>2, GraphFieldsNext
  <2> QED BY <1>2, <2>2, <2>3 DEF ChunkOK
<1>4. record'["plan"] \in {None, plan'}
  BY GraphFields, GraphFieldsNext DEF Fields
<1>5. Recorded'
  <2>1. chunks' \in Seq({c})
    BY <1>d
  <2>2. \A i \in DOMAIN chunks' : ChunkOK(chunks[i])'
    BY <1>d, <1>3 DEF ChunkOK
  <2> QED BY <1>4, <2>1, <2>2 DEF Recorded
<1>6. Merge(c)' = GraphState'
  <2>1. DOMAIN record' = Fields
    BY DEF Recorded
  <2>2. Merge(c)' = [f \in Fields |-> GraphState'[f]]
    BY <1>2, <2>1 DEF Merge
  <2> QED BY <2>2, GraphFieldsNext
<1>7. OneOutputPending'
  BY <1>d, <1>6 DEF OneOutputPending, Merge
<1> QED BY <1>5, <1>7 DEF Mirror

(* The results stay as they are while the execution node is on no side of  *)
(* the step, and while what it returned stays.                             *)
LEMMA ResultsStay ==
  ASSUME UNCHANGED returned,
         "execution" \in running' <=> "execution" \in running
  PROVE  ExecutionResults' = ExecutionResults
BY DEF ExecutionResults

LEMMA NoResults == returned = <<>> => ExecutionResults = <<>>
<1> SUFFICES ASSUME returned = <<>> PROVE ExecutionResults = <<>>
  OBVIOUS
<1>1. {i \in DOMAIN returned : returned[i].status # "ROLLED_BACK"} = {}
  OBVIOUS
<1> QED BY <1>1 DEF ExecutionResults

(* The nodes that run alone, one by one: what they leave out of their      *)
(* output is what they leave unchanged.                                    *)
LEMMA SoloMirrors ==
  ASSUME RemediationInv, Recorded, Mirror, [Next]_vars, Streaming,
         UNCHANGED <<task, record>>,
         NEW n \in Node \ Analysts, n \in running, running' = {},
         NEW S \in SUBSET (Fields \ {"evidence"}), Emit(S),
         "stage" \in S, UNCHANGED evidence,
         "selected" \notin S => UNCHANGED selected,
         "critique" \notin S => UNCHANGED critique,
         "iteration" \notin S => UNCHANGED iteration,
         IF "plan" \in S THEN plan = None /\ plan' # None ELSE UNCHANGED plan,
         "results" \notin S => ExecutionResults' = ExecutionResults,
         "verification" \notin S => UNCHANGED verification
  PROVE  Recorded' /\ Mirror'
<1>1. TypeOK /\ Layered
  BY DEF RemediationInv, IInv
<1>2. TypeOK'
  BY <1>1, NextTypeOK
<1>3. chunks = <<>> /\ record = GraphState
  BY <1>1, SoloStarts
<1>4. \A f \in Fields \ S : GraphState'[f] = GraphState[f]
  BY GraphFields, GraphFieldsNext DEF Fields
<1> QED BY <1>2, <1>3, <1>4, SoloEmits

LEMMA StreamNodeMirrors ==
  ASSUME RemediationInv, Recorded, Mirror, StreamNode, [Next]_vars, Streaming,
         UNCHANGED <<task, record>>
  PROVE  Recorded' /\ Mirror'
<1>t. TypeOK /\ Layered /\ Approval /\ Progress
  BY DEF RemediationInv, IInv
<1> USE DEF diagnosisVars, remediationVars, runnerVars
<1>s. ASSUME NEW n \in Node \ Analysts, n \in running, Complete(n)
      PROVE  running = {n} /\ completed = {} /\ outcome = "RUNNING" /\ running' = {}
  BY <1>t, <1>s, RunsAlone
<1>1. CASE Supervisor /\ Emit({"stage"})
  <2>1. "supervisor" \in Node \ Analysts /\ {"stage"} \in SUBSET (Fields \ {"evidence"})
    BY DEF Node, Analysts, Fields
  <2>2. running = {"supervisor"} /\ running' = {}
    BY <1>1, <1>s, <2>1 DEF Supervisor
  <2>3. ExecutionResults' = ExecutionResults
    BY <1>1, <2>2, ResultsStay DEF Supervisor
  <2> QED BY <1>1, <2>1, <2>2, <2>3, SoloMirrors DEF Supervisor
<1>2. CASE JoinEvidence /\ Emit({"stage"})
  <2>1. "join_evidence" \in Node \ Analysts /\ {"stage"} \in SUBSET (Fields \ {"evidence"})
    BY DEF Node, Analysts, Fields
  <2>2. running = {"join_evidence"} /\ running' = {}
    BY <1>2, <1>s, <2>1 DEF JoinEvidence
  <2>3. ExecutionResults' = ExecutionResults
    BY <1>2, <2>2, ResultsStay DEF JoinEvidence
  <2> QED BY <1>2, <2>1, <2>2, <2>3, SoloMirrors DEF JoinEvidence
<1>3. ASSUME NEW hypotheses, NEW primary, Rca(hypotheses, primary),
             Emit({"stage", "selected"})
      PROVE  Recorded' /\ Mirror'
  <2>1. /\ "rca" \in Node \ Analysts
        /\ {"stage", "selected"} \in SUBSET (Fields \ {"evidence"})
    BY DEF Node, Analysts, Fields
  <2>2. running = {"rca"} /\ running' = {}
    BY <1>3, <1>s, <2>1 DEF Rca
  <2>3. ExecutionResults' = ExecutionResults
    BY <1>3, <2>2, ResultsStay DEF Rca
  <2> QED BY <1>3, <2>1, <2>2, <2>3, SoloMirrors DEF Rca
<1>4. ASSUME NEW decision, Critic(decision),
             Emit(IF selected = None THEN {"stage"}
                  ELSE {"stage", "critique", "iteration"})
      PROVE  Recorded' /\ Mirror'
  <2>1. /\ "critic" \in Node \ Analysts
        /\ {"stage"} \in SUBSET (Fields \ {"evidence"})
        /\ {"stage", "critique", "iteration"} \in SUBSET (Fields \ {"evidence"})
    BY DEF Node, Analysts, Fields
  <2>2. running = {"critic"} /\ running' = {}
    BY <1>4, <1>s, <2>1 DEF Critic
  <2>3. ExecutionResults' = ExecutionResults
    BY <1>4, <2>2, ResultsStay DEF Critic
  <2>4. CASE selected = None /\ Emit({"stage"})
    BY <1>4, <2>1, <2>2, <2>3, <2>4, SoloMirrors DEF Critic
  <2>5. CASE Emit({"stage", "critique", "iteration"})
    BY <1>4, <2>1, <2>2, <2>3, <2>5, SoloMirrors DEF Critic
  <2> QED BY <1>4, <2>4, <2>5
<1>5. ASSUME NEW actions \in ActionLists, RemediationPlanning(actions),
             Emit(IF selected = None THEN {"stage"} ELSE {"stage", "plan"})
      PROVE  Recorded' /\ Mirror'
  <2>1. /\ "remediation_planning" \in Node \ Analysts
        /\ {"stage"} \in SUBSET (Fields \ {"evidence"})
        /\ {"stage", "plan"} \in SUBSET (Fields \ {"evidence"})
    BY DEF Node, Analysts, Fields
  <2>2. /\ running = {"remediation_planning"} /\ completed = {}
        /\ outcome = "RUNNING" /\ running' = {}
    BY <1>5, <1>s, <2>1 DEF RemediationPlanning
  <2>3. ExecutionResults' = ExecutionResults
    BY <1>5, <2>2, ResultsStay DEF RemediationPlanning
  <2>4. CASE selected = None /\ Emit({"stage"})
    BY <1>5, <2>1, <2>2, <2>3, <2>4, SoloMirrors DEF RemediationPlanning
  <2>5. CASE selected # None /\ Emit({"stage", "plan"})
    <3>1. plan = None
      BY <1>t, <2>2 DEF Progress, Effecting, Current
    <3>2. plan' \in Plan
      BY <1>t, <1>5, <2>5 DEF RemediationPlanning, TypeOK, Plan
    <3>3. plan' # None
      BY <3>2, NoneAssumption
    <3> QED BY <1>5, <2>1, <2>2, <2>3, <2>5, <3>1, <3>3, SoloMirrors
            DEF RemediationPlanning
  <2> QED BY <1>5, <2>4, <2>5
<1>6. CASE SkipExecution /\ Emit({"stage"})
  <2>1. "execution" \in Node \ Analysts /\ {"stage"} \in SUBSET (Fields \ {"evidence"})
    BY DEF Node, Analysts, Fields
  <2>2. running = {"execution"} /\ running' = {}
    BY <1>6, <1>s, <2>1 DEF SkipExecution
  <2>3. returned = <<>> /\ returned' = <<>>
    BY <1>t, <1>6, <2>2, Lengths DEF SkipExecution, Progress, NothingToExecute
  <2>4. ExecutionResults = <<>>
    BY <2>3, NoResults
  <2>5. ExecutionResults' = <<>>
    <3>1. {i \in DOMAIN returned' : returned'[i].status # "ROLLED_BACK"} = {}
      BY <2>3
    <3> QED BY <2>2, <3>1 DEF ExecutionResults
  <2> QED BY <1>6, <2>1, <2>2, <2>4, <2>5, SoloMirrors DEF SkipExecution
<1>7. CASE ExecuteNextAction /\ "execution" \in completed' /\ Emit({"stage", "results"})
  <2>1. /\ "execution" \in Node \ Analysts
        /\ {"stage", "results"} \in SUBSET (Fields \ {"evidence"})
    BY DEF Node, Analysts, Fields
  <2>2. running = {"execution"} /\ completed = {}
    BY <1>t, <1>7, <2>1, RunsAlone DEF ExecuteNextAction
  <2>3. running' = {}
    BY <1>7, <2>2 DEF ExecuteNextAction, Complete, scheduleVars
  <2> QED BY <1>7, <2>1, <2>2, <2>3, SoloMirrors DEF ExecuteNextAction
<1>8. CASE ExecuteNextAction /\ "execution" \notin completed' /\ UNCHANGED chunks
  <2>1. "execution" \in running /\ "execution" \in Node \ Analysts
    BY <1>8 DEF ExecuteNextAction, Node, Analysts
  <2>2. chunks = <<>> /\ record = GraphState
    BY <1>t, <2>1, SoloStarts
  <2>3. UNCHANGED <<stage, running, completed, outcome, superstep>>
    BY <1>8 DEF ExecuteNextAction, Complete, scheduleVars
  <2>4. GraphState' = GraphState
    <3>1. ExecutionResults = <<>> /\ ExecutionResults' = <<>>
      BY <2>1, <2>3 DEF ExecutionResults
    <3> QED BY <1>8, <2>3, <3>1 DEF ExecuteNextAction, GraphState
  <2>5. Recorded'
    BY <1>8, <2>2 DEF ExecuteNextAction, Recorded
  <2> QED BY <1>8, <2>2, <2>4, <2>5, GraphFieldsNext, EmptyMirrors
<1>9. ASSUME NEW assessment \in Assessment, Verification(assessment),
             Emit({"stage", "verification"})
      PROVE  Recorded' /\ Mirror'
  <2>1. /\ "verification" \in Node \ Analysts
        /\ {"stage", "verification"} \in SUBSET (Fields \ {"evidence"})
    BY DEF Node, Analysts, Fields
  <2>2. running = {"verification"} /\ running' = {}
    BY <1>9, <1>s, <2>1 DEF Verification
  <2>3. ExecutionResults' = ExecutionResults
    <3>1. CASE UNCHANGED returned
      BY <2>2, <3>1, ResultsStay
    <3>2. ASSUME NEW a, returned' = Append(returned,
                          [action |-> a, status |-> "ROLLED_BACK"])
          PROVE  ExecutionResults' = ExecutionResults
      <4>1. /\ DOMAIN returned = 1 .. Len(returned) /\ Len(returned) \in Nat
            /\ DOMAIN returned' = 1 .. Len(returned) + 1
            /\ \A i \in DOMAIN returned : returned'[i] = returned[i]
            /\ returned'[Len(returned) + 1].status = "ROLLED_BACK"
        BY <1>t, <3>2 DEF TypeOK, Runner!TypeOK
      <4>2. {i \in DOMAIN returned' : returned'[i].status # "ROLLED_BACK"}
              = {i \in DOMAIN returned : returned[i].status # "ROLLED_BACK"}
        BY <4>1
      <4> QED BY <2>2, <4>1, <4>2 DEF ExecutionResults
    <3> QED BY <1>9, <3>1, <3>2 DEF Verification, Runner!ExecuteRollback, Runner!Return
  <2> QED BY <1>9, <2>1, <2>2, <2>3, SoloMirrors DEF Verification
<1>10. ASSUME NEW a \in Analysts, NEW items \in Findings, Analyst(a, items),
              EmitEvidence(items)
       PROVE  Recorded' /\ Mirror'
  <2>1. /\ a \in running /\ outcome = "RUNNING"
        /\ Current \subseteq Analysts /\ Current' = Current
    BY <1>t, <1>10, RunsWithAnalysts DEF Analyst, Complete, Current
  <2>2. OnlyEvidencePending
    BY <2>1 DEF Mirror, OneOutputPending
  <2>3. PICK S : chunks \in Seq(S)
    BY DEF Recorded
  <2>4. PICK c : c = [evidence |-> items]
    OBVIOUS
  <2>5. DOMAIN c = {"evidence"} /\ c["evidence"] = items /\ chunks' = Append(chunks, c)
    BY <1>10, <2>4 DEF EmitEvidence
  <2>6. /\ Len(chunks) \in Nat /\ DOMAIN chunks = 1 .. Len(chunks)
        /\ DOMAIN chunks' = 1 .. Len(chunks) + 1
        /\ \A i \in DOMAIN chunks : chunks'[i] = chunks[i]
        /\ chunks'[Len(chunks) + 1] = c
    BY <2>3, <2>5
  <2>7. chunks' \in Seq(S \cup {c})
    BY <2>3, <2>5
  <2>8. \A i \in DOMAIN chunks' : i \in DOMAIN chunks \/ i = Len(chunks) + 1
    BY <2>6
  <2>9. Recorded'
    <3>1. items \subseteq EvidenceId
      BY InputAssumption
    <3>2. UNCHANGED plan
      BY <1>10 DEF Analyst
    <3>3. ChunkOK(c)'
      BY <2>5, <3>1 DEF ChunkOK, Fields
    <3>4. \A i \in DOMAIN chunks' : ChunkOK(chunks[i])'
      BY <2>6, <2>8, <3>2, <3>3 DEF Recorded, ChunkOK
    <3> QED BY <2>7, <3>2, <3>4 DEF Recorded
  <2>10. OnlyEvidencePending'
    <3>1. \A i \in DOMAIN chunks' : DOMAIN chunks'[i] = {"evidence"}
      BY <2>2, <2>5, <2>6, <2>8 DEF OnlyEvidencePending
    <3>2. \A f \in Fields \ {"evidence"} : record'[f] = GraphState'[f]
      <4>1. ExecutionResults' = ExecutionResults
        <5>1. "execution" \notin Current /\ "execution" \notin Current'
          BY <2>1 DEF Analysts
        <5> QED BY <1>10, <5>1, ResultsStay DEF Analyst, Current
      <4>2. \A f \in Fields \ {"evidence"} : GraphState'[f] = GraphState[f]
        BY <1>10, <4>1, GraphFields, GraphFieldsNext DEF Analyst, Fields
      <4> QED BY <2>2, <4>2 DEF OnlyEvidencePending
    <3>3. UNION {chunks'[i]["evidence"] : i \in DOMAIN chunks'}
            = items \cup UNION {chunks[i]["evidence"] : i \in DOMAIN chunks}
      BY <2>5, <2>6, <2>8
    <3>4. evidence' = evidence \cup items
      BY <1>10 DEF Analyst
    <3>5. evidence' = record'["evidence"]
                        \cup UNION {chunks'[i]["evidence"] : i \in DOMAIN chunks'}
      BY <2>2, <3>3, <3>4 DEF OnlyEvidencePending
    <3>6. Current' \subseteq Analysts
      BY <2>1
    <3> QED BY <3>1, <3>2, <3>5, <3>6 DEF OnlyEvidencePending
  <2> QED BY <2>9, <2>10 DEF Mirror
<1> QED BY <1>1, <1>2, <1>3, <1>4, <1>5, <1>6, <1>7, <1>8, <1>9, <1>10 DEF StreamNode

LEMMA GraphStepMirrors ==
  ASSUME RemediationInv, Recorded, Mirror, GraphStep, [Next]_vars
  PROVE  Recorded' /\ Mirror'
<1>t. TypeOK /\ Layered /\ Approval /\ Progress
  BY DEF RemediationInv, IInv
<1>1. Streaming /\ UNCHANGED <<task, record>>
  BY DEF GraphStep
<1>2. CASE StreamNode
  BY <1>1, <1>2, StreamNodeMirrors
<1>3. CASE StreamRaises
  <2>1. chunks' = <<>> /\ outcome' = "ERROR" /\ plan' = plan
    BY <1>3 DEF StreamRaises, NodeRaises, remediationVars
  <2>2. chunks' \in Seq({}) /\ DOMAIN chunks' = {}
    BY <2>1
  <2> QED BY <1>1, <2>1, <2>2 DEF Recorded, Mirror
<1>4. CASE EndSuperstep
  <2>1. /\ chunks = <<>> /\ chunks' = <<>>
        /\ UNCHANGED <<stage, diagnosisVars, remediationVars, runnerVars>>
        /\ outcome = "RUNNING" /\ running = {}
    BY <1>4 DEF EndSuperstep, NextSuperstep, Finish, SuperstepDone
  <2>2. record = GraphState
    BY <1>1, <2>1, MirrorExact
  <2>3. ExecutionResults' = ExecutionResults
    <3>1. CASE "execution" \in running'
      <4>1. NextSuperstep /\ "execution" \in Scheduled
        BY <1>4, <2>1, <3>1 DEF EndSuperstep, Finish, NextSuperstep
      <4>2. completed = {"remediation_planning"}
        BY <1>t, <4>1, RemediationOrder
      <4>3. returned = <<>>
        BY <1>t, <2>1, <4>2 DEF Progress, Effecting, Current
      <4>4. ExecutionResults' = <<>>
        BY <3>1 DEF ExecutionResults
      <4> QED BY <4>3, <4>4, NoResults
    <3>2. CASE "execution" \notin running'
      BY <2>1, <3>2, ResultsStay DEF runnerVars
    <3> QED BY <3>1, <3>2
  <2>4. GraphState' = GraphState
    BY <2>1, <2>3 DEF GraphState, diagnosisVars, remediationVars
  <2>5. Recorded'
    BY <1>1, <2>1 DEF Recorded, remediationVars
  <2> QED BY <1>1, <2>1, <2>2, <2>4, <2>5, EmptyMirrors
<1> QED BY <1>2, <1>3, <1>4 DEF GraphStep

(* Merging the next output keeps the record a mirror: the evidence of      *)
(* parallel analysts is joined, whatever their order.                      *)
LEMMA MergeMirrors ==
  ASSUME Recorded, Mirror, MergeChunk
  PROVE  Recorded' /\ Mirror'
<1>1. /\ Streaming /\ chunks # <<>>
      /\ record' = Merge(Head(chunks)) /\ chunks' = Tail(chunks)
      /\ UNCHANGED vars /\ UNCHANGED task
  BY DEF MergeChunk
<1>2. PICK S : chunks \in Seq(S)
  BY DEF Recorded
<1> DEFINE c == chunks[1]
<1>3. /\ Len(chunks) \in Nat \ {0} /\ DOMAIN chunks = 1 .. Len(chunks)
      /\ Head(chunks) = c /\ 1 \in DOMAIN chunks
      /\ chunks' \in Seq(S) /\ Len(chunks') = Len(chunks) - 1
      /\ DOMAIN chunks' = 1 .. Len(chunks) - 1
      /\ \A i \in DOMAIN chunks' : i + 1 \in DOMAIN chunks /\ chunks'[i] = chunks[i + 1]
      /\ \A i \in DOMAIN chunks : i # 1 => i - 1 \in DOMAIN chunks' /\ chunks'[i - 1] = chunks[i]
  BY <1>1, <1>2
<1>4. UNCHANGED <<plan, evidence, running, completed, outcome>>
  BY <1>1 DEF vars, scheduleVars, diagnosisVars, remediationVars
<1>5. ChunkOK(c)
  BY <1>3 DEF Recorded
<1>6. /\ record' = [f \in Fields |-> record'[f]]
      /\ \A f \in Fields \ DOMAIN c : record'[f] = record[f]
      /\ \A f \in (Fields \cap DOMAIN c) \ {"evidence"} : record'[f] = c[f]
      /\ "evidence" \in DOMAIN c => record'["evidence"] = record["evidence"] \cup c["evidence"]
  BY <1>1, <1>3, MergeFields
<1>7. Recorded'
  <2>1. record'["stage"] \in Stage /\ record'["plan"] \in {None, plan'}
    BY <1>4, <1>5, <1>6 DEF Recorded, ChunkOK, Fields
  <2>2. record'["evidence"] \subseteq EvidenceId
    BY <1>5, <1>6 DEF Recorded, ChunkOK, Fields
  <2>3. \A i \in DOMAIN chunks' : ChunkOK(chunks[i])'
    BY <1>3, <1>4 DEF Recorded, ChunkOK
  <2> QED BY <1>3, <1>6, <2>1, <2>2, <2>3 DEF Recorded
<1>8. GraphState' = GraphState
  BY <1>1, SameGraphState
<1>9. CASE OnlyEvidencePending
  <2>1. DOMAIN c = {"evidence"}
    BY <1>3, <1>9 DEF OnlyEvidencePending
  <2>2. \A f \in Fields \ {"evidence"} : record'[f] = GraphState'[f]
    BY <1>6, <1>8, <1>9, <2>1 DEF OnlyEvidencePending
  <2>3. UNION {chunks[i]["evidence"] : i \in DOMAIN chunks} =
          c["evidence"] \cup UNION {chunks'[i]["evidence"] : i \in DOMAIN chunks'}
    <3>1. ASSUME NEW e \in UNION {chunks[i]["evidence"] : i \in DOMAIN chunks}
          PROVE  e \in c["evidence"] \cup UNION {chunks'[i]["evidence"] : i \in DOMAIN chunks'}
      <4>1. PICK i \in DOMAIN chunks : e \in chunks[i]["evidence"]
        BY <3>1
      <4>2. CASE i = 1
        BY <4>1, <4>2
      <4>3. CASE i # 1
        BY <1>3, <4>1, <4>3
      <4> QED BY <4>2, <4>3
    <3>2. ASSUME NEW i \in DOMAIN chunks'
          PROVE  chunks'[i]["evidence"] \subseteq
                   UNION {chunks[j]["evidence"] : j \in DOMAIN chunks}
      BY <1>3, <3>2
    <3>3. c["evidence"] \subseteq UNION {chunks[j]["evidence"] : j \in DOMAIN chunks}
      BY <1>3
    <3> QED BY <3>1, <3>2, <3>3
  <2>4. evidence' = record'["evidence"]
                      \cup UNION {chunks'[i]["evidence"] : i \in DOMAIN chunks'}
    BY <1>4, <1>6, <1>9, <2>1, <2>3 DEF OnlyEvidencePending
  <2>5. \A i \in DOMAIN chunks' : DOMAIN chunks'[i] = {"evidence"}
    BY <1>3, <1>9 DEF OnlyEvidencePending
  <2>6. Current' \subseteq Analysts
    BY <1>1, <1>4, <1>9 DEF OnlyEvidencePending, Current
  <2> QED BY <1>7, <2>2, <2>4, <2>5, <2>6 DEF OnlyEvidencePending, Mirror
<1>10. CASE OneOutputPending
  <2>1. chunks' = <<>>
    BY <1>2, <1>3, <1>10 DEF OneOutputPending
  <2>2. record' = GraphState'
    BY <1>1, <1>3, <1>8, <1>10 DEF OneOutputPending
  <2> QED BY <1>7, <2>1, <2>2, EmptyMirrors
<1>11. CASE outcome = "ERROR"
  BY <1>4, <1>7, <1>11 DEF Mirror
<1> QED BY <1>1, <1>9, <1>10, <1>11 DEF Mirror

(* What a step of the service that is none of the graph leaves alone.      *)
LEMMA BesideTheGraph ==
  ASSUME [ServiceNext]_allVars, ~GraphStep
  PROVE  UNCHANGED vars
<1>1. CASE InvestigationStep
  BY <1>1 DEF InvestigationStep, StartInvestigation, MergeChunk, EndStream,
              IndexReport, FailInvestigation
<1>2. CASE ~InvestigationStep
  BY <1>2 DEF ServiceNext, CreateIncident, SubmitApproval, Decide, PublishDecision, allVars
<1> QED BY <1>1, <1>2

(* Who touches the record, the outputs and the task. *)
LEMMA RecordSteps ==
  [ServiceNext]_allVars =>
    \/ GraphStep
    \/ MergeChunk
    \/ /\ UNCHANGED <<vars, record, chunks>>
       /\ \/ CreateIncident \/ StartInvestigation \/ EndStream \/ IndexReport
          \/ \E id \in ActionId, submission \in Submissions : SubmitApproval(id, submission)
          \/ \E id \in ActionId : PublishDecision(id)
          \/ UNCHANGED allVars
    \/ FailInvestigation
BY DEF ServiceNext, InvestigationStep, CreateIncident, StartInvestigation, EndStream,
       IndexReport, SubmitApproval, Decide, PublishDecision, allVars, serviceVars

LEMMA RecordStep ==
  ASSUME RemediationInv, Recorded, Mirror, Beginning, [ServiceNext]_allVars
  PROVE  Recorded' /\ Mirror' /\ Beginning'
<1>1. CASE GraphStep
  <2>1. [Next]_vars
    BY ServiceStep
  <2>2. task' = "STREAMING"
    BY <1>1 DEF GraphStep, Streaming
  <2> QED BY <1>1, <2>1, <2>2, GraphStepMirrors DEF Beginning
<1>2. CASE MergeChunk
  <2>1. task' = "STREAMING"
    BY <1>2 DEF MergeChunk, Streaming
  <2> QED BY <1>2, <2>1, MergeMirrors DEF Beginning
<1>3. ASSUME UNCHANGED <<vars, record, chunks>>
      PROVE  /\ Recorded' /\ GraphState' = GraphState
             /\ UNCHANGED <<stage, outcome, evidence, running, completed>>
             /\ OnlyEvidencePending' <=> OnlyEvidencePending
             /\ OneOutputPending' <=> OneOutputPending
  <2>1. /\ UNCHANGED <<plan, stage, outcome, evidence, running, completed>>
    BY <1>3 DEF vars, scheduleVars, diagnosisVars, remediationVars
  <2>2. GraphState' = GraphState
    BY <1>3, SameGraphState
  <2>3. Recorded'
    BY <1>3, <2>1 DEF Recorded, ChunkOK
  <2>4. OnlyEvidencePending' <=> OnlyEvidencePending
    BY <1>3, <2>1, <2>2 DEF OnlyEvidencePending, Current
  <2>5. OneOutputPending' <=> OneOutputPending
    BY <1>3, <2>1, <2>2 DEF OneOutputPending, Merge
  <2> QED BY <2>1, <2>2, <2>3, <2>4, <2>5
<1>4. CASE StartInvestigation
  <2>1. UNCHANGED <<vars, record, chunks>> /\ record = GraphState /\ chunks = <<>>
    BY <1>4 DEF StartInvestigation, Beginning
  <2>2. Beginning'
    BY <1>4 DEF StartInvestigation, Beginning
  <2> QED BY <1>3, <2>1, <2>2, EmptyMirrors
<1>5. ASSUME UNCHANGED <<vars, record, chunks>>, task' # "STREAMING",
             task' \in {"NONE", "CREATED"} =>
               task \in {"NONE", "CREATED"} /\ UNCHANGED announced
      PROVE  Recorded' /\ Mirror' /\ Beginning'
  BY <1>3, <1>5 DEF Mirror, Streaming, Beginning
<1>6. ASSUME UNCHANGED <<vars, record, chunks, task, announced>>
      PROVE  Recorded' /\ Mirror' /\ Beginning'
  BY <1>3, <1>6 DEF Mirror, Streaming, Beginning
<1>7. CASE CreateIncident
  BY <1>5, <1>7 DEF CreateIncident
<1>8. CASE EndStream \/ IndexReport
  BY <1>5, <1>8 DEF EndStream, IndexReport
<1>9. ASSUME NEW id, NEW submission, SubmitApproval(id, submission)
      PROVE  Recorded' /\ Mirror' /\ Beginning'
  BY <1>6, <1>9 DEF SubmitApproval, Decide
<1>10. ASSUME NEW id, PublishDecision(id) PROVE Recorded' /\ Mirror' /\ Beginning'
  BY <1>6, <1>10 DEF PublishDecision
<1>11. CASE FailInvestigation
  <2>1. /\ task' = "DONE" /\ UNCHANGED <<vars, chunks>>
        /\ record' = [record EXCEPT !.stage = "FAILED"]
    BY <1>11 DEF FailInvestigation
  <2>2. UNCHANGED plan
    BY <2>1 DEF vars, remediationVars
  <2>3. /\ record' = [f \in Fields |-> record'[f]]
        /\ record'["stage"] = "FAILED"
        /\ \A f \in Fields \ {"stage"} : record'[f] = record[f]
    BY <2>1 DEF Recorded, Fields
  <2>4. Recorded'
    BY <2>1, <2>2, <2>3 DEF Recorded, ChunkOK, Fields, Stage
  <2> QED BY <2>1, <2>4 DEF Mirror, Streaming, Beginning
<1>12. CASE UNCHANGED allVars
  BY <1>6, <1>12 DEF allVars, serviceVars
<1> QED BY <1>1, <1>2, <1>4, <1>7, <1>8, <1>9, <1>10, <1>11, <1>12, RecordSteps

-----------------------------------------------------------------------------
(* What the service adds of its own: types, announcements, decisions.      *)

OwnTypes ==
  /\ task \in {"NONE", "CREATED", "STREAMING", "INDEXING", "DONE"}
  /\ announced \in Stage \cup {None}
  /\ decisions \in Seq([action : ActionId, decision : Choice, role : {"OPERATOR", "ADMIN"}])
  /\ notices \subseteq {decisions[i].action : i \in DOMAIN decisions}
  /\ published \in Seq({"approval_decision", "resolved", "failed"})

(* A decision that was accepted can be recorded. *)
LEMMA SubmittedType ==
  ASSUME NEW id \in ActionId, NEW submission \in Submissions, SubmitApproval(id, submission)
  PROVE  [action |-> id, decision |-> submission.decision, role |-> submission.role]
           \in [action : ActionId, decision : Choice, role : {"OPERATOR", "ADMIN"}]
<1>1. submission.decision \in Choice
  BY SubmissionAssumption
<1>2. submission.role \in {"OPERATOR", "ADMIN"}
  BY DEF SubmitApproval, Policy!Authorized, Policy!ApproverRole
<1> QED BY <1>1, <1>2

LEMMA OwnTypesStep ==
  ASSUME OwnTypes, Recorded, Recorded', [ServiceNext]_allVars
  PROVE  OwnTypes'
<1> USE DEF OwnTypes
<1>1. ASSUME UNCHANGED <<decisions, notices>>
      PROVE  notices' \subseteq {decisions'[i].action : i \in DOMAIN decisions'}
  BY <1>1
<1>2. CASE CreateIncident
  BY <1>1, <1>2 DEF CreateIncident
<1>3. CASE StartInvestigation
  BY <1>1, <1>3 DEF StartInvestigation, Stage
<1>4. CASE GraphStep
  BY <1>1, <1>4 DEF GraphStep
<1>5. CASE MergeChunk
  <2>1. record'.stage \in Stage
    BY DEF Recorded
  <2> QED BY <1>1, <1>5, <2>1 DEF MergeChunk
<1>6. CASE EndStream
  BY <1>1, <1>6 DEF EndStream
<1>7. CASE IndexReport
  BY <1>1, <1>7 DEF IndexReport
<1>8. CASE FailInvestigation
  BY <1>1, <1>8 DEF FailInvestigation
<1>9. ASSUME NEW id \in ActionId, NEW submission \in Submissions,
             SubmitApproval(id, submission)
      PROVE  OwnTypes'
  <2>1. PICK d : d = [action |-> id, decision |-> submission.decision,
                      role |-> submission.role]
    OBVIOUS
  <2>2. /\ d \in [action : ActionId, decision : Choice, role : {"OPERATOR", "ADMIN"}]
        /\ d.action = id
    BY <1>9, <2>1, SubmittedType
  <2>3. /\ decisions' = Append(decisions, d) /\ notices' = notices \cup {id}
        /\ UNCHANGED <<task, announced, published>>
    BY <1>9, <2>1 DEF SubmitApproval, Decide
  <2>4. /\ DOMAIN decisions = 1 .. Len(decisions) /\ Len(decisions) \in Nat
        /\ DOMAIN decisions' = 1 .. Len(decisions) + 1
        /\ \A i \in DOMAIN decisions : decisions'[i] = decisions[i]
        /\ decisions'[Len(decisions) + 1] = d
    BY <2>3
  <2>5. notices' \subseteq {decisions'[i].action : i \in DOMAIN decisions'}
    BY <2>2, <2>3, <2>4
  <2> QED BY <2>2, <2>3, <2>5
<1>10. ASSUME NEW id \in ActionId, PublishDecision(id) PROVE OwnTypes'
  BY <1>10 DEF PublishDecision
<1>11. CASE UNCHANGED allVars
  BY <1>1, <1>11 DEF allVars, serviceVars
<1> QED BY <1>2, <1>3, <1>4, <1>5, <1>6, <1>7, <1>8, <1>9, <1>10, <1>11
        DEF ServiceNext, InvestigationStep

(* An end that is published is the last; a decision that is published is   *)
(* no end and changes nothing of it.                                       *)
LEMMA PublishEnd ==
  ASSUME OwnTypes, NEW event \in {"resolved", "failed"},
         published' = Append(published, event)
  PROVE  LastEnd(event)' /\ \A other \in {"resolved", "failed"} :
                              LastEnd(other)' => other = event
<1>1. /\ DOMAIN published = 1 .. Len(published) /\ Len(published) \in Nat
      /\ DOMAIN published' = 1 .. Len(published) + 1
      /\ published'[Len(published) + 1] = event
  BY DEF OwnTypes
<1>2. LastEnd(event)'
  BY <1>1 DEF LastEnd
<1>3. ASSUME NEW other \in {"resolved", "failed"}, LastEnd(other)'
      PROVE  other = event
  <2>1. PICK i \in DOMAIN published' :
          /\ published'[i] = other
          /\ \A j \in DOMAIN published' : Terminal(published'[j]) => j <= i
    BY <1>3 DEF LastEnd
  <2>2. Len(published) + 1 <= i
    BY <1>1, <2>1 DEF Terminal
  <2> QED BY <1>1, <2>1, <2>2
<1> QED BY <1>2, <1>3

LEMMA PublishNoEnd ==
  ASSUME OwnTypes, published' = Append(published, "approval_decision"),
         NEW event \in {"resolved", "failed"}
  PROVE  LastEnd(event)' <=> LastEnd(event)
<1>1. /\ DOMAIN published = 1 .. Len(published) /\ Len(published) \in Nat
      /\ DOMAIN published' = 1 .. Len(published) + 1
      /\ \A i \in DOMAIN published : published'[i] = published[i]
      /\ published'[Len(published) + 1] = "approval_decision"
      /\ \A i \in DOMAIN published' : i \in DOMAIN published \/ i = Len(published) + 1
  BY DEF OwnTypes
<1> QED BY <1>1 DEF LastEnd, Terminal

LEMMA EndsStep ==
  ASSUME OwnTypes, Recorded, Beginning, NoEndYet, AnnouncedStageIsRecorded,
         LastEndIsRecorded, [ServiceNext]_allVars
  PROVE  NoEndYet' /\ AnnouncedStageIsRecorded' /\ LastEndIsRecorded'
<1> USE DEF NoEndYet, AnnouncedStageIsRecorded, LastEndIsRecorded
<1>1. ASSUME UNCHANGED <<record, announced, published>>,
             task' \in {"NONE", "CREATED", "STREAMING"} =>
               task \in {"NONE", "CREATED", "STREAMING"}
      PROVE  NoEndYet' /\ AnnouncedStageIsRecorded' /\ LastEndIsRecorded'
  BY <1>1 DEF LastEnd
<1>2. CASE CreateIncident
  BY <1>1, <1>2 DEF CreateIncident
<1>3. CASE StartInvestigation
  <2>1. record.stage = "CREATED"
    BY <1>3 DEF StartInvestigation, Beginning, GraphState
  <2> QED BY <1>3, <2>1 DEF StartInvestigation, LastEnd
<1>4. CASE GraphStep
  BY <1>1, <1>4 DEF GraphStep
<1>5. CASE MergeChunk
  <2>1. \A event \in {"resolved", "failed"} : ~LastEnd(event) /\ ~LastEnd(event)'
    BY <1>5 DEF MergeChunk, Streaming, LastEnd, Terminal
  <2> QED BY <1>5, <2>1 DEF MergeChunk, Streaming
<1>6. CASE EndStream
  <2>1. CASE UNCHANGED published
    BY <1>1, <1>6, <2>1 DEF EndStream, Streaming
  <2>2. CASE published' = Append(published, "resolved") /\ record.stage = "RESOLVED"
    <3>1. \A event \in {"resolved", "failed"} : ~LastEnd(event)
      BY <1>6 DEF EndStream, Streaming, LastEnd, Terminal
    <3>2. ~LastEnd("failed")'
      BY <2>2, PublishEnd
    <3> QED BY <1>6, <2>2, <3>1, <3>2 DEF EndStream
  <2> QED BY <1>6, <2>1, <2>2 DEF EndStream
<1>7. CASE IndexReport
  BY <1>1, <1>7 DEF IndexReport
<1>8. CASE FailInvestigation
  <2>1. /\ published' = Append(published, "failed") /\ task' = "DONE"
        /\ record' = [record EXCEPT !.stage = "FAILED"]
    BY <1>8 DEF FailInvestigation
  <2>2. LastEnd("failed")' /\ ~LastEnd("resolved")'
    BY <2>1, PublishEnd
  <2>3. record'.stage = "FAILED"
    BY <2>1 DEF Recorded, Fields
  <2> QED BY <2>1, <2>2, <2>3
<1>9. ASSUME NEW id, NEW submission, SubmitApproval(id, submission)
      PROVE  NoEndYet' /\ AnnouncedStageIsRecorded' /\ LastEndIsRecorded'
  BY <1>1, <1>9 DEF SubmitApproval, Decide
<1>10. ASSUME NEW id, PublishDecision(id)
       PROVE  NoEndYet' /\ AnnouncedStageIsRecorded' /\ LastEndIsRecorded'
  <2>1. /\ published' = Append(published, "approval_decision")
        /\ UNCHANGED <<record, announced, task>>
    BY <1>10 DEF PublishDecision
  <2>2. \A event \in {"resolved", "failed"} : LastEnd(event)' <=> LastEnd(event)
    BY <2>1, PublishNoEnd
  <2>3. NoEndYet'
    <3>1. /\ DOMAIN published = 1 .. Len(published) /\ Len(published) \in Nat
          /\ DOMAIN published' = 1 .. Len(published) + 1
          /\ \A i \in DOMAIN published : published'[i] = published[i]
          /\ published'[Len(published) + 1] = "approval_decision"
          /\ \A i \in DOMAIN published' : i \in DOMAIN published \/ i = Len(published) + 1
      BY <2>1 DEF OwnTypes
    <3> QED BY <2>1, <3>1 DEF Terminal
  <2> QED BY <2>1, <2>2, <2>3
<1>11. CASE UNCHANGED allVars
  BY <1>1, <1>11 DEF allVars, serviceVars
<1> QED BY <1>2, <1>3, <1>4, <1>5, <1>6, <1>7, <1>8, <1>9, <1>10, <1>11
        DEF ServiceNext, InvestigationStep

(* Only the verification node resolves, on its own verdict. *)
LEMMA VerifiedResolutionStep ==
  ASSUME TypeOK, VerifiedResolution, [Next]_vars
  PROVE  VerifiedResolution'
<1> USE DEF VerifiedResolution
<1>1. ASSUME NEW assessment \in Assessment, Verification(assessment)
      PROVE  VerifiedResolution'
  <2>1. assessment # None
    BY NoneAssumption
  <2> QED BY <1>1, <2>1 DEF Verification
<1>2. CASE NodeStep /\ ~(\E assessment \in Assessment : Verification(assessment))
  <2>1. UNCHANGED verification /\ (stage' = stage \/ stage' # "RESOLVED")
    BY <1>2 DEF NodeStep, Supervisor, Analyst, JoinEvidence, Rca, Critic,
                RemediationPlanning, SkipExecution, ExecuteNextAction, remediationVars
  <2> QED BY <2>1
<1>3. CASE ~NodeStep
  <2>1. UNCHANGED <<stage, verification>>
    BY <1>3 DEF Next, NodeRaises, NextSuperstep, Finish, vars, remediationVars
  <2> QED BY <2>1
<1> QED BY <1>1, <1>2, <1>3

(* A resolution is announced when the stream has ended, of a record that   *)
(* is the graph's last state, and nothing but the stage changes later.     *)
LEMMA ResolutionStep ==
  ASSUME RemediationInv, VerifiedResolution, Recorded, Mirror, OwnTypes, NoEndYet,
         ResolutionIsVerified, [ServiceNext]_allVars
  PROVE  ResolutionIsVerified'
<1> DEFINE Announced == "resolved" \in {published[i] : i \in DOMAIN published}
<1>1. ASSUME Announced' => Announced, UNCHANGED vars,
             record'["plan"] = record["plan"],
             record'["verification"] = record["verification"]
      PROVE  ResolutionIsVerified'
  BY <1>1 DEF ResolutionIsVerified, vars, scheduleVars, remediationVars, runnerVars
<1>2. ASSUME NEW event, event # "resolved", published' = Append(published, event)
      PROVE  Announced' => Announced
  <2>1. /\ DOMAIN published = 1 .. Len(published) /\ Len(published) \in Nat
        /\ DOMAIN published' = 1 .. Len(published) + 1
        /\ \A i \in DOMAIN published : published'[i] = published[i]
        /\ published'[Len(published) + 1] = event
        /\ \A i \in DOMAIN published' : i \in DOMAIN published \/ i = Len(published) + 1
    BY <1>2 DEF OwnTypes
  <2> QED BY <1>2, <2>1
<1>3. CASE task = "STREAMING" /\ UNCHANGED published
  <2>1. ~Announced'
    BY <1>3 DEF NoEndYet, Terminal
  <2> QED BY <2>1 DEF ResolutionIsVerified
<1>4. CASE GraphStep
  BY <1>3, <1>4 DEF GraphStep, Streaming
<1>5. CASE MergeChunk
  BY <1>3, <1>5 DEF MergeChunk, Streaming
<1>6. CASE EndStream
  <2>1. CASE UNCHANGED published
    BY <1>3, <1>6, <2>1 DEF EndStream, Streaming
  <2>2. CASE record.stage = "RESOLVED"
    <3>1. /\ outcome = "END" /\ Streaming /\ chunks = <<>> /\ UNCHANGED vars
          /\ UNCHANGED record
      BY <1>6 DEF EndStream
    <3>2. record = GraphState
      BY <3>1, MirrorExact
    <3>3. /\ stage = "RESOLVED" /\ record.plan = plan
          /\ record.verification = verification
      BY <2>2, <3>2 DEF GraphState
    <3>4. verification # None /\ verification.status = "RECOVERED"
      BY <3>3 DEF VerifiedResolution
    <3>5. \A i \in DOMAIN returned : returned[i].status # "ROLLED_BACK"
      BY <3>3 DEF RemediationInv, EffectsFollowPlan
    <3> QED BY <3>1, <3>3, <3>4, <3>5
            DEF ResolutionIsVerified, vars, scheduleVars, remediationVars, runnerVars
  <2> QED BY <1>6, <2>1, <2>2 DEF EndStream
<1>7. CASE FailInvestigation
  <2>1. /\ published' = Append(published, "failed") /\ UNCHANGED vars
        /\ record' = [record EXCEPT !.stage = "FAILED"]
    BY <1>7 DEF FailInvestigation
  <2>2. /\ record'["plan"] = record["plan"]
        /\ record'["verification"] = record["verification"]
    BY <2>1 DEF Recorded, Fields
  <2> QED BY <1>1, <1>2, <2>1, <2>2
<1>8. ASSUME NEW id, PublishDecision(id) PROVE ResolutionIsVerified'
  BY <1>1, <1>2, <1>8 DEF PublishDecision
<1>9. ASSUME UNCHANGED <<vars, record, published>> PROVE ResolutionIsVerified'
  BY <1>1, <1>9
<1>10. CASE CreateIncident \/ StartInvestigation \/ IndexReport
  BY <1>9, <1>10 DEF CreateIncident, StartInvestigation, IndexReport
<1>11. ASSUME NEW id, NEW submission, SubmitApproval(id, submission)
       PROVE  ResolutionIsVerified'
  BY <1>9, <1>11 DEF SubmitApproval, Decide
<1>12. CASE UNCHANGED allVars
  BY <1>9, <1>12 DEF allVars, serviceVars
<1> QED BY <1>4, <1>5, <1>6, <1>7, <1>8, <1>10, <1>11, <1>12, RecordSteps

-----------------------------------------------------------------------------
(* The inductive invariant of the service: the workflow's, the mirror that *)
(* ties the record to it, and what the service announces and accepts.      *)
ServiceInv ==
  /\ RemediationInv /\ VerifiedResolution
  /\ Recorded /\ Mirror /\ Beginning
  /\ OwnTypes /\ NoEndYet
  /\ AnnouncedStageIsRecorded /\ LastEndIsRecorded
  /\ ResolutionIsVerified

LEMMA InitServiceInv == ServiceInit => ServiceInv
<1> SUFFICES ASSUME ServiceInit PROVE ServiceInv
  OBVIOUS
<1>1. RemediationInv /\ stage = "CREATED" /\ plan = None /\ evidence = {}
  BY InitRemediationInv DEF ServiceInit, Init
<1>2. /\ task = "NONE" /\ chunks = <<>> /\ record = GraphState /\ announced = None
      /\ decisions = <<>> /\ notices = {} /\ published = <<>>
  BY DEF ServiceInit
<1>3. Recorded
  <2>1. chunks \in Seq({})
    BY <1>2
  <2> QED BY <1>1, <1>2, <2>1, GraphFields DEF Recorded, Stage
<1>4. VerifiedResolution /\ Mirror /\ Beginning
  BY <1>1, <1>2 DEF VerifiedResolution, Mirror, Streaming, Beginning
<1>5. OwnTypes /\ NoEndYet
  BY <1>2 DEF OwnTypes, NoEndYet
<1>6. /\ AnnouncedStageIsRecorded /\ LastEndIsRecorded
      /\ ResolutionIsVerified
  BY <1>2 DEF AnnouncedStageIsRecorded, LastEndIsRecorded, LastEnd,
              ResolutionIsVerified
<1> QED BY <1>1, <1>3, <1>4, <1>5, <1>6 DEF ServiceInv

LEMMA NextServiceInv == ServiceInv /\ [ServiceNext]_allVars => ServiceInv'
<1> SUFFICES ASSUME ServiceInv, [ServiceNext]_allVars PROVE ServiceInv'
  OBVIOUS
<1> USE DEF ServiceInv
<1>1. [Next]_vars /\ TypeOK
  BY ServiceStep DEF RemediationInv, IInv
<1>2. RemediationInv' /\ VerifiedResolution'
  BY <1>1, NextRemediationInv, VerifiedResolutionStep
<1>3. Recorded' /\ Mirror' /\ Beginning'
  BY RecordStep
<1>4. OwnTypes'
  BY <1>3, OwnTypesStep
<1>5. NoEndYet' /\ AnnouncedStageIsRecorded' /\ LastEndIsRecorded'
  BY EndsStep
<1>6. ResolutionIsVerified'
  BY ResolutionStep
<1> QED BY <1>2, <1>3, <1>4, <1>5, <1>6

LEMMA ServiceInvariant == ServiceSpec => []ServiceInv
BY InitServiceInv, NextServiceInv, PTL DEF ServiceSpec

(* The service's state keeps its type. *)
THEOREM ServiceTypeCorrect == ServiceSpec => []ServiceTypeOK
<1>1. ServiceInv => ServiceTypeOK
  <2> SUFFICES ASSUME ServiceInv PROVE ServiceTypeOK
    OBVIOUS
  <2>1. TypeOK /\ OwnTypes /\ Recorded
    BY DEF ServiceInv, RemediationInv, IInv
  <2>2. DOMAIN record = Fields /\ DOMAIN GraphState = Fields
    BY <2>1, GraphFields DEF Recorded
  <2>3. \A i \in DOMAIN chunks : DOMAIN chunks[i] \subseteq DOMAIN record
    BY <2>1, <2>2 DEF Recorded, ChunkOK
  <2>4. record.plan \in Plan \cup {None}
    BY <2>1 DEF Recorded, TypeOK
  <2> QED BY <2>1, <2>2, <2>3, <2>4 DEF ServiceTypeOK, OwnTypes, Recorded
<1> QED BY <1>1, ServiceInvariant, PTL

(* Whenever the task has merged what was streamed, the service's record is *)
(* the graph's state: no evidence of a parallel analyst is lost, whatever  *)
(* the order in which the analysts complete.                               *)
THEOREM RecordIsExact == ServiceSpec => []RecordFollowsGraph
<1>1. ServiceInv => RecordFollowsGraph
  BY MirrorExact DEF ServiceInv, RecordFollowsGraph
<1> QED BY <1>1, ServiceInvariant, PTL

(* The stage that was announced last is the one on record. *)
THEOREM AnnouncementsAgree == ServiceSpec => []AnnouncedStageIsRecorded
<1>1. ServiceInv => AnnouncedStageIsRecorded
  BY DEF ServiceInv
<1> QED BY <1>1, ServiceInvariant, PTL

(* The end that was announced last is the one on record, also when the     *)
(* work that follows a resolution fails.                                   *)
THEOREM EndsAgree == ServiceSpec => []LastEndIsRecorded
<1>1. ServiceInv => LastEndIsRecorded
  BY DEF ServiceInv
<1> QED BY <1>1, ServiceInvariant, PTL

(* A resolution is announced only of an incident whose recovery was        *)
(* verified, on the plan on record, and that was not rolled back.          *)
THEOREM ResolutionsAreVerified == ServiceSpec => []ResolutionIsVerified
<1>1. ServiceInv => ResolutionIsVerified
  BY DEF ServiceInv
<1> QED BY <1>1, ServiceInvariant, PTL

(* The running service keeps the promise of SafeRemediation. *)
THEOREM ServiceIsSafe == ServiceSpec => ImplementsSafeRemediation
BY ServiceRunsWorkflow, WorkflowIsSafe, PTL
=============================================================================
