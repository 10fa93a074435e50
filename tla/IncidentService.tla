---------------------------- MODULE IncidentService ----------------------------
(***************************************************************************)
(* The service that runs investigations                                    *)
(* (apps/api/services/incident_service.py), for one incident: the          *)
(* background task that streams the workflow's node outputs into the       *)
(* service's own record of the incident and announces them to clients, and *)
(* the approval requests that arrive meanwhile.                            *)
(*                                                                         *)
(* The graph's state and the service's record are two copies: a node's     *)
(* output is a chunk of the stream, merged when the task's loop reaches    *)
(* it.  LangGraph goes on to the next superstep, and ends, only when the   *)
(* loop has taken every chunk.  A publication never waits (its lock is     *)
(* never held across a suspension), so one round of the loop is one step.  *)
(***************************************************************************)
EXTENDS IncidentWorkflow

CONSTANTS
  Tier,         (* the tier the policy gave each planned action            *)
  Submissions   (* the decisions people may submit, with their claimed role *)

VARIABLES
  task,       (* where the background task is                              *)
  chunks,     (* node outputs the task has not merged                      *)
  record,     (* the service's IncidentState                               *)
  announced,  (* the stage in the last stage_change event                  *)
  decisions,  (* record.approval_decisions, with the role claimed          *)
  notices,    (* decisions whose publication is still a task to run        *)
  published   (* history: the other events published                       *)

Policy == INSTANCE RiskAssessment

serviceVars == <<task, chunks, record, announced, decisions, notices, published>>
allVars == <<vars, serviceVars>>

Choice == {"APPROVED", "REJECTED", "MODIFIED"}

ASSUME SubmissionAssumption ==
  Submissions \subseteq [decision : Choice, role : Policy!ApproverRole]

PlannedAction == UNION {{list[i] : i \in DOMAIN list} : list \in ActionLists}

ASSUME TierAssumption == Tier \in [PlannedAction -> Policy!RiskTier]

-----------------------------------------------------------------------------
(* execution_results: what the execution node returned when it completed,  *)
(* without the compensation of the verification node, which comes last.    *)
ExecutionResults ==
  LET executed == {i \in DOMAIN returned : returned[i].status # "ROLLED_BACK"}
  IN  IF "execution" \in running THEN <<>> ELSE [i \in executed |-> returned[i]]

(* What the graph knows and the record mirrors. *)
GraphState ==
  [stage |-> stage, evidence |-> evidence, selected |-> selected,
   critique |-> critique, iteration |-> iteration, plan |-> plan,
   results |-> ExecutionResults, verification |-> verification]

(* A node returns some fields of the state it leaves. *)
Emit(fields) == chunks' = Append(chunks, [f \in fields |-> GraphState'[f]])

(* An analyst returns what it adds to the evidence, not all there is. *)
EmitEvidence(items) == chunks' = Append(chunks, [evidence |-> items])

Streaming == task = "STREAMING"

StreamNode ==
  \/ Supervisor /\ Emit({"stage"})
  \/ \E a \in Analysts, items \in Findings :
       Analyst(a, items) /\ EmitEvidence(items)
  \/ JoinEvidence /\ Emit({"stage"})
  \/ \E hypotheses \in Diagnoses, primary \in HypothesisId :
       Rca(hypotheses, primary) /\ Emit({"stage", "selected"})
  \/ \E decision \in Decision :
       /\ Critic(decision)
       /\ Emit(IF selected = None THEN {"stage"}
               ELSE {"stage", "critique", "iteration"})
  \/ \E actions \in ActionLists :
       /\ RemediationPlanning(actions)
       /\ Emit(IF selected = None THEN {"stage"} ELSE {"stage", "plan"})
  \/ SkipExecution /\ Emit({"stage"})
  \/ /\ ExecuteNextAction
     /\ IF "execution" \in completed' THEN Emit({"stage", "results"})
                                      ELSE UNCHANGED chunks
  \/ \E assessment \in Assessment :
       Verification(assessment) /\ Emit({"stage", "verification"})

(* The exception of a node drops the outputs of nodes that completed with  *)
(* it and were not streamed yet.                                           *)
StreamRaises ==
  /\ \E n \in Node : NodeRaises(n)
  /\ chunks' = <<>>

EndSuperstep ==
  /\ chunks = <<>>
  /\ NextSuperstep \/ Finish
  /\ UNCHANGED chunks

GraphStep ==
  /\ Streaming
  /\ StreamNode \/ StreamRaises \/ EndSuperstep
  /\ UNCHANGED <<task, record, announced, decisions, notices, published>>

-----------------------------------------------------------------------------
(* create_incident and the background task. *)
CreateIncident ==
  /\ task = "NONE"
  /\ task' = "CREATED"
  /\ UNCHANGED <<vars, chunks, record, announced, decisions, notices,
                 published>>

(* The task announces the planning stage before the graph has begun. *)
StartInvestigation ==
  /\ task = "CREATED"
  /\ task' = "STREAMING"
  /\ announced' = "PLANNING"
  /\ UNCHANGED <<vars, chunks, record, decisions, notices, published>>

(* A faulty merge, which replaces the evidence like any other field. *)
MergeByReplacing(chunk) == [f \in DOMAIN record |->
  IF f \in DOMAIN chunk THEN chunk[f] ELSE record[f]]

Merge(chunk) == [f \in DOMAIN record |->
  IF f \notin DOMAIN chunk THEN record[f]
  ELSE IF f = "evidence" THEN record.evidence \cup chunk.evidence
  ELSE chunk[f]]

(* A faulty round of the loop: the stage is announced before the merge. *)
AnnounceThenMerge ==
  /\ Streaming /\ chunks # <<>>
  /\ record' = Merge(Head(chunks))
  /\ chunks' = Tail(chunks)
  /\ announced' = record.stage
  /\ UNCHANGED <<vars, task, decisions, notices, published>>

MergeChunk ==
  /\ Streaming /\ chunks # <<>>
  /\ record' = Merge(Head(chunks))
  /\ chunks' = Tail(chunks)
  /\ announced' = record'.stage
  /\ UNCHANGED <<vars, task, decisions, notices, published>>

(* A faulty end: whatever ended without an exception is resolved. *)
ResolveWhateverEnds ==
  /\ Streaming /\ chunks = <<>> /\ outcome = "END"
  /\ task' = "INDEXING" /\ published' = Append(published, "resolved")
  /\ UNCHANGED <<vars, chunks, record, announced, decisions, notices>>

(* The stream is exhausted: a resolution is announced and its report given *)
(* to the memory, any other end passes in silence.                         *)
EndStream ==
  /\ Streaming /\ chunks = <<>> /\ outcome = "END"
  /\ \/ /\ record.stage = "RESOLVED"
        /\ task' = "INDEXING"
        /\ published' = Append(published, "resolved")
     \/ /\ record.stage # "RESOLVED"
        /\ task' = "DONE"
        /\ UNCHANGED published
  /\ UNCHANGED <<vars, chunks, record, announced, decisions, notices>>

IndexReport ==
  /\ task = "INDEXING"
  /\ task' = "DONE"
  /\ UNCHANGED <<vars, chunks, record, announced, decisions, notices,
                 published>>

(* Faulty handlers: one for the report only, without which the graph's     *)
(* exceptions kill the task, and one that leaves the stage alone.          *)
FailOnlyIndexing ==
  /\ task = "INDEXING"
  /\ task' = "DONE"
  /\ record' = [record EXCEPT !.stage = "FAILED"]
  /\ published' = Append(published, "failed")
  /\ UNCHANGED <<vars, chunks, announced, decisions, notices>>

FailWithoutStage ==
  /\ \/ Streaming /\ chunks = <<>> /\ outcome = "ERROR"
     \/ task = "INDEXING"
  /\ task' = "DONE"
  /\ published' = Append(published, "failed")
  /\ UNCHANGED <<vars, chunks, record, announced, decisions, notices>>

(* An exception of the graph, or of the embedding of the report after the  *)
(* resolution was announced: the incident has failed.                      *)
FailInvestigation ==
  /\ \/ Streaming /\ chunks = <<>> /\ outcome = "ERROR"
     \/ task = "INDEXING"
  /\ task' = "DONE"
  /\ record' = [record EXCEPT !.stage = "FAILED"]
  /\ published' = Append(published, "failed")
  /\ UNCHANGED <<vars, chunks, announced, decisions, notices>>

InvestigationStep ==
  \/ StartInvestigation
  \/ GraphStep
  \/ MergeChunk
  \/ EndStream
  \/ IndexReport
  \/ FailInvestigation

-----------------------------------------------------------------------------
(* The action an approval id names: the first of the recorded plan. *)
Names(id, a) ==
  \E i \in DOMAIN record.plan.actions :
    /\ a = record.plan.actions[i] /\ a.id = id
    /\ \A j \in DOMAIN record.plan.actions : j < i => record.plan.actions[j].id # id

DecisionsOn(id) == {i \in DOMAIN decisions : decisions[i].action = id}

Decide(id, submission) ==
  /\ decisions' = Append(decisions, [action |-> id, decision |-> submission.decision,
                                     role |-> submission.role])
  /\ notices' = notices \cup {id}
  /\ UNCHANGED <<vars, task, chunks, record, announced, published>>

(* Faulty submissions: a second decision on an action is taken, and the    *)
(* role is not checked.                                                    *)
SubmitAgain(id, submission) ==
  /\ record.plan # None
  /\ \E a \in PlannedAction : Names(id, a) /\ Policy!Authorized(Tier[a], submission.role)
  /\ Len(decisions) < 2
  /\ Decide(id, submission)

SubmitUnchecked(id, submission) ==
  /\ record.plan # None
  /\ \E a \in PlannedAction : Names(id, a)
  /\ DecisionsOn(id) = {}
  /\ Decide(id, submission)

(* A decision is taken in whatever stage the incident is, once per action. *)
SubmitApproval(id, submission) ==
  /\ record.plan # None
  /\ \E a \in PlannedAction : Names(id, a) /\ Policy!Authorized(Tier[a], submission.role)
  /\ DecisionsOn(id) = {}
  /\ Decide(id, submission)

(* The publication that was left to a task of its own. *)
PublishDecision(id) ==
  /\ id \in notices
  /\ notices' = notices \ {id}
  /\ published' = Append(published, "approval_decision")
  /\ UNCHANGED <<vars, task, chunks, record, announced, decisions>>

-----------------------------------------------------------------------------
ServiceInit ==
  /\ Init
  /\ task = "NONE"
  /\ chunks = <<>>
  /\ record = GraphState
  /\ announced = None
  /\ decisions = <<>>
  /\ notices = {}
  /\ published = <<>>

ServiceNext ==
  \/ CreateIncident
  \/ InvestigationStep
  \/ \E id \in ActionId :
       \/ \E submission \in Submissions : SubmitApproval(id, submission)
       \/ PublishDecision(id)

ServiceSpec == ServiceInit /\ [][ServiceNext]_allVars

(* The event loop runs every task that is ready, and every call the        *)
(* investigation awaits ends.                                              *)
FairServiceSpec ==
  /\ ServiceSpec
  /\ WF_allVars(InvestigationStep)
  /\ WF_allVars(\E id \in ActionId : PublishDecision(id))

-----------------------------------------------------------------------------
Terminal(event) == event \in {"resolved", "failed"}

(* The given end is the last one published. *)
LastEnd(event) ==
  \E i \in DOMAIN published :
    /\ published[i] = event
    /\ \A j \in DOMAIN published : Terminal(published[j]) => j <= i

(* The status get_approvals lists: that of the last decision on the id. *)
Listed(id) ==
  IF DecisionsOn(id) = {} THEN "PENDING"
  ELSE decisions[CHOOSE i \in DecisionsOn(id) :
                   \A j \in DecisionsOn(id) : j <= i].decision

(* Type invariant of the service's own state. *)
ServiceTypeOK ==
  /\ TypeOK
  /\ task \in {"NONE", "CREATED", "STREAMING", "INDEXING", "DONE"}
  /\ DOMAIN record = DOMAIN GraphState
  /\ \A i \in DOMAIN chunks : DOMAIN chunks[i] \subseteq DOMAIN record
  /\ record.stage \in Stage
  /\ record.evidence \subseteq EvidenceId
  /\ record.plan \in Plan \cup {None}
  /\ announced \in Stage \cup {None}
  /\ decisions \in Seq([action : ActionId, decision : Choice, role : {"OPERATOR", "ADMIN"}])
  /\ notices \subseteq {decisions[i].action : i \in DOMAIN decisions}
  /\ published \in Seq({"approval_decision", "resolved", "failed"})

(* Whenever the task has merged what was streamed, its record is the       *)
(* graph's state: no output of a parallel analyst is lost or overwritten,  *)
(* in whatever order they completed, and no round is mixed with another.   *)
RecordFollowsGraph ==
  Streaming /\ chunks = <<>> /\ outcome # "ERROR" => record = GraphState

(* A client that follows the events knows the stage of the record, but for *)
(* the planning announced in advance and the failure it is told otherwise. *)
AnnouncedStageIsRecorded ==
  announced # None =>
    \/ announced = record.stage
    \/ announced = "PLANNING" /\ record.stage = "CREATED"
    \/ LastEnd("failed") /\ record.stage = "FAILED"

(* The last end that was announced is the one the record has to this day,  *)
(* also when the work after a resolution fails.                            *)
LastEndIsRecorded ==
  /\ LastEnd("resolved") => record.stage = "RESOLVED"
  /\ LastEnd("failed") => record.stage = "FAILED"

(* A resolution is announced only of an incident whose recovery the graph  *)
(* verified, on the plan on record, and that was not rolled back.          *)
ResolutionIsVerified ==
  "resolved" \in {published[i] : i \in DOMAIN published} =>
    /\ outcome = "END"
    /\ record.verification = verification
    /\ verification # None /\ verification.status = "RECOVERED"
    /\ record.plan = plan
    /\ \A i \in DOMAIN returned : returned[i].status # "ROLLED_BACK"

(* Once an action is listed as decided, the listing never changes: not by  *)
(* a second approver, and not by a later stage of the investigation.       *)
DecisionsStand ==
  [][\A id \in ActionId : Listed(id) # "PENDING" => Listed(id)' = Listed(id)]_allVars

(* The graph of every investigation ends, also when the critic asks for    *)
(* more evidence forever or the model stops proposing hypotheses after it  *)
(* has.                                                                    *)
Termination == task = "STREAMING" ~> outcome # "RUNNING"

(* Every investigation's task comes to its end, however the graph ends. *)
InvestigationEnds == task = "CREATED" ~> task = "DONE"

(* What the architecture document and the README say of risky actions:     *)
(* they are executed only when they were approved.                         *)
HighRiskAwaitsApproval ==
  \A i \in DOMAIN returned :
    /\ returned[i].status = "SUCCESS"
    /\ Tier[returned[i].action] \in {"HIGH", "CRITICAL"}
    => \E j \in DOMAIN decisions :
         /\ decisions[j].action = returned[i].action.id
         /\ decisions[j].decision # "REJECTED"
=============================================================================
