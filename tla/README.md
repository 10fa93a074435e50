# OpsPilotAI: specifications, model checks and proofs

TLA+ modules for the core of OpsPilotAI, the configurations that model-check
them with TLC, and theorems about them checked by TLAPS. `PROJECT.json` maps
each definition to the source lines it stands for, and lists the runs, the
hazards, the findings and the theorems.

    tlc -workers 2 -config IncidentService.cfg MCIncidentService
    tlapm IncidentWorkflowProofs.tla

## The system

OpsPilotAI investigates production incidents with language-model agents. An
alert arrives over HTTP; a background task runs a LangGraph state machine whose
nodes are agents; four analysts gather evidence in parallel, an RCA agent
proposes hypotheses, a critic judges the chosen one, a planner proposes
remediation actions, a policy rates them, a runner carries them out through a
tool registry, and a verifier decides whether the incident is resolved or the
last action must be undone. Meanwhile a service mirrors the state of the graph,
publishes events to browsers over server-sent events, and takes approval
decisions. Everything runs in one process on one asyncio event loop, and all
state is in memory.

| Component | Source | State | Operations |
| --- | --- | --- | --- |
| Incident state | `src/domain/state.py` | the fields of `IncidentState` | written by the nodes |
| Workflow | `src/orchestration/graph.py` | the graph's copy of `IncidentState`, LangGraph's schedule | 11 nodes, the route after the critic |
| Agents | `src/agents/*.py` | none | ask a model, may raise |
| Execution runner, tool registry | `src/safety/execution_runner.py`, `src/tools/registry.py` | executed idempotency keys | `execute_action`, `execute_rollback`, `invoke` |
| Risk policy, topology | `src/safety/policy.py`, `simulator/services/topology.py` | the service graph | `assess_action_risk`, `authorize_approval` |
| Incident service | `apps/api/services/incident_service.py` | records, background tasks, decisions | `create_incident`, `_run_investigation`, `submit_approval`, queries |
| Event broker | `apps/api/services/event_stream.py` | recent events and client queues per incident | `publish`, `subscribe` |
| Routes and schemas | `apps/api/routes`, `apps/api/schemas` | none | one call of the service each |
| Model router, providers | `src/llm` | cumulative usage | `generate_structured` with retries and failover |
| Episodic memory | `src/memory` | two managers, each with vector documents and a seeded flag | seed, budgeted search, `auto_index_to_memory` |
| Reporting | `src/reporting` | none | the report of an incident's record |
| Simulator | `simulator/` | active scenario, service status, code repository, telemetry | `reset`, `load_scenario`, `execute_action` |
| Investigation tools | `src/tools` | none | queries of the simulator and of memory |
| Evaluation | `src/evaluation/runner.py` | the marks of the trials | `evaluate_scenario` for one scenario after the other |
| Web client | `apps/web/js` | the incident shown, the list, the current stream and its reconnection timer | start up, select, create, subscribe, reconnect |
| Persistence, configuration, logging | `src/persistence`, `alembic`, `src/core`, `src/observability` | - | - |

### How the parts interact

* The routes call the service, or subscribe to the broker.
* The service's task iterates over `graph.astream`. The graph keeps its own copy
  of the state; the task merges every node's output into the service's record
  and publishes what it merged. The record, not the graph, answers the queries
  and takes the decisions on approvals.
* The nodes call agents; the agents call the model router and read the
  simulator through tools. The planner passes every action through the policy.
* The execution node hands the plan to the runner, which calls the registry,
  which checks the role and calls a tool that acts on the simulator.
* The memory analyst searches the past incidents through a tool. There are two
  memory managers: the tool's, and the one the service indexes reports into.
* The evaluation runs the agents on one scenario of the simulator after the other.
* The page loads a list, gets an incident, and subscribes to its stream. All
  answers are awaited, and come in any order.

### What is hard here, and what correctness means

* **Parallel analysts.** Four nodes complete in any order, one may raise while
  others have completed, and the join must see exactly one report of each, in
  every round. Correct: `JoinSeesEveryAnalyst`.
* **Rounds.** The critic may send the graph back. What an earlier round left
  behind (critique, hypothesis, count) is read again. Correct: a plan rests on
  the critic's approval of the hypothesis that is selected now and on collected
  evidence (`GroundedPlan`), the critic's model is asked a bounded number of
  times (`IterationsBounded`), and the run ends (`Termination`).
* **Effects.** Actions fail, are skipped as already done, and are undone. Correct:
  nothing is called that is not in the plan (`EffectsFollowPlan`,
  `ImplementsSafeRemediation`), a keyed call succeeds at most once
  (`AtMostOnce`), and reports are backed by calls (`SuccessMeansApplied`,
  `SuccessIsBacked`, `KeysAreSuccesses`).
* **Two copies of the state.** Correct: the record follows the graph
  (`RecordFollowsGraph`), the announcements follow the record
  (`AnnouncedStageIsRecorded`, `LastEndIsRecorded`), and a resolution is real
  (`ResolutionIsVerified`).
* **Approvals** arrive at any time, twice, or after the fact. Correct: what is
  listed as decided stands (`DecisionsStand`).
* **Event streams.** Clients join late, are slow, time out and leave. Correct:
  each reads a gapless part of the log, up to its end (`GaplessDelivery`,
  `NothingAfterTerminal`, `TerminalEndsStream`, `ListsOpenStreams`,
  `HistoryIsRecent`, `ImplementsFeed`).
* **Shared memory.** Two first searches may both find the memory unseeded and
  seed it while the other awaits an embedding; any embedding may fail. Correct:
  seeding is all or nothing (`SeedingIsAtomic`), and whoever searches meanwhile
  finds what is known of the service asked for (`SearchFindsItsService`). How much
  goes into a prompt is not stated: the budget counts texts that no prompt holds.
* **Providers** refuse, time out and are retried, for several agents at once.
  Correct: each is tried to its limit, in order (`FailoverInOrder`), and each call
  ends once with only answers charged (`ImplementsModelCalls`).
* **One simulator for many trials.** Correct: nothing of a trial is left for
  the next (`TrialsAreFresh`), the services' status and the scenario's metrics
  and own log show a recovery when it was earned and not otherwise
  (`RecoveryIsEarned`), and the two marks of a plan, which reckon with
  different sets of services, agree (`ValidIsContained`).
* **The page** has one stream and one timer at most, for the incident it shows,
  whatever order answers, errors and clicks come in (`OneStream`), and comes back
  to a server that comes back, or says it gave up (`StreamComesBack`).
* **Thresholds.** Scores saturate and tiers meet at boundaries. Correct:
  `WiderIsNotCheaper`, `DestructiveNeedsAdmin`.

Every hazard is listed at its line in `PROJECT.json`, with the properties that
guard it or the reason there is none.

## The modules

```
  SafeRemediation            EventFeed              RiskAssessment
     ^ refines                 ^ refines              ^          ^ instance
  IncidentWorkflow          EventBroker           RiskPolicy     |
     |        ^ extends                              |           |
  ExecutionRunner   IncidentService -----------------+-----------+

  RiskAssessment <- FailureScenarios <- SimulationEngine <- Benchmark     (extends)
  EpisodicMemory <- MemoryAnalyst -> ModelRouter - refines -> ModelCalls  (extends)
  StreamConsumer <- WarRoom                                               (extends)
```

**ExecutionRunner** models the runner and the registry's role check. The
variable `executedKeys` is the code's set of keys; `dispatched` and `returned`
are histories of the calls that reached a tool and of the results. Within one
incident the hash that is the idempotency key is taken to be injective, so the
key is the call. `ExecuteAction` is one step because a runner belongs to one
graph run, whose nodes await each call. `ExecuteRollback` is the code's: it
builds the compensating action, with the forward action's key where the code
copies it, runs `execute_action`, and reports ROLLED_BACK whatever came back.

**IncidentWorkflow** models one graph run. Each node is an action whose primed
variables are the fields the node returns. `running`, `completed` and
`superstep` are LangGraph's schedule: all scheduled nodes run concurrently, the
next superstep begins when the last has completed, and a superstep beyond the
recursion limit raises. `NodeRaises` is an agent whose providers are exhausted,
for exactly the nodes that ask a model. What models answer is chosen from the
constants `Findings`, `Diagnoses`, `ActionLists` and from the schema's values.
Evidence is a set of ids, which is what the critic's check of citations reads.
It instantiates ExecutionRunner with its own variables.

**SafeRemediation** is what an investigation promises: facts are learnt, one
diagnosis resting on known facts is settled on, one proposal is made for it, and
every effect is a call of that proposal or the compensation of its last action.

**RiskAssessment** holds the policy's rules, as operators over any topology.
Scores are integers in hundredths: for each of the six base risks and each
number of services, the code's floating-point sums fall on the same side of
each threshold. **RiskPolicy** is the state machine around them: actions come
from the model with a tier of its choice, are assessed, and are approved.
Payloads that match the destructive pattern are a flag.

**IncidentService** extends IncidentWorkflow with the service: `record` is its
copy of the state, `chunks` are the node outputs the stream has not delivered,
`task` is where the background task is, `announced` the stage clients were told
last, `decisions` the approvals (with the role that was claimed, which the code
checks and does not keep), `notices` the publications left to tasks of their own,
and `published` a history. A `GraphStep` is a workflow step and the chunk it
emits, which has exactly the fields the node returns; `MergeChunk` is one round
of the `astream` loop; `EndSuperstep` waits for the loop to have taken all
chunks, as LangGraph does; `EndStream`, `IndexReport` and `FailInvestigation` are
the rest of the coroutine. `NodeRaises` loses the chunks that were not streamed
yet. Embedding the report may fail because embedding providers call a network
service.

**EventBroker** models the broker with all its clients. A generator is suspended
in `queue.get()` under the heartbeat's timeout or at a yield; `Heartbeat` may
expire although an item has arrived, since the timeout cancels `get()` before it
takes the item. `published`, `received` and `since` are histories. **EventFeed**
is its promise: a log that each reader reads alone, from a recent point on.

**ModelRouter** models `generate_structured`: `call` says for each call of an
agent which provider it awaits and in which attempt; a remote provider answers or
raises, the mock does what it was built for; a retry follows at once.
`DefaultChain` is the chain that the configured keys give. **ModelCalls** is what an agent relies on, and what IncidentWorkflow
assumes: an answer or an exception, once, with only answers on the account.

**EpisodicMemory** models both memory managers. A search is suspended at each
`embed`: once per seed while it seeds, then for its query; `search` says where it
is, so that seeding, searching and indexing interleave at exactly these points.
`Results` and `Budgeted` are the store's search with its fallback and the context
budget; scores are chosen freely. Which manager the tool asks (`SearchedBy`) and
which one reports go to (`IndexesInto`) are two definitions, because they differ:
no report is ever found by a search (the run *reports_recalled*). The budget ends
the list of results; the text of the last one is cut as well, which is left out,
since matches and prompt are made of the documents' metadata. **MemoryAnalyst** composes the memory with
the router, as the memory analyst does: a search, which may fail without harm,
and then a call to the router, beside other agents' calls and the service's
indexing.

**FailureScenarios** is the simulator's catalogue: for each of the ten scenarios,
the services it degrades, the series and logs it writes, the changes it plants
and which actions it takes for a remedy. One of them logs for a second service,
during the incident only and two seconds past each record: its `echoes`.
**SimulationEngine** is the engine.
Telemetry is kept as batches (a window in seconds, the series filled, the services
logged for, whether they show background, incident or recovery); `NewestMetric`
and `NewestLog` are the stores' queries with a limit of one, which is what tells an
agent that a service has recovered - or not: the echoing service's newest log
remains the incident's, and `RecoveryIsEarned` says so. `succeeded` is a history. **Benchmark** is the evaluation: a trial
loads a scenario, gets any plan, runs it with the runner's skipping of what has
succeeded, may compensate the last action, and marks the plan.

**StreamConsumer** models the page's stream class as functions on its state,
because one turn of the browser's event loop may call several of its methods.
`sources` and `timers` are what the browser holds, `eventSource` and
`reconnectTimeout` the class's handles into them: a leaked stream would stay in
the sets. **WarRoom** is the page around it, with its requests in flight, the
user, and a server that may be unreachable, restart and forget.

The `MC*` modules give the constants values. Definitions introduced by a comment
"A faulty ..." are not part of any specification: they are plausible errors,
and each property is shown to fail when one of them takes the place of the
definition it varies.

## What is checked

| Run | Module, config | States | Shows |
| --- | --- | --- | --- |
| execution_runner | MCExecutionRunner | 0.9 M steps | the runner's memory is exact and idempotent |
| risk_policy | MCRiskPolicy | 106,112 | tiers are monotone, destruction needs an administrator |
| memory_analyst | MCMemoryAnalyst | 623,794 | seeding is all or nothing, searches find their service, failover is in order, ModelCalls is implemented |
| benchmark | MCBenchmark | 572,306 | trials are fresh, recovery is earned, the marks agree |
| war_room | WarRoom | 32,356 | the page holds one stream, and it comes back |
| incident_service | MCIncidentService | 294,282 | the workflow in the running service: plans are grounded, effects follow plans, SafeRemediation is implemented; the record follows the graph, announcements follow the record, decisions stand; the graph and the task end |
| event_broker | MCEventBroker | 135 k | delivery is gapless and ends, EventFeed is implemented |

Bounds, and why they are enough:

* *execution_runner*: three calls (`MaxCalls`), by permitted and denied callers,
  over a revertible, a not revertible and an unregistered action type. Three
  calls are an execution, its retry or rollback, and a call after that; keys
  interact pairwise.
* *risk_policy*: reaches of one to four services, which is where the penalty
  begins and where it saturates; two actions, since the property compares two.
* *incident_service*: the code's three iterations, further rounds that do not
  count, and LangGraph's limit of 25 supersteps; findings of nothing, of one item
  and of another, so that a branch may miss what another found; no diagnosis, or
  two hypotheses of which either is the primary one, resting on one finding or on
  both; plans that are empty, have an action without a tool, repeat a call, or
  differ only in arguments; actions of the tiers MEDIUM, HIGH and CRITICAL; an
  approver without the role, one with it up to HIGH, and one for all. Decisions
  are bounded by the code itself: one per action.
* *resolved_means_remediated* and *rounds_bounded* need the graph alone, on the
  instance of MCIncidentWorkflow.
* *event_broker*: a buffer of two and four events, so that events are dropped;
  two clients of one incident and one of another; a terminal event may come at
  any place, and events may follow it.

* *memory_analyst*: two searches, since seeding races pairwise, a report, and
  one more agent at the router; two of the five seeds, with their real lengths of
  1193 and 1052 characters, and the real budget of 2400 and `top_k` of 3, so that
  a doubly seeded memory overflows it; the services of the two seeds and one that
  no seed but the report is about, which takes the fallback; two providers, one that fails at
  will and the mock, with the code's two attempts each.
* *benchmark*: two trials, since what is left over passes from one to the next:
  any scenario after itself and after the two scenarios that leave most behind;
  plans of at most two actions, over every remedy, the restart that succeeds
  without remedying, actions that always succeed, fail, or have no tool; five
  minutes may pass between any two steps, so that a recovery may be dated later
  than what follows it.
* *war_room*: two incidents, three reconnection attempts instead of ten, since
  the number only sets when the page gives up, and three requests in flight.
  Three incidents (698,654 states) pass as well.

Deadlock is not checked where the system may stop: a run that has ended, a client
that has left, a bound that is reached.

### Fairness

* IncidentService, with the workflow in it: weak fairness of the investigation and
  of the publications, which are asyncio tasks of one loop. Every call the
  investigation awaits ends: provider clients have timeouts, retries are counted,
  tools are local. Nothing is assumed about which answer a model gives, nor of
  approvers.
* EventBroker: weak fairness, per client, of starting, waking and resuming: the
  loop runs generators that can go on, and a client that stays connected reads.
  Heartbeats and disconnections are not fair. A client that reads slowly is
  covered, since publishing is not bound to its progress.

* MemoryAnalyst: weak fairness of a provider's return, per call: each request has
  a time limit. Nothing is assumed of embeddings or of who asks.
* WarRoom: weak fairness of opening, of errors and of timeouts, which are the
  browser's. Nothing is assumed of the user, of answers or of the server;
  `StreamComesBack` is about those servers that stay within reach.

### Where documents and code differ

Each of these runs checks one statement of the documents, which TLC refutes.

| Run | Statement | What the code does |
| --- | --- | --- |
| high_risk_awaits_approval | high-risk actions interrupt the graph and await approval (docs/architecture.md:10, 358) | the execution node reads no decision; a HIGH or CRITICAL action is executed with nobody asked |
| rollback_skipped | automated compensation rollbacks (README.md:22) | a compensation that keeps the forward action's key is skipped as already executed and reported ROLLED_BACK |
| resolved_means_remediated | "Remediation was executed and verified" (postmortem.py:72) | RESOLVED follows from the verifier's assessment alone, with an empty plan or failed actions too |
| rounds_bounded | the loop back is taken on fewer than MAX_ITERATIONS loops (docs/architecture.md:119) | a round without a hypothesis does not count and keeps the old critique |
| reports_recalled | what is learnt is embedded and stored "for future RAG retrieval" (docs/architecture.md:134-137, README.md:75) | the service indexes its reports into one manager, the search tool asks another (memory_tools.py:20, registry.py:45) |

Further differences met while modelling, which are in the models as the code has
them and have no run:

* An OPERATOR may approve HIGH (policy.py:141); docs/architecture.md:502-503
  gives HIGH to ADMIN. `Authorized` is the code's rule, and no property claims
  that it is the documents'.
* Past incidents in a prompt are "compressed to 500 tokens maximum"
  (docs/architecture.md:462). The code counts the characters of the documents'
  texts, 2400 of them, to end the list; the prompt is then made of metadata, uncut
  (memory_tools.py:36-51, episodic.py:156-175), and nothing counts tokens.
* Two first searches may seed the memory twice. Only an embedding provider that
  suspends lets it happen; the default one, which computes its vectors, does not.
* The verifier asks for `http_request_duration_p95_seconds` (verifier.py:50), which
  no scenario writes, and for no baseline: it sees background traffic, recovered or
  not, where docs/architecture.md:132 has it compare with what was before.
* During the Redis incident the gateway is logged for as well
  (redis_pool_exhaustion.py:102-110), after the recovery it is not: its newest log
  is the incident's although it is healthy. `RecoveryIsEarned` states it.
* An incident whose report cannot be embedded fails after it was announced as
  resolved; streams that ended with the resolution are not told.
* Nothing in the API process loads a scenario, so every remediation there fails
  with "No active scenario"; only the evaluation loads one.
* The "Remediation Validity Rate" and "Safety Compliance Rate" of 100.0%
  (README.md:186-187) are over all scenarios; the offline plan always rolls back
  `payment`, which only three of the ten affect.
* The server names each event it sends, and the page listens to unnamed ones
  only, so the stream changes nothing on the page but its indicator.
* The server closes a stream when an incident has ended. The page takes that for
  an error, reconnects, and since opening resets the attempts it does so for
  as long as the incident is shown (`StreamComesBack` is about running ones).
* The page reads `res.evidence`, `res.hypotheses` and `res.approvals` where the
  routes answer with lists, and `markdown_content` where they answer with
  `full_markdown`: panels stay empty and no approval dialog opens.

## What is proved

The theorems hold for all values of the constants that satisfy the named
assumptions of the modules. Every safety property of the passing runs, every
action property and both refinements of whole state machines are proved; what
stays with TLC is at the end of this section.

* **ExecutionRunnerProofs**: `TypeCorrect`, `ExactKeys`, `Idempotent`,
  `BackedSuccess`. At most one success per key follows only because the memory
  holds the key of every success so far, and so does the backing of a success
  that was skipped; the invariant is the conjunction of these.
  Assumptions: compensation maps arguments to arguments, and the empty key is
  no action's key.
* **IncidentWorkflowProofs**: `TypeCorrect`, `PlansAreGrounded`,
  `NoAnalystMissing`, `IterationBound`. The properties are not inductive. The
  invariant `IInv` adds `Layered` (which nodes can share a superstep: the
  analysts, or one other node alone), `Counted` (how often each analyst has
  reported relative to the supervisor, depending on the layer), `Iterated` (the
  count is below the maximum wherever another critique may come) and
  `Approval` (from the critic's approval on, neither the hypothesis nor the
  evidence it rests on is replaced by an earlier layer).
  Then the remediation: `PlanIsFollowed`, `SuccessIsApplied`,
  `WorkflowDrivesRunner`, `WorkflowIsIdempotent` and the refinement
  `WorkflowIsSafe`. `RemediationInv` adds `Progress` (which nodes may still run
  once a plan exists, and how much of it the runner has been handed at each) and
  `KeysNameCalls` (a call was dispatched with the key that names it). The
  compensation of an action carries the forward action's key where the code
  copies it; that it never passes for the forward call rests on its coming last.
  `WorkflowDrivesRunner` shows each node to be a step of the runner's own
  specification or none, which is what lets the runner's theorems be cited. The
  refinement maps `dispatched` to the abstract effects, and goes action by
  action: the critic's approval is the settlement, the planner's answer the
  proposal, execution and verification its effects, everything else learns a
  fact or stutters.
  Assumptions: the model's answers have the schema's types, both limits are
  positive, and `None` is no answer.
* **RiskPolicyProofs**: `TypeCorrect`, `OnlyAdminDestroys`, `TiersAreMonotone`,
  for any finite set of services and any topologies. The invariant says that an
  assessed action has the tier of its assessment and that a grant was authorized
  for that tier; lemmas show that reach is a number, and score and tier monotone.
* **EventBrokerProofs**: `TypeCorrect`, `RecentHistory`, `Gapless`,
  `TerminalIsLast`, `NoQueueLeaks`, and the refinement `BrokerIsFeed`, for any
  number of incidents, clients and any buffer size. `InStep(s)` states client by
  client that receipts, then queue, are a contiguous part of the log, which
  needs the history to be the log's end and the broker's list to be exactly
  the open streams.
* **IncidentServiceProofs**: `ServiceRunsWorkflow`, that the service implements
  IncidentWorkflow's specification, so that what is proved of the workflow is
  true of the running service (`ServicePlansAreGrounded`, `ServiceIsSafe`);
  `ListingsStand`, from the invariant that an action has at most one decision;
  and the service's own invariants: `ServiceTypeCorrect`, `RecordIsExact`,
  `AnnouncementsAgree`, `EndsAgree`, `ResolutionsAreVerified`. None is inductive. `Mirror` says what the record will be
  when the chunks under way are merged: each field is the graph's or is in a
  chunk still to come, the last of which decides, and the evidence is what the
  record and the chunks hold together, so that the order in which analysts
  complete does not matter. `Recorded` types record and chunks, `Beginning`
  and `NoEndYet` fix what is known before the stream and before its end, and
  `VerifiedResolution` keeps a stage of RESOLVED with the verification it rests
  on.
* **MemoryAnalystProofs**: `FailoverIsInOrder`, `RouterKeepsCalls` (the safety part
  of ModelCalls) and `SeedingAllOrNothing`, for any calls, chain, number of
  attempts, seeds and searches. The router's invariant adds that a call not yet made
  stands at the start of the chain with nothing refused; without it nothing is known
  of where a call begins. Seeding rests on lemmas that storing the seeds adds one
  copy of each, and that a report adds none.
  Then `MemoryTypeCorrect` and `SearchesFindTheirService`, which need what the
  store's ranking and the budget compute: that a ranking of any finite number of
  documents by any scores exists and draws on the candidates, and that the budgeted
  list is a first part of it and never empty. The lemmas argue by the least
  counterexample, taken from the library's well-founded orderings, so no fact
  about sorting is assumed. `MemoryInv` adds that whoever has come to its query does
  so in a seeded memory, which holds every seed.
  Assumptions: the seeds are different documents, none is a report, every
  search is a call, and scores are integers.
* **BenchmarkProofs**: `FreshTrials`, `MarksAgree` and `EarnedRecovery`, for any
  lists of scenarios, any plans and any passing of time, over all ten scenarios as
  they are. The invariant adds that a trial under way is on the scenario of its
  place in the list, and that the store holds batches of the generator only.
  `AffectedAreNear` is the fact about the catalogue behind `MarksAgree`: where a
  scenario affects two services, they are neighbours in the topology. Behind
  `EarnedRecovery` are `Story` (the store holds the background, then batches of
  the active scenario alone, none dated later than the last, which shows whether it
  is over), `EchoesAreForOthers` (the second service is never the one whose
  log shows the recovery) and `Earned` (the engine's flag says that a remedy has succeeded).
* **WarRoomProofs**: `PageHoldsOneStream`, for any incidents, attempts and
  requests in flight. The invariant `Shape` says in which four ways a page can
  stand: with nothing before its first incident, with nothing when it has given
  up, with the EventSource its handle names, or with the timeout its handle names;
  disconnecting leaves nothing from each of them, which is why nothing leaks.

Only model-checked: liveness under fairness, which the prover does not reach:
`Termination`, `TerminalEndsStream`, `InvestigationEnds`, `StreamComesBack`, and
the fairness of `ImplementsModelCalls`, whose safety part is `RouterKeepsCalls`.

## What is not modelled

* Prompts, the content of answers, the values of telemetry, the similarity mark
  and averages of the evaluation, reports and the rendering of pages: data.
* The page's panels. They are filled by later requests, whose late answers may
  replace what belongs to the incident shown now (app.js:415). Nothing in the code
  prevents it, so there is no property; it is listed among the hazards.
* The catch branch of the stream class's `_connect` (its URL always parses), and
  loading a scenario of an unknown id, which the evaluation cannot do.
* HTTP: each route is one call of a modelled operation.
* Persistence: no service uses the database models; a restart loses everything,
  so there is nothing to recover. What a page makes of such a server is in WarRoom.
* Several incidents in one service model: they share the broker and the memory,
  which are modelled with several clients each, and nothing else.
* Configuration and logging; the status of services in the policy's topology,
  which the policy does not read.

## Plan

1. Done: ExecutionRunner, IncidentWorkflow and SafeRemediation, EventBroker and
   EventFeed, RiskAssessment and RiskPolicy, IncidentService, and their proofs.
2. Done: EpisodicMemory, ModelRouter and ModelCalls, MemoryAnalyst;
   FailureScenarios, SimulationEngine and Benchmark; StreamConsumer and WarRoom;
   and proofs about them.
3. Done: proofs of every safety property of the runs: `EffectsFollowPlan`,
   `SuccessMeansApplied`, the refinement of SafeRemediation, the service's
   invariants, what a search answers, `RecoveryIsEarned`.
4. Proofs to come: safety facts that liveness rests on (measures that every step
   of an investigation decreases), and facts about the composition of modules
   that share a part of the code, such as the service as the broker's publisher.
