--------------------------- MODULE BenchmarkProofs ---------------------------
(***************************************************************************)
(* Proofs about Benchmark, for any lists of scenarios, any plans the       *)
(* agents may come to, and any passing of time.                            *)
(***************************************************************************)
EXTENDS Benchmark, TLAPS

-----------------------------------------------------------------------------
(* The catalogue.                                                          *)

LEMMA Services ==
  ServiceName = {"gateway", "auth", "order", "payment", "notification"}
BY DEF ServiceName, DEFAULT_TOPOLOGY

LEMMA Ids ==
  ScenarioId = {"redis_pool_exhaustion", "db_connection_exhaustion", "slow_query",
                "memory_leak", "cpu_saturation", "downstream_failure",
                "bad_deployment", "invalid_config", "api_timeout", "queue_backlog"}
BY DEF ScenarioId, SCENARIO_REGISTRY

LEMMA Entries ==
  /\ SCENARIO_REGISTRY["redis_pool_exhaustion"] = RedisPoolExhaustion
  /\ SCENARIO_REGISTRY["db_connection_exhaustion"] = DBConnectionExhaustion
  /\ SCENARIO_REGISTRY["slow_query"] = SlowQuery
  /\ SCENARIO_REGISTRY["memory_leak"] = MemoryLeak
  /\ SCENARIO_REGISTRY["cpu_saturation"] = CPUSaturation
  /\ SCENARIO_REGISTRY["downstream_failure"] = DownstreamFailure
  /\ SCENARIO_REGISTRY["bad_deployment"] = BadDeployment
  /\ SCENARIO_REGISTRY["invalid_config"] = InvalidConfig
  /\ SCENARIO_REGISTRY["api_timeout"] = APITimeout
  /\ SCENARIO_REGISTRY["queue_backlog"] = QueueBacklog
BY DEF SCENARIO_REGISTRY

(* The changes a scenario plants. *)
LEMMA Changes ==
  ASSUME NEW id \in ScenarioId
  PROVE  /\ SCENARIO_REGISTRY[id].commits \in Seq(ServiceName)
         /\ SCENARIO_REGISTRY[id].deployments \in Seq(ServiceName)
<1>1. CASE id = "redis_pool_exhaustion"
  BY <1>1, Entries, Services DEF RedisPoolExhaustion
<1>2. CASE id = "bad_deployment"
  BY <1>2, Entries, Services DEF BadDeployment
<1>3. CASE id \notin {"redis_pool_exhaustion", "bad_deployment"}
  <2>1. SCENARIO_REGISTRY[id].commits = <<>> /\ SCENARIO_REGISTRY[id].deployments = <<>>
    <3>1. CASE id \in {"db_connection_exhaustion", "slow_query", "memory_leak",
                       "cpu_saturation"}
      BY <3>1, Entries DEF DBConnectionExhaustion, SlowQuery, MemoryLeak, CPUSaturation
    <3>2. CASE id \in {"downstream_failure", "invalid_config", "api_timeout",
                       "queue_backlog"}
      BY <3>2, Entries DEF DownstreamFailure, InvalidConfig, APITimeout, QueueBacklog
    <3> QED BY <1>3, <3>1, <3>2, Ids
  <2> QED BY <2>1
<1> QED BY <1>1, <1>2, <1>3

LEMMA AffectedPair ==
  ASSUME NEW id, NEW s, NEW t, SCENARIO_REGISTRY[id].affected = <<s, t>>
  PROVE  Affected(id) = {s, t}
<1> DEFINE pair == <<s, t>>
<1>1. DOMAIN pair = {1, 2} /\ pair[1] = s /\ pair[2] = t
  OBVIOUS
<1> HIDE DEF pair
<1>2. Affected(id) = {pair[i] : i \in {1, 2}}
  BY <1>1 DEF Affected, pair
<1> QED BY <1>1, <1>2

(* Only three scenarios affect two services. *)
LEMMA AffectedServices ==
  ASSUME NEW id \in ScenarioId
  PROVE  \/ \E s \in ServiceName : Affected(id) = {s}
         \/ Affected(id) \in {{"payment", "gateway"}, {"payment", "order"},
                              {"auth", "gateway"}}
<1>1. /\ Affected("redis_pool_exhaustion") = {"payment", "gateway"}
      /\ Affected("downstream_failure") = {"payment", "order"}
      /\ Affected("invalid_config") = {"auth", "gateway"}
  <2>1. /\ SCENARIO_REGISTRY["redis_pool_exhaustion"].affected = <<"payment", "gateway">>
        /\ SCENARIO_REGISTRY["downstream_failure"].affected = <<"payment", "order">>
        /\ SCENARIO_REGISTRY["invalid_config"].affected = <<"auth", "gateway">>
    BY Entries DEF RedisPoolExhaustion, DownstreamFailure, InvalidConfig
  <2> QED BY <2>1, AffectedPair
<1>2. /\ Affected("bad_deployment") = {"gateway"}
      /\ Affected("slow_query") = {"order"}
      /\ Affected("cpu_saturation") = {"notification"}
      /\ Affected("memory_leak") = {"auth"}
      /\ Affected("db_connection_exhaustion") = {"order"}
      /\ Affected("queue_backlog") = {"notification"}
      /\ Affected("api_timeout") = {"payment"}
  BY Entries DEF Affected, BadDeployment, SlowQuery, CPUSaturation, MemoryLeak,
     DBConnectionExhaustion, QueueBacklog, APITimeout
<1> QED BY <1>1, <1>2, Ids, Services

(* An affected service reaches every other. *)
LEMMA AffectedAreNear ==
  ASSUME NEW id \in ScenarioId, NEW t \in Affected(id)
  PROVE  Affected(id) \subseteq BlastRadius(DEFAULT_TOPOLOGY, t)
<1>1. t \in BlastRadius(DEFAULT_TOPOLOGY, t)
  BY DEF BlastRadius
<1>2. /\ DEFAULT_TOPOLOGY["gateway"] = {"auth", "order", "payment"}
      /\ DEFAULT_TOPOLOGY["order"] = {"payment", "notification"}
      /\ DOMAIN DEFAULT_TOPOLOGY
           = {"gateway", "auth", "order", "payment", "notification"}
  BY DEF DEFAULT_TOPOLOGY
<1>3. /\ {"payment", "auth"} \subseteq BlastRadius(DEFAULT_TOPOLOGY, "gateway")
      /\ "payment" \in BlastRadius(DEFAULT_TOPOLOGY, "order")
      /\ {"gateway", "order"} \subseteq BlastRadius(DEFAULT_TOPOLOGY, "payment")
      /\ "gateway" \in BlastRadius(DEFAULT_TOPOLOGY, "auth")
  BY <1>2 DEF BlastRadius, UpstreamDependents, DownstreamDependencies
<1> QED BY <1>1, <1>3, AffectedServices

-----------------------------------------------------------------------------
(* The simulator.                                                          *)

(* The batches the generator can write. *)
Written ==
  {BackgroundTraffic(from, to) : from \in Int, to \in Int}
    \cup {ScenarioTelemetry(id, healed, from, to) :
            id \in ScenarioId, healed \in BOOLEAN, from \in Int, to \in Int}

EngineInv ==
  /\ active \in ScenarioId \cup {NoScenario}
  /\ remediated \in BOOLEAN
  /\ clock \in Nat
  /\ telemetry \in Seq(Written)
  /\ OnlyTheActiveScenario

LEMMA BackgroundIsWritten ==
  ASSUME NEW from \in Int, NEW to \in Int
  PROVE  /\ BackgroundTraffic(from, to) \in Written
         /\ BackgroundTraffic(from, to).kind = "background"
         /\ BackgroundTraffic(from, to).to = to
         /\ BackgroundTraffic(from, to).echoes = {}
<1>1. BackgroundTraffic(from, to) \in Written
  BY DEF Written
<1> QED BY <1>1 DEF BackgroundTraffic

LEMMA TelemetryIsWritten ==
  ASSUME NEW id \in ScenarioId, NEW healed \in BOOLEAN, NEW from \in Int, NEW to \in Int
  PROVE  /\ ScenarioTelemetry(id, healed, from, to) \in Written
         /\ ScenarioTelemetry(id, healed, from, to).kind
              = IF healed THEN "recovery" ELSE "incident"
         /\ ScenarioTelemetry(id, healed, from, to).to = to
         /\ ScenarioTelemetry(id, healed, from, to).series
              = SCENARIO_REGISTRY[id].metrics \X {SCENARIO_REGISTRY[id].affected[1]}
         /\ ScenarioTelemetry(id, healed, from, to).logs = {SCENARIO_REGISTRY[id].logs}
         /\ ScenarioTelemetry(id, healed, from, to).echoes
              = IF healed THEN {} ELSE SCENARIO_REGISTRY[id].echoes
<1>1. ScenarioTelemetry(id, healed, from, to) \in Written
  BY DEF Written
<1> QED BY <1>1 DEF ScenarioTelemetry

LEMMA WrittenIsDated == \A w \in Written : w.to \in Int /\ LastDate(w) \in Int
<1>1. \A w \in Written : w.to \in Int
  BY BackgroundIsWritten, TelemetryIsWritten DEF Written
<1> QED BY <1>1 DEF LastDate, EchoDelay

(* When the last record of an incident just injected is dated. *)
LastEcho(s, time) == time + (IF s.echoes = {} THEN 0 ELSE EchoDelay)

LEMMA EchoesLater ==
  ASSUME NEW s, NEW time \in Int, NEW later \in Int, time <= later
  PROVE  /\ LastEcho(s, time) \in Int /\ LastEcho(s, later) \in Int
         /\ LastEcho(s, time) <= LastEcho(s, later) /\ time <= LastEcho(s, time)
BY DEF LastEcho, EchoDelay

LEMMA LoadKeeps ==
  ASSUME EngineInv, NEW id \in ScenarioId, LoadScenario(id)
  PROVE  EngineInv' /\ active' = id
<1> DEFINE s == SCENARIO_REGISTRY[id]
           b == BackgroundTraffic(clock - Minutes(45), clock - Minutes(15))
           i == ScenarioTelemetry(id, FALSE, clock - Minutes(15), clock)
<1>1. /\ active' = id /\ remediated' = FALSE /\ clock' = clock
      /\ commits' = <<>> \o s.commits
      /\ deployments' = <<>> \o s.deployments
      /\ telemetry' = <<>> \o <<b, i>>
      /\ degraded' = {} \cup Affected(id)
  BY DEF LoadScenario, Pristine
<1>2. /\ clock \in Int /\ clock - Minutes(15) \in Int /\ clock - Minutes(45) \in Int
      /\ clock - Minutes(15) <= clock
  BY DEF EngineInv, Minutes
<1>3. /\ b \in Written /\ b.kind = "background" /\ b.to = clock - Minutes(15)
      /\ b.echoes = {}
  BY <1>2, BackgroundIsWritten
<1>4. /\ i \in Written /\ i.kind = "incident" /\ i.to = clock
      /\ i.series = s.metrics \X {s.affected[1]}
      /\ i.logs = {s.logs} /\ i.echoes = s.echoes
  <2>1. i \in Written
    BY <1>2, TelemetryIsWritten, Zenon
  <2> QED BY <2>1 DEF ScenarioTelemetry
<1>5. /\ commits' = s.commits /\ deployments' = s.deployments
  BY <1>1, Changes
<1> HIDE DEF b, i, s
<1>6. LastDate(b) = clock - Minutes(15) /\ LastDate(i) = LastEcho(s, clock)
  BY <1>2, <1>3, <1>4 DEF LastDate, LastEcho
<1>7. LastEcho(s, clock) \in Int /\ clock <= LastEcho(s, clock)
  BY <1>2 DEF LastEcho, EchoDelay
<1>8. telemetry' = <<b, i>> /\ telemetry' \in Seq(Written)
  BY <1>1, <1>3, <1>4
<1>9. \A n \in DOMAIN telemetry' : telemetry'[n] = b \/ telemetry'[n] = i
  BY <1>8
<1>10. OnlyTheActiveScenario'
  <2>1. \A n \in DOMAIN telemetry' :
          telemetry'[n].kind # "background" =>
            /\ telemetry'[n].series = s.metrics \X {s.affected[1]}
            /\ telemetry'[n].logs = {s.logs}
            /\ telemetry'[n].echoes \subseteq s.echoes
    BY <1>3, <1>4, <1>9
  <2>2. \A n \in DOMAIN telemetry' :
          telemetry'[n].kind # "recovery" /\ LastDate(telemetry'[n]) <= LastEcho(s, clock')
    BY <1>1, <1>2, <1>3, <1>4, <1>6, <1>7, <1>9
  <2> QED BY <1>1, <1>5, <2>1, <2>2 DEF OnlyTheActiveScenario, LastEcho, LastDate, s
<1> QED BY <1>1, <1>8, <1>10 DEF EngineInv

LEMMA ActionKeeps ==
  ASSUME EngineInv, NEW a, ExecuteAction(a)
  PROVE  EngineInv' /\ active' = active
<1> DEFINE r == ScenarioTelemetry(active, remediated', clock, clock + Minutes(10))
<1>1. /\ active' = active /\ clock' = clock
      /\ commits' = commits /\ deployments' = deployments
      /\ remediated' = (remediated \/ Remedies(a))
      /\ degraded' \subseteq degraded
  BY DEF ExecuteAction
<1>2. remediated' \in BOOLEAN /\ (remediated => remediated')
  BY <1>1 DEF EngineInv
<1>3. CASE Recovers(a)
  <2>1. active \in ScenarioId /\ remediated' = TRUE
    BY <1>1, <1>3 DEF Recovers, Succeeds, EngineInv
  <2>2. clock \in Int /\ clock + Minutes(10) \in Int
    BY DEF EngineInv, Minutes
  <2>3. /\ r \in Written
        /\ r.series = SCENARIO_REGISTRY[active].metrics
                        \X {SCENARIO_REGISTRY[active].affected[1]}
        /\ r.logs = {SCENARIO_REGISTRY[active].logs}
        /\ r.echoes \subseteq SCENARIO_REGISTRY[active].echoes
    <3>1. r \in Written
      BY <1>2, <2>1, <2>2, TelemetryIsWritten, Zenon
    <3> QED BY <3>1 DEF ScenarioTelemetry
  <2>4. telemetry' = Append(telemetry, r)
    BY <1>3 DEF ExecuteAction
  <2> HIDE DEF r
  <2>5. /\ telemetry' \in Seq(Written)
        /\ \A n \in DOMAIN telemetry' :
             (n \in DOMAIN telemetry /\ telemetry'[n] = telemetry[n]) \/ telemetry'[n] = r
    BY <2>3, <2>4 DEF EngineInv
  <2>6. OnlyTheActiveScenario'
    BY <1>1, <2>1, <2>3, <2>5 DEF EngineInv, OnlyTheActiveScenario
  <2> QED BY <1>1, <1>2, <2>5, <2>6 DEF EngineInv
<1>4. CASE ~Recovers(a)
  <2>1. telemetry' = telemetry
    BY <1>4 DEF ExecuteAction
  <2>2. OnlyTheActiveScenario'
    BY <1>1, <1>2, <2>1 DEF EngineInv, OnlyTheActiveScenario
  <2> QED BY <1>1, <1>2, <2>1, <2>2 DEF EngineInv
<1> QED BY <1>1, <1>3, <1>4

LEMMA TickKeeps ==
  ASSUME EngineInv, NEW seconds \in Nat, Tick(seconds)
  PROVE  EngineInv' /\ active' = active
<1>1. /\ clock' = clock + seconds
      /\ UNCHANGED <<active, remediated, degraded, commits, deployments, telemetry>>
  BY DEF Tick
<1>2. clock' \in Nat /\ clock <= clock'
  BY <1>1 DEF EngineInv
<1>3. \A n \in DOMAIN telemetry : LastDate(telemetry[n]) \in Int
  <2>1. \A n \in DOMAIN telemetry : telemetry[n] \in Written
    BY DEF EngineInv
  <2> QED BY <2>1, WrittenIsDated
<1>4. PICK s : s = SCENARIO_REGISTRY[active]
  OBVIOUS
<1>5. /\ LastEcho(s, clock) \in Int /\ LastEcho(s, clock') \in Int
      /\ LastEcho(s, clock) <= LastEcho(s, clock')
  <2>1. clock \in Int /\ clock' \in Int
    BY <1>2 DEF EngineInv
  <2> QED BY <1>2, <2>1, EchoesLater, Zenon
<1>6. ~remediated /\ active # NoScenario =>
        \A n \in DOMAIN telemetry :
          telemetry[n].kind # "recovery" /\ LastDate(telemetry[n]) <= LastEcho(s, clock')
  <2>1. ~remediated /\ active # NoScenario =>
          \A n \in DOMAIN telemetry :
            telemetry[n].kind # "recovery" /\ LastDate(telemetry[n]) <= LastEcho(s, clock)
    BY <1>4 DEF EngineInv, OnlyTheActiveScenario, LastEcho
  <2> QED BY <1>3, <1>5, <2>1
<1>7. OnlyTheActiveScenario'
  BY <1>1, <1>4, <1>6 DEF EngineInv, OnlyTheActiveScenario, LastEcho, LastDate
<1> QED BY <1>1, <1>2, <1>7 DEF EngineInv

-----------------------------------------------------------------------------
(* The benchmark.                                                          *)

BenchTypeOK ==
  /\ targets \in Seq(ScenarioId)
  /\ trial \in Nat
  /\ phase \in {"ready", "investigating", "executing", "over"}
  /\ plan \in Seq(Action)
  /\ score \in [valid : Nat, contained : Nat]

(* The trial under way is one of the list, on the scenario that is loaded. *)
OnItsScenario ==
  phase # "ready" => trial < Len(targets) /\ active = targets[trial + 1]

Marks == score.valid <= score.contained /\ score.contained <= trial

BenchInv == BenchTypeOK /\ EngineInv /\ OnItsScenario /\ Marks

LEMMA InitBenchInv == BenchInit => BenchInv
<1> SUFFICES ASSUME BenchInit PROVE BenchInv
  OBVIOUS
<1>1. BenchTypeOK
  BY BenchmarkAssumption DEF BenchInit, BenchTypeOK
<1>2. EngineInv
  <2>1. active = NoScenario /\ remediated = FALSE /\ clock = 0 /\ telemetry = <<>>
    BY DEF BenchInit, EngineInit
  <2>2. OnlyTheActiveScenario
    BY <2>1 DEF OnlyTheActiveScenario
  <2>3. telemetry \in Seq(Written)
    BY <2>1
  <2> QED BY <2>1, <2>2, <2>3 DEF EngineInv
<1>3. OnItsScenario /\ Marks
  BY DEF BenchInit, OnItsScenario, Marks
<1> QED BY <1>1, <1>2, <1>3 DEF BenchInv

(* A plan that is valid is contained. *)
LEMMA ValidPlanContained ==
  ASSUME NEW id \in ScenarioId, NEW p, RemediationValid(id, p)
  PROVE  BlastContained(id, p)
BY AffectedAreNear DEF RemediationValid, BlastContained

LEMMA StartKeeps ==
  ASSUME BenchInv, StartTrial
  PROVE  BenchInv'
<1>1. trial \in Nat /\ trial < Len(targets) /\ targets[trial + 1] \in ScenarioId
  BY DEF BenchInv, BenchTypeOK, StartTrial
<1>2. EngineInv' /\ active' = targets[trial + 1]
  BY <1>1, LoadKeeps DEF BenchInv, StartTrial
<1>3. /\ phase' = "investigating" /\ plan' = <<>>
      /\ targets' = targets /\ trial' = trial /\ score' = score
  BY DEF StartTrial
<1>4. BenchTypeOK'
  BY <1>3 DEF BenchInv, BenchTypeOK
<1> QED BY <1>1, <1>2, <1>3, <1>4 DEF BenchInv, OnItsScenario, Marks

(* A step within a trial, that keeps the engine's invariant. *)
LEMMA WithinTrial ==
  ASSUME BenchInv, EngineInv', active' = active,
         UNCHANGED <<targets, trial, score>>,
         phase' \in {"ready", "investigating", "executing", "over"},
         phase = "ready" => phase' = "ready",
         plan' \in Seq(Action)
  PROVE  BenchInv'
<1>1. BenchTypeOK'
  BY DEF BenchInv, BenchTypeOK
<1>2. OnItsScenario' /\ Marks'
  BY DEF BenchInv, OnItsScenario, Marks
<1> QED BY <1>1, <1>2 DEF BenchInv

LEMMA EngineStill == EngineInv /\ UNCHANGED engineVars => EngineInv' /\ active' = active
BY DEF EngineInv, OnlyTheActiveScenario, engineVars

LEMMA ConcludeKeeps ==
  ASSUME BenchInv, NEW p \in Plans, Conclude(p)
  PROVE  BenchInv'
<1>1. EngineInv' /\ active' = active
  BY EngineStill DEF BenchInv, Conclude
<1>2. plan' \in Seq(Action)
  BY BenchmarkAssumption DEF Conclude
<1> QED BY <1>1, <1>2, WithinTrial DEF Conclude

LEMMA RunKeeps ==
  ASSUME BenchInv, RunAction
  PROVE  BenchInv'
<1>1. EngineInv' /\ active' = active
  BY EngineStill, ActionKeeps DEF BenchInv, RunAction
<1> QED BY <1>1, WithinTrial DEF RunAction, BenchInv, BenchTypeOK

LEMMA VerifyKeeps ==
  ASSUME BenchInv, Verify
  PROVE  BenchInv'
<1>1. EngineInv' /\ active' = active
  BY EngineStill, ActionKeeps DEF BenchInv, Verify
<1> QED BY <1>1, WithinTrial DEF Verify, BenchInv, BenchTypeOK

LEMMA WaitKeeps ==
  ASSUME BenchInv, Wait
  PROVE  BenchInv'
<1>1. EngineInv' /\ active' = active
  BY BenchmarkAssumption, TickKeeps DEF BenchInv, Wait
<1> QED BY <1>1, WithinTrial DEF Wait, BenchInv, BenchTypeOK

LEMMA EndKeeps ==
  ASSUME BenchInv, EndTrial
  PROVE  BenchInv'
<1> DEFINE id == targets[trial + 1]
           v == IF RemediationValid(id, plan) THEN 1 ELSE 0
           c == IF BlastContained(id, plan) THEN 1 ELSE 0
<1>1. id \in ScenarioId
  BY DEF BenchInv, BenchTypeOK, OnItsScenario, EndTrial
<1>2. v \in Nat /\ c \in Nat /\ v <= c /\ c <= 1
  BY <1>1, ValidPlanContained
<1>3. score' = [valid |-> score.valid + v, contained |-> score.contained + c]
  BY DEF EndTrial
<1> HIDE DEF v, c
<1>4. /\ score.valid \in Nat /\ score.contained \in Nat
      /\ score.valid <= score.contained /\ score.contained <= trial /\ trial \in Nat
  BY DEF BenchInv, BenchTypeOK, Marks
<1>5. score' \in [valid : Nat, contained : Nat]
  BY <1>2, <1>3, <1>4
<1>6. trial' = trial + 1 /\ phase' = "ready" /\ targets' = targets /\ plan' = plan
  BY DEF EndTrial
<1>7. BenchTypeOK'
  BY <1>4, <1>5, <1>6 DEF BenchInv, BenchTypeOK
<1>8. Marks'
  BY <1>2, <1>3, <1>4, <1>6 DEF Marks
<1>9. EngineInv'
  BY EngineStill DEF BenchInv, EndTrial
<1> QED BY <1>6, <1>7, <1>8, <1>9 DEF BenchInv, OnItsScenario

LEMMA NextBenchInv == BenchInv /\ [BenchNext]_benchVars => BenchInv'
<1> SUFFICES ASSUME BenchInv, [BenchNext]_benchVars PROVE BenchInv'
  OBVIOUS
<1>1. CASE UNCHANGED benchVars
  <2>1. EngineInv' /\ active' = active
    BY <1>1, EngineStill DEF BenchInv, benchVars
  <2> QED BY <1>1, <2>1, WithinTrial DEF benchVars, BenchInv, BenchTypeOK
<1> QED BY <1>1, StartKeeps, ConcludeKeeps, RunKeeps, VerifyKeeps, WaitKeeps, EndKeeps
        DEF BenchNext

(* Whatever the trials before came to, a trial is made and scored on its   *)
(* own scenario, and the simulator holds nothing of another                *)
(* (load_scenario, engine.py:34-89; evaluate_scenario, runner.py:59-92).   *)
THEOREM FreshTrials == BenchSpec => []TrialsAreFresh
<1>1. BenchInv => TrialsAreFresh
  BY DEF BenchInv, OnItsScenario, EngineInv, TrialsAreFresh
<1> QED BY <1>1, InitBenchInv, NextBenchInv, PTL DEF BenchSpec

(* In every scenario and for every plan, the mark for the plan's first     *)
(* target implies the mark for its blast radius, so that no benchmark has  *)
(* more valid plans than contained ones (runner.py:109-123, 163-170).      *)
THEOREM MarksAgree == BenchSpec => []ValidIsContained
<1>1. BenchInv => ValidIsContained
  <2> SUFFICES ASSUME BenchInv PROVE ValidIsContained
    OBVIOUS
  <2>1. phase # "ready" => active \in ScenarioId
    BY DEF BenchInv, BenchTypeOK, OnItsScenario
  <2>2. phase # "ready" =>
          (RemediationValid(active, plan) => BlastContained(active, plan))
    BY <2>1, ValidPlanContained
  <2> QED BY <2>2 DEF BenchInv, Marks, ValidIsContained
<1> QED BY <1>1, InitBenchInv, NextBenchInv, PTL DEF BenchSpec

-----------------------------------------------------------------------------
(* Recovery.                                                               *)

(* What the store tells of the active scenario: the background comes       *)
(* first, the incident with its echoes next, and only recoveries after it; *)
(* everything but the background is the scenario's own, nothing is dated   *)
(* later than the last batch, and that one shows whether the incident is   *)
(* over.                                                                   *)
Story ==
  active # NoScenario =>
    LET s == SCENARIO_REGISTRY[active] IN
      /\ Len(telemetry) >= 2
      /\ telemetry[1].kind = "background"
      /\ telemetry[1].echoes = {} /\ telemetry[1].to <= telemetry[2].to
      /\ telemetry[2].kind = "incident" /\ telemetry[2].echoes = s.echoes
      /\ \A i \in 2..Len(telemetry) :
           /\ telemetry[i].series = s.metrics \X {s.affected[1]}
           /\ telemetry[i].logs = {s.logs}
           /\ i > 2 => telemetry[i].echoes = {}
      /\ \A i \in DOMAIN telemetry :
           telemetry[i].to <= telemetry[Len(telemetry)].to
      /\ telemetry[Len(telemetry)].to <= clock + Minutes(10)
      /\ telemetry[Len(telemetry)].kind = IF remediated THEN "recovery" ELSE "incident"

(* The scenario counts as remediated when a remedy has succeeded, and the  *)
(* services are restored when it does.                                     *)
Earned ==
  active # NoScenario =>
    /\ remediated <=> succeeded \cap SCENARIO_REGISTRY[active].remedies # {}
    /\ degraded = IF remediated THEN {} ELSE Affected(active)

LEMMA LoadTells ==
  ASSUME EngineInv, NEW id \in ScenarioId, LoadScenario(id)
  PROVE  Story' /\ Earned'
<1>1. /\ active' = id /\ remediated' = FALSE /\ clock' = clock /\ succeeded' = {}
      /\ degraded' = {} \cup Affected(id)
      /\ clock \in Int /\ clock - Minutes(15) \in Int /\ clock - Minutes(45) \in Int
      /\ clock - Minutes(15) <= clock /\ clock <= clock + Minutes(10)
  BY DEF LoadScenario, Pristine, EngineInv, Minutes
<1>2. PICK b, i :
        /\ telemetry' = <<>> \o <<b, i>>
        /\ b = BackgroundTraffic(clock - Minutes(45), clock - Minutes(15))
        /\ i = ScenarioTelemetry(id, FALSE, clock - Minutes(15), clock)
  BY DEF LoadScenario, Pristine
<1>3. /\ b.kind = "background" /\ b.to = clock - Minutes(15) /\ b.echoes = {}
  BY <1>2 DEF BackgroundTraffic
<1>4. /\ i.kind = "incident" /\ i.to = clock
      /\ i.series = SCENARIO_REGISTRY[id].metrics \X {SCENARIO_REGISTRY[id].affected[1]}
      /\ i.logs = {SCENARIO_REGISTRY[id].logs}
      /\ i.echoes = SCENARIO_REGISTRY[id].echoes
  BY <1>2 DEF ScenarioTelemetry
<1>5. telemetry' = <<b, i>>
  BY <1>2
<1>6. /\ Len(telemetry') = 2 /\ telemetry'[1] = b /\ telemetry'[2] = i
      /\ DOMAIN telemetry' = {1, 2} /\ 2..Len(telemetry') = {2}
  BY <1>5
<1>7. Story'
  BY <1>1, <1>3, <1>4, <1>6 DEF Story
<1>8. Earned'
  BY <1>1 DEF Earned
<1> QED BY <1>7, <1>8

LEMMA ActionTells ==
  ASSUME EngineInv, Story, Earned, NEW a, ExecuteAction(a)
  PROVE  Story' /\ Earned'
<1>1. /\ active' = active /\ clock' = clock
      /\ remediated' = (remediated \/ Remedies(a))
      /\ succeeded' = IF Succeeds(a) THEN succeeded \cup {a} ELSE succeeded
      /\ degraded' = IF Recovers(a) THEN degraded \ Affected(active) ELSE degraded
  BY DEF ExecuteAction
<1>2. SUFFICES ASSUME active # NoScenario PROVE Story' /\ Earned'
  BY <1>1 DEF Story, Earned
<1>3. active \in ScenarioId /\ remediated \in BOOLEAN /\ clock \in Int
  BY <1>2 DEF EngineInv
<1>4. Remedies(a) <=> a \in SCENARIO_REGISTRY[active].remedies
  BY <1>2 DEF Remedies
<1>5. Remedies(a) => Succeeds(a)
  BY <1>2, <1>4 DEF Succeeds
<1>6. Recovers(a) => remediated' = TRUE
  BY <1>1, <1>3 DEF Recovers
<1>7. ~Recovers(a) => remediated' = remediated
  BY <1>1, <1>3, <1>5 DEF Recovers
<1>8. Earned'
  <2>1. remediated' <=> succeeded' \cap SCENARIO_REGISTRY[active].remedies # {}
    BY <1>1, <1>2, <1>4, <1>5 DEF Earned
  <2>2. degraded' = IF remediated' THEN {} ELSE Affected(active)
    BY <1>1, <1>2, <1>6, <1>7 DEF Earned
  <2> QED BY <1>1, <2>1, <2>2 DEF Earned
<1>9. Story'
  <2>1. CASE ~Recovers(a)
    <3>1. telemetry' = telemetry
      BY <2>1 DEF ExecuteAction
    <3> QED BY <1>1, <1>7, <2>1, <3>1 DEF Story
  <2>2. CASE Recovers(a)
    <3>1. PICK r : /\ telemetry' = Append(telemetry, r)
                   /\ r = ScenarioTelemetry(active, remediated', clock, clock + Minutes(10))
      BY <2>2 DEF ExecuteAction
    <3>2. /\ r.kind = "recovery" /\ r.to = clock + Minutes(10)
          /\ r.series = SCENARIO_REGISTRY[active].metrics
                          \X {SCENARIO_REGISTRY[active].affected[1]}
          /\ r.logs = {SCENARIO_REGISTRY[active].logs} /\ r.echoes = {}
          /\ clock + Minutes(10) \in Int
      BY <1>3, <1>6, <2>2, <3>1 DEF ScenarioTelemetry, Minutes
    <3>3. /\ telemetry \in Seq(Written) /\ Len(telemetry) \in Nat
          /\ DOMAIN telemetry = 1..Len(telemetry)
      BY DEF EngineInv
    <3>4. /\ Len(telemetry') = Len(telemetry) + 1
          /\ DOMAIN telemetry' = 1..(Len(telemetry) + 1)
          /\ telemetry'[Len(telemetry) + 1] = r
          /\ \A i \in DOMAIN telemetry : telemetry'[i] = telemetry[i]
      BY <3>1, <3>3
    <3>5. \A i \in DOMAIN telemetry : telemetry[i].to \in Int
      <4>1. \A i \in DOMAIN telemetry : telemetry[i] \in Written
        BY <3>3
      <4> QED BY <4>1, WrittenIsDated
    <3>6. \A i \in DOMAIN telemetry : telemetry[i].to <= clock + Minutes(10)
      <4>1. Len(telemetry) \in DOMAIN telemetry
        BY <1>2, <3>3 DEF Story
      <4> QED BY <1>2, <1>3, <3>2, <3>5, <4>1 DEF Story
    <3>7. \A i \in DOMAIN telemetry' : telemetry'[i].to <= clock + Minutes(10)
      BY <1>3, <3>2, <3>3, <3>4, <3>6
    <3>8. \A i \in 2..Len(telemetry') :
            /\ telemetry'[i].series = SCENARIO_REGISTRY[active].metrics
                                        \X {SCENARIO_REGISTRY[active].affected[1]}
            /\ telemetry'[i].logs = {SCENARIO_REGISTRY[active].logs}
            /\ i > 2 => telemetry'[i].echoes = {}
      BY <1>2, <3>2, <3>3, <3>4 DEF Story
    <3>9. /\ Len(telemetry') >= 2
          /\ telemetry'[1] = telemetry[1] /\ telemetry'[2] = telemetry[2]
      BY <1>2, <3>3, <3>4 DEF Story
    <3> QED BY <1>1, <1>2, <1>3, <1>6, <2>2, <3>2, <3>4, <3>7, <3>8, <3>9 DEF Story
  <2> QED BY <2>1, <2>2
<1> QED BY <1>8, <1>9

LEMMA TickTells ==
  ASSUME EngineInv, Story, Earned, NEW seconds \in Nat, Tick(seconds)
  PROVE  Story' /\ Earned'
<1>1. /\ clock' = clock + seconds
      /\ UNCHANGED <<active, remediated, degraded, telemetry, succeeded>>
  BY DEF Tick
<1>2. clock \in Nat
  BY DEF EngineInv
<1>3. active # NoScenario => telemetry[Len(telemetry)].to \in Int
  <2>1. active # NoScenario => telemetry[Len(telemetry)] \in Written
    BY DEF EngineInv, Story
  <2> QED BY <2>1, WrittenIsDated
<1>4. active # NoScenario => telemetry[Len(telemetry)].to <= clock' + Minutes(10)
  BY <1>1, <1>2, <1>3 DEF Story, Minutes
<1>5. Story'
  BY <1>1, <1>4 DEF Story
<1>6. Earned'
  BY <1>1 DEF Earned
<1> QED BY <1>5, <1>6

(* Every step of the benchmark is one of the simulator or leaves it alone. *)
LEMMA EngineSteps ==
  ASSUME BenchInv, [BenchNext]_benchVars
  PROVE  \/ \E id \in ScenarioId : LoadScenario(id)
         \/ \E a : ExecuteAction(a)
         \/ \E seconds \in Nat : Tick(seconds)
         \/ UNCHANGED engineVars
<1>1. ASSUME StartTrial PROVE \E id \in ScenarioId : LoadScenario(id)
  BY <1>1 DEF BenchInv, BenchTypeOK, StartTrial
<1>2. ASSUME Wait PROVE \E seconds \in Nat : Tick(seconds)
  BY <1>2, BenchmarkAssumption DEF Wait
<1>3. ASSUME RunAction \/ Verify PROVE (\E a : ExecuteAction(a)) \/ UNCHANGED engineVars
  BY <1>3 DEF RunAction, Verify
<1>4. ASSUME EndTrial \/ (\E p \in Plans : Conclude(p)) \/ UNCHANGED benchVars
      PROVE  UNCHANGED engineVars
  BY <1>4 DEF EndTrial, Conclude, benchVars
<1> QED BY <1>1, <1>2, <1>3, <1>4 DEF BenchNext

RecoveryInv == BenchInv /\ Story /\ Earned

LEMMA InitRecoveryInv == BenchInit => RecoveryInv
<1> SUFFICES ASSUME BenchInit PROVE RecoveryInv
  OBVIOUS
<1>1. active = NoScenario
  BY DEF BenchInit, EngineInit
<1> QED BY <1>1, InitBenchInv DEF RecoveryInv, Story, Earned

LEMMA NextRecoveryInv == RecoveryInv /\ [BenchNext]_benchVars => RecoveryInv'
<1> SUFFICES ASSUME RecoveryInv, [BenchNext]_benchVars PROVE RecoveryInv'
  OBVIOUS
<1>1. BenchInv'
  BY NextBenchInv DEF RecoveryInv
<1>2. EngineInv
  BY DEF RecoveryInv, BenchInv
<1>3. ASSUME UNCHANGED engineVars PROVE Story' /\ Earned'
  <2>1. UNCHANGED <<active, remediated, degraded, telemetry, clock, succeeded>>
    BY <1>3 DEF engineVars
  <2> QED BY <2>1 DEF RecoveryInv, Story, Earned
<1>4. Story' /\ Earned'
  BY <1>2, <1>3, EngineSteps, LoadTells, ActionTells, TickTells DEF RecoveryInv
<1> QED BY <1>1, <1>4 DEF RecoveryInv

LEMMA MaxIs ==
  ASSUME NEW S, NEW x \in S, S \subseteq Int, \A y \in S : y <= x
  PROVE  Max(S) = x
<1>1. \E m \in S : \A y \in S : m >= y
  OBVIOUS
<1>2. Max(S) \in S /\ \A y \in S : Max(S) >= y
  BY <1>1 DEF Max
<1>3. Max(S) \in Int /\ x \in Int /\ Max(S) >= x /\ Max(S) <= x
  BY <1>2
<1> QED BY <1>3

(* The newest of some batches is the last of them, if none is dated later. *)
LEMMA NewestIsLast ==
  ASSUME NEW found \in SUBSET Int, NEW n \in found, NEW date,
         DOMAIN date = found,
         \A i \in found : i <= n /\ date[i] \in Int /\ date[i] <= date[n]
  PROVE  Newest(date) = telemetry[n].kind
<1>1. Max(Range(date)) = date[n]
  <2>1. PICK dates : dates = Range(date)
    OBVIOUS
  <2>2. dates \subseteq Int /\ date[n] \in dates /\ \A y \in dates : y <= date[n]
    BY <2>1 DEF Range
  <2> QED BY <2>1, <2>2, MaxIs
<1>2. Max({i \in DOMAIN date : date[i] = date[n]}) = n
  <2>1. PICK last : last = {i \in DOMAIN date : date[i] = date[n]}
    OBVIOUS
  <2>2. last \subseteq Int /\ n \in last /\ \A y \in last : y <= n
    BY <2>1
  <2> QED BY <2>1, <2>2, MaxIs
<1> QED BY <1>1, <1>2 DEF Newest

(* Nothing is echoed for the service a scenario logs for. *)
LEMMA EchoesAreForOthers ==
  ASSUME NEW id \in ScenarioId
  PROVE  /\ SCENARIO_REGISTRY[id].logs \notin SCENARIO_REGISTRY[id].echoes
         /\ SCENARIO_REGISTRY[id].echoes \subseteq ServiceName
<1>1. CASE id \in {"redis_pool_exhaustion", "db_connection_exhaustion", "slow_query",
                   "memory_leak", "cpu_saturation"}
  BY <1>1, Entries, Services DEF RedisPoolExhaustion, DBConnectionExhaustion, SlowQuery,
     MemoryLeak, CPUSaturation
<1>2. CASE id \in {"downstream_failure", "bad_deployment", "invalid_config",
                   "api_timeout", "queue_backlog"}
  BY <1>2, Entries DEF DownstreamFailure, BadDeployment, InvalidConfig, APITimeout,
     QueueBacklog
<1> QED BY <1>1, <1>2, Ids

LEMMA StoryIsTold == RecoveryInv => RecoveryIsEarned
<1> SUFFICES ASSUME RecoveryInv, active # NoScenario PROVE RecoveryIsEarned
  BY DEF RecoveryIsEarned
<1>1. PICK s : s = SCENARIO_REGISTRY[active]
  OBVIOUS
<1>2. PICK n : n = Len(telemetry)
  OBVIOUS
<1>3. /\ n \in Nat /\ n >= 2 /\ DOMAIN telemetry = 1..n
      /\ active \in ScenarioId /\ telemetry \in Seq(Written)
  BY <1>2 DEF RecoveryInv, BenchInv, EngineInv, Story
<1>4. /\ remediated <=> succeeded \cap s.remedies # {}
      /\ degraded = IF remediated THEN {} ELSE Affected(active)
  BY <1>1 DEF RecoveryInv, Earned
<1>5. \A i \in 1..n : telemetry[i].to \in Int /\ telemetry[i].to <= telemetry[n].to
  <2>1. \A i \in 1..n : telemetry[i] \in Written
    BY <1>3
  <2> QED BY <1>2, <1>3, <2>1, WrittenIsDated DEF RecoveryInv, Story
<1>6. telemetry[n].kind = IF remediated THEN "recovery" ELSE "incident"
  BY <1>2 DEF RecoveryInv, Story
<1>7. /\ telemetry[n].series = s.metrics \X {s.affected[1]}
      /\ telemetry[n].logs = {s.logs}
  BY <1>1, <1>2, <1>3 DEF RecoveryInv, Story
<1>8. ASSUME NEW m \in s.metrics
      PROVE  NewestMetric(m, s.affected[1]) = telemetry[n].kind
  <2>1. PICK found : found = {i \in DOMAIN telemetry :
                                <<m, s.affected[1]>> \in telemetry[i].series}
    OBVIOUS
  <2>2. found \in SUBSET (1..n) /\ n \in found
    BY <1>3, <1>7, <2>1
  <2>3. Newest([i \in found |-> telemetry[i].to]) = telemetry[n].kind
    <3>1. PICK date : date = [i \in found |-> telemetry[i].to]
      OBVIOUS
    <3>2. /\ DOMAIN date = found /\ found \in SUBSET Int
          /\ \A i \in found : i <= n /\ date[i] \in Int /\ date[i] <= date[n]
      BY <1>5, <2>2, <3>1
    <3> QED BY <2>2, <3>1, <3>2, NewestIsLast
  <2> QED BY <2>1, <2>2, <2>3 DEF NewestMetric
<1>9. ASSUME NEW i \in 1..n PROVE s.logs \notin telemetry[i].echoes
  <2>1. s.logs \notin s.echoes
    BY <1>1, <1>3, EchoesAreForOthers
  <2> QED BY <1>1, <1>2, <1>3, <2>1 DEF RecoveryInv, Story
<1>10. NewestLog(s.logs) = telemetry[n].kind
  <2>1. PICK found : found = {i \in DOMAIN telemetry :
                                s.logs \in telemetry[i].logs \cup telemetry[i].echoes}
    OBVIOUS
  <2>2. found \in SUBSET (1..n) /\ n \in found
    BY <1>3, <1>7, <2>1
  <2>3. \A i \in found : LastLog(i, s.logs) = telemetry[i].to
    BY <1>5, <1>9, <2>2 DEF LastLog
  <2>4. Newest([i \in found |-> LastLog(i, s.logs)]) = telemetry[n].kind
    <3>1. PICK date : date = [i \in found |-> LastLog(i, s.logs)]
      OBVIOUS
    <3>2. /\ DOMAIN date = found /\ found \in SUBSET Int
          /\ \A i \in found : i <= n /\ date[i] \in Int /\ date[i] <= date[n]
      BY <1>5, <2>2, <2>3, <3>1
    <3> QED BY <2>2, <3>1, <3>2, NewestIsLast
  <2> QED BY <2>1, <2>2, <2>4 DEF NewestLog
<1>11. ASSUME NEW t \in s.echoes PROVE NewestLog(t) = "incident"
  <2>1. t # s.logs
    BY <1>1, <1>3, EchoesAreForOthers
  <2>2. PICK found : found = {i \in DOMAIN telemetry :
                                t \in telemetry[i].logs \cup telemetry[i].echoes}
    OBVIOUS
  <2>3. /\ telemetry[1].echoes = {} /\ telemetry[1].to <= telemetry[2].to
        /\ telemetry[2].kind = "incident" /\ telemetry[2].echoes = s.echoes
        /\ \A i \in 2..n : telemetry[i].logs = {s.logs} /\ (i > 2 => telemetry[i].echoes = {})
    BY <1>1, <1>2 DEF RecoveryInv, Story
  <2>4. found \in SUBSET {1, 2} /\ 2 \in found
    <3>1. 2 \in found
      BY <1>3, <2>2, <2>3
    <3>2. \A i \in 3..n : i \notin found
      BY <2>1, <2>2, <2>3
    <3> QED BY <1>3, <2>2, <3>1, <3>2
  <2>5. /\ telemetry[1].to \in Int /\ telemetry[2].to \in Int
        /\ LastLog(1, t) = telemetry[1].to
        /\ LastLog(2, t) = telemetry[2].to + 2
    BY <1>3, <1>5, <2>3 DEF LastLog, EchoDelay
  <2>6. Newest([i \in found |-> LastLog(i, t)]) = telemetry[2].kind
    <3>1. PICK date : date = [i \in found |-> LastLog(i, t)]
      OBVIOUS
    <3>2. /\ DOMAIN date = found /\ found \in SUBSET Int
          /\ \A i \in found : i <= 2 /\ date[i] \in Int /\ date[i] <= date[2]
      BY <2>3, <2>4, <2>5, <3>1
    <3> QED BY <2>4, <3>1, <3>2, NewestIsLast
  <2> QED BY <2>2, <2>3, <2>4, <2>6 DEF NewestLog
<1> QED BY <1>1, <1>4, <1>6, <1>8, <1>10, <1>11 DEF RecoveryIsEarned

(* Recovery is earned: in any list of trials, with any plans, compensation *)
(* and passing of time, the affected services are healthy and the          *)
(* scenario's metrics and its own log show a recovery exactly when a       *)
(* remedy of the active scenario has succeeded (execute_action,            *)
(* engine.py:91-122); in the log of a service it has logged for during the *)
(* incident only (redis_pool_exhaustion.py:102-110) the incident stays.    *)
THEOREM EarnedRecovery == BenchSpec => []RecoveryIsEarned
BY InitRecoveryInv, NextRecoveryInv, StoryIsTold, PTL DEF BenchSpec
=============================================================================
