-------------------------- MODULE FailureScenarios ---------------------------
(***************************************************************************)
(* The ten failures the simulator can inject (simulator/scenarios), over   *)
(* the services of its topology (simulator/services/topology.py).          *)
(*                                                                         *)
(* A scenario is known by the services it degrades (its metrics are filed  *)
(* under the first), the service its alert names, the remediation its      *)
(* ground truth recommends, the series it writes, the service it logs for  *)
(* both during the incident and after a recovery, those it logs for during *)
(* the incident only ("echoes"), the changes it plants in the code         *)
(* repository, and what its apply_remediation answers: an action in        *)
(* "remedies" ends the incident, one in "idle" is reported as a success    *)
(* and changes nothing, any other fails.                                   *)
(***************************************************************************)
EXTENDS RiskAssessment, Sequences

(* The services and what each of them calls. *)
DEFAULT_TOPOLOGY == [s \in {"gateway", "auth", "order", "payment", "notification"} |->
  CASE s = "gateway" -> {"auth", "order", "payment"}
    [] s = "order"   -> {"payment", "notification"}
    [] s = "payment" -> {"notification"}
    [] OTHER         -> {}]

ServiceName == DOMAIN DEFAULT_TOPOLOGY

(* What a configuration patch contains, of what the scenarios look for: a  *)
(* larger connection pool, an index, another payment provider.  A patch of *)
(* the wrong type raises, which the tool reports as it reports a failure.  *)
Patch == {"none", "pool", "index", "failover"}

Action == [type : ActionType, target : ServiceName, patch : Patch]

Restart(s) == [type : {"restart_service"}, target : {s}, patch : Patch]
Rollback(s) == [type : {"rollback_deployment"}, target : {s}, patch : Patch]
ClearCache(s) == [type : {"clear_cache"}, target : {s}, patch : Patch]
Configure(patches) ==
  [type : {"modify_configuration"}, target : ServiceName, patch : patches]

-----------------------------------------------------------------------------
RedisPoolExhaustion ==
  [affected |-> <<"payment", "gateway">>, alert |-> "payment",
   recommended |-> "rollback_deployment",
   metrics |-> {"p95_latency_ms", "error_rate_percent",
                "redis_active_connections", "redis_pool_wait_queue"},
   logs |-> "payment", echoes |-> {"gateway"},
   commits |-> <<"payment", "payment">>, deployments |-> <<"payment">>,
   remedies |-> Rollback("payment") \cup Configure({"pool"}),
   idle |-> Restart("payment")]

BadDeployment ==
  [affected |-> <<"gateway">>, alert |-> "gateway",
   recommended |-> "rollback_deployment",
   metrics |-> {"gateway_404_rate", "success_rate"}, logs |-> "gateway",
   echoes |-> {}, commits |-> <<"gateway">>, deployments |-> <<"gateway">>,
   remedies |-> Rollback("gateway"), idle |-> {}]

SlowQuery ==
  [affected |-> <<"order">>, alert |-> "order",
   recommended |-> "modify_configuration",
   metrics |-> {"db_query_p95_ms", "db_cpu_percent"}, logs |-> "order",
   echoes |-> {}, commits |-> <<>>, deployments |-> <<>>,
   remedies |-> Configure({"index"}), idle |-> {}]

CPUSaturation ==
  [affected |-> <<"notification">>, alert |-> "notification",
   recommended |-> "restart_service",
   metrics |-> {"cpu_usage_percent", "dispatch_rate"}, logs |-> "notification",
   echoes |-> {}, commits |-> <<>>, deployments |-> <<>>,
   remedies |-> Restart("notification"), idle |-> {}]

MemoryLeak ==
  [affected |-> <<"auth">>, alert |-> "auth",
   recommended |-> "restart_service",
   metrics |-> {"memory_usage_percent", "gc_pause_ms"}, logs |-> "auth",
   echoes |-> {}, commits |-> <<>>, deployments |-> <<>>,
   remedies |-> Restart("auth"), idle |-> {}]

DBConnectionExhaustion ==
  [affected |-> <<"order">>, alert |-> "order",
   recommended |-> "restart_service",
   metrics |-> {"db_active_connections", "http_500_rate"}, logs |-> "order",
   echoes |-> {}, commits |-> <<>>, deployments |-> <<>>,
   remedies |-> Restart("order"), idle |-> {}]

QueueBacklog ==
  [affected |-> <<"notification">>, alert |-> "notification",
   recommended |-> "restart_service",
   metrics |-> {"queue_depth_messages", "consumption_rate"},
   logs |-> "notification",
   echoes |-> {}, commits |-> <<>>, deployments |-> <<>>,
   remedies |-> Restart("notification") \cup ClearCache("notification"),
   idle |-> {}]

DownstreamFailure ==
  [affected |-> <<"payment", "order">>, alert |-> "order",
   recommended |-> "restart_service",
   metrics |-> {"order_http_503_rate", "payment_availability"},
   logs |-> "order",
   echoes |-> {}, commits |-> <<>>, deployments |-> <<>>,
   remedies |-> Restart("payment"), idle |-> {}]

InvalidConfig ==
  [affected |-> <<"auth", "gateway">>, alert |-> "gateway",
   recommended |-> "rollback_deployment",
   metrics |-> {"http_401_percent"}, logs |-> "gateway",
   echoes |-> {}, commits |-> <<>>, deployments |-> <<>>,
   remedies |-> Configure(Patch)
                  \cup UNION {Rollback(s) : s \in ServiceName},
   idle |-> {}]

APITimeout ==
  [affected |-> <<"payment">>, alert |-> "payment",
   recommended |-> "modify_configuration",
   metrics |-> {"timeout_rate", "provider_p95_latency"}, logs |-> "payment",
   echoes |-> {}, commits |-> <<>>, deployments |-> <<>>,
   remedies |-> Configure({"failover"}), idle |-> {}]

SCENARIO_REGISTRY ==
  [redis_pool_exhaustion |-> RedisPoolExhaustion,
   db_connection_exhaustion |-> DBConnectionExhaustion,
   slow_query |-> SlowQuery, memory_leak |-> MemoryLeak,
   cpu_saturation |-> CPUSaturation, downstream_failure |-> DownstreamFailure,
   bad_deployment |-> BadDeployment, invalid_config |-> InvalidConfig,
   api_timeout |-> APITimeout, queue_backlog |-> QueueBacklog]

ScenarioId == DOMAIN SCENARIO_REGISTRY

Affected(id) ==
  {SCENARIO_REGISTRY[id].affected[i] : i \in DOMAIN SCENARIO_REGISTRY[id].affected}
=============================================================================
