----------------------------- MODULE MCBenchmark -----------------------------
(* A bounded instance of Benchmark for TLC: two trials, of any scenario    *)
(* after itself or after one of two others.                                *)
EXTENDS Benchmark

CONSTANT MaxPlan   (* actions in a plan *)

MCTargets ==
  {<<s, s>> : s \in ScenarioId}
    \cup {<<s, t>> : s \in {"redis_pool_exhaustion", "memory_leak"}, t \in ScenarioId}

(* Every remedy, the idle restart, actions that succeed without remedying, *)
(* one that fails and one without a tool.                                  *)
MCActions ==
  {[type |-> t, target |-> s, patch |-> "none"] :
     t \in {"restart_service", "rollback_deployment"}, s \in ServiceName}
  \cup {[type |-> "modify_configuration", target |-> "order", patch |-> p] : p \in Patch}
  \cup {[type |-> t, target |-> "notification", patch |-> "none"] :
          t \in {"clear_cache", "scale_replicas", "run_query"}}

MCPlans == UNION {[1..n -> MCActions] : n \in 0..MaxPlan}
=============================================================================
