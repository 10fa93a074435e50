--------------------------- MODULE SimulationEngine --------------------------
(***************************************************************************)
(* The incident simulator behind every tool (simulator/engine.py): it      *)
(* injects one scenario at a time into a service topology, a code          *)
(* repository and a telemetry store, and applies remediation actions.      *)
(*                                                                         *)
(* What the generator adds to the store in one call is kept as one batch:  *)
(* the window it covers, in seconds, the series it fills, the services it  *)
(* logs for, those it logs for a little later ("echoes"), and whether all  *)
(* this shows the background, the incident or the recovery.  Every window  *)
(* ends with a record of each.  The store sorts its records by time, those *)
(* of one time in the order they came.                                     *)
(***************************************************************************)
EXTENDS FailureScenarios, FiniteSetsExt, SequencesExt

NoScenario == "no scenario"

VARIABLES
  active,      (* the id of active_scenario                                *)
  remediated,  (* its is_remediated                                        *)
  degraded,    (* services whose status is DEGRADED, not HEALTHY           *)
  commits,     (* the services of the commits the repository has recorded  *)
  deployments, (* and of the deployments                                   *)
  telemetry,   (* the batches in the store, in the order they were added   *)
  clock,       (* seconds passed                                           *)
  succeeded    (* history: the actions that succeeded since the last load  *)

engineVars == <<active, remediated, degraded, commits, deployments, telemetry,
                clock, succeeded>>

Kind == {"background", "incident", "recovery"}
BackgroundMetrics ==
  {"http_request_duration_p95_seconds", "process_cpu_percent",
   "memory_usage_percent"}

-----------------------------------------------------------------------------
(* The telemetry store and its generator.                                  *)

Minutes(n) == 60 * n

(* How much later than its window a batch's echoes are dated. *)
EchoDelay == 2

BackgroundTraffic(from, to) ==
  [from |-> from, to |-> to, kind |-> "background",
   series |-> BackgroundMetrics \X ServiceName,
   logs |-> ServiceName, echoes |-> {}]

ScenarioTelemetry(id, healed, from, to) ==
  LET s == SCENARIO_REGISTRY[id] IN
    [from |-> from, to |-> to, kind |-> IF healed THEN "recovery" ELSE "incident",
     series |-> s.metrics \X {s.affected[1]},
     logs |-> {s.logs}, echoes |-> IF healed THEN {} ELSE s.echoes]

(* The kind of the newest record in some batches, given when each has its  *)
(* last one.                                                               *)
Newest(date) ==
  LET latest == Max(Range(date))
  IN telemetry[Max({i \in DOMAIN date : date[i] = latest})].kind

(* query_metrics and query_logs, with a limit of one. *)
NewestMetric(metric, service) ==
  LET found == {i \in DOMAIN telemetry : <<metric, service>> \in telemetry[i].series}
  IN IF found = {} THEN "none" ELSE Newest([i \in found |-> telemetry[i].to])

LastLog(i, service) ==
  telemetry[i].to + (IF service \in telemetry[i].echoes THEN EchoDelay ELSE 0)

NewestLog(service) ==
  LET found == {i \in DOMAIN telemetry :
                  service \in telemetry[i].logs \cup telemetry[i].echoes}
  IN IF found = {} THEN "none" ELSE Newest([i \in found |-> LastLog(i, service)])

-----------------------------------------------------------------------------
EngineInit ==
  /\ active = NoScenario /\ remediated = FALSE
  /\ degraded = {} /\ commits = <<>> /\ deployments = <<>> /\ telemetry = <<>>
  /\ clock = 0 /\ succeeded = {}

(* A faulty reset: the store keeps what earlier scenarios wrote. *)
PristineButTelemetry ==
  [degraded |-> {}, commits |-> <<>>, deployments |-> <<>>, telemetry |-> telemetry]

(* What reset leaves: a new topology and repository, an empty store. *)
Pristine ==
  [degraded |-> {}, commits |-> <<>>, deployments |-> <<>>, telemetry |-> <<>>]

(* load_scenario of a known id. *)
LoadScenario(id) ==
  /\ active' = id /\ remediated' = FALSE /\ succeeded' = {}
  /\ commits' = Pristine.commits \o SCENARIO_REGISTRY[id].commits
  /\ deployments' = Pristine.deployments \o SCENARIO_REGISTRY[id].deployments
  /\ telemetry' = Pristine.telemetry \o
       <<BackgroundTraffic(clock - Minutes(45), clock - Minutes(15)),
         ScenarioTelemetry(id, FALSE, clock - Minutes(15), clock)>>
  /\ degraded' = Pristine.degraded \cup Affected(id)
  /\ UNCHANGED clock

(* apply_remediation of the active scenario: the actions it knows ...      *)
Remedies(a) == active # NoScenario /\ a \in SCENARIO_REGISTRY[active].remedies

(* ... and the actions that succeed, a remedy or not: scaling and clearing *)
(* a cache always do.                                                      *)
Succeeds(a) ==
  /\ active # NoScenario
  /\ \/ a \in SCENARIO_REGISTRY[active].remedies \cup SCENARIO_REGISTRY[active].idle
     \/ a.type \in {"scale_replicas", "clear_cache"}

(* A faulty test: any success is taken for a recovery. *)
AnySuccess(a) == Succeeds(a)

(* Does the action leave the incident over? *)
Recovers(a) == Succeeds(a) /\ (remediated \/ Remedies(a))

(* execute_action: a recovery restores the affected services and writes    *)
(* ten minutes of recovered telemetry, from now into the future.           *)
ExecuteAction(a) ==
  /\ remediated' = (remediated \/ Remedies(a))
  /\ succeeded' = IF Succeeds(a) THEN succeeded \cup {a} ELSE succeeded
  /\ degraded' = IF Recovers(a) THEN degraded \ Affected(active) ELSE degraded
  /\ telemetry' = IF Recovers(a)
                  THEN Append(telemetry,
                         ScenarioTelemetry(active, remediated', clock, clock + Minutes(10)))
                  ELSE telemetry
  /\ UNCHANGED <<active, commits, deployments, clock>>

(* Time passes. *)
Tick(seconds) ==
  /\ clock' = clock + seconds
  /\ UNCHANGED <<active, remediated, degraded, commits, deployments, telemetry,
                 succeeded>>

-----------------------------------------------------------------------------
(* When the last record of a batch is dated. *)
LastDate(batch) == batch.to + (IF batch.echoes = {} THEN 0 ELSE EchoDelay)

(* Nothing of an earlier scenario is left: no service is degraded, no      *)
(* change is on record and no incident or recovery is in the store but the *)
(* active scenario's.  Until it is remediated nothing shows a recovery or  *)
(* is dated later than its first incident, which ended when it was loaded, *)
(* its echoes EchoDelay after that.                                        *)
OnlyTheActiveScenario ==
  active # NoScenario =>
    LET s == SCENARIO_REGISTRY[active] IN
      /\ degraded \subseteq Affected(active)
      /\ commits = s.commits /\ deployments = s.deployments
      /\ \A i \in DOMAIN telemetry :
           telemetry[i].kind # "background" =>
             /\ telemetry[i].series = s.metrics \X {s.affected[1]}
             /\ telemetry[i].logs = {s.logs}
             /\ telemetry[i].echoes \subseteq s.echoes
      /\ ~remediated =>
           \A i \in DOMAIN telemetry :
             /\ telemetry[i].kind # "recovery"
             /\ LastDate(telemetry[i])
                  <= clock + (IF s.echoes = {} THEN 0 ELSE EchoDelay)

(* Recovery is earned: the affected services are healthy, and the          *)
(* scenario's metrics and its own log show a recovery, when an action that *)
(* remedies the active scenario has succeeded - and not otherwise,         *)
(* whatever else has succeeded.  A service it has logged for during the    *)
(* incident only is healthy again but shows no recovery in its log, whose  *)
(* newest record is the incident's before and after.                       *)
RecoveryIsEarned ==
  active # NoScenario =>
    LET s == SCENARIO_REGISTRY[active]
        healed == succeeded \cap s.remedies # {}
    IN /\ degraded = IF healed THEN {} ELSE Affected(active)
       /\ \A m \in s.metrics :
            NewestMetric(m, s.affected[1]) = IF healed THEN "recovery" ELSE "incident"
       /\ NewestLog(s.logs) = IF healed THEN "recovery" ELSE "incident"
       /\ \A t \in s.echoes : NewestLog(t) = "incident"
=============================================================================
