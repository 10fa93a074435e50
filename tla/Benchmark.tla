------------------------------ MODULE Benchmark ------------------------------
(***************************************************************************)
(* The evaluation engine (src/evaluation/runner.py): it takes the agents   *)
(* through one scenario after the other on the one simulator, lets them    *)
(* carry out the plan they come to, and scores that plan against the       *)
(* scenario's ground truth.  What the agents plan is any of Plans.         *)
(***************************************************************************)
EXTENDS SimulationEngine

CONSTANTS
  Targets,   (* the lists of scenarios that may be asked for               *)
  Plans,     (* the plans agents may come to, as lists of actions; the     *)
             (* empty list stands for no plan as well                      *)
  Delays,    (* the seconds that may pass between two steps                *)
  MaxClock   (* bounds the seconds a benchmark takes                       *)

ASSUME BenchmarkAssumption ==
  /\ Targets \subseteq Seq(ScenarioId) /\ Plans \subseteq Seq(Action)
  /\ Delays \subseteq Nat

VARIABLES
  targets,   (* the list asked for                                         *)
  trial,     (* the number of scenarios evaluated so far                   *)
  phase,     (* where the trial under way stands                           *)
  plan,      (* its plan                                                   *)
  next,      (* the action of the plan to run next                         *)
  score      (* trials whose plan was valid, whose plan was contained      *)

benchVars == <<engineVars, targets, trial, phase, plan, next, score>>

BenchInit ==
  /\ EngineInit
  /\ targets \in Targets
  /\ trial = 0 /\ phase = "ready" /\ plan = <<>> /\ next = 1
  /\ score = [valid |-> 0, contained |-> 0]

(* evaluate_scenario begins: the scenario is loaded, and the graph of      *)
(* agents is run on its alert.                                             *)
StartTrial ==
  /\ phase = "ready" /\ trial < Len(targets)
  /\ LoadScenario(targets[trial + 1])
  /\ phase' = "investigating" /\ plan' = <<>> /\ next' = 1
  /\ UNCHANGED <<targets, trial, score>>

(* The agents come to a plan, or to none. *)
Conclude(p) ==
  /\ phase = "investigating"
  /\ plan' = p
  /\ phase' = IF p = <<>> THEN "over" ELSE "executing"
  /\ UNCHANGED <<engineVars, targets, trial, next, score>>

(* The trial's runner skips an action that has succeeded, and has no tool  *)
(* for a query.                                                            *)
Runs(a) == a \notin succeeded /\ a.type # "run_query"

RunAction ==
  /\ phase = "executing" /\ next <= Len(plan)
  /\ next' = next + 1
  /\ \/ Runs(plan[next]) /\ ExecuteAction(plan[next])
     \/ ~Runs(plan[next]) /\ UNCHANGED engineVars
  /\ UNCHANGED <<targets, trial, phase, plan, score>>

(* What undoes the last action: the rollback again, a configuration with   *)
(* other parameters, both under the same key; a restart otherwise.         *)
Compensations(a) ==
  CASE a.type = "rollback_deployment"  -> {a}
    [] a.type = "modify_configuration" -> {[a EXCEPT !.patch = p] : p \in Patch}
    [] OTHER -> {[type |-> "restart_service", target |-> a.target, patch |-> "none"]}

(* The verifier's model reports on the recovery, and may ask for the last  *)
(* action to be undone.                                                    *)
Verify ==
  /\ phase = "executing" /\ next > Len(plan)
  /\ phase' = "over"
  /\ \/ UNCHANGED engineVars
     \/ \E a \in Compensations(Last(plan)) :
          /\ a.type = "restart_service" \/ Runs(Last(plan))
          /\ ExecuteAction(a)
  /\ UNCHANGED <<targets, trial, plan, next, score>>

(* The two marks a plan gets, by its first action.  The policy engine of   *)
(* the evaluation reckons with a topology of its own.                      *)
RemediationValid(id, p) == p # <<>> /\ Head(p).target \in Affected(id)
BlastContained(id, p) ==
  p = <<>> \/ Affected(id) \subseteq BlastRadius(DEFAULT_TOPOLOGY, Head(p).target)

EndTrial ==
  /\ phase = "over"
  /\ phase' = "ready" /\ trial' = trial + 1
  /\ LET id == targets[trial + 1] IN
       score' = [valid |-> score.valid + (IF RemediationValid(id, plan) THEN 1 ELSE 0),
                 contained |-> score.contained + (IF BlastContained(id, plan) THEN 1 ELSE 0)]
  /\ UNCHANGED <<engineVars, targets, plan, next>>

(* Time passes between any two steps. *)
Wait ==
  /\ clock < MaxClock
  /\ \E seconds \in Delays : Tick(seconds)
  /\ UNCHANGED <<targets, trial, phase, plan, next, score>>

BenchNext ==
  \/ StartTrial
  \/ \E p \in Plans : Conclude(p)
  \/ RunAction
  \/ Verify
  \/ EndTrial
  \/ Wait

BenchSpec == BenchInit /\ [][BenchNext]_benchVars

-----------------------------------------------------------------------------
(* Each trial is made on its scenario alone: the one that is loaded is the *)
(* one whose plan is being scored, and nothing of the trials before it is  *)
(* left in the simulator.                                                  *)
TrialsAreFresh ==
  /\ phase # "ready" => active = targets[trial + 1]
  /\ OnlyTheActiveScenario

(* The marks agree: a plan that starts on an affected service has every    *)
(* affected service in the blast radius the policy reckons for it, in all  *)
(* ten scenarios; so no more plans are valid than contained.               *)
ValidIsContained ==
  /\ plan # <<>> /\ phase # "ready" =>
       (RemediationValid(active, plan) => BlastContained(active, plan))
  /\ score.valid <= score.contained
  /\ score.contained <= trial
=============================================================================
