SPECIFICATION MCSpec
CONSTANTS
  ActionId = {act}
  forward = forward
  backward = backward
  bare = bare
  Params = {forward, backward, bare}
  Revert <- MCRevert
  TargetOnly <- MCTargetOnly
  NoKey = NoKey
  MaxCalls = 2
  Callers = {"OPERATOR"}
  Types = {"rollback_deployment", "restart_service", "run_query"}
INVARIANT RollbackCompensates
CHECK_DEADLOCK FALSE
