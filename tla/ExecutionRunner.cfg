SPECIFICATION MCSpec
CONSTANTS
  ActionId = {act}
  forward = forward
  backward = backward
  bare = bare
  Params = {forward, backward, bare}
  Revert <- MCRevert
  TargetOnly <- MCTargetOnly
  NoKey = NoKey
  MaxCalls = 3
  Callers = {"VIEWER", "OPERATOR"}
  Types = {"rollback_deployment", "restart_service", "run_query"}
INVARIANTS
  TypeOK
  KeysAreSuccesses
  AtMostOnce
  SuccessIsBacked
CHECK_DEADLOCK FALSE
