SPECIFICATION Spec
CONSTANTS
  e1 = e1
  e2 = e2
  h1 = h1
  h2 = h2
  act1 = act1
  act2 = act2
  forward = forward
  backward = backward
  bare = bare
  None = None
  NoKey = NoKey
  EvidenceId = {e1, e2}
  HypothesisId = {h1, h2}
  ActionId = {act1, act2}
  Params = {forward, backward, bare}
  Revert <- MCRevert
  TargetOnly <- MCTargetOnly
  Findings <- MCFindings
  Diagnoses <- MCDiagnoses
  ActionLists <- MCActionLists
  MaxIterations = 3
  RecursionLimit = 25
INVARIANT RoundsBounded
CHECK_DEADLOCK FALSE
