SPECIFICATION Spec
CONSTANTS
  gateway = gateway
  order = order
  payment = payment
  foreign = foreign
  Service = {gateway, order, payment, foreign}
  Topology <- MCTopology
  ActionId = {1, 2}
  Proposed <- MCProposed
  Claimed = {"VIEWER", "OPERATOR", "ADMIN", "AUDITOR"}
INVARIANTS
  TypeOK
  DestructiveNeedsAdmin
  WiderIsNotCheaper
CHECK_DEADLOCK FALSE
