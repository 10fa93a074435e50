SPECIFICATION MCSpec
CONSTANTS
  i1 = i1
  i2 = i2
  s1 = s1
  s2 = s2
  s3 = s3
  Incident = {i1, i2}
  Subscriber = {s1, s2, s3}
  Topic <- MCTopic
  Kind = {"stage_change", "resolved"}
  Limit = 2
INVARIANTS
  TypeOK
  HistoryIsRecent
  GaplessDelivery
  NothingAfterTerminal
  ListsOpenStreams
PROPERTIES
  ImplementsFeed
  TerminalEndsStream
CHECK_DEADLOCK FALSE
