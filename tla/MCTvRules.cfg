\* A TV that speaks both schemes or plain ws only, with one request and one fault;
\* two requests at a time on the row of a client, one database failure or restart;
\* two events and one disturbance for each program of a rules instance.
SPECIFICATION PartsSpec
CONSTANTS
  Parts = {"tv", "registry", "rules"}
  OffStreak = 2
  QueueDepth = 1
  Callback = TRUE
  TvKinds <- TwoTvs
  MaxOrders = 1
  MaxTvFaults = 1
  Clerks = {"k1", "k2"}
  Addresses = {"a", "b"}
  Ports = {0, 1}
  MaxPaper = 3
  MaxDbFaults = 1
  PoolWater = {"hot", "cold"}
  Pumps = {"pump"}
  ButtonPresets <- OneButton
  MaxPresses = 2
  MaxRuleFaults = 1
INVARIANT ClientFollowsRow
PROPERTIES TvFollowed HubFollows CleanRunDelivers
CHECK_DEADLOCK FALSE
