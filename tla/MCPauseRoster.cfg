\* Pauses, timed or not, of an app without exclusion modes whose operations do not
\* overlap, with two failures (a lost reply is one) and one restart; two hubs that
\* move or are edited, with one failure or restart.
CONSTANTS
  Parts = {"pause", "roster"}
  Users = {u1}
  Workers = {w1}
  Durations = {0, 1, 2}
  Lighting = FALSE
  Overlap = FALSE
  MaxFailures = 2
  MaxRestarts = 1
  MaxTime = 3
  Hubs = {1, 2}
  Addresses = {"a", "b", "c"}
  Things = {"lamp", "plug"}
  Gone = 0
  NumberOf <- Numbered
  LabelOf <- Labelled
  Homes <- OneOnEachHub
  MaxHappenings = 2
  MaxTroubles = 1
SPECIFICATION PartsSpec
INVARIANTS MemoryMatchesRow PauseHolds JobBelongsToPause
PROPERTIES RosterHeals SteadyStaysPresent
CHECK_DEADLOCK FALSE
