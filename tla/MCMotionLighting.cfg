SPECIFICATION Spec
CONSTANTS
  Selections = {{"light"}, {"keep"}}
  Levels = {"low", "high"}
  Default = "low"
  Memoize = TRUE
  ActiveOnFail = FALSE
  MaxEvents = 3
  MaxFaults = 1
PROPERTIES LightFollowsMotion KeepOffEnforced
CHECK_DEADLOCK FALSE
