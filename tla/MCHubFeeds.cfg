SPECIFICATION Spec
CONSTANTS
  Values = {"off", "on"}
  NoValue = "none"
  Absent = "absent"
  MaxBackoff = 1
  MaxChanges = 2
  MaxFaults = 2
  Modes = {"Day", "Night"}
  NoMode = "none"
  MaxModeChanges = 3
  MaxModeFaults = 2
  Parts = {"device", "mode"}
PROPERTIES DeadLinkReplaced ReplayOnChange ModeRecovered
CHECK_DEADLOCK FALSE
