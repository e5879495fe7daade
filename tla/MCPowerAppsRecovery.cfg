\* What recovery does to the switches.
SPECIFICATION AppsSpec
CONSTANTS
  Apps = {"power"}
  Setups <- SomeSetups
  Cutoffs = {"c1", "c2"}
  High = 3
  Window = 2
  Recovery = 1
  Cooldown = 1
  Grace = 1
  MaxChanges = 2
  MaxFaults = 1
  NumDays = 2
  Slots = 3
  Weeklies <- SomeWeeks
  Lived <- LivedWeeks
  Settings <- SomeSettings
  MaxActs = 1
  MaxEvents = 1
  Follow = 2
  MaxLost = 1
PROPERTY RecoveryTurnsOn
CHECK_DEADLOCK FALSE
