\* A lighting app: overlapping operations, exclusion modes, a failure, a restart;
\* a speaker with two uses of any kind, or one use and a failing call or a restart.
CONSTANTS
  Parts = {"pause", "sonos"}
  Users = {u1}
  Workers = {w1}
  Durations = {1}
  Lighting = TRUE
  Overlap = TRUE
  MaxFailures = 1
  MaxRestarts = 1
  MaxTime = 2
  Announcers = {"a", "b"}
  Hands = {"h"}
  Volumes = {1, 2}
  Normal = {1}
  Budgets <- TwoUsesOrAFault
SPECIFICATION PartsSpec
INVARIANT MusicComesBack
PROPERTIES TimedPauseEnds LockedVolumeHolds
CHECK_DEADLOCK FALSE
