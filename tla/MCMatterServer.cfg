\* A call_sync and a call_async caller of the breaker with late outcomes, probes,
\* cancellations and resets; a caller, the watchdog and two faults on the
\* connection; four requests, two at a time, on the rows of a device.
SPECIFICATION ServerSpec
CONSTANTS
  Parts = {"breaker", "link", "registry"}
  Callers = {c1, c2}
  Cancellable = {c2}
  FailThreshold = 2
  ResetTimeout = 2
  FailWindow = 2
  MaxTime = 5
  LinkCallers = {"c"}
  MaxSockets = 4
  StaleAfter = 2
  CleanCloses = FALSE
  MaxRequests = 1
  MaxLinkFaults = 2
  Things = {"t1"}
  Hubs = {"hub1", "hub2"}
  HubOf <- OnHub1
  Primary = "hub1"
  Desks = {"r1", "r2"}
  MaxNodes = 2
  MaxVisits = 4
  MaxDbTrouble = 1
INVARIANTS ProbeGateMatchesState DecommissionedAreForgotten
PROPERTIES TripIsJustified ProbeResolves LinkKeptAlive
CHECK_DEADLOCK FALSE
