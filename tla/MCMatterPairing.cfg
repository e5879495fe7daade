\* Two requests, another feature and the one-device endpoint; one physical
\* device on two hubs; restarts and database failures.
CONSTANTS
  Requests = {r1, r2}
  Others = {"hub_port_copy"}
  Singles = {s1}
  d1 = d1
  d2 = d2
  Devices <- MCDevices
  MacOf <- SameMac
  Ceiling = 1
  Settle = 1
  Headroom = 1
  MaxFailures = 2
  OtherWork = 1
  WindowLife = 1
  DbMayFail = TRUE
  MaxTime = 7
SPECIFICATION FairSpec
INVARIANTS OneWindow LeaseCoversRun
PROPERTY SlotComesBack
