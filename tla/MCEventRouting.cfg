\* One instance and two hubs.
CONSTANTS
  h1 = h1
  h2 = h2
  lamp = lamp
  plug = plug
  Hubs = {h1, h2}
  Devices = {lamp, plug}
  Instances = {i1}
  Owner <- MCOwner
  Mesh <- MCMesh
  Alias <- MCAlias
  Unlisted = {lamp}
  Selected <- MCSelected
  Selections <- MCSelections
  NoDevice = NoDevice
  MaxChanges = 2
  MaxOps = 1
  MaxFaults = 1
SPECIFICATION FairSpec
INVARIANTS SubscriptionsFollowRow OneObject
PROPERTIES EventsKeepTheirDevice DeadInstanceRevived DeliversInOrder
CHECK_DEADLOCK FALSE
