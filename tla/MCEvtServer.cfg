SPECIFICATION Spec
CONSTANTS
  Clients = {c1, g1}
  Ghosts = {g1}
  Events = {e1}
  MaxSessions = 2
  MaxRestarts = 1
  MaxInFlight = 1
INVARIANTS
  OrderlyKeepSubscriptions
  TablesSound
PROPERTIES
  DeadNoticed
CHECK_DEADLOCK FALSE
