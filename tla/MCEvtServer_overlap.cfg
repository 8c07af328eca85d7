SPECIFICATION Spec
CONSTANTS
  Clients = {c1}
  Ghosts = {}
  Events = {e1}
  MaxSessions = 2
  MaxRestarts = 1
  MaxInFlight = 1
INVARIANT
  SubscriptionsStay
CHECK_DEADLOCK FALSE
