SPECIFICATION FairSpec
CONSTANTS
  w1 = w1  u1 = u1  w2 = w2  c1 = c1  c2 = c2  m1 = m1
  key = key  evt = evt
  Requests = {w1, u1, c2, m1}
  Kind <- MCKind
  EventOf <- MCEventOf
  Events = {key, evt}
  Registered = {}
  Forbidden = {c2}
  None = None
  MaxLosses = 1
  MaxEmits = 1
INVARIANTS
  SocketInvariant
  SubscriptionsAgree
  LastRequestWins
PROPERTIES
  GoesOn
CHECK_DEADLOCK FALSE
