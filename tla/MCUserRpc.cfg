\* UserRpc: two callers and two calls, so that a call can overlap another or
\* follow one that timed out, and a backend that comes back.
SPECIFICATION Spec
CONSTANTS
  Callers = {c1, c2}
  Returns = {"value"}
  MaxCalls = 2
  MaxSessions = 2
INVARIANTS
  WaitsSound
  AnsweredIsOk
PROPERTIES
  CallsReturn
CHECK_DEADLOCK FALSE
