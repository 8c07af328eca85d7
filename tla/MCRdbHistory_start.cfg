\* RdbHistory with no record that is longer than the buffer, and no kill.
SPECIFICATION HistoryServesSpec
CONSTANTS
  UserKeys = {"u"}
  LongKeys = {}
  FirstMetric = "total"
  OtherMetric = "used"
  RpcWriters = {"w1", "w2"}
  BufferSize = 1
  MaxHistChanges = 2
  MaxToggles = 2
  MaxHistEnds = 2
INVARIANTS
  ChangesLogged
CHECK_DEADLOCK FALSE
