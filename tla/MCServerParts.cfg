\* ServerParts: two threads wherever threads meet, one key whose records are
\* longer than the history buffer, and each part bounded by itself.
SPECIFICATION PartsSpec
CONSTANTS
  Callers = {a, b}
  MaxRun = 3
  MaxCrashes = 1
  MaxOverlaps = 2
  Threads = {t1, t2}
  MaxCalls = 4
  MaxStack = 2
  Patterns = {p1}
  Watchers = {c1, c2, c3}
  RdbWriters = {v1, v2}
  NoPattern = NoPattern
  MaxSweeps = 3
  UserKeys = {"u", "long"}
  FirstMetric = "total"
  OtherMetric = "used"
  RpcWriters = {"w1", "w2"}
  LongKeys = {"long"}
  BufferSize = 1
  MaxHistChanges = 2
  MaxToggles = 2
  MaxHistEnds = 2
  Writers_q = {x1, x2}
  Closer = main
  NoOne = none
  Backlog = 1
  MaxWritten = 5
  MaxEnds = 2
  Delays = {0, 2}
  Intervals = {0, 1, 2}
  MaxTasks = 3
  MaxLate = 1
INVARIANTS
  RunsSound
  CallsSound
  OwnAnswer
  WatchesSound
  HistorySound
  MessagesSound
  AsyncLoopSound
PROPERTIES
  RunsNeverReplaced
  CallsReturn
  ServerThreadEnds
  LoopReturns
CHECK_DEADLOCK FALSE
