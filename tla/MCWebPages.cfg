SPECIFICATION Spec
CHECK_DEADLOCK FALSE
CONSTANTS
  Routes = {"run", "events", "history", "backends", "messages", "post", "logbook",
            "comments", "dashboard", "rdb", "clients", "project", "codec",
            "keytable", "debug", "home",
            "download", "avatars", "login", "plugin", "value"}
  MaxUnderWay = 2
  PerPage = 1
  Aliases = {a1}
  MaxRuns = 2
  MaxMoves = 3
  EvtIds = {1}
  MaxPolls = 3
  MaxFrames = 2
  MaxVisits = 2
  DbKeys = {1, 2}
  LateKeys = {2}
  DisplayNames = {"d", "e"}
  Window = 1
  MaxEdits = 1
  MaxKeyChanges = 1
  MaxValues = 2
  MaxMounts = 2
  MaxHistActs = 3
  Backends = {"b"}
  MaxChanges = 2
  Senders = {"b", "c"}
  MaxLogs = 3
  MaxMessages = 2
  MaxReconnects = 1
  MaxDrops = 2
  MaxKeys = 1
  MaxPosts = 1
  MaxPostActs = 5
  MaxWrites = 2
  PostIds = {1, 2, 3}
  Matching = {1, 3}
  PostsPerPage = 2
  MaxShown = 2
  MaxActs = 3
  MaxListActs = 4
  CommentsPerPage = 1
  MaxComments = 2
  FileSizes = {0, 2, 3}
  ChunkSize = 2
  Limit = 1
  MaxClicks = 3
  RdbNames = {k1, k2}
  SystemNames = {k2}
  ValueTypes = {t1, t2}
  NoKey = NoKey
  NoType = NoType
  Decodes <- MCDecodes
  MaxRdbActs = 3
  Addresses = {"x", "y"}
  MaxConnections = 3
  PluginFiles = {"p", "q"}
  MaxFileChanges = 2
  MaxImports = 2
  ByteBase = 4
  SizeBytes = 2
  TextBytes = 3
  Characters <- MCCharacters
  Structures <- MCStructures
  MaxRecords = 2
  TableKeys = {"", "u", "s"}
  SystemKeys = {"s"}
  Containing <- MCContaining
  DataTexts = {"", "x"}
  MaxKeyEvents = 1
  MaxKeyActs = 6
  RpcClients = {1, 2}
  RpcMethods = {1}
  MaxRpcCalls = 2
  MaxRefreshes = 1
  DumpKeys = {1, 2, 3}
  DumpTypes = {"t1", "t2"}
  NoneType = "none"
  KeysAtFirst <- MCKeysAtFirst
  MaxDumpChanges = 1
  MaxDumps = 1
  MaxDebugActs = 4
  MaxPresses = 4
  MaxRunCalls = 1
  MaxMetrics = 2
  StoredSizes = {0, 2, 5}
  DownChunk = 2
  MaxDownloads = 2
  MaxReloads = 1
  Authors = {"u", "v"}
  MaxBoxes = 4
  MaxAvatars = 1
  MaxLogins = 4
  MaxInstances = 3
  MaxCleanups = 3
  ValueMin = 1
  ValueMax = 3
  Increment = 2
  TypedNumbers = {0, 1, 2, 3, 5}
  NotANumber = NotANumber
  AWord = AWord
  Nothing = Nothing
  MaxValueActs = 5
INVARIANTS
  DownloadsSound
  ViewersSound
  BackendsSound
  
  AccountsSound
  DatabaseSound
  HomeSound
  CodecSound
