CONSTANTS
  w1 = w1  none = none
  PortThreads = {w1}  IBufMax = 1  MaxItems = 2  MaxAdds = 2  MaxWrites = 1
  MaxChunks = 2  MaxWork = 5  MaxQueue = 0  PartialSends = FALSE  Idle = none
  MaxStmts = 3  MaxSqlCalls = 3
  TopicLists <- Lists  QosArgs = {0, 3}  MaxMqttCalls = 4  MaxCuts = 1
  Garbage <- Noise  Frames <- Bodies  MaxFrames = 2
  HttpConns = {1}  MaxRequests = 2
  Vecs <- Lengths  MaxExtra = 1
  MaxText = 3  UrlBytes = {97, 32, 37, 43, 250}  Letters = {97, 65}  Marks = {33}
  VerParts = {0, 1, 10}  DumpBytes = {0, 9, 10, 13, 97, 250}
  Sizes = {0, 1, 1023, 1024, 1025, 1048575, 1048576, 1073741823, 1073741824}
  Vmap <- VarValues  VarChars = {45, 97}  VarNames <- Variables  Chunk = 4  MaxBytes = 12
  Sections = {"-", "s"}  Names = {"n"}  Values = {1, 2}  NoSection = "-"  Missing = 0
  Files <- IniFiles  MaxCommands = 3
  Docs <- Documents  Steps <- PathSteps  NoIndex = 99
  CacheKeys = {"x", "y"}  EntryMax = 1  MaxVersion = 3  Trees <- TwoTrees
SPECIFICATION Spec
INVARIANTS   SqlSound MqttSound MsgsWhole HttpSound
  NetSound  LatestWins JsonRight 
CHECK_DEADLOCK FALSE
