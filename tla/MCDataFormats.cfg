SPECIFICATION MCSpec
CONSTANTS
  Methods <- MCMethods
  RPCPath <- MCPath
  Calls <- MCCalls
  RecordCases <- MCRecordCases
  Now <- MCNow
  FirstDays <- MCFirstDays
  MaxDays = 800
  Clocks <- MCClocks
  CSVCases <- MCCSVCases
  MaxScans = 3
  CSVNow <- MCNow
  CodePoints <- MCCodePoints
  Binaries <- MCBinaries
  MaxTokenSize = 40
  Files <- MCFiles
  BasePath <- MCBasePath
  CookiePath <- MCCookiePath
  FailPath <- MCFailPath
  Adders = {a1}
  Readers = {r1}
  Ids = {1, 2, 3}
  InitialSlots = 3
  FetchBatch = 2
  ProbeBatch = 2
  MaxCrashes = 1
  SlotHash <- MCSlotHash
  Empty = 0
  BlockSizes = {1, 2}
  Sizes = {2, 3}
  FileSizes = {0, 2}
  MmapBlock = 4
  MaxEnd = 7
  MaxRefs = 2
  NoMapping = NoMapping
  Values <- StreamValues
  Exported <- ExportedStats
  Foreign <- ForeignPackets
  MaxNumber = 300
  MaxValues = 3
  BufferSize = 3
  ChunkSize = 3
  MaxRewinds = 1
  MaxPacketSize = 10
  MaxValue = 1
  MaxPackets = 2
  MaxRepeats = 1
INVARIANTS ExchangesRight RPCReturns RecordsTravel ConversionsRight CSVFilesRight SetRemembers PagesUsable FilesReadBack StatsAddUp
CHECK_DEADLOCK FALSE
