SPECIFICATION RetrievalSpec
CONSTANTS
  p1 = p1
  p2 = p2
  c1 = c1
  c3 = c3
  Services = {p1, p2}
  Clients = {c1, c3}
  Host <- RagHost
  ModelDim <- RagModelDim
  Sizes = {2}
  Collections = {k1}
  BatchSize = 1
  MaxCalls = 2
  None = None
  Files = {"f1", "f2"}
  Readers = {"r1", "r2", "r3"}
  FileOf <- RagFileOf
  Widths = {2, 3}
  ChunkIds = {1, 2, 3}
  FetchSize = 1
  MaxUses = 2
  ScanFactor = 10
  ScanFloor = 100
  PerSource = 100
  EfSearch = 40
  Misses <- RagMisses
  Shapes <- RagShapes
  Ids = {1, 2, 3}
  Ops = {"index", "create", "drop", "query", "join", "matrix", "delete", "deleteAny", "list", "count", "learn", "export"}
CHECK_DEADLOCK FALSE
INVARIANTS
  RegistryDescribesTables
  ExportIsComplete
  UsageIsRecorded
  EveryRowIsScanned
  SqliteExportIsComplete
  SearchIsComplete
