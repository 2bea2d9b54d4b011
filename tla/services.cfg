SPECIFICATION Spec
CONSTANTS
  Parts = {"agent", "backoffice", "store", "remote", "layout", "csv", "projection", "console", "browser"}
  PythonTools = {"py"}
  RestTools = {"rest"}
  McpTools = {"mcp"}
  ServerOf <- ServerOfTool
  ModelIds = {2}
  Requests <- ToolRequests
  MaxSteps = 2
  MaxBatch = 2
  Users = {u1, u2}
  Projects = {p1}
  Handlers = {h1, h2}
  Nobody = "nobody"
  Writes = {w1, w2, w3}
  Nil = nil
  ClientCalls = {c1, c2, c3}
  ExternalKeys = {k1}
  NoSession = nosession
  NodeCount = 3
  Graphs <- SmallGraphs
  Documents <- SmallFiles
  Providers = {"openai", "ollama"}
  BatchSize = 2
  MaxAttempts = 2
  Trainings = {t1, t2, t3}
  Queries = {q1}
  Empty = empty
  Talks = {k1, k2}
  Works = {r1, r2}
  Viewers = {v1}
  MaxTasks = 1
  MaxMessages = 1
  PageSize = 1
  Offsets = {0, 1}
  NoTalk = notalk
  PageTasks = {i1, i2}
  Rows = {x1, x2}
  Versions = {1, 2}
INVARIANTS
  ReferencesReadEarlierSteps
  LatestAnswerIsReturned
  RowsReferToRows
  OwnerRemains
  FlushedWritesAreKept
  ConversationContinues
  ReachedArrowsPointDown
  ImportReplaces
  ProjectionIsOfOneTraining
  ViewsAgree
  FlushedRowsSurvive
SYMMETRY Symmetry
CHECK_DEADLOCK FALSE
