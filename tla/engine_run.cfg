SPECIFICATION FairSpec
CONSTANTS
  None = None
  Runs = {r1}
  Graphs <- MCGraphs
  Backends = {"agent_service", "task_logger"}
  MaxNodeVisits = 5
  DbOutcomes = {"ok", "fail", "lost"}
INVARIANTS
  TypeOK
  WalkStaysInGraph
  TraceIsPath
  ReturnedIsDurable
  AnswerFollowsRecord
  FailureRecordIsHonest
PROPERTIES
  EveryRunEnds
  ImplementsLifecycle
