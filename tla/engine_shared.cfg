SPECIFICATION FairSpec
CONSTANTS
  None = None
  Runs = {r1, r2}
  Graphs <- MCAgentGraphs
  Backends = {"task_logger"}
  MaxNodeVisits = 3
  DbOutcomes = {"ok"}
INVARIANTS
  FlushedBeforeEnd
  NewestRunCountsItsCalls
PROPERTIES
  EndedRunIsFrozen
