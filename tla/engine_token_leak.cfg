SPECIFICATION Spec
CONSTANTS
  None = None
  Runs = {r1, r2}
  Graphs <- MCLlmGraphs
  Backends = {}
  MaxNodeVisits = 4
  DbOutcomes = {"ok"}
INVARIANTS
  TotalsNeverLeak
