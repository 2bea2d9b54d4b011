SPECIFICATION Spec
CONSTANTS
  r1 = r1
  r2 = r2
  r3 = r3
  c1 = c1
  c2 = c2
  c3 = c3
  Runs = {r1, r2, r3}
  Calls = {c1, c2, c3}
  RunOf <- McpRunOf
  Servers = {x}
  None = None
INVARIANT
  CleanupAll
