SPECIFICATION Spec
CONSTANTS
  None = None
  Turns = {t1, t2, t3}
  ExternalIds = {x}
  Unknown = Unknown
  Limit = 4
  MaxDeletes = 1
  DbOutcomes = {"ok", "fail"}
SYMMETRY Symmetry
INVARIANTS
  NoDanglingRows
  ThreadsDoNotMix
  LateTurnCreatesNothing
  TurnSeesConversation
