SPECIFICATION Spec
CONSTANTS
  None = None
  Turns = {t1, t2}
  ExternalIds = {x}
  Unknown = Unknown
  Limit = 2
  MaxDeletes = 0
  DbOutcomes = {"ok"}
INVARIANTS
  TurnSeesItsMessage
