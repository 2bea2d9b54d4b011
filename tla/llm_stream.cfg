SPECIFICATION FairSpec
CONSTANTS
  Modes = {"whole", "stream"}
  Thinking = {TRUE, FALSE}
  Errors = {"transient", "client", "final"}
  MaxRetries = 3
  BaseDelay = 1
  MaxDelay = 12
  Timeout = 6
  MaxChunks = 1
INVARIANTS
  AnswerIsWhole
  LastSilentRetryIsUnheard
PROPERTIES
  ImplementsModelCall
  ConsumerEnds
  ProducerEnds
