SPECIFICATION FairSpec
CONSTANTS
  NIds = 2
  MaxChunks = 1
  Window = 1
  QueueCap = 2
  PipeCap = 2
  InCap = 5
  Kinds = {"sync", "read"}
  Cancels = {}
  Pings = FALSE
  Acks = TRUE
  HalfCloses = FALSE
  Vanishes = FALSE
INVARIANTS
  TypeOK
  FramesUnbroken
  SessionSurvives
  WindowConserved
  NothingStranded
PROPERTIES
  KeepsPromise
  EveryRequestAnswered
