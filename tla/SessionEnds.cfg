SPECIFICATION FairSpec
CONSTANTS
  NIds = 1
  MaxChunks = 1
  Window = 1
  QueueCap = 2
  PipeCap = 1
  InCap = 3
  Kinds = {"tail"}
  Cancels = {0}
  Pings = TRUE
  Acks = FALSE
  HalfCloses = TRUE
  Vanishes = TRUE
INVARIANT BoxOutlivesTask
PROPERTIES
  JoinReturns
  ServerExits
CHECK_DEADLOCK FALSE
