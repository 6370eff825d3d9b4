SPECIFICATION Spec
CONSTANTS
  NIds = 2
  MaxChunks = 1
  Window = 0
  QueueCap = 2
  PipeCap = 1
  InCap = 4
  Kinds = {"read"}
  Cancels = {0}
  Pings = FALSE
  Acks = FALSE
  HalfCloses = FALSE
  Vanishes = FALSE
INVARIANT FramesUnbroken
