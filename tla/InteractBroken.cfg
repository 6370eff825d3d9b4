SPECIFICATION Spec
CONSTANTS
  Height = 3
  Stride = 2
  MaxPayload = 5
  Pieces = 2
  MaxUpdates = 1
  PipeCap = 2
  ReplyCap = 6
INVARIANT FramesUnbroken
