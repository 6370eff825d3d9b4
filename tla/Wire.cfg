SPECIFICATION Spec
CONSTANTS
  Header = 2
  Align = 2
  Payloads = {0, 1, 2, 5}
  QueueCap = 4
  PipeCap = 3
  ReadMax = 2
  MaxFrames = 3
INVARIANTS
  StreamIntact
  FramesArriveWhole
