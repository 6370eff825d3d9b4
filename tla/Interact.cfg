SPECIFICATION FairSpec
CONSTANTS
  Height = 3
  Stride = 2
  MaxPayload = 5
  Pieces = 2
  MaxUpdates = 2
  PipeCap = 2
  ReplyCap = 6
INVARIANTS
  TypeOK
  ImageComplete
PROPERTIES
  LastImageShown
  QuitEnds
  JoinReturns
