SPECIFICATION Spec
CONSTANTS
  ByteMod = 4
  IntMod = 16
  IntSize = 2
  LongSize = 4
  MaxLen = 7
  BlockSize = 3
  Offsets <- MCOffsets
  Fds <- MCFds
  PathSizes = {0, 1, 7}
  DataSizes = {0, 1, 6, 7, 8, 9, 10, 11, 12, 15}
  SlurpSizes = {0, 1, 6, 7}
INVARIANTS
  RequestArrives
  FileArrives
  LengthStored
