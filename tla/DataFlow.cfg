SPECIFICATION FairSpec
CONSTANTS
  Senders = {s1, s2, s3}
  Sizes = {0, 1, 4}
  Window = 3
INVARIANTS
  TypeOK
  WindowBound
  NoLostWakeUp
  Conserved
PROPERTY EveryWaitEnds
