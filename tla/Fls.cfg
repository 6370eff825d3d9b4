SPECIFICATION FairSpec
CONSTANTS
  Names = {a, b, c}
  Path = root
  MaxId = 2
  ReplyCap = 1
  RequestCap = 2
INVARIANTS
  TypeOK
  AttributesMatch
  EntriesAccounted
PROPERTY Terminates
