SPECIFICATION FairSpec
CONSTANTS
  Names <- MCNames
  ENTRIES = 2
  CLUSTERS = 3
  SECTOR = 1
  SPC = 2
  MAX_OPEN = 2
  Counts <- MCCounts
  MAX_SIZE = 5
INVARIANTS
  TypeOK
  ChainsDisjoint
  FilesDisjoint
  StaysOnChain
PROPERTIES
  ChainsOnlyGrow
  CallsReturn
