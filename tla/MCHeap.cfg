SPECIFICATION Spec
CONSTANTS
  PAGE = 4
  HEAP_PAGES = 3
  SIZE_MOD = 256
  FRAMES = 4
  Sizes <- MCSizes
INVARIANTS
  TypeOK
  ListInOrder
  NoFreeNeighbours
  BlocksInUse
  BlocksLargeEnough
  FramesConserved
PROPERTY
  Implements
