SPECIFICATION Spec
CONSTANTS
  QUEUE_SIZE = 3
  ScanCodes <- MCScanCodes
INVARIANTS
  TypeOK
  RingInStep
PROPERTIES
  ImplementsQueue
  KeysAreQueued
