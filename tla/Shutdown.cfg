SPECIFICATION Spec
CONSTANTS
  MaxChannels = 2
  MaxSignals = 2
  MaxCursor = 1
INVARIANTS
  TypeOK
  FlushedOnce
  DrainedFirst
  MasterStoppedOnce
  RegisteredCaptures
  WaitsEnd
PROPERTIES
  GetsOn
  ShutdownEnds
  MasterWrapped
CHECK_DEADLOCK FALSE
