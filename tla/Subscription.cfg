SPECIFICATION Spec
CONSTANTS
  early = early
  late = late
  one = one
  two = two
  None = None
  Wildcard = Wildcard
  Messages = {early, late}
  Accounts = {one, two}
  Filter = {}
  Born <- BornThen
  Cursored <- WithCursor
  AccountOf <- BelongsTo
  ProvenanceMaxAttempts = 2
  MaxTime = 3
  MaxEnds = 1
INVARIANTS
  TypeOK
  JustifiedByAnchor
  NothingSkipped
  HistoryBlocked
PROPERTIES
  ReadsInOrder
  FloorArrives
CHECK_DEADLOCK FALSE
