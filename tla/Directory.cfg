SPECIFICATION Spec
CONSTANTS
  near = near
  far = far
  second = second
  third = third
  First = First
  Last = Last
  Master = Master
  Poller = Poller
  NoChat = NoChat
  Chats = {near, far}
  Cursors = {First, second, third}
  PageOf <- Paging
  Pagings <- Answers
  MaxObjects = 2
  MaxChanges = 2
INVARIANTS
  TypeOK
  RemovedWasAbsent
  IndicesAgree
  NoGhosts
PROPERTY ListingEnds
CHECK_DEADLOCK FALSE
