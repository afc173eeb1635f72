SPECIFICATION Spec
CONSTANTS
  first = first
  reply = reply
  NoMessage = NoMessage
  Poller = Poller
  Messages = {first, reply}
  Named = {first}
  ReplyTo <- ReplyToFirst
  MaxSends = 2
  MaxEnds = 1
INVARIANTS
  TypeOK
  SubmittedOnce
  ReplyTargetFinal
  UidTranslates
PROPERTIES
  LinkedRowsKept
  AliasesKept
CHECK_DEADLOCK FALSE
