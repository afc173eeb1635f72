SPECIFICATION Spec
CONSTANTS
  text = text
  old = old
  video = video
  echo = echo
  NoMessage = NoMessage
  Messages = {video}
  Media = {video}
  PreFloor = {}
  Own = {}
  Catalogue <- MediaCatalogue
  PageSize = 2
  MaxEvents = 3
  MaxHidden = 0
  Checkpoints = FALSE
  MaxEnds = 1
  MediaMaxAttempts = 2
  ProvenanceMaxAttempts = 2
  DeferralMaxEntries = 1
INVARIANTS
  TypeOK
  AtMostOnceDelivery
  NoSilentLoss
  RecoverableMediaKept
PROPERTIES
  KeepsPromise
  ReadsInOrder
CHECK_DEADLOCK FALSE
