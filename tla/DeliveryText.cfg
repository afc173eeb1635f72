SPECIFICATION Spec
CONSTANTS
  text = text
  old = old
  video = video
  echo = echo
  NoMessage = NoMessage
  Messages = {text, old}
  Media = {}
  PreFloor = {old}
  Own = {}
  Catalogue <- TextCatalogue
  PageSize = 2
  MaxEvents = 3
  MaxHidden = 1
  Checkpoints = TRUE
  MaxEnds = 1
  MediaMaxAttempts = 1
  ProvenanceMaxAttempts = 2
  DeferralMaxEntries = 1
INVARIANTS
  NoSilentLoss
  CheckpointCovered
PROPERTY KeepsPromise
CHECK_DEADLOCK FALSE
