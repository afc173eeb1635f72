SPECIFICATION Spec
CONSTANTS
  text = text
  old = old
  video = video
  echo = echo
  NoMessage = NoMessage
  Messages = {video}
  Media = {video}
  PreFloor = {}
  Own = {}
  Catalogue <- MediaCatalogue
  PageSize = 2
  MaxEvents = 2
  MaxHidden = 0
  Checkpoints = FALSE
  MaxEnds = 1
  MediaMaxAttempts = 1
  ProvenanceMaxAttempts = 2
  DeferralMaxEntries = 1
INVARIANT SkippedEventsReplay
CHECK_DEADLOCK FALSE
