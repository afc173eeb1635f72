SPECIFICATION FairSpec
CONSTANTS
  text = text
  old = old
  video = video
  echo = echo
  NoMessage = NoMessage
  Messages = {video}
  Media = {video}
  PreFloor = {}
  Own = {}
  Catalogue <- WakeCatalogue
  PageSize = 2
  MaxEvents = 2
  MaxHidden = 0
  Checkpoints = FALSE
  MaxEnds = 0
  MediaMaxAttempts = 1
  ProvenanceMaxAttempts = 2
  DeferralMaxEntries = 1
PROPERTY ParkedMediaWakes
CHECK_DEADLOCK FALSE
