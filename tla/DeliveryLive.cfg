SPECIFICATION FairSpec
CONSTANTS
  text = text
  old = old
  video = video
  echo = echo
  NoMessage = NoMessage
  Messages = {text, video}
  Media = {video}
  PreFloor = {}
  Own = {}
  Catalogue <- LiveCatalogue
  PageSize = 2
  MaxEvents = 2
  MaxHidden = 0
  Checkpoints = FALSE
  MaxEnds = 1
  MediaMaxAttempts = 2
  ProvenanceMaxAttempts = 2
  DeferralMaxEntries = 1
PROPERTIES
  StreamDrains
  OwedTextSettles
  ActiveRetriesEnd
CHECK_DEADLOCK FALSE
