SPECIFICATION Spec
CONSTANTS
  text = text
  old = old
  video = video
  echo = echo
  NoMessage = NoMessage
  Messages = {text, echo}
  Media = {}
  PreFloor = {}
  Own = {echo}
  Catalogue <- EchoCatalogue
  PageSize = 2
  MaxEvents = 2
  MaxHidden = 0
  Checkpoints = FALSE
  MaxEnds = 1
  MediaMaxAttempts = 1
  ProvenanceMaxAttempts = 2
  DeferralMaxEntries = 2
INVARIANT NoSilentLoss
PROPERTY EchoStaysQuiet
CHECK_DEADLOCK FALSE
