SPECIFICATION FairSpec
CONSTANTS
  Cameras = 2
  QueueSize = 1
  MaxRows = 2
  MaxEpisodes = 2
  MaxCrashes = 1
  MaxTimeouts = 1
INVARIANTS
  TypeOK
  SavedVideosAreComplete
  NothingLeftBehind
PROPERTIES
  CallsReturn
  ThreadsEnd
CHECK_DEADLOCK FALSE
