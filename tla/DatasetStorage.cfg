SPECIFICATION Spec
CONSTANTS
  Lengths = {2}
  BufferSize = 2
  ChunksSize = 2
  MaxEpisodes = 3
  MaxSessions = 3
  MaxFailures = 2
  MaxCrashes = 1
  None = None
INVARIANTS
  TypeOK
  SavedDataKept
  SavedVideoKept
  RecordsInTheirFile
  RecordsAscend
CHECK_DEADLOCK FALSE
