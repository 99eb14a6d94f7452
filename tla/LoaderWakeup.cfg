SPECIFICATION ManySpec
CONSTANTS
  NChunks = 2
  Top = 1
  Views <- MCViews
  MaxMoves = 2
  Covers <- MCCovers
  Broken <- NoSlabs
  Outside <- NoSlabs
  Threads = 2
  BatchIds = 65536
CHECK_DEADLOCK FALSE
INVARIANTS WaitIsHeard
