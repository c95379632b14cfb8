SPECIFICATION FairSpec
CONSTANTS
  Request <- MCRequest
  PathCap = 1
  RspCap = 3
  StageCap = 2
  SectorLen = 1
  ChunkCap = 2
  FillCap = 2
  Word = 16
INVARIANTS TypeOK NoHandleLeft RepeatChangesNothing
PROPERTIES ImplementsFileStore Answered
