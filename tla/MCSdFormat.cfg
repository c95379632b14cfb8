SPECIFICATION FairSpec
CONSTANTS
  Probes = 2
INVARIANTS TypeOK FormatLeavesMounted FailuresExplained
PROPERTIES FormatsDontOverlap FormatEnds
