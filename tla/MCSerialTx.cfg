SPECIFICATION FairSpec
CONSTANTS
  proto = proto
  tick = tick
  Writer = {proto, tick}
  None = None
  Frames <- MCFrames
  TxSize = 4
  Chunk = 2
  HwDepth = 2
  MaxSpins = 2
INVARIANTS TypeOK NeverStranded DrainedInTime WireInOrder PathsInOrder
PROPERTIES AllSent
