SPECIFICATION RxFairSpec
CONSTANTS
  RxSize = 4
  IsrChunk = 3
  ReadMax = 2
  Byte = {0, 1}
  MaxArrivals = 6
INVARIANTS RxTypeOK PromiseKept NoOverwrite
PROPERTIES ImplementsFifo AcceptedIsFed
