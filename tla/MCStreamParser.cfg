SPECIFICATION Spec
CONSTANTS
  Byte <- MCByte
  Magic <- MCMagic
  Version = 1
  PbufSize = 1
  Crc <- MCCrc
  MaxSeg = 12
VIEW Live
INVARIANTS TypeOK MatchesReference SidesAgree
PROPERTIES RereadingKeeps
CHECK_DEADLOCK FALSE
