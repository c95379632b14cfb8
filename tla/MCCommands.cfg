SPECIFICATION Spec
CONSTANTS
  Word = 256
  MaxLen = 3
  FlashStart = 1
  FlashEnd = 2
  DtcmStart = 5
  DtcmEnd = 6
  AxiStart = 9
  AxiEnd = 12
  Request <- MCRequest
  RspCap = 8
  Width = 3
  Height = 2
  Formats = {"ARGB8888", "RGB565", "RGB888", "BGR565"}
  Readable = {"ARGB8888", "RGB565", "RGB888"}
  LineCap = 9
  FaultyRows = {0}
  PanelId <- MCPanelId
  Hash <- MCHash
  TickMod = 2
  Unknown = Unknown
  Stale = Stale
INVARIANTS TypeOK StateIsTrue PanelReadsFit
PROPERTIES  StopTakesEffect Served
