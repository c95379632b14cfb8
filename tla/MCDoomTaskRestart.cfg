SPECIFICATION Spec
CONSTANTS
  TickMod = 16
  HostWaits = FALSE
PROPERTY StartsOnlyIfNone
