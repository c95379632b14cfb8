SPECIFICATION Spec
CONSTANTS
  Program <- MCAlternating
  Handlers = {"format", "mkdir", "stat"}
  HasReply = {"stat"}
  Deferred = {"format"}
INVARIANTS TypeOK Genuine AckedIsExecuted
PROPERTIES ImplementsAtLeastOnce
\* The program ends, or send_cmd raises.
CHECK_DEADLOCK FALSE
