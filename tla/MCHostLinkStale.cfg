SPECIFICATION Spec
CONSTANTS
  Program <- MCTwoWrites
  Handlers = {"write", "stat"}
  HasReply = {"stat"}
  Deferred = {}
INVARIANT AckedIsExecuted
CHECK_DEADLOCK FALSE
