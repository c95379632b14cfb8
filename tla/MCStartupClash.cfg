SPECIFICATION Spec
CONSTANT MaxCmds = 32
INVARIANT BlinkWhole
