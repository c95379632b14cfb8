SPECIFICATION Spec
CONSTANT MaxCmds = 32
INVARIANTS TypeOK BootInOrder CodeShown PulseEnds
PROPERTY LedAlive
