SPECIFICATION Spec
CONSTANTS
  Probes = 2
INVARIANT MkfsAlone
