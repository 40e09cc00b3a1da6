CONSTANTS
  Dumps = {d1, d2, d3}
  NoDump = NoDump
  MaxQueue = 3

SPECIFICATION Spec

INVARIANT NoWriteAfterDestroy
PROPERTY DetachCompletes
