CONSTANTS
  Objects = {o1, o2, o3}
  NoObject = NoObject
  MaxInstances = 2
  MaxHandoffs = 2

SPECIFICATION Spec

INVARIANT SubmodulesExclusivelyOwned
