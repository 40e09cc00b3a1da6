CONSTANTS
  DChecksOn = FALSE
  FloatArgs <- MC_FloatArgs
  IntArgs <- MC_IntArgs
  MaxSends = 3

SPECIFICATION Spec

INVARIANT FactoriesValidate
