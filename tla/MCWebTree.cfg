SPECIFICATION Spec
CONSTANTS
  N = 4
  Elements <- Pages
  NodeLimits = {2, 3, 5}
  DepthLimits = {0, 1, 2, 5}
INVARIANTS
  TypeOK
  RefsUnique
  LossIsSaid
  WithinLimits
  NestingKept
