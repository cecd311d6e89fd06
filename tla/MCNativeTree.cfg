SPECIFICATION Spec
CONSTANTS
  N = 4
  Elements <- Screens
  Budgets = {2, 3, 4}
  Guard = 3
INVARIANTS
  TypeOK
  NothingLostUnsaid
  AncestryKept
  TapTargetIsNearest
  SearchTellsAll
  LabelsNameTheirTarget
