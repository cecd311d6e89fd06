SPECIFICATION FairSpec
CONSTANTS
  Tools <- ObserveAndTap
  Args = {x, secret}
  SensitiveArgs = {secret}
  Screens = {s}
  None = None
  MaxTurns = 5
  MaxNoProgress = 4
  MaxRetries = 2
  MaxVerifications = 2
  WindowSize = 5
  MaxCalls = 1
INVARIANTS
  TypeOK
  RetryBudget
  OneTerminalEvent
  StuckRunsEnd
  SuccessHasEvidence
PROPERTY RunEnds
