SPECIFICATION Spec
CONSTANTS
  Native = NATIVE_APP
  WebContexts = {WEBVIEW}
  Refs = {r1}
  MaxSnapshots = 2
  MaxChanges = 2
INVARIANTS
  TypeOK
  MapFreshOrFlagged
  FlagsKept
  RepliesTellTheTruth
PROPERTIES
  OneActPerSnapshot
  GrantSafety
