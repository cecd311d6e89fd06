SPECIFICATION Spec
CONSTANTS
  Procs = {daemon, host}
  Contexts = {NATIVE_APP, WEBVIEW}
  Native = NATIVE_APP
  Global = latest
  MaxSnapshots = 2
SYMMETRY ProcsUpToOrder
INVARIANTS
  TypeOK
  PointersNameWholeBundles
PROPERTIES
  SearchSeesWhole
  FinishedIsLatest
  StoreSafety
