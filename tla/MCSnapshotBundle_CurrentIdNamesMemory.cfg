SPECIFICATION Spec
CONSTANTS
  Procs = {daemon}
  Contexts = {NATIVE_APP, WEBVIEW}
  Native = NATIVE_APP
  Global = latest
  MaxSnapshots = 3
INVARIANTS
  CurrentIdNamesMemory
