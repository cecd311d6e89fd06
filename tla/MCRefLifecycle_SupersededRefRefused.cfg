SPECIFICATION Spec
CONSTANTS
  Native = NATIVE_APP
  WebContexts = {WEBVIEW}
  Refs = {r1}
  MaxSnapshots = 3
  MaxChanges = 3
PROPERTIES
  SupersededRefRefused
