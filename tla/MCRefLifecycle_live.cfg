SPECIFICATION Spec
CONSTANTS
  Native = NATIVE_APP
  WebContexts = {WEBVIEW}
  Refs = {r1}
  MaxSnapshots = 2
  MaxChanges = 1
PROPERTIES
  RequestAnswered
