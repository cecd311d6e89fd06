SPECIFICATION Spec
CONSTANTS
  Daemons = {d1, d2}
  Clis = {c1}
  Commands = {"start", "stop", "server_stop"}
  None = None
  MaxDeaths = 0
  MaxCrashes = 0
PROPERTIES
  StopEndsItsDaemon
