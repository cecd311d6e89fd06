SPECIFICATION Spec
CONSTANTS
  Daemons = {d1, d2}
  Clis = {c1, c2}
  Commands = {"start", "server_stop"}
  None = None
  MaxDeaths = 1
  MaxCrashes = 0
PROPERTIES
  CommandEnds
