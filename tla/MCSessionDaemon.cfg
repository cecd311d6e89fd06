SPECIFICATION Spec
CONSTANTS
  Daemons = {d1, d2, d3, d4}
  Clis = {c1}
  Commands = {"start", "stop", "server_stop"}
  None = None
  MaxDeaths = 0
  MaxCrashes = 3
SYMMETRY DaemonSymmetry
INVARIANTS
  TypeOK
  ServingIsNamed
  OneOnTheFiles
  SessionFileIsCurrent
PROPERTIES
  StartedIsOwn
  NoServingDaemonKilled
