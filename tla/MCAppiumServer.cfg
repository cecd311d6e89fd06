SPECIFICATION Spec
CONSTANTS
  Procs = {p1, p2, p3}
  Ports = {a, b}
  Clis = {c1, c2}
  None = None
  MaxFaults = 1
SYMMETRY ServerSymmetry
INVARIANTS
  TypeOK
  OurServerOnFile
PROPERTIES
  StopStops
  OnlyOursSignalled
CHECK_DEADLOCK FALSE
