SPECIFICATION Spec
CONSTANTS
  Replicas = {r1, r2}
  Ids = {confirmed, declined, other}
  Confirmations = {confirmed}
  Declines = {declined}
  Capacity = 2
  MaxTries = 2
  MaxServing = 2
  MaxFaults = 1
INVARIANTS
  DeduperInv
  OneEventPerProcess
  PhaseIsOnTimeline
PROPERTIES
  ImplementsWindow
SYMMETRY Processes
CHECK_DEADLOCK FALSE
