CONSTANTS
  r1 = r1
  r2 = r2
  q1 = q1
  Replicas = {r1, r2}
  Leader = r1
  Requests = {q1}
  MaxSI = 1
  MaxUID = 2
  MaxAttempts = 1
  MaxFaults = 0
  Failures = {}
  ConsumerMay = {"confirm", "delete child"}
SPECIFICATION Spec
CHECK_DEADLOCK FALSE
INVARIANTS
  ActiveIsConfirmed
  CopiesAreConfirmed
  ConfirmationInv
PROPERTIES
  ReleaseIsClean
  SurrenderIsDue
