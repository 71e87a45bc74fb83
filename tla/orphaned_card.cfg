CONSTANTS
  r1 = r1
  r2 = r2
  q1 = q1
  Replicas = {r1}
  Leader = r1
  Requests = {q1}
  MaxSI = 1
  MaxUID = 1
  MaxAttempts = 2
  MaxFaults = 0
  Failures = {}
  ConsumerMay = {"confirm", "delete parent"}
SPECIFICATION Spec
CHECK_DEADLOCK FALSE
INVARIANTS
  NoOrphanedCard
