CONSTANTS
  r1 = r1
  r2 = r2
  q1 = q1
  Replicas = {r1}
  Leader = r1
  Requests = {q1}
  MaxSI = 2
  MaxUID = 1
  MaxAttempts = 2
  MaxFaults = 1
  Failures = {"api server", "webhook handler", "crash"}
  ConsumerMay = {"confirm", "delay"}
SPECIFICATION Spec
CHECK_DEADLOCK FALSE
PROPERTIES
  NewIntentIsAuthoritative
