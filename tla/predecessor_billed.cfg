CONSTANTS
  MaxUID = 2
  MaxCustomers = 2
  MaxFaults = 0
  Legacy = FALSE
SPECIFICATION Spec
CHECK_DEADLOCK FALSE
INVARIANTS
  NotBilledToPredecessor
