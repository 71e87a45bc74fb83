CONSTANTS
  MaxUID = 1
  MaxCustomers = 2
  MaxFaults = 1
  Legacy = FALSE
SPECIFICATION Spec
CHECK_DEADLOCK FALSE
INVARIANTS
  NeverTwo
