CONSTANTS
  MaxUID = 2
  MaxCustomers = 2
  MaxFaults = 1
  Legacy = TRUE
SPECIFICATION Spec
CHECK_DEADLOCK FALSE
INVARIANTS
  OneCustomer
  CardsShareTheCustomer
  PublishedInv
  OneWithoutFailure
PROPERTIES
  PublishedIsFinal
  ImplementsRegistry
