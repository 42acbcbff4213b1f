SPECIFICATION Spec
CONSTANTS
  h1 = h1
  h2 = h2
  None = None
  Procs = {h1, h2}
  Fare = 3
  Subsidy = 1
  Earnings = 2
  TopupAmount = 1
  Openings = {0}
  MaxRetries = 1
  MaxPasses = 2
  MaxFaults = 1
CONSTRAINT Combined
INVARIANTS
  NeverOvercharged
  BooksNeverAhead
  NeverBothPay
  DriverPaidOnce
  AcknowledgedIsApplied
PROPERTIES
  CollectedOnlyGrows
SYMMETRY Symmetry
CHECK_DEADLOCK FALSE
