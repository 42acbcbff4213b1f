SPECIFICATION MCSpec
CONSTANTS
  h1 = h1
  h2 = h2
  r1 = r1
  r2 = r2
  c1 = c1
  c2 = c2
  w1 = w1
  w2 = w2
  p1 = p1
  p2 = p2
  None = None
  Procs = {h1, h2}
  Redemptions = {r1, r2}
  Discounts = {1, 2}
  MinLive = 1
  Openings = {3}
  Adjustments <- Deltas
  MaxAdjusts = 1
  MaxFaults = 1
  Charges = {c1, c2}
  ChargeAmount = 3
  Withdrawals = {w1, w2}
  Amounts = {2, 4}
  MaxRuns = 3
  Handlers = {h1, h2}
  NoPayout = NoPayout
  Requests = {p1, p2}
  Price = 2
  Fee = 1
  Earnings = 3
  MaxRides = 2
  MaxTries = 1
  MaxMishaps = 1
CONSTRAINT Bounded
INVARIANTS
  BooksBalance
  ReservedIsHeld
  NeverBothEnds
  RefundsWithinWithdrawal
  OnePayoutAWeek
  NothingLost
  PaidIsTransferred
SYMMETRY Symmetry
CHECK_DEADLOCK FALSE
