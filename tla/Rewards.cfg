SPECIFICATION Spec
CONSTANTS
  alice = alice
  bob = bob
  r1 = r1
  r2 = r2
  k1 = k1
  None = None
  Procs = {h1, h2}
  Riders = {alice, bob}
  Rides = {r1, r2}
  AdminKeys = {k1}
  Referrer = alice
  RiderOf <- MCRiderOf
  Accounts <- MCAccounts
  Keys <- MCKeys
  Grants <- MCGrants
  Amounts <- MCAmounts
  Fare = 2
  Discount = 1
  Award = 1
  Bonus = 1
  MaxCalls = 3
  MaxUses = 1
  Openings = {1}
  MaxStrays = 1
  MaxFaults = 1
INVARIANTS
  NoOverdraft
  KeyPostedOnce
  NoRideOverpaid
  CancelledCostsNothing
  PaymentOnRow
  PromoCounted
  ReferrerPaidForFirstRide
PROPERTIES
  PostIsAtomic
SYMMETRY Symmetry
CHECK_DEADLOCK FALSE
