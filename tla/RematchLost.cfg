\* A release while the matcher of the accepted offer still polls.
\* A finished instance stops: bounds used up, every call returned.
SPECIFICATION Spec
CONSTANTS
    r1 = r1
    r2 = r2
    d1 = d1
    d2 = d2
    alice = alice
    bob = bob
    h1 = h1
    h2 = h2
    m1 = m1
    m2 = m2
    w = w
    None = None
    Rides = {r1}
    Drivers = {d1, d2}
    Riders = {alice}
    RiderOf <- OneRideOf
    Handlers = {h1, h2}
    Matchers = {m1, m2}
    Watchdog = w
    Ops = {"accept", "release"}
    MaxCalls = 2
    MaxFaults = 0
    MaxOffers = 2
    MaxJobs = 1
    MaxRetries = 0
    LastStage = 0
    LockTtlOffers = 2
SYMMETRY Symmetry
INVARIANTS
    RematchNotLost
CHECK_DEADLOCK FALSE
