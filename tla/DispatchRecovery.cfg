\* One crash, job error or lock expiry, and the watchdog.
\* A finished instance stops: bounds used up, every call returned.
SPECIFICATION FairSpec
CONSTANTS
    r1 = r1
    r2 = r2
    d1 = d1
    d2 = d2
    alice = alice
    bob = bob
    h1 = h1
    h2 = h2
    m1 = m1
    m2 = m2
    w = w
    None = None
    Rides = {r1}
    Drivers = {d1}
    Riders = {alice}
    RiderOf <- OneRideOf
    Handlers = {h1}
    Matchers = {m1}
    Watchdog = w
    Ops = {"accept", "start", "release", "sweep"}
    MaxCalls = 2
    MaxFaults = 1
    MaxOffers = 1
    MaxJobs = 1
    MaxRetries = 1
    LastStage = 0
    LockTtlOffers = 1
PROPERTIES
    EveryRideEnds
    LockEventuallyFree
CHECK_DEADLOCK FALSE
