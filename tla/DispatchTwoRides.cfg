\* Two rides compete for one driver: stale active-trip keys and their healing.
\* A finished instance stops: bounds used up, every call returned.
SPECIFICATION Spec
CONSTANTS
    r1 = r1
    r2 = r2
    d1 = d1
    d2 = d2
    alice = alice
    bob = bob
    h1 = h1
    h2 = h2
    m1 = m1
    m2 = m2
    w = w
    None = None
    Rides = {r1, r2}
    Drivers = {d1}
    Riders = {alice, bob}
    RiderOf <- TwoRidesOf
    Handlers = {h1, h2}
    Matchers = {m1}
    Watchdog = w
    Ops = {"accept", "cancel"}
    MaxCalls = 3
    MaxFaults = 0
    MaxOffers = 2
    MaxJobs = 1
    MaxRetries = 0
    LastStage = 0
    LockTtlOffers = 0
SYMMETRY Symmetry
PROPERTIES
    NotGivenUpWhileOffered
CHECK_DEADLOCK FALSE
