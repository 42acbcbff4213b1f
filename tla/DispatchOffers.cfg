\* One ride, two drivers, any two calls against two concurrent matchers.
\* A finished instance stops: bounds used up, every call returned.
SPECIFICATION Spec
CONSTANTS
    r1 = r1
    r2 = r2
    d1 = d1
    d2 = d2
    alice = alice
    bob = bob
    h1 = h1
    h2 = h2
    m1 = m1
    m2 = m2
    w = w
    None = None
    Rides = {r1}
    Drivers = {d1, d2}
    Riders = {alice}
    RiderOf <- OneRideOf
    Handlers = {h1, h2}
    Matchers = {m1, m2}
    Watchdog = w
    Ops = {"accept", "decline", "cancel", "release", "start", "complete", "arrive", "online", "pending", "expire"}
    MaxCalls = 2
    MaxFaults = 0
    MaxOffers = 2
    MaxJobs = 1
    MaxRetries = 0
    LastStage = 0
    LockTtlOffers = 0
SYMMETRY Symmetry
INVARIANTS
    TypeOK
    OneMatcherPerRide
    NoOrphanLock
    NoForgottenOffer
PROPERTIES
    LifecycleSpec
    AssignedDriverWasOffered
CHECK_DEADLOCK FALSE
