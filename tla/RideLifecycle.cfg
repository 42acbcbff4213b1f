\* Every ride terminal is an end of the model, not a deadlock of the code.
SPECIFICATION Spec
CONSTANTS
    r1 = r1
    r2 = r2
    r3 = r3
    d1 = d1
    d2 = d2
    alice = alice
    bob = bob
    None = None
    Rides <- MCRides
    Drivers <- MCDrivers
    Riders <- MCRiders
    RiderOf <- MCRiderOf
SYMMETRY Symmetry
INVARIANTS
    TypeOK
    DriverFollowsStatus
    OneActiveRidePerRider
PROPERTIES
    TerminalIsFinal
    DriverChangesThroughPool
CHECK_DEADLOCK FALSE
