SPECIFICATION FairSpec
CONSTANTS
    Requests = {r1, r2}
    Environments <- SomeEnvironments
    Faults <- FaultKinds
INVARIANTS
    ResourcesAreReleased
    RequestsAreServedWhole
PROPERTIES
    SignalStops
CHECK_DEADLOCK FALSE
