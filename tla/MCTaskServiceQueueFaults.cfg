SPECIFICATION FairSpec
CONSTANTS
    Requests = {r1, r2, r3}
    Users = {u1, u2}
    TaskIds = {t1}
    MaxAttempts = 2
    Operations <- AllOperations
    Faults <- QueueFaults
    ClientsReuseIds = FALSE
    Spellings = {"canonical"}
    None = None
INVARIANTS
    FailedCreateLeavesNoTask
PROPERTIES
    PendingResolves
