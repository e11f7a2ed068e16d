SPECIFICATION Spec
CONSTANTS
    Requests = {r1, r2, r3}
    Users = {u1, u2}
    TaskIds = {t1}
    MaxAttempts = 2
    Operations <- AllOperations
    Faults <- FaultKinds
    ClientsReuseIds = FALSE
    Spellings = {"canonical"}
    None = None
SYMMETRY Symmetry
INVARIANTS
    CreatedTaskIsKept
    OneEnding
    DeletedStaysDeleted
    OneTaskPerId
PROPERTIES
    ImplementsLifecycle
