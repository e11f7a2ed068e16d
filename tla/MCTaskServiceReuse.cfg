SPECIFICATION Spec
CONSTANTS
    Requests = {r1, r2, r3}
    Users = {u1, u2}
    TaskIds = {t1}
    MaxAttempts = 2
    Operations <- AllOperations
    Faults <- FaultKinds
    ClientsReuseIds = TRUE
    Spellings = {"canonical"}
    None = None
SYMMETRY Symmetry
INVARIANTS
    TypeOK
    CompletionCancelsReminders
    ActiveIsBacked
    PendingIsExplained
PROPERTIES
    OnlyOwnersChangeRows
