SPECIFICATION FairSpec
CONSTANTS
    Requests = {r1, r2}
    Users = {u1, u2}
    TaskIds = {t1}
    MaxAttempts = 3
    Operations <- AllOperations
    Faults <- FaultKinds
    ClientsReuseIds = TRUE
    Spellings = {"canonical"}
    None = None
PROPERTIES
    HandlersAnswer
    CallsRunOut
