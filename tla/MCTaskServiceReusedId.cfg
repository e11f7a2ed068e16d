SPECIFICATION OneByOne
CONSTANTS
    Requests = {r1, r2, r3}
    Users = {u1}
    TaskIds = {t1}
    MaxAttempts = 1
    Operations <- AllOperations
    Faults = {}
    ClientsReuseIds = TRUE
    Spellings = {"canonical"}
    None = None
INVARIANTS
    OneTaskPerId
