SPECIFICATION Spec
CONSTANTS
    Requests = {r1, r2}
    Users = {u1}
    TaskIds = {t1}
    MaxAttempts = 1
    Operations <- AllOperations
    Faults = {}
    ClientsReuseIds = FALSE
    Spellings = {"canonical"}
    None = None
PROPERTIES
    MaskedUpdateKeepsStatus
