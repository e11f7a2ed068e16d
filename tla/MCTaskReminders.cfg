SPECIFICATION RemindersSpec
CONSTANTS
    Requests = {r1, r2, r3}
    Users = {u1, u2}
    TaskIds = {t1}
    MaxAttempts = 2
    Operations <- AllOperations
    Faults <- RemoteFaults
    ClientsReuseIds = FALSE
    Spellings = {"canonical", "other"}
    None = None
SYMMETRY Symmetry
INVARIANTS
    OrphansAreExplained
    MissingRemindersAreExplained
