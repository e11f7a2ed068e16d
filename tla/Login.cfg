SPECIFICATION FairSpec
CONSTANTS
    Logins = {l1, l2, l3}
    Subjects = {s1, s2}
    UserIds = {u1, u2, u3}
    Faults <- FaultKinds
    None = None
INVARIANTS
    AccountsAreWhole
    SessionsMatchAccounts
    ConflictMeansAccount
PROPERTIES
    LoginsAnswer
    ImplementsAccounts
