SPECIFICATION FairSpec
CONSTANTS
    Registrations = {r1, r2}
    Creations = {c1}
    Users = {u1, u2}
    DeviceIds = {d1, d2}
    MaxAttempts = 3
    Faults <- FaultKinds
    None = None
INVARIANTS
    TypeOK
    RegistrationsTakeEffect
    OldTokensStayGone
    RemindersReachDevices
PROPERTIES
    DevicesKeepOwners
    CreationsAnswer
CHECK_DEADLOCK FALSE
