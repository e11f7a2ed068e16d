SPECIFICATION Spec
CONSTANTS
    ParamsCalls = {p1}
    LoginCalls = {l1, l2}
    LogoutCalls = {o1}
    Requests = {r1}
    Users = {u1}
    SessionDuration = 2
    ParamsLifetime = 2
    Second = 3
    Leeway = 3
    MaxTime = 6
    Faults <- FaultKinds
    None = None
SYMMETRY Symmetry
INVARIANTS
    TypeOK
    LogoutIsFinal
    LiveSessionsAreAccepted
CHECK_DEADLOCK FALSE
