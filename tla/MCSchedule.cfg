SPECIFICATION Spec
CONSTANTS
    Calls = {c1, c2, c3}
    Users = {u1, u2}
    Operations <- AllOperations
    TaskTypes <- SomeTypes
    PeriodMaps <- SomePeriodMaps
    ScheduledAts <- SomeScheduledAts
    Instants <- SomeInstants
    Faults <- FaultKinds
    None = None
    Clear = Clear
SYMMETRY Symmetry
INVARIANTS
    TypeOK
    SettingsAreOneRequest
    TasksUsePeriods
    RowsStayReadable
    AnswersBlameRightly
    ReminderDriftIsExplained
    RemindersArePlausible
CHECK_DEADLOCK FALSE
