------------------------------ MODULE Schedule ------------------------------
(***************************************************************************)
(* When tasks are due and when their owners are reminded: the period       *)
(* settings of users (internal/task/app/period, domain/period), the target *)
(* of a task from its creation over its updates, and the reminders that    *)
(* CreateTask hands to Remind Time Management.                             *)
(*                                                                         *)
(* TaskService says what becomes of the status and the reminders of a task *)
(* that is created, completed or deleted; here a task is a row of tasks    *)
(* with its times, every creation brings an id of its own, the call that   *)
(* makes it, and the answers of all handlers are the codes of the service  *)
(* layer.  A call that the check of its session refuses does nothing; it   *)
(* is left out.  Calls run concurrently, and time passes between their     *)
(* steps: the creation time and the reminders are fixed before the devices *)
(* are fetched, the row is written and the reminders are sent after.       *)
(***************************************************************************)
EXTENDS ReminderTimes

CONSTANTS
    Calls,         \* the calls of clients
    Users,         \* their users
    Operations,    \* the operations they call
    TaskTypes,     \* the types of tasks they create
    PeriodMaps,    \* the settings clients ask for
    ScheduledAts,  \* the times clients schedule tasks at
    Instants,      \* what the clock shows, in seconds
    Faults,        \* what may go wrong outside the handlers
    None,          \* an absent time or task
    Clear          \* clear_scheduled_at in the mask

FaultKinds == {"db_error", "db_ack_lost", "queue_error"}

ASSUME ScheduleTypesAssumption == TaskTypes \subseteq Types
ASSUME ScheduleFaultsAssumption == Faults \subseteq FaultKinds
ASSUME ScheduleTimesAssumption == Instants \cup ScheduledAts \subseteq Nat
ASSUME ScheduleMarksAssumption == None # Clear /\ {None, Clear} \cap Nat = {}

MinPeriodMinutes == 1
MaxPeriodMinutes == 10080

\* An update whose mask completes the task is the operation "complete".
AllOperations == {"settings", "get_settings", "create", "update", "complete", "delete", "get", "list"}

ASSUME ScheduleOperationsAssumption == Operations \subseteq AllOperations

SettingsRequest == [kind: {"settings"}, user: Users, periods: PeriodMaps]
CreateRequest == [kind: {"create"}, user: Users, type: TaskTypes, scheduledAt: ScheduledAts \cup {None}]
UpdateRequest == [kind: {"update", "complete"}, user: Users, task: Calls,
                  scheduledAt: ScheduledAts \cup {None, Clear}]
DeleteRequest == [kind: {"delete"}, user: Users, task: Calls]
GetRequest == [kind: {"get"}, user: Users, task: Calls]
ListRequest == [kind: {"list"}, user: Users]
GetSettingsRequest == [kind: {"get_settings"}, user: Users]
Requests ==
    SettingsRequest \cup GetSettingsRequest \cup CreateRequest \cup UpdateRequest
        \cup DeleteRequest \cup GetRequest \cup ListRequest

Task == [user: Users, type: TaskTypes, scheduledAt: Nat \cup {None}, createdAt: Nat, targetAt: Nat]

ASSUME ScheduleNoneAssumption == None \notin Requests

VARIABLES
    now,        \* the clock
    settings,   \* user_period_settings: by user, minutes by type (no row: none)
    rows,       \* tasks: by id
    completed,  \* completed_tasks: the ids
    reminders,  \* the messages that were sent
    req,        \* the request of each call
    stage,      \* the next step of each call, or its answer
    task        \* the entity a call holds in memory

vars == <<now, settings, rows, completed, reminders, req, stage, task>>
tables == <<settings, rows, completed, reminders>>

Steps == {"Fetch", "SaveTask", "Register", "UpdateTaskStatus", "UpdateTask",
          "CancelRemind", "ArchiveTask", "DeleteTask"}
InvalidTask == {"ErrScheduledAtRequired", "ErrScheduledAtBeforeCreatedAt",
                "ErrScheduledAtNotAllowed"}
InvalidPeriods == {"ErrScheduledTypeNotAllowed", "ErrInvalidPeriodMinutes"}
Unreachable == {"ErrUnauthorized", "ErrDeviceInvalidArgument", "ErrDeviceServiceUnavailable"}
Errors == InvalidTask \cup InvalidPeriods \cup Unreachable
              \cup {"ErrTaskNotFound", "ErrRemindQueueRegistrationFailed", "ErrCancelRemindFailed",
                    "duplicate key", "database error"}

\* The error of NewUserPeriodSettings: the map is checked in any order.
PeriodErrors(periods) ==
    {IF t = "scheduled" THEN "ErrScheduledTypeNotAllowed" ELSE "ErrInvalidPeriodMinutes" :
        t \in {u \in DOMAIN periods :
                  u = "scheduled" \/ periods[u] \notin MinPeriodMinutes..MaxPeriodMinutes}}

IsValid(periods) == PeriodErrors(periods) = {}

TypeOK ==
    /\ now \in Instants
    /\ DOMAIN settings = Users /\ \A u \in Users : IsValid(settings[u])
    /\ DOMAIN rows \subseteq Calls /\ \A t \in DOMAIN rows : rows[t] \in Task
    /\ completed \subseteq Calls
    /\ \A m \in reminders : m.task \in Calls /\ \A i \in DOMAIN m.times : m.times[i] \in Nat
    /\ \A c \in Calls : req[c] = None \/ req[c] \in Requests
    /\ stage \in [Calls -> {"idle", "ok"} \cup Steps \cup Errors]
    /\ \A c \in Calls : task[c] = None \/ task[c] \in Task

Init ==
    /\ now \in Instants
    /\ settings = [u \in Users |-> <<>>]
    /\ rows = <<>>
    /\ completed = {}
    /\ reminders = {}
    /\ req = [c \in Calls |-> None]
    /\ stage = [c \in Calls |-> "idle"]
    /\ task = [c \in Calls |-> None]

Tick ==
    /\ \E i \in Instants : i > now /\ now' = i
    /\ UNCHANGED <<tables, req, stage, task>>

GoTo(c, s) == stage' = [stage EXCEPT ![c] = s]
DatabaseFails(c) == "db_error" \in Faults /\ GoTo(c, "database error")
Begin(c, r) == stage[c] = "idle" /\ req' = [req EXCEPT ![c] = r]
Put(f, x, y) == [z \in DOMAIN f \cup {x} |-> IF z = x THEN y ELSE f[z]]
Without(f, x) == [z \in DOMAIN f \ {x} |-> f[z]]

(***************************************************************************)
(* Period settings                                                         *)
(***************************************************************************)

\* Mutant: the columns of the upsert are merged.
Saved_Merge(old, new) ==
    [t \in DOMAIN old \cup DOMAIN new |-> IF t \in DOMAIN new THEN new[t] ELSE old[t]]

\* INSERT ... ON CONFLICT (user_id) DO UPDATE SET periods: the whole map.
Saved(old, new) == new

\* Mutant: the map is not checked.
UpdatePeriodSettings_NotChecked(c) ==
    \E r \in SettingsRequest :
        /\ Begin(c, r)
        /\ settings' = [settings EXCEPT ![r.user] = Saved(settings[r.user], r.periods)]
        /\ GoTo(c, "ok")
        /\ UNCHANGED <<now, rows, completed, reminders, task>>

UpdatePeriodSettings(c) ==
    \E r \in SettingsRequest :
        /\ Begin(c, r)
        /\ \/ /\ \E e \in PeriodErrors(r.periods) : GoTo(c, e)
              /\ settings' = settings
           \/ /\ IsValid(r.periods)
              /\ settings' = [settings EXCEPT ![r.user] = Saved(settings[r.user], r.periods)]
              /\ GoTo(c, "ok") \/ ("db_ack_lost" \in Faults /\ GoTo(c, "database error"))
           \/ /\ IsValid(r.periods)
              /\ settings' = settings /\ DatabaseFails(c)
        /\ UNCHANGED <<now, rows, completed, reminders, task>>

\* The row becomes settings again, which are checked again.
GetPeriodSettings(c) ==
    \E r \in GetSettingsRequest :
        /\ Begin(c, r)
        /\ \/ IsValid(settings[r.user]) /\ GoTo(c, "ok")
           \/ \E e \in PeriodErrors(settings[r.user]) : GoTo(c, e)
           \/ DatabaseFails(c)
        /\ UNCHANGED <<now, tables, task>>

(***************************************************************************)
(* Entities                                                                *)
(***************************************************************************)

\* What NewTask refuses: it checks new tasks, updated ones and every row read.
TaskErrors(t) ==
    IF t.type = "scheduled"
    THEN IF t.scheduledAt = None THEN {"ErrScheduledAtRequired"}
         ELSE IF t.scheduledAt < t.createdAt THEN {"ErrScheduledAtBeforeCreatedAt"} ELSE {}
    ELSE IF t.scheduledAt # None THEN {"ErrScheduledAtNotAllowed"} ELSE {}

IsTask(t) == TaskErrors(t) = {}

\* The custom period if the settings have one, otherwise the default.
PeriodFor(type, periods) ==
    IF type \in DOMAIN periods THEN periods[type] * Minute ELSE ActivePeriod[type]

\* CreateTask of the domain, at this time, with these settings.
NewTask(r, periods) ==
    [user |-> r.user, type |-> r.type, scheduledAt |-> r.scheduledAt, createdAt |-> now,
     targetAt |-> IF r.type # "scheduled" THEN now + PeriodFor(r.type, periods)
                  ELSE IF r.scheduledAt = None THEN 0 ELSE r.scheduledAt]

\* Mutant: an update starts the period again.
ApplyUpdate_Restart(t, r) ==
    [t EXCEPT !.targetAt = IF t.type = "scheduled"
                           THEN IF r.scheduledAt \in {None, Clear} THEN @ ELSE r.scheduledAt
                           ELSE now + ActivePeriod[t.type],
              !.scheduledAt = CASE r.scheduledAt = Clear -> None
                                [] r.scheduledAt = None -> @
                                [] OTHER -> r.scheduledAt]

ApplyUpdate(t, r) ==
    LET at == CASE r.scheduledAt = Clear -> None
                [] r.scheduledAt = None -> t.scheduledAt
                [] OTHER -> r.scheduledAt
    IN [t EXCEPT !.scheduledAt = at,
                 !.targetAt = IF t.type = "scheduled" /\ at # None THEN at ELSE @]

(***************************************************************************)
(* CreateTask                                                              *)
(***************************************************************************)

\* Mutant: the settings of another user are read.
PeriodsOf_AnyUser(u) == {settings[v] : v \in Users}

PeriodsOf(u) == {settings[u]}

\* The id is looked up if the client sent it.  The settings are read, or the
\* default is used if they cannot be; scheduled tasks do not need them.
BeginCreateTask(c) ==
    \E r \in CreateRequest :
        /\ Begin(c, r)
        /\ \/ \E p \in PeriodsOf(r.user) : task' = [task EXCEPT ![c] = NewTask(r, p)]
           \/ /\ "db_error" \in Faults /\ r.type # "scheduled"
              /\ task' = [task EXCEPT ![c] = NewTask(r, <<>>)]
        /\ \/ IsTask(task'[c]) /\ GoTo(c, "Fetch")
           \/ \E e \in TaskErrors(task'[c]) : GoTo(c, e)
           \/ DatabaseFails(c)
        /\ UNCHANGED <<now, tables>>

\* The devices arrive, with retries, or the call fails (Devices.tla).
FetchDevices(c) ==
    /\ stage[c] = "Fetch"
    /\ \E s \in {"SaveTask"} \cup Unreachable : GoTo(c, s)
    /\ UNCHANGED <<now, tables, req, task>>

\* With a device that can be notified the reminders follow.
SaveTask(c) ==
    /\ stage[c] = "SaveTask"
    /\ \/ /\ rows' = Put(rows, c, task[c])
          /\ \/ GoTo(c, "Register") \/ GoTo(c, "UpdateTaskStatus")
             \/ "db_ack_lost" \in Faults /\ GoTo(c, "database error")
       \/ rows' = rows /\ DatabaseFails(c)
    /\ UNCHANGED <<now, settings, completed, reminders, req, task>>

\* Mutant: the reminders follow the default period.
RemindersFor_Default(t) ==
    CalculateReminderTimes(t.type, t.createdAt,
        IF t.type = "scheduled" THEN t.targetAt ELSE t.createdAt + ActivePeriod[t.type])

\* The times were computed from the entity before it was saved.
RemindersFor(t) == CalculateReminderTimes(t.type, t.createdAt, t.targetAt)

\* The queue takes the reminders, or the row is deleted again; the delete may
\* fail too.
Register(c) ==
    /\ stage[c] = "Register"
    /\ \/ /\ \E times \in RemindersFor(task[c]) :
                reminders' = reminders \cup {[task |-> c, times |-> times]}
          /\ rows' = rows /\ GoTo(c, "UpdateTaskStatus")
       \/ /\ "queue_error" \in Faults
          /\ rows' \in {Without(rows, c)} \cup (IF "db_error" \in Faults THEN {rows} ELSE {})
          /\ reminders' = reminders /\ GoTo(c, "ErrRemindQueueRegistrationFailed")
    /\ UNCHANGED <<now, settings, completed, req, task>>

\* The status itself is in TaskService; the row may be gone.
UpdateTaskStatus(c) ==
    /\ stage[c] = "UpdateTaskStatus"
    /\ \/ /\ c \in DOMAIN rows
          /\ GoTo(c, "ok") \/ ("db_ack_lost" \in Faults /\ GoTo(c, "database error"))
       \/ c \notin DOMAIN rows /\ GoTo(c, "ErrTaskNotFound")
       \/ DatabaseFails(c)
    /\ UNCHANGED <<now, tables, req, task>>

(***************************************************************************)
(* UpdateTask and DeleteTask                                               *)
(***************************************************************************)

Own(u, t) == t \in DOMAIN rows /\ rows[t].user = u

\* Mutant: the updated task is not checked.
UpdateErrors_NotChecked(r, old) ==
    IF r.scheduledAt # None /\ old.type # "scheduled" THEN {"ErrScheduledAtNotAllowed"} ELSE {}

\* validateScheduledAtConstraint, then ApplyUpdate.
UpdateErrors(r, old) ==
    IF r.scheduledAt # None /\ old.type # "scheduled" THEN {"ErrScheduledAtNotAllowed"}
    ELSE TaskErrors(ApplyUpdate(old, r))

AfterRead(r) == IF r.kind = "complete" THEN "CancelRemind" ELSE "UpdateTask"

BeginUpdateTask(c) ==
    \E r \in {q \in UpdateRequest : q.kind \in Operations} :
        /\ Begin(c, r)
        /\ IF ~Own(r.user, r.task) THEN GoTo(c, "ErrTaskNotFound") \/ DatabaseFails(c)
           ELSE LET row == rows[r.task]
                IN \/ \E e \in TaskErrors(row) : GoTo(c, e)
                   \/ IsTask(row) /\ \E e \in UpdateErrors(r, row) : GoTo(c, e)
                   \/ IsTask(row) /\ UpdateErrors(r, row) = {} /\ GoTo(c, AfterRead(r))
                   \/ DatabaseFails(c)
        /\ task' = [task EXCEPT ![c] = IF stage'[c] = AfterRead(r)
                                      THEN ApplyUpdate(rows[r.task], r) ELSE @]
        /\ UNCHANGED <<now, tables>>

\* Mutant: only the column in the mask is written.
UpdateTask_MaskedColumns(c) ==
    /\ stage[c] = "UpdateTask"
    /\ LET t == req[c].task
       IN IF Own(req[c].user, t)
          THEN /\ rows' = [rows EXCEPT ![t].scheduledAt = task[c].scheduledAt]
               /\ GoTo(c, "ok")
          ELSE rows' = rows /\ GoTo(c, "ErrTaskNotFound")
    /\ UNCHANGED <<now, settings, completed, reminders, req, task>>

\* Both times are written, whatever the mask; the row may be gone or changed.
UpdateTask(c) ==
    /\ stage[c] = "UpdateTask"
    /\ LET t == req[c].task
       IN \/ /\ Own(req[c].user, t)
             /\ rows' = [rows EXCEPT ![t].scheduledAt = task[c].scheduledAt,
                                     ![t].targetAt = task[c].targetAt]
             /\ GoTo(c, "ok") \/ ("db_ack_lost" \in Faults /\ GoTo(c, "database error"))
          \/ ~Own(req[c].user, t) /\ rows' = rows /\ GoTo(c, "ErrTaskNotFound")
          \/ rows' = rows /\ DatabaseFails(c)
    /\ UNCHANGED <<now, settings, completed, reminders, req, task>>

\* Nothing is read.
BeginDeleteTask(c) ==
    /\ \E r \in DeleteRequest : Begin(c, r)
    /\ GoTo(c, "CancelRemind")
    /\ UNCHANGED <<now, tables, task>>

CancelRemind(c) ==
    /\ stage[c] = "CancelRemind"
    /\ \/ GoTo(c, IF req[c].kind = "complete" THEN "ArchiveTask" ELSE "DeleteTask")
       \/ "queue_error" \in Faults /\ GoTo(c, "ErrCancelRemindFailed")
    /\ UNCHANGED <<now, tables, req, task>>

\* INSERT INTO completed_tasks, whose primary key may refuse it, then DELETE.
ArchiveTask(c) ==
    /\ stage[c] = "ArchiveTask"
    /\ LET t == req[c].task
       IN \/ /\ t \notin completed /\ Own(req[c].user, t)
             /\ rows' = Without(rows, t) /\ completed' = completed \cup {t}
             /\ GoTo(c, "ok") \/ ("db_ack_lost" \in Faults /\ GoTo(c, "database error"))
          \/ /\ UNCHANGED <<rows, completed>>
             /\ \/ t \in completed /\ GoTo(c, "duplicate key")
                \/ t \notin completed /\ ~Own(req[c].user, t) /\ GoTo(c, "ErrTaskNotFound")
                \/ DatabaseFails(c)
    /\ UNCHANGED <<now, settings, reminders, req, task>>

DeleteTask(c) ==
    /\ stage[c] = "DeleteTask"
    /\ LET t == req[c].task
       IN \/ /\ Own(req[c].user, t)
             /\ rows' = Without(rows, t)
             /\ GoTo(c, "ok") \/ ("db_ack_lost" \in Faults /\ GoTo(c, "database error"))
          \/ ~Own(req[c].user, t) /\ rows' = rows /\ GoTo(c, "ErrTaskNotFound")
          \/ rows' = rows /\ DatabaseFails(c)
    /\ UNCHANGED <<now, settings, completed, reminders, req, task>>

(***************************************************************************)
(* GetTask and ListActiveTasks                                             *)
(***************************************************************************)

\* Rows become entities again; a list with one row that does not fails.
Read(c, found) ==
    \/ (\A t \in found : IsTask(rows[t])) /\ GoTo(c, "ok")
    \/ \E t \in found : \E e \in TaskErrors(rows[t]) : GoTo(c, e)
    \/ DatabaseFails(c)

GetTask(c) ==
    \E r \in GetRequest :
        /\ Begin(c, r)
        /\ IF Own(r.user, r.task) THEN Read(c, {r.task})
           ELSE GoTo(c, "ErrTaskNotFound") \/ DatabaseFails(c)
        /\ UNCHANGED <<now, tables, task>>

ListActiveTasks(c) ==
    \E r \in ListRequest :
        /\ Begin(c, r)
        /\ Read(c, {t \in DOMAIN rows : Own(r.user, t)})
        /\ UNCHANGED <<now, tables, task>>

(***************************************************************************)
(* What clients are told: the codes of the service layer                   *)
(***************************************************************************)

CreateTaskCode(e) ==
    CASE e = "ok" -> "ok"
      [] e = "ErrUnauthorized" -> "unauthenticated"
      [] e \in {"ErrDeviceServiceUnavailable", "ErrRemindQueueRegistrationFailed"} -> "unavailable"
      [] e \in {"ErrDeviceInvalidArgument", "ErrScheduledAtRequired", "ErrScheduledAtNotAllowed"}
            -> "invalid_argument"
      [] OTHER -> "internal"

UpdateTaskCode(e) ==
    CASE e = "ok" -> "ok"
      [] e = "ErrTaskNotFound" -> "not_found"
      [] e \in InvalidTask -> "invalid_argument"
      [] OTHER -> "internal"

DeleteTaskCode(e) ==
    CASE e = "ok" -> "ok"
      [] e = "ErrCancelRemindFailed" -> "unavailable"
      [] e = "ErrTaskNotFound" -> "not_found"
      [] OTHER -> "internal"

GetTaskCode(e) ==
    CASE e = "ok" -> "ok" [] e = "ErrTaskNotFound" -> "not_found" [] OTHER -> "internal"

ListActiveTasksCode(e) == IF e = "ok" THEN "ok" ELSE "internal"

UpdatePeriodSettingsCode(e) ==
    CASE e = "ok" -> "ok" [] e \in InvalidPeriods -> "invalid_argument" [] OTHER -> "internal"

GetPeriodSettingsCode(e) == IF e = "ok" THEN "ok" ELSE "internal"

Code(c) ==
    LET kind == req[c].kind
    IN CASE kind = "create" -> CreateTaskCode(stage[c])
         [] kind \in {"update", "complete"} -> UpdateTaskCode(stage[c])
         [] kind = "delete" -> DeleteTaskCode(stage[c])
         [] kind = "get" -> GetTaskCode(stage[c])
         [] kind = "list" -> ListActiveTasksCode(stage[c])
         [] kind = "settings" -> UpdatePeriodSettingsCode(stage[c])
         [] OTHER -> GetPeriodSettingsCode(stage[c])

Answered == {c \in Calls : stage[c] \in {"ok"} \cup Errors}

\* What a client may ask for.
Start(c) ==
    \/ "settings" \in Operations /\ UpdatePeriodSettings(c)
    \/ "get_settings" \in Operations /\ GetPeriodSettings(c)
    \/ "create" \in Operations /\ BeginCreateTask(c)
    \/ BeginUpdateTask(c)
    \/ "delete" \in Operations /\ BeginDeleteTask(c)
    \/ "get" \in Operations /\ GetTask(c)
    \/ "list" \in Operations /\ ListActiveTasks(c)

Step(c) ==
    \/ stage[c] = "idle" /\ Start(c)
    \/ FetchDevices(c) \/ SaveTask(c) \/ Register(c) \/ UpdateTaskStatus(c)
    \/ UpdateTask(c) \/ CancelRemind(c) \/ ArchiveTask(c) \/ DeleteTask(c)

Next == Tick \/ \E c \in Calls : Step(c)

Spec == Init /\ [][Next]_vars

-----------------------------------------------------------------------------

AskedFor(u) ==
    {req[c].periods : c \in {d \in Calls : /\ req[d] # None /\ req[d].kind = "settings"
                                           /\ req[d].user = u /\ IsValid(req[d].periods)}}

\* The settings of a user are the map of one valid request: concurrent updates
\* neither mix their maps nor leave a part of an older one behind, and a
\* refused request leaves nothing (repository/period_setting.go:56-75).
SettingsAreOneRequest ==
    \A u \in Users : settings[u] = <<>> \/ settings[u] \in AskedFor(u)

\* The time a task is given is its type's default or what its owner, nobody
\* else, asked for in one valid request, whatever settings are saved or fail
\* to be read beside the creation (app/task/task.go:131-145), and updates do
\* not stretch or cut it.
TasksUsePeriods ==
    \A t \in DOMAIN rows : rows[t].type # "scheduled" =>
        \E p \in AskedFor(rows[t].user) \cup {<<>>} :
            rows[t].targetAt = rows[t].createdAt + PeriodFor(rows[t].type, p)

\* What is written can be read: no interleaving of creations and updates leaves
\* a row that NewTask refuses, which would make every list of its owner fail
\* (repository/task.go:133-162), or a scheduled task whose target is not the
\* time it is scheduled at.
RowsStayReadable ==
    \A t \in DOMAIN rows : /\ IsTask(rows[t])
                           /\ rows[t].type = "scheduled" => rows[t].targetAt = rows[t].scheduledAt

\* Whether an update can be made depends on what never changes of its task.
Impossible(r) ==
    LET t == task[r.task]
    IN IF t.type = "scheduled"
       THEN r.scheduledAt = Clear \/ (r.scheduledAt # None /\ r.scheduledAt < t.createdAt)
       ELSE r.scheduledAt # None

Completes(c) == req[c] # None /\ req[c].kind = "complete"
Deletes(c) == req[c] # None /\ req[c].kind = "delete"

\* Call d may have taken the task of call c's owner out of tasks.
MayEnd(d, t, u) == (Completes(d) \/ Deletes(d)) /\ req[d].task = t /\ req[d].user = u

\* What an internal error may come from beside the database: a creation of a
\* task that is scheduled in the past; a creation whose task its owner ended
\* before it was activated; a completion whose reminders could not be cancelled,
\* or that another completion of the same task outran.
IsExplained(c) ==
    \/ stage[c] = "database error"
    \/ /\ req[c].kind = "create" /\ req[c].type = "scheduled"
       /\ req[c].scheduledAt < task[c].createdAt
    \/ req[c].kind = "create" /\ \E d \in Calls : MayEnd(d, c, req[c].user)
    \/ Completes(c) /\ stage[c] = "ErrCancelRemindFailed"
    \/ /\ Completes(c)
       /\ \E d \in Calls \ {c} : /\ Completes(d) /\ MayEnd(d, req[c].task, req[c].user)
                                 /\ stage[d] \in {"ok", "database error"}

\* Clients are told whose fault it is, as far as the codes tell it.  Internal is
\* the answer to a failure of the database and in the cases of IsExplained, for
\* which the service layer has no code (service.go:81-122, 415-447), and never
\* because of a row that the code itself stored and cannot read.  Invalid
\* argument is the answer to a request that could not succeed at any time, and
\* to a creation that the device service refused (service.go:94-97).
AnswersBlameRightly ==
    \A c \in Answered :
        /\ Code(c) = "internal" => IsExplained(c)
        /\ Code(c) = "invalid_argument" =>
              \/ stage[c] = "ErrDeviceInvalidArgument"
              \/ /\ req[c].kind = "create"
                 /\ (req[c].type = "scheduled") = (req[c].scheduledAt = None)
              \/ req[c].kind = "settings" /\ ~IsValid(req[c].periods)
              \/ req[c].kind \in {"update", "complete"} /\ Impossible(req[c])

\* The last reminder of a task is at its target, unless a client moved the
\* target since: UpdateTask does not send new reminders (app/task/task.go:571).
ReminderDriftIsExplained ==
    \A m \in reminders : m.task \in DOMAIN rows =>
        LET t == rows[m.task]
        IN \/ m.times[Len(m.times)] = t.targetAt
           \/ \E c \in Calls : /\ req[c] # None /\ req[c].kind = "update"
                               /\ req[c].task = m.task /\ req[c].user = t.user
                               /\ req[c].scheduledAt = t.targetAt

\* What is sent is in order, within the task's time, and from five minutes on
\* without two reminders at once or one that is due at the creation
\* (reminder_info.go:19-60).
RemindersArePlausible ==
    \A m \in reminders :
        /\ InOrder(m.times, task[m.task].createdAt, task[m.task].targetAt)
        /\ task[m.task].targetAt - task[m.task].createdAt >= 5 * Minute
              => Spread(m.times, task[m.task].createdAt)

=============================================================================
