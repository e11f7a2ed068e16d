# Primind Central Backend: TLA+ models, checks and proofs

This directory holds a verification project for the Go service of this
repository (`cmd/main.go`): TLA+ modules translated from the source, TLC runs
that check them on small instances, and theorems that TLAPS proves for every
instance. Paths below are relative to `src/`; `task.go` alone is
`internal/task/app/task/task.go`.

## 1. The system

One process serves three modules on one HTTP mux. PostgreSQL keeps the tables,
Redis keeps sessions and login parameters, and two queues (Google Cloud Tasks or
Primind Tasks, `README.md`) lead to Remind Time Management, a service outside
this repository that sends the notifications.

| Component | State | Operations | What makes it correct |
|---|---|---|---|
| Task handlers (`internal/task/app/task`) | none of their own; a request's context, the entity in memory | CreateTask, GetTask, ListActiveTasks, UpdateTask, DeleteTask | an answer agrees with the tables and the queues; a task ends once; tenants stay apart |
| Task tables (`internal/task/infra/repository/task.go`, `completed_task.go`) | `tasks`, `completed_tasks` | insert, update all columns, update the status, delete, archive (one transaction) | an id names one task; what is written can be read |
| Queue clients (`internal/task/infra/taskqueue`, `remindregister`, `remindcancel`) | attempts of a retry loop | RegisterRemind, CancelRemind | the loop ends; a success means that the queue has the message |
| Remind Time Management (external) | reminders | takes both messages | reminders of open tasks only |
| Reminder times (`internal/task/domain/task/reminder_info.go`, `remind_interval.go`, `active_period.go`) | none (pure) | CalculateReminderTimes | times in order, within the active period, the last one the target |
| Period settings (`internal/task/app/period`, `internal/task/domain/period`) | `user_period_settings` | get, update (one upsert of the whole map) | settings are those of one valid request; a task gets its owner's period |
| Service layer (`internal/task/infra/service`) | none | turns errors into codes | clients are told whose fault it is |
| Device client (`internal/task/infra/deviceclient`) | attempts of a retry loop | GetUserDevicesWithRetry | the loop ends; a refusal is not retried |
| OIDC login (`internal/auth/app/oidc`) | parameters in Redis; `auth_users`, `auth_oidc_identities` | OIDCParams, OIDCLogin | one user per identity; parameters expire |
| Sessions (`internal/auth/app/session`, `logout`, `infra/jwt`, the two `authclient`s) | sessions in Redis, signed tokens | ValidateSession, Logout | a session that ended is not valid any more; one that lives is |
| Device registry (`internal/device`) | `devices` | RegisterDevice, GetUserDevices | a device keeps its user; an answered registration holds |
| Process (`cmd/main.go`, `internal/health`, the three `module.go`) | open resources, the HTTP server, the goroutine that shuts it down | start, serve, signal, shut down | resources are closed, the signal stops it |
| Configuration (`internal/*/config`) | none | Load, Validate | an unusable environment is refused |
| Observability, middleware, generated code | none that a property is about | | |

How they interact. Every task and device handler first calls ValidateSession of
the auth module over HTTP, and CreateTask calls GetUserDevices of the device
module. CreateTask then inserts the task with status `pending_reminders`, sends a
message to the queue `remind-register` if a device can be notified, and sets the
status `active`; if the queue refuses the message it deletes the row again.
UpdateTask reads the task, applies the fields the mask names and writes the
whole row back, or, if the new status is `completed`, sends a message to
`remind-cancel` and moves the row to `completed_tasks` in one transaction.
DeleteTask sends the cancellation and deletes the row. `cmd/main.go` opens the
stores, wires the modules, serves and, on a signal, shuts down in a second
goroutine.

What is hard. No lock or transaction spans the calls of a handler, so handlers
of one task interleave between any two calls. A call can fail, or take effect
while its caller is told that it failed. The request's context is cancelled when
its client goes away, and then the compensating delete cannot run either. The
process can crash between any two calls, and nothing resumes a request. The two
queues are not ordered, and a retried message arrives twice. In the auth module
two first logins of one person race: their transactions run at READ COMMITTED, so
each can look for the identity before the other has committed it. Sessions have
three clocks: the expiry in the record, the deadline of the Redis key and the
expiry in the token, each computed at another moment. A device registration reads
the row and writes it later, without a version. Devices, periods and reminder
times are read or computed before a task is written and used afterwards. At the
end, `run()` and the goroutine unwind the process at the same time while requests
are still in flight. `PROJECT.json` lists these hazards at their lines.

## 2. The modules

| Module | Role |
|---|---|
| `TaskService` | the three writing handlers, the tables, the queue client, faults; all properties of them |
| `TaskInvariants` | what a handler knows at each of its calls: the inductive invariants |
| `TaskServiceProofs` | the theorems about `TaskService`, for all clients and for those that do not reuse ids |
| `TaskLifecycle` | abstract specification: what the task module promises about one task |
| `TaskRefinement`, `TaskRefinementProofs` | the refinement mapping from `TaskService` to `TaskLifecycle`, and the proof of the refinement |
| `TaskReminders`, `TaskRemindersProofs` | composes `TaskService` with Remind Time Management behind the two queues |
| `ReminderTimes` | the reminder algorithm, as operators |
| `Schedule` | times of tasks: period settings, creation, update, reads, and the codes clients are given |
| `ScheduleProofs` | the theorems about `Schedule` and the reminder algorithm |
| `Devices`, `DevicesProofs` | the device registry and the creations that fetch devices from it |
| `Login` | concurrent OIDC logins, the first-login transaction statement by statement |
| `Accounts` | abstract specification: a person signs up once and then signs in |
| `LoginProofs` | the theorems about `Login`, the refinement included |
| `Sessions`, `SessionsProofs` | from login parameters over the session and its token to logout, with the clock |
| `Configuration` | what the environment amounts to, as operators |
| `Server`, `ServerProofs` | the process from start to end with the requests in flight |
| `MCTaskService`, `MCTaskReminders`, `MCSchedule`, `MCSessions`, `MCServer` | constants and symmetry for TLC |

### TaskService

A request is a process (a goroutine of net/http). One action is one call to the
database or to a queue, with what the handler computes until its next call:

| Action | Code |
|---|---|
| `BeginCreateTask` | task.go:71-217, ValidateSession to the message to register |
| `SaveTask` | task.go:219, infra/repository/task.go:38-62 |
| `RegisterRemind` | task.go:225-240, one attempt of the loop in primind_client.go:67-88 |
| `RollbackTask` | task.go:231-238 |
| `UpdateTaskStatus` | task.go:242-248, infra/repository/task.go:213-228 |
| `BeginUpdateTask` | task.go:571-640, the read included |
| `CancelRemind` | task.go:642-655 and 823-836, one attempt |
| `UpdateTask` | task.go:672, infra/repository/task.go:164-195 |
| `ArchiveTask` | task.go:657-668, completed_task.go:37-86, one transaction |
| `BeginDeleteTask`, `DeleteTask` | task.go:785-827, 838-853 |
| `Refuse` | every answer before the first write or message |
| `Disconnect`, `Crash` | the client goes away; the process dies |

State: `tasks` and `completed` are the tables (rows with id, owner, status and
`content`, the request that supplied the other columns). `stage[r]` is the next
call of request r or its answer, `req[r]` what it asks for, `entity[r]` the
domain object it holds in memory, `attempt[r]` and `accepted[r]` the attempts of
its retry loop and the copies of its message that the queue took, `gone` the
requests whose context is cancelled.

Decisions a reader may question:

- The session check and the device list only decide whether a handler goes on
  and whether a device can be notified: both are inputs. The mask of an update
  is the pair of "which status, if any" and "any other field". The service layer
  (service.go:348-359) lets clients set ACTIVE and COMPLETED only, so
  `pending_reminders` is never an input.
- `Execute` is one statement. It has three outcomes: applied and reported,
  applied but reported as an error (the connection broke), not applied. The
  queue client's attempt has the same three.
- An id is the client's or generated (`uuid.NewV7`). With `ClientsReuseIds =
  FALSE` an id is in at most one create request, which is what generated ids give
  and what clients are expected to do; with `TRUE` any id can be sent again,
  while the task exists, after it was completed, or by another user.
- The Cloud Tasks client (gcloud_client.go:44-93) has the retry loop of the
  Primind Tasks client. The no-op queue is the case without queue faults.
- An id is parsed before the database sees it (domain/task/task.go:23-34), so every
  spelling that `uuid.Parse` accepts finds the same row. Registrations carry the
  canonical spelling (task.go:302), cancellations the one the client sent
  (task.go:644, 825): `spelling` in an update or deletion says whether the two agree.
  `Spellings` is a constant; the handlers' own properties do not depend on it, and
  the run `reminders` has both.
- Of the tasks' times, titles and colours only the request that supplied them is
  kept (`content`); the times are modelled in `Schedule`.
- Two-table transactions are atomic and isolated: `ArchiveTask` inserts and
  deletes the row by its key, so PostgreSQL's row locks and the primary key order
  it with every other statement on that row, as one action does.

### TaskLifecycle and TaskRefinement

`TaskLifecycle` says what a client may rely on: an id is spent once; an open task
ends once, by completion or by being dropped; it is completed only after its
reminders were cancelled; and once the owner was promised that it exists, it is
not dropped before that either. The mapping reads these sets off the tables, the
answers and the messages the queues accepted; a crash maps to `GiveUp` of the
ids whose insert was pending, every other step to one abstract step or none.

### TaskReminders

Remind Time Management is modelled from the two messages (register for a task;
cancel by task and user): it takes them in any order across the queues, and as
often as they were accepted. Whether it compares ids as UUIDs or letter by letter
is not in the repository, so a cancellation that spells the id in another way than
the registration may remove the reminders or miss them. `late` records registrations
taken after a cancellation of the same task, so that the property can name the
causes: a creation that was not answered with success, a registration that came
late, or cancellations that all spell the id in another way.

### ReminderTimes and Schedule

`ReminderTimes` translates the periods, the percentages and the algorithm in
whole seconds. The code rounds a floating-point product to the minute: where the
exact product lies half-way between two minutes, its last bit decides, so
`RoundToMinute` gives both neighbours there and one value everywhere else.
`UpToTarget` is the loop that appends the offsets, as a recursive function.

In `Schedule` a call is a process, and `Tick` lets time pass between any two
steps of it:

| Action | Code |
|---|---|
| `UpdatePeriodSettings` | app/period/period_setting.go:149-209, the upsert in infra/repository/period_setting.go |
| `GetPeriodSettings` | app/period/period_setting.go:71-129 |
| `BeginCreateTask` | task.go:71-161: the settings or the default, then the entity |
| `FetchDevices` | task.go:163-217 (the loop itself is in `Devices`) |
| `SaveTask` | task.go:219-225, infra/repository/task.go:38-62 |
| `Register` | task.go:225-240 with the compensating delete |
| `UpdateTaskStatus` | task.go:242-262, infra/repository/task.go:213-228 |
| `BeginUpdateTask`, `UpdateTask` | task.go:571-640 and 670-692 |
| `BeginDeleteTask`, `DeleteTask` | task.go:785-822 and 838-853 |
| `CancelRemind` | task.go:642-655 and 823-836 |
| `ArchiveTask` | task.go:657-668, completed_task.go:37-86 |
| `GetTask`, `ListActiveTasks` | task.go:359-421 and 465-518 |
| `CreateTaskCode` to `GetPeriodSettingsCode` | infra/service/service.go, infra/service/period_setting_service.go |

State: `settings` and `rows` are the tables, `reminders` the messages sent,
`task[c]` the entity call c holds. The id of a task is the call that created it.
A row that is read goes through NewTask again, so `TaskErrors` is applied to rows
too. Every error path of the handlers is here, because the codes are: an activation
that fails or finds its row gone, a cancellation that the queue refuses, a
completion that meets the primary key of `completed_tasks`. What is not: the
refusals of the session check, which do nothing; the status and the fate of the
reminders, which are in `TaskService`; the attempts of the retry loops.

### Devices

| Action | Code |
|---|---|
| `BeginRegisterDevice`, `Lookup` | internal/device/app/device/register.go:51-117 |
| `SaveDevice` | infra/repository/device.go:39-74, the insert |
| `SelectDevice`, `UpdateDevice` | the two statements of infra/repository/device.go:91-119 |
| `BeginCreateTask`, `Send` | the creation of a task around the fetch, task.go:163-240 |
| `Fetch` | GetUserDevices: get_user_devices.go:48-97, infra/repository/device.go:135-188 |
| `Receive`, `Retry` | internal/task/infra/deviceclient/retry.go:10-93 |
| `Refuse`, `Crash` | a refusal before anything is read; the process dies |

`rows` is the table, reduced to the owner and the FCM token; a token is named by
the registration that brought it. `ended`, `seen` and `steady` are history
variables that only the properties read: the registrations that had ended when
one began, and the devices that the user of a creation had at some moment and at
every moment of it. All devices are one table because `SelectDevice` and
`UpdateDevice` are two statements outside a transaction: what is between them
belongs to the model.

### Login and Accounts

A login is a process; one action is one statement, one Redis call or the end of
the transaction:

| Action | Code |
|---|---|
| `BeginLogin`, `Refuse` | app/oidc/login.go:135-153: parameters, code exchange, or a refusal |
| `FindIdentity` | login.go:241-288: GetOIDCIdentityByProviderSubject, or a new user in memory |
| `GetUser` | login.go:260-266, infra/repository/user.go:61-82 |
| `InsertUser`, `LockIdentity`, `InsertIdentity`, `CheckIdentity` | the statements of user_oidc_identity.go:48-105 |
| `Commit` | the end of that transaction and its answer |
| `SaveSession` | login.go:160-187, infra/repository/session.go:45-68 |
| `Crash` | the process dies, its transactions are rolled back |

`users` and `identities` are the committed rows, `sessions` the sessions in Redis
by the login that saved them. What a transaction has written is its login's own
until `Commit`: that is READ COMMITTED, PostgreSQL's default, which the code does
not change. `InsertIdentity` waits while another transaction that has inserted
the same identity has not ended (`KeyIsHeld`); after that its `ON CONFLICT DO
NOTHING` affects no row if the identity is committed. A new user's id is a fresh
UUID: no user and no other login has it. `SaveSession` can save the session and
fail all the same, since Redis's answer is lost or signing the token fails. The
login parameters only decide whether `BeginLogin` or `Refuse` happens.

`Accounts` has two actions: `SignUp` gives a person an account if the person has
none and the user is nobody's; `SignIn` answers with the person's account. `Login`
implements it with `identities` as the accounts and the logins answered `ok` as
those signed in: the two inserts are one step, and a login that lost the race,
failed or crashed is none.

### Sessions

| Action | Code |
|---|---|
| `GenerateParams`, `SaveParams` | internal/auth/app/oidc/params.go:58-127, infra/repository/oidcparams.go:43-67 |
| `LoadParams`, `Exchange` | app/oidc/login.go:190-217, infra/oidc/rp_provider.go:121-158 |
| `SaveSession`, `Sign` | infra/repository/session.go:45-68, infra/jwt/session.go:31-75 |
| `BeginLogout`, `DeleteSession` | app/logout/logout.go:45-83 |
| `BeginRequest`, `GetSession`, `CheckExpiry` | app/session/validate.go:57-105 |
| `Unavailable` | the auth clients when the service does not answer |
| `Act` | the handler that asked, after its answer |
| `Crash`, `Tick` | the process dies, Redis does not; time passes |

`CheckExpiry` compares the expiry in the session that `GetSession` read, whatever
happened to the session since. A lifetime is computed before the SET that uses it is executed, so the deadline
of a key (`Deadlines`) can be later than the expiry in the record, by as much as
the SET was delayed. The expiry in a token is cut to a second (`Exp`), and
verified with a leeway; `Leeway >= Second` is the assumption that go-jose's
default leeway of a minute and its whole seconds meet. `ended` is a history variable. Calls
name what they made: parameters by the call of OIDCParams, a session and its token by the login.
`ValidateSessionCode` and `AuthError` translate what the auth service and its two
clients make of an error.

### Configuration and Server

`Configuration` has the Load and Validate functions as operators over an
environment in which every variable is unset, good, unusable or zero. `Environment`
allows "bad" only of a variable that the code parses (`Parsed`) and "zero" only of
the two numbers for which it means something else than good; anything else is a
name or a secret that is used as it is. An unusable POSTGRES_DSN passes the
configuration and fails where the database is opened. `Server` is the process:

| Action | Code |
|---|---|
| `Start` | the steps of run() up to ListenAndServe, main.go:49-320 (`StartUp`, with what each opens and defers) |
| `Listen`, `StopServing`, `ListenerFails` | main.go:321-334 |
| `Unwind` | the defers, last one first; after the last the process exits |
| `Signal`, `BeginShutdown`, `EndShutdown` | the goroutine that waits for the context and shuts the server down, main.go:305-319 |
| `Accept`, `Use`, `Answer` | a request: what its handler calls, in order, and what it meets |

`open` and `deferred` are the resources that are open and the defers that are
pending; they differ between opening a resource and its defer statement. The
services call one another over HTTP, by default at the process's own address
(`CallsItself`), so a request in flight needs the listener. Requests are of three
kinds: a readiness check, a login and the creation of a task.

## 3. The runs

| Run | Instance | Shows |
|---|---|---|
| `fresh_ids` | 3 requests, 2 users, 1 id, 2 attempts, all faults, ids not reused | `CreatedTaskIsKept`, `OneEnding`, `DeletedStaysDeleted`, `OneTaskPerId`, and the refinement of `TaskLifecycle` |
| `reused_ids` | the same, ids reused | `TypeOK`, `CompletionCancelsReminders`, `ActiveIsBacked`, `PendingIsExplained`, `OnlyOwnersChangeRows` |
| `queue_faults` | 3 requests, 1 id, only queue faults, fairness | `FailedCreateLeavesNoTask`, `PendingResolves` |
| `answers` | 2 requests, 3 attempts, all faults, fairness | `HandlersAnswer`, `CallsRunOut` |
| `reminders` | 3 requests, 2 users, 2 spellings of the id, database, queue and crash faults | `OrphansAreExplained`, `MissingRemindersAreExplained` |
| `schedule` | 3 calls, 2 users, all operations, 2 types, 3 maps of settings, 2 instants, all faults | `TypeOK`, `SettingsAreOneRequest`, `TasksUsePeriods`, `RowsStayReadable`, `AnswersBlameRightly`, `ReminderDriftIsExplained`, `RemindersArePlausible`; as assumptions, the reminder algorithm |
| `devices` | 2 registrations, 1 creation, 2 users, 2 ids, 3 attempts, all faults, fairness | `TypeOK`, `DevicesKeepOwners`, `RegistrationsTakeEffect`, `OldTokensStayGone`, `RemindersReachDevices`, `CreationsAnswer` |
| `login` | 3 logins, 2 persons, 3 user ids, all faults, fairness | `AccountsAreWhole`, `SessionsMatchAccounts`, `ConflictMeansAccount`, `LoginsAnswer`, and the refinement of `Accounts` |
| `sessions` | 1 call of OIDCParams, 2 logins, 1 logout, 1 request, durations of 2, a second of 3, time up to 6, all faults | `TypeOK`, `LogoutIsFinal`, `LiveSessionsAreAccepted` |
| `server` | 2 requests, 20 environments, all faults, fairness | `ResourcesAreReleased`, `RequestsAreServedWhole`, `SignalStops` |
| `masked_update` | 2 requests, no faults | violated: finding 1 |
| `reused_id_of_completed` | 3 requests of 1 user, one at a time (`OneByOne`), no faults, ids reused | violated: finding 2 |

Bounds. Three requests are a creation and two others that race over its task, or
two creations of one id and a third request: every pair of handlers meets at
every pair of calls, and a third can come between. One id suffices for
properties of one task, since no statement touches two ids. Two users give a
tenant who is a stranger to the task. Two attempts give a first attempt, a retry
and the end of the loop; `answers` and `devices` have the default of three. In
`login` three logins are two that race and a third that comes during or after the
race, or races too; two persons show that they do not disturb each other; a user
id for every login means that none is refused for want of one.

In `schedule` three calls are a creation with settings saved before or beside it
and an update, or two updates and a creation; of the maps two are valid and
differ in every type, one has both faults. The instants and scheduled times give
tasks scheduled in the past of the second instant and updates across them. Both types
of a task that the model tells apart are there: one whose period can be set, and
the scheduled one. With completions and deletions three calls are also a creation
and two endings that race over its task. The algorithm is checked apart from the
state machine, for every period a client can set (1 to 10080 minutes) in every type
and every scheduled time up to four hours, to the second. In `sessions` a duration of 2 and time up to 6 let a session be
made, live, expire, and its key and token outlive it; a second longer than the
duration makes the cut of the token's expiry as large as it can be. In `devices`
two registrations race over one id or register one device each; the creation
reads between any two statements of theirs. In `server` three of the twenty
environments are complete (the defaults, all services elsewhere, Google Cloud)
and each of the others lacks or spoils one variable.

Safety runs have their processes as symmetric model values; runs with liveness
have no symmetry. In the task runs `Quiet` lets a state with all requests
answered stutter, so a deadlock that TLC reports would be a handler that is
stuck. `schedule`, `sessions`, `devices` and `server` say `CHECK_DEADLOCK FALSE`:
there calls end, the clock stops at its bound and the process exits.

Fairness. `FairSpec` of `TaskService` asks weak fairness of `Continue(r)` for every
request: a goroutine that has started goes on, because every call it waits for
returns or is ended (the HTTP client times out after 30 s,
primind_client.go:35-37; a statement returns or its connection fails). Nothing is
asked of clients, faults, crashes or of a call's success. `Login` has the same
fairness; there `Continue(l)` is not enabled while l waits for another
transaction, so `LoginsAnswer` says that every such wait ends. `Devices` has it for
creations (each attempt ends after its timeout, retry.go:26). `Server` has weak
fairness of the two threads, `Run` and `Goroutine`, whose calls return (Shutdown
after 15 s at the latest), and none of the signal, the listener's failures or the
requests.

Each property has a mutant: a definition of the model changed the way a
plausible bug would change the code (a dropped `WHERE user_id`, an ignored
`RowsAffected`, a missing rollback, an upsert), under which TLC finds the
property violated.

### Findings

1. A masked update can undo an activation. UpdateTask writes all columns of the
   row it read (infra/repository/task.go:174-184). A client that lists its tasks
   sees a `pending_reminders` task before its creation has ended, changes its
   title, and the write puts `pending_reminders` back over `active`; nothing sets
   it again (`MaskedUpdateKeepsStatus`).
2. The id of a completed task is accepted again. ExistsTaskByID looks at `tasks`
   only, and a completed task has left that table. The second task can never be
   completed: the insert into `completed_tasks` violates its primary key
   (`OneTaskPerId` with reused ids). The run sends one request at a time, so the
   trace is not a race: the task is created and completed, both are answered, and
   only then is the id sent again.

What the passing properties do not say: with database faults, a disconnected
client or a crash, a failed creation may leave its row behind in
`pending_reminders`, and nothing resolves it later. `PendingIsExplained` says that such
a row has no other origin but finding 1: whoever was told that a task was created
does not find it pending unless an update without a status may have written back
what it had read. `FailedCreateLeavesNoTask`
and `PendingResolves` are therefore checked with queue faults only, and the
latter without updates because of finding 1.

Behaviour met while modelling that no document of the repository rules out, and
that the properties name as exceptions or leave room for:

- Reminders of a period below five minutes can coincide, or fall on the creation
  (`Spread` is required from five minutes on; `ShortPeriodsCoincide`).
- A task scheduled in the past is answered Internal by CreateTask
  (service.go:102-122) and InvalidArgument by UpdateTask. A failed cancellation is
  Internal in UpdateTask (service.go:443-446) and Unavailable in DeleteTask. A creation
  whose owner ends the task before it is activated is answered Internal
  (task.go:242-248, service.go:118-121), and so is a completion that another
  completion outran between its read and its transaction.
- DeleteTask and UpdateTask send the id to `remind-cancel` as the client spelled it,
  CreateTask sends the canonical one (task.go:302, 644, 825): the third cause in
  `OrphansAreExplained`.
- A session that was stored before signing failed, and login parameters that were
  used, stay in Redis until their time; no token or answer names such a session, and
  parameters may serve several logins.
- Two first registrations of one device race to an insert that the primary key
  refuses; the loser gets Internal, even if both are of one user.
- A failure of Redis in ValidateSession is answered Unauthenticated
  (validate.go:86-91): the exception in `LiveSessionsAreAccepted`.
- `main` does not wait for the drain that Shutdown has 15 s for: ListenAndServe
  returns first, and the process exits (`cut` in `RequestsAreServedWhole`).
- Between opening the database or Redis and the defer that closes it stand steps
  that can fail (main.go:91-110, 123-142).
- `SESSION_DURATION=7d`, the example of .env.example:2, cannot be parsed and gives
  24 hours. Without an OIDC client id the auth service refuses everything while
  readiness is healthy.

## 4. The proofs

### TaskServiceProofs

`TaskServiceProofs` proves, for every set of requests, users and ids, every
positive bound on the attempts, every set of operations and faults, and whether
or not ids are reused:

| Theorem | States |
|---|---|
| `HandlersKnow` | `Spec => []HandlerInv` |
| `TypeCorrect` | `Spec => []TypeOK` |
| `CompletionIsCancelled` | `Spec => []CompletionCancelsReminders` |
| `ActiveTasksAreBacked` | `Spec => []ActiveIsBacked` |
| `PendingTasksAreExplained` | `Spec => []PendingIsExplained` |
| `OwnersOnly` | `Spec => OnlyOwnersChangeRows` |
| `HandlersRunOut` | `Spec => CallsRunOut` |

The assumptions are those `TaskService` names about its constants
(`MaxAttemptsAssumption` to `NoneAssumption`); TLC evaluates them in every run.

The argument. `CompletionCancelsReminders` is not inductive: that `ArchiveTask`
adds a row only after an accepted cancellation has to be known by the handler
when it gets there, and likewise that a stale copy that says "active" was
justified when it was read. `HandlerInv` adds what each handler knows at each
call (`Knows`): the state of its retry loop (`AttemptsKnown`), which operation is
at the call and that the entity in memory is the one its request names
(`MemoryKnown`), and which messages were accepted (`RemindersKnown`). A request
that takes no part in a step keeps what it knows because requests never change
and accepted messages stay accepted (`Monotone`, `OthersKnow`); a step of a
request is one of three kinds (`BeginStep`, `ExecuteStep`, `EnqueueStep`), and
there is one lemma per action. `OwnersOnly` needs the primary key of `tasks` as a
second invariant (`PrimaryKey`): otherwise a row of another user could stay
under the id of a row that is replaced.

`PendingTasksAreExplained` is proved next to `HandlerInv` (`PendingInv`): a row becomes
pending by an insert, whose creation is then running, or by an update, which
either names the status (and then holds "active", `MaskIsWritten`) or does not.
A creation leaves the first disjunct only when it is answered `ok`, which only the
activation does (`OnlyActivationSucceeds`), and in that step every row of its id
and owner is made active (`ActivationActivates`).

`HandlersRunOut` is the safety half of `HandlersAnswer`. `CallsLeft(r)` counts the
calls that request r can still make; every step of r makes it smaller, and
nobody else's step, no fault and no lost client makes it larger. Statements are
made once (`StatementIsLast`), an attempt is the last one or followed by one more
(`AttemptIsCounted`, which needs `AttemptsKnown`). What it leaves to TLC is that a
handler that has calls left does go on, which is fairness.

In the second part of the module, under `~ClientsReuseIds`:

| Theorem | States |
|---|---|
| `FreshIdsInvariant` | `FreshInv` of `TaskInvariants`, next to `HandlerInv` |
| `CreatedTasksAreKept` | `Spec => []CreatedTaskIsKept` |
| `TasksEndOnce` | `Spec => []OneEnding` |
| `DeletesAreFinal` | `Spec => []DeletedStaysDeleted` |
| `TasksAreOpenOrCompleted` | `Spec => []OneTaskPerId` |
| `FailedCreatesLeaveNothing` | `OnlyQueuesFail` implies `Spec => []FailedCreateLeavesNoTask` |

`FreshInv` says which rows there can be (no row before its one creation has
reached the insert, no second row of an id, no row beside its completed one),
and what the requests that claim something of a task (a creation that was
saved, an ending that was answered, an update about to write) may rely on. Most
steps leave both the tasks and the claims alone: `Calm` proves them once, from
`SameTasks` and `Claims`, and `CalmStep` applies it. What remains is the one step
that adds a row (`InsertFresh`) and those that take one away (`RemoveFresh`).
`FailedCreatesLeaveNothing` assumes in addition that statements are executed and
that clients wait (`OnlyQueuesFail`; queue faults and crashes are left): a create
then fails only in its compensating delete or when its row is already gone
(`FailureLeavesNoRow`), and nothing inserts the id again (`NoRowReturns`).

### TaskRefinementProofs

`HandlersImplementLifecycle`: under `~ClientsReuseIds`, `Spec =>
ImplementsLifecycle`. The mapped sets are unions over the requests, so the proof
first says what a step of one request can change in them (`SpentView`,
`PromisedView`, `SilencedView`, `TablesView`). Then each action is one abstract step
or none: `SaveTaskOpens`, `RollbackTaskDrops`, `DeleteTaskDrops`,
`ArchiveTaskCompletes`, `UpdateTaskStatusPromises`, `CancelRemindSilences`,
`CrashGivesUp`, and the lemmas that end in `Unseen`.

### TaskRemindersProofs

`RemindersInvariant` and `MissingExplained` need no assumption on ids,
`OrphansExplained` needs `~ClientsReuseIds`. The argument: a reminder that
outlives a cancellation that was taken is recorded in `late`; one that is missing
was cancelled, and what is taken was accepted before; one that a taken cancellation
has not removed had its id spelled in another way (`CanonicalTaken`). The handlers' steps keep
this because accepted messages stay accepted (`HandlersKeepReminders`); the task
side of both properties is `HandlerInv` and `FreshInv`.

### LoginProofs

`LoginProofs` proves, for every set of logins, persons and user ids and for all
faults:

| Theorem | States |
|---|---|
| `LoginInvariant` | `Spec => []LoginInv` |
| `LoginTypeCorrect` | `Spec => []TypeOK` |
| `AccountsWhole` | `Spec => []AccountsAreWhole` |
| `SessionsAreOwned` | `Spec => []SessionsMatchAccounts` |
| `ConflictsAreReal` | `Spec => []ConflictMeansAccount` |
| `LoginImplementsAccounts` | `Spec => ImplementsAccounts` |

None of them needs an assumption about the constants. Type correctness of `Login`
(and of `Server`, as a part of `ServerInv`) is proved only; no run repeats it.

The argument. The properties speak of committed rows only, so they are not
inductive: `Commit` would break them if the identity had appeared since
`LockIdentity`. `LoginInv` adds what each login knows (`Knows`): inside the
transaction its user is not committed and nobody else has it in memory; at the
commit no identity of the person is committed and no other login is at the
commit for the same person; a login that loads its user or saves a session has
its identity committed. `OthersKnow` shows that the steps of the other logins
keep this; a step either writes nothing (`QuietStep`, and `GoToStep` for those
that change no memory either) or is `CommitStep` or `SaveSessionStep`. For the
refinement, `CommitSignsUp` maps the commit to `SignUp`, `SaveSessionSignsIn`
the save of the session to `SignIn`, and every other step is `Invisible`.

### SessionsProofs

| Theorem | States |
|---|---|
| `SessionsInvariant` | `Spec => []SessionsInv` |
| `SessionsTypeCorrect` | `Spec => []TypeOK` |
| `LogoutsAreFinal` | `Spec => []LogoutIsFinal` |
| `LiveSessionsAccepted` | `Spec => []LiveSessionsAreAccepted` |

They hold for all durations and any leeway of at least a second. The inductive
invariant relates the time a login read to the record and the deadline of its
key (`DeadlinesAreLate`: a key outlives its record) and to the expiry in its token
(`Cut`, `TokensOutliveSessions`: with the leeway a token outlives its session), and
says that a session whose logout was answered is not in Redis and never comes
back, because only its own login saves it and that has ended.

### DevicesProofs

| Theorem | States |
|---|---|
| `DevicesInvariant` | `Spec => []DevicesInv` |
| `DevicesTypeCorrect` | `Spec => []TypeOK` |
| `OwnersKept` | `Spec => DevicesKeepOwners` |
| `RegistrationsHold` | `Spec => []RegistrationsTakeEffect` |
| `OldTokensGone` | `Spec => []OldTokensStayGone` |
| `RemindersGoToDevices` | `Spec => []RemindersReachDevices` |

A registration that is about to update owns its device, since rows never change
hands; a token in the table was brought by a registration that was under way or
had ended when it was written, so it is none of those that had ended before the
answered one began. A creation's list lies between `steady` and `seen`.

### ScheduleProofs

| Theorem | States |
|---|---|
| `ScheduleInvariant` | `Spec => []ScheduleInv` |
| `SettingsAreWhole` | `Spec => []SettingsAreOneRequest` |
| `PeriodsAreOwners` | `Spec => []TasksUsePeriods` |
| `RowsReadable` | `Spec => []RowsStayReadable` |
| `EndingsInvariant` | `Spec => []EndingInv` |
| `AnswersAreRight` | `Spec => []AnswersBlameRightly` |
| `RemindersInvariant` | `Spec => []ReminderInv` |
| `ScheduleTypeCorrect` | `Spec => []TypeOK` |
| `DriftExplained` | `Spec => []ReminderDriftIsExplained` |
| `RemindersPlausible` | `Spec => []RemindersArePlausible` |
| `RemindersAreSpaced` | what `CalculateReminderTimes` returns, for every type, creation and target |

They hold for every set of calls, users, types, maps of settings and instants and
for all faults. What a creation was asked and the entity it built are made once
(`Fixed`); every row, and every entity an update has in memory, `Descends` from the
entity of the creation of its id, also when the update works on a copy that is
stale. `StageKnown` says what each kind of call does next and what it was told.
`UpdatedDescends` follows an update's mask, `WrittenDescends` the statement;
`RefusedIsImpossible` is what makes InvalidArgument right: an update is refused only for
what it asks and for what never changes of its task (type and time of creation).
For Internal the proof has to know why a creation can find its row gone and a
completion can meet its id among the completed: `EndingInv` says that a row that a
creation wrote is only missing if a request of its owner may have ended it
(`EndedBy`), and that an id is completed only by a completion of its owner
(`CompletedBy`). `AnswersAreRight` then lists what Internal can mean (`IsExplained`):
a database failure, a creation scheduled in the past, a creation whose task its owner
ended before the activation, a completion whose cancellation failed, a completion
that another one outran. InvalidArgument is also what a creation is told if the
device service refused it.

The reminders do not follow from the state machine alone. `RemindersAreSpaced` is
about the algorithm: for every type, every creation and every target that is not
before it, all results of `CalculateReminderTimes` are in order, none is before the
creation, the last one is the target, and if the target is five minutes or more
away no two coincide. `Rounding` says that an offset moves by half a minute at
most; hence offsets whose exact fractions grow do not change their order, and
are apart where the fractions are more than a minute apart (`RoundingRises`, `OffsetsRise`). The loop
takes at most three steps, so its function is written down step by step
(`KeptExists`) instead of by induction; what it has collected stays `Apart`
(`AppendApart`, `KeptApart`, `RemindersApart`). `RemindersInvariant` adds that every
message sent is a result of the algorithm for the entity that was created, and
that the target of a row, or of the copy an update is about to write, however old
that is, is the one of the creation or one its owner asked for (`Moved`).

### ServerProofs

| Theorem | States |
|---|---|
| `ServerInvariant` | `Spec => []ServerInv` |
| `ResourcesReleased` | `Spec => []ResourcesAreReleased` |
| `RequestsServedWhole` | `Spec => []RequestsAreServedWhole` |

They hold for every set of requests and of environments that `Environment` allows
(`ServerEnvironmentsAssumption`), not only for the twenty of the run. Neither
property is inductive: that nothing is open when the process exits depends on
which defers were pending when it began to unwind. `ResourcesAreHeld` says that
whatever is open has a pending defer, but for the database and Redis between the
step that opens them and their defer statement; `ProcessKnown` says what is open at
each step and where the goroutine can be, so that a second close of the queue
client is excluded. `StepsAreLoaded` says that a step is reached only after those
before it found their configuration valid; the steps are named by their index in
`StartUp`, and `StepsDiffer` and `AfterIs` turn a step into its successor. A request
(`RequestKnown`) is accepted by a process that has loaded everything, so what is
refused to it is explained by a stop that has begun (`Ending`) or by an OIDC client
that is not configured (`Refused`).

### Only model-checked

Every invariant and every action property that a passing run checks is a theorem,
and so are both refinements. What stays with TLC:

- Liveness (`HandlersAnswer`, `PendingResolves`, `LoginsAnswer`, `CreationsAnswer`,
  `SignalStops`): fairness and ENABLED are out of the prover's reach.
- `ShortPeriodsCoincide`, which exhibits periods below five minutes whose reminders
  coincide. The two other assumptions about the algorithm in `MCSchedule` are the
  bounded instances of `RemindersAreSpaced`, which TLC evaluates on every run.

## 5. Plan

What could come next, in this order:

1. The measure of `CallsRunOut` for the other processes that must end: the attempts
   of the device client (`CreationsAnswer`), a login (`LoginsAnswer`), and the steps from
   a signal to the exit (`SignalStops`).
2. An abstract device registry whose registrations take effect in one step, and
   `Devices`, with its read before each write, as an implementation of it.

Not modelled and why: `internal/gen` and `internal/proto` are generated, mocks are
test code; logging, tracing, metrics and request ids keep no state that a property
is about (that observability is opened and closed is in `Server`); the order of
lists, titles, descriptions and colours; times below a second; the server's
WriteTimeout of 10 s, which the retries of the device client can exceed
(main.go:300), and the five seconds that the health checks share. Remind Time
Management is known by the messages it is sent only.
