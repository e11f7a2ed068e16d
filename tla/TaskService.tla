----------------------------- MODULE TaskService -----------------------------
(***************************************************************************)
(* The handlers of the task module: CreateTask, UpdateTask and DeleteTask  *)
(* of internal/task/app/task/task.go, run concurrently (one goroutine per  *)
(* HTTP request) over the tables tasks and completed_tasks and the queues  *)
(* remind-register and remind-cancel.                                      *)
(*                                                                         *)
(* A request is a process.  Between two calls to the database or to a      *)
(* queue it only computes, so one action is one such call with everything  *)
(* the handler does up to the next call.  The calls can fail, and can take *)
(* effect although the handler is told they failed; the client can go away *)
(* (which cancels the request's context); the process can crash.           *)
(*                                                                         *)
(* A row is a record of the columns the properties distinguish: "content"  *)
(* is the request that supplied title, description, colour and schedule.   *)
(* An id is parsed before the database sees it, so that every spelling of  *)
(* it (upper case, say) names one row; registrations carry the canonical   *)
(* spelling, cancellations the one the client sent.                        *)
(***************************************************************************)
EXTENDS Naturals, FiniteSets

CONSTANTS
    Requests,        \* the requests that clients send
    Users,           \* the users their sessions belong to
    TaskIds,         \* the task ids they name
    MaxAttempts,     \* maxRetries of the task queue client
    Operations,      \* the operations clients call
    Faults,          \* what may go wrong outside the handlers
    ClientsReuseIds, \* may a client send the id of another create again?
    Spellings,       \* how clients write the id in updates and deletes
    None             \* no request yet, no entity in memory

FaultKinds == {"db_error", "db_ack_lost", "queue_error", "queue_ack_lost",
               "disconnect", "crash"}

Status == {"pending_reminders", "active"}

CreateRequest == [op: {"create"}, user: Users, task: TaskIds, devices: BOOLEAN]
UpdateRequest == [op: {"update"}, user: Users, task: TaskIds,
                  status: {"unset", "active", "completed"}, edit: BOOLEAN,
                  spelling: Spellings]
DeleteRequest == [op: {"delete"}, user: Users, task: TaskIds, spelling: Spellings]
Request == CreateRequest \cup UpdateRequest \cup DeleteRequest

Row == [id: TaskIds, owner: Users, status: Status, content: Requests]
CompletedRow == [id: TaskIds, owner: Users, content: Requests]
Entity == [id: TaskIds, owner: Users, status: Status \cup {"completed"},
           content: Requests]

ASSUME MaxAttemptsAssumption == MaxAttempts \in Nat \ {0}
ASSUME OperationsAssumption == Operations \subseteq {"create", "update", "delete"}
ASSUME FaultsAssumption == Faults \subseteq FaultKinds
ASSUME ReuseAssumption == ClientsReuseIds \in BOOLEAN
ASSUME SpellingsAssumption == Spellings \subseteq {"canonical", "other"}
ASSUME NoneAssumption == None \notin Request \cup Entity

VARIABLES
    tasks,      \* the rows of table tasks
    completed,  \* the rows of table completed_tasks
    stage,      \* the next call of each request, or its answer
    req,        \* what the request asks for
    entity,     \* the domain Task the handler holds in memory
    attempt,    \* attempts made by the queue client's retry loop
    accepted,   \* copies of the request's message the queue has accepted
    gone        \* requests whose context is cancelled

vars == <<tasks, completed, stage, req, entity, attempt, accepted, gone>>
tables == <<tasks, completed>>
queues == <<attempt, accepted>>

Calls == {"SaveTask", "RegisterRemind", "Rollback", "UpdateTaskStatus",
          "CancelRemind", "UpdateTask", "ArchiveTask", "DeleteTask"}
Answers == {"ok", "failed", "aborted"}

Asking(op) == {r \in Requests : req[r] # None /\ req[r].op = op}
InFlight == {r \in Requests : stage[r] \in Calls}

TypeOK ==
    /\ tasks \subseteq Row
    /\ completed \subseteq CompletedRow
    /\ stage \in [Requests -> {"idle"} \cup Calls \cup Answers]
    /\ req \in [Requests -> Request \cup {None}]
    /\ entity \in [Requests -> Entity \cup {None}]
    /\ attempt \in [Requests -> 0 .. MaxAttempts]
    /\ accepted \in [Requests -> 0 .. MaxAttempts]
    /\ gone \subseteq Requests

Init ==
    /\ tasks = {}
    /\ completed = {}
    /\ stage = [r \in Requests |-> "idle"]
    /\ req = [r \in Requests |-> None]
    /\ entity = [r \in Requests |-> None]
    /\ attempt = [r \in Requests |-> 0]
    /\ accepted = [r \in Requests |-> 0]
    /\ gone = {}

(***************************************************************************)
(* One call to the database                                                *)
(***************************************************************************)

\* Mutant: the WHERE clause forgets the user.
Matching_AnyOwner(t, u) == {x \in tasks : x.id = t}

\* The rows a WHERE id = ? AND user_id = ? selects.
Matching(t, u) == {x \in tasks : x.id = t /\ x.owner = u}

GoTo(r, s) == stage' = [stage EXCEPT ![r] = s]

\* Mutant: RowsAffected is not looked at, a statement without a row succeeds.
Execute_NoRowsCheck(r, applies, newTasks, newCompleted, onSuccess, onError) ==
    /\ tasks' = IF applies THEN newTasks ELSE tasks
    /\ completed' = IF applies THEN newCompleted ELSE completed
    /\ GoTo(r, onSuccess)

\* A statement or transaction of request r.  "applies" says that no constraint
\* refuses it and that it affects a row; otherwise it is an error and changes
\* nothing.  A cancelled context stops it before it is sent.
Execute(r, applies, newTasks, newCompleted, onSuccess, onError) ==
    \/ /\ r \notin gone
       /\ applies
       /\ tasks' = newTasks
       /\ completed' = newCompleted
       /\ \/ GoTo(r, onSuccess)
          \/ "db_ack_lost" \in Faults /\ GoTo(r, onError)
    \/ /\ ~applies \/ r \in gone \/ "db_error" \in Faults
       /\ UNCHANGED tables
       /\ GoTo(r, onError)

(***************************************************************************)
(* One attempt of the retry loop of the queue client                       *)
(***************************************************************************)

Enqueue(r, onSuccess, onError) ==
    \/ /\ r \notin gone
       /\ attempt' = [attempt EXCEPT ![r] = @ + 1]
       /\ LET afterError == IF attempt[r] + 1 < MaxAttempts THEN stage[r] ELSE onError
          IN  \/ /\ accepted' = [accepted EXCEPT ![r] = @ + 1]
                 /\ \/ GoTo(r, onSuccess)
                    \/ "queue_ack_lost" \in Faults /\ GoTo(r, afterError)
              \/ /\ "queue_error" \in Faults
                 /\ UNCHANGED accepted
                 /\ GoTo(r, afterError)
    \/ /\ r \in gone
       /\ UNCHANGED queues
       /\ GoTo(r, onError)

(***************************************************************************)
(* CreateTask                                                              *)
(***************************************************************************)

\* Session, id check, entity and devices: nothing is written yet.  An id is
\* either sent by the client or generated; a generated id is never a used one.
BeginCreateTask(r) ==
    /\ stage[r] = "idle"
    /\ \E q \in CreateRequest :
        /\ ClientsReuseIds \/ \A s \in Asking("create") : req[s].task # q.task
        /\ \A x \in tasks : x.id # q.task
        /\ req' = [req EXCEPT ![r] = q]
        /\ entity' = [entity EXCEPT ![r] =
             [id |-> q.task, owner |-> q.user, status |-> "pending_reminders",
              content |-> r]]
    /\ GoTo(r, "SaveTask")
    /\ UNCHANGED <<tables, queues, gone>>

\* Mutant: only a task with reminders is activated.
AfterSave_OnlyReminded(q) == IF q.devices THEN "RegisterRemind" ELSE "ok"

\* remindReq is nil when no device has an FCM token.
AfterSave(q) == IF q.devices THEN "RegisterRemind" ELSE "UpdateTaskStatus"

\* INSERT INTO tasks; the primary key refuses a second row with the id.
SaveTask(r) ==
    /\ stage[r] = "SaveTask"
    /\ Execute(r, \A x \in tasks : x.id # entity[r].id,
               tasks \cup {entity[r]}, completed, AfterSave(req[r]), "failed")
    /\ UNCHANGED <<req, entity, queues, gone>>

\* Mutant: a failed registration is only logged.
RegisterRemind_IgnoreFailure(r) ==
    /\ stage[r] = "RegisterRemind"
    /\ Enqueue(r, "UpdateTaskStatus", "UpdateTaskStatus")
    /\ UNCHANGED <<tables, req, entity, gone>>

\* Mutant: a failed registration is answered without the compensating delete.
RegisterRemind_NoRollback(r) ==
    /\ stage[r] = "RegisterRemind"
    /\ Enqueue(r, "UpdateTaskStatus", "failed")
    /\ UNCHANGED <<tables, req, entity, gone>>

RegisterRemind(r) ==
    /\ stage[r] = "RegisterRemind"
    /\ Enqueue(r, "UpdateTaskStatus", "Rollback")
    /\ UNCHANGED <<tables, req, entity, gone>>

\* The compensating delete; its own failure is only logged.
RollbackTask(r) ==
    /\ stage[r] = "Rollback"
    /\ LET rows == Matching(entity[r].id, req[r].user)
       IN  Execute(r, rows # {}, tasks \ rows, completed, "failed", "failed")
    /\ UNCHANGED <<req, entity, queues, gone>>

\* Mutant: the activation is repeated until it succeeds.
UpdateTaskStatus_RetryForever(r) ==
    /\ stage[r] = "UpdateTaskStatus"
    /\ LET rows == Matching(entity[r].id, req[r].user)
       IN  Execute(r, rows # {},
                   (tasks \ rows) \cup {[x EXCEPT !.status = "active"] : x \in rows},
                   completed, "ok", "UpdateTaskStatus")
    /\ UNCHANGED <<req, entity, queues, gone>>

\* Mutant: a failed activation is only logged.
UpdateTaskStatus_IgnoreFailure(r) ==
    /\ stage[r] = "UpdateTaskStatus"
    /\ LET rows == Matching(entity[r].id, req[r].user)
       IN  Execute(r, rows # {},
                   (tasks \ rows) \cup {[x EXCEPT !.status = "active"] : x \in rows},
                   completed, "ok", "ok")
    /\ UNCHANGED <<req, entity, queues, gone>>

\* UPDATE tasks SET task_status = 'active' WHERE id = ? AND user_id = ?
UpdateTaskStatus(r) ==
    /\ stage[r] = "UpdateTaskStatus"
    /\ LET rows == Matching(entity[r].id, req[r].user)
       IN  Execute(r, rows # {},
                   (tasks \ rows) \cup {[x EXCEPT !.status = "active"] : x \in rows},
                   completed, "ok", "failed")
    /\ UNCHANGED <<req, entity, queues, gone>>

(***************************************************************************)
(* UpdateTask and DeleteTask                                               *)
(***************************************************************************)

\* ApplyUpdate: the fields the mask names, over the task that was read.
ApplyUpdate(x, q, r) ==
    [id |-> x.id, owner |-> x.owner,
     status |-> IF q.status = "unset" THEN x.status ELSE q.status,
     content |-> IF q.edit THEN r ELSE x.content]

\* Mutant: a completed task is written like any other update.
AfterRead_NeverArchive(e) == "UpdateTask"

AfterRead(e) == IF e.status = "completed" THEN "CancelRemind" ELSE "UpdateTask"

\* GetTaskByID and ApplyUpdate; the row may change before it is written back.
BeginUpdateTask(r) ==
    /\ stage[r] = "idle"
    /\ \E q \in UpdateRequest : \E x \in Matching(q.task, q.user) :
        /\ q.status # "unset" \/ q.edit
        /\ req' = [req EXCEPT ![r] = q]
        /\ entity' = [entity EXCEPT ![r] = ApplyUpdate(x, q, r)]
        /\ GoTo(r, AfterRead(ApplyUpdate(x, q, r)))
    /\ UNCHANGED <<tables, queues, gone>>

\* Mutant: the task is deleted without cancelling its reminders.
BeginDeleteTask_NoCancel(r) ==
    /\ stage[r] = "idle"
    /\ \E q \in DeleteRequest : req' = [req EXCEPT ![r] = q]
    /\ GoTo(r, "DeleteTask")
    /\ UNCHANGED <<tables, entity, queues, gone>>

\* Nothing is read: the cancellation is sent for any id the client names.
BeginDeleteTask(r) ==
    /\ stage[r] = "idle"
    /\ \E q \in DeleteRequest : req' = [req EXCEPT ![r] = q]
    /\ GoTo(r, "CancelRemind")
    /\ UNCHANGED <<tables, entity, queues, gone>>

AfterCancel(q) == IF q.op = "update" THEN "ArchiveTask" ELSE "DeleteTask"

\* Mutant: a failed cancellation is only logged.
CancelRemind_IgnoreFailure(r) ==
    /\ stage[r] = "CancelRemind"
    /\ Enqueue(r, AfterCancel(req[r]), AfterCancel(req[r]))
    /\ UNCHANGED <<tables, req, entity, gone>>

CancelRemind(r) ==
    /\ stage[r] = "CancelRemind"
    /\ Enqueue(r, AfterCancel(req[r]), "failed")
    /\ UNCHANGED <<tables, req, entity, gone>>

\* Mutant: the whole task is saved, inserted if it is gone.
UpdateTask_Upsert(r) ==
    /\ stage[r] = "UpdateTask"
    /\ Execute(r, TRUE, (tasks \ Matching(entity[r].id, entity[r].owner)) \cup {entity[r]},
               completed, "ok", "failed")
    /\ UNCHANGED <<req, entity, queues, gone>>

\* UPDATE tasks SET every column WHERE id = ? AND user_id = ?
UpdateTask(r) ==
    /\ stage[r] = "UpdateTask"
    /\ LET rows == Matching(entity[r].id, entity[r].owner)
       IN  Execute(r, rows # {}, (tasks \ rows) \cup {entity[r] : x \in rows},
                   completed, "ok", "failed")
    /\ UNCHANGED <<req, entity, queues, gone>>

CompletedCopy(e) == [id |-> e.id, owner |-> e.owner, content |-> e.content]

\* Mutant: the transaction does not delete the open row.
ArchiveTask_KeepOpenRow(r) ==
    /\ stage[r] = "ArchiveTask"
    /\ Execute(r, \A c \in completed : c.id # entity[r].id,
               tasks, completed \cup {CompletedCopy(entity[r])}, "ok", "failed")
    /\ UNCHANGED <<req, entity, queues, gone>>

\* Mutant: the transaction commits although no open row was deleted.
ArchiveTask_NoRowsCheck(r) ==
    /\ stage[r] = "ArchiveTask"
    /\ Execute(r, \A c \in completed : c.id # entity[r].id,
               tasks \ Matching(req[r].task, req[r].user),
               completed \cup {CompletedCopy(entity[r])}, "ok", "failed")
    /\ UNCHANGED <<req, entity, queues, gone>>

\* One transaction: INSERT INTO completed_tasks (its primary key refuses a
\* second row), then DELETE FROM tasks; no row deleted rolls it back.
ArchiveTask(r) ==
    /\ stage[r] = "ArchiveTask"
    /\ LET rows == Matching(req[r].task, req[r].user)
       IN  Execute(r, rows # {} /\ \A c \in completed : c.id # entity[r].id,
                   tasks \ rows, completed \cup {CompletedCopy(entity[r])},
                   "ok", "failed")
    /\ UNCHANGED <<req, entity, queues, gone>>

DeleteTask(r) ==
    /\ stage[r] = "DeleteTask"
    /\ LET rows == Matching(req[r].task, req[r].user)
       IN  Execute(r, rows # {}, tasks \ rows, completed, "ok", "failed")
    /\ UNCHANGED <<req, entity, queues, gone>>

(***************************************************************************)
(* The environment and the next-state relation                             *)
(***************************************************************************)

\* An answer before anything is written or sent: no session, an id, colour or
\* field that is refused, an id that exists, no such task, no device service.
Refuse(r) ==
    /\ stage[r] = "idle"
    /\ GoTo(r, "failed")
    /\ UNCHANGED <<tables, req, entity, queues, gone>>

\* The client of a request goes away: net/http cancels the request's context.
Disconnect(r) ==
    /\ "disconnect" \in Faults
    /\ r \in InFlight \ gone
    /\ gone' = gone \cup {r}
    /\ UNCHANGED <<tables, stage, req, entity, queues>>

\* The process dies: the requests in flight are never answered.
Crash ==
    /\ "crash" \in Faults
    /\ InFlight # {}
    /\ stage' = [r \in Requests |-> IF r \in InFlight THEN "aborted" ELSE stage[r]]
    /\ UNCHANGED <<tables, req, entity, queues, gone>>

Begin(r) ==
    \/ "create" \in Operations /\ BeginCreateTask(r)
    \/ "update" \in Operations /\ BeginUpdateTask(r)
    \/ "delete" \in Operations /\ BeginDeleteTask(r)
    \/ Refuse(r)

\* The rest of a handler that is running.
Continue(r) ==
    \/ SaveTask(r) \/ RegisterRemind(r) \/ RollbackTask(r) \/ UpdateTaskStatus(r)
    \/ CancelRemind(r) \/ UpdateTask(r) \/ ArchiveTask(r) \/ DeleteTask(r)

\* No more requests are sent; a handler that is stuck is a deadlock.
Quiet == InFlight = {} /\ UNCHANGED vars

Next ==
    \/ \E r \in Requests : Begin(r) \/ Continue(r) \/ Disconnect(r)
    \/ Crash
    \/ Quiet

Spec == Init /\ [][Next]_vars

\* Every handler that has started goes on: its calls return or time out.
FairSpec == Spec /\ \A r \in Requests : WF_vars(Continue(r))

-----------------------------------------------------------------------------
(***************************************************************************)
(* Properties                                                              *)
(***************************************************************************)

Completes(r) == r \in Asking("update") /\ req[r].status = "completed"
Deletes(r) == r \in Asking("delete")
Concerns(r, t, u) == req[r].task = t /\ req[r].user = u
OpenRow(t, u) == Matching(t, u) # {}

\* The queue remind-cancel has taken a cancellation of task t of user u.
CancelSent(t, u) ==
    \E r \in Requests :
        (Completes(r) \/ Deletes(r)) /\ Concerns(r, t, u) /\ accepted[r] > 0

\* Some request justifies that task t of user u is active.
Backed(t, u) ==
    \E r \in Requests :
        /\ req[r] # None
        /\ Concerns(r, t, u)
        /\ \/ r \in Asking("create") /\ (req[r].devices => accepted[r] > 0)
           \/ r \in Asking("update") /\ req[r].status = "active"

\* UpdateTask (completion): a task gets into completed_tasks only after its
\* owner asked for it and the cancellation of its reminders was accepted, however
\* attempts, answers and other requests interleave (task.go:642-668).
CompletionCancelsReminders ==
    \A c \in completed :
        \E r \in Requests :
            Completes(r) /\ Concerns(r, c.id, c.owner) /\ accepted[r] > 0

\* CreateTask: status "active" in a row is backed by a create of that task whose
\* reminders were accepted (or that had no device to remind), or by a client
\* that set the status itself; a stale write can bring back no other "active".
ActiveIsBacked == \A x \in tasks : x.status = "active" => Backed(x.id, x.owner)

\* CreateTask: a task waits in pending_reminders only while its creation has not
\* been answered with success (it runs, its compensation or activation failed
\* with its context or the database, or it died), or because an update that does
\* not name the status may have written back the one it read (task.go:219-262,
\* 672).  So whoever was told that a task was created finds it active, but for
\* such an update.
PendingIsExplained ==
    \A x \in tasks : x.status = "pending_reminders" =>
        \/ \E r \in Asking("create") : Concerns(r, x.id, x.owner) /\ stage[r] # "ok"
        \/ \E r \in Asking("update") : Concerns(r, x.id, x.owner) /\ req[r].status = "unset"

\* A row changes or disappears only in a step of a request of its owner that
\* names it, and no other user's row takes its id in that step: the user id in
\* every WHERE clause keeps tenants apart, in the compensating delete too.
OnlyOwnersChangeRows ==
    [][\A x \in tasks : x \notin tasks' =>
          /\ \E r \in InFlight : stage'[r] # stage[r] /\ Concerns(r, x.id, x.owner)
          /\ \A y \in tasks' : y.id = x.id => y.owner = x.owner]_vars

\* A task whose creation was answered with success stays among its owner's
\* tasks until a cancellation of its reminders was accepted: no rollback, stale
\* write, failed delete or lost answer makes it vanish silently.
\* (Ids are not reused.)
CreatedTaskIsKept ==
    \A r \in Asking("create") : stage[r] = "ok" =>
        LET t == req[r].task  u == req[r].user
        IN  /\ req[r].devices => accepted[r] > 0
            /\ OpenRow(t, u) \/ CancelSent(t, u)

\* Of all the requests that would delete or complete a task, however they race,
\* at most one is told that it succeeded.  (Ids are not reused.)
OneEnding ==
    \A r, s \in Requests :
        /\ Completes(r) \/ Deletes(r)
        /\ Completes(s) \/ Deletes(s)
        /\ stage[r] = "ok" /\ stage[s] = "ok"
        /\ Concerns(r, req[s].task, req[s].user)
        => r = s

\* After a successful delete the task is in neither table, and no request that
\* read it before (an update, a completion) brings it back.  (Ids are not reused.)
DeletedStaysDeleted ==
    \A r \in Requests : Deletes(r) /\ stage[r] = "ok" =>
        /\ ~OpenRow(req[r].task, req[r].user)
        /\ \A c \in completed : c.id # req[r].task

\* An id names one task: it is never both open and completed.  Holds while ids
\* are not reused; ExistsTaskByID looks only at the table tasks.
OneTaskPerId == \A x \in tasks, c \in completed : x.id # c.id

\* The compensation: if only queue calls fail, a create that is answered with
\* an error leaves no open row behind.  (Ids are not reused.)
FailedCreateLeavesNoTask ==
    \A r \in Asking("create") :
        stage[r] = "failed" => ~OpenRow(req[r].task, req[r].user)

\* An update whose mask does not name task_status leaves the status alone.
MaskedUpdateKeepsStatus ==
    [][\A r \in Asking("update"), x \in tasks, y \in tasks' :
          /\ stage[r] = "UpdateTask" /\ stage'[r] # stage[r]
          /\ req[r].status = "unset" /\ Concerns(r, x.id, x.owner) /\ y.id = x.id
          => y.status = x.status]_vars

\* Every handler that has started answers: its retry loops are bounded.
HandlersAnswer == \A r \in Requests : r \in InFlight ~> stage[r] \in Answers

\* How many calls a handler makes at most before it answers.
CallsLeft(r) ==
    CASE stage[r] = "SaveTask" -> MaxAttempts + 2
      [] stage[r] \in {"RegisterRemind", "CancelRemind"} -> MaxAttempts - attempt[r] + 1
      [] stage[r] \in Calls \ {"SaveTask", "RegisterRemind", "CancelRemind"} -> 1
      [] OTHER -> 0

\* A handler's calls run out, two beside the attempts of its one retry loop,
\* whatever fails and whatever other handlers do: no error sends it back to a call
\* it has made (task.go:219-248, 642-672; primind_client.go:67-88).
CallsRunOut ==
    [][\A r \in InFlight : /\ CallsLeft(r)' <= CallsLeft(r)
                           /\ Continue(r) => CallsLeft(r)' < CallsLeft(r)]_vars

IsPending(t) == \E x \in tasks : x.id = t /\ x.status = "pending_reminders"

\* If only queue calls fail, no task stays in pending_reminders: its creation
\* activates it or rolls it back, unless an update that does not name the status
\* may have written the one it read (task.go:672).
PendingResolves ==
    \A t \in TaskIds :
        IsPending(t) ~> \/ ~IsPending(t)
                        \/ \E r \in Asking("update") : req[r].task = t /\ req[r].status = "unset"

=============================================================================
