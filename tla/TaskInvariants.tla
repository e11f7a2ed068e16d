--------------------------- MODULE TaskInvariants ---------------------------
(***************************************************************************)
(* The inductive invariants behind the properties of TaskService: what a   *)
(* handler knows at each of its calls.                                     *)
(***************************************************************************)
EXTENDS TaskService

\* The queue client's loop is entered with no attempt made, stays below its
\* bound, and no attempt is accepted more than once.
AttemptsKnown(r) ==
    /\ accepted[r] <= attempt[r]
    /\ stage[r] \in {"idle", "SaveTask"} => attempt[r] = 0
    /\ stage[r] \in {"RegisterRemind", "CancelRemind"} => attempt[r] < MaxAttempts

\* The entity in memory is the task the request names, under its user.
OwnEntity(r) ==
    entity[r] # None /\ entity[r].id = req[r].task /\ entity[r].owner = req[r].user

\* Which operation is at which call, and with which entity in memory.
CreateCalls == {"SaveTask", "RegisterRemind", "Rollback", "UpdateTaskStatus"}
MemoryKnown(r) ==
    /\ stage[r] = "idle" => req[r] = None
    /\ stage[r] \in CreateCalls =>
          r \in Asking("create") /\ OwnEntity(r) /\ entity[r].status = "pending_reminders"
    /\ stage[r] = "UpdateTask" =>
          r \in Asking("update") /\ OwnEntity(r) /\ entity[r].status \in Status
    /\ stage[r] = "CancelRemind" => Deletes(r) \/ (Completes(r) /\ OwnEntity(r))
    /\ stage[r] = "ArchiveTask" => Completes(r) /\ OwnEntity(r)
    /\ stage[r] = "DeleteTask" => Deletes(r)

\* Reminders are cancelled before the task is archived or deleted; "active" is
\* justified before it is written, in a stale copy too.
RemindersKnown(r) ==
    /\ stage[r] \in {"ArchiveTask", "DeleteTask"} => accepted[r] > 0
    /\ stage[r] \in {"UpdateTaskStatus", "ok"} /\ r \in Asking("create")
          => (req[r].devices => accepted[r] > 0)
    /\ stage[r] = "UpdateTask" /\ entity[r].status = "active"
          => Backed(req[r].task, req[r].user)

Knows(r) == AttemptsKnown(r) /\ MemoryKnown(r) /\ RemindersKnown(r)

\* Inductive whether or not ids are reused.
HandlerInv ==
    /\ TypeOK
    /\ \A r \in Requests : Knows(r)
    /\ CompletionCancelsReminders
    /\ ActiveIsBacked

\* The primary key of table tasks: kept by every statement, next to HandlerInv.
PrimaryKey == \A x, y \in tasks : x.id = y.id => x = y

\* A handler writes "pending_reminders" back only if its mask does not name the
\* status: inductive next to HandlerInv.
PendingInv ==
    /\ \A r \in Requests :
         stage[r] = "UpdateTask" /\ req[r].status # "unset" => entity[r].status = "active"
    /\ PendingIsExplained

(***************************************************************************)
(* While ids are not reused                                                *)
(***************************************************************************)

\* A create that has tried to insert its row.
Saved(t, u) ==
    \E r \in Asking("create") : Concerns(r, t, u) /\ stage[r] # "SaveTask"

OneCreatePerId ==
    \A r, s \in Asking("create") : req[r].task = req[s].task => r = s

RowsInv ==
    /\ \A x \in tasks \cup completed : Saved(x.id, x.owner)
    /\ PrimaryKey
    /\ \A c, d \in completed : c.id = d.id => c = d

\* From the insert to the answer "ok" the row is there or was cancelled.
KeptInv ==
    \A r \in Asking("create") :
        stage[r] \in {"RegisterRemind", "Rollback", "UpdateTaskStatus", "ok"} =>
            OpenRow(req[r].task, req[r].user) \/ CancelSent(req[r].task, req[r].user)

\* A successful delete or completion found the one row there ever is.
EndedInv ==
    \A r \in Requests : (Completes(r) \/ Deletes(r)) /\ stage[r] = "ok" =>
        /\ Saved(req[r].task, req[r].user)
        /\ ~OpenRow(req[r].task, req[r].user)

\* A request that completes its task never writes it back as an update.
UpdatesInv == \A r \in Requests : stage[r] = "UpdateTask" => ~Completes(r)

\* Inductive while ids are not reused, together with HandlerInv.
FreshInv ==
    /\ OneCreatePerId /\ RowsInv /\ KeptInv /\ EndedInv /\ UpdatesInv
    /\ OneEnding /\ DeletedStaysDeleted /\ OneTaskPerId

=============================================================================
