------------------------- MODULE TaskRefinementProofs -------------------------
(***************************************************************************)
(* TaskService implements TaskLifecycle while clients do not reuse ids,    *)
(* for every set of requests, users and ids, all operations and all        *)
(* faults: every step is one step in the life of one task, or none.        *)
(***************************************************************************)
EXTENDS TaskServiceProofs, TaskRefinement

\* What each request contributes to the refinement mapping.
Spent(r) == r \in Asking("create") /\ stage[r] # "SaveTask"
Promised(r) == r \in Asking("create") /\ stage[r] = "ok"
Silenced(r) == Ends(r) /\ accepted[r] > 0

(***************************************************************************)
(* How the mapping changes                                                 *)
(***************************************************************************)

\* A request that asks for something goes on asking for it.
Fixed == \A s \in Requests : req[s] # None => req'[s] = req[s]

LEMMA SpentView ==
    ASSUME Fixed, NEW R \in SUBSET Requests, \A s \in R : req[s] # None,
           \A s \in Requests : Spent(s)' <=> Spent(s) \/ s \in R
    PROVE  SpentIds' = SpentIds \cup {req[s].task : s \in R}
<1>1. \A s \in Requests : Spent(s) => req[s] # None
    BY DEF Spent, Asking
<1>2. SpentIds = {req[s].task : s \in {x \in Requests : Spent(x)}}
    BY DEF SpentIds, Spent, Asking
<1>3. SpentIds' = {req'[s].task : s \in {x \in Requests : Spent(x)'}}
    BY DEF SpentIds, Spent, Asking
<1>4. \A s \in Requests : Spent(s)' => req'[s] = req[s]
    BY <1>1 DEF Fixed
<1> HIDE DEF Spent
<1> QED BY <1>1, <1>2, <1>3, <1>4 DEF Fixed

LEMMA PromisedView ==
    ASSUME Fixed, NEW R \in SUBSET Requests, \A s \in R : req[s] # None,
           \A s \in Requests : Promised(s)' <=> Promised(s) \/ s \in R
    PROVE  PromisedTasks' = PromisedTasks \cup {TaskOf(s) : s \in R}
<1>1. \A s \in Requests : Promised(s) => req[s] # None
    BY DEF Promised, Asking
<1>2. PromisedTasks = {TaskOf(s) : s \in {x \in Requests : Promised(x)}}
    BY DEF PromisedTasks, Promised, Asking
<1>3. PromisedTasks' = {TaskOf(s)' : s \in {x \in Requests : Promised(x)'}}
    BY DEF PromisedTasks, Promised, Asking
<1>4. \A s \in Requests : Promised(s)' => TaskOf(s)' = TaskOf(s)
    BY <1>1 DEF Fixed, TaskOf
<1> QED BY <1>1, <1>2, <1>3, <1>4

LEMMA SilencedView ==
    ASSUME Fixed, NEW R \in SUBSET Requests, \A s \in R : req[s] # None,
           \A s \in Requests : Silenced(s)' <=> Silenced(s) \/ s \in R
    PROVE  SilencedTasks' = SilencedTasks \cup {TaskOf(s) : s \in R}
<1>1. \A s \in Requests : Silenced(s) => req[s] # None
    BY DEF Silenced, Ends, Completes, Deletes, Asking
<1>2. SilencedTasks = {TaskOf(s) : s \in {x \in Requests : Silenced(x)}}
    BY DEF SilencedTasks, Silenced, Ends
<1>3. SilencedTasks' = {TaskOf(s)' : s \in {x \in Requests : Silenced(x)'}}
    BY DEF SilencedTasks, Silenced, Ends
<1>4. \A s \in Requests : Silenced(s)' => TaskOf(s)' = TaskOf(s)
    BY <1>1 DEF Fixed, TaskOf
<1> QED BY <1>1, <1>2, <1>3, <1>4

LEMMA TablesView ==
    /\ SameTasks => OpenTasks' = OpenTasks
    /\ completed' = completed => DoneTasks' = DoneTasks
BY DEF SameTasks, OpenTasks, DoneTasks

\* One request moves: the others contribute what they did.
LEMMA OthersView ==
    ASSUME NEW r \in Requests, Alone(r), NEW s \in Requests, s # r
    PROVE  /\ Spent(s)' <=> Spent(s)
           /\ Promised(s)' <=> Promised(s)
           /\ Silenced(s)' <=> Silenced(s)
BY DEF Alone, Spent, Promised, Silenced, Ends, Completes, Deletes, Asking

\* A view stands still if the request that moves contributes what it did.
LEMMA SameViews ==
    ASSUME Fixed, NEW r \in Requests, Alone(r)
    PROVE  /\ (Spent(r)' <=> Spent(r)) => SpentIds' = SpentIds
           /\ (Promised(r)' <=> Promised(r)) => PromisedTasks' = PromisedTasks
           /\ (Silenced(r)' <=> Silenced(r)) => SilencedTasks' = SilencedTasks
<1>1. ASSUME Spent(r)' <=> Spent(r) PROVE SpentIds' = SpentIds
    <2>1. \A s \in Requests : Spent(s)' <=> Spent(s)
        BY <1>1, OthersView
    <2> HIDE DEF Spent
    <2>2. SpentIds' = SpentIds \cup {req[s].task : s \in {}}
        BY <2>1, SpentView
    <2> QED BY <2>2
<1>2. ASSUME Promised(r)' <=> Promised(r) PROVE PromisedTasks' = PromisedTasks
    <2>1. \A s \in Requests : Promised(s)' <=> Promised(s)
        BY <1>2, OthersView
    <2>2. PromisedTasks' = PromisedTasks \cup {TaskOf(s) : s \in {}}
        BY <2>1, PromisedView
    <2> QED BY <2>2
<1>3. ASSUME Silenced(r)' <=> Silenced(r) PROVE SilencedTasks' = SilencedTasks
    <2>1. \A s \in Requests : Silenced(s)' <=> Silenced(s)
        BY <1>3, OthersView
    <2>2. SilencedTasks' = SilencedTasks \cup {TaskOf(s) : s \in {}}
        BY <2>1, SilencedView
    <2> QED BY <2>2
<1> QED BY <1>1, <1>2, <1>3

\* A view grows by the task of the request that moves.
LEMMA GrownViews ==
    ASSUME Fixed, NEW r \in Requests, Alone(r), req[r] # None
    PROVE  /\ Spent(r)' => SpentIds' = SpentIds \cup {req[r].task}
           /\ Promised(r)' => PromisedTasks' = PromisedTasks \cup {TaskOf(r)}
           /\ Silenced(r)' => SilencedTasks' = SilencedTasks \cup {TaskOf(r)}
<1> PICK R \in SUBSET Requests : R = {r}
    OBVIOUS
<1>1. ASSUME Spent(r)' PROVE SpentIds' = SpentIds \cup {req[r].task}
    <2>1. \A s \in Requests : Spent(s)' <=> Spent(s) \/ s \in R
        BY <1>1, OthersView
    <2>2. SpentIds' = SpentIds \cup {req[s].task : s \in R}
        BY <2>1, SpentView
    <2> QED BY <2>2
<1>2. ASSUME Promised(r)' PROVE PromisedTasks' = PromisedTasks \cup {TaskOf(r)}
    <2>1. \A s \in Requests : Promised(s)' <=> Promised(s) \/ s \in R
        BY <1>2, OthersView
    <2>2. PromisedTasks' = PromisedTasks \cup {TaskOf(s) : s \in R}
        BY <2>1, PromisedView
    <2> QED BY <2>2
<1>3. ASSUME Silenced(r)' PROVE SilencedTasks' = SilencedTasks \cup {TaskOf(r)}
    <2>1. \A s \in Requests : Silenced(s)' <=> Silenced(s) \/ s \in R
        BY <1>3, OthersView
    <2>2. SilencedTasks' = SilencedTasks \cup {TaskOf(s) : s \in R}
        BY <2>1, SilencedView
    <2> QED BY <2>2
<1> QED BY <1>1, <1>2, <1>3

\* What a step of the handlers may be for the abstract specification.
views == <<SpentIds, OpenTasks, PromisedTasks, SilencedTasks, DoneTasks>>
Implemented == Lifecycle!Next \/ UNCHANGED views

\* The task a request names is a task.
LEMMA TasksNamed ==
    ASSUME TypeOK, NEW r \in Requests, req[r] # None
    PROVE  /\ TaskOf(r) \in TaskIds \X Users /\ TaskOf(r)[1] = req[r].task
           /\ req[r].task \in TaskIds /\ req[r].user \in Users
BY RequestFields DEF TypeOK, TaskOf

\* The rows of the task a request names, seen as tasks.
LEMMA OpenView ==
    ASSUME NEW r \in Requests
    PROVE  /\ OpenRow(req[r].task, req[r].user) <=> TaskOf(r) \in OpenTasks
           /\ tasks' = tasks \ Matching(req[r].task, req[r].user) =>
                 OpenTasks' = OpenTasks \ {TaskOf(r)}
BY DEF OpenRow, Matching, OpenTasks, TaskOf

(***************************************************************************)
(* The steps of a handler                                                  *)
(***************************************************************************)

\* Monotone with what Execute and Enqueue leave of the request itself.
LEMMA FixedStep == Monotone => Fixed
BY DEF Monotone, Fixed

\* A step that leaves the tasks alone and answers nobody with success.
LEMMA UnseenStep ==
    ASSUME Monotone, NEW r \in Requests, Alone(r), SameTasks,
           Spent(r)' <=> Spent(r), Promised(r)' <=> Promised(r),
           Silenced(r)' <=> Silenced(r)
    PROVE  Implemented
BY FixedStep, SameViews, TablesView DEF Implemented, views, SameTasks

\* The insert is the opening of the task; if it fails its id is given up.
LEMMA SaveTaskOpens ==
    ASSUME HandlerInv, FreshInv, NEW r \in Requests, SaveTask(r)
    PROVE  Implemented
<1>1. r \in Asking("create") /\ OwnEntity(r) /\ req[r] # None /\ stage[r] = "SaveTask"
    BY DEF SaveTask, HandlerInv, Knows, MemoryKnown, CreateCalls, Asking
<1>2. /\ UNCHANGED <<req, accepted>>
      /\ stage'[r] \in {"RegisterRemind", "UpdateTaskStatus", "failed"}
      /\ \/ tasks' = tasks \cup {entity[r]} /\ completed' = completed
         \/ tasks' = tasks /\ completed' = completed
    BY DEF SaveTask, Execute, GoTo, AfterSave, tables, queues, HandlerInv, TypeOK
<1>3. Fixed /\ Alone(r)
    BY DEF SaveTask, Execute, GoTo, queues, HandlerInv, TypeOK, Fixed, Alone
<1>4. Spent(r)' /\ (Promised(r)' <=> Promised(r)) /\ (Silenced(r)' <=> Silenced(r))
    BY <1>1, <1>2 DEF Spent, Promised, Silenced, Ends, Completes, Deletes, Asking
<1>5. /\ SpentIds' = SpentIds \cup {req[r].task}
      /\ UNCHANGED <<PromisedTasks, SilencedTasks>>
    BY <1>1, <1>3, <1>4, SameViews, GrownViews
<1>6. req[r].task \notin SpentIds
    BY <1>1 DEF SpentIds, FreshInv, OneCreatePerId
<1>7. DoneTasks' = DoneTasks
    BY <1>2, TablesView
<1>8. TaskOf(r) \in TaskIds \X Users /\ TaskOf(r)[1] = req[r].task /\ req[r].task \in TaskIds
    BY <1>1, TasksNamed DEF HandlerInv
<1>9. CASE tasks' = tasks \cup {entity[r]}
    <2>1. OpenTasks' = OpenTasks \cup {TaskOf(r)}
        <3> PICK e : e = entity[r]
            OBVIOUS
        <3>1. <<e.id, e.owner>> = TaskOf(r) /\ tasks' = tasks \cup {e}
            BY <1>1, <1>9 DEF OwnEntity, TaskOf
        <3>2. OpenTasks' = {<<x.id, x.owner>> : x \in tasks'}
            BY DEF OpenTasks
        <3> QED BY <3>1, <3>2 DEF OpenTasks
    <2>2. Lifecycle!Open(TaskOf(r))
        BY <1>5, <1>6, <1>7, <1>8, <2>1 DEF Lifecycle!Open
    <2> QED BY <1>8, <2>2 DEF Implemented, Lifecycle!Next, Lifecycle!Task
<1>10. CASE tasks' = tasks
    <2>1. OpenTasks' = OpenTasks
        BY <1>10 DEF OpenTasks
    <2>2. PICK ids \in SUBSET TaskIds : ids = {req[r].task}
        BY <1>8
    <2>3. Lifecycle!GiveUp(ids)
        BY <1>5, <1>6, <1>7, <2>1, <2>2 DEF Lifecycle!GiveUp
    <2> QED BY <2>3 DEF Implemented, Lifecycle!Next
<1> QED BY <1>2, <1>9, <1>10

\* The registration is not seen: reminders are part of the promise's making.
LEMMA RegisterRemindUnseen ==
    ASSUME HandlerInv, FreshInv, NEW r \in Requests, RegisterRemind(r)
    PROVE  Implemented
<1>1. stage[r] = "RegisterRemind" /\ r \in Asking("create")
    BY DEF RegisterRemind, HandlerInv, Knows, MemoryKnown, CreateCalls
<1>2. /\ Monotone /\ Alone(r) /\ req'[r] = req[r]
      /\ tasks' = tasks /\ completed' = completed
      /\ stage'[r] \in {"UpdateTaskStatus", "RegisterRemind", "Rollback"}
    BY <1>1, EnqueueStep DEF RegisterRemind, Calls
<1>3. (Spent(r)' <=> Spent(r)) /\ (Promised(r)' <=> Promised(r)) /\ (Silenced(r)' <=> Silenced(r))
    BY <1>1, <1>2 DEF Spent, Promised, Silenced, Ends, Completes, Deletes, Asking
<1> QED BY <1>2, <1>3, SameTable, UnseenStep

\* An accepted cancellation silences the task.
LEMMA CancelRemindSilences ==
    ASSUME HandlerInv, FreshInv, NEW r \in Requests, CancelRemind(r)
    PROVE  Implemented
<1>1. Ends(r) /\ req[r] # None /\ stage[r] = "CancelRemind"
    BY DEF CancelRemind, HandlerInv, Knows, MemoryKnown, Ends, Completes, Deletes, Asking
<1>2. AfterCancel(req[r]) \in {"ArchiveTask", "DeleteTask"}
    BY DEF AfterCancel
<1>3. AfterCancel(req[r]) \in Calls \cup Answers /\ "failed" \in Calls \cup Answers
    BY <1>2 DEF Calls, Answers
<1>4. /\ Monotone /\ Alone(r) /\ req'[r] = req[r]
      /\ tasks' = tasks /\ completed' = completed
    BY <1>1, <1>3, EnqueueStep DEF CancelRemind
<1>5. (Spent(r)' <=> Spent(r)) /\ (Promised(r)' <=> Promised(r))
    BY <1>1, <1>4 DEF Spent, Promised, Ends, Completes, Deletes, Asking
<1>6. UNCHANGED <<SpentIds, OpenTasks, PromisedTasks, DoneTasks>>
    BY <1>4, <1>5, FixedStep, SameViews, SameTable, TablesView
<1>7. CASE Silenced(r)'
    <2>1. SilencedTasks' = SilencedTasks \cup {TaskOf(r)}
        BY <1>1, <1>4, <1>7, FixedStep, GrownViews
    <2>2. TaskOf(r) \in Lifecycle!Task
        BY <1>1, TasksNamed DEF HandlerInv, Lifecycle!Task
    <2>3. Lifecycle!Silence(TaskOf(r))
        BY <1>6, <2>1 DEF Lifecycle!Silence
    <2> QED BY <2>2, <2>3 DEF Implemented, Lifecycle!Next
<1>8. CASE ~Silenced(r)'
    <2>1. ~Silenced(r)
        <3>1. accepted[r] <= accepted'[r] /\ accepted[r] \in Nat
            BY <1>4, MaxAttemptsAssumption DEF Monotone, HandlerInv, TypeOK
        <3>2. accepted'[r] \in Nat
            BY <1>1, <1>3, EnqueueStep, MaxAttemptsAssumption DEF CancelRemind, TypeOK
        <3> QED BY <1>4, <1>8, <3>1, <3>2 DEF Silenced, Ends, Completes, Deletes, Asking
    <2> QED BY <1>4, <1>5, <1>8, <2>1, SameTable, UnseenStep
<1> QED BY <1>7, <1>8

\* The compensating delete drops a task that nobody was promised.
LEMMA RollbackTaskDrops ==
    ASSUME HandlerInv, FreshInv, NEW r \in Requests, RollbackTask(r)
    PROVE  Implemented
<1>1. stage[r] = "Rollback" /\ r \in Asking("create") /\ req[r] # None
      /\ entity[r].id = req[r].task
    BY DEF RollbackTask, HandlerInv, Knows, MemoryKnown, CreateCalls, OwnEntity, Asking
<1>2. /\ UNCHANGED <<req, accepted>> /\ stage'[r] = "failed" /\ completed' = completed
      /\ \/ /\ OpenRow(req[r].task, req[r].user)
            /\ tasks' = tasks \ Matching(req[r].task, req[r].user)
         \/ tasks' = tasks
    BY <1>1 DEF RollbackTask, Execute, GoTo, tables, queues, HandlerInv, TypeOK, OpenRow
<1>3. Monotone /\ Alone(r)
    BY MaxAttemptsAssumption
        DEF RollbackTask, Execute, GoTo, queues, HandlerInv, TypeOK, Monotone, Alone
<1>4. (Spent(r)' <=> Spent(r)) /\ (Promised(r)' <=> Promised(r)) /\ (Silenced(r)' <=> Silenced(r))
    BY <1>1, <1>2 DEF Spent, Promised, Silenced, Ends, Completes, Deletes, Asking
<1>5. CASE tasks' = tasks
    BY <1>2, <1>3, <1>4, <1>5, SameTable, UnseenStep
<1>6. CASE /\ OpenRow(req[r].task, req[r].user)
           /\ tasks' = tasks \ Matching(req[r].task, req[r].user)
    <2>1. UNCHANGED <<SpentIds, PromisedTasks, SilencedTasks, DoneTasks>>
        BY <1>2, <1>3, <1>4, FixedStep, SameViews, TablesView
    <2>2. TaskOf(r) \in OpenTasks /\ OpenTasks' = OpenTasks \ {TaskOf(r)}
        BY <1>6, OpenView
    <2>3. TaskOf(r) \notin PromisedTasks
        BY <1>1 DEF PromisedTasks, TaskOf, FreshInv, OneCreatePerId
    <2>4. TaskOf(r) \in Lifecycle!Task
        BY <1>1, TasksNamed DEF HandlerInv, Lifecycle!Task
    <2> QED BY <2>1, <2>2, <2>3, <2>4 DEF Implemented, Lifecycle!Next, Lifecycle!Drop
<1> QED BY <1>2, <1>5, <1>6

\* The delete a client asked for drops a task whose reminders are silenced.
LEMMA DeleteTaskDrops ==
    ASSUME HandlerInv, FreshInv, NEW r \in Requests, DeleteTask(r)
    PROVE  Implemented
<1>1. Ends(r) /\ accepted[r] > 0 /\ req[r] # None /\ stage[r] = "DeleteTask"
    BY DEF DeleteTask, HandlerInv, Knows, MemoryKnown, RemindersKnown, Ends, Deletes, Asking
<1>2. /\ UNCHANGED <<req, accepted>> /\ completed' = completed
      /\ \/ /\ OpenRow(req[r].task, req[r].user)
            /\ tasks' = tasks \ Matching(req[r].task, req[r].user)
         \/ tasks' = tasks
    BY DEF DeleteTask, Execute, tables, queues, OpenRow
<1>3. Monotone /\ Alone(r)
    BY MaxAttemptsAssumption
        DEF DeleteTask, Execute, GoTo, queues, HandlerInv, TypeOK, Monotone, Alone
<1>4. (Spent(r)' <=> Spent(r)) /\ (Promised(r)' <=> Promised(r)) /\ (Silenced(r)' <=> Silenced(r))
    BY <1>1, <1>2 DEF Spent, Promised, Silenced, Ends, Completes, Deletes, Asking
<1>5. CASE tasks' = tasks
    BY <1>2, <1>3, <1>4, <1>5, SameTable, UnseenStep
<1>6. CASE /\ OpenRow(req[r].task, req[r].user)
           /\ tasks' = tasks \ Matching(req[r].task, req[r].user)
    <2>1. UNCHANGED <<SpentIds, PromisedTasks, SilencedTasks, DoneTasks>>
        BY <1>2, <1>3, <1>4, FixedStep, SameViews, TablesView
    <2>2. TaskOf(r) \in OpenTasks /\ OpenTasks' = OpenTasks \ {TaskOf(r)}
        BY <1>6, OpenView
    <2>3. TaskOf(r) \in SilencedTasks
        BY <1>1 DEF SilencedTasks, Ends
    <2>4. TaskOf(r) \in Lifecycle!Task
        BY <1>1, TasksNamed DEF HandlerInv, Lifecycle!Task
    <2> QED BY <2>1, <2>2, <2>3, <2>4 DEF Implemented, Lifecycle!Next, Lifecycle!Drop
<1> QED BY <1>2, <1>5, <1>6

\* The archive completes a task whose reminders are silenced.
LEMMA ArchiveTaskCompletes ==
    ASSUME HandlerInv, FreshInv, NEW r \in Requests, ArchiveTask(r)
    PROVE  Implemented
<1>1. /\ Ends(r) /\ accepted[r] > 0 /\ req[r] # None /\ OwnEntity(r)
      /\ stage[r] = "ArchiveTask" /\ r \notin Asking("create")
    BY DEF ArchiveTask, HandlerInv, Knows, MemoryKnown, RemindersKnown, Ends, Completes, Asking
<1>2. PICK c : c = CompletedCopy(entity[r]) /\ <<c.id, c.owner>> = TaskOf(r)
    <2>1. /\ CompletedCopy(entity[r]).id = req[r].task
          /\ CompletedCopy(entity[r]).owner = req[r].user
        BY <1>1 DEF CompletedCopy, OwnEntity
    <2> QED BY <2>1 DEF TaskOf
<1>3. /\ UNCHANGED <<req, accepted>>
      /\ \/ /\ OpenRow(req[r].task, req[r].user)
            /\ tasks' = tasks \ Matching(req[r].task, req[r].user)
            /\ completed' = completed \cup {c}
         \/ tasks' = tasks /\ completed' = completed
    BY <1>2 DEF ArchiveTask, Execute, tables, queues, OpenRow
<1>4. Monotone /\ Alone(r)
    BY MaxAttemptsAssumption
        DEF ArchiveTask, Execute, GoTo, queues, HandlerInv, TypeOK, Monotone, Alone
<1>5. (Spent(r)' <=> Spent(r)) /\ (Promised(r)' <=> Promised(r)) /\ (Silenced(r)' <=> Silenced(r))
    BY <1>1, <1>3 DEF Spent, Promised, Silenced, Ends, Completes, Deletes, Asking
<1>6. CASE tasks' = tasks /\ completed' = completed
    BY <1>4, <1>5, <1>6, SameTable, UnseenStep
<1>7. CASE /\ OpenRow(req[r].task, req[r].user)
           /\ tasks' = tasks \ Matching(req[r].task, req[r].user)
           /\ completed' = completed \cup {c}
    <2>1. UNCHANGED <<SpentIds, PromisedTasks, SilencedTasks>>
        BY <1>4, <1>5, FixedStep, SameViews
    <2>2. TaskOf(r) \in OpenTasks /\ OpenTasks' = OpenTasks \ {TaskOf(r)}
        BY <1>7, OpenView
    <2>3. TaskOf(r) \in SilencedTasks
        BY <1>1 DEF SilencedTasks, Ends
    <2>4. DoneTasks' = DoneTasks \cup {TaskOf(r)}
        <3>1. DoneTasks' = {<<d.id, d.owner>> : d \in completed'}
            BY DEF DoneTasks
        <3> QED BY <1>2, <1>7, <3>1 DEF DoneTasks
    <2>5. TaskOf(r) \in Lifecycle!Task
        BY <1>1, TasksNamed DEF HandlerInv, Lifecycle!Task
    <2> QED BY <2>1, <2>2, <2>3, <2>4, <2>5 DEF Implemented, Lifecycle!Next, Lifecycle!Complete
<1> QED BY <1>3, <1>6, <1>7

\* The activation is the promise, if it is answered.
LEMMA UpdateTaskStatusPromises ==
    ASSUME HandlerInv, FreshInv, PrimaryKey', NEW r \in Requests, UpdateTaskStatus(r)
    PROVE  Implemented
<1> PICK t, u : t = req[r].task /\ u = req[r].user
    OBVIOUS
<1> DEFINE rows == Matching(t, u)
           activated == {[x EXCEPT !.status = "active"] : x \in rows}
<1>1. /\ stage[r] = "UpdateTaskStatus" /\ r \in Asking("create") /\ req[r] # None
      /\ entity[r].id = t
    BY DEF UpdateTaskStatus, HandlerInv, Knows, MemoryKnown, CreateCalls, OwnEntity, Asking
<1>2. /\ UNCHANGED <<req, accepted>> /\ completed' = completed
      /\ tasks' = tasks \/ tasks' = (tasks \ rows) \cup activated
      /\ stage'[r] = "failed" \/ (stage'[r] = "ok" /\ rows # {})
    BY <1>1 DEF UpdateTaskStatus, Execute, GoTo, tables, queues, HandlerInv, TypeOK
<1>3. Monotone /\ Alone(r)
    BY MaxAttemptsAssumption
        DEF UpdateTaskStatus, Execute, GoTo, queues, HandlerInv, TypeOK, Monotone, Alone
<1>4. \A y \in activated : y.id = t /\ y.owner = u
    <2> SUFFICES ASSUME NEW y \in activated PROVE y.id = t /\ y.owner = u
        OBVIOUS
    <2> PICK x \in rows : y = [x EXCEPT !.status = "active"]
        OBVIOUS
    <2>1. x \in Row /\ x.id = t /\ x.owner = u
        BY DEF Matching, HandlerInv, TypeOK
    <2> QED BY <2>1 DEF Row
<1>5. activated # {} <=> rows # {}
    OBVIOUS
<1>6. rows # {} => TaskOf(r) \in OpenTasks
    BY OpenView DEF OpenRow
<1> HIDE DEF activated, rows
<1>7. SameTasks
    BY <1>2, <1>4, <1>5, SameTable, OverwriteKeeps DEF rows, HandlerInv
<1>8. (Spent(r)' <=> Spent(r)) /\ (Silenced(r)' <=> Silenced(r))
    BY <1>1, <1>2 DEF Spent, Silenced, Ends, Completes, Deletes, Asking
<1>9. CASE stage'[r] = "failed"
    <2>1. Promised(r)' <=> Promised(r)
        BY <1>1, <1>9 DEF Promised
    <2> QED BY <1>3, <1>7, <1>8, <2>1, UnseenStep
<1>10. CASE stage'[r] = "ok" /\ rows # {}
    <2>1. Promised(r)'
        BY <1>1, <1>2, <1>10 DEF Promised, Asking
    <2>2. PromisedTasks' = PromisedTasks \cup {TaskOf(r)}
        BY <1>1, <1>3, <2>1, FixedStep, GrownViews
    <2>3. UNCHANGED <<SpentIds, OpenTasks, SilencedTasks, DoneTasks>>
        BY <1>2, <1>3, <1>7, <1>8, FixedStep, SameViews, TablesView
    <2>4. TaskOf(r) \in Lifecycle!Task
        BY <1>1, TasksNamed DEF HandlerInv, Lifecycle!Task
    <2> QED BY <1>6, <1>10, <2>2, <2>3, <2>4 DEF Implemented, Lifecycle!Next, Lifecycle!Promise
<1> QED BY <1>2, <1>9, <1>10

\* An update writes the same task, so it is not seen.
LEMMA UpdateTaskUnseen ==
    ASSUME HandlerInv, FreshInv, PrimaryKey', NEW r \in Requests, UpdateTask(r)
    PROVE  Implemented
<1> PICK t, u, e : t = req[r].task /\ u = req[r].user /\ e = entity[r]
    OBVIOUS
<1> DEFINE rows == Matching(t, u)
           written == {e : x \in rows}
<1>1. /\ stage[r] = "UpdateTask" /\ r \in Asking("update") /\ ~Completes(r)
      /\ e.id = t /\ e.owner = u
    BY DEF UpdateTask, HandlerInv, Knows, MemoryKnown, OwnEntity, FreshInv, UpdatesInv
<1>2. /\ UNCHANGED <<req, accepted>> /\ completed' = completed
      /\ tasks' = tasks \/ tasks' = (tasks \ rows) \cup written
    BY <1>1 DEF UpdateTask, Execute, tables, queues
<1>3. Monotone /\ Alone(r)
    BY MaxAttemptsAssumption
        DEF UpdateTask, Execute, GoTo, queues, HandlerInv, TypeOK, Monotone, Alone
<1>4. (\A y \in written : y = e) /\ (written # {} <=> rows # {})
    OBVIOUS
<1> HIDE DEF written, rows
<1>5. SameTasks
    BY <1>1, <1>2, <1>4, SameTable, OverwriteKeeps DEF rows, HandlerInv
<1>6. (Spent(r)' <=> Spent(r)) /\ (Promised(r)' <=> Promised(r)) /\ (Silenced(r)' <=> Silenced(r))
    BY <1>1, <1>2 DEF Spent, Promised, Silenced, Ends, Completes, Deletes, Asking
<1> QED BY <1>3, <1>5, <1>6, UnseenStep

(***************************************************************************)
(* The steps that begin and end handlers                                   *)
(***************************************************************************)

\* What a request asks for is not seen until it has called something.
LEMMA BeginUnseen ==
    ASSUME HandlerInv, FreshInv, NEW r \in Requests, Begin(r)
    PROVE  Implemented
<1>1. req[r] = None /\ accepted[r] = 0 /\ stage[r] = "idle"
    BY MaxAttemptsAssumption DEF Begin, BeginCreateTask, BeginUpdateTask, BeginDeleteTask,
        Refuse, HandlerInv, Knows, MemoryKnown, AttemptsKnown, TypeOK
<1>2. UNCHANGED <<tasks, completed, attempt, accepted>>
    BY DEF Begin, BeginCreateTask, BeginUpdateTask, BeginDeleteTask, Refuse, tables, queues
<1>3. Monotone /\ Alone(r)
    BY <1>1, <1>2, MaxAttemptsAssumption DEF Begin, BeginCreateTask, BeginUpdateTask,
        BeginDeleteTask, Refuse, GoTo, HandlerInv, TypeOK, Monotone, Alone
<1>4. ~Spent(r)' /\ ~Promised(r)'
    <2>1. CASE BeginCreateTask(r)
        <3>1. stage'[r] = "SaveTask"
            BY <2>1 DEF BeginCreateTask, GoTo, HandlerInv, TypeOK
        <3> QED BY <3>1 DEF Spent, Promised
    <2>2. CASE BeginUpdateTask(r) \/ BeginDeleteTask(r)
        <3>1. PICK q \in UpdateRequest \cup DeleteRequest : req' = [req EXCEPT ![r] = q]
            BY <2>2 DEF BeginUpdateTask, BeginDeleteTask
        <3>2. req'[r].op # "create"
            BY <3>1 DEF UpdateRequest, DeleteRequest, HandlerInv, TypeOK
        <3> QED BY <3>2 DEF Spent, Promised, Asking
    <2>3. CASE Refuse(r)
        BY <1>1, <2>3 DEF Refuse, Spent, Promised, Asking
    <2> QED BY <2>1, <2>2, <2>3 DEF Begin
<1>5. ~Spent(r) /\ ~Promised(r) /\ ~Silenced(r) /\ ~Silenced(r)'
    BY <1>1, <1>2 DEF Spent, Promised, Silenced, Asking
<1> QED BY <1>2, <1>3, <1>4, <1>5, SameTable, UnseenStep

\* A crash gives up the ids whose insert was pending.
LEMMA CrashGivesUp ==
    ASSUME HandlerInv, FreshInv, Crash
    PROVE  Implemented
<1> DEFINE Pending == {r \in Asking("create") : stage[r] = "SaveTask"}
           ids == {req[r].task : r \in Pending}
<1>1. UNCHANGED <<tasks, completed, req, accepted>> /\ Fixed
    BY DEF Crash, tables, queues, Fixed
<1>2. Pending \in SUBSET Requests /\ \A r \in Pending : req[r] # None
    BY DEF Asking
<1>3. \A r \in Requests : stage'[r] = IF stage[r] \in Calls THEN "aborted" ELSE stage[r]
    BY DEF Crash, InFlight
<1>4. \A r \in Requests : Spent(r)' <=> Spent(r) \/ r \in Pending
    BY <1>1, <1>3 DEF Spent, Asking, Calls
<1>5. \A r \in Requests : (Promised(r)' <=> Promised(r)) /\ (Silenced(r)' <=> Silenced(r))
    BY <1>1, <1>3 DEF Promised, Silenced, Ends, Completes, Deletes, Asking, Calls
<1>6. ids \in SUBSET TaskIds
    BY <1>2, TasksNamed DEF HandlerInv
<1>7. ids \cap SpentIds = {}
    BY DEF SpentIds, FreshInv, OneCreatePerId
<1> HIDE DEF Pending
<1>8. SpentIds' = SpentIds \cup ids
    BY <1>1, <1>2, <1>4, SpentView
<1> HIDE DEF ids
<1>9. PromisedTasks' = PromisedTasks \cup {TaskOf(s) : s \in {}}
    BY <1>1, <1>5, PromisedView
<1>10. SilencedTasks' = SilencedTasks \cup {TaskOf(s) : s \in {}}
    BY <1>1, <1>5, SilencedView
<1>11. UNCHANGED <<OpenTasks, DoneTasks>>
    BY <1>1, SameTable, TablesView
<1>12. Lifecycle!GiveUp(ids)
    BY <1>7, <1>8, <1>9, <1>10, <1>11 DEF Lifecycle!GiveUp
<1> QED BY <1>6, <1>12 DEF Implemented, Lifecycle!Next

\* A step that changes no table, no answer and no queue is not seen.
LEMMA IdleUnseen ==
    ASSUME UNCHANGED <<tasks, completed, stage, req, accepted>>
    PROVE  UNCHANGED views
<1>1. UNCHANGED <<SpentIds, PromisedTasks>>
    BY DEF SpentIds, PromisedTasks, Asking, TaskOf
<1>2. SilencedTasks' = SilencedTasks
    BY DEF SilencedTasks, Completes, Deletes, Asking, TaskOf
<1>3. UNCHANGED <<OpenTasks, DoneTasks>>
    BY DEF OpenTasks, DoneTasks
<1> QED BY <1>1, <1>2, <1>3 DEF views

LEMMA StepImplements ==
    HandlerInv /\ FreshInv /\ [Next]_vars => [Lifecycle!Next]_views
<1> SUFFICES ASSUME HandlerInv, FreshInv, [Next]_vars PROVE Implemented
    BY DEF Implemented
<1>1. PrimaryKey'
    BY PrimaryKeyStep DEF FreshInv, RowsInv
<1>2. ASSUME NEW r \in Requests, Begin(r) PROVE Implemented
    BY <1>2, BeginUnseen
<1>3. ASSUME NEW r \in Requests, Continue(r) PROVE Implemented
    BY <1>1, <1>3, SaveTaskOpens, RegisterRemindUnseen, RollbackTaskDrops,
        UpdateTaskStatusPromises, CancelRemindSilences, UpdateTaskUnseen,
        ArchiveTaskCompletes, DeleteTaskDrops DEF Continue
<1>4. ASSUME NEW r \in Requests, Disconnect(r) PROVE Implemented
    BY <1>4, IdleUnseen DEF Disconnect, tables, queues, Implemented
<1>5. ASSUME UNCHANGED vars PROVE Implemented
    BY <1>5, IdleUnseen DEF vars, Implemented
<1> QED BY <1>2, <1>3, <1>4, <1>5, CrashGivesUp DEF Next, Quiet

LEMMA InitImplements == Init => Lifecycle!Init
<1> SUFFICES ASSUME Init PROVE Lifecycle!Init
    OBVIOUS
<1>1. Asking("create") = {} /\ \A r \in Requests : ~Completes(r) /\ ~Deletes(r)
    BY DEF Init, Asking, Completes, Deletes
<1>2. SpentIds = {} /\ PromisedTasks = {} /\ SilencedTasks = {}
    BY <1>1 DEF SpentIds, PromisedTasks, SilencedTasks
<1>3. OpenTasks = {} /\ DoneTasks = {}
    BY DEF Init, OpenTasks, DoneTasks
<1> QED BY <1>2, <1>3 DEF Lifecycle!Init

\* The handlers, with their retries, lost answers, disconnected clients and
\* crashes, keep what TaskLifecycle promises about every task: it is used once,
\* ends once and for good, and never before its reminders were asked to be
\* cancelled, unless nobody was told that it exists (task.go, repository/*.go).
THEOREM HandlersImplementLifecycle ==
    ASSUME ~ClientsReuseIds
    PROVE  Spec => ImplementsLifecycle
<1>1. HandlerInv /\ FreshInv /\ [Next]_vars => [Lifecycle!Next]_views
    BY StepImplements
<1> QED BY <1>1, InitImplements, HandlersKnow, FreshIdsInvariant, PTL
        DEF Spec, ImplementsLifecycle, Lifecycle!Spec, Lifecycle!lifecycleVars, views

=============================================================================
