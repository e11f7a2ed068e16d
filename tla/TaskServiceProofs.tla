-------------------------- MODULE TaskServiceProofs --------------------------
(***************************************************************************)
(* Proofs about TaskService, for every set of requests, users and ids,     *)
(* every bound on the attempts, all operations and all faults: first for   *)
(* all clients, then for clients that do not reuse ids.                    *)
(***************************************************************************)
EXTENDS TaskInvariants, TLAPS

(***************************************************************************)
(* Fields of requests and entities                                         *)
(***************************************************************************)

\* What every request names.
LEMMA RequestFields ==
    ASSUME NEW q \in Request
    PROVE  /\ q.user \in Users /\ q.task \in TaskIds
           /\ q.op \in {"create", "update", "delete"}
           /\ q.op = "create" => q.devices \in BOOLEAN
           /\ q.op = "update" => q.status \in {"unset", "active", "completed"}
BY DEF Request, CreateRequest, UpdateRequest, DeleteRequest

\* An update applied to a row keeps its key, and completes it only if asked to.
LEMMA ApplyUpdateFields ==
    ASSUME NEW x \in Row, NEW q \in UpdateRequest, NEW r \in Requests
    PROVE  /\ ApplyUpdate(x, q, r) \in Entity
           /\ ApplyUpdate(x, q, r).id = x.id
           /\ ApplyUpdate(x, q, r).owner = x.owner
           /\ ApplyUpdate(x, q, r).status \in Status \cup {"completed"}
           /\ ApplyUpdate(x, q, r).status = "completed" <=> q.status = "completed"
           /\ ApplyUpdate(x, q, r).status = "active" =>
                  x.status = "active" \/ q.status = "active"
<1> DEFINE status == IF q.status = "unset" THEN x.status ELSE q.status
           content == IF q.edit THEN r ELSE x.content
<1>1. status \in Status \cup {"completed"} /\ content \in Requests
    BY DEF Row, UpdateRequest, Status
<1>2. ApplyUpdate(x, q, r) =
        [id |-> x.id, owner |-> x.owner, status |-> status, content |-> content]
    BY DEF ApplyUpdate
<1> HIDE DEF content
<1> QED BY <1>1, <1>2 DEF Row, Entity, UpdateRequest, Status

(***************************************************************************)
(* What a step of one request leaves to the others                         *)
(***************************************************************************)

\* Requests are not changed once they have begun, and what a queue has accepted
\* stays accepted.
Monotone ==
    \A s \in Requests : /\ req[s] # None => req'[s] = req[s]
                        /\ accepted[s] <= accepted'[s]

LEMMA BackedStable ==
    ASSUME TypeOK, TypeOK', Monotone, NEW t, NEW u, Backed(t, u)
    PROVE  Backed(t, u)'
<1> PICK s \in Requests :
        /\ req[s] # None
        /\ Concerns(s, t, u)
        /\ \/ s \in Asking("create") /\ (req[s].devices => accepted[s] > 0)
           \/ s \in Asking("update") /\ req[s].status = "active"
    BY DEF Backed
<1>1. /\ req'[s] = req[s] /\ accepted[s] <= accepted'[s]
      /\ accepted[s] \in Nat /\ accepted'[s] \in Nat
    BY MaxAttemptsAssumption DEF Monotone, TypeOK
<1> QED BY <1>1 DEF Backed, Asking, Concerns

\* A request that takes no part in a step knows what it knew.
LEMMA OthersKnow ==
    ASSUME TypeOK, TypeOK', Monotone, NEW r \in Requests, Knows(r),
           stage'[r] = stage[r], req'[r] = req[r], entity'[r] = entity[r],
           attempt'[r] = attempt[r], accepted'[r] = accepted[r]
    PROVE  Knows(r)'
<1>1. AttemptsKnown(r)'
    BY DEF Knows, AttemptsKnown
<1>2. MemoryKnown(r)'
    BY DEF Knows, MemoryKnown, OwnEntity, Asking, Completes, Deletes
<1>3. RemindersKnown(r)'
    BY BackedStable DEF Knows, RemindersKnown, Asking
<1> QED BY <1>1, <1>2, <1>3 DEF Knows

\* What stays true of the tables when a step does not touch them.
LEMMA TablesKeep ==
    ASSUME TypeOK, TypeOK', Monotone, CompletionCancelsReminders, ActiveIsBacked
    PROVE  /\ tasks' \subseteq tasks => ActiveIsBacked'
           /\ completed' \subseteq completed => CompletionCancelsReminders'
<1>1. ASSUME tasks' \subseteq tasks PROVE ActiveIsBacked'
    BY <1>1, BackedStable DEF ActiveIsBacked
<1>2. ASSUME completed' \subseteq completed PROVE CompletionCancelsReminders'
    <2> SUFFICES ASSUME NEW c \in completed'
                 PROVE  \E r \in Requests :
                           Completes(r)' /\ Concerns(r, c.id, c.owner)' /\ accepted'[r] > 0
        BY DEF CompletionCancelsReminders
    <2> PICK r \in Requests : Completes(r) /\ Concerns(r, c.id, c.owner) /\ accepted[r] > 0
        BY <1>2 DEF CompletionCancelsReminders
    <2>1. req'[r] = req[r] /\ accepted'[r] > 0
        BY MaxAttemptsAssumption DEF Monotone, TypeOK, Completes, Asking
    <2> QED BY <2>1 DEF Completes, Asking, Concerns
<1> QED BY <1>1, <1>2

(***************************************************************************)
(* The steps of a handler                                                  *)
(***************************************************************************)

\* The other requests stand still.
Alone(r) ==
    \A s \in Requests \ {r} :
        /\ stage'[s] = stage[s] /\ req'[s] = req[s] /\ entity'[s] = entity[s]
        /\ attempt'[s] = attempt[s] /\ accepted'[s] = accepted[s]

\* A step of request r that keeps types and what r knows keeps the invariant,
\* if it keeps what the tables say.
LEMMA RequestStep ==
    ASSUME HandlerInv, TypeOK', Monotone, NEW r \in Requests, Alone(r),
           AttemptsKnown(r)', MemoryKnown(r)', RemindersKnown(r)',
           ActiveIsBacked', CompletionCancelsReminders'
    PROVE  HandlerInv'
<1>1. ASSUME NEW s \in Requests \ {r} PROVE Knows(s)'
    BY OthersKnow DEF HandlerInv, Alone
<1> QED BY <1>1 DEF HandlerInv, Knows

\* A request begins: it is recorded, its entity is in memory, nothing is written.
LEMMA BeginStep ==
    ASSUME HandlerInv, NEW r \in Requests, stage[r] = "idle",
           NEW q \in Request, NEW e \in Entity \cup {None}, NEW s \in Calls,
           req' = [req EXCEPT ![r] = q], entity' = [entity EXCEPT ![r] = e],
           stage' = [stage EXCEPT ![r] = s], UNCHANGED <<tables, queues, gone>>
    PROVE  /\ TypeOK' /\ Monotone /\ Alone(r)
           /\ stage'[r] = s /\ req'[r] = q /\ entity'[r] = e
           /\ attempt'[r] = 0 /\ accepted'[r] = 0 /\ q # None
           /\ ActiveIsBacked' /\ CompletionCancelsReminders'
<1>1. /\ req[r] = None /\ attempt[r] = 0 /\ accepted[r] = 0
      /\ UNCHANGED <<tasks, completed, attempt, accepted, gone>>
    BY MaxAttemptsAssumption
        DEF tables, queues, HandlerInv, Knows, MemoryKnown, AttemptsKnown, TypeOK
<1>2. q # None
    BY NoneAssumption
<1>3. TypeOK'
    BY <1>1 DEF HandlerInv, TypeOK
<1>4. Monotone
    BY <1>1, MaxAttemptsAssumption DEF HandlerInv, TypeOK, Monotone
<1>5. Alone(r)
    BY <1>1 DEF Alone, HandlerInv, TypeOK
<1>6. ActiveIsBacked' /\ CompletionCancelsReminders'
    BY <1>1, <1>3, <1>4, TablesKeep DEF HandlerInv
<1>7. /\ stage'[r] = s /\ req'[r] = q /\ entity'[r] = e
      /\ attempt'[r] = 0 /\ accepted'[r] = 0
    BY <1>1 DEF HandlerInv, TypeOK
<1> QED BY <1>2, <1>3, <1>4, <1>5, <1>6, <1>7

LEMMA BeginCreateStep ==
    ASSUME HandlerInv, NEW r \in Requests, BeginCreateTask(r)
    PROVE  HandlerInv'
<1> DEFINE E(q) == [id |-> q.task, owner |-> q.user, status |-> "pending_reminders",
                    content |-> r]
<1> PICK q \in CreateRequest :
        req' = [req EXCEPT ![r] = q] /\ entity' = [entity EXCEPT ![r] = E(q)]
    BY DEF BeginCreateTask
<1>1. q \in Request /\ q.op = "create" /\ E(q) \in Entity
    BY DEF Request, CreateRequest, Entity, Status
<1>2. E(q) # None /\ E(q).id = q.task /\ E(q).owner = q.user
      /\ E(q).status = "pending_reminders"
    BY <1>1, NoneAssumption
<1> HIDE DEF E
<1>3. /\ TypeOK' /\ Monotone /\ Alone(r)
      /\ stage'[r] = "SaveTask" /\ req'[r] = q /\ entity'[r] = E(q)
      /\ attempt'[r] = 0 /\ accepted'[r] = 0 /\ q # None
      /\ ActiveIsBacked' /\ CompletionCancelsReminders'
    BY <1>1, BeginStep DEF BeginCreateTask, GoTo, Calls
<1>4. AttemptsKnown(r)' /\ RemindersKnown(r)'
    BY <1>3 DEF AttemptsKnown, RemindersKnown
<1>5. MemoryKnown(r)'
    BY <1>1, <1>2, <1>3 DEF MemoryKnown, CreateCalls, Asking, OwnEntity
<1> QED BY <1>3, <1>4, <1>5, RequestStep

LEMMA BeginUpdateStep ==
    ASSUME HandlerInv, NEW r \in Requests, BeginUpdateTask(r)
    PROVE  HandlerInv'
<1> PICK q \in UpdateRequest : \E x \in Matching(q.task, q.user) :
        /\ req' = [req EXCEPT ![r] = q]
        /\ entity' = [entity EXCEPT ![r] = ApplyUpdate(x, q, r)]
        /\ GoTo(r, AfterRead(ApplyUpdate(x, q, r)))
    BY DEF BeginUpdateTask
<1> PICK x \in Matching(q.task, q.user) :
        /\ req' = [req EXCEPT ![r] = q]
        /\ entity' = [entity EXCEPT ![r] = ApplyUpdate(x, q, r)]
        /\ GoTo(r, AfterRead(ApplyUpdate(x, q, r)))
    OBVIOUS
<1> DEFINE e == ApplyUpdate(x, q, r)
<1>1. q \in Request /\ q.op = "update"
    BY DEF Request, UpdateRequest
<1>2. x \in tasks /\ x \in Row /\ x.id = q.task /\ x.owner = q.user
    BY DEF Matching, HandlerInv, TypeOK
<1>3. /\ e \in Entity /\ e.id = q.task /\ e.owner = q.user
      /\ e.status \in Status \cup {"completed"}
      /\ e.status = "completed" <=> q.status = "completed"
      /\ e.status = "active" => x.status = "active" \/ q.status = "active"
    BY <1>2, ApplyUpdateFields
<1>4. e # None
    BY <1>3, NoneAssumption
<1> HIDE DEF e
<1> DEFINE s == AfterRead(e)
<1>5. /\ s \in Calls
      /\ \/ s = "CancelRemind" /\ e.status = "completed"
         \/ s = "UpdateTask" /\ e.status # "completed"
    BY DEF AfterRead, Calls
<1> HIDE DEF s
<1>6. /\ TypeOK' /\ Monotone /\ Alone(r)
      /\ stage'[r] = s /\ req'[r] = q /\ entity'[r] = e
      /\ attempt'[r] = 0 /\ accepted'[r] = 0 /\ q # None
      /\ ActiveIsBacked' /\ CompletionCancelsReminders'
    BY <1>1, <1>3, <1>5, BeginStep DEF BeginUpdateTask, GoTo, e, s
<1>7. AttemptsKnown(r)'
    BY <1>5, <1>6, MaxAttemptsAssumption DEF AttemptsKnown
<1>8. MemoryKnown(r)'
    BY <1>1, <1>3, <1>4, <1>5, <1>6
        DEF MemoryKnown, CreateCalls, Asking, OwnEntity, Completes, Calls
<1>9. RemindersKnown(r)'
    <2>1. CASE e.status = "active"
        <3>1. CASE q.status = "active"
            BY <1>1, <1>5, <1>6, <2>1, <3>1 DEF RemindersKnown, Backed, Concerns, Asking
        <3>2. CASE x.status = "active"
            BY <1>2, <1>5, <1>6, <2>1, <3>2, BackedStable
                DEF RemindersKnown, HandlerInv, ActiveIsBacked
        <3> QED BY <1>3, <2>1, <3>1, <3>2
    <2>2. CASE e.status # "active"
        BY <1>5, <1>6, <2>2 DEF RemindersKnown
    <2> QED BY <2>1, <2>2
<1> QED BY <1>6, <1>7, <1>8, <1>9, RequestStep

LEMMA BeginDeleteStep ==
    ASSUME HandlerInv, NEW r \in Requests, BeginDeleteTask(r)
    PROVE  HandlerInv'
<1> PICK q \in DeleteRequest : req' = [req EXCEPT ![r] = q]
    BY DEF BeginDeleteTask
<1>1. q \in Request /\ q.op = "delete"
    BY DEF Request, DeleteRequest
<1>2. entity[r] \in Entity \cup {None} /\ entity' = [entity EXCEPT ![r] = entity[r]]
    BY DEF BeginDeleteTask, HandlerInv, TypeOK
<1>3. /\ TypeOK' /\ Monotone /\ Alone(r)
      /\ stage'[r] = "CancelRemind" /\ req'[r] = q
      /\ attempt'[r] = 0 /\ accepted'[r] = 0 /\ q # None
      /\ ActiveIsBacked' /\ CompletionCancelsReminders'
    BY <1>1, <1>2, BeginStep DEF BeginDeleteTask, GoTo, Calls
<1>4. AttemptsKnown(r)' /\ RemindersKnown(r)'
    BY <1>3, MaxAttemptsAssumption DEF AttemptsKnown, RemindersKnown
<1>5. MemoryKnown(r)'
    BY <1>1, <1>3 DEF MemoryKnown, CreateCalls, Asking, Deletes
<1> QED BY <1>3, <1>4, <1>5, RequestStep

\* A database call: the handler goes on to one of two stages, the tables are as
\* before or as the statement says, and nothing else changes.
LEMMA ExecuteStep ==
    ASSUME HandlerInv, NEW r \in Requests, NEW applies \in BOOLEAN,
           NEW newTasks \in SUBSET Row, NEW newCompleted \in SUBSET CompletedRow,
           NEW s1 \in Calls \cup Answers, NEW s2 \in Calls \cup Answers,
           Execute(r, applies, newTasks, newCompleted, s1, s2),
           UNCHANGED <<req, entity, queues, gone>>
    PROVE  /\ TypeOK' /\ Monotone /\ Alone(r)
           /\ req'[r] = req[r] /\ entity'[r] = entity[r]
           /\ attempt'[r] = attempt[r] /\ accepted'[r] = accepted[r]
           /\ \/ stage'[r] \in {s1, s2} /\ applies
                 /\ tasks' = newTasks /\ completed' = newCompleted
              \/ stage'[r] = s2 /\ tasks' = tasks /\ completed' = completed
<1>1. TypeOK'
    BY DEF Execute, GoTo, tables, queues, HandlerInv, TypeOK
<1>2. Monotone
    BY MaxAttemptsAssumption DEF queues, HandlerInv, TypeOK, Monotone
<1>3. Alone(r)
    BY DEF Execute, GoTo, queues, HandlerInv, TypeOK, Alone
<1>4. /\ req'[r] = req[r] /\ entity'[r] = entity[r]
      /\ attempt'[r] = attempt[r] /\ accepted'[r] = accepted[r]
    BY DEF queues
<1>5. \/ stage'[r] \in {s1, s2} /\ applies
         /\ tasks' = newTasks /\ completed' = newCompleted
      \/ stage'[r] = s2 /\ tasks' = tasks /\ completed' = completed
    BY DEF Execute, GoTo, tables, HandlerInv, TypeOK
<1> QED BY <1>1, <1>2, <1>3, <1>4, <1>5

\* An attempt at a queue: the message may be accepted once more, and the handler
\* goes on, tries again while attempts are left, or gives up.
LEMMA EnqueueStep ==
    ASSUME HandlerInv, NEW r \in Requests, stage[r] \in {"RegisterRemind", "CancelRemind"},
           NEW s1 \in Calls \cup Answers, NEW s2 \in Calls \cup Answers,
           Enqueue(r, s1, s2), UNCHANGED <<tables, req, entity, gone>>
    PROVE  /\ TypeOK' /\ Monotone /\ Alone(r)
           /\ req'[r] = req[r] /\ entity'[r] = entity[r]
           /\ tasks' = tasks /\ completed' = completed
           /\ accepted'[r] <= attempt'[r]
           /\ \/ stage'[r] = s1 /\ accepted'[r] > 0
              \/ stage'[r] = stage[r] /\ attempt'[r] < MaxAttempts
              \/ stage'[r] = s2
<1>1. /\ accepted[r] \in Nat /\ attempt[r] \in Nat /\ accepted[r] <= attempt[r]
      /\ attempt[r] < MaxAttempts /\ MaxAttempts \in Nat
    BY MaxAttemptsAssumption DEF HandlerInv, TypeOK, Knows, AttemptsKnown
<1>2. /\ attempt' \in [Requests -> 0 .. MaxAttempts]
      /\ accepted' \in [Requests -> 0 .. MaxAttempts]
      /\ stage' \in [Requests -> {"idle"} \cup Calls \cup Answers]
    BY <1>1 DEF Enqueue, GoTo, queues, HandlerInv, TypeOK
<1>3. TypeOK'
    BY <1>2 DEF tables, HandlerInv, TypeOK
<1>4. Monotone
    BY <1>1, MaxAttemptsAssumption DEF Enqueue, queues, HandlerInv, TypeOK, Monotone
<1>5. Alone(r)
    BY DEF Enqueue, GoTo, queues, HandlerInv, TypeOK, Alone
<1>6. /\ accepted'[r] <= attempt'[r]
      /\ \/ stage'[r] = s1 /\ accepted'[r] > 0
         \/ stage'[r] = stage[r] /\ attempt'[r] < MaxAttempts
         \/ stage'[r] = s2
    BY <1>1 DEF Enqueue, GoTo, queues, HandlerInv, TypeOK
<1> QED BY <1>3, <1>4, <1>5, <1>6 DEF tables

LEMMA SaveTaskStep ==
    ASSUME HandlerInv, NEW r \in Requests, SaveTask(r)
    PROVE  HandlerInv'
<1> DEFINE applies == \A x \in tasks : x.id # entity[r].id
           s1 == AfterSave(req[r])
<1>1. /\ r \in Asking("create") /\ OwnEntity(r) /\ entity[r].status = "pending_reminders"
      /\ attempt[r] = 0 /\ accepted[r] = 0
    BY MaxAttemptsAssumption DEF SaveTask, HandlerInv, Knows, MemoryKnown, AttemptsKnown,
        CreateCalls, TypeOK
<1>2. entity[r] \in Row
    BY <1>1 DEF OwnEntity, HandlerInv, TypeOK, Entity, Row, Status
<1>3. /\ s1 \in {"RegisterRemind", "UpdateTaskStatus"}
      /\ s1 = "UpdateTaskStatus" => ~req[r].devices
    BY DEF AfterSave
<1>4. /\ tasks \cup {entity[r]} \in SUBSET Row /\ completed \in SUBSET CompletedRow
      /\ applies \in BOOLEAN /\ s1 \in Calls \cup Answers /\ "failed" \in Calls \cup Answers
    BY <1>2, <1>3 DEF HandlerInv, TypeOK, Calls, Answers
<1>5. /\ Execute(r, applies, tasks \cup {entity[r]}, completed, s1, "failed")
      /\ UNCHANGED <<req, entity, queues, gone>>
    BY DEF SaveTask
<1> HIDE DEF applies, s1
<1>6. /\ TypeOK' /\ Monotone /\ Alone(r)
      /\ req'[r] = req[r] /\ entity'[r] = entity[r]
      /\ attempt'[r] = 0 /\ accepted'[r] = 0
      /\ stage'[r] \in {s1, "failed"} /\ completed' = completed
      /\ tasks' = tasks \/ tasks' = tasks \cup {entity[r]}
    BY <1>1, <1>4, <1>5, ExecuteStep
<1>7. AttemptsKnown(r)'
    BY <1>3, <1>6, MaxAttemptsAssumption DEF AttemptsKnown
<1>8. MemoryKnown(r)'
    BY <1>1, <1>3, <1>6 DEF MemoryKnown, Asking, OwnEntity
<1>9. RemindersKnown(r)'
    BY <1>3, <1>6 DEF RemindersKnown
<1>10. CompletionCancelsReminders'
    BY <1>6, TablesKeep DEF HandlerInv
<1>11. ActiveIsBacked'
    BY <1>1, <1>6, BackedStable DEF HandlerInv, ActiveIsBacked
<1> QED BY <1>6, <1>7, <1>8, <1>9, <1>10, <1>11, RequestStep

LEMMA RegisterRemindStep ==
    ASSUME HandlerInv, NEW r \in Requests, RegisterRemind(r)
    PROVE  HandlerInv'
<1>1. /\ stage[r] = "RegisterRemind"
      /\ r \in Asking("create") /\ OwnEntity(r) /\ entity[r].status = "pending_reminders"
    BY DEF RegisterRemind, HandlerInv, Knows, MemoryKnown, CreateCalls
<1>2. /\ TypeOK' /\ Monotone /\ Alone(r)
      /\ req'[r] = req[r] /\ entity'[r] = entity[r]
      /\ tasks' = tasks /\ completed' = completed
      /\ accepted'[r] <= attempt'[r]
      /\ \/ stage'[r] = "UpdateTaskStatus" /\ accepted'[r] > 0
         \/ stage'[r] = stage[r] /\ attempt'[r] < MaxAttempts
         \/ stage'[r] = "Rollback"
    BY EnqueueStep DEF RegisterRemind, Calls
<1>3. AttemptsKnown(r)' /\ RemindersKnown(r)'
    BY <1>1, <1>2 DEF AttemptsKnown, RemindersKnown
<1>4. MemoryKnown(r)'
    BY <1>1, <1>2 DEF MemoryKnown, CreateCalls, Asking, OwnEntity
<1>5. ActiveIsBacked' /\ CompletionCancelsReminders'
    BY <1>2, TablesKeep DEF HandlerInv
<1> QED BY <1>2, <1>3, <1>4, <1>5, RequestStep

LEMMA CancelRemindStep ==
    ASSUME HandlerInv, NEW r \in Requests, CancelRemind(r)
    PROVE  HandlerInv'
<1>1. /\ stage[r] = "CancelRemind" /\ req[r] # None
      /\ Deletes(r) \/ (Completes(r) /\ OwnEntity(r))
    BY DEF CancelRemind, HandlerInv, Knows, MemoryKnown, Completes, Deletes, Asking
<1>2. \/ AfterCancel(req[r]) = "ArchiveTask" /\ Completes(r) /\ OwnEntity(r)
      \/ AfterCancel(req[r]) = "DeleteTask" /\ Deletes(r)
    BY <1>1 DEF AfterCancel, Completes, Deletes, Asking
<1>3. /\ TypeOK' /\ Monotone /\ Alone(r)
      /\ req'[r] = req[r] /\ entity'[r] = entity[r]
      /\ tasks' = tasks /\ completed' = completed
      /\ accepted'[r] <= attempt'[r]
      /\ \/ stage'[r] = AfterCancel(req[r]) /\ accepted'[r] > 0
         \/ stage'[r] = stage[r] /\ attempt'[r] < MaxAttempts
         \/ stage'[r] = "failed"
    <2>1. AfterCancel(req[r]) \in Calls \cup Answers /\ "failed" \in Calls \cup Answers
        BY DEF AfterCancel, Calls, Answers
    <2> QED BY <2>1, EnqueueStep DEF CancelRemind
<1>4. AttemptsKnown(r)' /\ RemindersKnown(r)'
    BY <1>1, <1>2, <1>3 DEF AttemptsKnown, RemindersKnown
<1>5. MemoryKnown(r)'
    BY <1>1, <1>2, <1>3 DEF MemoryKnown, CreateCalls, Asking, OwnEntity, Completes, Deletes
<1>6. ActiveIsBacked' /\ CompletionCancelsReminders'
    BY <1>3, TablesKeep DEF HandlerInv
<1> QED BY <1>3, <1>4, <1>5, <1>6, RequestStep

\* A handler that ends in an answer has nothing left to know.
LEMMA AnswerStep ==
    ASSUME HandlerInv, TypeOK', Monotone, NEW r \in Requests, Alone(r),
           req'[r] = req[r], attempt'[r] = attempt[r], accepted'[r] = accepted[r],
           stage'[r] \in Answers,
           stage'[r] = "ok" => stage[r] = "UpdateTaskStatus" \/ r \notin Asking("create"),
           ActiveIsBacked', CompletionCancelsReminders'
    PROVE  HandlerInv'
<1>1. AttemptsKnown(r)'
    BY DEF AttemptsKnown, HandlerInv, Knows, Answers
<1>2. MemoryKnown(r)'
    BY DEF MemoryKnown, Answers, CreateCalls
<1>3. RemindersKnown(r)'
    BY DEF RemindersKnown, Answers, HandlerInv, Knows, Asking
<1> QED BY <1>1, <1>2, <1>3, RequestStep

\* The rows a WHERE clause selects are rows of the table, and taking them out
\* leaves rows of the table.
LEMMA MatchingRows ==
    ASSUME TypeOK, NEW t, NEW u
    PROVE  /\ Matching(t, u) \in SUBSET tasks
           /\ tasks \ Matching(t, u) \in SUBSET Row
           /\ completed \in SUBSET CompletedRow
           /\ (Matching(t, u) # {}) \in BOOLEAN
BY DEF Matching, TypeOK

LEMMA RollbackTaskStep ==
    ASSUME HandlerInv, NEW r \in Requests, RollbackTask(r)
    PROVE  HandlerInv'
<1> DEFINE rows == Matching(entity[r].id, req[r].user)
           applies == rows # {}
<1>1. /\ rows \in SUBSET tasks /\ tasks \ rows \in SUBSET Row
      /\ completed \in SUBSET CompletedRow /\ applies \in BOOLEAN
    BY MatchingRows DEF HandlerInv
<1>2. /\ Execute(r, applies, tasks \ rows, completed, "failed", "failed")
      /\ UNCHANGED <<req, entity, queues, gone>>
    BY DEF RollbackTask
<1> HIDE DEF rows, applies
<1>3. /\ TypeOK' /\ Monotone /\ Alone(r)
      /\ req'[r] = req[r] /\ attempt'[r] = attempt[r] /\ accepted'[r] = accepted[r]
      /\ stage'[r] = "failed" /\ tasks' \subseteq tasks /\ completed' = completed
    BY <1>1, <1>2, ExecuteStep DEF Answers
<1> QED BY <1>3, TablesKeep, AnswerStep DEF HandlerInv, Answers

LEMMA DeleteTaskStep ==
    ASSUME HandlerInv, NEW r \in Requests, DeleteTask(r)
    PROVE  HandlerInv'
<1> DEFINE rows == Matching(req[r].task, req[r].user)
           applies == rows # {}
<1>1. /\ rows \in SUBSET tasks /\ tasks \ rows \in SUBSET Row
      /\ completed \in SUBSET CompletedRow /\ applies \in BOOLEAN
    BY MatchingRows DEF HandlerInv
<1>2. /\ Execute(r, applies, tasks \ rows, completed, "ok", "failed")
      /\ UNCHANGED <<req, entity, queues, gone>>
    BY DEF DeleteTask
<1>3. r \notin Asking("create")
    BY DEF DeleteTask, HandlerInv, Knows, MemoryKnown, Deletes, Asking
<1> HIDE DEF rows, applies
<1>4. /\ TypeOK' /\ Monotone /\ Alone(r)
      /\ req'[r] = req[r] /\ attempt'[r] = attempt[r] /\ accepted'[r] = accepted[r]
      /\ stage'[r] \in {"ok", "failed"} /\ tasks' \subseteq tasks /\ completed' = completed
    BY <1>1, <1>2, ExecuteStep DEF Answers
<1> QED BY <1>3, <1>4, TablesKeep, AnswerStep DEF HandlerInv, Answers

LEMMA UpdateTaskStatusStep ==
    ASSUME HandlerInv, NEW r \in Requests, UpdateTaskStatus(r)
    PROVE  HandlerInv'
<1> DEFINE rows == Matching(entity[r].id, req[r].user)
           activated == {[x EXCEPT !.status = "active"] : x \in rows}
           applies == rows # {}
<1>1. /\ stage[r] = "UpdateTaskStatus" /\ r \in Asking("create") /\ OwnEntity(r)
      /\ req[r].devices => accepted[r] > 0
    BY DEF UpdateTaskStatus, HandlerInv, Knows, MemoryKnown, RemindersKnown, CreateCalls
<1>2. /\ rows \in SUBSET tasks /\ tasks \ rows \in SUBSET Row
      /\ completed \in SUBSET CompletedRow /\ applies \in BOOLEAN
    BY MatchingRows DEF HandlerInv
<1>3. ASSUME NEW y \in activated
      PROVE  y \in Row /\ y.id = req[r].task /\ y.owner = req[r].user
    <2> PICK x \in rows : y = [x EXCEPT !.status = "active"]
        OBVIOUS
    <2>1. x \in Row /\ x.id = req[r].task /\ x.owner = req[r].user
        BY <1>1 DEF Matching, OwnEntity, HandlerInv, TypeOK
    <2> QED BY <2>1 DEF Row, Status
<1>4. /\ Execute(r, applies, (tasks \ rows) \cup activated, completed, "ok", "failed")
      /\ UNCHANGED <<req, entity, queues, gone>>
    BY DEF UpdateTaskStatus
<1>5. Backed(req[r].task, req[r].user)
    BY <1>1 DEF Backed, Concerns, Asking
<1> HIDE DEF rows, activated, applies
<1>6. (tasks \ rows) \cup activated \in SUBSET Row
    BY <1>2, <1>3
<1>7. /\ TypeOK' /\ Monotone /\ Alone(r)
      /\ req'[r] = req[r] /\ attempt'[r] = attempt[r] /\ accepted'[r] = accepted[r]
      /\ stage'[r] \in {"ok", "failed"} /\ completed' = completed
      /\ tasks' = tasks \/ tasks' = (tasks \ rows) \cup activated
    BY <1>2, <1>4, <1>6, ExecuteStep DEF Answers
<1>8. ActiveIsBacked'
    BY <1>3, <1>5, <1>7, BackedStable DEF HandlerInv, ActiveIsBacked
<1> QED BY <1>1, <1>7, <1>8, TablesKeep, AnswerStep DEF HandlerInv, Answers

LEMMA UpdateTaskStep ==
    ASSUME HandlerInv, NEW r \in Requests, UpdateTask(r)
    PROVE  HandlerInv'
<1> DEFINE rows == Matching(entity[r].id, entity[r].owner)
           written == {entity[r] : x \in rows}
           applies == rows # {}
<1>1. /\ stage[r] = "UpdateTask" /\ r \in Asking("update") /\ OwnEntity(r)
      /\ entity[r].status \in Status
      /\ entity[r].status = "active" => Backed(req[r].task, req[r].user)
    BY DEF UpdateTask, HandlerInv, Knows, MemoryKnown, RemindersKnown
<1>2. /\ rows \in SUBSET tasks /\ tasks \ rows \in SUBSET Row
      /\ completed \in SUBSET CompletedRow /\ applies \in BOOLEAN
    BY MatchingRows DEF HandlerInv
<1>3. entity[r] \in Row
    BY <1>1 DEF OwnEntity, HandlerInv, TypeOK, Entity, Row
<1>4. /\ Execute(r, applies, (tasks \ rows) \cup written, completed, "ok", "failed")
      /\ UNCHANGED <<req, entity, queues, gone>>
    BY DEF UpdateTask
<1>5. \A y \in written : y = entity[r]
    OBVIOUS
<1> HIDE DEF rows, written, applies
<1>6. (tasks \ rows) \cup written \in SUBSET Row
    BY <1>2, <1>3, <1>5
<1>7. /\ TypeOK' /\ Monotone /\ Alone(r)
      /\ req'[r] = req[r] /\ attempt'[r] = attempt[r] /\ accepted'[r] = accepted[r]
      /\ stage'[r] \in {"ok", "failed"} /\ completed' = completed
      /\ tasks' = tasks \/ tasks' = (tasks \ rows) \cup written
    BY <1>2, <1>4, <1>6, ExecuteStep DEF Answers
<1>8. ActiveIsBacked'
    BY <1>1, <1>5, <1>7, BackedStable DEF HandlerInv, ActiveIsBacked, OwnEntity
<1>9. r \notin Asking("create")
    BY <1>1 DEF Asking
<1> QED BY <1>7, <1>8, <1>9, TablesKeep, AnswerStep DEF HandlerInv, Answers

LEMMA ArchiveTaskStep ==
    ASSUME HandlerInv, NEW r \in Requests, ArchiveTask(r)
    PROVE  HandlerInv'
<1> DEFINE rows == Matching(req[r].task, req[r].user)
           applies == rows # {} /\ \A c \in completed : c.id # entity[r].id
<1>1. /\ stage[r] = "ArchiveTask" /\ Completes(r) /\ OwnEntity(r) /\ accepted[r] > 0
    BY DEF ArchiveTask, HandlerInv, Knows, MemoryKnown, RemindersKnown
<1>2. /\ rows \in SUBSET tasks /\ tasks \ rows \in SUBSET Row
      /\ applies \in BOOLEAN
    BY MatchingRows DEF HandlerInv
<1>3. PICK copy \in CompletedRow : /\ copy = CompletedCopy(entity[r])
                                  /\ copy.id = req[r].task /\ copy.owner = req[r].user
    <2>1. entity[r] \in Entity /\ entity[r].id = req[r].task /\ entity[r].owner = req[r].user
        BY <1>1 DEF OwnEntity, HandlerInv, TypeOK
    <2>2. CompletedCopy(entity[r]) \in CompletedRow
        BY <2>1 DEF Entity, CompletedCopy, CompletedRow
    <2>3. CompletedCopy(entity[r]).id = req[r].task /\ CompletedCopy(entity[r]).owner = req[r].user
        BY <2>1 DEF CompletedCopy
    <2> QED BY <2>2, <2>3
<1>4. /\ Execute(r, applies, tasks \ rows, completed \cup {copy}, "ok", "failed")
      /\ UNCHANGED <<req, entity, queues, gone>>
    BY <1>3 DEF ArchiveTask
<1> HIDE DEF rows, applies
<1>5. completed \cup {copy} \in SUBSET CompletedRow
    BY <1>3 DEF HandlerInv, TypeOK
<1>6. /\ TypeOK' /\ Monotone /\ Alone(r)
      /\ req'[r] = req[r] /\ attempt'[r] = attempt[r] /\ accepted'[r] = accepted[r]
      /\ stage'[r] \in {"ok", "failed"} /\ tasks' \subseteq tasks
      /\ completed' = completed \/ completed' = completed \cup {copy}
    BY <1>2, <1>4, <1>5, ExecuteStep DEF Answers
<1>7. Completes(r)' /\ accepted'[r] > 0 /\ Concerns(r, copy.id, copy.owner)'
    BY <1>1, <1>3, <1>6 DEF Completes, Asking, Concerns
<1>8. CompletionCancelsReminders'
    <2>1. ASSUME completed' = completed PROVE CompletionCancelsReminders'
        BY <1>6, <2>1, TablesKeep DEF HandlerInv
    <2>2. ASSUME completed' = completed \cup {copy} PROVE CompletionCancelsReminders'
        <3> SUFFICES ASSUME NEW c \in completed'
                     PROVE  \E s \in Requests :
                               /\ Completes(s)' /\ Concerns(s, c.id, c.owner)'
                               /\ accepted'[s] > 0
            BY DEF CompletionCancelsReminders
        <3>1. CASE c = copy
            BY <1>7, <3>1
        <3>2. CASE c \in completed
            <4> PICK s \in Requests : /\ Completes(s) /\ Concerns(s, c.id, c.owner)
                                      /\ accepted[s] > 0
                BY <3>2 DEF HandlerInv, CompletionCancelsReminders
            <4>1. req'[s] = req[s] /\ accepted'[s] > 0
                BY <1>6, MaxAttemptsAssumption
                    DEF HandlerInv, Monotone, TypeOK, Completes, Asking
            <4> QED BY <4>1 DEF Completes, Asking, Concerns
        <3> QED BY <2>2, <3>1, <3>2
    <2> QED BY <1>6, <2>1, <2>2
<1>9. ActiveIsBacked'
    BY <1>6, TablesKeep DEF HandlerInv
<1>10. r \notin Asking("create")
    BY <1>1 DEF Completes, Asking
<1> QED BY <1>6, <1>8, <1>9, <1>10, AnswerStep DEF Answers

LEMMA RefuseStep ==
    ASSUME HandlerInv, NEW r \in Requests, Refuse(r)
    PROVE  HandlerInv'
<1>1. /\ stage[r] = "idle" /\ req[r] = None /\ stage'[r] = "failed"
      /\ UNCHANGED <<tasks, completed, req, entity, attempt, accepted, gone>>
    BY DEF Refuse, GoTo, tables, queues, HandlerInv, TypeOK, Knows, MemoryKnown
<1>2. TypeOK'
    BY <1>1 DEF Refuse, GoTo, HandlerInv, TypeOK, Answers
<1>3. Monotone
    BY <1>1, MaxAttemptsAssumption DEF Monotone, HandlerInv, TypeOK
<1>4. Alone(r)
    BY <1>1 DEF Refuse, GoTo, Alone, HandlerInv, TypeOK
<1> QED BY <1>1, <1>2, <1>3, <1>4, TablesKeep, AnswerStep DEF HandlerInv, Answers

\* A step that at most ends the requests in flight: they have nothing left to know.
LEMMA AbortStep ==
    ASSUME HandlerInv, UNCHANGED <<tasks, completed, req, entity, attempt, accepted>>,
           gone' \subseteq Requests,
           stage' \in [Requests -> {"idle"} \cup Calls \cup Answers],
           \A r \in Requests : stage'[r] = stage[r] \/ stage'[r] = "aborted"
    PROVE  HandlerInv'
<1>1. TypeOK'
    BY DEF HandlerInv, TypeOK
<1>2. Monotone
    BY MaxAttemptsAssumption DEF Monotone, HandlerInv, TypeOK
<1>3. ASSUME NEW r \in Requests PROVE Knows(r)'
    <2>1. CASE stage'[r] = stage[r]
        BY <1>1, <1>2, <2>1, OthersKnow DEF HandlerInv
    <2>2. CASE stage'[r] = "aborted"
        <3>1. AttemptsKnown(r)'
            BY <2>2 DEF HandlerInv, Knows, AttemptsKnown
        <3>2. MemoryKnown(r)' /\ RemindersKnown(r)'
            BY <2>2 DEF MemoryKnown, RemindersKnown, CreateCalls
        <3> QED BY <3>1, <3>2 DEF Knows
    <2> QED BY <2>1, <2>2
<1> QED BY <1>1, <1>2, <1>3, TablesKeep DEF HandlerInv

LEMMA InitStep == Init => HandlerInv
<1> SUFFICES ASSUME Init PROVE HandlerInv
    OBVIOUS
<1>1. TypeOK
    BY MaxAttemptsAssumption DEF Init, TypeOK
<1>2. ASSUME NEW r \in Requests PROVE Knows(r)
    <2>1. /\ stage[r] = "idle" /\ req[r] = None /\ attempt[r] = 0 /\ accepted[r] = 0
        BY DEF Init
    <2>2. AttemptsKnown(r)
        BY <2>1 DEF AttemptsKnown
    <2>3. MemoryKnown(r) /\ RemindersKnown(r)
        BY <2>1 DEF MemoryKnown, RemindersKnown, CreateCalls
    <2> QED BY <2>2, <2>3 DEF Knows
<1>3. CompletionCancelsReminders /\ ActiveIsBacked
    BY DEF Init, CompletionCancelsReminders, ActiveIsBacked
<1> QED BY <1>1, <1>2, <1>3 DEF HandlerInv

LEMMA NextStep == HandlerInv /\ [Next]_vars => HandlerInv'
<1> SUFFICES ASSUME HandlerInv, [Next]_vars PROVE HandlerInv'
    OBVIOUS
<1>1. ASSUME NEW r \in Requests, Begin(r) PROVE HandlerInv'
    BY <1>1, BeginCreateStep, BeginUpdateStep, BeginDeleteStep, RefuseStep DEF Begin
<1>2. ASSUME NEW r \in Requests, Continue(r) PROVE HandlerInv'
    BY <1>2, SaveTaskStep, RegisterRemindStep, RollbackTaskStep, UpdateTaskStatusStep,
        CancelRemindStep, UpdateTaskStep, ArchiveTaskStep, DeleteTaskStep DEF Continue
<1>3. ASSUME NEW r \in Requests, Disconnect(r) PROVE HandlerInv'
    <2>1. /\ UNCHANGED <<tasks, completed, stage, req, entity, attempt, accepted>>
          /\ gone' \subseteq Requests
        BY <1>3 DEF Disconnect, InFlight, tables, queues, HandlerInv, TypeOK
    <2> QED BY <2>1, AbortStep DEF HandlerInv, TypeOK
<1>4. ASSUME Crash PROVE HandlerInv'
    <2>1. /\ UNCHANGED <<tasks, completed, req, entity, attempt, accepted, gone>>
          /\ \A r \in Requests : stage'[r] = stage[r] \/ stage'[r] = "aborted"
        BY <1>4 DEF Crash, tables, queues
    <2>2. stage' \in [Requests -> {"idle"} \cup Calls \cup Answers]
        BY <1>4 DEF Crash, Answers, HandlerInv, TypeOK
    <2> QED BY <2>1, <2>2, AbortStep DEF HandlerInv, TypeOK
<1>5. ASSUME UNCHANGED vars PROVE HandlerInv'
    <2>1. UNCHANGED <<tasks, completed, stage, req, entity, attempt, accepted, gone>>
        BY <1>5 DEF vars
    <2> QED BY <2>1, AbortStep DEF HandlerInv, TypeOK
<1> QED BY <1>1, <1>2, <1>3, <1>4, <1>5 DEF Next, Quiet

-----------------------------------------------------------------------------
(***************************************************************************)
(* The theorems                                                            *)
(***************************************************************************)

\* What each handler knows at each of its calls is invariant, with any number of
\* requests, users and ids, whatever fails (task.go:71-263, 571-692, 785-853).
THEOREM HandlersKnow == Spec => []HandlerInv
<1> QED BY InitStep, NextStep, PTL DEF Spec

\* The tables, the requests and the retry counters keep their types: in
\* particular no row of tasks is ever "completed" and no retry loop passes its
\* bound.
THEOREM TypeCorrect == Spec => []TypeOK
<1>1. HandlerInv => TypeOK
    BY DEF HandlerInv
<1> QED BY <1>1, HandlersKnow, PTL

\* Every row of completed_tasks was asked for by its owner, and the queue had
\* accepted the cancellation of its reminders (task.go:642-668).
THEOREM CompletionIsCancelled == Spec => []CompletionCancelsReminders
<1>1. HandlerInv => CompletionCancelsReminders
    BY DEF HandlerInv
<1> QED BY <1>1, HandlersKnow, PTL

\* Every active row has its reminders registered, needed none, or was set
\* active by its owner, stale writes included (task.go:225-248, 616-672).
THEOREM ActiveTasksAreBacked == Spec => []ActiveIsBacked
<1>1. HandlerInv => ActiveIsBacked
    BY DEF HandlerInv
<1> QED BY <1>1, HandlersKnow, PTL

(***************************************************************************)
(* Whose rows a step writes                                                *)
(***************************************************************************)

\* Request r inserts a row under an id that no row has.
Inserts(r) ==
    \E x \in Row : (\A y \in tasks : y.id # x.id) /\ tasks' = tasks \cup {x}

\* Request r writes over or deletes the rows of its own task.
Replaces(r) ==
    /\ r \in InFlight /\ stage'[r] # stage[r]
    /\ \E W \in SUBSET Row :
          /\ tasks' = (tasks \ Matching(req[r].task, req[r].user)) \cup W
          /\ \A y \in W : /\ y.id = req[r].task /\ y.owner = req[r].user
                          /\ Matching(req[r].task, req[r].user) # {}
          /\ PrimaryKey => \A y, z \in W : y = z

\* A database call changes the table or leaves it.
LEMMA ExecuteWrites ==
    ASSUME HandlerInv, NEW r \in Requests, NEW applies, NEW newTasks, NEW newCompleted,
           NEW s1, NEW s2, Execute(r, applies, newTasks, newCompleted, s1, s2)
    PROVE  \/ tasks' = tasks
           \/ applies /\ tasks' = newTasks /\ stage'[r] \in {s1, s2}
BY DEF Execute, GoTo, tables, HandlerInv, TypeOK

\* Every step leaves the table tasks alone, inserts a row, or replaces rows of
\* the task and the user its request names.
LEMMA StepWrites ==
    ASSUME HandlerInv, [Next]_vars
    PROVE  tasks' = tasks \/ \E r \in Requests : Inserts(r) \/ Replaces(r)
<1>1. ASSUME NEW r \in Requests, SaveTask(r) PROVE tasks' = tasks \/ Inserts(r)
    <2>1. entity[r] \in Row
        BY <1>1 DEF SaveTask, HandlerInv, Knows, MemoryKnown, CreateCalls, OwnEntity,
            TypeOK, Entity, Row, Status
    <2>2. \/ tasks' = tasks
          \/ (\A x \in tasks : x.id # entity[r].id) /\ tasks' = tasks \cup {entity[r]}
        BY <1>1 DEF SaveTask, Execute, tables
    <2> QED BY <2>1, <2>2 DEF Inserts
<1>2. ASSUME NEW r \in Requests, RollbackTask(r) \/ DeleteTask(r) \/ ArchiveTask(r)
      PROVE  tasks' = tasks \/ Replaces(r)
    <2>1. r \in InFlight /\ (stage[r] = "Rollback" => entity[r].id = req[r].task)
        BY <1>2 DEF RollbackTask, DeleteTask, ArchiveTask, InFlight, Calls, HandlerInv,
            Knows, MemoryKnown, CreateCalls, OwnEntity
    <2>2. \/ tasks' = tasks
          \/ /\ tasks' = tasks \ Matching(req[r].task, req[r].user)
             /\ stage'[r] # stage[r]
        BY <1>2, <2>1 DEF RollbackTask, DeleteTask, ArchiveTask, Execute, GoTo, tables,
            HandlerInv, TypeOK
    <2>3. PICK W \in SUBSET Row : W = {}
        OBVIOUS
    <2>4. tasks \ Matching(req[r].task, req[r].user)
            = (tasks \ Matching(req[r].task, req[r].user)) \cup W
        BY <2>3
    <2>5. CASE tasks' = tasks \ Matching(req[r].task, req[r].user) /\ stage'[r] # stage[r]
        BY <2>1, <2>3, <2>4, <2>5 DEF Replaces
    <2> QED BY <2>2, <2>5
<1>3. ASSUME NEW r \in Requests, UpdateTask(r) PROVE tasks' = tasks \/ Replaces(r)
    <2>1. /\ r \in InFlight /\ stage[r] = "UpdateTask"
          /\ entity[r].id = req[r].task /\ entity[r].owner = req[r].user
        BY <1>3 DEF UpdateTask, InFlight, Calls, HandlerInv, Knows, MemoryKnown, OwnEntity
    <2>2. entity[r] \in Row
        BY <2>1 DEF HandlerInv, Knows, MemoryKnown, OwnEntity, TypeOK, Entity, Row
    <2> DEFINE W == {entity[r] : x \in Matching(req[r].task, req[r].user)}
    <2>3. \/ tasks' = tasks
          \/ /\ tasks' = (tasks \ Matching(req[r].task, req[r].user)) \cup W
             /\ stage'[r] # stage[r]
        BY <1>3, <2>1 DEF UpdateTask, Execute, GoTo, tables, HandlerInv, TypeOK
    <2>4. /\ W \in SUBSET Row /\ \A y, z \in W : y = z
          /\ \A y \in W : /\ y.id = req[r].task /\ y.owner = req[r].user
                          /\ Matching(req[r].task, req[r].user) # {}
        BY <2>1, <2>2
    <2> HIDE DEF W
    <2> QED BY <2>1, <2>3, <2>4 DEF Replaces
<1>4. ASSUME NEW r \in Requests, UpdateTaskStatus(r) PROVE tasks' = tasks \/ Replaces(r)
    <2>1. /\ r \in InFlight /\ stage[r] = "UpdateTaskStatus" /\ entity[r].id = req[r].task
        BY <1>4 DEF UpdateTaskStatus, InFlight, Calls, HandlerInv, Knows, MemoryKnown,
            CreateCalls, OwnEntity
    <2> DEFINE A(x) == [x EXCEPT !.status = "active"]
               W == {A(x) : x \in Matching(req[r].task, req[r].user)}
    <2>2. \/ tasks' = tasks
          \/ /\ tasks' = (tasks \ Matching(req[r].task, req[r].user)) \cup W
             /\ stage'[r] # stage[r]
        BY <1>4, <2>1 DEF UpdateTaskStatus, Execute, GoTo, tables, HandlerInv, TypeOK
    <2>3. ASSUME NEW x \in Matching(req[r].task, req[r].user)
          PROVE  A(x) \in Row /\ A(x).id = req[r].task /\ A(x).owner = req[r].user
        <3>1. x \in Row /\ x.id = req[r].task /\ x.owner = req[r].user
            BY DEF Matching, HandlerInv, TypeOK
        <3> QED BY <3>1 DEF Row, Status
    <2>4. ASSUME PrimaryKey, NEW y \in W, NEW z \in W PROVE y = z
        BY <2>4 DEF PrimaryKey, Matching
    <2> HIDE DEF A
    <2>5. W \in SUBSET Row /\ \A y \in W : /\ y.id = req[r].task /\ y.owner = req[r].user
                                           /\ Matching(req[r].task, req[r].user) # {}
        BY <2>3
    <2> HIDE DEF W
    <2> QED BY <2>1, <2>2, <2>4, <2>5 DEF Replaces
<1>5. ASSUME NEW r \in Requests, RegisterRemind(r) \/ CancelRemind(r) PROVE tasks' = tasks
    BY <1>5 DEF RegisterRemind, CancelRemind, tables
<1>6. ASSUME NEW r \in Requests, Begin(r) \/ Disconnect(r) PROVE tasks' = tasks
    BY <1>6 DEF Begin, BeginCreateTask, BeginUpdateTask, BeginDeleteTask, Refuse,
        Disconnect, tables
<1>7. ASSUME Crash \/ UNCHANGED vars PROVE tasks' = tasks
    BY <1>7 DEF Crash, vars, tables
<1> QED BY <1>1, <1>2, <1>3, <1>4, <1>5, <1>6, <1>7 DEF Next, Continue, Quiet

\* No step makes two rows with one id: inserts are refused, updates keep the key.
LEMMA PrimaryKeyStep == HandlerInv /\ PrimaryKey /\ [Next]_vars => PrimaryKey'
<1> SUFFICES ASSUME HandlerInv, PrimaryKey, [Next]_vars PROVE PrimaryKey'
    OBVIOUS
<1>1. ASSUME NEW r \in Requests, Inserts(r) PROVE PrimaryKey'
    BY <1>1 DEF Inserts, PrimaryKey
<1>2. ASSUME NEW r \in Requests, Replaces(r) PROVE PrimaryKey'
    BY <1>2 DEF Replaces, PrimaryKey, Matching, HandlerInv, TypeOK
<1> QED BY <1>1, <1>2, StepWrites DEF PrimaryKey

LEMMA OwnerStep ==
    ASSUME HandlerInv, PrimaryKey, [Next]_vars, NEW x \in tasks, x \notin tasks'
    PROVE  /\ \E r \in InFlight : stage'[r] # stage[r] /\ Concerns(r, x.id, x.owner)
           /\ \A y \in tasks' : y.id = x.id => y.owner = x.owner
<1>1. PICK r \in Requests : Replaces(r)
    BY StepWrites DEF Inserts
<1>2. r \in InFlight /\ stage'[r] # stage[r]
    BY <1>1 DEF Replaces
<1>3. x.id = req[r].task /\ x.owner = req[r].user
    BY <1>1 DEF Replaces, Matching
<1>4. \A y \in tasks' : y.id = x.id => y.owner = x.owner
    BY <1>1, <1>3 DEF Replaces, PrimaryKey
<1> QED BY <1>2, <1>3, <1>4 DEF Concerns

\* The user id in every WHERE clause keeps tenants apart: a row changes or
\* disappears only by a call of a request of its owner that names it, and no row
\* of another user takes over its id (infra/repository/task.go:164-240).
THEOREM OwnersOnly == Spec => OnlyOwnersChangeRows
<1>1. Init => PrimaryKey
    BY DEF Init, PrimaryKey
<1>2. HandlerInv /\ HandlerInv' /\ PrimaryKey /\ [Next]_vars => PrimaryKey'
    BY PrimaryKeyStep
<1>3. HandlerInv /\ PrimaryKey /\ [Next]_vars
        => [\A x \in tasks : x \notin tasks' =>
              /\ \E r \in InFlight : stage'[r] # stage[r] /\ Concerns(r, x.id, x.owner)
              /\ \A y \in tasks' : y.id = x.id => y.owner = x.owner]_vars
    BY OwnerStep
<1> QED BY <1>1, <1>2, <1>3, HandlersKnow, PTL DEF Spec, OnlyOwnersChangeRows

(***************************************************************************)
(* Tasks that wait in pending_reminders                                    *)
(***************************************************************************)

\* Whatever the handlers do, requests and accepted messages stay what they are.
LEMMA StepMonotone == HandlerInv /\ [Next]_vars => Monotone
<1> SUFFICES ASSUME HandlerInv, [Next]_vars PROVE Monotone
    OBVIOUS
<1>1. ASSUME NEW r \in Requests, Begin(r) PROVE Monotone
    <2>1. req[r] = None
        BY <1>1 DEF Begin, BeginCreateTask, BeginUpdateTask, BeginDeleteTask, Refuse,
            HandlerInv, Knows, MemoryKnown
    <2>2. accepted' = accepted
        BY <1>1 DEF Begin, BeginCreateTask, BeginUpdateTask, BeginDeleteTask, Refuse, queues
    <2>3. \A s \in Requests \ {r} : req'[s] = req[s]
        BY <1>1 DEF Begin, BeginCreateTask, BeginUpdateTask, BeginDeleteTask, Refuse,
            HandlerInv, TypeOK
    <2> QED BY <2>1, <2>2, <2>3, MaxAttemptsAssumption DEF Monotone, HandlerInv, TypeOK
<1>2. ASSUME NEW r \in Requests, RegisterRemind(r) \/ CancelRemind(r) PROVE Monotone
    <2>1. req' = req /\ \/ accepted' = accepted
                        \/ accepted' = [accepted EXCEPT ![r] = @ + 1]
        BY <1>2 DEF RegisterRemind, CancelRemind, Enqueue, queues
    <2> QED BY <2>1, MaxAttemptsAssumption DEF Monotone, HandlerInv, TypeOK
<1>3. ASSUME UNCHANGED <<req, accepted>> PROVE Monotone
    BY <1>3, MaxAttemptsAssumption DEF Monotone, HandlerInv, TypeOK
<1>4. ASSUME NEW r \in Requests, Continue(r) PROVE Monotone
    BY <1>2, <1>3, <1>4 DEF Continue, SaveTask, RollbackTask, UpdateTaskStatus, UpdateTask,
        ArchiveTask, DeleteTask, queues
<1>5. ASSUME NEW r \in Requests, Disconnect(r) PROVE Monotone
    BY <1>3, <1>5 DEF Disconnect, queues
<1>6. ASSUME Crash \/ UNCHANGED vars PROVE Monotone
    BY <1>3, <1>6 DEF Crash, vars, queues
<1> QED BY <1>1, <1>4, <1>5, <1>6 DEF Next, Quiet

\* What explains that task t of user u is pending.
Explained(t, u) ==
    \/ \E r \in Asking("create") : Concerns(r, t, u) /\ stage[r] # "ok"
    \/ \E r \in Asking("update") : Concerns(r, t, u) /\ req[r].status = "unset"

\* An explanation lasts until the creation it names is answered with success.
LEMMA ExplainedStays ==
    ASSUME Monotone, NEW t, NEW u, Explained(t, u),
           \A s \in Asking("create") : Concerns(s, t, u) /\ stage'[s] = "ok" => stage[s] = "ok"
    PROVE  Explained(t, u)'
BY DEF Explained, Monotone, Asking, Concerns

\* Only the activation answers a creation with success.
LEMMA OnlyActivationSucceeds ==
    ASSUME HandlerInv, [Next]_vars, NEW s \in Asking("create"), stage'[s] = "ok", stage[s] # "ok"
    PROVE  UpdateTaskStatus(s)
<1>1. s \in Requests /\ req[s] # None
    BY DEF Asking
<1>2. ASSUME NEW r \in Requests, Begin(r) PROVE FALSE
    <2>1. stage[r] = "idle" /\ req[r] = None
        BY <1>2 DEF Begin, BeginCreateTask, BeginUpdateTask, BeginDeleteTask, Refuse,
            HandlerInv, Knows, MemoryKnown
    <2>2. stage'[s] = stage[s]
        BY <1>1, <1>2, <2>1 DEF Begin, BeginCreateTask, BeginUpdateTask, BeginDeleteTask,
            Refuse, GoTo, HandlerInv, TypeOK
    <2> QED BY <2>2
<1>3. ASSUME NEW r \in Requests, Continue(r) PROVE UpdateTaskStatus(s)
    <2>1. r = s
        <3>1. ASSUME NEW x, GoTo(r, x) PROVE r = s
            BY <1>1, <3>1 DEF GoTo, HandlerInv, TypeOK
        <3>2. ASSUME NEW a, NEW N, NEW C, NEW x, NEW y, Execute(r, a, N, C, x, y) PROVE r = s
            BY <3>1, <3>2 DEF Execute
        <3>3. ASSUME NEW x, NEW y, Enqueue(r, x, y) PROVE r = s
            BY <3>1, <3>3 DEF Enqueue
        <3> QED BY <1>3, <3>2, <3>3, Zenon DEF Continue, SaveTask, RegisterRemind, RollbackTask,
                UpdateTaskStatus, CancelRemind, UpdateTask, ArchiveTask, DeleteTask
    <2>2. CASE SaveTask(s)
        BY <1>1, <2>2 DEF SaveTask, Execute, GoTo, AfterSave, HandlerInv, TypeOK
    <2>3. CASE RegisterRemind(s)
        BY <1>1, <2>3 DEF RegisterRemind, Enqueue, GoTo, HandlerInv, TypeOK
    <2>4. CASE RollbackTask(s)
        BY <1>1, <2>4 DEF RollbackTask, Execute, GoTo, HandlerInv, TypeOK
    <2>5. CASE CancelRemind(s) \/ UpdateTask(s) \/ ArchiveTask(s) \/ DeleteTask(s)
        BY <1>1, <2>5 DEF CancelRemind, UpdateTask, ArchiveTask, DeleteTask, Asking, Completes,
            Deletes, HandlerInv, Knows, MemoryKnown
    <2> QED BY <1>3, <2>1, <2>2, <2>3, <2>4, <2>5 DEF Continue
<1>4. ASSUME Crash \/ UNCHANGED vars \/ \E r \in Requests : Disconnect(r) PROVE FALSE
    BY <1>1, <1>4 DEF Crash, vars, Disconnect, HandlerInv, TypeOK
<1> QED BY <1>2, <1>3, <1>4 DEF Next, Quiet

\* The rows of a task that has just been activated are active.
LEMMA ActivationActivates ==
    ASSUME HandlerInv, NEW s \in Requests, UpdateTaskStatus(s), stage'[s] = "ok", NEW x \in tasks',
           Concerns(s, x.id, x.owner)
    PROVE  x.status = "active"
<1> DEFINE rows == Matching(entity[s].id, req[s].user)
           active == {[y EXCEPT !.status = "active"] : y \in rows}
<1>1. entity[s].id = req[s].task
    BY DEF UpdateTaskStatus, HandlerInv, Knows, MemoryKnown, OwnEntity, CreateCalls
<1>2. tasks' = (tasks \ rows) \cup active
    <2>1. Execute(s, rows # {}, (tasks \ rows) \cup active, completed, "ok", "failed")
        BY DEF UpdateTaskStatus
    <2> HIDE DEF rows, active
    <2> QED BY <2>1 DEF Execute, GoTo, HandlerInv, TypeOK
<1>3. x \notin tasks \ rows
    BY <1>1 DEF Concerns, Matching
<1>4. PICK y \in rows : x = [y EXCEPT !.status = "active"]
    BY <1>2, <1>3
<1>5. y \in Row
    BY DEF Matching, HandlerInv, TypeOK
<1> QED BY <1>4, <1>5 DEF Row

\* A row that a step brings is explained, or was there under the same key.
LEMMA PendingComes ==
    ASSUME HandlerInv, PendingInv, [Next]_vars, NEW x \in tasks', x.status = "pending_reminders"
    PROVE  \/ Explained(x.id, x.owner)
           \/ x \in tasks
<1> SUFFICES ASSUME x \notin tasks PROVE Explained(x.id, x.owner)
    OBVIOUS
<1>1. ASSUME NEW r \in Requests, SaveTask(r) PROVE Explained(x.id, x.owner)
    <2>1. stage[r] = "SaveTask" /\ x = entity[r]
        BY <1>1 DEF SaveTask, Execute, tables
    <2>2. r \in Asking("create") /\ OwnEntity(r)
        BY <2>1 DEF HandlerInv, Knows, MemoryKnown, CreateCalls
    <2> QED BY <2>1, <2>2 DEF OwnEntity, Explained, Concerns
<1>2. ASSUME NEW r \in Requests, UpdateTask(r) PROVE Explained(x.id, x.owner)
    <2>1. stage[r] = "UpdateTask" /\ x = entity[r]
        BY <1>2 DEF UpdateTask, Execute, tables
    <2>2. r \in Asking("update") /\ OwnEntity(r) /\ req[r].status = "unset"
        BY <2>1 DEF HandlerInv, Knows, MemoryKnown, PendingInv
    <2> QED BY <2>1, <2>2 DEF OwnEntity, Explained, Concerns
<1>3. ASSUME NEW r \in Requests, UpdateTaskStatus(r) PROVE FALSE
    <2> DEFINE rows == Matching(entity[r].id, req[r].user)
               active == {[y EXCEPT !.status = "active"] : y \in rows}
    <2>1. tasks' = tasks \/ tasks' = (tasks \ rows) \cup active
        BY <1>3 DEF UpdateTaskStatus, Execute, tables
    <2>2. PICK y \in rows : x = [y EXCEPT !.status = "active"]
        BY <2>1
    <2>3. y \in Row
        BY DEF Matching, HandlerInv, TypeOK
    <2> QED BY <2>2, <2>3 DEF Row
<1>4. ASSUME NEW r \in Requests, RollbackTask(r) \/ DeleteTask(r) \/ ArchiveTask(r) PROVE FALSE
    BY <1>4 DEF RollbackTask, DeleteTask, ArchiveTask, Execute, tables
<1>5. ASSUME NEW r \in Requests, Begin(r) \/ RegisterRemind(r) \/ CancelRemind(r) \/ Disconnect(r)
      PROVE  FALSE
    BY <1>5 DEF Begin, BeginCreateTask, BeginUpdateTask, BeginDeleteTask, Refuse,
        RegisterRemind, CancelRemind, Disconnect, tables
<1>6. ASSUME Crash \/ UNCHANGED vars PROVE FALSE
    BY <1>6 DEF Crash, vars, tables
<1> QED BY <1>1, <1>2, <1>3, <1>4, <1>5, <1>6 DEF Next, Continue, Quiet

\* An update that reaches its statement with a mask that names the status has
\* "active" in memory.
LEMMA MaskIsWritten ==
    ASSUME HandlerInv, PendingInv, [Next]_vars, NEW r \in Requests, stage'[r] = "UpdateTask",
           req'[r].status # "unset"
    PROVE  entity'[r].status = "active"
<1>1. CASE stage[r] = "UpdateTask" /\ req'[r] = req[r] /\ entity'[r] = entity[r]
    BY <1>1 DEF PendingInv
<1>2. CASE BeginUpdateTask(r)
    <2> PICK q \in UpdateRequest : \E x \in Matching(q.task, q.user) :
            /\ req' = [req EXCEPT ![r] = q]
            /\ entity' = [entity EXCEPT ![r] = ApplyUpdate(x, q, r)]
            /\ GoTo(r, AfterRead(ApplyUpdate(x, q, r)))
        BY <1>2 DEF BeginUpdateTask
    <2> PICK x \in Matching(q.task, q.user) :
            /\ req' = [req EXCEPT ![r] = q]
            /\ entity' = [entity EXCEPT ![r] = ApplyUpdate(x, q, r)]
            /\ GoTo(r, AfterRead(ApplyUpdate(x, q, r)))
        OBVIOUS
    <2>1. x \in Row
        BY DEF Matching, HandlerInv, TypeOK
    <2>2. /\ req'[r] = q /\ entity'[r] = ApplyUpdate(x, q, r)
          /\ stage'[r] = AfterRead(ApplyUpdate(x, q, r))
        BY DEF GoTo, HandlerInv, TypeOK
    <2>3. q.status \in {"unset", "active", "completed"}
        BY DEF UpdateRequest
    <2>4. q.status # "unset" => ApplyUpdate(x, q, r).status = q.status
        BY DEF ApplyUpdate
    <2> QED BY <2>2, <2>3, <2>4 DEF AfterRead
<1>3. ASSUME ~BeginUpdateTask(r) PROVE stage[r] = "UpdateTask" /\ req'[r] = req[r] /\ entity'[r] = entity[r]
    <2>1. ASSUME NEW s \in Requests, Begin(s) PROVE stage[r] = "UpdateTask" /\ req'[r] = req[r] /\ entity'[r] = entity[r]
        <3>1. CASE s = r
            BY <1>3, <2>1, <3>1 DEF Begin, BeginCreateTask, BeginDeleteTask, Refuse, GoTo,
                HandlerInv, TypeOK
        <3>2. CASE s # r
            BY <2>1, <3>2 DEF Begin, BeginCreateTask, BeginUpdateTask, BeginDeleteTask, Refuse,
                GoTo, HandlerInv, TypeOK
        <3> QED BY <3>1, <3>2
    <2>2. ASSUME NEW s \in Requests, Continue(s) PROVE stage[r] = "UpdateTask"
        <3>1. ASSUME NEW z, GoTo(s, z), z # "UpdateTask" PROVE stage[r] = "UpdateTask"
            BY <3>1 DEF GoTo, HandlerInv, TypeOK
        <3>2. ASSUME NEW a, NEW N, NEW C, NEW y, NEW z, Execute(s, a, N, C, y, z),
                     y # "UpdateTask", z # "UpdateTask"
              PROVE  stage[r] = "UpdateTask"
            BY <3>1, <3>2 DEF Execute
        <3>3. ASSUME NEW y, NEW z, Enqueue(s, y, z), y # "UpdateTask", z # "UpdateTask",
                     stage[s] # "UpdateTask"
              PROVE  stage[r] = "UpdateTask"
            BY <3>1, <3>3 DEF Enqueue
        <3>4. AfterSave(req[s]) # "UpdateTask" /\ AfterCancel(req[s]) # "UpdateTask"
            BY DEF AfterSave, AfterCancel
        <3>5. CASE SaveTask(s)
            BY <3>2, <3>4, <3>5, Zenon DEF SaveTask
        <3>6. CASE RollbackTask(s)
            BY <3>2, <3>6, Zenon DEF RollbackTask
        <3>7. CASE UpdateTaskStatus(s)
            BY <3>2, <3>7, Zenon DEF UpdateTaskStatus
        <3>8. CASE UpdateTask(s)
            BY <3>2, <3>8, Zenon DEF UpdateTask
        <3>9. CASE ArchiveTask(s)
            BY <3>2, <3>9, Zenon DEF ArchiveTask
        <3>10. CASE DeleteTask(s)
            BY <3>2, <3>10, Zenon DEF DeleteTask
        <3>11. CASE RegisterRemind(s)
            BY <3>3, <3>11 DEF RegisterRemind
        <3>12. CASE CancelRemind(s)
            BY <3>3, <3>4, <3>12 DEF CancelRemind
        <3> QED BY <2>2, <3>5, <3>6, <3>7, <3>8, <3>9, <3>10, <3>11, <3>12 DEF Continue
    <2>3. ASSUME NEW s \in Requests, Continue(s) PROVE req' = req /\ entity' = entity
        BY <2>3 DEF Continue, SaveTask, RegisterRemind, RollbackTask, UpdateTaskStatus,
            CancelRemind, UpdateTask, ArchiveTask, DeleteTask
    <2>4. ASSUME Crash \/ UNCHANGED vars \/ \E s \in Requests : Disconnect(s)
          PROVE  stage[r] = "UpdateTask" /\ req'[r] = req[r] /\ entity'[r] = entity[r]
        BY <2>4 DEF Crash, vars, Disconnect
    <2> QED BY <2>1, <2>2, <2>3, <2>4 DEF Next, Quiet
<1> QED BY <1>1, <1>2, <1>3

LEMMA PendingStep == HandlerInv /\ PendingInv /\ [Next]_vars => PendingInv'
<1> SUFFICES ASSUME HandlerInv, PendingInv, [Next]_vars PROVE PendingInv'
    OBVIOUS
<1>1. Monotone
    BY StepMonotone
<1>2. ASSUME NEW x \in tasks', x.status = "pending_reminders" PROVE Explained(x.id, x.owner)'
    <2>1. Explained(x.id, x.owner)
        BY <1>2, PendingComes DEF PendingInv, PendingIsExplained, Explained
    <2>2. ASSUME NEW s \in Asking("create"), Concerns(s, x.id, x.owner), stage'[s] = "ok",
                 stage[s] # "ok"
          PROVE  FALSE
        BY <1>2, <2>2, OnlyActivationSucceeds, ActivationActivates DEF Asking
    <2> QED BY <1>1, <2>1, <2>2, ExplainedStays
<1>3. PendingIsExplained'
    BY <1>2 DEF PendingIsExplained, Explained
<1> QED BY <1>3, MaskIsWritten DEF PendingInv

\* A task waits in pending_reminders only for its creation or because of a stale
\* write of an update; nobody else who was told that it was created finds it so.
THEOREM PendingTasksAreExplained == Spec => []PendingIsExplained
<1>1. Init => PendingInv
    BY DEF Init, PendingInv, PendingIsExplained
<1>2. PendingInv => PendingIsExplained
    BY DEF PendingInv
<1> QED BY <1>1, <1>2, PendingStep, HandlersKnow, PTL DEF Spec

(***************************************************************************)
(* The calls of a handler run out                                          *)
(***************************************************************************)

\* What is left depends on the call and the attempts only, and is a number.
LEMMA CallsLeftIs ==
    ASSUME TypeOK, NEW r \in Requests
    PROVE  /\ CallsLeft(r) \in Nat
           /\ stage[r] = "SaveTask" => CallsLeft(r) = MaxAttempts + 2
           /\ stage[r] \in {"RegisterRemind", "CancelRemind"} =>
                  CallsLeft(r) = MaxAttempts - attempt[r] + 1
           /\ stage[r] \in {"Rollback", "UpdateTaskStatus", "UpdateTask", "ArchiveTask",
                            "DeleteTask"} => CallsLeft(r) = 1
           /\ stage[r] \in Answers => CallsLeft(r) = 0
BY MaxAttemptsAssumption DEF TypeOK, CallsLeft, Calls, Answers

\* A statement is made once.
LEMMA StatementIsLast ==
    ASSUME TypeOK, TypeOK', NEW r \in Requests, NEW applies, NEW newTasks, NEW newCompleted,
           NEW s \in Answers, Execute(r, applies, newTasks, newCompleted, s, "failed"),
           stage[r] \in {"Rollback", "UpdateTaskStatus", "UpdateTask", "ArchiveTask", "DeleteTask"}
    PROVE  CallsLeft(r)' < CallsLeft(r)
<1>1. stage'[r] \in Answers
    BY DEF Execute, GoTo, TypeOK, Answers
<1>2. CallsLeft(r)' = 0
    BY <1>1 DEF CallsLeft, Calls, Answers
<1> QED BY <1>2, CallsLeftIs

\* An attempt is the last one or is followed by one more.
LEMMA AttemptIsCounted ==
    ASSUME HandlerInv, TypeOK', NEW r \in Requests, NEW s, NEW e, Enqueue(r, s, e),
           {s, e} \subseteq (Calls \ {"SaveTask", "RegisterRemind", "CancelRemind"}) \cup Answers,
           stage[r] \in {"RegisterRemind", "CancelRemind"}
    PROVE  CallsLeft(r)' < CallsLeft(r)
<1>1. attempt[r] \in Nat /\ attempt[r] < MaxAttempts /\ MaxAttempts \in Nat
    BY MaxAttemptsAssumption DEF HandlerInv, TypeOK, Knows, AttemptsKnown
<1>2. CallsLeft(r) = MaxAttempts - attempt[r] + 1
    BY CallsLeftIs DEF HandlerInv
<1>3. CASE stage'[r] = stage[r] /\ attempt'[r] = attempt[r] + 1
    BY <1>1, <1>2, <1>3 DEF CallsLeft
<1>4. CASE stage'[r] \in {s, e}
    <2>1. CallsLeft(r)' \in {0, 1}
        BY <1>4 DEF CallsLeft, Calls, Answers
    <2> QED BY <2>1, <1>1, <1>2
<1>5. \/ stage'[r] = stage[r] /\ attempt'[r] = attempt[r] + 1
      \/ stage'[r] \in {s, e}
    BY DEF Enqueue, GoTo, HandlerInv, TypeOK
<1> QED BY <1>3, <1>4, <1>5

LEMMA ContinueRunsOut ==
    ASSUME HandlerInv, TypeOK', NEW r \in Requests, Continue(r)
    PROVE  CallsLeft(r)' < CallsLeft(r)
<1>1. CASE SaveTask(r)
    <2>1. /\ stage[r] = "SaveTask" /\ attempt'[r] \in Nat
          /\ stage'[r] \in {"RegisterRemind", "UpdateTaskStatus", "failed"}
        BY <1>1 DEF SaveTask, Execute, GoTo, AfterSave, HandlerInv, TypeOK
    <2>2. CallsLeft(r) = MaxAttempts + 2
        BY <2>1, CallsLeftIs DEF HandlerInv
    <2>3. CallsLeft(r)' <= MaxAttempts + 1
        BY <2>1, MaxAttemptsAssumption DEF CallsLeft, Calls
    <2>4. CallsLeft(r)' \in Nat
        <3>1. attempt'[r] \in 0..MaxAttempts
            BY DEF TypeOK
        <3> QED BY <3>1, MaxAttemptsAssumption DEF CallsLeft
    <2> QED BY <2>2, <2>3, <2>4, MaxAttemptsAssumption
<1>2. CASE RegisterRemind(r)
    BY <1>2, AttemptIsCounted DEF RegisterRemind, Calls
<1>3. CASE CancelRemind(r)
    BY <1>3, AttemptIsCounted DEF CancelRemind, AfterCancel, Calls, Answers
<1>4. CASE RollbackTask(r) \/ UpdateTaskStatus(r) \/ UpdateTask(r) \/ ArchiveTask(r) \/ DeleteTask(r)
    BY <1>4, StatementIsLast
       DEF RollbackTask, UpdateTaskStatus, UpdateTask, ArchiveTask, DeleteTask, HandlerInv, Answers
<1> QED BY <1>1, <1>2, <1>3, <1>4 DEF Continue

\* No error and no other handler sends a handler back to a call it has made, for
\* any number of attempts (task.go:219-248, 642-672; primind_client.go:67-88):
\* with the fairness of FairSpec this is why every handler answers.
THEOREM HandlersRunOut == Spec => CallsRunOut
<1>1. ASSUME HandlerInv, HandlerInv', [Next]_vars, NEW r \in InFlight
      PROVE  /\ CallsLeft(r)' <= CallsLeft(r)
             /\ Continue(r) => CallsLeft(r)' < CallsLeft(r)
    <2>1. r \in Requests /\ CallsLeft(r) \in Nat /\ CallsLeft(r)' \in Nat
        <3>1. r \in Requests /\ CallsLeft(r) \in Nat
            BY <1>1, CallsLeftIs DEF HandlerInv, InFlight
        <3>2. attempt'[r] \in 0..MaxAttempts /\ stage'[r] = stage'[r]
            BY <1>1, <3>1 DEF HandlerInv, TypeOK
        <3>3. CallsLeft(r)' \in Nat
            BY <3>2, MaxAttemptsAssumption DEF CallsLeft
        <3> QED BY <3>1, <3>3
    <2>2. Continue(r) => CallsLeft(r)' < CallsLeft(r)
        BY <1>1, <2>1, ContinueRunsOut DEF HandlerInv
    <2>3. CASE stage'[r] = stage[r] /\ attempt'[r] = attempt[r]
        BY <2>1, <2>2, <2>3 DEF CallsLeft
    <2>4. CASE Crash
        <3>1. stage'[r] = "aborted"
            BY <1>1, <2>1, <2>4 DEF Crash, HandlerInv, TypeOK
        <3>2. CallsLeft(r)' = 0
            BY <3>1 DEF CallsLeft, Calls
        <3> QED BY <2>1, <2>2, <3>2
    <2>5. ASSUME NEW s \in Requests, Begin(s) \/ Continue(s) \/ Disconnect(s), ~Continue(r)
          PROVE  stage'[r] = stage[r] /\ attempt'[r] = attempt[r]
        <3>1. s = r => Disconnect(s)
            BY <1>1, <2>5 DEF Begin, BeginCreateTask, BeginUpdateTask, BeginDeleteTask, Refuse,
                InFlight, Calls
        <3>2. CASE Disconnect(s)
            BY <3>2 DEF Disconnect, queues
        <3>3. CASE s # r /\ Begin(s)
            BY <1>1, <2>1, <3>3 DEF Begin, BeginCreateTask, BeginUpdateTask, BeginDeleteTask,
                Refuse, GoTo, queues, HandlerInv, TypeOK
        <3>4. CASE s # r /\ Continue(s)
            BY <1>1, <2>1, <3>4 DEF Continue, SaveTask, RegisterRemind, RollbackTask,
                UpdateTaskStatus, CancelRemind, UpdateTask, ArchiveTask, DeleteTask, Execute,
                Enqueue, GoTo, queues, HandlerInv, TypeOK
        <3> QED BY <2>5, <3>1, <3>2, <3>3, <3>4
    <2>6. CASE UNCHANGED vars
        BY <2>3, <2>2, <2>6 DEF vars
    <2> QED BY <1>1, <2>1, <2>2, <2>3, <2>4, <2>5, <2>6 DEF Next, Quiet
<1>2. HandlerInv /\ HandlerInv' /\ [Next]_vars =>
        [\A r \in InFlight : /\ CallsLeft(r)' <= CallsLeft(r)
                             /\ Continue(r) => CallsLeft(r)' < CallsLeft(r)]_vars
    BY <1>1
<1> QED BY <1>2, HandlersKnow, PTL DEF Spec, CallsRunOut

-----------------------------------------------------------------------------
(***************************************************************************)
(* While clients do not reuse ids: FreshInv is inductive next to           *)
(* HandlerInv.                                                             *)
(***************************************************************************)

Ends(r) == Completes(r) \/ Deletes(r)
Kept == {"RegisterRemind", "Rollback", "UpdateTaskStatus", "ok"}

(***************************************************************************)
(* What steps leave to the others                                          *)
(***************************************************************************)

\* No request goes back to its insert.
Forth ==
    /\ Monotone
    /\ \A s \in Requests : req[s] # None /\ stage'[s] = "SaveTask" => stage[s] = "SaveTask"

LEMMA SavedStays ==
    ASSUME Forth, NEW t, NEW u, Saved(t, u)
    PROVE  Saved(t, u)'
BY DEF Forth, Monotone, Saved, Asking, Concerns

LEMMA CancelStays ==
    ASSUME TypeOK, TypeOK', Forth, NEW t, NEW u, CancelSent(t, u)
    PROVE  CancelSent(t, u)'
<1> PICK r \in Requests : (Completes(r) \/ Deletes(r)) /\ Concerns(r, t, u) /\ accepted[r] > 0
    BY DEF CancelSent
<1>1. req[r] # None /\ req'[r] = req[r] /\ accepted'[r] > 0
    BY MaxAttemptsAssumption DEF Forth, Monotone, TypeOK, Completes, Deletes, Asking
<1> QED BY <1>1 DEF CancelSent, Completes, Deletes, Asking, Concerns

\* A step after which request s makes no new claim about the tables.
Claims(s) ==
    /\ s \in Asking("create")' /\ stage'[s] \in Kept =>
          s \in Asking("create") /\ stage[s] \in Kept
    /\ Ends(s)' /\ stage'[s] = "ok" => Ends(s) /\ stage[s] = "ok"
    /\ stage'[s] = "UpdateTask" => ~Completes(s)'

\* The tables name the same tasks as before.
SameTasks ==
    /\ \A x \in tasks' : \E y \in tasks : y.id = x.id /\ y.owner = x.owner
    /\ \A y \in tasks : \E x \in tasks' : x.id = y.id /\ x.owner = y.owner
    /\ PrimaryKey'
    /\ completed' = completed

LEMMA SameTable ==
    ASSUME FreshInv, tasks' = tasks, completed' = completed
    PROVE  SameTasks
BY DEF SameTasks, FreshInv, RowsInv, PrimaryKey

\* The claims stand still, and so do the tasks they are about.
LEMMA Calm ==
    ASSUME TypeOK, TypeOK', FreshInv, Forth, SameTasks, OneCreatePerId',
           \A s \in Requests : Claims(s)
    PROVE  FreshInv'
<1>1. \A t, u : OpenRow(t, u)' <=> OpenRow(t, u)
    BY DEF OpenRow, Matching, SameTasks
<1>2. RowsInv'
    <2>1. ASSUME NEW x \in tasks' \cup completed' PROVE Saved(x.id, x.owner)'
        <3>1. PICK y \in tasks \cup completed : y.id = x.id /\ y.owner = x.owner
            BY DEF SameTasks
        <3>2. Saved(y.id, y.owner)
            BY DEF FreshInv, RowsInv
        <3> DEFINE t == x.id
                   u == x.owner
        <3>3. Saved(t, u)
            BY <3>1, <3>2
        <3> HIDE DEF t, u
        <3>4. \E r \in Requests : r \in Asking("create")' /\ req'[r].task = t
                                  /\ req'[r].user = u /\ stage'[r] # "SaveTask"
            BY <3>3 DEF Forth, Monotone, Saved, Asking, Concerns
        <3> QED BY <3>4 DEF Saved, Concerns, Asking, t, u
    <2>2. \A c, d \in completed' : c.id = d.id => c = d
        BY DEF FreshInv, RowsInv, SameTasks
    <2> QED BY <2>1, <2>2 DEF RowsInv, SameTasks
<1>3. KeptInv'
    <2> SUFFICES ASSUME NEW s \in Requests, s \in Asking("create")', stage'[s] \in Kept
                 PROVE  OpenRow(req[s].task, req[s].user)' \/ CancelSent(req[s].task, req[s].user)'
        BY DEF KeptInv, Kept, Asking
    <2>1. /\ s \in Asking("create") /\ req'[s] = req[s]
          /\ OpenRow(req[s].task, req[s].user) \/ CancelSent(req[s].task, req[s].user)
        BY DEF Claims, FreshInv, KeptInv, Kept, Forth, Monotone, Asking
    <2> PICK t, u : t = req[s].task /\ u = req[s].user
        OBVIOUS
    <2>2. OpenRow(t, u)' \/ CancelSent(t, u)'
        BY <1>1, <2>1, CancelStays
    <2> QED BY <2>1, <2>2
<1>4. EndedInv'
    <2> SUFFICES ASSUME NEW s \in Requests, Ends(s)', stage'[s] = "ok"
                 PROVE  Saved(req[s].task, req[s].user)' /\ ~OpenRow(req[s].task, req[s].user)'
        BY DEF EndedInv, Ends
    <2>1. /\ Ends(s) /\ stage[s] = "ok" /\ req'[s] = req[s]
          /\ Saved(req[s].task, req[s].user) /\ ~OpenRow(req[s].task, req[s].user)
        BY DEF Claims, FreshInv, EndedInv, Ends, Completes, Deletes, Forth, Monotone, Asking
    <2> PICK t, u : t = req[s].task /\ u = req[s].user
        OBVIOUS
    <2>2. Saved(t, u)' /\ ~OpenRow(t, u)'
        BY <1>1, <2>1, SavedStays
    <2> QED BY <2>1, <2>2
<1>5. UpdatesInv'
    BY DEF UpdatesInv, Claims
<1>6. \A s \in Requests : Ends(s)' /\ stage'[s] = "ok" =>
            Ends(s) /\ stage[s] = "ok" /\ req'[s] = req[s] /\ (Deletes(s)' => Deletes(s))
    BY DEF Claims, Ends, Completes, Deletes, Forth, Monotone, Asking
<1>7. OneEnding'
    BY <1>6 DEF FreshInv, OneEnding, Ends, Concerns
<1>8. DeletedStaysDeleted'
    BY <1>1, <1>6 DEF FreshInv, DeletedStaysDeleted, Ends, OpenRow, Matching, SameTasks
<1>9. OneTaskPerId'
    BY DEF FreshInv, OneTaskPerId, SameTasks
<1> QED BY <1>2, <1>3, <1>4, <1>5, <1>7, <1>8, <1>9 DEF FreshInv

\* The same for a step of one request.
LEMMA CalmStep ==
    ASSUME HandlerInv, TypeOK', FreshInv, Monotone, NEW r \in Requests, Alone(r),
           req'[r] = req[r], stage'[r] # "SaveTask", SameTasks, Claims(r)
    PROVE  FreshInv'
<1>1. Forth
    BY DEF Forth, Alone
<1>2. \A s \in Requests : req'[s] = req[s]
    BY DEF Alone
<1>3. OneCreatePerId'
    BY <1>2 DEF FreshInv, OneCreatePerId, Asking
<1>4. \A s \in Requests \ {r} : Claims(s)
    BY <1>2 DEF Alone, Claims, Asking, Ends, Completes, Deletes, FreshInv, UpdatesInv
<1> QED BY <1>1, <1>3, <1>4, Calm DEF HandlerInv

(***************************************************************************)
(* The statements that insert and delete a row                             *)
(***************************************************************************)

\* The insert: a task that was never saved can have been neither ended nor kept.
LEMMA InsertFresh ==
    ASSUME HandlerInv, TypeOK', FreshInv, Monotone, NEW r \in Requests, Alone(r),
           req'[r] = req[r], stage[r] = "SaveTask", stage'[r] \notin {"SaveTask", "UpdateTask"},
           r \in Asking("create"), OwnEntity(r), \A x \in tasks : x.id # entity[r].id,
           tasks' = tasks \cup {entity[r]}, completed' = completed
    PROVE  FreshInv'
<1> PICK e, t, u : e = entity[r] /\ t = req[r].task /\ u = req[r].user
    OBVIOUS
<1>0. e.id = t /\ e.owner = u /\ Concerns(r, t, u)
    BY DEF OwnEntity, Concerns
<1>1. Forth /\ \A s \in Requests : req'[s] = req[s]
    BY DEF Forth, Alone
<1>2. OneCreatePerId' /\ UpdatesInv'
    BY <1>1 DEF FreshInv, OneCreatePerId, UpdatesInv, Alone, Asking, Completes
<1>3. \A w : ~Saved(t, w)
    BY <1>0 DEF FreshInv, OneCreatePerId, Saved, Concerns
<1>4. RowsInv'
    <2>1. Saved(t, u)'
        BY <1>0, <1>1 DEF Saved, Asking, Concerns
    <2>2. ASSUME NEW x \in tasks' \cup completed' PROVE Saved(x.id, x.owner)'
        <3> PICK i, o : i = x.id /\ o = x.owner
            OBVIOUS
        <3>1. CASE x = e
            BY <1>0, <2>1, <3>1
        <3>2. CASE x \in tasks \cup completed
            <4>1. Saved(i, o)
                BY <3>2 DEF FreshInv, RowsInv
            <4> QED BY <1>1, <4>1, SavedStays
        <3> QED BY <3>1, <3>2
    <2>3. PrimaryKey'
        BY DEF FreshInv, RowsInv, PrimaryKey
    <2>4. \A c, d \in completed' : c.id = d.id => c = d
        BY DEF FreshInv, RowsInv
    <2> QED BY <2>2, <2>3, <2>4 DEF RowsInv
<1>5. KeptInv'
    <2> SUFFICES ASSUME NEW s \in Requests, s \in Asking("create")', stage'[s] \in Kept
                 PROVE  OpenRow(req[s].task, req[s].user)' \/ CancelSent(req[s].task, req[s].user)'
        BY DEF KeptInv, Kept, Asking
    <2> PICK i, o : i = req[s].task /\ o = req[s].user
        OBVIOUS
    <2>1. CASE s = r
        BY <1>0, <1>1, <2>1 DEF OpenRow, Matching
    <2>2. CASE s # r
        <3>1. OpenRow(i, o) \/ CancelSent(i, o)
            BY <1>1, <2>2 DEF Alone, FreshInv, KeptInv, Kept, Asking
        <3>2. OpenRow(i, o) => OpenRow(i, o)'
            BY DEF OpenRow, Matching
        <3>3. OpenRow(i, o)' \/ CancelSent(i, o)'
            BY <1>1, <3>1, <3>2, CancelStays DEF HandlerInv
        <3> QED BY <1>1, <3>3
    <2> QED BY <2>1, <2>2
<1>6. \A s \in Requests : Ends(s)' /\ stage'[s] = "ok" =>
            Ends(s) /\ stage[s] = "ok" /\ (Deletes(s)' => Deletes(s))
    BY <1>1 DEF Alone, Ends, Completes, Deletes, Asking
<1>7. EndedInv'
    <2> SUFFICES ASSUME NEW s \in Requests, Ends(s)', stage'[s] = "ok"
                 PROVE  Saved(req[s].task, req[s].user)' /\ ~OpenRow(req[s].task, req[s].user)'
        BY DEF EndedInv, Ends
    <2> PICK i, o : i = req[s].task /\ o = req[s].user
        OBVIOUS
    <2>1. Saved(i, o) /\ ~OpenRow(i, o)
        BY <1>6 DEF FreshInv, EndedInv, Ends
    <2>2. i # t
        BY <1>3, <2>1
    <2>3. ~OpenRow(i, o)'
        BY <1>0, <2>1, <2>2 DEF OpenRow, Matching
    <2> QED BY <1>1, <2>1, <2>3, SavedStays
<1>8. OneEnding'
    BY <1>1, <1>6 DEF FreshInv, OneEnding, Ends, Concerns
<1>9. DeletedStaysDeleted'
    BY <1>1, <1>6, <1>7 DEF FreshInv, DeletedStaysDeleted, EndedInv, Ends
<1>10. OneTaskPerId'
    BY <1>0, <1>3 DEF FreshInv, OneTaskPerId, RowsInv
<1> QED BY <1>2, <1>4, <1>5, <1>7, <1>8, <1>9, <1>10 DEF FreshInv

\* A delete that finds its row: it is the compensation of the task's own create,
\* or the cancellation of the reminders was accepted.
LEMMA RemoveFresh ==
    ASSUME HandlerInv, TypeOK', FreshInv, Monotone, NEW r \in Requests, Alone(r),
           req'[r] = req[r], NEW t, NEW u, Concerns(r, t, u), OpenRow(t, u),
           tasks' = tasks \ Matching(t, u),
           \/ r \in Asking("create") /\ stage[r] = "Rollback" /\ stage'[r] = "failed"
           \/ Ends(r) /\ accepted[r] > 0 /\ stage'[r] \in {"ok", "failed"},
           \/ completed' = completed
           \/ /\ Completes(r)
              /\ \E c : c.id = t /\ c.owner = u /\ completed' = completed \cup {c}
    PROVE  FreshInv'
<1>0. Forth /\ \A s \in Requests : req'[s] = req[s]
    BY DEF Forth, Alone
<1>1. OneCreatePerId' /\ UpdatesInv'
    BY <1>0 DEF FreshInv, OneCreatePerId, UpdatesInv, Alone, Asking, Completes
<1>2. PICK y \in tasks : y.id = t /\ y.owner = u
    BY DEF OpenRow, Matching
<1>3. Saved(t, u)
    BY <1>2 DEF FreshInv, RowsInv
<1>4. ~OpenRow(t, u)' /\ \A i, o : OpenRow(i, o)' => OpenRow(i, o)
    BY DEF OpenRow, Matching
<1>5. \A c \in completed : c.id # t
    BY <1>2 DEF FreshInv, OneTaskPerId
<1>6. \A x \in tasks' : x \in tasks /\ x.id # t
    BY <1>2 DEF FreshInv, RowsInv, PrimaryKey, Matching
<1>7. RowsInv'
    <2>1. ASSUME NEW x \in tasks' \cup completed' PROVE Saved(x.id, x.owner)'
        <3> PICK i, o : i = x.id /\ o = x.owner
            OBVIOUS
        <3>1. Saved(i, o)
            BY <1>3 DEF FreshInv, RowsInv
        <3> QED BY <1>0, <3>1, SavedStays
    <2>2. PrimaryKey'
        BY DEF FreshInv, RowsInv, PrimaryKey
    <2>3. \A c, d \in completed' : c.id = d.id => c = d
        BY <1>5 DEF FreshInv, RowsInv
    <2> QED BY <2>1, <2>2, <2>3 DEF RowsInv
<1>8. KeptInv'
    <2> SUFFICES ASSUME NEW s \in Requests, s \in Asking("create")', stage'[s] \in Kept
                 PROVE  OpenRow(req[s].task, req[s].user)' \/ CancelSent(req[s].task, req[s].user)'
        BY DEF KeptInv, Kept, Asking
    <2> PICK i, o : i = req[s].task /\ o = req[s].user
        OBVIOUS
    <2>1. s # r /\ s \in Asking("create")
        BY <1>0 DEF Kept, Asking, Ends, Completes, Deletes
    <2>2. OpenRow(i, o) \/ CancelSent(i, o)
        BY <1>0, <2>1 DEF Alone, FreshInv, KeptInv, Kept
    <2>3. CASE OpenRow(i, o)
        <3>1. CASE i = t /\ o = u
            <4>1. r \notin Asking("create")
                BY <2>1, <3>1 DEF FreshInv, OneCreatePerId, Concerns
            <4>2. CancelSent(i, o)
                BY <3>1, <4>1 DEF CancelSent, Ends
            <4> QED BY <1>0, <4>2, CancelStays DEF HandlerInv
        <3>2. CASE ~(i = t /\ o = u)
            <4>1. OpenRow(i, o)'
                BY <2>3, <3>2 DEF OpenRow, Matching
            <4> QED BY <1>0, <4>1
        <3> QED BY <3>1, <3>2
    <2>4. CASE CancelSent(i, o)
        BY <1>0, <2>4, CancelStays DEF HandlerInv
    <2> QED BY <2>2, <2>3, <2>4
<1>9. \A s \in Requests : Ends(s)' /\ stage'[s] = "ok" =>
            /\ Ends(s) /\ (Deletes(s)' => Deletes(s)) /\ (Completes(s) => Completes(s)')
            /\ s = r \/ stage[s] = "ok"
    BY <1>0 DEF Alone, Ends, Completes, Deletes, Asking
<1>10. EndedInv'
    <2> SUFFICES ASSUME NEW s \in Requests, Ends(s)', stage'[s] = "ok"
                 PROVE  Saved(req[s].task, req[s].user)' /\ ~OpenRow(req[s].task, req[s].user)'
        BY DEF EndedInv, Ends
    <2> PICK i, o : i = req[s].task /\ o = req[s].user
        OBVIOUS
    <2>1. Saved(i, o) /\ ~OpenRow(i, o)'
        BY <1>3, <1>4, <1>9 DEF FreshInv, EndedInv, Ends, Concerns
    <2> QED BY <1>0, <2>1, SavedStays
<1>11. ASSUME NEW s \in Requests, Ends(s), stage[s] = "ok" PROVE req[s].task # t
    <2>1. Saved(req[s].task, req[s].user) /\ ~OpenRow(req[s].task, req[s].user)
        BY <1>11 DEF FreshInv, EndedInv, Ends
    <2> QED BY <1>3, <2>1 DEF FreshInv, OneCreatePerId, Saved, Concerns
<1>12. OneEnding'
    <2> SUFFICES ASSUME NEW a \in Requests, NEW b \in Requests, Ends(a)', Ends(b)',
                        stage'[a] = "ok", stage'[b] = "ok", req[a].task = req[b].task,
                        req[a].user = req[b].user
                 PROVE  a = b
        BY <1>0 DEF OneEnding, Ends, Concerns
    <2>1. CASE stage[a] = "ok" /\ stage[b] = "ok"
        BY <1>9, <2>1 DEF FreshInv, OneEnding, Ends, Concerns
    <2> QED BY <1>9, <1>11, <2>1 DEF Concerns
<1>13. DeletedStaysDeleted'
    <2> SUFFICES ASSUME NEW s \in Requests, Deletes(s)', stage'[s] = "ok"
                 PROVE  \A c \in completed' : c.id # req[s].task
        BY <1>0, <1>10 DEF DeletedStaysDeleted, EndedInv
    <2>1. Ends(s) /\ Deletes(s) /\ (s = r \/ stage[s] = "ok")
        BY <1>9 DEF Ends
    <2>2. CASE s = r
        <3>1. completed' = completed
            BY <2>1, <2>2 DEF Completes, Deletes, Asking
        <3> QED BY <1>5, <2>2, <3>1 DEF Concerns
    <2>3. CASE s # r
        BY <1>11, <2>1, <2>3 DEF FreshInv, DeletedStaysDeleted
    <2> QED BY <2>2, <2>3
<1>14. OneTaskPerId'
    BY <1>6 DEF FreshInv, OneTaskPerId
<1> QED BY <1>1, <1>7, <1>8, <1>10, <1>12, <1>13, <1>14 DEF FreshInv

(***************************************************************************)
(* The steps of a handler                                                  *)
(***************************************************************************)

\* A statement that fails changes nothing, and neither does what it leads to.
LEMMA FailedStep ==
    ASSUME HandlerInv, TypeOK', FreshInv, Monotone, NEW r \in Requests, Alone(r),
           req'[r] = req[r], stage'[r] = "failed", tasks' = tasks, completed' = completed
    PROVE  FreshInv'
<1>1. Claims(r)
    BY DEF Claims, Kept
<1> QED BY <1>1, SameTable, CalmStep

LEMMA SaveTaskFresh ==
    ASSUME HandlerInv, FreshInv, NEW r \in Requests, SaveTask(r)
    PROVE  FreshInv'
<1> DEFINE applies == \A x \in tasks : x.id # entity[r].id
           s1 == AfterSave(req[r])
<1>1. r \in Asking("create") /\ OwnEntity(r) /\ entity[r].status = "pending_reminders"
      /\ stage[r] = "SaveTask"
    BY DEF SaveTask, HandlerInv, Knows, MemoryKnown, CreateCalls
<1>2. entity[r] \in Row
    BY <1>1 DEF OwnEntity, HandlerInv, TypeOK, Entity, Row, Status
<1>3. s1 \in {"RegisterRemind", "UpdateTaskStatus"}
    BY DEF AfterSave
<1>4. /\ tasks \cup {entity[r]} \in SUBSET Row /\ completed \in SUBSET CompletedRow
      /\ applies \in BOOLEAN /\ s1 \in Calls \cup Answers /\ "failed" \in Calls \cup Answers
    BY <1>2, <1>3 DEF HandlerInv, TypeOK, Calls, Answers
<1>5. /\ Execute(r, applies, tasks \cup {entity[r]}, completed, s1, "failed")
      /\ UNCHANGED <<req, entity, queues, gone>>
    BY DEF SaveTask
<1> HIDE DEF s1
<1>6. /\ TypeOK' /\ Monotone /\ Alone(r) /\ req'[r] = req[r]
      /\ \/ /\ stage'[r] \in {s1, "failed"} /\ applies
            /\ tasks' = tasks \cup {entity[r]} /\ completed' = completed
         \/ stage'[r] = "failed" /\ tasks' = tasks /\ completed' = completed
    <2> HIDE DEF applies
    <2> QED BY <1>4, <1>5, ExecuteStep
<1>7. CASE applies /\ tasks' = tasks \cup {entity[r]} /\ completed' = completed
           /\ stage'[r] \in {s1, "failed"}
    BY <1>1, <1>3, <1>6, <1>7, InsertFresh
<1>8. CASE stage'[r] = "failed" /\ tasks' = tasks /\ completed' = completed
    BY <1>6, <1>8, FailedStep
<1> QED BY <1>6, <1>7, <1>8

LEMMA RegisterRemindFresh ==
    ASSUME HandlerInv, FreshInv, NEW r \in Requests, RegisterRemind(r)
    PROVE  FreshInv'
<1>1. stage[r] = "RegisterRemind" /\ r \in Asking("create")
    BY DEF RegisterRemind, HandlerInv, Knows, MemoryKnown, CreateCalls
<1>2. /\ TypeOK' /\ Monotone /\ Alone(r) /\ req'[r] = req[r]
      /\ tasks' = tasks /\ completed' = completed
      /\ stage'[r] \in {"UpdateTaskStatus", "RegisterRemind", "Rollback"}
    BY <1>1, EnqueueStep DEF RegisterRemind, Calls
<1>3. Claims(r)
    BY <1>1, <1>2 DEF Claims, Kept, Asking, Ends, Completes, Deletes
<1> QED BY <1>2, <1>3, SameTable, CalmStep

LEMMA CancelRemindFresh ==
    ASSUME HandlerInv, FreshInv, NEW r \in Requests, CancelRemind(r)
    PROVE  FreshInv'
<1>1. AfterCancel(req[r]) \in {"ArchiveTask", "DeleteTask"}
    BY DEF AfterCancel
<1>2. AfterCancel(req[r]) \in Calls \cup Answers /\ "failed" \in Calls \cup Answers
    BY <1>1 DEF Calls, Answers
<1>3. /\ TypeOK' /\ Monotone /\ Alone(r) /\ req'[r] = req[r]
      /\ tasks' = tasks /\ completed' = completed
      /\ stage'[r] \in {"ArchiveTask", "DeleteTask", "CancelRemind", "failed"}
    BY <1>1, <1>2, EnqueueStep DEF CancelRemind
<1>4. Claims(r)
    BY <1>3 DEF Claims, Kept
<1> QED BY <1>3, <1>4, SameTable, CalmStep

LEMMA RollbackTaskFresh ==
    ASSUME HandlerInv, FreshInv, NEW r \in Requests, RollbackTask(r)
    PROVE  FreshInv'
<1> PICK t, u : t = req[r].task /\ u = req[r].user
    OBVIOUS
<1>1. stage[r] = "Rollback" /\ r \in Asking("create") /\ entity[r].id = t
    BY DEF RollbackTask, HandlerInv, Knows, MemoryKnown, CreateCalls, OwnEntity
<1> DEFINE rows == Matching(t, u)
           applies == rows # {}
<1>2. /\ rows \in SUBSET tasks /\ tasks \ rows \in SUBSET Row
      /\ completed \in SUBSET CompletedRow /\ applies \in BOOLEAN
    BY MatchingRows DEF HandlerInv
<1>3. /\ Execute(r, applies, tasks \ rows, completed, "failed", "failed")
      /\ UNCHANGED <<req, entity, queues, gone>>
    BY <1>1 DEF RollbackTask
<1> HIDE DEF rows, applies
<1>4. /\ TypeOK' /\ Monotone /\ Alone(r) /\ req'[r] = req[r] /\ stage'[r] = "failed"
      /\ \/ applies /\ tasks' = tasks \ rows /\ completed' = completed
         \/ tasks' = tasks /\ completed' = completed
    BY <1>2, <1>3, ExecuteStep DEF Answers
<1>5. CASE applies /\ tasks' = tasks \ rows /\ completed' = completed
    BY <1>1, <1>4, <1>5, RemoveFresh DEF rows, applies, OpenRow, Concerns
<1> QED BY <1>4, <1>5, FailedStep

LEMMA DeleteTaskFresh ==
    ASSUME HandlerInv, FreshInv, NEW r \in Requests, DeleteTask(r)
    PROVE  FreshInv'
<1> PICK t, u : t = req[r].task /\ u = req[r].user
    OBVIOUS
<1>1. Ends(r) /\ accepted[r] > 0
    BY DEF DeleteTask, HandlerInv, Knows, MemoryKnown, RemindersKnown, Ends
<1> DEFINE rows == Matching(t, u)
           applies == rows # {}
<1>2. /\ rows \in SUBSET tasks /\ tasks \ rows \in SUBSET Row
      /\ completed \in SUBSET CompletedRow /\ applies \in BOOLEAN
    BY MatchingRows DEF HandlerInv
<1>3. /\ Execute(r, applies, tasks \ rows, completed, "ok", "failed")
      /\ UNCHANGED <<req, entity, queues, gone>>
    BY DEF DeleteTask
<1> HIDE DEF rows, applies
<1>4. /\ TypeOK' /\ Monotone /\ Alone(r) /\ req'[r] = req[r]
      /\ \/ /\ stage'[r] \in {"ok", "failed"} /\ applies
            /\ tasks' = tasks \ rows /\ completed' = completed
         \/ stage'[r] = "failed" /\ tasks' = tasks /\ completed' = completed
    BY <1>2, <1>3, ExecuteStep DEF Answers
<1>5. CASE stage'[r] \in {"ok", "failed"} /\ applies
           /\ tasks' = tasks \ rows /\ completed' = completed
    BY <1>1, <1>4, <1>5, RemoveFresh DEF rows, applies, OpenRow, Concerns
<1> QED BY <1>4, <1>5, FailedStep

LEMMA ArchiveTaskFresh ==
    ASSUME HandlerInv, FreshInv, NEW r \in Requests, ArchiveTask(r)
    PROVE  FreshInv'
<1> PICK t, u : t = req[r].task /\ u = req[r].user
    OBVIOUS
<1>1. Completes(r) /\ OwnEntity(r) /\ accepted[r] > 0
    BY DEF ArchiveTask, HandlerInv, Knows, MemoryKnown, RemindersKnown
<1> DEFINE rows == Matching(t, u)
           applies == rows # {} /\ \A c \in completed : c.id # entity[r].id
<1>2. /\ rows \in SUBSET tasks /\ tasks \ rows \in SUBSET Row /\ applies \in BOOLEAN
    BY MatchingRows DEF HandlerInv
<1>3. PICK copy \in CompletedRow : /\ copy = CompletedCopy(entity[r])
                                  /\ copy.id = t /\ copy.owner = u
    <2>1. entity[r] \in Entity /\ entity[r].id = t /\ entity[r].owner = u
        BY <1>1 DEF OwnEntity, HandlerInv, TypeOK
    <2>2. CompletedCopy(entity[r]) \in CompletedRow
        BY <2>1 DEF Entity, CompletedCopy, CompletedRow
    <2> QED BY <2>1, <2>2 DEF CompletedCopy
<1>4. /\ Execute(r, applies, tasks \ rows, completed \cup {copy}, "ok", "failed")
      /\ UNCHANGED <<req, entity, queues, gone>>
    BY <1>3 DEF ArchiveTask
<1>5. applies => rows # {}
    OBVIOUS
<1> HIDE DEF rows, applies
<1>6. completed \cup {copy} \in SUBSET CompletedRow
    BY <1>3 DEF HandlerInv, TypeOK
<1>7. /\ TypeOK' /\ Monotone /\ Alone(r) /\ req'[r] = req[r]
      /\ \/ /\ stage'[r] \in {"ok", "failed"} /\ applies
            /\ tasks' = tasks \ rows /\ completed' = completed \cup {copy}
         \/ stage'[r] = "failed" /\ tasks' = tasks /\ completed' = completed
    BY <1>2, <1>4, <1>6, ExecuteStep DEF Answers
<1>8. CASE stage'[r] \in {"ok", "failed"} /\ applies
           /\ tasks' = tasks \ rows /\ completed' = completed \cup {copy}
    BY <1>1, <1>3, <1>5, <1>7, <1>8, RemoveFresh DEF rows, OpenRow, Concerns, Ends
<1> QED BY <1>7, <1>8, FailedStep

\* A statement that writes over the rows of one task leaves the same tasks.
LEMMA OverwriteKeeps ==
    ASSUME TypeOK, PrimaryKey', NEW t, NEW u, NEW W,
           tasks' = (tasks \ Matching(t, u)) \cup W, completed' = completed,
           \A y \in W : y.id = t /\ y.owner = u,
           W # {} <=> Matching(t, u) # {}
    PROVE  SameTasks
<1>1. \A x \in Matching(t, u) : x \in tasks /\ x.id = t /\ x.owner = u
    BY DEF Matching
<1> QED BY <1>1 DEF SameTasks

LEMMA UpdateTaskStatusFresh ==
    ASSUME HandlerInv, FreshInv, PrimaryKey', NEW r \in Requests, UpdateTaskStatus(r)
    PROVE  FreshInv'
<1> PICK t, u : t = req[r].task /\ u = req[r].user
    OBVIOUS
<1>1. stage[r] = "UpdateTaskStatus" /\ r \in Asking("create") /\ entity[r].id = t
    BY DEF UpdateTaskStatus, HandlerInv, Knows, MemoryKnown, CreateCalls, OwnEntity
<1> DEFINE rows == Matching(t, u)
           activated == {[x EXCEPT !.status = "active"] : x \in rows}
           applies == rows # {}
<1>2. /\ rows \in SUBSET tasks /\ tasks \ rows \in SUBSET Row
      /\ completed \in SUBSET CompletedRow /\ applies \in BOOLEAN
    BY MatchingRows DEF HandlerInv
<1>3. ASSUME NEW y \in activated
      PROVE  y \in Row /\ y.id = t /\ y.owner = u
    <2> PICK x \in rows : y = [x EXCEPT !.status = "active"]
        OBVIOUS
    <2>1. x \in Row /\ x.id = t /\ x.owner = u
        BY DEF Matching, HandlerInv, TypeOK
    <2> QED BY <2>1 DEF Row, Status
<1>4. /\ Execute(r, applies, (tasks \ rows) \cup activated, completed, "ok", "failed")
      /\ UNCHANGED <<req, entity, queues, gone>>
    BY <1>1 DEF UpdateTaskStatus
<1>5. activated # {} <=> rows # {}
    OBVIOUS
<1> HIDE DEF rows, activated, applies
<1>6. (tasks \ rows) \cup activated \in SUBSET Row
    BY <1>2, <1>3
<1>7. /\ TypeOK' /\ Monotone /\ Alone(r) /\ req'[r] = req[r]
      /\ stage'[r] \in {"ok", "failed"} /\ completed' = completed
      /\ tasks' = tasks \/ tasks' = (tasks \ rows) \cup activated
    BY <1>2, <1>4, <1>6, ExecuteStep DEF Answers
<1>8. SameTasks
    BY <1>3, <1>5, <1>7, SameTable, OverwriteKeeps DEF rows, HandlerInv
<1>9. Claims(r)
    BY <1>1, <1>7 DEF Claims, Kept, Asking, Ends, Completes, Deletes
<1> QED BY <1>7, <1>8, <1>9, CalmStep

LEMMA UpdateTaskFresh ==
    ASSUME HandlerInv, FreshInv, PrimaryKey', NEW r \in Requests, UpdateTask(r)
    PROVE  FreshInv'
<1> PICK t, u, e : t = req[r].task /\ u = req[r].user /\ e = entity[r]
    OBVIOUS
<1>1. /\ stage[r] = "UpdateTask" /\ r \in Asking("update") /\ OwnEntity(r)
      /\ e.status \in Status /\ e.id = t /\ e.owner = u
    BY DEF UpdateTask, HandlerInv, Knows, MemoryKnown, OwnEntity
<1> DEFINE rows == Matching(t, u)
           written == {e : x \in rows}
           applies == rows # {}
<1>2. /\ rows \in SUBSET tasks /\ tasks \ rows \in SUBSET Row
      /\ completed \in SUBSET CompletedRow /\ applies \in BOOLEAN
    BY MatchingRows DEF HandlerInv
<1>3. e \in Row
    BY <1>1 DEF OwnEntity, HandlerInv, TypeOK, Entity, Row
<1>4. /\ Execute(r, applies, (tasks \ rows) \cup written, completed, "ok", "failed")
      /\ UNCHANGED <<req, entity, queues, gone>>
    BY <1>1 DEF UpdateTask
<1>5. (\A y \in written : y = e) /\ (written # {} <=> rows # {})
    OBVIOUS
<1> HIDE DEF rows, written, applies
<1>6. (tasks \ rows) \cup written \in SUBSET Row
    BY <1>2, <1>3, <1>5
<1>7. /\ TypeOK' /\ Monotone /\ Alone(r) /\ req'[r] = req[r]
      /\ stage'[r] \in {"ok", "failed"} /\ completed' = completed
      /\ tasks' = tasks \/ tasks' = (tasks \ rows) \cup written
    BY <1>2, <1>4, <1>6, ExecuteStep DEF Answers
<1>8. SameTasks
    BY <1>1, <1>5, <1>7, SameTable, OverwriteKeeps DEF rows, HandlerInv
<1>9. Claims(r)
    BY <1>1, <1>7 DEF Claims, Kept, Asking, Ends, Completes, Deletes, FreshInv, UpdatesInv
<1> QED BY <1>7, <1>8, <1>9, CalmStep

(***************************************************************************)
(* The steps that begin and end handlers                                   *)
(***************************************************************************)

\* A request that begins has not written yet, so it claims nothing.
LEMMA BeginFresh ==
    ASSUME HandlerInv, FreshInv, TypeOK', Monotone, NEW r \in Requests, stage[r] = "idle",
           Alone(r), tasks' = tasks, completed' = completed,
           stage'[r] \in {"SaveTask", "UpdateTask", "CancelRemind"},
           stage'[r] = "UpdateTask" => ~Completes(r)', OneCreatePerId'
    PROVE  FreshInv'
<1>1. req[r] = None
    BY DEF HandlerInv, Knows, MemoryKnown
<1>2. Forth
    BY <1>1 DEF Forth, Alone
<1>3. Claims(r)
    BY DEF Claims, Kept
<1>4. \A s \in Requests \ {r} : Claims(s)
    BY DEF Alone, Claims, Asking, Ends, Completes, Deletes, FreshInv, UpdatesInv
<1> QED BY <1>2, <1>3, <1>4, SameTable, Calm DEF HandlerInv

LEMMA BeginCreateFresh ==
    ASSUME HandlerInv, FreshInv, ~ClientsReuseIds, NEW r \in Requests, BeginCreateTask(r)
    PROVE  FreshInv'
<1> DEFINE E(q) == [id |-> q.task, owner |-> q.user, status |-> "pending_reminders",
                    content |-> r]
<1> PICK q \in CreateRequest :
        /\ \A s \in Asking("create") : req[s].task # q.task
        /\ req' = [req EXCEPT ![r] = q] /\ entity' = [entity EXCEPT ![r] = E(q)]
    BY DEF BeginCreateTask
<1>1. q \in Request /\ q.op = "create" /\ E(q) \in Entity
    BY DEF Request, CreateRequest, Entity, Status
<1> HIDE DEF E
<1>2. /\ TypeOK' /\ Monotone /\ Alone(r) /\ tasks' = tasks /\ completed' = completed
      /\ stage'[r] = "SaveTask" /\ req'[r] = q
    BY <1>1, BeginStep DEF BeginCreateTask, GoTo, Calls, tables
<1>3. OneCreatePerId'
    BY <1>2 DEF FreshInv, OneCreatePerId, Asking, Alone
<1> QED BY <1>2, <1>3, BeginFresh DEF BeginCreateTask

LEMMA BeginUpdateFresh ==
    ASSUME HandlerInv, FreshInv, NEW r \in Requests, BeginUpdateTask(r)
    PROVE  FreshInv'
<1> PICK q \in UpdateRequest : \E x \in Matching(q.task, q.user) :
        /\ req' = [req EXCEPT ![r] = q]
        /\ entity' = [entity EXCEPT ![r] = ApplyUpdate(x, q, r)]
        /\ GoTo(r, AfterRead(ApplyUpdate(x, q, r)))
    BY DEF BeginUpdateTask
<1> PICK x \in Matching(q.task, q.user) :
        /\ req' = [req EXCEPT ![r] = q]
        /\ entity' = [entity EXCEPT ![r] = ApplyUpdate(x, q, r)]
        /\ GoTo(r, AfterRead(ApplyUpdate(x, q, r)))
    OBVIOUS
<1> DEFINE e == ApplyUpdate(x, q, r)
<1>1. q \in Request /\ q.op = "update"
    BY DEF Request, UpdateRequest
<1>2. e \in Entity \cup {None} /\ (e.status = "completed" <=> q.status = "completed")
    BY ApplyUpdateFields DEF Matching, HandlerInv, TypeOK
<1> HIDE DEF e
<1> DEFINE s == AfterRead(e)
<1>3. /\ s \in Calls
      /\ \/ s = "CancelRemind" /\ e.status = "completed"
         \/ s = "UpdateTask" /\ e.status # "completed"
    BY DEF AfterRead, Calls
<1> HIDE DEF s
<1>4. /\ TypeOK' /\ Monotone /\ Alone(r) /\ tasks' = tasks /\ completed' = completed
      /\ stage'[r] = s /\ req'[r] = q
    <2>1. /\ stage[r] = "idle" /\ UNCHANGED <<tables, queues, gone>>
          /\ req' = [req EXCEPT ![r] = q] /\ entity' = [entity EXCEPT ![r] = e]
          /\ stage' = [stage EXCEPT ![r] = s]
        BY DEF BeginUpdateTask, GoTo, e, s
    <2>2. /\ TypeOK' /\ Monotone /\ Alone(r)
          /\ stage'[r] = s /\ req'[r] = q /\ entity'[r] = e
          /\ attempt'[r] = 0 /\ accepted'[r] = 0 /\ q # None
          /\ ActiveIsBacked' /\ CompletionCancelsReminders'
        BY <1>1, <1>2, <1>3, <2>1, BeginStep
    <2> QED BY <2>1, <2>2 DEF tables
<1>5. OneCreatePerId'
    BY <1>1, <1>4 DEF FreshInv, OneCreatePerId, Asking, Alone
<1>6. stage'[r] = "UpdateTask" => ~Completes(r)'
    BY <1>2, <1>3, <1>4 DEF Completes
<1> QED BY <1>3, <1>4, <1>5, <1>6, BeginFresh DEF BeginUpdateTask

LEMMA BeginDeleteFresh ==
    ASSUME HandlerInv, FreshInv, NEW r \in Requests, BeginDeleteTask(r)
    PROVE  FreshInv'
<1> PICK q \in DeleteRequest : req' = [req EXCEPT ![r] = q]
    BY DEF BeginDeleteTask
<1>1. q \in Request /\ q.op = "delete"
    BY DEF Request, DeleteRequest
<1>2. entity[r] \in Entity \cup {None} /\ entity' = [entity EXCEPT ![r] = entity[r]]
    BY DEF BeginDeleteTask, HandlerInv, TypeOK
<1>3. /\ TypeOK' /\ Monotone /\ Alone(r) /\ tasks' = tasks /\ completed' = completed
      /\ stage'[r] = "CancelRemind" /\ req'[r] = q
    BY <1>1, <1>2, BeginStep DEF BeginDeleteTask, GoTo, Calls, tables
<1>4. OneCreatePerId'
    BY <1>1, <1>3 DEF FreshInv, OneCreatePerId, Asking, Alone
<1> QED BY <1>3, <1>4, BeginFresh DEF BeginDeleteTask

\* A step that at most ends requests without success: Refuse, Disconnect, Crash.
LEMMA AbortFresh ==
    ASSUME HandlerInv, HandlerInv', FreshInv,
           UNCHANGED <<tasks, completed, req, accepted>>,
           \A r \in Requests : stage'[r] = stage[r] \/ stage'[r] \in {"aborted", "failed"}
    PROVE  FreshInv'
<1>1. Forth
    BY MaxAttemptsAssumption DEF Forth, Monotone, HandlerInv, TypeOK
<1>2. \A r \in Requests : Claims(r)
    BY DEF Claims, Kept, Asking, Ends, Completes, Deletes, FreshInv, UpdatesInv
<1>3. OneCreatePerId'
    BY DEF FreshInv, OneCreatePerId, Asking
<1> QED BY <1>1, <1>2, <1>3, SameTable, Calm DEF HandlerInv

LEMMA FreshInit == Init => FreshInv
<1> SUFFICES ASSUME Init PROVE FreshInv
    OBVIOUS
<1>1. Asking("create") = {} /\ tasks = {} /\ completed = {}
    BY DEF Init, Asking
<1>2. \A r \in Requests : stage[r] = "idle"
    BY DEF Init
<1>3. OneCreatePerId /\ RowsInv /\ KeptInv /\ EndedInv /\ UpdatesInv
    BY <1>1, <1>2 DEF OneCreatePerId, RowsInv, KeptInv, EndedInv, UpdatesInv, PrimaryKey
<1>4. OneEnding /\ DeletedStaysDeleted /\ OneTaskPerId
    BY <1>1, <1>2 DEF OneEnding, DeletedStaysDeleted, OneTaskPerId
<1> QED BY <1>3, <1>4 DEF FreshInv

LEMMA FreshStep ==
    ~ClientsReuseIds /\ HandlerInv /\ HandlerInv' /\ FreshInv /\ [Next]_vars => FreshInv'
<1> SUFFICES ASSUME ~ClientsReuseIds, HandlerInv, HandlerInv', FreshInv, [Next]_vars
             PROVE  FreshInv'
    OBVIOUS
<1>1. PrimaryKey'
    BY PrimaryKeyStep DEF FreshInv, RowsInv
<1>2. ASSUME NEW r \in Requests, Begin(r) PROVE FreshInv'
    <2>1. CASE Refuse(r)
        <3>1. /\ UNCHANGED <<tasks, completed, req, accepted>>
              /\ \A s \in Requests : stage'[s] = stage[s] \/ stage'[s] \in {"aborted", "failed"}
            BY <2>1 DEF Refuse, GoTo, tables, queues, HandlerInv, TypeOK
        <3> QED BY <3>1, AbortFresh
    <2> QED BY <1>2, <2>1, BeginCreateFresh, BeginUpdateFresh, BeginDeleteFresh DEF Begin
<1>3. ASSUME NEW r \in Requests, Continue(r) PROVE FreshInv'
    BY <1>1, <1>3, SaveTaskFresh, RegisterRemindFresh, RollbackTaskFresh,
        UpdateTaskStatusFresh, CancelRemindFresh, UpdateTaskFresh, ArchiveTaskFresh,
        DeleteTaskFresh DEF Continue
<1>4. ASSUME NEW r \in Requests, Disconnect(r) PROVE FreshInv'
    BY <1>4, AbortFresh DEF Disconnect, tables, queues
<1>5. ASSUME Crash PROVE FreshInv'
    BY <1>5, AbortFresh DEF Crash, tables, queues
<1>6. ASSUME UNCHANGED vars PROVE FreshInv'
    BY <1>6, AbortFresh DEF vars
<1> QED BY <1>2, <1>3, <1>4, <1>5, <1>6 DEF Next, Quiet

-----------------------------------------------------------------------------
(***************************************************************************)
(* The theorems                                                            *)
(***************************************************************************)

\* While no client sends the id of another create again, what the tables and the
\* answers say of each other is invariant, whatever else fails.
THEOREM FreshIdsInvariant ==
    ASSUME ~ClientsReuseIds
    PROVE  Spec => []FreshInv
<1>1. Init => FreshInv
    BY FreshInit
<1>2. HandlerInv /\ HandlerInv' /\ FreshInv /\ [Next]_vars => FreshInv'
    BY FreshStep
<1> QED BY <1>1, <1>2, HandlersKnow, PTL DEF Spec

\* A task whose creation was answered with success has its reminders registered
\* and stays until a cancellation was accepted (task.go:207-263).
THEOREM CreatedTasksAreKept ==
    ASSUME ~ClientsReuseIds
    PROVE  Spec => []CreatedTaskIsKept
<1>1. HandlerInv /\ FreshInv => CreatedTaskIsKept
    BY DEF HandlerInv, Knows, RemindersKnown, FreshInv, KeptInv, CreatedTaskIsKept, Asking
<1> QED BY <1>1, HandlersKnow, FreshIdsInvariant, PTL

\* However deletes and completions of a task race, one of them at most is told
\* that it succeeded (task.go:642-668, 785-853).
THEOREM TasksEndOnce ==
    ASSUME ~ClientsReuseIds
    PROVE  Spec => []OneEnding
<1>1. FreshInv => OneEnding
    BY DEF FreshInv
<1> QED BY <1>1, FreshIdsInvariant, PTL

\* No update or completion that read a task before it was deleted brings it back
\* (infra/repository/task.go:164-240).
THEOREM DeletesAreFinal ==
    ASSUME ~ClientsReuseIds
    PROVE  Spec => []DeletedStaysDeleted
<1>1. FreshInv => DeletedStaysDeleted
    BY DEF FreshInv
<1> QED BY <1>1, FreshIdsInvariant, PTL

\* No id is both open and completed: the archive moves the row in one transaction
\* and no update inserts (infra/repository/task.go:206-240).
THEOREM TasksAreOpenOrCompleted ==
    ASSUME ~ClientsReuseIds
    PROVE  Spec => []OneTaskPerId
<1>1. FreshInv => OneTaskPerId
    BY DEF FreshInv
<1> QED BY <1>1, FreshIdsInvariant, PTL

(***************************************************************************)
(* The compensating delete                                                 *)
(***************************************************************************)

\* Queue calls may fail, and the process may crash; statements are executed.
OnlyQueuesFail == {"db_error", "db_ack_lost", "disconnect"} \cap Faults = {}

\* Only an insert adds an id to the table.
LEMMA OnlyInsertsAdd ==
    ASSUME HandlerInv, [Next]_vars, \A s \in Requests : ~SaveTask(s), NEW x \in tasks'
    PROVE  \E y \in tasks : y.id = x.id /\ y.owner = x.owner
<1>1. ASSUME NEW s \in Requests, RollbackTask(s) \/ DeleteTask(s) \/ ArchiveTask(s)
      PROVE  tasks' \subseteq tasks
    BY <1>1 DEF RollbackTask, DeleteTask, ArchiveTask, Execute, tables
<1>2. ASSUME NEW s \in Requests, UpdateTask(s)
      PROVE  \E y \in tasks : y.id = x.id /\ y.owner = x.owner
    <2> DEFINE rows == Matching(entity[s].id, entity[s].owner)
    <2>1. tasks' = tasks \/ tasks' = (tasks \ rows) \cup {entity[s] : y \in rows}
        BY <1>2 DEF UpdateTask, Execute, tables
    <2> QED BY <2>1 DEF Matching
<1>3. ASSUME NEW s \in Requests, UpdateTaskStatus(s)
      PROVE  \E y \in tasks : y.id = x.id /\ y.owner = x.owner
    <2> DEFINE rows == Matching(entity[s].id, req[s].user)
               active == {[y EXCEPT !.status = "active"] : y \in rows}
    <2>1. tasks' = tasks \/ tasks' = (tasks \ rows) \cup active
        BY <1>3 DEF UpdateTaskStatus, Execute, tables
    <2>2. ASSUME NEW y \in rows
          PROVE  /\ [y EXCEPT !.status = "active"].id = y.id
                 /\ [y EXCEPT !.status = "active"].owner = y.owner
        <3>1. y \in Row
            BY DEF Matching, HandlerInv, TypeOK
        <3> QED BY <3>1 DEF Row
    <2>3. rows \subseteq tasks
        BY DEF Matching
    <2> HIDE DEF rows
    <2>4. CASE x \in active
        <3> PICK y \in rows : x = [y EXCEPT !.status = "active"]
            BY <2>4
        <3> QED BY <2>2, <2>3
    <2>5. x \in tasks \/ x \in active
        BY <2>1
    <2> QED BY <2>4, <2>5
<1>4. ASSUME NEW s \in Requests, Begin(s) \/ RegisterRemind(s) \/ CancelRemind(s) \/ Disconnect(s)
      PROVE  tasks' = tasks
    BY <1>4 DEF Begin, BeginCreateTask, BeginUpdateTask, BeginDeleteTask, Refuse,
        RegisterRemind, CancelRemind, Disconnect, tables
<1>5. CASE Crash \/ UNCHANGED vars
    BY <1>5 DEF Crash, vars, tables
<1> QED BY <1>1, <1>2, <1>3, <1>4, <1>5 DEF Next, Continue, Quiet

NobodyLeft == gone = {}

\* No row comes back under the id and the user of a create that has failed.
LEMMA NoRowReturns ==
    ASSUME HandlerInv, FreshInv, [Next]_vars, NEW r \in Asking("create"), stage[r] = "failed",
           NEW t, NEW u, t = req[r].task, u = req[r].user, ~OpenRow(t, u)
    PROVE  ~OpenRow(t, u)'
<1>1. ASSUME NEW s \in Requests, SaveTask(s) PROVE ~OpenRow(t, u)'
    <2>1. stage[s] = "SaveTask" /\ (tasks' = tasks \/ tasks' = tasks \cup {entity[s]})
        BY <1>1 DEF SaveTask, Execute, tables
    <2>2. s \in Asking("create") /\ entity[s].id = req[s].task
        BY <2>1 DEF HandlerInv, Knows, MemoryKnown, OwnEntity, CreateCalls
    <2>3. entity[s].id # t
        BY <2>1, <2>2 DEF FreshInv, OneCreatePerId
    <2> QED BY <2>1, <2>3 DEF OpenRow, Matching
<1>2. CASE \A s \in Requests : ~SaveTask(s)
    <2>1. \A x \in tasks' : \E y \in tasks : y.id = x.id /\ y.owner = x.owner
        BY <1>2, OnlyInsertsAdd
    <2> QED BY <2>1 DEF OpenRow, Matching
<1> QED BY <1>1, <1>2

\* A create that fails in this step leaves no row.
LEMMA FailureLeavesNoRow ==
    ASSUME OnlyQueuesFail, HandlerInv, FreshInv, gone = {}, NEW r \in Requests, Continue(r),
           r \in Asking("create"), stage'[r] = "failed",
           NEW t, NEW u, t = req[r].task, u = req[r].user
    PROVE  ~OpenRow(t, u)'
<1> USE DEF OnlyQueuesFail
<1>1. CASE SaveTask(r)
    <2>1. stage[r] = "SaveTask" /\ entity[r].id = t
        BY <1>1 DEF SaveTask, HandlerInv, Knows, MemoryKnown, OwnEntity, CreateCalls
    <2>2. \A x \in tasks : x.id # entity[r].id
        BY <2>1 DEF FreshInv, RowsInv, Saved, OneCreatePerId, Concerns
    <2>3. AfterSave(req[r]) # "failed"
        BY DEF AfterSave
    <2> DEFINE applies == \A x \in tasks : x.id # entity[r].id
    <2>4. stage'[r] = AfterSave(req[r])
        <3>1. Execute(r, applies, tasks \cup {entity[r]}, completed, AfterSave(req[r]), "failed")
            BY <1>1 DEF SaveTask
        <3>2. applies
            BY <2>2
        <3> HIDE DEF applies
        <3> QED BY <3>1, <3>2 DEF Execute, GoTo, HandlerInv, TypeOK
    <2> QED BY <2>3, <2>4
<1>2. CASE RollbackTask(r) \/ UpdateTaskStatus(r)
    <2>1. entity[r].id = t
        BY <1>2 DEF RollbackTask, UpdateTaskStatus, HandlerInv, Knows, MemoryKnown, OwnEntity,
            CreateCalls
    <2> DEFINE rows == Matching(t, u)
    <2>2. (rows = {} /\ tasks' = tasks) \/ tasks' = tasks \ rows
        <3>1. CASE RollbackTask(r)
            <4>1. Execute(r, rows # {}, tasks \ rows, completed, "failed", "failed")
                BY <2>1, <3>1 DEF RollbackTask
            <4> HIDE DEF rows
            <4> QED BY <4>1 DEF Execute, tables
        <3>2. CASE UpdateTaskStatus(r)
            <4> DEFINE active == {[x EXCEPT !.status = "active"] : x \in rows}
            <4>1. Execute(r, rows # {}, (tasks \ rows) \cup active, completed, "ok", "failed")
                BY <2>1, <3>2 DEF UpdateTaskStatus
            <4> HIDE DEF rows, active
            <4> QED BY <4>1 DEF Execute, tables, GoTo, HandlerInv, TypeOK
        <3> QED BY <1>2, <3>1, <3>2
    <2> QED BY <2>2 DEF OpenRow, Matching
<1>3. CASE RegisterRemind(r)
    BY <1>3 DEF RegisterRemind, Enqueue, GoTo, HandlerInv, TypeOK
<1>4. CASE CancelRemind(r) \/ UpdateTask(r) \/ ArchiveTask(r) \/ DeleteTask(r)
    BY <1>4 DEF CancelRemind, UpdateTask, ArchiveTask, DeleteTask, HandlerInv, Knows,
        MemoryKnown, Asking, Completes, Deletes
<1> QED BY <1>1, <1>2, <1>3, <1>4 DEF Continue

LEMMA CompensationStep ==
    ASSUME OnlyQueuesFail, HandlerInv, HandlerInv', FreshInv, NobodyLeft,
           FailedCreateLeavesNoTask, [Next]_vars
    PROVE  NobodyLeft' /\ FailedCreateLeavesNoTask'
<1>1. NobodyLeft'
    BY DEF NobodyLeft, OnlyQueuesFail, Next, Begin, BeginCreateTask, BeginUpdateTask, BeginDeleteTask,
        Refuse, Continue, SaveTask, RegisterRemind, RollbackTask, UpdateTaskStatus,
        CancelRemind, UpdateTask, ArchiveTask, DeleteTask, Disconnect, Crash, Quiet, vars
<1> SUFFICES ASSUME NEW r \in Asking("create")', stage'[r] = "failed"
             PROVE  ~OpenRow(req[r].task, req[r].user)'
    BY <1>1 DEF FailedCreateLeavesNoTask
<1> PICK t, u : t = req'[r].task /\ u = req'[r].user
    OBVIOUS
<1>2. r \in Requests /\ req'[r] # None
    BY DEF Asking
<1>3. ASSUME req'[r] = req[r], stage[r] = "failed"
      PROVE  ~OpenRow(t, u)'
    BY <1>3, NoRowReturns DEF FailedCreateLeavesNoTask, Asking
<1>4. ASSUME NEW s \in Requests, Begin(s) PROVE ~OpenRow(t, u)'
    <2>1. req'[r] = req[r] /\ stage[r] = "failed"
        <3>1. stage[s] = "idle" /\ req[s] = None
            BY <1>4 DEF Begin, BeginCreateTask, BeginUpdateTask, BeginDeleteTask, Refuse,
                HandlerInv, Knows, MemoryKnown
        <3>2. CASE r = s
            <4>1. CASE Refuse(s)
                BY <1>2, <3>1, <3>2, <4>1 DEF Refuse
            <4>2. CASE ~Refuse(s)
                BY <1>4, <3>2, <4>2 DEF Begin, BeginCreateTask, BeginUpdateTask,
                    BeginDeleteTask, GoTo, AfterRead, HandlerInv, TypeOK
            <4> QED BY <4>1, <4>2
        <3>3. CASE r # s
            BY <1>2, <1>4, <3>3 DEF Begin, BeginCreateTask, BeginUpdateTask, BeginDeleteTask,
                Refuse, GoTo, HandlerInv, TypeOK
        <3> QED BY <3>2, <3>3
    <2> QED BY <1>3, <2>1
<1>5. ASSUME NEW s \in Requests, Continue(s) PROVE ~OpenRow(t, u)'
    <2>1. req' = req
        BY <1>5 DEF Continue, SaveTask, RegisterRemind, RollbackTask, UpdateTaskStatus,
            CancelRemind, UpdateTask, ArchiveTask, DeleteTask
    <2>2. CASE r = s
        BY <1>2, <1>5, <2>1, <2>2, FailureLeavesNoRow DEF Asking, NobodyLeft
    <2>3. CASE r # s
        <3>1. ASSUME NEW x, GoTo(s, x) PROVE stage'[r] = stage[r]
            BY <1>2, <2>3, <3>1 DEF GoTo, HandlerInv, TypeOK
        <3>2. ASSUME NEW a, NEW N, NEW C, NEW x, NEW y, Execute(s, a, N, C, x, y)
              PROVE  stage'[r] = stage[r]
            BY <3>1, <3>2 DEF Execute
        <3>3. ASSUME NEW x, NEW y, Enqueue(s, x, y) PROVE stage'[r] = stage[r]
            BY <3>1, <3>3 DEF Enqueue
        <3>4. stage'[r] = stage[r]
            BY <1>5, <3>2, <3>3, Zenon DEF Continue, SaveTask, RegisterRemind, RollbackTask,
                UpdateTaskStatus, CancelRemind, UpdateTask, ArchiveTask, DeleteTask
        <3> QED BY <1>3, <2>1, <3>4
    <2> QED BY <2>2, <2>3
<1>6. ASSUME Crash \/ UNCHANGED vars \/ \E s \in Requests : Disconnect(s)
      PROVE  ~OpenRow(t, u)'
    <2>1. req'[r] = req[r] /\ stage[r] = "failed"
        BY <1>2, <1>6 DEF Crash, vars, Disconnect
    <2> QED BY <1>3, <2>1
<1> QED BY <1>4, <1>5, <1>6 DEF Next, Quiet

\* While statements are executed and clients wait, a create that is answered with
\* an error leaves no row, whatever the queues do and whoever races with the
\* compensating delete (task.go:225-248).
THEOREM FailedCreatesLeaveNothing ==
    ASSUME ~ClientsReuseIds, OnlyQueuesFail
    PROVE  Spec => []FailedCreateLeavesNoTask
<1>1. Init => NobodyLeft /\ FailedCreateLeavesNoTask
    BY DEF Init, NobodyLeft, FailedCreateLeavesNoTask, Asking
<1>2. /\ HandlerInv /\ HandlerInv' /\ FreshInv /\ NobodyLeft /\ FailedCreateLeavesNoTask
      /\ [Next]_vars
      => NobodyLeft' /\ FailedCreateLeavesNoTask'
    BY CompensationStep
<1> QED BY <1>1, <1>2, HandlersKnow, FreshIdsInvariant, PTL DEF Spec

=============================================================================
