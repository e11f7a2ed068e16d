--------------------------- MODULE TaskRefinement ---------------------------
(***************************************************************************)
(* TaskService implements TaskLifecycle while clients do not reuse ids.    *)
(***************************************************************************)
EXTENDS TaskInvariants

\* The refinement mapping: each promise is read off the tables, the queues and
\* the answers that were given.
TaskOf(r) == <<req[r].task, req[r].user>>

SpentIds == {req[r].task : r \in {s \in Asking("create") : stage[s] # "SaveTask"}}
OpenTasks == {<<x.id, x.owner>> : x \in tasks}
PromisedTasks == {TaskOf(r) : r \in {s \in Asking("create") : stage[s] = "ok"}}
SilencedTasks ==
    {TaskOf(r) : r \in {s \in Requests : (Completes(s) \/ Deletes(s)) /\ accepted[s] > 0}}
DoneTasks == {<<c.id, c.owner>> : c \in completed}

Lifecycle == INSTANCE TaskLifecycle WITH
    spent <- SpentIds,
    open <- OpenTasks,
    promised <- PromisedTasks,
    silenced <- SilencedTasks,
    done <- DoneTasks

\* Every step of the handlers, of their environment and of a crash is a step of
\* the abstract life of one task, or none (task.go, repository/*.go).
ImplementsLifecycle == Lifecycle!Spec

=============================================================================
