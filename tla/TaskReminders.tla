---------------------------- MODULE TaskReminders ----------------------------
(***************************************************************************)
(* The task module together with what is behind its queues: Remind Time    *)
(* Management, which takes messages from remind-register and remind-cancel *)
(* and keeps the reminders.  That service is not part of the repository;   *)
(* it is modelled from the two messages the code sends it                  *)
(* (remindregister and remindcancel: a reminder is registered for a task,  *)
(* and cancelled by task and user).  The queues are two, so nothing orders *)
(* a cancellation after the registration it is meant for, and a message    *)
(* that was sent twice is taken twice.  Whether it takes two spellings of  *)
(* an id for one task is not known here, so both are possible.             *)
(***************************************************************************)
EXTENDS TaskService

VARIABLES
    taken,      \* copies of each request's message the service has taken
    reminders,  \* the creates whose reminders it keeps
    late        \* the creates taken after a cancellation of the same task

remindVars == <<taken, reminders, late>>
allVars == <<vars, remindVars>>

Cancels(r) == Completes(r) \/ Deletes(r)

RemindersInit ==
    /\ Init
    /\ taken = [r \in Requests |-> 0]
    /\ reminders = {}
    /\ late = {}

TakeRegister(r) ==
    /\ r \in Asking("create") /\ taken[r] < accepted[r]
    /\ taken' = [taken EXCEPT ![r] = @ + 1]
    /\ reminders' = reminders \cup {r}
    /\ late' = IF \E s \in Requests : /\ req[s] # None /\ Cancels(s) /\ taken[s] > 0
                                      /\ Concerns(s, req[r].task, req[r].user)
               THEN late \cup {r} ELSE late
    /\ UNCHANGED vars

TakeCancel(r) ==
    /\ r \in Requests /\ Cancels(r) /\ taken[r] < accepted[r]
    /\ taken' = [taken EXCEPT ![r] = @ + 1]
    /\ \/ reminders' = {s \in reminders : ~Concerns(s, req[r].task, req[r].user)}
       \/ req[r].spelling # "canonical" /\ UNCHANGED reminders
    /\ UNCHANGED <<late, vars>>

RemindersNext ==
    \/ Next /\ UNCHANGED remindVars
    \/ \E r \in Requests : TakeRegister(r) \/ TakeCancel(r)

RemindersSpec == RemindersInit /\ [][RemindersNext]_allVars

-----------------------------------------------------------------------------

\* No handler is running and both queues are empty.
Settled == InFlight = {} /\ taken = accepted

\* The cancellations that were sent for the task of a create.
Cancellations(r) ==
    {c \in Requests : Cancels(c) /\ Concerns(c, req[r].task, req[r].user) /\ accepted[c] > 0}

\* A reminder of a task that is not open any more has one of three causes,
\* whatever fails and however requests and messages interleave: its creation was
\* not answered with success (registered although the answer was lost, or while
\* the task was deleted), its registration was taken after a cancellation, or
\* every cancellation repeats an id its client had not written canonically
\* (task.go:644, 825).  (Ids are not reused.)
OrphansAreExplained ==
    Settled =>
        \A r \in reminders :
            \/ OpenRow(req[r].task, req[r].user)
            \/ stage[r] # "ok" \/ r \in late
            \/ /\ Cancellations(r) # {}
               /\ \A c \in Cancellations(r) : req[c].spelling # "canonical"

\* A task whose creation was answered with success keeps its reminders unless a
\* cancellation by its owner was sent, the one of a failed delete or completion
\* included.
MissingRemindersAreExplained ==
    Settled =>
        \A r \in Asking("create") :
            stage[r] = "ok" /\ req[r].devices /\ r \notin reminders
            => CancelSent(req[r].task, req[r].user)

=============================================================================
