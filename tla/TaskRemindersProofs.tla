------------------------- MODULE TaskRemindersProofs -------------------------
(***************************************************************************)
(* Proofs about TaskReminders: for every set of requests, users and ids,   *)
(* all faults and every order in which the two queues deliver.             *)
(***************************************************************************)
EXTENDS TaskServiceProofs, TaskReminders

\* A cancellation of the task of create r was taken.
CancelTaken(r) ==
    \E s \in Requests :
        Cancels(s) /\ taken[s] > 0 /\ Concerns(s, req[r].task, req[r].user)

\* One that names the task as its registration did.
CanonicalTaken(r) ==
    \E s \in Requests : /\ Cancels(s) /\ req[s].spelling = "canonical"
                        /\ taken[s] > 0 /\ Concerns(s, req[r].task, req[r].user)

\* What the service has taken was sent; a reminder that outlives a canonical
\* cancellation came after it, and one that is missing was cancelled.
RemindersInv ==
    /\ taken \in [Requests -> Nat]
    /\ reminders \subseteq Requests
    /\ \A r \in Requests : taken[r] <= accepted[r]
    /\ \A r \in Requests : taken[r] > 0 => req[r] # None
    /\ \A r \in reminders : r \in Asking("create") /\ (CanonicalTaken(r) => r \in late)
    /\ \A r \in Asking("create") : taken[r] > 0 /\ r \notin reminders => CancelTaken(r)

LEMMA CancelTakenFixed ==
    ASSUME RemindersInv, Monotone, taken' = taken, NEW r \in Requests, req[r] # None
    PROVE  /\ CancelTaken(r)' <=> CancelTaken(r)
           /\ CanonicalTaken(r)' <=> CanonicalTaken(r)
BY DEF CancelTaken, CanonicalTaken, RemindersInv, Monotone, Cancels, Completes, Deletes, Asking, Concerns

\* The handlers do not touch what the service keeps.
LEMMA HandlersKeepReminders ==
    ASSUME HandlerInv, TypeOK', RemindersInv, [Next]_vars, UNCHANGED remindVars
    PROVE  RemindersInv'
<1>1. Monotone /\ taken' = taken /\ reminders' = reminders /\ late' = late
    BY StepMonotone DEF remindVars
<1>2. \A r \in Requests : req[r] # None =>
        /\ req'[r] = req[r] /\ (CancelTaken(r)' <=> CancelTaken(r))
        /\ CanonicalTaken(r)' <=> CanonicalTaken(r)
    BY <1>1, CancelTakenFixed DEF Monotone
<1>3. \A r \in Requests : taken'[r] <= accepted'[r]
    BY <1>1, MaxAttemptsAssumption DEF RemindersInv, Monotone, HandlerInv, TypeOK
<1>4. \A r \in Requests : taken'[r] > 0 => req'[r] # None
    BY <1>1, <1>2 DEF RemindersInv
<1>5. \A r \in reminders' : r \in Asking("create")' /\ (CanonicalTaken(r)' => r \in late')
    BY <1>1, <1>2 DEF RemindersInv, Asking
<1>6. \A r \in Asking("create")' : taken'[r] > 0 /\ r \notin reminders' => CancelTaken(r)'
    BY <1>1, <1>2 DEF RemindersInv, Asking
<1> QED BY <1>1, <1>3, <1>4, <1>5, <1>6 DEF RemindersInv

LEMMA TakeRegisterKeeps ==
    ASSUME RemindersInv, TypeOK, NEW r \in Requests, TakeRegister(r)
    PROVE  RemindersInv'
<1>1. /\ r \in Asking("create") /\ taken[r] < accepted[r] /\ UNCHANGED <<req, accepted>>
      /\ taken' = [taken EXCEPT ![r] = @ + 1] /\ reminders' = reminders \cup {r}
      /\ late' = IF CancelTaken(r) THEN late \cup {r} ELSE late
    BY DEF TakeRegister, vars, CancelTaken, Asking, Cancels, Completes, Deletes
<1>2. \A s \in Requests : /\ CancelTaken(s)' <=> CancelTaken(s)
                          /\ CanonicalTaken(s)' <=> CanonicalTaken(s)
    BY <1>1 DEF CancelTaken, CanonicalTaken, RemindersInv, Cancels, Completes, Deletes, Asking,
        Concerns
<1>3. /\ taken' \in [Requests -> Nat] /\ reminders' \subseteq Requests
      /\ \A s \in Requests : taken'[s] <= accepted'[s]
    BY <1>1, MaxAttemptsAssumption DEF RemindersInv, TypeOK
<1>4. \A s \in Requests : taken'[s] > 0 => req'[s] # None
    BY <1>1 DEF RemindersInv, Asking
<1>5. \A s \in reminders' : s \in Asking("create")' /\ (CanonicalTaken(s)' => s \in late')
    BY <1>1, <1>2 DEF RemindersInv, Asking, CancelTaken, CanonicalTaken
<1>6. \A s \in Asking("create")' : taken'[s] > 0 /\ s \notin reminders' => CancelTaken(s)'
    BY <1>1, <1>2 DEF RemindersInv, Asking
<1> QED BY <1>3, <1>4, <1>5, <1>6 DEF RemindersInv

LEMMA TakeCancelKeeps ==
    ASSUME RemindersInv, TypeOK, NEW r \in Requests, TakeCancel(r)
    PROVE  RemindersInv'
<1> DEFINE mine == {s \in reminders : ~Concerns(s, req[r].task, req[r].user)}
<1>1. /\ Cancels(r) /\ taken[r] < accepted[r] /\ UNCHANGED <<req, accepted, late>>
      /\ taken' = [taken EXCEPT ![r] = @ + 1]
      /\ reminders' = mine \/ (reminders' = reminders /\ req[r].spelling # "canonical")
    BY DEF TakeCancel, vars
<1>2. req[r] # None /\ taken'[r] > 0
    BY <1>1 DEF Cancels, Completes, Deletes, Asking, RemindersInv
<1>3. \A s \in Requests : CancelTaken(s)' <=>
            CancelTaken(s) \/ Concerns(r, req[s].task, req[s].user)
    BY <1>1, <1>2 DEF CancelTaken, RemindersInv, Cancels, Completes, Deletes, Asking, Concerns
<1>4. /\ taken' \in [Requests -> Nat] /\ reminders' \subseteq Requests
      /\ \A s \in Requests : taken'[s] <= accepted'[s]
    BY <1>1, MaxAttemptsAssumption DEF RemindersInv, TypeOK
<1>5. \A s \in Requests : taken'[s] > 0 => req'[s] # None
    BY <1>1, <1>2 DEF RemindersInv
<1>6. \A s \in reminders' : s \in Asking("create")' /\ (CanonicalTaken(s)' => s \in late')
    <2>1. \A s \in Requests : CanonicalTaken(s)' =>
            \/ CanonicalTaken(s)
            \/ req[r].spelling = "canonical" /\ Concerns(r, req[s].task, req[s].user)
        BY <1>1, <1>2 DEF CanonicalTaken, RemindersInv, Cancels, Completes, Deletes, Asking, Concerns
    <2> QED BY <1>1, <2>1 DEF RemindersInv, Concerns, Asking
<1>7. \A s \in Asking("create")' : taken'[s] > 0 /\ s \notin reminders' => CancelTaken(s)'
    <2> SUFFICES ASSUME NEW s \in Asking("create"), taken'[s] > 0, s \notin reminders'
                 PROVE  CancelTaken(s)'
        BY <1>1 DEF Asking
    <2>1. s # r
        BY <1>1 DEF Cancels, Completes, Deletes, Asking
    <2> QED BY <1>1, <1>3, <2>1 DEF RemindersInv, Asking, Concerns
<1> QED BY <1>4, <1>5, <1>6, <1>7 DEF RemindersInv

LEMMA RemindersStep ==
    HandlerInv /\ HandlerInv' /\ RemindersInv /\ [RemindersNext]_allVars => RemindersInv'
<1> SUFFICES ASSUME HandlerInv, HandlerInv', RemindersInv, [RemindersNext]_allVars
             PROVE  RemindersInv'
    OBVIOUS
<1>1. CASE [Next]_vars /\ UNCHANGED remindVars
    BY <1>1, HandlersKeepReminders DEF HandlerInv
<1>2. ASSUME NEW r \in Requests, TakeRegister(r) PROVE RemindersInv'
    BY <1>2, TakeRegisterKeeps DEF HandlerInv
<1>3. ASSUME NEW r \in Requests, TakeCancel(r) PROVE RemindersInv'
    BY <1>3, TakeCancelKeeps DEF HandlerInv
<1> QED BY <1>1, <1>2, <1>3 DEF RemindersNext, allVars

\* The steps of the composition are steps of the handlers, or leave them alone.
LEMMA HandlersStep == [RemindersNext]_allVars => [Next]_vars
BY DEF RemindersNext, TakeRegister, TakeCancel, allVars

LEMMA RemindersStart == RemindersInit => Init /\ RemindersInv
<1> SUFFICES ASSUME RemindersInit PROVE Init /\ RemindersInv
    OBVIOUS
<1>1. /\ Init /\ reminders = {} /\ taken = [r \in Requests |-> 0]
      /\ \A r \in Requests : accepted[r] = 0
    BY DEF RemindersInit, Init
<1> QED BY <1>1 DEF RemindersInv, Asking

-----------------------------------------------------------------------------
(***************************************************************************)
(* The theorems                                                            *)
(***************************************************************************)

\* The service keeps what the messages it has taken say, in any order and any
\* number of copies, next to what the handlers know.
THEOREM RemindersInvariant == RemindersSpec => [](HandlerInv /\ RemindersInv)
<1>1. RemindersInit => HandlerInv /\ RemindersInv
    BY RemindersStart, InitStep
<1>2. HandlerInv /\ [RemindersNext]_allVars => HandlerInv'
    BY HandlersStep, NextStep
<1>3. HandlerInv /\ HandlerInv' /\ RemindersInv /\ [RemindersNext]_allVars => RemindersInv'
    BY RemindersStep
<1> QED BY <1>1, <1>2, <1>3, PTL DEF RemindersSpec

\* A task that was promised keeps its reminders unless its owner's cancellation
\* was accepted: no order of the two queues and no lost answer loses them
\* otherwise (task.go:225-248, 642-668, 823-836).
THEOREM MissingExplained == RemindersSpec => []MissingRemindersAreExplained
<1>1. HandlerInv /\ RemindersInv => MissingRemindersAreExplained
    <2> SUFFICES ASSUME HandlerInv, RemindersInv, Settled, NEW r \in Asking("create"),
                        stage[r] = "ok", req[r].devices, r \notin reminders
                 PROVE  CancelSent(req[r].task, req[r].user)
        BY DEF MissingRemindersAreExplained
    <2>1. r \in Requests /\ taken[r] > 0 /\ taken = accepted
        BY DEF HandlerInv, Knows, RemindersKnown, Settled, Asking
    <2>2. CancelTaken(r)
        BY <2>1 DEF RemindersInv
    <2> QED BY <2>1, <2>2 DEF CancelTaken, CancelSent, Cancels
<1> QED BY <1>1, RemindersInvariant, PTL

\* A reminder without its task belongs to a creation that was not answered with
\* success, or its registration was taken after a cancellation, or no cancellation
\* names it as the registration did: there is no fourth way, whatever fails
\* (task.go:225-240, 642-668, 823-838).
THEOREM OrphansExplained ==
    ASSUME ~ClientsReuseIds
    PROVE  RemindersSpec => []OrphansAreExplained
<1>1. RemindersInit => FreshInv
    BY RemindersStart, FreshInit
<1>2. HandlerInv /\ HandlerInv' /\ FreshInv /\ [RemindersNext]_allVars => FreshInv'
    BY HandlersStep, FreshStep
<1>3. HandlerInv /\ RemindersInv /\ FreshInv => OrphansAreExplained
    <2> SUFFICES ASSUME HandlerInv, RemindersInv, FreshInv, Settled, NEW r \in reminders,
                        stage[r] = "ok", ~OpenRow(req[r].task, req[r].user)
                 PROVE  \/ r \in late
                        \/ /\ Cancellations(r) # {}
                           /\ \A c \in Cancellations(r) : req[c].spelling # "canonical"
        BY DEF OrphansAreExplained
    <2>1. r \in Asking("create")
        BY DEF RemindersInv
    <2>2. CancelSent(req[r].task, req[r].user) /\ taken = accepted
        BY <2>1 DEF FreshInv, KeptInv, Settled
    <2>3. Cancellations(r) # {}
        BY <2>2 DEF CancelSent, Cancellations, Cancels
    <2>4. ASSUME NEW c \in Cancellations(r), req[c].spelling = "canonical"
          PROVE  r \in late
        BY <2>2, <2>4 DEF Cancellations, CanonicalTaken, RemindersInv
    <2> QED BY <2>3, <2>4
<1> QED BY <1>1, <1>2, <1>3, RemindersInvariant, PTL DEF RemindersSpec

=============================================================================
