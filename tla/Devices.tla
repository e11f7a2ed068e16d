------------------------------- MODULE Devices -------------------------------
(***************************************************************************)
(* The device registry (internal/device: RegisterDevice, GetUserDevices    *)
(* and the table devices) and its use by CreateTask: the device client of  *)
(* the task module with its retries (internal/task/infra/deviceclient),    *)
(* and the devices a reminder is registered for.                           *)
(*                                                                         *)
(* Registrations run concurrently, with ids that clients choose, and read  *)
(* the row before they write it.  The FCM token a registration brings is   *)
(* named by the registration; an empty token is none.                      *)
(***************************************************************************)
EXTENDS Naturals

CONSTANTS
    Registrations,  \* calls of RegisterDevice
    Creations,      \* calls of CreateTask
    Users,
    DeviceIds,
    MaxAttempts,    \* of the device client (3)
    Faults,         \* what may go wrong outside the handlers
    None            \* no row, no token, no id yet

FaultKinds == {"db_error", "db_ack_lost", "unauthorized", "unavailable", "disconnect", "crash"}

ASSUME DevicesFaultsAssumption == Faults \subseteq FaultKinds
ASSUME DevicesAttemptsAssumption == MaxAttempts \in Nat \ {0}
ASSUME DevicesCallsAssumption == Registrations \cap Creations = {}

Calls == Registrations \cup Creations
Device == [user: Users, token: Registrations \cup {None}]
Notified == DeviceIds \X Registrations

ASSUME DevicesNoneAssumption == None \notin Registrations \cup DeviceIds \cup Users \cup Device

VARIABLES
    rows,      \* the table devices
    stage,     \* the next step of each call, or its answer
    user,      \* the user of each call
    device,    \* the device a registration is about
    token,     \* the token it brings
    attempts,  \* what a creation has left to fetch the devices
    listed,    \* the devices it got, with their tokens
    messages,  \* the devices each creation registered reminders for
    ended,     \* the registrations that had ended when one began
    seen,      \* the devices with tokens its user had during a creation
    steady     \* those the user had all the time

vars == <<rows, stage, user, device, token, attempts, listed, messages, ended, seen, steady>>
registration == <<device, token, ended>>
creation == <<attempts, listed, messages>>

Steps == {"Lookup", "SaveDevice", "SelectDevice", "UpdateDevice", "Fetch", "Receive", "Send"}
Answers == {"ok", "owned", "not_found", "refused", "failed", "aborted"}

InFlight == {c \in Calls : stage[c] \in Steps}

TypeOK ==
    /\ rows \in [DeviceIds -> Device \cup {None}]
    /\ stage \in [Calls -> {"idle"} \cup Steps \cup Answers]
    /\ user \in [Calls -> Users \cup {None}]
    /\ device \in [Registrations -> DeviceIds \cup {None}]
    /\ token \in [Registrations -> Registrations \cup {None}]
    /\ attempts \in [Creations -> 0..MaxAttempts]
    /\ listed \in [Creations -> SUBSET (DeviceIds \X (Registrations \cup {None}))]
    /\ messages \in [Creations -> SUBSET Notified]
    /\ ended \in [Registrations -> SUBSET Registrations]
    /\ seen \in [Creations -> SUBSET Notified]
    /\ steady \in [Creations -> SUBSET Notified]

Init ==
    /\ rows = [d \in DeviceIds |-> None]
    /\ stage = [c \in Calls |-> "idle"]
    /\ user = [c \in Calls |-> None]
    /\ device = [r \in Registrations |-> None]
    /\ token = [r \in Registrations |-> None]
    /\ attempts = [c \in Creations |-> MaxAttempts]
    /\ listed = [c \in Creations |-> {}]
    /\ messages = [c \in Creations |-> {}]
    /\ ended = [r \in Registrations |-> {}]
    /\ seen = [c \in Creations |-> {}]
    /\ steady = [c \in Creations |-> {}]

GoTo(c, s) == stage' = [stage EXCEPT ![c] = s]
Fails(c, fault) == fault \in Faults /\ GoTo(c, "failed")

\* The devices of a user, and those that can be notified.
Own(table, u) == {d \in DeviceIds : IF table[d] = None THEN FALSE ELSE table[d].user = u}
List(table, u) == {<<d, table[d].token>> : d \in Own(table, u)}

\* Mutant: devices without a token are kept.
WithFCMToken_All(devices) == devices

\* filterDevicesWithFCMToken
WithFCMToken(devices) == {p \in devices : p[2] # None}

\* A write to the table, and what creations in progress see of it.
Write(table) ==
    /\ rows' = table
    /\ seen' = [c \in Creations |-> seen[c] \cup WithFCMToken(List(table, user[c]))]
    /\ steady' = [c \in Creations |-> steady[c] \cap WithFCMToken(List(table, user[c]))]

NoWrite == UNCHANGED <<rows, seen, steady>>

(***************************************************************************)
(* RegisterDevice                                                          *)
(***************************************************************************)

\* The session is valid; a client that names no device gets a new id.
BeginRegisterDevice(r) ==
    /\ stage[r] = "idle"
    /\ \E u \in Users, t \in {r, None} :
        user' = [user EXCEPT ![r] = u] /\ token' = [token EXCEPT ![r] = t]
    /\ \E d \in DeviceIds :
        /\ device' = [device EXCEPT ![r] = d]
        /\ \/ GoTo(r, "Lookup")
           \/ /\ rows[d] = None /\ \A q \in Registrations : device[q] # d
              /\ GoTo(r, "SaveDevice")
    /\ ended' = [ended EXCEPT ![r] = {q \in Registrations : stage[q] \in Answers}]
    /\ NoWrite /\ UNCHANGED creation

\* The session is not valid, cannot be validated, or the platform is unknown.
Refuse(c) ==
    /\ stage[c] = "idle"
    /\ GoTo(c, "refused")
    /\ NoWrite /\ UNCHANGED <<user, registration, creation>>

\* GetDeviceByID and the check of the owner.
Lookup(r) ==
    /\ stage[r] = "Lookup"
    /\ LET d == device[r]
       IN \/ GoTo(r, IF rows[d] = None THEN "SaveDevice"
                     ELSE IF rows[d].user = user[r] THEN "SelectDevice" ELSE "owned")
          \/ Fails(r, "db_error")
    /\ NoWrite /\ UNCHANGED <<user, registration, creation>>

\* A statement that writes: executed or not, and the answer may be lost.
Execute(r, table) ==
    \/ Write(table) /\ (GoTo(r, "ok") \/ Fails(r, "db_ack_lost"))
    \/ NoWrite /\ Fails(r, "db_error")

\* Mutant: the insert is an upsert.
SaveDevice_Upsert(r) ==
    /\ stage[r] = "SaveDevice"
    /\ Execute(r, [rows EXCEPT ![device[r]] = [user |-> user[r], token |-> token[r]]])
    /\ UNCHANGED <<user, registration, creation>>

\* INSERT INTO devices: a row that is there by now is an error.
SaveDevice(r) ==
    /\ stage[r] = "SaveDevice"
    /\ IF rows[device[r]] = None
       THEN Execute(r, [rows EXCEPT ![device[r]] = [user |-> user[r], token |-> token[r]]])
       ELSE NoWrite /\ GoTo(r, "failed")
    /\ UNCHANGED <<user, registration, creation>>

\* UpdateDevice of the repository: SELECT ... WHERE id AND user_id ...
SelectDevice(r) ==
    /\ stage[r] = "SelectDevice"
    /\ \/ GoTo(r, IF device[r] \in Own(rows, user[r]) THEN "UpdateDevice" ELSE "not_found")
       \/ Fails(r, "db_error")
    /\ NoWrite /\ UNCHANGED <<user, registration, creation>>

\* Mutant: columns without a value are not written.
UpdateDevice_SkipNil(r) ==
    /\ stage[r] = "UpdateDevice"
    /\ Execute(r, [rows EXCEPT ![device[r]] =
                      [@ EXCEPT !.token = IF token[r] = None THEN @ ELSE token[r]]])
    /\ UNCHANGED <<user, registration, creation>>

\* ... then UPDATE ... WHERE id.
UpdateDevice(r) ==
    /\ stage[r] = "UpdateDevice"
    /\ Execute(r, [rows EXCEPT ![device[r]] = [@ EXCEPT !.token = token[r]]])
    /\ UNCHANGED <<user, registration, creation>>

(***************************************************************************)
(* CreateTask: GetUserDevicesWithRetry, then the reminders                 *)
(***************************************************************************)

BeginCreateTask(c) ==
    /\ stage[c] = "idle"
    /\ \E u \in Users :
        /\ user' = [user EXCEPT ![c] = u]
        /\ seen' = [seen EXCEPT ![c] = WithFCMToken(List(rows, u))]
        /\ steady' = [steady EXCEPT ![c] = WithFCMToken(List(rows, u))]
    /\ GoTo(c, "Fetch")
    /\ UNCHANGED <<rows, registration, creation>>

\* Mutant: the query has lost its condition.
ListDevicesByUserID_All(u) == UNION {List(rows, v) : v \in Users}

ListDevicesByUserID(u) == List(rows, u)

\* The device service lists the devices ...
Fetch(c) ==
    /\ stage[c] = "Fetch"
    /\ \/ /\ listed' = [listed EXCEPT ![c] = ListDevicesByUserID(user[c])] /\ GoTo(c, "Receive")
       \/ /\ "unauthorized" \in Faults
          /\ listed' = listed /\ GoTo(c, "refused")
    /\ NoWrite /\ UNCHANGED <<user, registration, attempts, messages>>

\* Mutant: attempts are not counted.
Retry_Uncounted(c) ==
    /\ GoTo(c, "Fetch")
    /\ attempts' = attempts

\* After ErrDeviceServiceUnavailable: the next attempt, or the error.
Retry(c) ==
    /\ GoTo(c, IF attempts[c] > 1 THEN "Fetch" ELSE "failed")
    /\ attempts' = [attempts EXCEPT ![c] = @ - 1]

\* ... and the client gets the answer, or ErrDeviceServiceUnavailable: after
\* five seconds, or at once.  While it waits for the next attempt, the request
\* may be cancelled.
Receive(c) ==
    /\ stage[c] = "Receive"
    /\ \/ GoTo(c, "Send") /\ attempts' = attempts
       \/ "unavailable" \in Faults /\ Retry(c)
       \/ Fails(c, "disconnect") /\ attempts' = attempts
    /\ NoWrite /\ UNCHANGED <<user, registration, listed, messages>>

\* The row is saved and the reminders registered, some time after; without a
\* device that can be notified no reminders are.
Send(c) ==
    /\ stage[c] = "Send"
    /\ \/ messages' = [messages EXCEPT ![c] = WithFCMToken(listed[c])] /\ GoTo(c, "ok")
       \/ messages' = messages /\ GoTo(c, "failed")
    /\ NoWrite /\ UNCHANGED <<user, registration, attempts, listed>>

\* The process dies; PostgreSQL keeps what is committed.
Crash ==
    /\ "crash" \in Faults
    /\ InFlight # {}
    /\ stage' = [c \in Calls |-> IF c \in InFlight THEN "aborted" ELSE stage[c]]
    /\ NoWrite /\ UNCHANGED <<user, registration, creation>>

Register(r) ==
    BeginRegisterDevice(r) \/ Lookup(r) \/ SaveDevice(r) \/ SelectDevice(r) \/ UpdateDevice(r)

Continue(c) == Fetch(c) \/ Receive(c) \/ Send(c)

Next ==
    \/ \E r \in Registrations : Register(r)
    \/ \E c \in Creations : BeginCreateTask(c) \/ Continue(c)
    \/ \E c \in Calls : Refuse(c)
    \/ Crash

Spec == Init /\ [][Next]_vars

\* A creation that has begun is scheduled.
FairSpec == Spec /\ \A c \in Creations : WF_vars(Continue(c))

-----------------------------------------------------------------------------

\* A device never disappears and never changes hands, although two users may
\* find its id free and insert it at the same time (app/device/register.go:95).
DevicesKeepOwners ==
    [][\A d \in DeviceIds : rows[d] # None =>
            rows'[d] # None /\ rows'[d].user = rows[d].user]_vars

\* A client that is told its device is registered owns it, with a token it sent
\* itself: never two users are told so of one device.
RegistrationsTakeEffect ==
    \A r \in Registrations : stage[r] = "ok" =>
        /\ device[r] \in Own(rows, user[r])
        /\ \E q \in Registrations : /\ device[q] = device[r] /\ user[q] = user[r]
                                    /\ rows[device[r]].token = token[q]

\* Updates are read, then written, without a version, but only registrations
\* that overlap can undo each other: once a client is told that its device is
\* registered, no token of a registration that had ended before comes back.
OldTokensStayGone ==
    \A r \in Registrations : stage[r] = "ok" => rows[device[r]].token \notin ended[r]

\* Reminders go to devices of the task's owner with the token they had at some
\* moment of the creation, and to all that had one throughout, whatever is
\* registered, retried or lost beside (app/task/task.go:163-217).  A token that
\* is replaced later stays in the message.
RemindersReachDevices ==
    \A c \in Creations : stage[c] = "ok" =>
        /\ steady[c] \subseteq messages[c]
        /\ messages[c] \subseteq seen[c]

\* The fetch gives up after its attempts: a creation never waits for ever for
\* the device service (deviceclient/retry.go:26-80).
CreationsAnswer == \A c \in Creations : c \in InFlight ~> stage[c] \in Answers

=============================================================================
