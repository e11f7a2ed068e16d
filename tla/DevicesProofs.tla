---------------------------- MODULE DevicesProofs ----------------------------
(***************************************************************************)
(* Proofs about Devices, for every set of registrations, creations, users  *)
(* and device ids, any number of attempts and any faults.                  *)
(***************************************************************************)
EXTENDS Devices, TLAPS

Registering == {"Lookup", "SaveDevice", "SelectDevice", "UpdateDevice"}

\* What a registration knows at its calls.  Whoever had ended when it began has
\* ended, so no such registration writes any more.
RegistrationKnows(r) ==
    /\ token[r] \in {r, None}
    /\ stage[r] = "idle" => device[r] = None
    /\ stage[r] \in Registering \cup {"ok"} => user[r] \in Users /\ device[r] \in DeviceIds
    /\ stage[r] \in {"UpdateDevice", "ok"} => device[r] \in Own(rows, user[r])
    /\ \A q \in ended[r] : stage[q] \in Answers
    /\ stage[r] = "ok" => rows[device[r]].token \notin ended[r]

\* Every row is as some registration of its owner asked for it.
RowsAreRegistered ==
    \A d \in DeviceIds : rows[d] # None =>
        \E q \in Registrations :
            device[q] = d /\ user[q] = rows[d].user /\ token[q] = rows[d].token

\* The devices a user has now are between those a creation has seen all the
\* time and those it has seen at all; so are those that it was given.
CreationKnows(c) ==
    /\ steady[c] \subseteq WithFCMToken(List(rows, user[c]))
    /\ WithFCMToken(List(rows, user[c])) \subseteq seen[c]
    /\ stage[c] \in {"Receive", "Send"} =>
          steady[c] \subseteq WithFCMToken(listed[c]) /\ WithFCMToken(listed[c]) \subseteq seen[c]
    /\ stage[c] = "ok" => steady[c] \subseteq messages[c] /\ messages[c] \subseteq seen[c]
    /\ stage[c] \in {"idle", "Fetch", "Receive"} => attempts[c] # 0

DevicesInv ==
    /\ TypeOK
    /\ \A r \in Registrations : RegistrationKnows(r)
    /\ RowsAreRegistered
    /\ \A c \in Creations : CreationKnows(c)

(***************************************************************************)
(* Lists                                                                   *)
(***************************************************************************)

Tables == [DeviceIds -> Device \cup {None}]

\* The members of a list, one by one.
LEMMA Listed ==
    ASSUME NEW table \in Tables, NEW u, NEW p
    PROVE  p \in WithFCMToken(List(table, u)) <=>
              \E d \in DeviceIds : /\ table[d] # None /\ table[d].user = u
                                   /\ table[d].token # None /\ p = <<d, table[d].token>>
<1>1. p \in List(table, u) <=>
        \E d \in DeviceIds : /\ table[d] # None /\ table[d].user = u
                             /\ p = <<d, table[d].token>>
    BY DEF List, Own
<1>2. \A d \in DeviceIds : <<d, table[d].token>>[2] = table[d].token
    OBVIOUS
<1> QED BY <1>1, <1>2 DEF WithFCMToken

LEMMA ListedType ==
    ASSUME NEW table \in Tables, NEW u
    PROVE  /\ WithFCMToken(List(table, u)) \subseteq Notified
           /\ List(table, u) \subseteq DeviceIds \X (Registrations \cup {None})
           /\ u = None => List(table, u) = {}
<1>1. \A d \in DeviceIds : table[d] # None =>
        table[d].user \in Users /\ table[d].token \in Registrations \cup {None}
    BY DEF Tables, Device
<1>2. List(table, u) \subseteq DeviceIds \X (Registrations \cup {None})
    BY <1>1 DEF List, Own
<1>3. WithFCMToken(List(table, u)) \subseteq Notified
    BY <1>1, Listed DEF Notified
<1>4. u = None => List(table, u) = {}
    BY <1>1, DevicesNoneAssumption DEF List, Own
<1> QED BY <1>2, <1>3, <1>4

(***************************************************************************)
(* What a step of one call leaves alone                                    *)
(***************************************************************************)

\* A statement that writes a table, or none.
Writes == (\E table \in Tables : Write(table)) \/ NoWrite

LEMMA TableTypes ==
    ASSUME TypeOK, Writes
    PROVE  /\ rows' \in Tables
           /\ seen' \in [Creations -> SUBSET Notified]
           /\ steady' \in [Creations -> SUBSET Notified]
<1>1. CASE NoWrite
    BY <1>1 DEF TypeOK, NoWrite, Tables
<1>2. ASSUME NEW table \in Tables, Write(table)
      PROVE  /\ rows' \in Tables
             /\ seen' \in [Creations -> SUBSET Notified]
             /\ steady' \in [Creations -> SUBSET Notified]
    BY <1>2, ListedType DEF TypeOK, Write
<1> QED BY <1>1, <1>2 DEF Writes

\* A creation that stands still keeps what it knows, whatever is written.
LEMMA CreationStands ==
    ASSUME DevicesInv, Writes, NEW c \in Creations,
           stage'[c] = stage[c] \/ stage'[c] \in Answers \ {"ok"},
           user'[c] = user[c], attempts'[c] = attempts[c],
           listed'[c] = listed[c], messages'[c] = messages[c]
    PROVE  CreationKnows(c)'
<1>1. CreationKnows(c) /\ TypeOK
    BY DEF DevicesInv
<1>2. CASE NoWrite
    BY <1>1, <1>2 DEF CreationKnows, NoWrite, WithFCMToken, List, Own, Answers
<1>3. ASSUME NEW table \in Tables, Write(table)
      PROVE  CreationKnows(c)'
    <2>1. /\ rows' = table
          /\ seen'[c] = seen[c] \cup WithFCMToken(List(table, user[c]))
          /\ steady'[c] = steady[c] \cap WithFCMToken(List(table, user[c]))
        BY <1>3 DEF Write
    <2>2. List(rows, user[c])' = List(table, user[c])
        BY <2>1 DEF List, Own
    <2>3. WithFCMToken(List(rows, user[c]))' = WithFCMToken(List(table, user[c]))
        BY <2>2 DEF WithFCMToken
    <2>4. WithFCMToken(listed[c])' = WithFCMToken(listed[c])
        BY DEF WithFCMToken
    <2> HIDE DEF WithFCMToken, List
    <2> QED BY <1>1, <2>1, <2>3, <2>4 DEF CreationKnows, Answers
<1> QED BY <1>2, <1>3 DEF Writes

\* A registration that stands still, or ends without success, keeps what it
\* knows if its device keeps its owner and no ended registration writes.
LEMMA RegistrationStands ==
    ASSUME DevicesInv, NEW r \in Registrations,
           \/ stage'[r] = stage[r]
           \/ stage[r] # "idle" /\ stage'[r] \in Answers \ {"ok"}
           \/ stage'[r] = "refused",
           user'[r] = user[r], UNCHANGED registration,
           \A q \in Registrations : stage[q] \in Answers => stage'[q] \in Answers,
           \A d \in DeviceIds : rows[d] # None =>
                /\ rows'[d] # None /\ rows'[d].user = rows[d].user
                /\ rows'[d].token \in {rows[d].token, None}
                      \cup {q \in Registrations : stage[q] \notin Answers}
    PROVE  RegistrationKnows(r)'
<1>1. RegistrationKnows(r) /\ TypeOK
    BY DEF DevicesInv
<1>2. UNCHANGED <<device, token, ended>>
    BY DEF registration
<1>3. ended[r] \subseteq Registrations /\ None \notin Registrations
    BY <1>1, DevicesNoneAssumption DEF TypeOK
<1>4. stage'[r] \in Registering \cup {"ok"} => stage'[r] = stage[r]
    BY DEF Registering, Answers
<1>5. stage'[r] = "idle" => stage[r] = "idle"
    BY DEF Answers
<1>6. stage'[r] \in {"UpdateDevice", "ok"} => device[r] \in Own(rows, user[r])'
    BY <1>1, <1>2, <1>4 DEF RegistrationKnows, Own, Registering
<1>7. \A q \in ended[r] : stage'[q] \in Answers
    BY <1>1, <1>3 DEF RegistrationKnows
<1>8. stage'[r] = "ok" => rows'[device[r]].token \notin ended[r]
    <2> SUFFICES ASSUME stage'[r] = "ok" PROVE rows'[device[r]].token \notin ended[r]
        OBVIOUS
    <2>1. stage[r] = "ok" /\ device[r] \in DeviceIds /\ rows[device[r]] # None
        BY <1>1, <1>4 DEF RegistrationKnows, Own, Registering
    <2>2. rows[device[r]].token \notin ended[r]
        BY <1>1, <2>1 DEF RegistrationKnows
    <2> QED BY <1>1, <1>3, <2>1, <2>2 DEF RegistrationKnows
<1> QED BY <1>1, <1>2, <1>4, <1>5, <1>6, <1>7, <1>8 DEF RegistrationKnows, Registering

(***************************************************************************)
(* The actions                                                             *)
(***************************************************************************)

LEMMA DevicesInit == Init => DevicesInv
<1> SUFFICES ASSUME Init PROVE DevicesInv
    OBVIOUS
<1>1. TypeOK
    BY DevicesAttemptsAssumption DEF Init, TypeOK
<1>2. \A r \in Registrations : RegistrationKnows(r)
    BY DEF Init, RegistrationKnows, Registering, Calls
<1>3. RowsAreRegistered
    BY DEF Init, RowsAreRegistered
<1>4. \A u : WithFCMToken(List(rows, u)) = {}
    BY DEF Init, WithFCMToken, List, Own
<1>5. \A c \in Creations : CreationKnows(c)
    BY <1>4, DevicesAttemptsAssumption DEF Init, CreationKnows, Calls
<1> QED BY <1>1, <1>2, <1>3, <1>5 DEF DevicesInv

\* Calls stand still together: what holds for each holds for all.
LEMMA OthersStand ==
    ASSUME DevicesInv, NEW c \in Calls, NEW s \in Steps \cup Answers,
           stage[c] \notin Answers, GoTo(c, s),
           \A b \in Calls \ {c} : user'[b] = user[b],
           \A b \in Creations \ {c} :
                /\ attempts'[b] = attempts[b]
                /\ listed'[b] = listed[b] /\ messages'[b] = messages[b]
    PROVE  /\ \A b \in Calls \ {c} : stage'[b] = stage[b]
           /\ stage'[c] = s
           /\ stage' \in [Calls -> {"idle"} \cup Steps \cup Answers]
           /\ \A q \in Registrations : stage[q] \in Answers => stage'[q] \in Answers
           /\ Writes => \A b \in Creations \ {c} : CreationKnows(b)'
<1>1. TypeOK
    BY DEF DevicesInv
<1>2. /\ \A b \in Calls \ {c} : stage'[b] = stage[b]
      /\ stage'[c] = s
      /\ stage' \in [Calls -> {"idle"} \cup Steps \cup Answers]
    BY <1>1 DEF TypeOK, GoTo
<1>3. \A q \in Registrations : stage[q] \in Answers => stage'[q] \in Answers
    BY <1>2 DEF Calls
<1>4. ASSUME Writes, NEW b \in Creations \ {c}
      PROVE  CreationKnows(b)'
    BY <1>2, <1>4, CreationStands DEF Calls
<1> QED BY <1>2, <1>3, <1>4

\* A step of a registration that only looks, or an answer without success.
LEMMA Looks ==
    ASSUME DevicesInv, NEW r \in Registrations,
           NEW s \in Registering \cup (Answers \ {"ok"}), GoTo(r, s),
           stage[r] \in {"idle"} \cup Registering,
           stage[r] = "idle" => s = "refused",
           s = "UpdateDevice" => device[r] \in Own(rows, user[r]),
           NoWrite, UNCHANGED <<user, registration, creation>>
    PROVE  DevicesInv'
<1>1. TypeOK /\ RegistrationKnows(r) /\ r \in Calls /\ s \in Steps \cup Answers /\ Writes
    BY DEF DevicesInv, Calls, Registering, Steps, Writes
<1>2. UNCHANGED <<rows, user, device, token, ended, attempts, listed, messages, seen, steady>>
    BY DEF NoWrite, registration, creation
<1>3. stage[r] \notin Answers
    BY DEF Registering, Answers
<1>4. /\ \A b \in Calls \ {r} : stage'[b] = stage[b]
      /\ stage'[r] = s
      /\ stage' \in [Calls -> {"idle"} \cup Steps \cup Answers]
      /\ \A q \in Registrations : stage[q] \in Answers => stage'[q] \in Answers
      /\ \A b \in Creations \ {r} : CreationKnows(b)'
    BY <1>1, <1>2, <1>3, OthersStand
<1>5. TypeOK'
    BY <1>1, <1>2, <1>4 DEF TypeOK
<1>6. \A q \in Registrations \ {r} : RegistrationKnows(q)'
    BY <1>2, <1>4, RegistrationStands DEF Calls
<1>7. RegistrationKnows(r)'
    <2>1. ended[r] \subseteq Registrations
        BY <1>1 DEF TypeOK
    <2>2. Own(rows, user[r])' = Own(rows, user[r])
        BY <1>2 DEF Own
    <2> QED BY <1>1, <1>2, <1>4, <2>1, <2>2 DEF RegistrationKnows, Registering, Answers
<1>8. RowsAreRegistered'
    BY <1>2 DEF DevicesInv, RowsAreRegistered
<1>9. Creations \ {r} = Creations
    BY DevicesCallsAssumption
<1> QED BY <1>4, <1>5, <1>6, <1>7, <1>8, <1>9 DEF DevicesInv

LEMMA BeginRegisterDeviceKeeps ==
    ASSUME DevicesInv, NEW r \in Registrations, BeginRegisterDevice(r)
    PROVE  DevicesInv'
<1>1. /\ TypeOK /\ RegistrationKnows(r) /\ r \in Calls /\ Writes
      /\ stage[r] = "idle" /\ device[r] = None /\ NoWrite
    BY DEF DevicesInv, Calls, Writes, BeginRegisterDevice, RegistrationKnows
<1>2. UNCHANGED <<rows, attempts, listed, messages, seen, steady>>
    BY DEF BeginRegisterDevice, NoWrite, creation
<1>3. PICK u \in Users, t \in {r, None}, d \in DeviceIds, s \in {"Lookup", "SaveDevice"} :
        /\ user' = [user EXCEPT ![r] = u] /\ token' = [token EXCEPT ![r] = t]
        /\ device' = [device EXCEPT ![r] = d] /\ GoTo(r, s)
        /\ ended' = [ended EXCEPT ![r] = {q \in Registrations : stage[q] \in Answers}]
    BY DEF BeginRegisterDevice
<1>4. /\ \A b \in Calls \ {r} : user'[b] = user[b] /\ user'[r] = u
      /\ user' \in [Calls -> Users \cup {None}]
    BY <1>1, <1>3 DEF TypeOK
<1>5. /\ \A b \in Calls \ {r} : stage'[b] = stage[b]
      /\ stage'[r] = s
      /\ stage' \in [Calls -> {"idle"} \cup Steps \cup Answers]
      /\ \A q \in Registrations : stage[q] \in Answers => stage'[q] \in Answers
      /\ \A b \in Creations \ {r} : CreationKnows(b)'
    BY <1>1, <1>2, <1>3, <1>4, OthersStand DEF Steps, Answers
<1>6. TypeOK'
    BY <1>1, <1>2, <1>3, <1>4, <1>5 DEF TypeOK
<1>7. \A q \in Registrations \ {r} :
        /\ token'[q] = token[q] /\ device'[q] = device[q] /\ ended'[q] = ended[q]
        /\ user'[q] = user[q] /\ stage'[q] = stage[q]
    BY <1>1, <1>3, <1>4, <1>5 DEF TypeOK, Calls
<1>8. \A q \in Registrations \ {r} : RegistrationKnows(q)'
    <2> SUFFICES ASSUME NEW q \in Registrations \ {r} PROVE RegistrationKnows(q)'
        OBVIOUS
    <2>1. RegistrationKnows(q) /\ ended[q] \subseteq Registrations
        BY <1>1 DEF DevicesInv, TypeOK
    <2>2. Own(rows, user[q])' = Own(rows, user[q])
        BY <1>2, <1>7 DEF Own
    <2> QED BY <1>2, <1>5, <1>7, <2>1, <2>2 DEF RegistrationKnows
<1>9. RegistrationKnows(r)'
    <2>1. /\ user'[r] = u /\ token'[r] = t /\ device'[r] = d
          /\ ended'[r] = {q \in Registrations : stage[q] \in Answers}
        BY <1>1, <1>3, <1>4 DEF TypeOK
    <2> QED BY <1>5, <2>1 DEF RegistrationKnows, Registering
<1>10. RowsAreRegistered'
    <2> SUFFICES ASSUME NEW e \in DeviceIds, rows[e] # None
                 PROVE  \E q \in Registrations :
                            /\ device'[q] = e /\ user'[q] = rows[e].user
                            /\ token'[q] = rows[e].token
        BY <1>2 DEF RowsAreRegistered
    <2>1. PICK q \in Registrations :
            device[q] = e /\ user[q] = rows[e].user /\ token[q] = rows[e].token
        BY DEF DevicesInv, RowsAreRegistered
    <2>2. q # r
        BY <1>1, <2>1, DevicesNoneAssumption
    <2> QED BY <1>7, <2>1, <2>2
<1>11. Creations \ {r} = Creations
    BY DevicesCallsAssumption
<1> QED BY <1>5, <1>6, <1>8, <1>9, <1>10, <1>11 DEF DevicesInv

\* A statement of a registration that writes its user and token to its device,
\* which was free or its own.
LEMMA Wrote ==
    ASSUME DevicesInv, NEW r \in Registrations,
           stage[r] \in {"SaveDevice", "UpdateDevice"},
           rows[device[r]] = None \/ stage[r] = "UpdateDevice",
           NEW s \in {"ok", "failed"}, GoTo(r, s),
           Write([rows EXCEPT ![device[r]] = [user |-> user[r], token |-> token[r]]]),
           UNCHANGED <<user, registration, creation>>
    PROVE  DevicesInv' /\ \A d \in DeviceIds : rows[d] # None =>
                                rows'[d] # None /\ rows'[d].user = rows[d].user
<1> DEFINE row == [user |-> user[r], token |-> token[r]]
<1>1. /\ TypeOK /\ RegistrationKnows(r) /\ r \in Calls /\ s \in Steps \cup Answers
      /\ stage[r] \notin Answers /\ stage[r] # "idle"
    BY DEF DevicesInv, Calls, Steps, Answers
<1>2. UNCHANGED <<user, device, token, ended, attempts, listed, messages>>
    BY DEF registration, creation
<1>3. user[r] \in Users /\ device[r] \in DeviceIds /\ token[r] \in Registrations \cup {None}
    BY <1>1 DEF RegistrationKnows, Registering
<1>4. row \in Device /\ row # None /\ row.user = user[r] /\ row.token = token[r]
    <2>1. row \in Device
        BY <1>3 DEF Device
    <2>2. row # None
        BY <2>1, DevicesNoneAssumption
    <2> QED BY <2>1, <2>2
<1>5. /\ rows' = [rows EXCEPT ![device[r]] = row]
      /\ rows' \in Tables /\ Writes
    BY <1>1, <1>4 DEF Write, TypeOK, Tables, Writes
<1>6. \A d \in DeviceIds : rows'[d] = IF d = device[r] THEN row ELSE rows[d]
    BY <1>1, <1>5 DEF TypeOK
<1>7. /\ \A b \in Calls \ {r} : stage'[b] = stage[b]
      /\ stage'[r] = s
      /\ stage' \in [Calls -> {"idle"} \cup Steps \cup Answers]
      /\ \A q \in Registrations : stage[q] \in Answers => stage'[q] \in Answers
      /\ \A b \in Creations \ {r} : CreationKnows(b)'
    BY <1>1, <1>2, <1>5, OthersStand
<1>8. TypeOK'
    BY <1>1, <1>2, <1>5, <1>7, TableTypes DEF TypeOK, Tables
<1>9. rows[device[r]] # None => rows[device[r]].user = user[r]
    BY <1>1, <1>3 DEF RegistrationKnows, Own
<1>10. \A d \in DeviceIds : rows[d] # None =>
         /\ rows'[d] # None /\ rows'[d].user = rows[d].user
         /\ rows'[d].token \in {rows[d].token, None}
               \cup {q \in Registrations : stage[q] \notin Answers}
    BY <1>1, <1>4, <1>6, <1>9 DEF RegistrationKnows
<1>11. \A q \in Registrations \ {r} : RegistrationKnows(q)'
    BY <1>2, <1>7, <1>10, RegistrationStands DEF Calls
<1>12. RegistrationKnows(r)'
    <2>1. rows'[device[r]] = row
        BY <1>3, <1>6
    <2>2. ended[r] \subseteq Registrations /\ r \notin ended[r] /\ None \notin ended[r]
        BY <1>1, DevicesNoneAssumption DEF TypeOK, RegistrationKnows
    <2>3. \A q \in ended[r] : stage'[q] \in Answers
        BY <1>1, <1>7, <2>2 DEF RegistrationKnows
    <2>4. device[r] \in Own(rows', user[r])
        BY <1>3, <1>4, <2>1 DEF Own
    <2>5. Own(rows, user[r])' = Own(rows', user[r])
        BY <1>2 DEF Own
    <2> QED BY <1>1, <1>2, <1>3, <1>4, <1>7, <2>1, <2>2, <2>3, <2>4, <2>5
            DEF RegistrationKnows, Registering
<1>13. RowsAreRegistered'
    <2> SUFFICES ASSUME NEW d \in DeviceIds, rows'[d] # None
                 PROVE  \E q \in Registrations :
                            device[q] = d /\ user[q] = rows'[d].user /\ token[q] = rows'[d].token
        BY <1>2 DEF RowsAreRegistered
    <2>1. CASE d = device[r]
        BY <1>4, <1>6, <2>1
    <2>2. CASE d # device[r]
        BY <1>6, <2>2 DEF DevicesInv, RowsAreRegistered
    <2> QED BY <2>1, <2>2
<1>14. Creations \ {r} = Creations
    BY DevicesCallsAssumption
<1> QED BY <1>7, <1>8, <1>10, <1>11, <1>12, <1>13, <1>14 DEF DevicesInv

LEMMA Executed ==
    ASSUME NEW r, NEW table, Execute(r, table)
    PROVE  \/ Write(table) /\ (GoTo(r, "ok") \/ GoTo(r, "failed"))
           \/ NoWrite /\ GoTo(r, "failed")
BY DEF Execute, Fails

LEMMA RegisterKeeps ==
    ASSUME DevicesInv, NEW r \in Registrations, Register(r)
    PROVE  DevicesInv' /\ \A d \in DeviceIds : rows[d] # None =>
                                rows'[d] # None /\ rows'[d].user = rows[d].user
<1>1. TypeOK /\ RegistrationKnows(r)
    BY DEF DevicesInv
<1>2. CASE BeginRegisterDevice(r)
    BY <1>2, BeginRegisterDeviceKeeps DEF BeginRegisterDevice, NoWrite
<1>3. CASE Lookup(r)
    <2>1. PICK s \in {"SaveDevice", "SelectDevice", "owned", "failed"} : GoTo(r, s)
        BY <1>3 DEF Lookup, Fails
    <2>2. stage[r] = "Lookup" /\ NoWrite /\ UNCHANGED <<user, registration, creation>>
        BY <1>3 DEF Lookup
    <2>3. s \in Registering \cup (Answers \ {"ok"})
        BY DEF Registering, Answers
    <2> QED BY <2>1, <2>2, <2>3, Looks DEF NoWrite, Registering
<1>4. CASE SaveDevice(r)
    <2>1. stage[r] = "SaveDevice" /\ UNCHANGED <<user, registration, creation>>
        BY <1>4 DEF SaveDevice
    <2>2. CASE rows[device[r]] # None
        <3>1. NoWrite /\ GoTo(r, "failed")
            BY <1>4, <2>2 DEF SaveDevice
        <3> QED BY <2>1, <3>1, Looks DEF NoWrite, Registering, Answers
    <2>3. CASE rows[device[r]] = None
        <3> DEFINE table == [rows EXCEPT ![device[r]] = [user |-> user[r], token |-> token[r]]]
        <3>1. Execute(r, table)
            BY <1>4, <2>3 DEF SaveDevice
        <3>2. CASE NoWrite /\ GoTo(r, "failed")
            BY <2>1, <3>2, Looks DEF NoWrite, Registering, Answers
        <3>3. CASE Write(table) /\ (GoTo(r, "ok") \/ GoTo(r, "failed"))
            BY <2>1, <2>3, <3>3, Wrote
        <3> QED BY <3>1, <3>2, <3>3, Executed
    <2> QED BY <2>2, <2>3
<1>5. CASE SelectDevice(r)
    <2>1. PICK s \in {"UpdateDevice", "not_found", "failed"} :
            GoTo(r, s) /\ (s = "UpdateDevice" => device[r] \in Own(rows, user[r]))
        BY <1>5 DEF SelectDevice, Fails
    <2>2. stage[r] = "SelectDevice" /\ NoWrite /\ UNCHANGED <<user, registration, creation>>
        BY <1>5 DEF SelectDevice
    <2>3. s \in Registering \cup (Answers \ {"ok"})
        BY DEF Registering, Answers
    <2> QED BY <2>1, <2>2, <2>3, Looks DEF NoWrite, Registering
<1>6. CASE UpdateDevice(r)
    <2>1. stage[r] = "UpdateDevice" /\ UNCHANGED <<user, registration, creation>>
        BY <1>6 DEF UpdateDevice
    <2>2. device[r] \in DeviceIds /\ rows[device[r]] \in Device /\ rows[device[r]].user = user[r]
        BY <1>1, <2>1 DEF RegistrationKnows, Own, TypeOK, Registering
    <2>3. [rows EXCEPT ![device[r]] = [@ EXCEPT !.token = token[r]]]
            = [rows EXCEPT ![device[r]] = [user |-> user[r], token |-> token[r]]]
        <3>1. [rows[device[r]] EXCEPT !.token = token[r]] = [user |-> user[r], token |-> token[r]]
            BY <2>2 DEF Device
        <3> QED BY <3>1
    <2> DEFINE table == [rows EXCEPT ![device[r]] = [user |-> user[r], token |-> token[r]]]
    <2>4. Execute(r, table)
        BY <1>6, <2>3 DEF UpdateDevice
    <2>5. CASE NoWrite /\ GoTo(r, "failed")
        BY <2>1, <2>5, Looks DEF NoWrite, Registering, Answers
    <2>6. CASE Write(table) /\ (GoTo(r, "ok") \/ GoTo(r, "failed"))
        BY <2>1, <2>6, Wrote
    <2> QED BY <2>4, <2>5, <2>6, Executed
<1> QED BY <1>2, <1>3, <1>4, <1>5, <1>6 DEF Register

\* A creation does not write to the table, and no registration moves.
LEMMA CreationSteps ==
    ASSUME DevicesInv, NEW c \in Creations, NEW s \in Steps \cup Answers, GoTo(c, s),
           stage[c] \notin Answers, UNCHANGED <<rows, registration>>,
           user' \in [Calls -> Users \cup {None}],
           \A b \in Calls \ {c} : user'[b] = user[b],
           \A b \in Creations \ {c} :
                /\ attempts'[b] = attempts[b]
                /\ listed'[b] = listed[b] /\ messages'[b] = messages[b]
                /\ seen'[b] = seen[b] /\ steady'[b] = steady[b],
           seen' \in [Creations -> SUBSET Notified], steady' \in [Creations -> SUBSET Notified],
           attempts' \in [Creations -> 0..MaxAttempts],
           listed' \in [Creations -> SUBSET (DeviceIds \X (Registrations \cup {None}))],
           messages' \in [Creations -> SUBSET Notified],
           CreationKnows(c)'
    PROVE  DevicesInv'
<1>1. TypeOK /\ c \in Calls /\ c \notin Registrations
    BY DevicesCallsAssumption DEF DevicesInv, Calls
<1>2. UNCHANGED <<device, token, ended>>
    BY DEF registration
<1>3. /\ \A b \in Calls \ {c} : stage'[b] = stage[b]
      /\ stage' \in [Calls -> {"idle"} \cup Steps \cup Answers]
      /\ \A q \in Registrations : stage[q] \in Answers => stage'[q] \in Answers
    BY <1>1 DEF TypeOK, GoTo, Calls
<1>4. TypeOK'
    BY <1>1, <1>2, <1>3 DEF TypeOK
<1>5. \A q \in Registrations : RegistrationKnows(q)'
    <2> SUFFICES ASSUME NEW q \in Registrations PROVE RegistrationKnows(q)'
        OBVIOUS
    <2>1. RegistrationKnows(q) /\ q \in Calls \ {c}
        BY <1>1 DEF DevicesInv, Calls
    <2>2. stage'[q] = stage[q] /\ user'[q] = user[q]
        BY <1>3, <2>1
    <2> QED BY <1>2, <1>3, <2>2, RegistrationStands
<1>6. RowsAreRegistered'
    BY <1>1, <1>2 DEF DevicesInv, RowsAreRegistered, Calls
<1>7. \A b \in Creations \ {c} : CreationKnows(b)'
    <2> SUFFICES ASSUME NEW b \in Creations \ {c} PROVE CreationKnows(b)'
        OBVIOUS
    <2>1. /\ CreationKnows(b) /\ stage'[b] = stage[b] /\ user'[b] = user[b]
          /\ attempts'[b] = attempts[b]
          /\ listed'[b] = listed[b] /\ messages'[b] = messages[b]
          /\ seen'[b] = seen[b] /\ steady'[b] = steady[b]
        BY <1>3 DEF DevicesInv, Calls
    <2>2. /\ WithFCMToken(List(rows, user[b]))' = WithFCMToken(List(rows, user[b]))
          /\ WithFCMToken(listed[b])' = WithFCMToken(listed[b])
        BY <2>1 DEF WithFCMToken, List, Own
    <2> QED BY <2>1, <2>2 DEF CreationKnows
<1> QED BY <1>4, <1>5, <1>6, <1>7 DEF DevicesInv

LEMMA BeginCreateTaskKeeps ==
    ASSUME DevicesInv, NEW c \in Creations, BeginCreateTask(c)
    PROVE  DevicesInv'
<1>1. TypeOK /\ c \in Calls /\ CreationKnows(c)
    BY DEF DevicesInv, Calls
<1>2. PICK u \in Users :
        /\ user' = [user EXCEPT ![c] = u]
        /\ seen' = [seen EXCEPT ![c] = WithFCMToken(List(rows, u))]
        /\ steady' = [steady EXCEPT ![c] = WithFCMToken(List(rows, u))]
    BY DEF BeginCreateTask
<1>3. /\ stage[c] = "idle" /\ GoTo(c, "Fetch") /\ "Fetch" \in Steps /\ "idle" \notin Answers
      /\ UNCHANGED <<rows, registration, attempts, listed, messages>>
    BY DEF BeginCreateTask, creation, Steps, Answers
<1>4. WithFCMToken(List(rows, u)) \subseteq Notified
    BY <1>1, ListedType DEF TypeOK, Tables
<1>5. /\ user'[c] = u /\ stage'[c] = "Fetch"
      /\ seen'[c] = WithFCMToken(List(rows, u)) /\ steady'[c] = WithFCMToken(List(rows, u))
    BY <1>1, <1>2, <1>3 DEF TypeOK, GoTo
<1>6. WithFCMToken(List(rows, user[c]))' = WithFCMToken(List(rows, u))
    BY <1>3, <1>5 DEF WithFCMToken, List, Own
<1>7. CreationKnows(c)'
    BY <1>1, <1>3, <1>5, <1>6 DEF CreationKnows
<1> QED BY <1>1, <1>2, <1>3, <1>4, <1>7, CreationSteps DEF TypeOK

LEMMA ContinueKeeps ==
    ASSUME DevicesInv, NEW c \in Creations, Continue(c)
    PROVE  DevicesInv'
<1>1. TypeOK /\ c \in Calls /\ CreationKnows(c)
    BY DEF DevicesInv, Calls
<1>2. UNCHANGED <<rows, seen, steady, user, registration>>
    BY DEF Continue, Fetch, Receive, Send, NoWrite
<1>3. WithFCMToken(List(rows, user[c]))' = WithFCMToken(List(rows, user[c]))
    BY <1>2 DEF WithFCMToken, List, Own
<1>4. CASE Fetch(c)
    <2>1. CASE /\ listed' = [listed EXCEPT ![c] = ListDevicesByUserID(user[c])]
               /\ GoTo(c, "Receive")
        <3>1. ListDevicesByUserID(user[c]) \subseteq DeviceIds \X (Registrations \cup {None})
            BY <1>1, ListedType DEF TypeOK, Tables, ListDevicesByUserID
        <3>2. listed'[c] = List(rows, user[c]) /\ stage'[c] = "Receive"
            BY <1>1, <2>1 DEF TypeOK, GoTo, ListDevicesByUserID
        <3>3. WithFCMToken(listed[c])' = WithFCMToken(List(rows, user[c]))
            BY <3>2 DEF WithFCMToken
        <3>4. CreationKnows(c)'
            BY <1>1, <1>2, <1>3, <1>4, <3>2, <3>3 DEF CreationKnows, Fetch
        <3> QED BY <1>1, <1>2, <1>4, <2>1, <3>1, <3>4, CreationSteps
                DEF TypeOK, Fetch, Steps, Answers
    <2>2. CASE listed' = listed /\ GoTo(c, "refused")
        <3>1. stage'[c] = "refused"
            BY <1>1, <2>2 DEF TypeOK, GoTo
        <3>2. CreationKnows(c)'
            BY <1>1, <1>2, <1>3, <3>1 DEF CreationKnows
        <3> QED BY <1>1, <1>2, <1>4, <2>2, <3>2, CreationSteps DEF TypeOK, Fetch, Steps, Answers
    <2> QED BY <1>4, <2>1, <2>2 DEF Fetch
<1>5. CASE Receive(c)
    <2>1. PICK s \in {"Send", "Fetch", "failed"} :
            /\ GoTo(c, s) /\ attempts' \in [Creations -> 0..MaxAttempts]
            /\ \A b \in Creations \ {c} : attempts'[b] = attempts[b]
            /\ s = "Fetch" => attempts'[c] # 0
        <3>1. attempts[c] \in 1..MaxAttempts
            BY <1>1, <1>5, DevicesAttemptsAssumption DEF Receive, CreationKnows, TypeOK
        <3>2. CASE Retry(c)
            <4>1. /\ attempts' \in [Creations -> 0..MaxAttempts] /\ attempts'[c] = attempts[c] - 1
                  /\ \A b \in Creations \ {c} : attempts'[b] = attempts[b]
                BY <1>1, <3>1, <3>2, DevicesAttemptsAssumption DEF Retry, TypeOK
            <4>2. \/ GoTo(c, "Fetch") /\ attempts[c] > 1
                  \/ GoTo(c, "failed")
                BY <3>2 DEF Retry
            <4>3. attempts[c] > 1 => attempts'[c] # 0
                BY <3>1, <4>1, DevicesAttemptsAssumption
            <4> QED BY <4>1, <4>2, <4>3
        <3>3. CASE attempts' = attempts /\ (GoTo(c, "Send") \/ GoTo(c, "failed"))
            BY <1>1, <3>3 DEF TypeOK
        <3> QED BY <1>5, <3>2, <3>3 DEF Receive, Fails
    <2>2. stage[c] = "Receive" /\ stage'[c] = s /\ UNCHANGED <<listed, messages>>
        BY <1>1, <1>5, <2>1 DEF Receive, TypeOK, GoTo
    <2>3. WithFCMToken(listed[c])' = WithFCMToken(listed[c])
        BY <2>2 DEF WithFCMToken
    <2>4. CreationKnows(c)'
        BY <1>1, <1>2, <1>3, <2>1, <2>2, <2>3 DEF CreationKnows
    <2>5. s \in Steps \cup Answers /\ stage[c] \notin Answers
        BY <2>2 DEF Steps, Answers
    <2> QED BY <1>1, <1>2, <2>1, <2>2, <2>4, <2>5, CreationSteps DEF TypeOK
<1>6. CASE Send(c)
    <2>1. stage[c] = "Send" /\ stage[c] \notin Answers /\ UNCHANGED <<attempts, listed>>
        BY <1>6 DEF Send, Answers
    <2>2. CASE messages' = [messages EXCEPT ![c] = WithFCMToken(listed[c])] /\ GoTo(c, "ok")
        <3>1. messages'[c] = WithFCMToken(listed[c]) /\ stage'[c] = "ok"
            BY <1>1, <2>2 DEF TypeOK, GoTo
        <3>2. CreationKnows(c)'
            BY <1>1, <1>2, <1>3, <2>1, <3>1 DEF CreationKnows
        <3>3. WithFCMToken(listed[c]) \subseteq Notified
            <4>1. listed[c] \subseteq DeviceIds \X (Registrations \cup {None})
                BY <1>1 DEF TypeOK
            <4> QED BY <4>1 DEF WithFCMToken, Notified
        <3> QED BY <1>1, <1>2, <2>1, <2>2, <3>2, <3>3, CreationSteps DEF TypeOK, Answers
    <2>3. CASE messages' = messages /\ GoTo(c, "failed")
        <3>1. stage'[c] = "failed"
            BY <1>1, <2>3 DEF TypeOK, GoTo
        <3>2. CreationKnows(c)'
            BY <1>1, <1>2, <1>3, <3>1 DEF CreationKnows
        <3> QED BY <1>1, <1>2, <2>1, <2>3, <3>2, CreationSteps DEF TypeOK, Answers
    <2> QED BY <1>6, <2>2, <2>3 DEF Send
<1> QED BY <1>4, <1>5, <1>6 DEF Continue

LEMMA RefuseKeeps ==
    ASSUME DevicesInv, NEW c \in Calls, Refuse(c)
    PROVE  DevicesInv' /\ NoWrite
<1>1. /\ stage[c] = "idle" /\ GoTo(c, "refused")
      /\ NoWrite /\ UNCHANGED <<user, registration, creation>>
    BY DEF Refuse
<1>2. CASE c \in Registrations
    BY <1>1, <1>2, Looks DEF Answers
<1>3. CASE c \in Creations
    <2>1. TypeOK /\ stage'[c] = "refused"
        BY <1>1 DEF DevicesInv, TypeOK, GoTo
    <2>2. CreationKnows(c)'
        BY <1>1, <1>3, <2>1, CreationStands DEF Writes, creation, Answers
    <2> QED BY <1>1, <1>3, <2>1, <2>2, CreationSteps DEF TypeOK, NoWrite, creation, Answers
<1> QED BY <1>1, <1>2, <1>3 DEF Calls

LEMMA CrashKeeps ==
    ASSUME DevicesInv, Crash
    PROVE  DevicesInv' /\ NoWrite
<1>1. TypeOK
    BY DEF DevicesInv
<1>2. /\ stage' = [c \in Calls |-> IF c \in InFlight THEN "aborted" ELSE stage[c]]
      /\ NoWrite /\ Writes /\ UNCHANGED <<user, registration, creation>>
    BY DEF Crash, Writes
<1>3. UNCHANGED <<rows, seen, steady, user, device, token, ended, attempts, listed, messages>>
    BY <1>2 DEF NoWrite, registration, creation
<1>4. \A c \in Calls : \/ stage'[c] = stage[c]
                       \/ stage[c] # "idle" /\ stage'[c] = "aborted" /\ stage[c] \notin Answers
    BY <1>2 DEF InFlight, Steps, Answers
<1>5. TypeOK'
    BY <1>1, <1>2, <1>3 DEF TypeOK, Answers
<1>6. \A c \in Creations : CreationKnows(c)'
    BY <1>2, <1>3, <1>4, CreationStands DEF Calls, Answers
<1>7. \A q \in Registrations : stage[q] \in Answers => stage'[q] \in Answers
    BY <1>4 DEF Calls
<1>8. \A r \in Registrations : RegistrationKnows(r)'
    BY <1>2, <1>3, <1>4, <1>7, RegistrationStands DEF Calls, Answers
<1>9. RowsAreRegistered'
    BY <1>3 DEF DevicesInv, RowsAreRegistered
<1> QED BY <1>2, <1>5, <1>6, <1>8, <1>9 DEF DevicesInv

LEMMA DevicesStep ==
    ASSUME DevicesInv, [Next]_vars
    PROVE  DevicesInv' /\ \A d \in DeviceIds : rows[d] # None =>
                                rows'[d] # None /\ rows'[d].user = rows[d].user
<1>1. ASSUME NEW c \in Creations, BeginCreateTask(c) \/ Continue(c)
      PROVE  DevicesInv' /\ rows' = rows
    <2>1. rows' = rows
        BY <1>1 DEF BeginCreateTask, Continue, Fetch, Receive, Send, NoWrite
    <2> QED BY <1>1, <2>1, BeginCreateTaskKeeps, ContinueKeeps
<1>2. CASE UNCHANGED vars
    <2>1. UNCHANGED <<rows, stage, user, device, token, attempts, listed, messages, ended, seen, steady>>
        BY <1>2 DEF vars
    <2>2. TypeOK'
        BY <2>1 DEF DevicesInv, TypeOK
    <2>3. \A r \in Registrations : RegistrationKnows(r)'
        BY <2>1 DEF DevicesInv, RegistrationKnows, Own
    <2>4. \A c \in Creations : CreationKnows(c)'
        BY <2>1, CreationStands DEF Writes, NoWrite
    <2>5. RowsAreRegistered'
        BY <2>1 DEF DevicesInv, RowsAreRegistered
    <2> QED BY <2>1, <2>2, <2>3, <2>4, <2>5 DEF DevicesInv
<1> QED BY <1>1, <1>2, RegisterKeeps, RefuseKeeps, CrashKeeps DEF Next, NoWrite

(***************************************************************************)
(* Theorems                                                                *)
(***************************************************************************)

\* What registrations and creations know at each of their calls, for any
\* number of them, with retries, lost answers, errors and crashes
\* (register.go:95-153, infra/repository/device.go, deviceclient/retry.go).
THEOREM DevicesInvariant == Spec => []DevicesInv
<1>1. DevicesInv /\ [Next]_vars => DevicesInv'
    BY DevicesStep
<1> QED BY <1>1, DevicesInit, PTL DEF Spec

\* The registry, the calls and their counters keep their types: the retry
\* counter never passes zero.
THEOREM DevicesTypeCorrect == Spec => []TypeOK
<1>1. DevicesInv => TypeOK
    BY DEF DevicesInv
<1> QED BY <1>1, DevicesInvariant, PTL

\* A device keeps its owner for ever, whoever races to register its id.
THEOREM OwnersKept == Spec => DevicesKeepOwners
<1>1. DevicesInv /\ [Next]_vars =>
        [\A d \in DeviceIds : rows[d] # None =>
            rows'[d] # None /\ rows'[d].user = rows[d].user]_vars
    BY DevicesStep
<1> QED BY <1>1, DevicesInvariant, PTL DEF Spec, DevicesKeepOwners

\* A registration that is answered with success has taken effect.
THEOREM RegistrationsHold == Spec => []RegistrationsTakeEffect
<1>1. ASSUME DevicesInv PROVE RegistrationsTakeEffect
    <2> SUFFICES ASSUME NEW r \in Registrations, stage[r] = "ok"
                 PROVE  /\ device[r] \in Own(rows, user[r])
                        /\ \E q \in Registrations :
                              /\ device[q] = device[r] /\ user[q] = user[r]
                              /\ rows[device[r]].token = token[q]
        BY DEF RegistrationsTakeEffect
    <2>1. device[r] \in Own(rows, user[r])
        BY <1>1 DEF DevicesInv, RegistrationKnows
    <2>2. rows[device[r]] # None /\ rows[device[r]].user = user[r] /\ device[r] \in DeviceIds
        BY <2>1 DEF Own
    <2> QED BY <1>1, <2>1, <2>2 DEF DevicesInv, RowsAreRegistered
<1> QED BY <1>1, DevicesInvariant, PTL

\* No token of a registration that had ended comes back.
THEOREM OldTokensGone == Spec => []OldTokensStayGone
<1>1. DevicesInv => OldTokensStayGone
    BY DEF DevicesInv, RegistrationKnows, OldTokensStayGone
<1> QED BY <1>1, DevicesInvariant, PTL

\* Reminders go to the devices the owner had: to all that were there throughout
\* the creation and to none that was not there at some moment of it.
THEOREM RemindersGoToDevices == Spec => []RemindersReachDevices
<1>1. DevicesInv => RemindersReachDevices
    BY DEF DevicesInv, CreationKnows, RemindersReachDevices
<1> QED BY <1>1, DevicesInvariant, PTL

=============================================================================
