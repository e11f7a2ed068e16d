----------------------------- MODULE LoginProofs -----------------------------
(***************************************************************************)
(* Proofs about Login, for every set of logins, persons and user ids and   *)
(* for all faults.                                                         *)
(***************************************************************************)
EXTENDS Login, TLAPS

\* What a login knows at each of its calls: inside the transaction its user is
\* known to nobody else; at the commit nobody else can have its identity.
Knows(l) ==
    /\ stage[l] \in Calls \cup {"ok", "conflict"} => subject[l] \in Subjects
    /\ stage[l] \in InTransaction =>
          /\ user[l] \in UserIds \ users
          /\ \A m \in Logins \ {l} : user[m] # user[l]
    /\ stage[l] = "Commit" => Found(l) = {} /\ ~KeyIsHeld(l)
    /\ stage[l] \in {"GetUser", "SaveSession", "ok"} =>
          [subject |-> subject[l], user |-> user[l]] \in identities

SessionsHaveLogins == \A s \in sessions : stage[s.login] # "idle"

LoginInv ==
    /\ TypeOK
    /\ \A l \in Logins : Knows(l)
    /\ SessionsHaveLogins
    /\ AccountsAreWhole
    /\ SessionsMatchAccounts
    /\ ConflictMeansAccount

LEMMA LoginInit == Init => LoginInv
BY DEF Init, LoginInv, TypeOK, Knows, Calls, InTransaction, SessionsHaveLogins,
    AccountsAreWhole, SessionsMatchAccounts, ConflictMeansAccount

(***************************************************************************)
(* The steps of one login                                                  *)
(***************************************************************************)

\* The other logins stand still.
Alone(l) ==
    \A m \in Logins \ {l} :
        stage'[m] = stage[m] /\ subject'[m] = subject[m] /\ user'[m] = user[m]

\* What the others know survives a step of login l: it brings nothing into the
\* tables that another transaction relies on being absent.
LEMMA OthersKnow ==
    ASSUME LoginInv, NEW l \in Logins, NEW m \in Logins \ {l}, Alone(l),
           identities \subseteq identities',
           users' \subseteq users \cup {user'[l]},
           stage[m] \in InTransaction => user'[l] # user[m],
           stage[m] = "Commit" => \A i \in identities' \ identities : i.subject # subject[m],
           stage'[l] = "Commit" /\ stage[m] = "Commit" => subject'[l] # subject[m]
    PROVE  Knows(m)'
<1>1. Knows(m) /\ stage'[m] = stage[m] /\ subject'[m] = subject[m] /\ user'[m] = user[m]
    BY DEF LoginInv, Alone
<1>2. stage'[m] \in Calls \cup {"ok", "conflict"} => subject'[m] \in Subjects
    BY <1>1 DEF Knows
<1>3. stage'[m] \in InTransaction =>
        /\ user'[m] \in UserIds \ users'
        /\ \A n \in Logins \ {m} : user'[n] # user'[m]
    BY <1>1 DEF Knows, Alone
<1>4. stage'[m] = "Commit" => Found(m)' = {} /\ ~KeyIsHeld(m)'
    <2> SUFFICES ASSUME stage'[m] = "Commit" PROVE Found(m)' = {} /\ ~KeyIsHeld(m)'
        OBVIOUS
    <2>1. Found(m) = {} /\ ~KeyIsHeld(m)
        BY <1>1 DEF Knows
    <2>2. Found(m)' = {}
        BY <1>1, <2>1 DEF Found
    <2>3. ~KeyIsHeld(m)'
        BY <1>1, <2>1 DEF KeyIsHeld, Alone
    <2> QED BY <2>2, <2>3
<1>5. stage'[m] \in {"GetUser", "SaveSession", "ok"} =>
        [subject |-> subject'[m], user |-> user'[m]] \in identities'
    BY <1>1 DEF Knows
<1> QED BY <1>2, <1>3, <1>4, <1>5 DEF Knows

\* A step of login l that writes nothing.
LEMMA QuietStep ==
    ASSUME LoginInv, UNCHANGED <<users, identities, sessions>>, NEW l \in Logins,
           NEW s \in Calls \cup Answers, stage' = [stage EXCEPT ![l] = s],
           NEW x \in Subjects \cup {None}, subject' = [subject EXCEPT ![l] = x],
           NEW u \in UserIds \cup {None}, user' = [user EXCEPT ![l] = u],
           stage[l] = "idle" \/ x = subject[l],
           \A m \in Logins \ {l} : stage[m] \in InTransaction => user[m] # u,
           s = "Commit" => ~KeyIsHeld(l) /\ x = subject[l],
           s = "conflict" => \E i \in identities : i.subject = x,
           Knows(l)'
    PROVE  LoginInv'
<1>1. TypeOK'
    BY DEF LoginInv, TypeOK
<1>2. Alone(l) /\ stage'[l] = s /\ subject'[l] = x /\ user'[l] = u
    BY DEF LoginInv, TypeOK, Alone
<1>3. ASSUME NEW m \in Logins PROVE Knows(m)'
    BY <1>2, OthersKnow DEF KeyIsHeld
<1>4. SessionsHaveLogins'
    <2>1. s # "idle"
        BY DEF Calls, InTransaction, Answers
    <2>2. \A a \in sessions : a.login \in Logins
        BY DEF LoginInv, TypeOK, Session
    <2> QED BY <1>2, <2>1, <2>2 DEF LoginInv, SessionsHaveLogins, Alone
<1>5. AccountsAreWhole'
    BY DEF LoginInv, AccountsAreWhole
<1>6. SessionsMatchAccounts'
    <2>1. \A a \in sessions : a.login \in Logins /\ stage[a.login] # "idle"
        BY DEF LoginInv, TypeOK, Session, SessionsHaveLogins
    <2>2. \A a \in sessions : subject'[a.login] = subject[a.login]
        BY <1>2, <2>1 DEF Alone
    <2> QED BY <2>2 DEF LoginInv, SessionsMatchAccounts
<1>7. ConflictMeansAccount'
    BY <1>2 DEF LoginInv, ConflictMeansAccount, Found, Alone
<1> QED BY <1>1, <1>3, <1>4, <1>5, <1>6, <1>7 DEF LoginInv

\* A login goes on from what it already knows.
LEMMA GoToStep ==
    ASSUME LoginInv, NEW l \in Logins, NEW s \in (Calls \ {"GetUser"}) \cup (Answers \ {"ok"}),
           GoTo(l, s), UNCHANGED <<users, identities, sessions, subject, user>>,
           s \in Calls \cup {"conflict"} => stage[l] \in Calls,
           s \in InTransaction => stage[l] \in InTransaction,
           s = "Commit" => Found(l) = {} /\ ~KeyIsHeld(l),
           s = "SaveSession" => stage[l] = "GetUser",
           s = "conflict" => Found(l) # {}
    PROVE  LoginInv'
<1>1. s \in Calls \cup Answers
    OBVIOUS
<1>2. TypeOK /\ Knows(l)
    BY DEF LoginInv
<1>3. subject[l] \in Subjects \cup {None} /\ user[l] \in UserIds \cup {None}
    BY <1>2 DEF TypeOK
<1>4. /\ stage' = [stage EXCEPT ![l] = s]
      /\ subject' = [subject EXCEPT ![l] = subject[l]]
      /\ user' = [user EXCEPT ![l] = user[l]]
    BY <1>2 DEF GoTo, TypeOK
<1>5. stage'[l] = s
    BY <1>2, <1>4 DEF TypeOK
<1>6. \A m \in Logins \ {l} : stage[m] \in InTransaction => user[m] # user[l]
    BY DEF LoginInv, Knows
<1>7. s = "conflict" => \E i \in identities : i.subject = subject[l]
    BY DEF Found
<1>8. s = "Commit" => Found(l)' = {} /\ ~KeyIsHeld(l)'
    BY <1>4 DEF Found, KeyIsHeld
<1>9. Knows(l)'
    <2>1. stage'[l] \in Calls \cup {"ok", "conflict"} => subject'[l] \in Subjects
        BY <1>2, <1>5 DEF Knows, Answers
    <2>2. stage'[l] \in InTransaction =>
            /\ user'[l] \in UserIds \ users'
            /\ \A m \in Logins \ {l} : user'[m] # user'[l]
        BY <1>2, <1>5 DEF Knows
    <2>3. stage'[l] \in {"GetUser", "SaveSession", "ok"} =>
            [subject |-> subject'[l], user |-> user'[l]] \in identities'
        <3>1. s \notin {"GetUser", "ok"}
            BY DEF Calls, InTransaction, Answers
        <3> QED BY <1>2, <1>5, <3>1 DEF Knows
    <2> QED BY <1>5, <1>8, <2>1, <2>2, <2>3 DEF Knows
<1> QED BY <1>1, <1>3, <1>4, <1>6, <1>7, <1>9, QuietStep

LEMMA FailsStep ==
    ASSUME LoginInv, NEW l \in Logins, Fails(l)
    PROVE  LoginInv'
<1>1. "failed" \in (Calls \ {"GetUser"}) \cup (Answers \ {"ok"})
    BY DEF Answers
<1>2. "failed" \notin Calls
    BY DEF Calls, InTransaction
<1> QED BY <1>1, <1>2, GoToStep DEF Fails, tables, Calls

LEMMA BeginStep ==
    ASSUME LoginInv, NEW l \in Logins, Begin(l)
    PROVE  LoginInv'
<1>1. CASE Refuse(l)
    <2>1. "failed" \in (Calls \ {"GetUser"}) \cup (Answers \ {"ok"})
        BY DEF Answers
    <2>2. "failed" \notin Calls
        BY DEF Calls, InTransaction
    <2> QED BY <1>1, <2>1, <2>2, GoToStep DEF Refuse, tables, Calls
<1>2. CASE BeginLogin(l)
    <2>1. PICK x \in Subjects : subject' = [subject EXCEPT ![l] = x]
        BY <1>2 DEF BeginLogin
    <2>2. "FindIdentity" \in Calls \cup Answers /\ "FindIdentity" \notin InTransaction
        BY DEF Calls, InTransaction
    <2>3. TypeOK /\ user[l] \in UserIds \cup {None}
        BY DEF LoginInv, TypeOK
    <2>4. /\ stage' = [stage EXCEPT ![l] = "FindIdentity"]
          /\ user' = [user EXCEPT ![l] = user[l]]
          /\ UNCHANGED <<users, identities, sessions>>
          /\ stage[l] = "idle"
        BY <1>2, <2>3 DEF BeginLogin, GoTo, tables, TypeOK
    <2>5. \A m \in Logins \ {l} : stage[m] \in InTransaction => user[m] # user[l]
        BY DEF LoginInv, Knows
    <2>6. Knows(l)'
        BY <2>1, <2>2, <2>3, <2>4 DEF Knows, TypeOK
    <2> QED BY <2>1, <2>2, <2>3, <2>4, <2>5, <2>6, QuietStep
<1> QED BY <1>1, <1>2 DEF Begin

LEMMA FindIdentityStep ==
    ASSUME LoginInv, NEW l \in Logins, FindIdentity(l)
    PROVE  LoginInv'
<1>1. TypeOK /\ Knows(l) /\ stage[l] = "FindIdentity"
    BY DEF LoginInv, FindIdentity
<1>2. subject[l] \in Subjects
    BY <1>1 DEF Knows, Calls
<1>3. CASE Fails(l)
    BY <1>3, FailsStep
<1>4. ASSUME NEW i \in Found(l), user' = [user EXCEPT ![l] = i.user], GoTo(l, "GetUser"),
             UNCHANGED <<users, identities, sessions, subject>>
      PROVE  LoginInv'
    <2>1. i \in Identity /\ i \in identities /\ i.subject = subject[l]
        BY <1>1 DEF Found, TypeOK
    <2>2. i.user \in users
        BY <2>1 DEF LoginInv, AccountsAreWhole
    <2>3. \A m \in Logins \ {l} : stage[m] \in InTransaction => user[m] # i.user
        BY <2>2 DEF LoginInv, Knows
    <2>4. /\ stage' = [stage EXCEPT ![l] = "GetUser"]
          /\ subject' = [subject EXCEPT ![l] = subject[l]]
        BY <1>1, <1>4 DEF GoTo, TypeOK
    <2>5. stage'[l] = "GetUser" /\ subject'[l] = subject[l] /\ user'[l] = i.user
        BY <1>1, <1>4, <2>4 DEF TypeOK
    <2>6. [subject |-> subject[l], user |-> i.user] \in identities
        <3>1. i = [subject |-> subject[l], user |-> i.user]
            BY <2>1 DEF Identity
        <3> QED BY <2>1, <3>1
    <2>7. Knows(l)'
        BY <1>2, <1>4, <2>5, <2>6 DEF Knows, InTransaction
    <2>8. "GetUser" \in Calls \cup Answers /\ i.user \in UserIds \cup {None}
        BY <2>1 DEF Calls, Identity
    <2> QED BY <1>2, <1>4, <2>3, <2>4, <2>7, <2>8, QuietStep
<1>5. ASSUME Found(l) = {}, NEW u \in UserIds \ users, \A m \in Logins : user[m] # u,
             user' = [user EXCEPT ![l] = u], GoTo(l, "InsertUser"),
             UNCHANGED <<users, identities, sessions, subject>>
      PROVE  LoginInv'
    <2>1. /\ stage' = [stage EXCEPT ![l] = "InsertUser"]
          /\ subject' = [subject EXCEPT ![l] = subject[l]]
        BY <1>1, <1>5 DEF GoTo, TypeOK
    <2>2. /\ stage'[l] = "InsertUser" /\ subject'[l] = subject[l] /\ user'[l] = u
          /\ \A m \in Logins \ {l} : user'[m] = user[m]
        BY <1>1, <1>5, <2>1 DEF TypeOK
    <2>3. Knows(l)'
        BY <1>2, <1>5, <2>2 DEF Knows
    <2>4. "InsertUser" \in Calls \cup Answers
        BY DEF Calls, InTransaction
    <2> QED BY <1>2, <1>5, <2>1, <2>3, <2>4, QuietStep
<1> QED BY <1>3, <1>4, <1>5 DEF FindIdentity, tables

LEMMA GetUserStep ==
    ASSUME LoginInv, NEW l \in Logins, GetUser(l)
    PROVE  LoginInv'
<1>1. stage[l] = "GetUser" /\ (Fails(l) \/ ~Fails(l))
    BY DEF GetUser
<1>2. CASE Fails(l)
    BY <1>2, FailsStep
<1>3. CASE ~Fails(l)
    <2>1. PICK s \in {"SaveSession", "failed"} : GoTo(l, s)
        BY <1>3 DEF GetUser
    <2>2. UNCHANGED <<users, identities, sessions, subject, user>>
        BY <1>3 DEF GetUser, tables
    <2>3. s \in (Calls \ {"GetUser"}) \cup (Answers \ {"ok"}) /\ s \notin InTransaction
        BY DEF Calls, Answers, InTransaction
    <2>4. stage[l] \in Calls
        BY <1>1 DEF Calls
    <2> QED BY <1>1, <2>1, <2>2, <2>3, <2>4, GoToStep DEF InTransaction
<1> QED BY <1>2, <1>3

\* A login in the transaction whose person has an identity meets a conflict: the
\* identity is not its own.
LEMMA ExistingStep ==
    ASSUME LoginInv, NEW l \in Logins, stage[l] \in InTransaction, Existing(l)
    PROVE  LoginInv'
<1>1. PICK i \in Found(l) : TRUE
    BY DEF Existing
<1>2. i \in identities /\ user[l] \notin users
    BY <1>1 DEF Found, LoginInv, Knows
<1>3. i.user \in users
    BY <1>2 DEF LoginInv, AccountsAreWhole
<1>4. GoTo(l, "conflict") /\ Found(l) # {}
    BY <1>1, <1>2, <1>3 DEF Existing
<1>5. "conflict" \in (Calls \ {"GetUser"}) \cup (Answers \ {"ok"}) /\ stage[l] \in Calls
    BY DEF Answers, Calls
<1>6. "conflict" \notin InTransaction
    BY DEF InTransaction
<1> QED BY <1>4, <1>5, <1>6, GoToStep DEF Existing, tables

LEMMA InsertUserStep ==
    ASSUME LoginInv, NEW l \in Logins, InsertUser(l)
    PROVE  LoginInv'
<1>1. stage[l] = "InsertUser"
    BY DEF InsertUser
<1>2. CASE Fails(l)
    BY <1>2, FailsStep
<1>3. CASE GoTo(l, "LockIdentity") /\ UNCHANGED <<tables, sessions, subject, user>>
    BY <1>1, <1>3, GoToStep DEF tables, Calls, InTransaction
<1> QED BY <1>2, <1>3 DEF InsertUser

LEMMA LockIdentityStep ==
    ASSUME LoginInv, NEW l \in Logins, LockIdentity(l)
    PROVE  LoginInv'
<1>1. stage[l] = "LockIdentity" /\ stage[l] \in InTransaction
    BY DEF LockIdentity, InTransaction
<1>2. CASE Fails(l)
    BY <1>2, FailsStep
<1>3. CASE Existing(l)
    BY <1>1, <1>3, ExistingStep
<1>4. CASE GoTo(l, "InsertIdentity") /\ UNCHANGED <<tables, sessions, subject, user>>
    BY <1>1, <1>4, GoToStep DEF tables, Calls, InTransaction
<1> QED BY <1>2, <1>3, <1>4 DEF LockIdentity

LEMMA InsertIdentityStep ==
    ASSUME LoginInv, NEW l \in Logins, InsertIdentity(l)
    PROVE  LoginInv'
<1>1. stage[l] = "InsertIdentity" /\ ~KeyIsHeld(l)
    BY DEF InsertIdentity
<1>2. CASE Fails(l)
    BY <1>2, FailsStep
<1>3. CASE Found(l) = {} /\ GoTo(l, "Commit") /\ UNCHANGED <<tables, sessions, subject, user>>
    BY <1>1, <1>3, GoToStep DEF tables, Calls, InTransaction
<1>4. CASE GoTo(l, "CheckIdentity") /\ UNCHANGED <<tables, sessions, subject, user>>
    BY <1>1, <1>4, GoToStep DEF tables, Calls, InTransaction
<1> QED BY <1>2, <1>3, <1>4 DEF InsertIdentity

LEMMA CheckIdentityStep ==
    ASSUME LoginInv, NEW l \in Logins, CheckIdentity(l)
    PROVE  LoginInv'
<1>1. stage[l] = "CheckIdentity" /\ stage[l] \in InTransaction
    BY DEF CheckIdentity, InTransaction
<1>2. CASE Fails(l)
    BY <1>2, FailsStep
<1>3. CASE Existing(l)
    BY <1>1, <1>3, ExistingStep
<1>4. CASE GoTo(l, "failed") /\ UNCHANGED <<tables, sessions, subject, user>>
    <2>1. "failed" \in (Calls \ {"GetUser"}) \cup (Answers \ {"ok"})
        BY DEF Answers
    <2>2. "failed" \notin Calls
        BY DEF Calls, InTransaction
    <2> QED BY <1>4, <2>1, <2>2, GoToStep DEF tables, Calls
<1> QED BY <1>2, <1>3, <1>4 DEF CheckIdentity

(***************************************************************************)
(* The steps that write                                                    *)
(***************************************************************************)

\* What the commit of login l writes: the identity and its user, both new.
LEMMA CommitWrites ==
    ASSUME LoginInv, NEW l \in Logins, stage[l] = "Commit"
    PROVE  /\ subject[l] \in Subjects /\ user[l] \in UserIds \ users
           /\ Found(l) = {} /\ ~KeyIsHeld(l)
           /\ \A i \in identities : i.subject # subject[l] /\ i.user # user[l]
<1>1. Knows(l) /\ AccountsAreWhole
    BY DEF LoginInv
<1>2. subject[l] \in Subjects /\ user[l] \in UserIds \ users
    BY <1>1 DEF Knows, InTransaction, Calls
<1>3. Found(l) = {} /\ ~KeyIsHeld(l)
    BY <1>1 DEF Knows
<1>4. ASSUME NEW i \in identities PROVE i.subject # subject[l] /\ i.user # user[l]
    BY <1>1, <1>2, <1>3 DEF Found, AccountsAreWhole
<1> QED BY <1>2, <1>3, <1>4

LEMMA CommitStep ==
    ASSUME LoginInv, NEW l \in Logins, Commit(l)
    PROVE  LoginInv'
<1>1. TypeOK /\ Knows(l) /\ AccountsAreWhole /\ stage[l] = "Commit"
    BY DEF LoginInv, Commit
<1>2. CASE Fails(l)
    BY <1>2, FailsStep
<1>3. CASE ~Fails(l)
    <2> DEFINE new == [subject |-> subject[l], user |-> user[l]]
    <2>1. /\ subject[l] \in Subjects /\ user[l] \in UserIds \ users
          /\ Found(l) = {} /\ ~KeyIsHeld(l)
          /\ \A i \in identities : i.subject # subject[l] /\ i.user # user[l]
        BY <1>1, CommitWrites
    <2>2. /\ users' = users \cup {user[l]}
          /\ identities' = identities \cup {new}
          /\ UNCHANGED <<sessions, subject, user>>
        BY <1>3, <2>1 DEF Commit
    <2>3. PICK s \in {"SaveSession", "failed"} : GoTo(l, s)
        BY <1>3 DEF Commit
    <2>4. new \in Identity /\ new.subject = subject[l] /\ new.user = user[l]
        BY <2>1 DEF Identity
    <2> HIDE DEF new
    <2>5. stage' = [stage EXCEPT ![l] = s] /\ stage'[l] = s
        BY <1>1, <2>3 DEF GoTo, TypeOK
    <2>6. Alone(l)
        BY <1>1, <2>2, <2>5 DEF Alone, TypeOK
    <2>7. s \in Calls \cup Answers /\ s \notin InTransaction \cup {"conflict", "idle"}
        BY DEF Calls, Answers, InTransaction
    <2>8. TypeOK'
        <3>1. stage' \in [Logins -> {"idle"} \cup Calls \cup Answers]
            BY <1>1, <2>5, <2>7 DEF TypeOK
        <3> QED BY <1>1, <2>1, <2>2, <2>4, <3>1 DEF TypeOK
    <2>9. Knows(l)'
        <3>1. new = [subject |-> subject[l], user |-> user[l]]
            BY DEF new
        <3> QED BY <2>1, <2>2, <2>5, <2>7, <3>1 DEF Knows, InTransaction
    <2>10. ASSUME NEW m \in Logins \ {l} PROVE Knows(m)'
        <3>1. stage[m] \in InTransaction => user'[l] # user[m]
            BY <2>2 DEF LoginInv, Knows
        <3>2. stage[m] = "Commit" => subject[m] # subject[l]
            BY <2>1 DEF KeyIsHeld
        <3>3. stage'[l] # "Commit"
            BY <2>5
        <3> QED BY <2>2, <2>4, <2>6, <3>1, <3>2, <3>3, OthersKnow
    <2>11. SessionsHaveLogins'
        <3>1. \A a \in sessions : a.login \in Logins
            BY <1>1 DEF TypeOK, Session
        <3> QED BY <2>2, <2>5, <2>6, <3>1 DEF LoginInv, SessionsHaveLogins, Alone
    <2>12. AccountsAreWhole'
        <3>1. users' = {i.user : i \in identities'}
            BY <1>1, <2>2, <2>4 DEF AccountsAreWhole
        <3>2. \A i, j \in identities' : i.subject = j.subject \/ i.user = j.user => i = j
            BY <1>1, <2>1, <2>2, <2>4 DEF AccountsAreWhole
        <3> QED BY <3>1, <3>2 DEF AccountsAreWhole
    <2>13. SessionsMatchAccounts'
        BY <2>2 DEF LoginInv, SessionsMatchAccounts
    <2>14. ConflictMeansAccount'
        BY <2>2, <2>5, <2>6, <2>7 DEF LoginInv, ConflictMeansAccount, Found, Alone
    <2> QED BY <2>8, <2>9, <2>10, <2>11, <2>12, <2>13, <2>14 DEF LoginInv
<1> QED BY <1>2, <1>3

LEMMA SaveSessionStep ==
    ASSUME LoginInv, NEW l \in Logins, SaveSession(l)
    PROVE  LoginInv'
<1>1. TypeOK /\ Knows(l) /\ stage[l] = "SaveSession"
    BY DEF LoginInv, SaveSession
<1>2. UNCHANGED <<users, identities, subject, user>>
    BY DEF SaveSession, tables
<1>3. [subject |-> subject[l], user |-> user[l]] \in identities
    BY <1>1 DEF Knows
<1>4. PICK s \in {"ok", "failed"} : GoTo(l, s)
    BY DEF SaveSession
<1>5. sessions' \subseteq sessions \cup {[login |-> l, user |-> user[l]]}
    BY DEF SaveSession
<1>6. stage' = [stage EXCEPT ![l] = s] /\ stage'[l] = s
    BY <1>1, <1>4 DEF GoTo, TypeOK
<1>7. Alone(l)
    BY <1>1, <1>2, <1>6 DEF Alone, TypeOK
<1>8. TypeOK'
    <2>1. user[l] \in UserIds
        <3>1. [subject |-> subject[l], user |-> user[l]] \in Identity
            BY <1>1, <1>3 DEF TypeOK
        <3> QED BY <3>1 DEF Identity
    <2>2. sessions' \subseteq Session
        BY <1>1, <1>5, <2>1 DEF TypeOK, Session
    <2>3. stage' \in [Logins -> {"idle"} \cup Calls \cup Answers]
        BY <1>1, <1>6 DEF TypeOK, Answers
    <2> QED BY <1>1, <1>2, <2>2, <2>3 DEF TypeOK
<1>9. Knows(l)'
    <2>1. subject[l] \in Subjects
        BY <1>1 DEF Knows, Calls
    <2>2. s \notin InTransaction
        BY DEF InTransaction
    <2> QED BY <1>2, <1>3, <1>6, <2>1, <2>2 DEF Knows, InTransaction
<1>10. ASSUME NEW m \in Logins \ {l} PROVE Knows(m)'
    <2>1. stage[m] \in InTransaction => user'[l] # user[m]
        BY <1>2 DEF LoginInv, Knows
    <2> QED BY <1>2, <1>6, <1>7, <2>1, OthersKnow
<1>11. SessionsHaveLogins'
    <2>1. \A a \in sessions' : a.login \in Logins
        BY <1>8 DEF TypeOK, Session
    <2>2. s # "idle"
        OBVIOUS
    <2>3. \A a \in sessions' : a.login # l => a \in sessions
        BY <1>5
    <2> QED BY <1>6, <1>7, <2>1, <2>2, <2>3 DEF LoginInv, SessionsHaveLogins, Alone
<1>12. AccountsAreWhole'
    BY <1>2 DEF LoginInv, AccountsAreWhole
<1>13. SessionsMatchAccounts'
    BY <1>2, <1>3, <1>5 DEF LoginInv, SessionsMatchAccounts
<1>14. ConflictMeansAccount'
    BY <1>2, <1>6, <1>7 DEF LoginInv, ConflictMeansAccount, Found, Alone
<1> QED BY <1>8, <1>9, <1>10, <1>11, <1>12, <1>13, <1>14 DEF LoginInv

LEMMA CrashStep ==
    ASSUME LoginInv, Crash
    PROVE  LoginInv'
<1>1. TypeOK /\ UNCHANGED <<users, identities, sessions, subject, user>>
    BY DEF LoginInv, Crash, tables
<1>2. \A l \in Logins :
        \/ stage'[l] = "aborted"
        \/ stage'[l] = stage[l] /\ stage[l] \notin Calls
    BY DEF Crash, InFlight
<1>3. TypeOK'
    <2>1. stage' \in [Logins -> {"idle"} \cup Calls \cup Answers]
        BY <1>1 DEF Crash, TypeOK, Answers
    <2> QED BY <1>1, <2>1 DEF TypeOK
<1>4. ASSUME NEW l \in Logins PROVE Knows(l)'
    <2>1. Knows(l)
        BY DEF LoginInv
    <2>2. "aborted" \notin Calls \cup {"ok", "conflict"}
        BY DEF Calls, InTransaction
    <2>3. stage'[l] \notin Calls
        BY <1>2, <2>2
    <2>4. InTransaction \subseteq Calls /\ "Commit" \in Calls
          /\ "GetUser" \in Calls /\ "SaveSession" \in Calls
        BY DEF Calls, InTransaction
    <2>5. stage'[l] \in {"ok", "conflict"} => stage'[l] = stage[l]
        BY <1>2, <2>2
    <2> QED BY <1>1, <2>1, <2>3, <2>4, <2>5 DEF Knows
<1>5. SessionsHaveLogins'
    <2>1. \A a \in sessions : a.login \in Logins
        BY <1>1 DEF TypeOK, Session
    <2> QED BY <1>1, <1>2, <2>1 DEF LoginInv, SessionsHaveLogins
<1>6. AccountsAreWhole' /\ SessionsMatchAccounts'
    BY <1>1 DEF LoginInv, AccountsAreWhole, SessionsMatchAccounts
<1>7. ConflictMeansAccount'
    BY <1>1, <1>2 DEF LoginInv, ConflictMeansAccount, Found
<1> QED BY <1>3, <1>4, <1>5, <1>6, <1>7 DEF LoginInv

LEMMA LoginNext ==
    ASSUME LoginInv, [Next]_vars
    PROVE  LoginInv'
<1>1. ASSUME NEW l \in Logins, Begin(l) PROVE LoginInv'
    BY <1>1, BeginStep
<1>2. ASSUME NEW l \in Logins, Continue(l) PROVE LoginInv'
    BY <1>2, FindIdentityStep, GetUserStep, InsertUserStep, LockIdentityStep,
        InsertIdentityStep, CheckIdentityStep, CommitStep, SaveSessionStep DEF Continue
<1>3. CASE Crash
    BY <1>3, CrashStep
<1>4. CASE UNCHANGED vars
    BY <1>4 DEF LoginInv, vars, TypeOK, Knows, Found, KeyIsHeld, SessionsHaveLogins,
        AccountsAreWhole, SessionsMatchAccounts, ConflictMeansAccount
<1> QED BY <1>1, <1>2, <1>3, <1>4 DEF Next, Quiet

(***************************************************************************)
(* The theorems                                                            *)
(***************************************************************************)

\* What each login knows at each call, and what the tables and the sessions then
\* are, holds in every reachable state: the invariant of the transaction of
\* user_oidc_identity.go:47-108 under any interleaving and any fault.
THEOREM LoginInvariant == Spec => []LoginInv
<1>1. Init => LoginInv
    BY LoginInit
<1>2. LoginInv /\ [Next]_vars => LoginInv'
    BY LoginNext
<1> QED BY <1>1, <1>2, PTL DEF Spec

\* Every table, session and login has the type it is declared with.
THEOREM LoginTypeCorrect == Spec => []TypeOK
<1>1. LoginInv => TypeOK
    BY DEF LoginInv
<1> QED BY <1>1, LoginInvariant, PTL

\* However many first logins race or fail, users and identities are in bijection
\* and a person has at most one user.
THEOREM AccountsWhole == Spec => []AccountsAreWhole
<1>1. LoginInv => AccountsAreWhole
    BY DEF LoginInv
<1> QED BY <1>1, LoginInvariant, PTL

\* Every session names the user of the person who logged in, and no other.
THEOREM SessionsAreOwned == Spec => []SessionsMatchAccounts
<1>1. LoginInv => SessionsMatchAccounts
    BY DEF LoginInv
<1> QED BY <1>1, LoginInvariant, PTL

\* A login refused for a conflict leaves a person who has an account.
THEOREM ConflictsAreReal == Spec => []ConflictMeansAccount
<1>1. LoginInv => ConflictMeansAccount
    BY DEF LoginInv
<1> QED BY <1>1, LoginInvariant, PTL

(***************************************************************************)
(* Login implements Accounts                                               *)
(***************************************************************************)

\* A step is invisible to Accounts if it leaves the identities alone and makes or
\* changes no successful answer.
LEMMA Invisible ==
    ASSUME UNCHANGED identities,
           \A m \in Logins : stage'[m] = "ok" <=> stage[m] = "ok",
           \A m \in Logins : stage[m] = "ok" =>
                subject'[m] = subject[m] /\ user'[m] = user[m]
    PROVE  UNCHANGED <<AccountsOf, SignedIn>>
<1>1. AccountsOf' = AccountsOf
    BY DEF AccountsOf
<1>2. SignedIn' = SignedIn
    BY DEF SignedIn
<1> QED BY <1>1, <1>2

\* A login that is not answered with success, nor was before.
LEMMA LoginInvisible ==
    ASSUME TypeOK, NEW l \in Logins, NEW s, s # "ok", GoTo(l, s), stage[l] # "ok",
           NEW x, subject' = [subject EXCEPT ![l] = x],
           NEW u, user' = [user EXCEPT ![l] = u],
           UNCHANGED identities
    PROVE  UNCHANGED <<AccountsOf, SignedIn>>
<1>1. /\ \A m \in Logins : stage'[m] = "ok" <=> stage[m] = "ok"
      /\ \A m \in Logins : stage[m] = "ok" =>
                subject'[m] = subject[m] /\ user'[m] = user[m]
    BY DEF TypeOK, GoTo
<1> QED BY <1>1, Invisible

LEMMA FailsInvisible ==
    ASSUME TypeOK, NEW l \in Logins, Fails(l), stage[l] # "ok"
    PROVE  UNCHANGED <<AccountsOf, SignedIn>>
<1>1. /\ subject' = [subject EXCEPT ![l] = subject[l]]
      /\ user' = [user EXCEPT ![l] = user[l]]
      /\ UNCHANGED identities /\ GoTo(l, "failed")
    BY DEF Fails, TypeOK, tables
<1> QED BY <1>1, LoginInvisible

LEMMA QuietCalls ==
    ASSUME TypeOK, NEW l \in Logins,
           \/ Begin(l) \/ FindIdentity(l) \/ GetUser(l) \/ InsertUser(l)
           \/ LockIdentity(l) \/ InsertIdentity(l) \/ CheckIdentity(l)
    PROVE  UNCHANGED <<AccountsOf, SignedIn>>
<1>1. subject = [subject EXCEPT ![l] = subject[l]] /\ user = [user EXCEPT ![l] = user[l]]
    BY DEF TypeOK
<1>2. CASE Begin(l)
    <2>1. stage[l] # "ok" /\ UNCHANGED <<identities, user>>
        BY <1>2 DEF Begin, BeginLogin, Refuse, tables
    <2>2. PICK s \in {"FindIdentity", "failed"} : GoTo(l, s)
        BY <1>2 DEF Begin, BeginLogin, Refuse
    <2>3. PICK x : subject' = [subject EXCEPT ![l] = x]
        BY <1>1, <1>2 DEF Begin, BeginLogin, Refuse
    <2> QED BY <1>1, <2>1, <2>2, <2>3, LoginInvisible
<1>3. CASE FindIdentity(l)
    <2>1. stage[l] # "ok" /\ UNCHANGED <<identities, subject>>
        BY <1>3 DEF FindIdentity, Fails, tables
    <2>2. PICK s \in {"GetUser", "InsertUser", "failed"} : GoTo(l, s)
        BY <1>3 DEF FindIdentity, Fails
    <2>3. PICK u : user' = [user EXCEPT ![l] = u]
        BY <1>1, <1>3 DEF FindIdentity, Fails
    <2> QED BY <1>1, <2>1, <2>2, <2>3, LoginInvisible
<1>4. CASE GetUser(l) \/ InsertUser(l) \/ LockIdentity(l) \/ InsertIdentity(l) \/ CheckIdentity(l)
    <2>1. stage[l] # "ok" /\ UNCHANGED <<identities, subject, user>>
        BY <1>4 DEF GetUser, InsertUser, LockIdentity, InsertIdentity, CheckIdentity,
            Existing, Fails, tables
    <2>2. PICK s \in (Calls \cup Answers) \ {"ok"} : GoTo(l, s)
        BY <1>4 DEF GetUser, InsertUser, LockIdentity, InsertIdentity, CheckIdentity,
            Existing, Fails, Calls, Answers, InTransaction
    <2> QED BY <1>1, <2>1, <2>2, LoginInvisible
<1> QED BY <1>2, <1>3, <1>4

\* The commit is the sign-up of the abstract specification.
LEMMA CommitSignsUp ==
    ASSUME LoginInv, NEW l \in Logins, Commit(l), ~Fails(l)
    PROVE  Promises!SignUp(subject[l], user[l])
<1>1. /\ TypeOK /\ stage[l] = "Commit"
      /\ Found(l) = {}
      /\ \A i \in identities : i.subject # subject[l] /\ i.user # user[l]
    BY CommitWrites DEF LoginInv, Commit
<1>2. /\ identities' = identities \cup {[subject |-> subject[l], user |-> user[l]]}
      /\ UNCHANGED <<subject, user>>
    BY <1>1 DEF Commit
<1>3. \A a \in AccountsOf : a[1] # subject[l] /\ a[2] # user[l]
    BY <1>1 DEF AccountsOf
<1>4. AccountsOf' = AccountsOf \cup {<<subject[l], user[l]>>}
    <2>1. PICK new : new = [subject |-> subject[l], user |-> user[l]]
        OBVIOUS
    <2>2. new.subject = subject[l] /\ new.user = user[l] /\ identities' = identities \cup {new}
        BY <1>2, <2>1
    <2>3. AccountsOf' = {<<i.subject, i.user>> : i \in identities'}
        BY DEF AccountsOf
    <2>4. AccountsOf' = AccountsOf \cup {<<new.subject, new.user>>}
        BY <2>2, <2>3, Zenon DEF AccountsOf
    <2> QED BY <2>2, <2>4
<1>5. \A m \in Logins : stage'[m] = "ok" <=> stage[m] = "ok"
    BY <1>1 DEF Commit, GoTo, TypeOK
<1>6. SignedIn' = SignedIn
    BY <1>2, <1>5 DEF SignedIn
<1> QED BY <1>3, <1>4, <1>6 DEF Promises!SignUp

\* Saving the session is the sign-in, or goes unseen.
LEMMA SaveSessionSignsIn ==
    ASSUME LoginInv, NEW l \in Logins, SaveSession(l)
    PROVE  \/ Promises!SignIn(<<subject[l], user[l]>>)
           \/ UNCHANGED <<AccountsOf, SignedIn>>
<1>1. TypeOK /\ Knows(l) /\ stage[l] = "SaveSession"
    BY DEF LoginInv, SaveSession
<1>2. UNCHANGED <<identities, subject, user>>
    BY DEF SaveSession, tables
<1>3. CASE GoTo(l, "failed")
    <2>1. /\ \A m \in Logins : stage'[m] = "ok" <=> stage[m] = "ok"
          /\ \A m \in Logins : stage[m] = "ok" =>
                    subject'[m] = subject[m] /\ user'[m] = user[m]
        BY <1>1, <1>2, <1>3 DEF GoTo, TypeOK
    <2> QED BY <1>2, <2>1, Invisible
<1>4. CASE GoTo(l, "ok")
    <2>1. <<subject[l], user[l]>> \in AccountsOf
        <3>1. [subject |-> subject[l], user |-> user[l]] \in identities
            BY <1>1 DEF Knows
        <3> QED BY <3>1 DEF AccountsOf
    <2>2. AccountsOf' = AccountsOf
        BY <1>2 DEF AccountsOf
    <2>3. \A m \in Logins : stage'[m] = "ok" <=> stage[m] = "ok" \/ m = l
        BY <1>1, <1>4 DEF GoTo, TypeOK
    <2>4. SignedIn' = SignedIn \cup {<<subject[l], user[l]>>}
        BY <1>2, <2>3 DEF SignedIn
    <2> QED BY <2>1, <2>2, <2>4 DEF Promises!SignIn
<1> QED BY <1>3, <1>4 DEF SaveSession

LEMMA LoginStepsImplement ==
    ASSUME LoginInv, [Next]_vars
    PROVE  Promises!Next \/ UNCHANGED <<AccountsOf, SignedIn>>
<1>1. TypeOK
    BY DEF LoginInv
<1>2. ASSUME NEW l \in Logins, Begin(l)
      PROVE  UNCHANGED <<AccountsOf, SignedIn>>
    BY <1>1, <1>2, QuietCalls
<1>3. ASSUME NEW l \in Logins, Commit(l)
      PROVE  Promises!Next \/ UNCHANGED <<AccountsOf, SignedIn>>
    <2>1. CASE Fails(l)
        <3>1. stage[l] # "ok"
            BY <1>3 DEF Commit
        <3> QED BY <1>1, <2>1, <3>1, FailsInvisible
    <2>2. CASE ~Fails(l)
        <3>1. subject[l] \in Subjects /\ user[l] \in UserIds
            BY <1>3, CommitWrites DEF Commit
        <3> QED BY <1>3, <2>2, <3>1, CommitSignsUp DEF Promises!Next
    <2> QED BY <2>1, <2>2
<1>4. ASSUME NEW l \in Logins, SaveSession(l)
      PROVE  Promises!Next \/ UNCHANGED <<AccountsOf, SignedIn>>
    <2>1. Knows(l) /\ stage[l] = "SaveSession"
        BY <1>4 DEF LoginInv, SaveSession
    <2>2. [subject |-> subject[l], user |-> user[l]] \in Identity
        BY <1>1, <2>1 DEF Knows, TypeOK
    <2>3. <<subject[l], user[l]>> \in Subjects \X UserIds
        BY <2>2 DEF Identity
    <2> QED BY <1>4, <2>3, SaveSessionSignsIn DEF Promises!Next
<1>5. ASSUME NEW l \in Logins, Continue(l)
      PROVE  Promises!Next \/ UNCHANGED <<AccountsOf, SignedIn>>
    BY <1>1, <1>3, <1>4, <1>5, QuietCalls DEF Continue
<1>6. CASE Crash
    <2>1. UNCHANGED <<identities, subject, user>>
        BY <1>6 DEF Crash, tables
    <2>2. "ok" \notin Calls
        BY DEF Calls, InTransaction
    <2>3. \A m \in Logins : stage'[m] = "ok" <=> stage[m] = "ok"
        BY <1>6, <2>2 DEF Crash, InFlight
    <2> QED BY <2>1, <2>3, Invisible
<1>7. CASE UNCHANGED vars
    <2>1. UNCHANGED <<identities, stage, subject, user>>
        BY <1>7 DEF vars
    <2> QED BY <2>1, Invisible
<1> QED BY <1>2, <1>5, <1>6, <1>7 DEF Next, Quiet

\* The concurrent logins, with a transaction of separate statements, lost answers,
\* errors and crashes, implement a service in which a person gets an account once
\* and in one step, and a successful login signs in to it.
THEOREM LoginImplementsAccounts == Spec => ImplementsAccounts
<1>1. Init => Promises!Init
    BY DEF Init, Promises!Init, AccountsOf, SignedIn
<1>2. LoginInv /\ [Next]_vars => [Promises!Next]_<<AccountsOf, SignedIn>>
    BY LoginStepsImplement
<1> QED BY <1>1, <1>2, LoginInvariant, PTL DEF Spec, ImplementsAccounts, Promises!Spec

=============================================================================
