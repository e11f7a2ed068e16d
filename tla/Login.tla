-------------------------------- MODULE Login --------------------------------
(***************************************************************************)
(* OIDCLogin of the auth module (internal/auth/app/oidc/login.go), run     *)
(* concurrently by several logins, over the tables auth_users and          *)
(* auth_oidc_identities and the sessions in Redis.                         *)
(*                                                                         *)
(* A login that finds no identity creates a user and an identity in one    *)
(* transaction (infra/repository/user_oidc_identity.go).  PostgreSQL runs  *)
(* it at READ COMMITTED: each statement sees what is committed when it     *)
(* starts, and an insert waits for an uncommitted row with its key.  So    *)
(* the transaction is modelled statement by statement; its own rows are    *)
(* the login's until it commits.                                           *)
(*                                                                         *)
(* There is one provider (google), so an identity is given by its subject. *)
(***************************************************************************)

CONSTANTS
    Logins,    \* the login requests
    Subjects,  \* the persons, as the provider names them
    UserIds,   \* ids a new user can be given
    Faults,    \* what may go wrong outside the handlers
    None       \* no subject or user yet

FaultKinds == {"db_error", "commit_ack_lost", "redis_error", "redis_ack_lost", "crash"}

Identity == [subject: Subjects, user: UserIds]
Session == [login: Logins, user: UserIds]

ASSUME LoginFaultsAssumption == Faults \subseteq FaultKinds
ASSUME LoginNoneAssumption == None \notin Subjects \cup UserIds

VARIABLES
    users,       \* the committed rows of auth_users
    identities,  \* the committed rows of auth_oidc_identities
    sessions,    \* the sessions in Redis, by the login that saved them
    stage,       \* the next call of each login, or its answer
    subject,     \* the subject of the login's ID token
    user         \* the user the login holds in memory

vars == <<users, identities, sessions, stage, subject, user>>
tables == <<users, identities>>

InTransaction == {"InsertUser", "LockIdentity", "InsertIdentity", "CheckIdentity", "Commit"}
Calls == InTransaction \cup {"FindIdentity", "GetUser", "SaveSession"}
Answers == {"ok", "conflict", "failed", "aborted"}

InFlight == {l \in Logins : stage[l] \in Calls}

TypeOK ==
    /\ users \subseteq UserIds
    /\ identities \subseteq Identity
    /\ sessions \subseteq Session
    /\ stage \in [Logins -> {"idle"} \cup Calls \cup Answers]
    /\ subject \in [Logins -> Subjects \cup {None}]
    /\ user \in [Logins -> UserIds \cup {None}]

Init ==
    /\ users = {}
    /\ identities = {}
    /\ sessions = {}
    /\ stage = [l \in Logins |-> "idle"]
    /\ subject = [l \in Logins |-> None]
    /\ user = [l \in Logins |-> None]

GoTo(l, s) == stage' = [stage EXCEPT ![l] = s]

\* The committed identities of a login's person: at most one, by the primary key.
Found(l) == {i \in identities : i.subject = subject[l]}

\* A statement fails; inside the transaction that rolls it back.
Fails(l) ==
    /\ "db_error" \in Faults
    /\ GoTo(l, "failed")
    /\ UNCHANGED <<tables, sessions, subject, user>>

(***************************************************************************)
(* resolveUser                                                             *)
(***************************************************************************)

\* The parameters are loaded and the code is exchanged: an ID token, whose
\* subject is the person, or an answer (Refuse).
BeginLogin(l) ==
    /\ stage[l] = "idle"
    /\ \E s \in Subjects : subject' = [subject EXCEPT ![l] = s]
    /\ GoTo(l, "FindIdentity")
    /\ UNCHANGED <<tables, sessions, user>>

Refuse(l) ==
    /\ stage[l] = "idle"
    /\ GoTo(l, "failed")
    /\ UNCHANGED <<tables, sessions, subject, user>>

\* GetOIDCIdentityByProviderSubject; without an identity a user with a new id
\* is made, in memory.
FindIdentity(l) ==
    /\ stage[l] = "FindIdentity"
    /\ \/ /\ \E i \in Found(l) : user' = [user EXCEPT ![l] = i.user]
          /\ GoTo(l, "GetUser")
          /\ UNCHANGED <<tables, sessions, subject>>
       \/ /\ Found(l) = {}
          /\ \E u \in UserIds \ users :
                /\ \A m \in Logins : user[m] # u
                /\ user' = [user EXCEPT ![l] = u]
          /\ GoTo(l, "InsertUser")
          /\ UNCHANGED <<tables, sessions, subject>>
       \/ Fails(l)

GetUser(l) ==
    /\ stage[l] = "GetUser"
    /\ \/ /\ GoTo(l, IF user[l] \in users THEN "SaveSession" ELSE "failed")
          /\ UNCHANGED <<tables, sessions, subject, user>>
       \/ Fails(l)

(***************************************************************************)
(* SaveUserWithOIDCIdentity                                                *)
(***************************************************************************)

\* Mutant: the user is saved before the transaction.
InsertUser_OutsideTransaction(l) ==
    /\ stage[l] = "InsertUser"
    /\ users' = users \cup {user[l]}
    /\ GoTo(l, "LockIdentity")
    /\ UNCHANGED <<identities, sessions, subject, user>>

\* INSERT INTO auth_users ... ON CONFLICT DO NOTHING: not visible to others yet.
InsertUser(l) ==
    /\ stage[l] = "InsertUser"
    /\ \/ /\ GoTo(l, "LockIdentity")
          /\ UNCHANGED <<tables, sessions, subject, user>>
       \/ Fails(l)

\* An identity is there: it must be the login's own.
Existing(l) ==
    /\ Found(l) # {}
    /\ GoTo(l, IF \A i \in Found(l) : i.user = user[l] THEN "Commit" ELSE "conflict")
    /\ UNCHANGED <<tables, sessions, subject, user>>

\* Mutant: "record not found" is taken for a conflict.
LockIdentity_NotFoundIsConflict(l) ==
    /\ stage[l] = "LockIdentity"
    /\ GoTo(l, "conflict")
    /\ UNCHANGED <<tables, sessions, subject, user>>

\* SELECT ... FOR UPDATE: sees committed identities only.
LockIdentity(l) ==
    /\ stage[l] = "LockIdentity"
    /\ \/ Existing(l)
       \/ /\ Found(l) = {}
          /\ GoTo(l, "InsertIdentity")
          /\ UNCHANGED <<tables, sessions, subject, user>>
       \/ Fails(l)

\* Another transaction has inserted the identity and has not ended.
KeyIsHeld(l) ==
    \E m \in Logins \ {l} : stage[m] = "Commit" /\ subject[m] = subject[l]

\* Mutant: an insert that affected no row is taken for a success.
InsertIdentity_NoRowsCheck(l) ==
    /\ stage[l] = "InsertIdentity"
    /\ ~KeyIsHeld(l)
    /\ GoTo(l, "Commit")
    /\ UNCHANGED <<tables, sessions, subject, user>>

\* INSERT INTO auth_oidc_identities ... ON CONFLICT DO NOTHING: waits for the
\* holder of the key, and affects no row if that one has committed.
InsertIdentity(l) ==
    /\ stage[l] = "InsertIdentity"
    /\ ~KeyIsHeld(l)
    /\ \/ /\ GoTo(l, IF Found(l) = {} THEN "Commit" ELSE "CheckIdentity")
          /\ UNCHANGED <<tables, sessions, subject, user>>
       \/ Fails(l)

\* SELECT ... FOR UPDATE after an insert that affected no row.
CheckIdentity(l) ==
    /\ stage[l] = "CheckIdentity"
    /\ \/ Existing(l)
       \/ /\ Found(l) = {}
          /\ GoTo(l, "failed")
          /\ UNCHANGED <<tables, sessions, subject, user>>
       \/ Fails(l)

\* Mutant: the error of the transaction is not looked at.
Commit_IgnoreError(l) ==
    /\ stage[l] = "Commit"
    /\ \/ /\ users' = users \cup {user[l]}
          /\ identities' = identities \cup {[subject |-> subject[l], user |-> user[l]]}
       \/ "db_error" \in Faults /\ UNCHANGED tables
    /\ GoTo(l, "SaveSession")
    /\ UNCHANGED <<sessions, subject, user>>

Commit(l) ==
    /\ stage[l] = "Commit"
    /\ \/ /\ users' = users \cup {user[l]}
          /\ identities' = IF Found(l) = {}
                           THEN identities \cup {[subject |-> subject[l], user |-> user[l]]}
                           ELSE identities
          /\ \/ GoTo(l, "SaveSession")
             \/ "commit_ack_lost" \in Faults /\ GoTo(l, "failed")
          /\ UNCHANGED <<sessions, subject, user>>
       \/ Fails(l)

(***************************************************************************)
(* The session                                                             *)
(***************************************************************************)

\* Mutant: a login that cannot save its session starts over.
SaveSession_StartOver(l) ==
    /\ stage[l] = "SaveSession"
    /\ \/ /\ sessions' = sessions \cup {[login |-> l, user |-> user[l]]}
          /\ GoTo(l, "ok")
       \/ /\ "redis_error" \in Faults
          /\ UNCHANGED sessions
          /\ GoTo(l, "FindIdentity")
    /\ UNCHANGED <<tables, subject, user>>

\* Redis SET, then the token is signed and returned.
SaveSession(l) ==
    /\ stage[l] = "SaveSession"
    /\ \/ /\ sessions' = sessions \cup {[login |-> l, user |-> user[l]]}
          /\ \/ GoTo(l, "ok")
             \/ "redis_ack_lost" \in Faults /\ GoTo(l, "failed")
       \/ /\ "redis_error" \in Faults
          /\ UNCHANGED sessions
          /\ GoTo(l, "failed")
    /\ UNCHANGED <<tables, subject, user>>

\* The process dies; PostgreSQL rolls its transactions back.
Crash ==
    /\ "crash" \in Faults
    /\ InFlight # {}
    /\ stage' = [l \in Logins |-> IF l \in InFlight THEN "aborted" ELSE stage[l]]
    /\ UNCHANGED <<tables, sessions, subject, user>>

Begin(l) == BeginLogin(l) \/ Refuse(l)

Continue(l) ==
    \/ FindIdentity(l) \/ GetUser(l)
    \/ InsertUser(l) \/ LockIdentity(l) \/ InsertIdentity(l) \/ CheckIdentity(l)
    \/ Commit(l) \/ SaveSession(l)

\* No more logins begin; one that waits for ever is a deadlock.
Quiet == InFlight = {} /\ UNCHANGED vars

Next ==
    \/ \E l \in Logins : Begin(l) \/ Continue(l)
    \/ Crash
    \/ Quiet

Spec == Init /\ [][Next]_vars

\* A login that has started goes on, unless it waits for another transaction.
FairSpec == Spec /\ \A l \in Logins : WF_vars(Continue(l))

-----------------------------------------------------------------------------

\* A first login leaves a user and an identity, or neither: no race, failure or
\* lost commit leaves a user that nobody can log in to, an identity without
\* its user, or a person with two users (user_oidc_identity.go:47-108).
AccountsAreWhole ==
    /\ users = {i.user : i \in identities}
    /\ \A i, j \in identities : i.subject = j.subject \/ i.user = j.user => i = j

\* All sessions of a person are sessions of one user, and that user is the
\* person's account, however many first logins race.
SessionsMatchAccounts ==
    \A s \in sessions : [subject |-> subject[s.login], user |-> s.user] \in identities

\* A login is refused with ErrOIDCIdentityConflict only if the person has an
\* account by then: trying again finds it.
ConflictMeansAccount == \A l \in Logins : stage[l] = "conflict" => Found(l) # {}

\* Every login answers: no transaction waits for ever for another.
LoginsAnswer == \A l \in Logins : l \in InFlight ~> stage[l] \in Answers

(***************************************************************************)
(* The abstract specification                                              *)
(***************************************************************************)

\* The accounts are the identities; a login that is answered signs in.
AccountsOf == {<<i.subject, i.user>> : i \in identities}
SignedIn == {<<subject[l], user[l]>> : l \in {m \in Logins : stage[m] = "ok"}}

Promises == INSTANCE Accounts WITH accounts <- AccountsOf, signedIn <- SignedIn

\* The transaction of two inserts implements one atomic sign-up, and every login
\* that is answered with success signs in to the account it made or found.
ImplementsAccounts == Promises!Spec

=============================================================================
