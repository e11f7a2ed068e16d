------------------------------ MODULE Sessions ------------------------------
(***************************************************************************)
(* The life of a session, from the parameters of an OIDC login over the    *)
(* login and the requests made with its token to its logout or expiry      *)
(* (internal/auth/app/oidc, app/session, app/logout, infra/jwt, the two    *)
(* Redis repositories, and authclient of the task module, which the device *)
(* module's is a twin of).                                                 *)
(*                                                                         *)
(* Time passes between all steps, so a time that was read is in the past   *)
(* when it is used: the lifetime of a Redis key is computed before Redis   *)
(* executes the SET, and counts from then.  Login.tla says how the account *)
(* of a person is found or made; here it is the person.                    *)
(*                                                                         *)
(* A state is named by the call that made it, a session and its token by   *)
(* the login that made them.                                               *)
(***************************************************************************)
EXTENDS Integers

CONSTANTS
    ParamsCalls, LoginCalls, LogoutCalls,  \* calls of OIDCParams, OIDCLogin, Logout
    Requests,          \* calls of tasks and devices, made with a token
    Users,
    SessionDuration,   \* of a session
    ParamsLifetime,    \* ParamsExpirationDuration
    Second,            \* times in a token are cut to it
    Leeway,            \* with which the expiry of a token is checked
    MaxTime,           \* the clock stops here
    Faults,            \* what may go wrong outside the handlers
    None

FaultKinds == {"redis_error", "redis_ack_lost", "auth_unavailable", "crash"}

ASSUME SessionsTimesAssumption ==
    /\ SessionDuration \in Nat \ {0} /\ ParamsLifetime \in Nat \ {0}
    /\ Second \in Nat \ {0} /\ Leeway \in Nat /\ MaxTime \in Nat
    /\ Leeway >= Second
ASSUME SessionsFaultsAssumption == Faults \subseteq FaultKinds
ASSUME SessionsCallsAssumption ==
    /\ ParamsCalls \cap LoginCalls = {} /\ ParamsCalls \cap LogoutCalls = {}
    /\ ParamsCalls \cap Requests = {} /\ LoginCalls \cap LogoutCalls = {}
    /\ LoginCalls \cap Requests = {} /\ LogoutCalls \cap Requests = {}

Calls == ParamsCalls \cup LoginCalls \cup LogoutCalls \cup Requests

VARIABLES
    now,       \* the clock
    params,    \* login parameters in Redis: by state, when Redis drops them
    sessions,  \* sessions in Redis: by login
    stage,     \* the next step of each call, or its answer
    at,        \* a time each call holds: one it read, or the expiry of a session
    subject,   \* the state a login brings, the session a token names
    user,      \* the user a call acts for
    ended      \* the sessions whose logout was answered when a request began

vars == <<now, params, sessions, stage, at, subject, user, ended>>

Steps == {"SaveParams", "Exchange", "SaveSession", "Sign", "DeleteSession", "GetSession",
          "CheckExpiry", "Act"}
\* Of OIDCParams, OIDCLogin and Logout "refused" is InvalidArgument and "failed"
\* Internal; of requests, what ValidateSession found.
Answers == {"ok", "refused", "failed", "token_invalid", "session_not_found", "redis_failed",
            "expired", "unavailable", "aborted"}

Session == [user: Users, expiresAt: Nat, deadline: Nat]

ASSUME SessionsNoneAssumption ==
    None \notin Users \cup ParamsCalls \cup LoginCalls \cup Nat \cup Session

InFlight == {c \in Calls : stage[c] \in Steps}

TypeOK ==
    /\ now \in Nat
    /\ params \in [ParamsCalls -> Nat \cup {None}]
    /\ sessions \in [LoginCalls -> Session \cup {None}]
    /\ stage \in [Calls -> {"idle"} \cup Steps \cup Answers]
    /\ at \in [Calls -> Nat]
    /\ subject \in [Calls -> ParamsCalls \cup LoginCalls \cup {None}]
    /\ user \in [Calls -> Users \cup {None}]
    /\ ended \in [Requests -> SUBSET LoginCalls]

Init ==
    /\ now = 0
    /\ params = [p \in ParamsCalls |-> None]
    /\ sessions = [l \in LoginCalls |-> None]
    /\ stage = [c \in Calls |-> "idle"]
    /\ at = [c \in Calls |-> 0]
    /\ subject = [c \in Calls |-> None]
    /\ user = [c \in Calls |-> None]
    /\ ended = [r \in Requests |-> {}]

Tick ==
    /\ now < MaxTime /\ now' = now + 1
    /\ UNCHANGED <<params, sessions, stage, at, subject, user, ended>>

GoTo(c, s) == stage' = [stage EXCEPT ![c] = s]
ReadClock(c) == at' = [at EXCEPT ![c] = now]

\* A call to Redis: it is executed or not, and the answer may be lost.
Execute(c, effect, unchanged, next) ==
    \/ effect /\ GoTo(c, next)
    \/ "redis_ack_lost" \in Faults /\ effect /\ GoTo(c, "failed")
    \/ "redis_error" \in Faults /\ unchanged /\ GoTo(c, "failed")

\* When Redis drops a key it is told to set now: the time left of a lifetime
\* that began at at[c] is read from the clock before the SET is executed.
Deadlines(c, lifetime) ==
    {now + (at[c] + lifetime - read) : read \in {t \in at[c]..now : t < at[c] + lifetime}}

\* ErrParamsAlreadyExpired, ErrSessionAlreadyExpired: no time is left.
TooLate(c, lifetime) == now >= at[c] + lifetime /\ GoTo(c, "failed")

(***************************************************************************)
(* OIDCParams                                                              *)
(***************************************************************************)

\* State, nonce and verifier are made; their lifetime begins.
GenerateParams(p) ==
    /\ stage[p] = "idle"
    /\ ReadClock(p) /\ GoTo(p, "SaveParams")
    /\ UNCHANGED <<now, params, sessions, subject, user, ended>>

SaveParams(p) ==
    /\ stage[p] = "SaveParams"
    /\ \/ \E d \in Deadlines(p, ParamsLifetime) :
             Execute(p, params' = [params EXCEPT ![p] = d], params' = params, "ok")
       \/ TooLate(p, ParamsLifetime) /\ params' = params
    /\ UNCHANGED <<now, sessions, at, subject, user, ended>>

(***************************************************************************)
(* OIDCLogin                                                               *)
(***************************************************************************)

IsExpired(p) == now > at[p] + ParamsLifetime

\* GetParamsByState: the parameters stay in Redis, for other logins too.
LoadParams(l) ==
    /\ stage[l] = "idle"
    /\ \E p \in {q \in ParamsCalls : stage[q] = "ok"} :
        /\ subject' = [subject EXCEPT ![l] = p]
        /\ \/ GoTo(l, IF now < params[p] /\ ~IsExpired(p) THEN "Exchange" ELSE "refused")
           \/ "redis_error" \in Faults /\ GoTo(l, "failed")
    /\ ReadClock(l)
    /\ UNCHANGED <<now, params, sessions, user, ended>>

\* Mutant: the error of the exchange is not looked at.
Exchange_IgnoreError(l) ==
    /\ stage[l] = "Exchange"
    /\ \E u \in Users \cup {None} : user' = [user EXCEPT ![l] = u]
    /\ ReadClock(l) /\ GoTo(l, "SaveSession")
    /\ UNCHANGED <<now, params, sessions, subject, ended>>

\* The provider names the person for a code, verifier and nonce that belong
\* together, the account is resolved, and the session begins.
Exchange(l) ==
    /\ stage[l] = "Exchange"
    /\ \/ /\ \E u \in Users : user' = [user EXCEPT ![l] = u]
          /\ GoTo(l, "SaveSession")
       \/ /\ user' = user /\ GoTo(l, "refused")
    /\ ReadClock(l)
    /\ UNCHANGED <<now, params, sessions, subject, ended>>

SaveSession(l) ==
    /\ stage[l] = "SaveSession"
    /\ \/ \E d \in Deadlines(l, SessionDuration) :
             LET s == [user |-> user[l], expiresAt |-> at[l] + SessionDuration, deadline |-> d]
             IN Execute(l, sessions' = [sessions EXCEPT ![l] = s], sessions' = sessions, "Sign")
       \/ TooLate(l, SessionDuration) /\ sessions' = sessions
    /\ UNCHANGED <<now, params, at, subject, user, ended>>

\* Generate: a user whose colour is invalid gets no token; the session stays.
Sign(l) ==
    /\ stage[l] = "Sign"
    /\ GoTo(l, "ok") \/ GoTo(l, "failed")
    /\ UNCHANGED <<now, params, sessions, at, subject, user, ended>>

(***************************************************************************)
(* Tokens                                                                  *)
(***************************************************************************)

Issued == {l \in LoginCalls : stage[l] = "ok"}

\* The expiry in the token of a session.
Exp(l) == ((at[l] + SessionDuration) \div Second) * Second

\* Mutant: the expiry is compared without leeway.
Verifies_NoLeeway(l) == now <= Exp(l)

\* Verify of the JWT: its signature is good, so its expiry decides.
Verifies(l) == now <= Exp(l) + Leeway

(***************************************************************************)
(* Logout                                                                  *)
(***************************************************************************)

BeginLogout(o) ==
    /\ stage[o] = "idle"
    /\ \E l \in Issued :
        /\ subject' = [subject EXCEPT ![o] = l]
        /\ GoTo(o, IF Verifies(l) THEN "DeleteSession" ELSE "refused")
    /\ UNCHANGED <<now, params, sessions, at, user, ended>>

\* Mutant: a failure of Redis is logged, and the logout answered.
DeleteSession_IgnoreError(o) ==
    /\ stage[o] = "DeleteSession"
    /\ sessions' \in {[sessions EXCEPT ![subject[o]] = None]}
                        \cup (IF "redis_error" \in Faults THEN {sessions} ELSE {})
    /\ GoTo(o, "ok")
    /\ UNCHANGED <<now, params, at, subject, user, ended>>

DeleteSession(o) ==
    /\ stage[o] = "DeleteSession"
    /\ Execute(o, sessions' = [sessions EXCEPT ![subject[o]] = None], sessions' = sessions, "ok")
    /\ UNCHANGED <<now, params, at, subject, user, ended>>

(***************************************************************************)
(* Requests made with a token: ValidateSession, then the handler           *)
(***************************************************************************)

LoggedOut == {subject[o] : o \in {p \in LogoutCalls : stage[p] = "ok"}}

BeginRequest(r) ==
    /\ stage[r] = "idle"
    /\ \E l \in Issued :
        /\ subject' = [subject EXCEPT ![r] = l]
        /\ GoTo(r, IF Verifies(l) THEN "GetSession" ELSE "token_invalid")
    /\ ended' = [ended EXCEPT ![r] = LoggedOut]
    /\ UNCHANGED <<now, params, sessions, at, user>>

Present(l) == IF sessions[l] = None THEN FALSE ELSE now < sessions[l].deadline

\* The user and the expiry are read with the session; a failure of Redis is
\* answered like a session that is not there.
GetSession(r) ==
    /\ stage[r] = "GetSession"
    /\ \/ /\ Present(subject[r])
          /\ user' = [user EXCEPT ![r] = sessions[subject[r]].user]
          /\ at' = [at EXCEPT ![r] = sessions[subject[r]].expiresAt]
          /\ GoTo(r, "CheckExpiry")
       \/ /\ ~Present(subject[r])
          /\ UNCHANGED <<user, at>> /\ GoTo(r, "session_not_found")
       \/ /\ "redis_error" \in Faults
          /\ UNCHANGED <<user, at>> /\ GoTo(r, "redis_failed")
    /\ UNCHANGED <<now, params, sessions, subject, ended>>

\* The session that was read, whatever happened to it since.
CheckExpiry(r) ==
    /\ stage[r] = "CheckExpiry"
    /\ GoTo(r, IF at[r] > now THEN "Act" ELSE "expired")
    /\ UNCHANGED <<now, params, sessions, at, subject, user, ended>>

\* The auth service does not answer, or answers with another error.
Unavailable(r) ==
    /\ "auth_unavailable" \in Faults
    /\ stage[r] \in {"GetSession", "CheckExpiry"}
    /\ GoTo(r, "unavailable")
    /\ UNCHANGED <<now, params, sessions, at, subject, user, ended>>

\* The handler does what it was asked for, for the user.
Act(r) ==
    /\ stage[r] = "Act"
    /\ GoTo(r, "ok")
    /\ UNCHANGED <<now, params, sessions, at, subject, user, ended>>

\* The process dies; Redis keeps what it has.
Crash ==
    /\ "crash" \in Faults
    /\ InFlight # {}
    /\ stage' = [c \in Calls |-> IF c \in InFlight THEN "aborted" ELSE stage[c]]
    /\ UNCHANGED <<now, params, sessions, at, subject, user, ended>>

Next ==
    \/ Tick
    \/ \E p \in ParamsCalls : GenerateParams(p) \/ SaveParams(p)
    \/ \E l \in LoginCalls : LoadParams(l) \/ Exchange(l) \/ SaveSession(l) \/ Sign(l)
    \/ \E o \in LogoutCalls : BeginLogout(o) \/ DeleteSession(o)
    \/ \E r \in Requests :
        BeginRequest(r) \/ GetSession(r) \/ CheckExpiry(r) \/ Unavailable(r) \/ Act(r)
    \/ Crash

Spec == Init /\ [][Next]_vars

(***************************************************************************)
(* What handlers and clients make of an answer                             *)
(***************************************************************************)

\* The code of the auth service: a failure of Redis is told like a session that
\* is not there.
ValidateSessionCode(answer) ==
    IF answer \in {"token_invalid", "session_not_found", "redis_failed", "expired"}
    THEN "unauthenticated" ELSE "internal"

\* The error of the auth client, which the handlers pass on.
AuthError(answer) ==
    IF ValidateSessionCode(answer) \in {"unauthenticated", "invalid_argument"}
    THEN "ErrUnauthorized" ELSE "ErrAuthServiceUnavailable"

Rejections == {"token_invalid", "session_not_found", "redis_failed", "expired", "unavailable"}

-----------------------------------------------------------------------------

\* A handler acts for a user only if nobody had been told, before the request
\* began, that the session is logged out: a logout that is answered has taken
\* effect, and no race of logins, logouts and requests brings a session back
\* (app/logout/logout.go:45-82).  A request that was validated before may still
\* act after the answer (app/session/validate.go:57).
LogoutIsFinal ==
    \A r \in Requests : stage[r] \in {"Act", "ok"} => subject[r] \notin ended[r]

\* No user is thrown out of a session that lives: the error that makes the
\* client log in again means that the session has expired or that its logout
\* has begun, unless Redis failed, which the error hides (validate.go:86-91).
\* Neither the cut expiry of the token nor the key's lifetime ends it early.
LiveSessionsAreAccepted ==
    \A r \in Requests :
        stage[r] \in Rejections /\ AuthError(stage[r]) = "ErrUnauthorized" =>
            \/ stage[r] = "redis_failed"
            \/ now >= at[subject[r]] + SessionDuration
            \/ \E o \in LogoutCalls : stage[o] # "idle" /\ subject[o] = subject[r]

=============================================================================
