---------------------------- MODULE SessionsProofs ----------------------------
(***************************************************************************)
(* Proofs about Sessions, for every set of calls and users, all lifetimes, *)
(* every granularity of token times that the leeway covers, and any faults.*)
(***************************************************************************)
EXTENDS Sessions, TLAPS

\* A session is never older than its login says, and Redis keeps it at least
\* until it expires.
SessionKnown(l) ==
    sessions[l] # None =>
        /\ stage[l] \in {"Sign", "ok", "failed", "aborted"}
        /\ sessions[l].expiresAt = at[l] + SessionDuration
        /\ sessions[l].deadline >= sessions[l].expiresAt

LogoutBegun(l) == \E o \in LogoutCalls : stage[o] # "idle" /\ subject[o] = l

LoginKnows(l) ==
    /\ stage[l] \in {"Exchange", "SaveSession", "Sign", "ok"} => subject[l] \in ParamsCalls
    /\ stage[l] \in {"SaveSession", "Sign", "ok"} => user[l] \in Users
    /\ stage[l] \in {"Sign", "ok"} /\ sessions[l] = None => LogoutBegun(l)

LogoutKnows(o) ==
    /\ stage[o] # "idle" => subject[o] \in Issued
    /\ stage[o] = "ok" => sessions[subject[o]] = None

RequestKnows(r) ==
    /\ stage[r] \notin {"idle", "aborted"} => subject[r] \in Issued
    /\ \A l \in ended[r] : l \in Issued /\ sessions[l] = None
    /\ stage[r] \in {"CheckExpiry", "Act", "ok"} => subject[r] \notin ended[r]
    /\ stage[r] = "CheckExpiry" => at[r] = at[subject[r]] + SessionDuration
    /\ stage[r] \in {"token_invalid", "session_not_found", "expired"} =>
          now >= at[subject[r]] + SessionDuration \/ LogoutBegun(subject[r])

SessionsInv ==
    /\ TypeOK
    /\ \A l \in LoginCalls : SessionKnown(l) /\ LoginKnows(l)
    /\ \A o \in LogoutCalls : LogoutKnows(o)
    /\ \A r \in Requests : RequestKnows(r)

(***************************************************************************)
(* Times                                                                   *)
(***************************************************************************)

\* Cutting a time takes less than a second from it.
LEMMA Cut ==
    ASSUME NEW n \in Nat, NEW s \in Nat \ {0}
    PROVE  (n \div s) * s \in Nat /\ (n \div s) * s > n - s
<1>1. n = (n \div s) * s + (n % s) /\ n % s \in 0..s - 1 /\ n \div s \in Nat
    BY Z3
<1> QED BY <1>1, Z3

\* A token is refused only when its session has expired.
LEMMA TokensOutliveSessions ==
    ASSUME TypeOK, NEW l \in LoginCalls, ~Verifies(l)
    PROVE  now >= at[l] + SessionDuration
<1> DEFINE n == at[l] + SessionDuration
<1>1. n \in Nat /\ now \in Nat /\ Second \in Nat \ {0} /\ Leeway \in Nat /\ Leeway >= Second
    BY SessionsTimesAssumption DEF TypeOK, Calls
<1> HIDE DEF n
<1>2. now > (n \div Second) * Second + Leeway
    <2>1. (n \div Second) * Second \in Nat
        BY <1>1, Cut
    <2> QED BY <1>1, <2>1 DEF Verifies, Exp, n
<1>3. now >= n
    BY <1>1, <1>2, Cut
<1> QED BY <1>3 DEF n

\* Redis never drops a key before the lifetime is over.
LEMMA DeadlinesAreLate ==
    ASSUME TypeOK, NEW c \in Calls, NEW lifetime \in Nat, NEW d \in Deadlines(c, lifetime)
    PROVE  d \in Nat /\ d >= at[c] + lifetime
<1>1. now \in Nat /\ at[c] \in Nat
    BY DEF TypeOK
<1>2. PICK read \in {t \in at[c]..now : t < at[c] + lifetime} :
        d = now + (at[c] + lifetime - read)
    BY DEF Deadlines
<1> QED BY <1>1, <1>2

(***************************************************************************)
(* Steps                                                                   *)
(***************************************************************************)

\* A step of call c, seen by the others: all of their variables stand still, and
\* a session of theirs goes only if c is the logout that names it.
StepOf(c) ==
    /\ now' = now
    /\ params' \in [ParamsCalls -> Nat \cup {None}]
    /\ sessions' \in [LoginCalls -> Session \cup {None}]
    /\ at' \in [Calls -> Nat]
    /\ subject' \in [Calls -> ParamsCalls \cup LoginCalls \cup {None}]
    /\ user' \in [Calls -> Users \cup {None}]
    /\ ended' \in [Requests -> SUBSET LoginCalls]
    /\ \A b \in Calls \ {c} : at'[b] = at[b] /\ subject'[b] = subject[b] /\ user'[b] = user[b]
    /\ \A r \in Requests \ {c} : ended'[r] = ended[r]
    /\ \A l \in LoginCalls \ {c} :
          \/ sessions'[l] = sessions[l]
          \/ sessions'[l] = None /\ c \in LogoutCalls /\ subject'[c] = l

\* Nothing others rely on is taken back.
Forward ==
    /\ now' >= now
    /\ \A o \in LogoutCalls : stage[o] # "idle" => stage'[o] # "idle" /\ subject'[o] = subject[o]
    /\ \A c \in ParamsCalls \cup LoginCalls : stage[c] = "ok" =>
          stage'[c] = "ok" /\ at'[c] = at[c]
    /\ \A l \in LoginCalls : stage[l] = "ok" /\ sessions[l] = None => sessions'[l] = None

\* A call that stands still or dies, while the others go forward.
Stands(c) ==
    /\ stage'[c] = stage[c] \/ (stage[c] \in Steps /\ stage'[c] = "aborted")
    /\ at'[c] = at[c] /\ subject'[c] = subject[c] /\ user'[c] = user[c]

LEMMA LogoutsBegin ==
    ASSUME Forward, NEW l \in LoginCalls, LogoutBegun(l)
    PROVE  LogoutBegun(l)'
BY DEF Forward, LogoutBegun

LEMMA LoginStands ==
    ASSUME SessionsInv, Forward, NEW l \in LoginCalls, Stands(l),
           sessions'[l] = sessions[l] \/ (sessions'[l] = None /\ LogoutBegun(l)')
    PROVE  SessionKnown(l)' /\ LoginKnows(l)'
<1>1. SessionKnown(l) /\ LoginKnows(l)
    BY DEF SessionsInv
<1>2. SessionKnown(l)'
    BY <1>1 DEF SessionKnown, Stands, Steps
<1>3. stage'[l] \in {"Exchange", "SaveSession", "Sign", "ok"} => stage'[l] = stage[l]
    BY DEF Stands
<1>4. stage'[l] \in {"Sign", "ok"} /\ sessions'[l] = None => LogoutBegun(l)'
    BY <1>1, <1>3, LogoutsBegin DEF LoginKnows
<1> QED BY <1>1, <1>2, <1>3, <1>4 DEF LoginKnows, Stands

LEMMA LogoutStands ==
    ASSUME SessionsInv, Forward, NEW o \in LogoutCalls, Stands(o)
    PROVE  LogoutKnows(o)'
<1>1. LogoutKnows(o)
    BY DEF SessionsInv
<1> QED BY <1>1 DEF LogoutKnows, Stands, Forward, Issued, Steps

LEMMA RequestStands ==
    ASSUME SessionsInv, Forward, NEW r \in Requests, Stands(r), ended'[r] = ended[r],
           now' \in Nat
    PROVE  RequestKnows(r)'
<1>1. RequestKnows(r) /\ TypeOK
    BY DEF SessionsInv
<1>2. \A l \in Issued : l \in Issued' /\ at'[l] = at[l] /\ (sessions[l] = None => sessions'[l] = None)
    BY DEF Forward, Issued
<1>3. \A l \in ended'[r] : l \in Issued' /\ sessions'[l] = None
    BY <1>1, <1>2 DEF RequestKnows
<1>4. stage'[r] # stage[r] => stage'[r] = "aborted"
    BY DEF Stands
<1>5. stage'[r] \in {"token_invalid", "session_not_found", "expired"} =>
        now' >= at'[subject'[r]] + SessionDuration \/ LogoutBegun(subject[r])'
    <2>1. CASE LogoutBegun(subject[r])
        BY <2>1 DEF Forward, LogoutBegun, Stands
    <2>2. CASE stage[r] \in {"token_invalid", "session_not_found", "expired"}
                /\ now >= at[subject[r]] + SessionDuration
        <3>1. subject[r] \in LoginCalls /\ at'[subject[r]] = at[subject[r]] /\ at[subject[r]] \in Nat
            BY <1>1, <1>2, <2>2 DEF RequestKnows, TypeOK, Issued, Calls
        <3>2. now' >= now /\ now \in Nat /\ SessionDuration \in Nat
            BY <1>1, SessionsTimesAssumption DEF Forward, TypeOK
        <3>3. subject'[r] = subject[r]
            BY DEF Stands
        <3>4. now' >= at[subject[r]] + SessionDuration
            BY <2>2, <3>1, <3>2
        <3> QED BY <3>1, <3>3, <3>4
    <2> QED BY <1>1, <1>4, <2>1, <2>2 DEF RequestKnows
<1> QED BY <1>1, <1>2, <1>3, <1>4, <1>5 DEF RequestKnows, Stands, LogoutBegun

LEMMA StepKeeps ==
    ASSUME SessionsInv, NEW c \in Calls, NEW s \in Steps \cup Answers, GoTo(c, s),
           stage[c] \in {"idle"} \cup Steps, StepOf(c),
           c \in LogoutCalls /\ stage[c] # "idle" => subject'[c] = subject[c],
           c \in LoginCalls => SessionKnown(c)' /\ LoginKnows(c)',
           c \in LogoutCalls => LogoutKnows(c)',
           c \in Requests => RequestKnows(c)'
    PROVE  SessionsInv'
<1>1. TypeOK
    BY DEF SessionsInv
<1>2. /\ \A b \in Calls \ {c} : stage'[b] = stage[b]
      /\ stage'[c] = s /\ s # "idle"
      /\ stage' \in [Calls -> {"idle"} \cup Steps \cup Answers]
    BY <1>1 DEF TypeOK, GoTo, Steps, Answers
<1>3. TypeOK'
    BY <1>1, <1>2 DEF TypeOK, StepOf
<1>4. stage[c] # "ok"
    BY DEF Steps
<1>5. Forward
    <2>1. now' >= now
        BY <1>1 DEF StepOf, TypeOK
    <2>2. \A o \in LogoutCalls : stage[o] # "idle" =>
            stage'[o] # "idle" /\ subject'[o] = subject[o]
        BY <1>2 DEF StepOf, Calls
    <2>3. \A b \in ParamsCalls \cup LoginCalls : stage[b] = "ok" =>
            stage'[b] = "ok" /\ at'[b] = at[b]
        BY <1>2, <1>4 DEF StepOf, Calls
    <2>4. \A l \in LoginCalls : stage[l] = "ok" /\ sessions[l] = None => sessions'[l] = None
        BY <1>4 DEF StepOf
    <2> QED BY <2>1, <2>2, <2>3, <2>4 DEF Forward
<1>6. \A b \in Calls \ {c} : Stands(b)
    BY <1>2 DEF Stands, StepOf
<1>8. \A l \in LoginCalls : SessionKnown(l)' /\ LoginKnows(l)'
    <2> SUFFICES ASSUME NEW l \in LoginCalls \ {c} PROVE SessionKnown(l)' /\ LoginKnows(l)'
        OBVIOUS
    <2>1. sessions'[l] = sessions[l] \/ (sessions'[l] = None /\ LogoutBegun(l)')
        BY <1>2 DEF StepOf, LogoutBegun
    <2> QED BY <1>5, <1>6, <2>1, LoginStands DEF Calls
<1>9. \A o \in LogoutCalls : LogoutKnows(o)'
    BY <1>5, <1>6, LogoutStands DEF Calls
<1>10. \A r \in Requests : RequestKnows(r)'
    BY <1>1, <1>5, <1>6, RequestStands DEF Calls, StepOf, TypeOK
<1> QED BY <1>3, <1>8, <1>9, <1>10 DEF SessionsInv

LEMMA SessionsInit == Init => SessionsInv
<1> SUFFICES ASSUME Init PROVE SessionsInv
    OBVIOUS
<1>1. TypeOK
    BY DEF Init, TypeOK
<1>2. \A c \in Calls : stage[c] = "idle"
    BY DEF Init
<1>3. \A l \in LoginCalls : SessionKnown(l) /\ LoginKnows(l)
    BY <1>2 DEF Init, Calls, SessionKnown, LoginKnows
<1>4. \A o \in LogoutCalls : LogoutKnows(o)
    BY <1>2 DEF Calls, LogoutKnows
<1>5. \A r \in Requests : RequestKnows(r)
    BY <1>2 DEF Init, Calls, RequestKnows
<1> QED BY <1>1, <1>2, <1>3, <1>4, <1>5 DEF SessionsInv

(***************************************************************************)
(* The actions                                                             *)
(***************************************************************************)

LEMMA Kinds ==
    /\ \A p \in ParamsCalls : p \in Calls \ (LoginCalls \cup LogoutCalls \cup Requests)
    /\ \A l \in LoginCalls : l \in Calls \ (ParamsCalls \cup LogoutCalls \cup Requests)
    /\ \A o \in LogoutCalls : o \in Calls \ (ParamsCalls \cup LoginCalls \cup Requests)
    /\ \A r \in Requests : r \in Calls \ (ParamsCalls \cup LoginCalls \cup LogoutCalls)
BY SessionsCallsAssumption DEF Calls

LEMMA ExecuteMoves ==
    ASSUME NEW c, NEW effect, NEW unchanged, NEW next, Execute(c, effect, unchanged, next)
    PROVE  \/ effect /\ (GoTo(c, next) \/ GoTo(c, "failed"))
           \/ unchanged /\ GoTo(c, "failed")
BY DEF Execute

LEMMA ParamsKeep ==
    ASSUME SessionsInv, NEW p \in ParamsCalls, GenerateParams(p) \/ SaveParams(p)
    PROVE  SessionsInv'
<1>1. TypeOK /\ p \in Calls /\ p \notin LoginCalls \cup LogoutCalls \cup Requests
    BY Kinds DEF SessionsInv
<1>2. /\ now' = now /\ UNCHANGED <<sessions, subject, user, ended>>
      /\ at' = at \/ ReadClock(p)
      /\ stage[p] \in {"idle"} \cup Steps
    BY DEF GenerateParams, SaveParams, Steps
<1>3. at' \in [Calls -> Nat] /\ \A b \in Calls \ {p} : at'[b] = at[b]
    BY <1>1, <1>2 DEF SessionsInv, TypeOK, ReadClock
<1>4. params' \in [ParamsCalls -> Nat \cup {None}]
      /\ \E s \in {"SaveParams", "ok", "failed"} : GoTo(p, s)
    <2>1. CASE GenerateParams(p)
        BY <1>1, <2>1 DEF GenerateParams, TypeOK
    <2>2. CASE SaveParams(p)
        <3>1. CASE TooLate(p, ParamsLifetime) /\ params' = params
            BY <1>1, <3>1 DEF TooLate, TypeOK
        <3>2. ASSUME NEW d \in Deadlines(p, ParamsLifetime),
                     Execute(p, params' = [params EXCEPT ![p] = d], params' = params, "ok")
              PROVE  params' \in [ParamsCalls -> Nat \cup {None}]
                     /\ \E s \in {"SaveParams", "ok", "failed"} : GoTo(p, s)
            <4>1. d \in Nat
                BY <1>1, DeadlinesAreLate, SessionsTimesAssumption
            <4> QED BY <1>1, <3>2, <4>1 DEF Execute, TypeOK
        <3> QED BY <2>2, <3>1, <3>2 DEF SaveParams
    <2> QED BY <2>1, <2>2
<1>5. StepOf(p)
    BY <1>1, <1>2, <1>3, <1>4 DEF StepOf, TypeOK
<1>6. PICK s \in {"SaveParams", "ok", "failed"} : GoTo(p, s)
    BY <1>4
<1>7. s \in Steps \cup Answers
    BY DEF Steps, Answers
<1> QED BY <1>1, <1>2, <1>5, <1>6, <1>7, StepKeeps

LEMMA LoadParamsKeeps ==
    ASSUME SessionsInv, NEW l \in LoginCalls, LoadParams(l)
    PROVE  SessionsInv'
<1>1. TypeOK /\ l \in Calls /\ l \notin ParamsCalls \cup LogoutCalls \cup Requests
      /\ SessionKnown(l) /\ LoginKnows(l)
    BY Kinds DEF SessionsInv
<1>2. /\ stage[l] = "idle" /\ ReadClock(l)
      /\ UNCHANGED <<now, params, sessions, user, ended>>
    BY DEF LoadParams
<1>3. PICK p \in ParamsCalls, s \in {"Exchange", "refused", "failed"} :
        /\ stage[p] = "ok" /\ subject' = [subject EXCEPT ![l] = p]
        /\ GoTo(l, s)
    BY DEF LoadParams
<1>4. StepOf(l)
    BY <1>1, <1>2, <1>3 DEF StepOf, TypeOK, ReadClock, SessionsInv
<1>5. /\ stage'[l] = s /\ subject'[l] = p /\ at'[l] = now /\ at'[p] = at[p] /\ p \in Calls
      /\ stage'[p] = "ok" /\ s \in Steps \cup Answers
    BY <1>1, <1>2, <1>3, Kinds DEF TypeOK, GoTo, ReadClock, Steps, Answers
<1>6. SessionKnown(l)' /\ LoginKnows(l)'
    BY <1>1, <1>2, <1>3, <1>5 DEF SessionKnown, LoginKnows
<1> QED BY <1>1, <1>2, <1>3, <1>4, <1>5, <1>6, StepKeeps

LEMMA ExchangeKeeps ==
    ASSUME SessionsInv, NEW l \in LoginCalls, Exchange(l)
    PROVE  SessionsInv'
<1>1. TypeOK /\ l \in Calls /\ l \notin ParamsCalls \cup LogoutCalls \cup Requests
      /\ SessionKnown(l) /\ LoginKnows(l)
    BY Kinds DEF SessionsInv
<1>2. /\ stage[l] = "Exchange" /\ ReadClock(l)
      /\ UNCHANGED <<now, params, sessions, subject, ended>>
    BY DEF Exchange
<1>3. PICK s \in {"SaveSession", "refused"} :
        /\ GoTo(l, s) /\ user' \in [Calls -> Users \cup {None}]
        /\ \A b \in Calls \ {l} : user'[b] = user[b]
        /\ s = "SaveSession" => user'[l] \in Users
    BY <1>1 DEF Exchange, TypeOK
<1>4. StepOf(l)
    <2>1. at' \in [Calls -> Nat]
          /\ \A b \in Calls \ {l} : at'[b] = at[b]
        BY <1>1, <1>2 DEF ReadClock, TypeOK
    <2>2. now' = now /\ params' = params /\ sessions' = sessions /\ subject' = subject
          /\ ended' = ended
        BY <1>2
    <2> QED BY <1>1, <1>3, <2>1, <2>2 DEF StepOf, TypeOK
<1>5. stage'[l] = s /\ s \in Steps \cup Answers /\ stage[l] \in Steps
    BY <1>1, <1>2, <1>3 DEF TypeOK, GoTo, Steps, Answers
<1>6. SessionKnown(l)' /\ LoginKnows(l)'
    BY <1>1, <1>2, <1>3, <1>5 DEF SessionKnown, LoginKnows
<1> QED BY <1>1, <1>3, <1>4, <1>5, <1>6, StepKeeps

LEMMA SaveSessionKeeps ==
    ASSUME SessionsInv, NEW l \in LoginCalls, SaveSession(l)
    PROVE  SessionsInv'
<1>1. TypeOK /\ l \in Calls /\ l \notin ParamsCalls \cup LogoutCalls \cup Requests
      /\ SessionKnown(l) /\ LoginKnows(l)
    BY Kinds DEF SessionsInv
<1>2. /\ stage[l] = "SaveSession" /\ sessions[l] = None /\ user[l] \in Users
      /\ UNCHANGED <<now, params, at, subject, user, ended>>
    BY <1>1 DEF SaveSession, SessionKnown, LoginKnows
<1>3. CASE sessions' = sessions /\ GoTo(l, "failed")
    <2>1. StepOf(l)
        BY <1>1, <1>2, <1>3 DEF StepOf, TypeOK, SessionsInv
    <2>2. stage'[l] = "failed"
        BY <1>1, <1>3 DEF TypeOK, GoTo
    <2>3. SessionKnown(l)' /\ LoginKnows(l)'
        BY <1>2, <1>3, <2>2 DEF SessionKnown, LoginKnows
    <2> QED BY <1>1, <1>2, <1>3, <2>1, <2>3, StepKeeps DEF Steps, Answers
<1>4. ASSUME NEW d \in Deadlines(l, SessionDuration), NEW s \in {"Sign", "failed"}, GoTo(l, s),
             sessions' = [sessions EXCEPT ![l] =
                [user |-> user[l], expiresAt |-> at[l] + SessionDuration, deadline |-> d]]
      PROVE  SessionsInv'
    <2> DEFINE x == [user |-> user[l], expiresAt |-> at[l] + SessionDuration, deadline |-> d]
    <2>1. d \in Nat /\ d >= at[l] + SessionDuration
        BY <1>1, DeadlinesAreLate, SessionsTimesAssumption
    <2>2. x \in Session /\ x # None
        <3>1. at[l] + SessionDuration \in Nat
            BY <1>1, SessionsTimesAssumption DEF TypeOK
        <3>2. x \in Session
            BY <1>2, <2>1, <3>1 DEF Session
        <3> QED BY <3>2, SessionsNoneAssumption
    <2>3. sessions' \in [LoginCalls -> Session \cup {None}] /\ sessions'[l] = x
          /\ \A b \in LoginCalls \ {l} : sessions'[b] = sessions[b]
        BY <1>1, <1>4, <2>2 DEF TypeOK
    <2>4. StepOf(l)
        BY <1>1, <1>2, <2>3 DEF StepOf, TypeOK, SessionsInv
    <2>5. stage'[l] = s
        BY <1>1, <1>4 DEF TypeOK, GoTo
    <2>6. SessionKnown(l)' /\ LoginKnows(l)'
        BY <1>1, <1>2, <2>1, <2>2, <2>3, <2>5 DEF SessionKnown, LoginKnows
    <2>7. s \in Steps \cup Answers /\ stage[l] \in Steps
        BY <1>2 DEF Steps, Answers
    <2> QED BY <1>1, <1>4, <2>4, <2>6, <2>7, StepKeeps
<1> QED BY <1>3, <1>4 DEF SaveSession, TooLate, Execute

LEMMA SignKeeps ==
    ASSUME SessionsInv, NEW l \in LoginCalls, Sign(l)
    PROVE  SessionsInv'
<1>1. TypeOK /\ l \in Calls /\ l \notin ParamsCalls \cup LogoutCalls \cup Requests
      /\ SessionKnown(l) /\ LoginKnows(l)
    BY Kinds DEF SessionsInv
<1>2. PICK s \in {"ok", "failed"} : GoTo(l, s)
    BY DEF Sign
<1>3. stage[l] = "Sign" /\ UNCHANGED <<now, params, sessions, at, subject, user, ended>>
    BY DEF Sign
<1>4. StepOf(l)
    BY <1>1, <1>3 DEF StepOf, TypeOK, SessionsInv
<1>5. stage'[l] = s /\ s \in Steps \cup Answers /\ stage[l] \in Steps
    BY <1>1, <1>2, <1>3 DEF TypeOK, GoTo, Steps, Answers
<1>6. LogoutBegun(l) => LogoutBegun(l)'
    <2>1. \A o \in LogoutCalls : stage'[o] = stage[o]
        BY <1>1, <1>2, Kinds DEF TypeOK, GoTo
    <2> QED BY <1>3, <2>1 DEF LogoutBegun
<1>7. SessionKnown(l)' /\ LoginKnows(l)'
    BY <1>1, <1>3, <1>5, <1>6 DEF SessionKnown, LoginKnows
<1> QED BY <1>1, <1>2, <1>4, <1>5, <1>7, StepKeeps

LEMMA LogoutKeeps ==
    ASSUME SessionsInv, NEW o \in LogoutCalls, BeginLogout(o) \/ DeleteSession(o)
    PROVE  SessionsInv'
<1>1. TypeOK /\ o \in Calls /\ o \notin ParamsCalls \cup LoginCalls \cup Requests /\ LogoutKnows(o)
    BY Kinds DEF SessionsInv
<1>2. CASE BeginLogout(o)
    <2>1. PICK l \in Issued, s \in {"DeleteSession", "refused"} :
            subject' = [subject EXCEPT ![o] = l] /\ GoTo(o, s)
        BY <1>2 DEF BeginLogout
    <2>2. stage[o] = "idle" /\ UNCHANGED <<now, params, sessions, at, user, ended>>
        BY <1>2 DEF BeginLogout
    <2>3. l \in LoginCalls /\ stage[l] = "ok"
        BY DEF Issued
    <2>4. StepOf(o)
        BY <1>1, <2>1, <2>2, <2>3 DEF StepOf, TypeOK, SessionsInv
    <2>5. stage'[o] = s /\ stage'[l] = "ok" /\ subject'[o] = l /\ s \in Steps \cup Answers
        BY <1>1, <2>1, <2>3 DEF TypeOK, GoTo, Steps, Answers
    <2>6. LogoutKnows(o)'
        BY <2>3, <2>5 DEF LogoutKnows, Issued
    <2> QED BY <1>1, <2>1, <2>2, <2>4, <2>5, <2>6, StepKeeps
<1>3. CASE DeleteSession(o)
    <2>1. stage[o] = "DeleteSession" /\ UNCHANGED <<now, params, at, subject, user, ended>>
        BY <1>3 DEF DeleteSession
    <2>2. PICK s \in {"ok", "failed"} :
            /\ GoTo(o, s)
            /\ \/ sessions' = [sessions EXCEPT ![subject[o]] = None]
               \/ sessions' = sessions /\ s = "failed"
        BY <1>3 DEF DeleteSession, Execute
    <2>3. subject[o] \in LoginCalls /\ stage[subject[o]] = "ok"
        BY <1>1, <2>1 DEF LogoutKnows, Issued
    <2>4. StepOf(o)
        BY <1>1, <2>1, <2>2, <2>3 DEF StepOf, TypeOK, SessionsInv
    <2>5. stage'[o] = s /\ stage'[subject[o]] = "ok" /\ s \in Steps \cup Answers /\ stage[o] \in Steps
        BY <1>1, <2>1, <2>2, <2>3 DEF TypeOK, GoTo, Steps, Answers
    <2>6. LogoutKnows(o)'
        BY <1>1, <2>1, <2>2, <2>3, <2>5 DEF LogoutKnows, Issued, TypeOK
    <2> QED BY <1>1, <2>1, <2>2, <2>4, <2>5, <2>6, StepKeeps
<1> QED BY <1>2, <1>3

LEMMA BeginRequestKeeps ==
    ASSUME SessionsInv, NEW r \in Requests, BeginRequest(r)
    PROVE  SessionsInv'
<1>1. TypeOK /\ r \in Calls /\ r \notin ParamsCalls \cup LoginCalls \cup LogoutCalls
    BY Kinds DEF SessionsInv
<1>2. PICK l \in Issued, s \in {"GetSession", "token_invalid"} :
        /\ subject' = [subject EXCEPT ![r] = l] /\ GoTo(r, s)
        /\ s = "token_invalid" => ~Verifies(l)
    BY DEF BeginRequest
<1>3. /\ stage[r] = "idle" /\ ended' = [ended EXCEPT ![r] = LoggedOut]
      /\ UNCHANGED <<now, params, sessions, at, user>>
    BY DEF BeginRequest
<1>4. l \in LoginCalls /\ stage[l] = "ok"
    BY DEF Issued
<1>5. \A m \in LoggedOut : m \in LoginCalls /\ stage[m] = "ok" /\ sessions[m] = None
    BY DEF LoggedOut, SessionsInv, LogoutKnows, Issued
<1>6. StepOf(r)
    BY <1>1, <1>2, <1>3, <1>4, <1>5 DEF StepOf, TypeOK, SessionsInv
<1>7. /\ stage'[r] = s /\ subject'[r] = l /\ ended'[r] = LoggedOut /\ s \in Steps \cup Answers
      /\ \A m \in LoginCalls : stage'[m] = stage[m]
    BY <1>1, <1>2, <1>3, <1>4, Kinds DEF TypeOK, GoTo, Steps, Answers
<1>8. s = "token_invalid" => now >= at[l] + SessionDuration
    BY <1>1, <1>2, <1>4, TokensOutliveSessions
<1>9. RequestKnows(r)'
    BY <1>2, <1>3, <1>4, <1>5, <1>7, <1>8 DEF RequestKnows, Issued
<1> QED BY <1>1, <1>2, <1>3, <1>6, <1>7, <1>9, StepKeeps

\* The steps of a request that is being validated or acts.
LEMMA RequestKeeps ==
    ASSUME SessionsInv, NEW r \in Requests,
           GetSession(r) \/ CheckExpiry(r) \/ Unavailable(r) \/ Act(r)
    PROVE  SessionsInv'
<1>1. TypeOK /\ r \in Calls /\ r \notin ParamsCalls \cup LoginCalls \cup LogoutCalls
      /\ RequestKnows(r)
    BY Kinds DEF SessionsInv
<1>2. /\ stage[r] \in {"GetSession", "CheckExpiry", "Act"} /\ stage[r] \in Steps
      /\ UNCHANGED <<now, params, sessions, subject, ended>>
    BY DEF GetSession, CheckExpiry, Unavailable, Act, Steps
<1>3. subject[r] \in LoginCalls /\ stage[subject[r]] = "ok" /\ sessions[subject[r]] \in Session \cup {None}
      /\ SessionKnown(subject[r]) /\ LoginKnows(subject[r])
    BY <1>1, <1>2 DEF RequestKnows, Issued, SessionsInv, TypeOK
<1>4. PICK s \in {"CheckExpiry", "session_not_found", "redis_failed", "Act", "expired",
                  "unavailable", "ok"} : GoTo(r, s)
    BY DEF GetSession, CheckExpiry, Unavailable, Act
<1>5. stage'[r] = s /\ s \in Steps \cup Answers /\ \A c \in Calls \ {r} : stage'[c] = stage[c]
    BY <1>1, <1>4 DEF TypeOK, GoTo, Steps, Answers
<1>6. user' \in [Calls -> Users \cup {None}] /\ \A b \in Calls \ {r} : user'[b] = user[b]
    <2>1. CASE GetSession(r) /\ Present(subject[r])
                /\ user' = [user EXCEPT ![r] = sessions[subject[r]].user]
        <3>1. sessions[subject[r]].user \in Users
            BY <1>3, <2>1 DEF Present, Session
        <3> QED BY <1>1, <2>1, <3>1 DEF TypeOK
    <2>2. CASE user' = user
        BY <1>1, <2>2 DEF TypeOK
    <2> QED BY <2>1, <2>2 DEF GetSession, CheckExpiry, Unavailable, Act
<1>7. at' \in [Calls -> Nat] /\ \A b \in Calls \ {r} : at'[b] = at[b]
    <2>1. CASE GetSession(r) /\ Present(subject[r])
                /\ at' = [at EXCEPT ![r] = sessions[subject[r]].expiresAt]
        <3>1. sessions[subject[r]].expiresAt \in Nat
            BY <1>3, <2>1 DEF Present, Session
        <3> QED BY <1>1, <2>1, <3>1 DEF TypeOK
    <2>2. CASE at' = at
        BY <1>1, <2>2 DEF TypeOK
    <2> QED BY <2>1, <2>2 DEF GetSession, CheckExpiry, Unavailable, Act
<1>8. StepOf(r)
    BY <1>1, <1>2, <1>6, <1>7 DEF StepOf, TypeOK
<1>9. at'[subject[r]] = at[subject[r]] /\ stage'[subject[r]] = "ok"
    BY <1>3, <1>5, <1>7, Kinds
<1>10. \A l \in ended'[r] : l \in Issued' /\ sessions'[l] = None
    BY <1>1, <1>2, <1>5, Kinds DEF RequestKnows, Issued
<1>11. LogoutBegun(subject[r]) => \E o \in LogoutCalls : stage'[o] # "idle" /\ subject'[o] = subject[r]
    BY <1>2, <1>5, Kinds DEF LogoutBegun
<1>12. /\ now \in Nat /\ at[subject[r]] \in Nat /\ SessionDuration \in Nat
       /\ sessions[subject[r]] # None =>
             /\ sessions[subject[r]].deadline \in Nat
             /\ sessions[subject[r]].deadline >= at[subject[r]] + SessionDuration
    BY <1>1, <1>3, SessionsTimesAssumption, Kinds DEF TypeOK, SessionKnown, Session
<1>13. s \in {"CheckExpiry", "Act", "ok"} => subject[r] \notin ended[r]
    <2>1. CASE GetSession(r)
        BY <1>1, <1>4, <1>5, <2>1 DEF GetSession, Present, RequestKnows, GoTo, TypeOK
    <2>2. CASE CheckExpiry(r) \/ Act(r)
        BY <1>1, <2>2 DEF CheckExpiry, Act, RequestKnows
    <2>3. CASE Unavailable(r)
        BY <1>1, <1>5, <2>3 DEF Unavailable, GoTo, TypeOK
    <2> QED BY <2>1, <2>2, <2>3
<1>14. s = "CheckExpiry" => at'[r] = at[subject[r]] + SessionDuration
    <2>1. CASE GetSession(r)
        BY <1>1, <1>3, <1>5, <2>1 DEF GetSession, Present, SessionKnown, GoTo, TypeOK
    <2>2. CASE CheckExpiry(r) \/ Unavailable(r) \/ Act(r)
        BY <1>1, <1>5, <2>2 DEF CheckExpiry, Unavailable, Act, GoTo, TypeOK
    <2> QED BY <2>1, <2>2
<1>15. s \in {"session_not_found", "expired"} =>
         now >= at[subject[r]] + SessionDuration \/ LogoutBegun(subject[r])
    <2>1. CASE GetSession(r)
        <3>1. s = "session_not_found" => ~Present(subject[r])
            BY <1>1, <1>5, <2>1 DEF GetSession, GoTo, TypeOK
        <3>2. s # "expired"
            BY <1>1, <1>5, <2>1 DEF GetSession, GoTo, TypeOK
        <3>3. sessions[subject[r]] = None => LogoutBegun(subject[r])
            BY <1>3 DEF LoginKnows
        <3> QED BY <1>12, <3>1, <3>2, <3>3 DEF Present
    <2>2. CASE CheckExpiry(r)
        <3>1. at[r] = at[subject[r]] + SessionDuration
            BY <1>1, <2>2 DEF CheckExpiry, RequestKnows
        <3> QED BY <1>1, <1>5, <1>12, <2>2, <3>1 DEF CheckExpiry, GoTo, TypeOK
    <2>3. CASE Unavailable(r) \/ Act(r)
        BY <1>1, <1>5, <2>3 DEF Unavailable, Act, GoTo, TypeOK
    <2> QED BY <2>1, <2>2, <2>3
<1>16. RequestKnows(r)'
    <2>1. stage'[r] # "token_invalid" /\ subject'[r] = subject[r] /\ ended'[r] = ended[r]
        BY <1>2, <1>4, <1>5
    <2>2. s \in {"session_not_found", "expired"} =>
            now' >= at'[subject'[r]] + SessionDuration \/ LogoutBegun(subject[r])'
        BY <1>2, <1>9, <1>11, <1>15 DEF LogoutBegun
    <2>3. subject'[r] \in Issued'
        BY <1>3, <1>9, <2>1 DEF Issued
    <2> QED BY <1>5, <1>9, <1>10, <1>13, <1>14, <2>1, <2>2, <2>3 DEF RequestKnows
<1> QED BY <1>1, <1>2, <1>4, <1>5, <1>8, <1>16, StepKeeps

LEMMA CrashKeeps ==
    ASSUME SessionsInv, Crash
    PROVE  SessionsInv'
<1>1. TypeOK
    BY DEF SessionsInv
<1>2. /\ stage' = [c \in Calls |-> IF c \in InFlight THEN "aborted" ELSE stage[c]]
      /\ UNCHANGED <<now, params, sessions, at, subject, user, ended>>
    BY DEF Crash
<1>3. TypeOK'
    BY <1>1, <1>2 DEF TypeOK, Answers
<1>4. \A c \in Calls : Stands(c)
    BY <1>2 DEF Stands, InFlight
<1>5. Forward
    BY <1>1, <1>2 DEF Forward, InFlight, Calls, Steps, TypeOK
<1>6. now' \in Nat
    BY <1>3 DEF TypeOK
<1> QED BY <1>2, <1>3, <1>4, <1>5, <1>6, LoginStands, LogoutStands, RequestStands
        DEF SessionsInv, Calls

LEMMA TickKeeps ==
    ASSUME SessionsInv, Tick \/ UNCHANGED vars
    PROVE  SessionsInv'
<1>1. TypeOK
    BY DEF SessionsInv
<1>2. UNCHANGED <<params, sessions, stage, at, subject, user, ended>>
      /\ now' \in Nat /\ now' >= now
    BY <1>1 DEF Tick, vars, TypeOK
<1>3. TypeOK'
    BY <1>1, <1>2 DEF TypeOK
<1>4. \A c \in Calls : Stands(c)
    BY <1>2 DEF Stands
<1>5. Forward
    BY <1>2 DEF Forward
<1> QED BY <1>2, <1>3, <1>4, <1>5, LoginStands, LogoutStands, RequestStands
        DEF SessionsInv, Calls

(***************************************************************************)
(* Theorems                                                                *)
(***************************************************************************)

\* What logins, logouts and requests know at each of their calls, whatever
\* races, fails or expires (app/oidc/login.go, app/logout/logout.go,
\* app/session/validate.go).
THEOREM SessionsInvariant == Spec => []SessionsInv
<1>1. SessionsInv /\ [Next]_vars => SessionsInv'
    BY ParamsKeep, LoadParamsKeeps, ExchangeKeeps, SaveSessionKeeps, SignKeeps, LogoutKeeps,
       BeginRequestKeeps, RequestKeeps, CrashKeeps, TickKeeps DEF Next
<1> QED BY <1>1, SessionsInit, PTL DEF Spec

\* Redis, the calls and what they read keep their types: no session names
\* nobody, no request acts for nobody.
THEOREM SessionsTypeCorrect == Spec => []TypeOK
<1>1. SessionsInv => TypeOK
    BY DEF SessionsInv
<1> QED BY <1>1, SessionsInvariant, PTL

\* A logout that was answered before a request began is final for it.
THEOREM LogoutsAreFinal == Spec => []LogoutIsFinal
<1>1. SessionsInv => LogoutIsFinal
    BY DEF SessionsInv, RequestKnows, LogoutIsFinal
<1> QED BY <1>1, SessionsInvariant, PTL

\* A session is refused early only because of its logout: the leeway covers the
\* part of a second that its token has lost.
THEOREM LiveSessionsAccepted == Spec => []LiveSessionsAreAccepted
<1>1. SessionsInv => LiveSessionsAreAccepted
    BY DEF SessionsInv, RequestKnows, LogoutBegun, LiveSessionsAreAccepted, Rejections,
        AuthError, ValidateSessionCode
<1> QED BY <1>1, SessionsInvariant, PTL

=============================================================================
