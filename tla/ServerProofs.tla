---------------------------- MODULE ServerProofs ----------------------------
(***************************************************************************)
(* Proofs about Server, for every set of requests, every environment and   *)
(* all faults.                                                             *)
(***************************************************************************)
EXTENDS Server, TLAPS

(***************************************************************************)
(* The invariant                                                           *)
(***************************************************************************)

Resources == {"observability", "db", "redis", "queue"}
Used == {"db", "redis", "queue", "use_case", "auth", "device"}
Steps == {StartUp[i] : i \in DOMAIN StartUp}

TypeOK ==
    /\ env \in Environments
    /\ step \in Steps \cup {"serve", "serving", "unwind", "exited"}
    /\ failedAt \in Steps \cup {"none", "serve"}
    /\ open \subseteq Resources
    /\ deferred \in Seq(Resources \cup {"cancel"})
    /\ queueCloses \in {0, 1}
    /\ signalled \in BOOLEAN
    /\ shutdown \in {"none", "waiting", "draining", "done"}
    /\ stage \in [Requests -> {"idle", "running", "ok", "failed", "cut"}]
    /\ kind \in [Requests -> DOMAIN Calls \cup {"none"}]
    /\ uses \in [Requests -> Seq(Used)]
    /\ fault \in [Requests -> {"none", "no_listener", "disabled", "closed", "store_error"}]

\* What is open at a step of the start.
Opened(s) ==
    CASE s = "observability" -> {}
      [] s \in {"config", "db"} -> {"observability"}
      [] s \in {"tracing", "handle", "redis"} -> {"observability", "db"}
      [] s \in {"instrument", "ping", "auth", "task_config", "queues"} ->
            {"observability", "db", "redis"}
      [] OTHER -> Resources

\* Where the goroutine can be and what is open at each step of run().
ProcessKnown ==
    /\ step \in Steps => open = Opened(step) /\ queueCloses = 0 /\ shutdown = "none"
    /\ step \in Steps \cup {"serve", "serving"} => failedAt = "none"
    /\ step \in {"serve", "serving"} =>
          /\ shutdown # "none"
          /\ shutdown = "waiting" => open = Resources
          /\ shutdown # "waiting" => signalled
    /\ step = "exited" => deferred = <<>>

Among(x, d) == \E i \in DOMAIN d : d[i] = x

\* A defer of run() is going to close the resource.
Held(resource) == Among(resource, deferred)

\* That is so for everything that is open, but for the database and Redis
\* between the step that opens them and the defer that closes them, ...
ResourcesAreHeld ==
    /\ "observability" \in open => Held("observability")
    /\ "db" \in open => Held("db") \/ {step, failedAt} \cap {"tracing", "handle"} # {}
    /\ "redis" \in open => Held("redis") \/ "instrument" \in {step, failedAt}
    /\ "queue" \in open => Held("queue")
    \* ... and the queue client is not open after closeTaskRepos.
    /\ queueCloses = 1 => "queue" \notin open

\* The steps behind run() have found their configuration valid.
StepsAreLoaded ==
    /\ \A i \in DOMAIN StartUp :
          step = StartUp[i] => \A j \in 1..(i - 1) : Loads(StartUp[j])
    /\ step \in {"serve", "serving"} => \A s \in Steps : Loads(s)

\* The server was or is being stopped.
Ending == signalled \/ failedAt = "serve"

\* Without the OIDC client id a login, and a creation whose session this process
\* would validate, do not get past their first call.
Refused(r) ==
    /\ ~IsSet(env, "OIDC_GOOGLE_CLIENT_ID")
    /\ \/ kind[r] = "login"
       \/ kind[r] = "task" /\ ServiceURL(env, "AUTH_SERVICE_URL") # "remote"

RequestKnown(r) ==
    /\ stage[r] = "idle" => fault[r] = "none"
    /\ stage[r] # "idle" =>
          /\ step \in {"serving", "unwind", "exited"}
          /\ step # "serving" => Ending
          /\ \A s \in Steps : Loads(s)
          /\ kind[r] \in DOMAIN Calls
    /\ stage[r] = "cut" => step = "exited"
    /\ fault[r] \in {"closed", "no_listener"} => Ending
    /\ stage[r] = "ok" => fault[r] = "none"
    /\ stage[r] \in {"running", "ok"} /\ fault[r] = "none" /\ Refused(r) =>
          stage[r] = "running" /\ uses[r] = Calls[kind[r]]

ServerInv ==
    /\ TypeOK /\ ProcessKnown /\ ResourcesAreHeld /\ StepsAreLoaded
    /\ \A r \in Requests : RequestKnown(r)

(***************************************************************************)
(* The start of run()                                                      *)
(***************************************************************************)

\* No step comes twice.
LEMMA StepsDiffer ==
    ASSUME NEW i \in DOMAIN StartUp, NEW j \in DOMAIN StartUp, StartUp[i] = StartUp[j]
    PROVE  i = j
<1>1. DOMAIN StartUp = 1..15
    BY DEF StartUp
<1> QED BY <1>1 DEF StartUp

LEMMA StepNames ==
    /\ DOMAIN StartUp = 1..15 /\ Len(StartUp) = 15
    /\ Steps = {"observability", "config", "db", "tracing", "handle", "redis", "instrument",
                "ping", "auth", "task_config", "queues", "handlers", "device_config", "device",
                "watch"}
<1>1. DOMAIN StartUp = 1..15 /\ Len(StartUp) = 15
    BY DEF StartUp
<1> QED BY <1>1 DEF Steps, StartUp

LEMMA AfterIs ==
    ASSUME NEW i \in DOMAIN StartUp
    PROVE  After(StartUp[i]) = IF i = 15 THEN "serve" ELSE StartUp[i + 1]
<1> DEFINE j == CHOOSE k \in DOMAIN StartUp : StartUp[k] = StartUp[i]
<1>1. j \in DOMAIN StartUp /\ StartUp[j] = StartUp[i]
    OBVIOUS
<1>2. j = i
    BY <1>1, StepsDiffer
<1>3. After(StartUp[i]) = IF j = Len(StartUp) THEN "serve" ELSE StartUp[j + 1]
    BY DEF After
<1> QED BY <1>2, <1>3, StepNames

\* What a step opens is open at the next one.
LEMMA OpensNext ==
    ASSUME NEW s \in Steps
    PROVE  /\ After(s) \in Steps \cup {"serve"}
           /\ After(s) \in Steps <=> s # "watch"
           /\ Opened(After(s)) = Opened(s) \cup Opens(s)
           /\ Opens(s) \subseteq Resources
<1>1. PICK i \in 1..15 : s = StartUp[i]
    BY StepNames DEF Steps
<1>2. After(s) = IF i = 15 THEN "serve" ELSE StartUp[i + 1]
    BY <1>1, AfterIs, StepNames
<1>3. s = "watch" <=> i = 15
    BY <1>1 DEF StartUp
<1>4. After(s) \in Steps \cup {"serve"} /\ (After(s) \in Steps <=> s # "watch")
    <2>1. CASE i = 15
        BY <2>1, <1>2, <1>3, StepNames
    <2>2. CASE i \in 1..14
        <3>1. i + 1 \in DOMAIN StartUp
            BY <2>2, StepNames
        <3> QED BY <3>1, <2>2, <1>2, <1>3 DEF Steps
    <2> QED BY <2>1, <2>2
<1>5. Opened(After(s)) = Opened(s) \cup Opens(s)
    BY <1>1, <1>2 DEF StartUp, Opened, Opens, Resources
<1> QED BY <1>4, <1>5 DEF Opens, Resources

(***************************************************************************)
(* The defers                                                              *)
(***************************************************************************)

\* What is in a sequence put before another one is in one of them.
LEMMA Concatenated ==
    ASSUME NEW S, NEW d \in Seq(S), NEW e \in Seq(S), NEW x
    PROVE  Among(x, e \o d) <=> Among(x, e) \/ Among(x, d)
<1>1. ASSUME NEW i \in DOMAIN (e \o d), (e \o d)[i] = x
      PROVE  Among(x, e) \/ Among(x, d)
    <2>1. CASE i <= Len(e)
        BY <1>1, <2>1 DEF Among
    <2>2. CASE i > Len(e)
        <3>1. i - Len(e) \in DOMAIN d /\ d[i - Len(e)] = x
            BY <1>1, <2>2
        <3> QED BY <3>1 DEF Among
    <2> QED BY <2>1, <2>2
<1>2. ASSUME NEW i \in DOMAIN e, e[i] = x
      PROVE  i \in DOMAIN (e \o d) /\ (e \o d)[i] = x
    BY <1>2
<1>3. ASSUME NEW i \in DOMAIN d, d[i] = x
      PROVE  i + Len(e) \in DOMAIN (e \o d) /\ (e \o d)[i + Len(e)] = x
    BY <1>3
<1> QED BY <1>1, <1>2, <1>3 DEF Among

\* What is in a sequence is its head or in its tail.
LEMMA FirstOrRest ==
    ASSUME NEW S, NEW d \in Seq(S), d # <<>>, NEW x, Among(x, d), x # Head(d)
    PROVE  Among(x, Tail(d))
<1>1. PICK i \in DOMAIN d : d[i] = x
    BY DEF Among
<1>2. i # 1 /\ i - 1 \in DOMAIN Tail(d) /\ Tail(d)[i - 1] = x
    BY <1>1
<1> QED BY <1>2 DEF Among

\* A defer statement adds what its step closes.
LEMMA DefersHold ==
    ASSUME TypeOK, deferred' = Defers(step) \o deferred
    PROVE  /\ deferred' \in Seq(Resources \cup {"cancel"})
           /\ \A x : Held(x)' <=> Held(x) \/ Defers(step) = <<x>>
<1> DEFINE S == Resources \cup {"cancel"}
<1>1. Defers(step) = <<>> \/ \E c \in S : Defers(step) = <<c>>
    <2>1. \/ Defers(step) = <<>> \/ Defers(step) = <<"observability">> \/ Defers(step) = <<"db">>
          \/ Defers(step) = <<"redis">> \/ Defers(step) = <<"queue">> \/ Defers(step) = <<"cancel">>
        BY DEF Defers
    <2> QED BY <2>1 DEF Resources
<1>2. deferred \in Seq(S)
    BY DEF TypeOK
<1>3. /\ Defers(step) \in Seq(S)
      /\ \A x : Among(x, Defers(step)) <=> Defers(step) = <<x>>
    <2>1. CASE Defers(step) = <<>>
        BY <2>1 DEF Among
    <2>2. ASSUME NEW c \in S, Defers(step) = <<c>>
          PROVE  <1>3
        BY <2>2 DEF Among
    <2> QED BY <1>1, <2>1, <2>2
<1> HIDE DEF S
<1>4. deferred' \in Seq(S)
    BY <1>2, <1>3
<1>5. ASSUME NEW x PROVE Held(x)' <=> Held(x) \/ Defers(step) = <<x>>
    BY <1>2, <1>3, Concatenated DEF Held
<1> QED BY <1>4, <1>5 DEF S

(***************************************************************************)
(* The process                                                             *)
(***************************************************************************)

ProcessInv == TypeOK /\ ProcessKnown /\ ResourcesAreHeld /\ StepsAreLoaded

LEMMA LoadsStay ==
    ASSUME env' = env, NEW s
    PROVE  Loads(s)' <=> Loads(s)
BY DEF Loads, PersistenceLoads, AuthLoads, SessionLoads, SessionDuration, Provider,
       ProviderIsValid, TaskLoads, TaskQueueLoads, PrimindTasksLoads, CloudTasksLoads,
       DeviceLoads, ServiceURL, IsSet

\* A step that leaves run() and its resources where they are.
LEMMA QuietProcess ==
    ASSUME ProcessInv, UNCHANGED <<env, step, process>>,
           shutdown' = shutdown \/ (shutdown = "waiting" /\ shutdown' # "none"),
           signalled => signalled',
           step \in {"serving", "serve"} => shutdown' = "waiting" \/ signalled'
    PROVE  (ProcessKnown /\ ResourcesAreHeld /\ StepsAreLoaded)'
<1>1. ProcessKnown'
    BY DEF ProcessInv, ProcessKnown, process
<1>2. ResourcesAreHeld'
    BY DEF ProcessInv, ResourcesAreHeld, Held, process
<1>3. StepsAreLoaded'
    BY LoadsStay DEF ProcessInv, StepsAreLoaded
<1> QED BY <1>1, <1>2, <1>3

\* run() goes on to its next step.
LEMMA GoesOn ==
    ASSUME ProcessInv, step \in Steps, Loads(step),
           step' = After(step), failedAt' = failedAt, open' = open \cup Opens(step),
           deferred' = Defers(step) \o deferred,
           shutdown' = IF step = "watch" THEN "waiting" ELSE shutdown,
           UNCHANGED <<env, queueCloses, signalled>>
    PROVE  (ProcessKnown /\ ResourcesAreHeld /\ StepsAreLoaded)'
<1> USE DEF ProcessInv
<1>1. /\ open = Opened(step) /\ queueCloses = 0 /\ shutdown = "none" /\ failedAt = "none"
      /\ \A x : Held(x)' <=> Held(x) \/ Defers(step) = <<x>>
    BY DefersHold DEF ProcessKnown
<1>2. ProcessKnown'
    <2>1. step' \in Steps => shutdown' = "none"
        BY <1>1, OpensNext
    <2>2. step' \in Steps \cup {"serve"} /\ open' = Opened(step')
        BY <1>1, OpensNext
    <2>3. step' = "serve" => shutdown' = "waiting" /\ open' = Resources
        BY <2>2, <1>1, OpensNext, StepNames DEF Opened
    <2> QED BY <1>1, <2>1, <2>2, <2>3, StepNames DEF ProcessKnown
<1>3. ResourcesAreHeld'
    <2>1. /\ step = "db" => step' = "tracing"
          /\ step = "tracing" => step' = "handle"
          /\ step = "redis" => step' = "instrument"
        <3> HIDE DEF ProcessInv
        <3>1. /\ After(StartUp[3]) = StartUp[4]
              /\ After(StartUp[4]) = StartUp[5]
              /\ After(StartUp[6]) = StartUp[7]
            BY AfterIs, StepNames
        <3>2. /\ StartUp[3] = "db" /\ StartUp[4] = "tracing" /\ StartUp[5] = "handle"
              /\ StartUp[6] = "redis" /\ StartUp[7] = "instrument"
            BY DEF StartUp
        <3> QED BY <3>1, <3>2
    <2>3. "observability" \in open' => Held("observability")'
        BY <1>1 DEF ResourcesAreHeld, Opens, Defers
    <2>4. "queue" \in open' => Held("queue")'
        BY <1>1 DEF ResourcesAreHeld, Opens, Defers
    <2>5. "db" \in open' => Held("db")' \/ step' \in {"tracing", "handle"}
        <3>1. CASE "db" \in Opens(step)
            BY <3>1, <2>1 DEF Opens
        <3>2. CASE "db" \in open /\ Held("db")
            BY <3>2, <1>1
        <3>3. CASE step = "tracing"
            BY <3>3, <2>1
        <3>4. CASE step = "handle"
            BY <3>4, <1>1 DEF Defers
        <3> QED BY <3>1, <3>2, <3>3, <3>4, <1>1 DEF ResourcesAreHeld
    <2>6. "redis" \in open' => Held("redis")' \/ step' = "instrument"
        <3>1. CASE "redis" \in Opens(step)
            BY <3>1, <2>1 DEF Opens
        <3>2. CASE "redis" \in open /\ Held("redis")
            BY <3>2, <1>1
        <3>3. CASE step = "instrument"
            BY <3>3, <1>1 DEF Defers
        <3> QED BY <3>1, <3>2, <3>3, <1>1 DEF ResourcesAreHeld
    <2>7. queueCloses' # 1
        BY <1>1
    <2> HIDE DEF ProcessInv
    <2> QED BY <2>3, <2>4, <2>5, <2>6, <2>7 DEF ResourcesAreHeld
<1>4. StepsAreLoaded'
    <2>1. PICK i \in 1..15 : step = StartUp[i]
        BY StepNames DEF Steps
    <2>2. step' = IF i = 15 THEN "serve" ELSE StartUp[i + 1]
        BY <2>1, AfterIs, StepNames
    <2>3. \A j \in 1..i : Loads(StartUp[j])
        BY <2>1, StepNames DEF StepsAreLoaded
    <2>4. \A j \in 1..i : Loads(StartUp[j])'
        BY <2>3, LoadsStay
    <2>5. ASSUME i = 15
          PROVE  StepsAreLoaded'
        BY <2>5, <2>2, <2>4, StepNames DEF StepsAreLoaded, Steps
    <2>6. ASSUME i \in 1..14, NEW k \in DOMAIN StartUp, step' = StartUp[k], NEW j \in 1..(k - 1)
          PROVE  Loads(StartUp[j])'
        <3>1. k = i + 1
            <4>1. i + 1 \in DOMAIN StartUp /\ StartUp[i + 1] = StartUp[k]
                BY <2>6, <2>2, StepNames
            <4> HIDE DEF ProcessInv
            <4> QED BY <2>6, <4>1, StepsDiffer
        <3> QED BY <3>1, <2>6, <2>4, StepNames
    <2>7. ASSUME i \in 1..14
          PROVE  StepsAreLoaded'
        <3>1. step' \in Steps
            BY <2>7, <2>2, StepNames DEF Steps
        <3>2. step' \notin {"serve", "serving"}
            BY <3>1, StepNames
        <3> QED BY <3>2, <2>6, <2>7 DEF StepsAreLoaded
    <2> QED BY <2>5, <2>7
<1> QED BY <1>2, <1>3, <1>4

\* run() begins to return.
LEMMA Returns ==
    ASSUME ProcessInv, step # "exited", step # "unwind", step' = "unwind",
           failedAt' = step \/ (failedAt' \in {failedAt, "serve"} /\ step \notin Steps),
           UNCHANGED <<env, open, deferred, queueCloses, signalled, shutdown>>
    PROVE  (ProcessKnown /\ ResourcesAreHeld /\ StepsAreLoaded)'
<1> USE DEF ProcessInv
<1>1. step \in Steps \cup {"serve", "serving"} /\ failedAt = "none"
    BY DEF TypeOK, ProcessKnown
<1>2. ProcessKnown'
    BY StepNames DEF ProcessKnown
<1>3. StepsAreLoaded'
    BY StepNames DEF StepsAreLoaded, Steps
<1>4. Held("observability")' = Held("observability") /\ Held("db")' = Held("db")
      /\ Held("redis")' = Held("redis") /\ Held("queue")' = Held("queue")
    BY DEF Held
<1>5. failedAt' = step \/ step \notin {"tracing", "handle", "instrument"}
    BY StepNames
<1>6. ResourcesAreHeld'
    BY <1>1, <1>4, <1>5 DEF ResourcesAreHeld
<1> QED BY <1>2, <1>3, <1>6

\* closeTaskRepos.
LEMMA QueueIsClosed ==
    ASSUME ProcessInv, CloseTaskRepos
    PROVE  open' = open \ {"queue"} /\ queueCloses' = 1
BY DEF ProcessInv, TypeOK, ResourcesAreHeld, CloseTaskRepos

LEMMA EndShutdownStep ==
    ASSUME ProcessInv, EndShutdown
    PROVE  (ProcessKnown /\ ResourcesAreHeld /\ StepsAreLoaded)'
<1> USE DEF ProcessInv
<1>1. /\ open' = open \ {"queue"} /\ queueCloses' = 1
      /\ shutdown = "draining" /\ shutdown' = "done"
      /\ UNCHANGED <<env, step, failedAt, deferred, signalled>>
    BY QueueIsClosed DEF EndShutdown
<1>2. ProcessKnown'
    BY <1>1 DEF ProcessKnown
<1>3. ResourcesAreHeld'
    BY <1>1 DEF ResourcesAreHeld, Held
<1>4. StepsAreLoaded'
    BY <1>1, LoadsStay DEF StepsAreLoaded
<1> QED BY <1>2, <1>3, <1>4

LEMMA UnwindStep ==
    ASSUME ProcessInv, Unwind
    PROVE  (ProcessKnown /\ ResourcesAreHeld /\ StepsAreLoaded)'
<1> USE DEF ProcessInv
<1>1. step = "unwind" /\ step' \in {"unwind", "exited"} /\ UNCHANGED <<env, failedAt>>
    BY DEF Unwind
<1>2. ProcessKnown' /\ StepsAreLoaded'
    BY <1>1, StepNames DEF ProcessKnown, StepsAreLoaded, Steps, Unwind
<1>3. ASSUME deferred # <<>>, Close(Head(deferred)), deferred' = Tail(deferred)
      PROVE  ResourcesAreHeld'
    <2>1. /\ open' = open \ {Head(deferred)}
          /\ queueCloses' = IF Head(deferred) = "queue" THEN 1 ELSE queueCloses
        BY <1>3, QueueIsClosed DEF Close
    <2>2. ASSUME NEW x \in open', Held(x)
          PROVE  Held(x)'
        BY <2>1, <2>2, <1>3, FirstOrRest DEF Held, TypeOK
    <2>3. step \notin {"tracing", "handle", "instrument"}
        BY <1>1
    <2>4. "observability" \in open' => Held("observability")'
        BY <2>1, <2>2 DEF ResourcesAreHeld
    <2>5. "queue" \in open' => Held("queue")'
        BY <2>1, <2>2 DEF ResourcesAreHeld
    <2>6. "db" \in open' => Held("db")' \/ failedAt' \in {"tracing", "handle"}
        BY <2>1, <2>2, <1>1, <2>3 DEF ResourcesAreHeld
    <2>7. "redis" \in open' => Held("redis")' \/ "instrument" = failedAt'
        BY <2>1, <2>2, <1>1, <2>3 DEF ResourcesAreHeld
    <2>8. queueCloses' = 1 => "queue" \notin open'
        BY <2>1 DEF ResourcesAreHeld
    <2> HIDE DEF ProcessInv
    <2> QED BY <2>4, <2>5, <2>6, <2>7, <2>8 DEF ResourcesAreHeld
<1>4. ASSUME UNCHANGED <<open, deferred, queueCloses>>
      PROVE  ResourcesAreHeld'
    BY <1>1, <1>4 DEF ResourcesAreHeld, Held
<1>5. ResourcesAreHeld'
    BY <1>3, <1>4 DEF Unwind
<1> QED BY <1>2, <1>5

\* Whatever step is taken, the process keeps its part of the invariant.
LEMMA ProcessStep ==
    ASSUME ProcessInv, [Next]_vars
    PROVE  (ProcessKnown /\ ResourcesAreHeld /\ StepsAreLoaded)'
<1>1. CASE Signal
    BY <1>1, QuietProcess DEF Signal, ProcessInv, ProcessKnown
<1>2. CASE Start
    <2>1. step \in Steps /\ UNCHANGED <<env, queueCloses, signalled>>
        BY <1>2 DEF Start, Steps
    <2>2. CASE /\ Loads(step) /\ step' = After(step) /\ failedAt' = failedAt
               /\ open' = open \cup Opens(step) /\ deferred' = Defers(step) \o deferred
               /\ shutdown' = IF step = "watch" THEN "waiting" ELSE shutdown
        BY <2>1, <2>2, GoesOn
    <2>3. CASE step' = "unwind" /\ failedAt' = step /\ UNCHANGED <<open, deferred, shutdown>>
        BY <2>1, <2>3, Returns, StepNames
    <2> QED BY <1>2, <2>2, <2>3 DEF Start
<1>3. CASE Listen
    <2>1. CASE shutdown = "waiting" /\ step' = "serving" /\ failedAt' = failedAt
        <3>1. ProcessKnown'
            BY <1>3, <2>1, StepNames DEF Listen, ProcessInv, ProcessKnown
        <3>2. ResourcesAreHeld'
            BY <1>3, <2>1 DEF Listen, ProcessInv, ResourcesAreHeld, Held
        <3>3. StepsAreLoaded'
            BY <1>3, <2>1, StepNames, LoadsStay DEF Listen, ProcessInv, StepsAreLoaded, Steps
        <3> QED BY <3>1, <3>2, <3>3
    <2>2. CASE step' = "unwind" /\ failedAt' \in {failedAt, "serve"}
        BY <1>3, <2>2, Returns, StepNames DEF Listen
    <2> QED BY <1>3, <2>1, <2>2 DEF Listen
<1>4. CASE StopServing
    BY <1>4, Returns, StepNames DEF StopServing
<1>5. CASE ListenerFails
    BY <1>5, Returns, StepNames DEF ListenerFails
<1>6. CASE Unwind
    BY <1>6, UnwindStep
<1>7. CASE BeginShutdown
    BY <1>7, QuietProcess DEF BeginShutdown, Done
<1>8. CASE EndShutdown
    BY <1>8, EndShutdownStep
<1>9. ASSUME NEW r \in Requests, Accept(r) \/ Use(r) \/ Answer(r)
      PROVE  (ProcessKnown /\ ResourcesAreHeld /\ StepsAreLoaded)'
    BY <1>9, QuietProcess DEF Accept, Use, Answer, ProcessInv, ProcessKnown
<1>10. CASE UNCHANGED vars
    BY <1>10, QuietProcess DEF vars, process, ProcessInv, ProcessKnown
<1> QED BY <1>1, <1>2, <1>3, <1>4, <1>5, <1>6, <1>7, <1>8, <1>9, <1>10
        DEF Next, Run, Goroutine

(***************************************************************************)
(* Types                                                                   *)
(***************************************************************************)

LEMMA ServiceFields == DOMAIN Service = {"auth", "device"}
BY DEF Service

LEMMA CallsAre ==
    /\ DOMAIN Calls = {"ready", "login", "task"}
    /\ Calls["ready"] = <<"db", "redis">>
    /\ Calls["login"] = <<"use_case", "redis", "db">>
    /\ Calls["task"] = <<"auth", "device", "db", "queue">>
    /\ \A k \in DOMAIN Calls : Calls[k] \in Seq(Used)
<1>1. /\ DOMAIN Calls = {"ready", "login", "task"}
      /\ Calls["ready"] = <<"db", "redis">>
      /\ Calls["login"] = <<"use_case", "redis", "db">>
      /\ Calls["task"] = <<"auth", "device", "db", "queue">>
    BY DEF Calls
<1>2. /\ <<"db", "redis">> \in Seq(Used)
      /\ <<"use_case", "redis", "db">> \in Seq(Used)
      /\ <<"auth", "device", "db", "queue">> \in Seq(Used)
    BY DEF Used
<1> QED BY <1>1, <1>2

\* What a call of a handler can meet.
LEMMA MeetsIs ==
    ASSUME NEW u
    PROVE  Meets(u) \in {"none", "no_listener", "disabled", "closed"}
BY DEF Meets

LEMMA UseTypes ==
    ASSUME TypeOK, NEW r \in Requests, Use(r)
    PROVE  /\ uses' \in [Requests -> Seq(Used)]
           /\ fault' \in [Requests ->
                   {"none", "no_listener", "disabled", "closed", "store_error"}]
<1>1. PICK o \in Outcomes(r) :
        /\ fault' = [fault EXCEPT ![r] = IF @ = "none" THEN o ELSE @]
        /\ uses' = [uses EXCEPT ![r] = IF o = "none" \/ kind[r] = "ready" THEN Tail(@) ELSE <<>>]
    BY DEF Use
<1>2. o \in {"none", "no_listener", "disabled", "closed", "store_error"}
    BY MeetsIs DEF Outcomes
<1>3. uses[r] \in Seq(Used) /\ uses[r] # <<>>
    BY DEF Use, TypeOK
<1>4. Tail(uses[r]) \in Seq(Used) /\ <<>> \in Seq(Used)
    BY <1>3
<1> QED BY <1>1, <1>2, <1>4 DEF TypeOK

LEMMA ProcessTypes ==
    ASSUME ProcessInv, [Next]_vars
    PROVE  /\ env' \in Environments
           /\ step' \in Steps \cup {"serve", "serving", "unwind", "exited"}
           /\ failedAt' \in Steps \cup {"none", "serve"}
           /\ open' \subseteq Resources
           /\ deferred' \in Seq(Resources \cup {"cancel"})
           /\ queueCloses' \in {0, 1}
           /\ signalled' \in BOOLEAN
           /\ shutdown' \in {"none", "waiting", "draining", "done"}
<1> USE DEF ProcessInv, TypeOK
<1>1. CASE Start
    <2>1. step \in Steps /\ UNCHANGED <<env, queueCloses, signalled>>
        BY <1>1 DEF Start, Steps
    <2>2. CASE /\ step' = After(step) /\ failedAt' = failedAt
               /\ open' = open \cup Opens(step) /\ deferred' = Defers(step) \o deferred
               /\ shutdown' = IF step = "watch" THEN "waiting" ELSE shutdown
        BY <2>1, <2>2, OpensNext, DefersHold
    <2>3. CASE step' = "unwind" /\ failedAt' = step /\ UNCHANGED <<open, deferred, shutdown>>
        BY <2>1, <2>3
    <2> QED BY <1>1, <2>2, <2>3 DEF Start
<1>2. CASE Unwind
    <2>1. CASE deferred # <<>> /\ Close(Head(deferred)) /\ deferred' = Tail(deferred)
        <3>1. open' \subseteq open /\ queueCloses' \in {0, 1}
            BY <2>1, QueueIsClosed DEF Close
        <3>2. deferred' \in Seq(Resources \cup {"cancel"})
            <4>1. ASSUME NEW S, NEW d \in Seq(S), d # <<>> PROVE Tail(d) \in Seq(S)
                BY <4>1
            <4> QED BY <2>1, <4>1
        <3> QED BY <1>2, <3>1, <3>2 DEF Unwind
    <2> QED BY <1>2, <2>1 DEF Unwind
<1>3. CASE EndShutdown
    BY <1>3, QueueIsClosed DEF EndShutdown
<1>4. CASE Signal \/ ListenerFails \/ Listen \/ StopServing \/ BeginShutdown
    BY <1>4 DEF Signal, ListenerFails, Listen, StopServing, BeginShutdown, process
<1>5. ASSUME NEW r \in Requests, Accept(r) \/ Use(r) \/ Answer(r)
      PROVE  UNCHANGED <<env, step, process, signalled, shutdown>>
    BY <1>5 DEF Accept, Use, Answer
<1>6. CASE UNCHANGED <<env, step, process, signalled, shutdown>>
    BY <1>6 DEF process
<1> QED BY <1>1, <1>2, <1>3, <1>4, <1>5, <1>6 DEF Next, Run, Goroutine, vars

LEMMA TypeStep ==
    ASSUME ProcessInv, [Next]_vars
    PROVE  TypeOK'
<1> USE DEF TypeOK
<1>0. TypeOK
    BY DEF ProcessInv
<1>1. ASSUME NEW r \in Requests, Accept(r)
      PROVE  TypeOK'
    <2>1. PICK k \in DOMAIN Calls :
            kind' = [kind EXCEPT ![r] = k] /\ uses' = [uses EXCEPT ![r] = Calls[k]]
        BY <1>1 DEF Accept
    <2>2. uses' \in [Requests -> Seq(Used)]
        BY <1>0, <2>1, CallsAre
    <2> QED BY <1>0, <1>1, <2>1, <2>2, ProcessTypes DEF Accept
<1>2. ASSUME NEW r \in Requests, Use(r)
      PROVE  TypeOK'
    BY <1>0, <1>2, UseTypes, ProcessTypes DEF Use
<1>3. ASSUME NEW r \in Requests, Answer(r)
      PROVE  TypeOK'
    BY <1>0, <1>3, ProcessTypes DEF Answer
<1>4. CASE Unwind
    BY <1>0, <1>4, ProcessTypes DEF Unwind
<1>5. CASE UNCHANGED requests
    BY <1>0, <1>5, ProcessTypes DEF requests
<1> QED BY <1>1, <1>2, <1>3, <1>4, <1>5
        DEF Next, Run, Goroutine, vars, requests, Signal, ListenerFails, Start, Listen,
            StopServing, BeginShutdown, EndShutdown

(***************************************************************************)
(* The requests                                                            *)
(***************************************************************************)

\* Until the server is being stopped, a running request finds everything open.
LEMMA NothingIsMissing ==
    ASSUME ProcessInv, NEW r \in Requests, RequestKnown(r), stage[r] = "running",
           step # "exited", ~Ending, uses[r] # <<>>
    PROVE  Meets(Head(uses[r])) \notin {"closed", "no_listener"}
<1>1. step = "serving" /\ shutdown = "waiting" /\ open = Resources
    BY DEF RequestKnown, ProcessInv, ProcessKnown, Ending
<1>2. Head(uses[r]) \in Used
    BY DEF ProcessInv, TypeOK
<1>3. Head(uses[r]) \in open \cup DOMAIN Service \cup {"use_case"}
    BY <1>1, <1>2, ServiceFields DEF Used, Resources
<1> QED BY <1>1, <1>3 DEF Meets, Listening

\* The call that refuses a request without an OIDC client id.
LEMMA RefusedMeets ==
    ASSUME ProcessInv, NEW r \in Requests, Refused(r), \A s \in Steps : Loads(s),
           uses[r] = Calls[kind[r]]
    PROVE  uses[r] # <<>> /\ Meets(Head(uses[r])) # "none"
<1>1. Provider(env) = "absent"
    BY DEF Refused, Provider
<1>2. Head(uses[r]) \in {"use_case", "auth"} /\ uses[r] # <<>>
      /\ (Head(uses[r]) = "auth" => kind[r] = "task")
    BY CallsAre DEF Refused
<1>3. CASE kind[r] = "login"
    <2>1. Head(uses[r]) = "use_case" /\ ~CallsItself("use_case")
        BY <1>3, CallsAre, ServiceFields DEF CallsItself
    <2> QED BY <2>1, <1>1, <1>2 DEF Meets, Disabled
<1>4. CASE kind[r] = "task" /\ ServiceURL(env, "AUTH_SERVICE_URL") # "remote"
    <2>1. Head(uses[r]) = "auth"
        BY <1>4, CallsAre
    <2>2. ServiceURL(env, "AUTH_SERVICE_URL") = "self"
        <3>1. Loads("task_config")
            BY StepNames
        <3> QED BY <3>1, <1>4 DEF Loads, TaskLoads, ServiceURL
    <2>3. CallsItself("auth") /\ Disabled("auth")
        BY <2>2, ServiceFields DEF CallsItself, Disabled, Service
    <2> QED BY <2>1, <2>3, <1>1, <1>2 DEF Meets
<1> QED BY <1>3, <1>4 DEF Refused

\* A request takes part in no step of the process or of another request, and
\* keeps what it knows.
LEMMA RequestWaits ==
    ASSUME ProcessInv, [Next]_vars, NEW r \in Requests, RequestKnown(r),
           UNCHANGED <<kind[r], uses[r], fault[r]>>,
           stage'[r] = stage[r] \/ (stage[r] = "running" /\ stage'[r] = "cut" /\ step' = "exited")
    PROVE  RequestKnown(r)'
<1>1. env' = env /\ (Ending => Ending')
    <2>1. env' = env
        BY DEF Next, Run, Goroutine, vars, Signal, ListenerFails, Start, Listen, StopServing,
               Unwind, BeginShutdown, EndShutdown, Accept, Use, Answer
    <2>2. signalled => signalled'
        BY DEF Next, Run, Goroutine, vars, Signal, ListenerFails, Start, Listen, StopServing,
               Unwind, BeginShutdown, EndShutdown, Accept, Use, Answer
    <2>3. failedAt = "serve" => failedAt' = "serve"
        <3>1. CASE Start
            BY <3>1, StepNames DEF Start, ProcessInv, ProcessKnown, Steps
        <3> QED BY <3>1
                DEF Next, Run, Goroutine, vars, process, Signal, ListenerFails, Listen, StopServing,
                    Unwind, BeginShutdown, EndShutdown, Accept, Use, Answer
    <2> QED BY <2>1, <2>2, <2>3 DEF Ending
<1>2. (\A s \in Steps : Loads(s)) => \A s \in Steps : Loads(s)'
    BY <1>1, LoadsStay
<1>3. (Refused(r))' <=> Refused(r)
    BY <1>1 DEF Refused, IsSet, ServiceURL
<1>4. step \in {"serving", "unwind", "exited"} =>
        /\ step' \in {"serving", "unwind", "exited"}
        /\ step' # "serving" /\ step = "serving" => Ending'
        /\ step = "exited" => step' = "exited"
    BY <1>1, StepNames
       DEF Next, Run, Goroutine, vars, process, Signal, ListenerFails, Start, Listen, StopServing,
           Unwind, BeginShutdown, EndShutdown, Accept, Use, Answer, Steps, Ending, ProcessInv,
           ProcessKnown
<1>5. stage'[r] # "idle" =>
        /\ step' \in {"serving", "unwind", "exited"}
        /\ step' # "serving" => Ending'
        /\ \A s \in Steps : Loads(s)'
        /\ kind'[r] \in DOMAIN Calls
    <2>1. stage'[r] # "idle" => stage[r] # "idle"
        OBVIOUS
    <2>2. step \in {"unwind", "exited"} => step' # "serving"
        BY StepNames
           DEF Next, Run, Goroutine, vars, process, Signal, ListenerFails, Start, Listen,
               StopServing, Unwind, BeginShutdown, EndShutdown, Accept, Use, Answer, Steps
    <2> QED BY <1>1, <1>2, <1>4, <2>1, <2>2 DEF RequestKnown
<1> QED BY <1>1, <1>3, <1>4, <1>5 DEF RequestKnown

LEMMA AcceptedKnows ==
    ASSUME ProcessInv, NEW r \in Requests, RequestKnown(r), Accept(r)
    PROVE  RequestKnown(r)'
<1>1. /\ step' = "serving" /\ step = "serving" /\ env' = env
      /\ stage[r] = "idle" /\ stage'[r] = "running" /\ fault'[r] = "none"
    BY DEF Accept, Listening, RequestKnown, ProcessInv, TypeOK
<1>2. kind'[r] \in DOMAIN Calls /\ uses'[r] = Calls[kind'[r]]
    BY DEF Accept, ProcessInv, TypeOK
<1>3. \A s \in Steps : Loads(s)'
    BY <1>1, LoadsStay DEF ProcessInv, StepsAreLoaded
<1> QED BY <1>1, <1>2, <1>3 DEF RequestKnown

LEMMA UserKnows ==
    ASSUME ProcessInv, NEW r \in Requests, RequestKnown(r), Use(r)
    PROVE  RequestKnown(r)'
<1>1. /\ UNCHANGED <<env, step, process, signalled, shutdown, stage, kind>>
      /\ stage[r] = "running" /\ step # "exited" /\ uses[r] # <<>>
    BY DEF Use
<1>2. PICK o \in Outcomes(r) :
        /\ fault'[r] = IF fault[r] = "none" THEN o ELSE fault[r]
        /\ uses'[r] = IF o = "none" \/ kind[r] = "ready" THEN Tail(uses[r]) ELSE <<>>
    BY DEF Use, ProcessInv, TypeOK
<1>3. /\ step \in {"serving", "unwind", "exited"} /\ (step # "serving" => Ending)
      /\ kind[r] \in DOMAIN Calls /\ \A s \in Steps : Loads(s)
    BY <1>1 DEF RequestKnown
<1>4. (Ending' <=> Ending) /\ (Refused(r)' <=> Refused(r)) /\ \A s \in Steps : Loads(s)'
    BY <1>1, <1>3, LoadsStay DEF Ending, Refused, process, IsSet, ServiceURL
<1>5. fault'[r] \in {"closed", "no_listener"} => Ending
    <2>1. o \in {"closed", "no_listener"} => Ending
        BY <1>1, NothingIsMissing DEF Outcomes
    <2> QED BY <2>1, <1>2 DEF RequestKnown
<1>6. ~(fault'[r] = "none" /\ Refused(r))
    <2>1. SUFFICES ASSUME fault'[r] = "none", Refused(r) PROVE FALSE
        OBVIOUS
    <2>2. fault[r] = "none" /\ o = "none"
        BY <1>2, <2>1
    <2>3. uses[r] = Calls[kind[r]]
        BY <2>1, <2>2, <1>1 DEF RequestKnown
    <2> QED BY <2>1, <2>2, <2>3, <1>3, RefusedMeets DEF Outcomes
<1> QED BY <1>1, <1>3, <1>4, <1>5, <1>6 DEF RequestKnown

LEMMA AnswererKnows ==
    ASSUME ProcessInv, NEW r \in Requests, RequestKnown(r), Answer(r)
    PROVE  RequestKnown(r)'
<1>1. /\ UNCHANGED <<env, step, process, signalled, kind, uses, fault>>
      /\ stage[r] = "running" /\ uses[r] = <<>>
      /\ stage'[r] = IF fault[r] = "none" THEN "ok" ELSE "failed"
    BY DEF Answer, ProcessInv, TypeOK
<1>2. (Ending' <=> Ending) /\ (Refused(r)' <=> Refused(r))
    BY <1>1 DEF Ending, Refused, process, IsSet, ServiceURL
<1>3. \A s \in Steps : Loads(s) /\ Loads(s)'
    BY <1>1, LoadsStay DEF RequestKnown
<1>4. fault[r] = "none" => ~Refused(r)
    BY <1>1, <1>3, RefusedMeets DEF RequestKnown
<1> QED BY <1>1, <1>2, <1>3, <1>4 DEF RequestKnown

LEMMA RequestStep ==
    ASSUME ProcessInv, [Next]_vars, NEW r \in Requests, RequestKnown(r)
    PROVE  RequestKnown(r)'
<1>1. CASE Accept(r)
    BY <1>1, AcceptedKnows
<1>2. CASE Use(r)
    BY <1>2, UserKnows
<1>3. CASE Answer(r)
    BY <1>3, AnswererKnows
<1>4. ASSUME NEW s \in Requests, s # r, Accept(s) \/ Use(s) \/ Answer(s)
      PROVE  UNCHANGED <<stage[r], kind[r], uses[r], fault[r]>>
    BY <1>4 DEF Accept, Use, Answer, ProcessInv, TypeOK
<1>5. CASE Unwind
    <2>1. /\ UNCHANGED <<kind[r], uses[r], fault[r]>>
          /\ \/ stage'[r] = stage[r]
             \/ stage[r] = "running" /\ stage'[r] = "cut" /\ step' = "exited"
        BY <1>5 DEF Unwind
    <2> QED BY <2>1, RequestWaits
<1>6. CASE UNCHANGED <<stage[r], kind[r], uses[r], fault[r]>>
    BY <1>6, RequestWaits
<1> QED BY <1>1, <1>2, <1>3, <1>4, <1>5, <1>6
        DEF Next, Run, Goroutine, vars, requests, Signal, ListenerFails, Start, Listen,
            StopServing, BeginShutdown, EndShutdown

(***************************************************************************)
(* The theorems                                                            *)
(***************************************************************************)

\* A program whose steps all loaded their configuration has nothing in its
\* environment that it cannot use, but for what it ignores.
LEMMA UnusableIsIgnored ==
    ASSUME env \in Environment, \A s \in Steps : Loads(s), NEW n \in Names,
           env[n] = "bad" \/ (n = "SESSION_DURATION" /\ env[n] = "zero")
    PROVE  Ignored(n)
<1>1. Loads("config") /\ Loads("db") /\ Loads("auth") /\ Loads("task_config")
    BY StepNames
<1>2. n \in Parsed
    BY DEF Environment, Parsed
<1>3. CASE n \in {"POSTGRES_DSN", "REDIS_DB"}
    BY <1>1, <1>3 DEF Loads, PersistenceLoads
<1>4. CASE n = "SESSION_DURATION"
    BY <1>1, <1>4 DEF Loads, AuthLoads, SessionLoads, SessionDuration, Ignored
<1>5. CASE n \in {"AUTH_SERVICE_URL", "DEVICE_SERVICE_URL"}
    BY <1>1, <1>5 DEF Loads, TaskLoads, ServiceURL, IsSet
<1>6. CASE n = "PRIMIND_TASKS_URL"
    BY <1>1, <1>6 DEF Loads, TaskLoads, TaskQueueLoads, PrimindTasksLoads, Environment, Ignored
<1>7. CASE n = "TASK_QUEUE_MAX_RETRIES"
    BY <1>7 DEF Ignored
<1>8. CASE n \in {"OIDC_GOOGLE_REDIRECT_URI", "OIDC_GOOGLE_SCOPES", "OIDC_GOOGLE_ISSUER_URL"}
    <2>1. Provider(env) # "invalid" /\ ~ProviderIsValid(env)
        BY <1>1, <1>8 DEF Loads, AuthLoads, ProviderIsValid
    <2> QED BY <2>1, <1>8 DEF Provider, Ignored, OIDCNames
<1> QED BY <1>2, <1>3, <1>4, <1>5, <1>6, <1>7, <1>8 DEF Parsed

LEMMA ServerInit == Init => ServerInv
<1> SUFFICES ASSUME Init PROVE ServerInv
    OBVIOUS
<1> USE DEF Init
<1>1. step \in Steps /\ step = StartUp[1] /\ "none" \notin Steps
    BY StepNames DEF StartUp
<1>2. deferred \in Seq(Resources \cup {"cancel"}) /\ <<>> \in Seq(Used)
    OBVIOUS
<1>3. TypeOK
    BY <1>1, <1>2 DEF TypeOK
<1>4. ProcessKnown /\ ResourcesAreHeld
    BY StepNames DEF ProcessKnown, ResourcesAreHeld, Opened
<1>5. StepsAreLoaded
    <2>1. ASSUME NEW i \in DOMAIN StartUp, step = StartUp[i], NEW j \in 1..(i - 1)
          PROVE  FALSE
        <3>1. 1 \in DOMAIN StartUp /\ StartUp[1] = StartUp[i]
            BY <1>1, <2>1, StepNames
        <3>2. i = 1
            BY <3>1, StepsDiffer
        <3> QED BY <3>2
    <2> QED BY <2>1, StepNames DEF StepsAreLoaded
<1>6. \A r \in Requests : RequestKnown(r)
    BY DEF RequestKnown
<1> QED BY <1>3, <1>4, <1>5, <1>6 DEF ServerInv

\* The inductive invariant of the process: at every step of run() what is open
\* is going to be closed, the steps behind it loaded their configuration, and
\* every request knows what it can still meet (main.go:45-334).
THEOREM ServerInvariant == Spec => []ServerInv
<1>1. ServerInv /\ [Next]_vars => ServerInv'
    BY ProcessStep, TypeStep, RequestStep DEF ServerInv, ProcessInv
<1> QED BY <1>1, ServerInit, PTL DEF Spec

\* Whatever step of the start fails and whenever the signal comes, the process
\* exits with everything closed that it opened, the queue client once although
\* run() and the goroutine race to close it; two failures between an open and
\* its defer are the exception (main.go:91-146, 206-216, 318).
THEOREM ResourcesReleased == Spec => []ResourcesAreReleased
<1>1. ServerInv => ResourcesAreReleased
    <2> SUFFICES ASSUME ServerInv PROVE ResourcesAreReleased
        OBVIOUS
    <2>1. queueCloses <= 1
        BY DEF ServerInv, TypeOK
    <2>2. step = "exited" => \A x : ~Held(x)
        BY DEF ServerInv, ProcessKnown, Held, Among
    <2> QED BY <2>1, <2>2 DEF ServerInv, ResourcesAreHeld, ResourcesAreReleased
<1> QED BY <1>1, ServerInvariant, PTL

\* Only the end of the server takes a resource, the listener or an answer from
\* a request, and no request is served that the configuration does not allow:
\* for every environment, not only those of the run (main.go:175-329).
THEOREM RequestsServedWhole == Spec => []RequestsAreServedWhole
<1>1. ServerInv => RequestsAreServedWhole
    <2> SUFFICES ASSUME ServerInv, NEW r \in Requests
                 PROVE  /\ stage[r] = "cut" \/ fault[r] \in {"closed", "no_listener"} => Ending
                        /\ stage[r] = "ok" => \A n \in Names :
                              env[n] = "bad" \/ (n = "SESSION_DURATION" /\ env[n] = "zero")
                                  => Ignored(n)
                        /\ stage[r] = "ok" /\ ~IsSet(env, "OIDC_GOOGLE_CLIENT_ID") =>
                              \/ kind[r] = "ready"
                              \/ /\ kind[r] = "task"
                                 /\ ServiceURL(env, "AUTH_SERVICE_URL") = "remote"
        BY DEF RequestsAreServedWhole, Ending
    <2>1. RequestKnown(r) /\ env \in Environment
        BY ServerEnvironmentsAssumption DEF ServerInv, TypeOK
    <2>2. stage[r] = "cut" \/ fault[r] \in {"closed", "no_listener"} => Ending
        BY <2>1 DEF RequestKnown
    <2>3. stage[r] = "ok" => \A n \in Names :
            env[n] = "bad" \/ (n = "SESSION_DURATION" /\ env[n] = "zero") => Ignored(n)
        BY <2>1, UnusableIsIgnored DEF RequestKnown
    <2>4. stage[r] = "ok" => ~Refused(r) /\ kind[r] \in {"ready", "login", "task"}
        BY <2>1, CallsAre DEF RequestKnown
    <2> QED BY <2>2, <2>3, <2>4 DEF Refused
<1> QED BY <1>1, ServerInvariant, PTL

=============================================================================
