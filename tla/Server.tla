-------------------------------- MODULE Server --------------------------------
(***************************************************************************)
(* The process: run() in cmd/main.go with the configuration it loads, the  *)
(* resources it opens and closes, the modules it wires, the requests its   *)
(* server accepts and the health checks among them (internal/health), and  *)
(* its end by a signal.                                                    *)
(*                                                                         *)
(* Two threads stop the process: run(), which unwinds its defers, and the  *)
(* goroutine that waits for the signal, shuts the server down and closes   *)
(* the queue client.  ListenAndServe returns as soon as the shutdown       *)
(* begins, so run() does not wait for the requests in flight.              *)
(*                                                                         *)
(* The services of the process call each other over its own address        *)
(* (AUTH_SERVICE_URL and DEVICE_SERVICE_URL, http://localhost:8080 unless  *)
(* configured otherwise).                                                  *)
(***************************************************************************)
EXTENDS Configuration, Sequences, Naturals

CONSTANTS
    Requests,      \* what clients send
    Environments,  \* how the process is deployed
    Faults         \* what may go wrong outside the process

FaultKinds == {"startup_error", "store_error", "listener_error"}

ASSUME ServerFaultsAssumption == Faults \subseteq FaultKinds
ASSUME ServerEnvironmentsAssumption == Environments \subseteq Environment

VARIABLES
    env,        \* the environment it was started in
    step,       \* where run() is
    failedAt,   \* the step run() returned an error from
    open,       \* the resources that are open
    deferred,   \* what run() closes when it returns, the next one first
    queueCloses,\* how often the queue client was closed
    signalled,  \* SIGINT or SIGTERM has come
    shutdown,   \* where the goroutine is
    stage,      \* how far each request is, or its answer
    kind,       \* what it asks for
    uses,       \* what its handler has still to call
    fault       \* what went wrong for it

vars == <<env, step, failedAt, open, deferred, queueCloses, signalled, shutdown,
          stage, kind, uses, fault>>
process == <<failedAt, open, deferred, queueCloses>>
requests == <<stage, kind, uses, fault>>

\* run() up to ListenAndServe.
StartUp == <<"observability", "config", "db", "tracing", "handle", "redis", "instrument", "ping",
             "auth", "task_config", "queues", "handlers", "device_config", "device", "watch">>

After(s) ==
    LET i == CHOOSE j \in DOMAIN StartUp : StartUp[j] = s
    IN IF i = Len(StartUp) THEN "serve" ELSE StartUp[i + 1]

Opens(s) ==
    CASE s = "observability" -> {"observability"}
      [] s = "db" -> {"db"}
      [] s = "redis" -> {"redis"}
      [] s = "queues" -> {"queue"}
      [] OTHER -> {}

\* The defer statement after a step; a resource may be open before.
Defers(s) ==
    CASE s = "observability" -> <<"observability">>
      [] s = "handle" -> <<"db">>
      [] s = "instrument" -> <<"redis">>
      [] s = "queues" -> <<"queue">>
      [] s = "watch" -> <<"cancel">>
      [] OTHER -> <<>>

\* The configuration a step loads is valid.
Loads(s) ==
    CASE s = "config" -> PersistenceLoads(env)
      [] s = "db" -> env["POSTGRES_DSN"] # "bad"  \* gorm.Open
      [] s = "auth" -> AuthLoads(env)
      [] s = "task_config" -> TaskLoads(env)
      [] s = "device_config" -> DeviceLoads(env)
      [] OTHER -> TRUE

\* The Redis ping and the discovery of the provider take the context that the
\* signal cancels.
Cancelled(s) == signalled /\ (s = "ping" \/ (s = "auth" /\ Provider(env) = "configured"))

\* NewClient and the go statement cannot fail.
MayFail(s) == s \notin {"redis", "watch"} /\ "startup_error" \in Faults

Init ==
    /\ env \in Environments
    /\ step = "observability" /\ failedAt = "none"
    /\ open = {} /\ deferred = <<>> /\ queueCloses = 0
    /\ signalled = FALSE /\ shutdown = "none"
    /\ stage = [r \in Requests |-> "idle"]
    /\ kind = [r \in Requests |-> "none"]
    /\ uses = [r \in Requests |-> <<>>]
    /\ fault = [r \in Requests |-> "none"]

Signal ==
    /\ ~signalled /\ step # "exited"
    /\ signalled' = TRUE
    /\ UNCHANGED <<env, step, process, shutdown, requests>>

(***************************************************************************)
(* run()                                                                   *)
(***************************************************************************)

Start ==
    /\ step \in {StartUp[i] : i \in DOMAIN StartUp}
    /\ \/ /\ Loads(step) /\ ~Cancelled(step)
          /\ step' = After(step) /\ failedAt' = failedAt
          /\ open' = open \cup Opens(step)
          /\ deferred' = Defers(step) \o deferred
          /\ shutdown' = IF step = "watch" THEN "waiting" ELSE shutdown
       \/ /\ ~Loads(step) \/ Cancelled(step) \/ MayFail(step)
          /\ step' = "unwind" /\ failedAt' = step
          /\ UNCHANGED <<open, deferred, shutdown>>
    /\ UNCHANGED <<env, queueCloses, signalled, requests>>

\* ListenAndServe: it listens, it fails, or a shutdown has begun already.
Listen ==
    /\ step = "serve"
    /\ \/ shutdown = "waiting" /\ step' = "serving" /\ failedAt' = failedAt
       \/ shutdown # "waiting" /\ step' = "unwind" /\ failedAt' = failedAt
       \/ "listener_error" \in Faults /\ step' = "unwind" /\ failedAt' = "serve"
    /\ UNCHANGED <<env, open, deferred, queueCloses, signalled, shutdown, requests>>

\* ListenAndServe returns ErrServerClosed ...
StopServing ==
    /\ step = "serving" /\ shutdown # "waiting"
    /\ step' = "unwind"
    /\ UNCHANGED <<env, failedAt, open, deferred, queueCloses, signalled, shutdown, requests>>

\* ... or an error of the listener.
ListenerFails ==
    /\ "listener_error" \in Faults
    /\ step = "serving"
    /\ step' = "unwind" /\ failedAt' = "serve"
    /\ UNCHANGED <<env, open, deferred, queueCloses, signalled, shutdown, requests>>

\* Mutant: without sync.Once.
CloseTaskRepos_Twice ==
    open' = open \ {"queue"} /\ queueCloses' = queueCloses + 1

\* closeTaskRepos, by whichever thread comes first.
CloseTaskRepos ==
    IF queueCloses = 0 THEN open' = open \ {"queue"} /\ queueCloses' = 1
    ELSE UNCHANGED <<open, queueCloses>>

Close(resource) ==
    IF resource = "queue" THEN CloseTaskRepos
    ELSE open' = open \ {resource} /\ queueCloses' = queueCloses

\* One deferred call; after the last one the process exits, whatever the
\* goroutine and the handlers are doing.
Unwind ==
    /\ step = "unwind"
    /\ \/ /\ deferred # <<>>
          /\ Close(Head(deferred)) /\ deferred' = Tail(deferred)
          /\ UNCHANGED <<step, stage>>
       \/ /\ deferred = <<>>
          /\ step' = "exited"
          /\ stage' = [r \in Requests |-> IF stage[r] = "running" THEN "cut" ELSE stage[r]]
          /\ UNCHANGED <<open, deferred, queueCloses>>
    /\ UNCHANGED <<env, failedAt, signalled, shutdown, kind, uses, fault>>

(***************************************************************************)
(* The goroutine                                                           *)
(***************************************************************************)

\* Mutant: the context of the goroutine does not know of the signal.
Done_NoSignal == step = "unwind" /\ "cancel" \notin {deferred[i] : i \in DOMAIN deferred}

\* Mutant: cancel is called, not deferred.
Done_CancelNotDeferred == TRUE

\* ctx is done: by the signal, or because run() has called cancel.
Done == signalled \/ (step = "unwind" /\ "cancel" \notin {deferred[i] : i \in DOMAIN deferred})

\* Shutdown closes the listener and waits for the requests ...
BeginShutdown ==
    /\ shutdown = "waiting" /\ step # "exited"
    /\ Done
    /\ shutdown' = "draining"
    /\ UNCHANGED <<env, step, process, signalled, requests>>

\* ... until none is left or fifteen seconds have passed.
EndShutdown ==
    /\ shutdown = "draining" /\ step # "exited"
    /\ CloseTaskRepos
    /\ shutdown' = "done"
    /\ UNCHANGED <<env, step, failedAt, deferred, signalled, requests>>

(***************************************************************************)
(* Requests                                                                *)
(***************************************************************************)

Listening == step = "serving" /\ shutdown = "waiting"

\* What the handlers of a kind call, in this order: ready checks of the health
\* endpoints, logins, and the creations of tasks, whose sessions the auth
\* service validates and whose devices the device service lists.
Calls == [ready |-> <<"db", "redis">>, login |-> <<"use_case", "redis", "db">>,
          task |-> <<"auth", "device", "db", "queue">>]

Accept(r) ==
    /\ stage[r] = "idle" /\ Listening
    /\ \E k \in DOMAIN Calls :
        kind' = [kind EXCEPT ![r] = k] /\ uses' = [uses EXCEPT ![r] = Calls[k]]
    /\ stage' = [stage EXCEPT ![r] = "running"]
    /\ UNCHANGED <<env, step, process, signalled, shutdown, fault>>

\* A service that is called over HTTP is this process or another one.
Service == [auth |-> "AUTH_SERVICE_URL", device |-> "DEVICE_SERVICE_URL"]
CallsItself(u) == u \in DOMAIN Service /\ ServiceURL(env, Service[u]) = "self"

\* Without OIDC the auth service of this process has no use case: it answers
\* FailedPrecondition, to logins and to the sessions it should validate.
Disabled(u) == u = "use_case" \/ (u = "auth" /\ CallsItself(u))

\* What a call meets in the process, if nothing outside goes wrong.
Meets(u) ==
    CASE CallsItself(u) /\ ~Listening -> "no_listener"
      [] Disabled(u) /\ Provider(env) = "absent" -> "disabled"
      [] u \notin open \cup DOMAIN Service \cup {"use_case"} -> "closed"
      [] OTHER -> "none"

Outcomes(r) == {Meets(Head(uses[r]))} \cup ({"store_error"} \cap Faults)

\* A check goes on to the second store after the first one failed, within the
\* five seconds they share; every other handler returns its first error.
Use(r) ==
    /\ stage[r] = "running" /\ step # "exited" /\ uses[r] # <<>>
    /\ \E o \in Outcomes(r) :
        /\ fault' = [fault EXCEPT ![r] = IF @ = "none" THEN o ELSE @]
        /\ uses' = [uses EXCEPT ![r] = IF o = "none" \/ kind[r] = "ready" THEN Tail(@) ELSE <<>>]
    /\ UNCHANGED <<env, step, process, signalled, shutdown, stage, kind>>

Answer(r) ==
    /\ stage[r] = "running" /\ step # "exited" /\ uses[r] = <<>>
    /\ stage' = [stage EXCEPT ![r] = IF fault[r] = "none" THEN "ok" ELSE "failed"]
    /\ UNCHANGED <<env, step, process, signalled, shutdown, kind, uses, fault>>

Run == Start \/ Listen \/ StopServing \/ Unwind
Goroutine == BeginShutdown \/ EndShutdown

Next ==
    \/ Signal \/ ListenerFails \/ Run \/ Goroutine
    \/ \E r \in Requests : Accept(r) \/ Use(r) \/ Answer(r)

Spec == Init /\ [][Next]_vars

\* Both threads are scheduled, and what run() calls returns.
FairSpec == Spec /\ WF_vars(Run) /\ WF_vars(Goroutine)

-----------------------------------------------------------------------------

\* Whatever step fails, and whenever the signal comes, the process exits with
\* everything closed that it opened, the queue client once although two threads
\* close it (main.go:206-216, 318).  Two failures leave a resource open: the
\* defers come after the steps that may fail (main.go:91-110, 123-142).
ResourcesAreReleased ==
    /\ queueCloses <= 1
    /\ step = "exited" =>
         /\ "db" \in open => failedAt \in {"tracing", "handle"}
         /\ "redis" \in open => failedAt = "instrument"
         /\ {"queue", "observability"} \cap open = {}

\* A value that the program cannot use and that it ignores: the two numbers it
\* has defaults for, and what belongs to a provider or a build that is not used.
Ignored(n) ==
    \/ n = "TASK_QUEUE_MAX_RETRIES"
    \/ n = "SESSION_DURATION" /\ env[n] = "bad"
    \/ n \in OIDCNames /\ ~IsSet(env, "OIDC_GOOGLE_CLIENT_ID")
    \/ n = "PRIMIND_TASKS_URL" /\ env["BUILD_TAGS"] = "gcloud"

\* Only the end of the server takes anything away from a request: before it, no
\* handler meets a closed resource or a missing listener and none is cut short.
\* Nobody is served by a process whose environment it cannot use, but for what
\* it ignores; and one that lacks the OIDC client id serves neither logins nor
\* requests with sessions that it validates itself, even with everything else
\* in place and a healthy readiness check (auth/module.go:95-127).
RequestsAreServedWhole ==
    \A r \in Requests :
        /\ stage[r] = "cut" \/ fault[r] \in {"closed", "no_listener"}
              => signalled \/ failedAt = "serve"
        /\ stage[r] = "ok" => \A n \in Names :
              env[n] = "bad" \/ (n = "SESSION_DURATION" /\ env[n] = "zero") => Ignored(n)
        /\ stage[r] = "ok" /\ ~IsSet(env, "OIDC_GOOGLE_CLIENT_ID") =>
              \/ kind[r] = "ready"
              \/ kind[r] = "task" /\ ServiceURL(env, "AUTH_SERVICE_URL") = "remote"

\* The signal ends the process, at every point of its start and of its work,
\* and although run() and the goroutine wait for one another's steps.
SignalStops == signalled ~> step = "exited"

=============================================================================
