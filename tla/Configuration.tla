---------------------------- MODULE Configuration ----------------------------
(***************************************************************************)
(* What the environment of the process amounts to: the Load and Validate   *)
(* functions of internal/config, internal/auth/config, internal/task/config*)
(* and internal/device/config, and the remind queues that are chosen from  *)
(* them (internal/task/module_primind.go, module_gcloud.go).               *)
(*                                                                         *)
(* An environment gives every variable a value: none, a good one, one the  *)
(* program cannot use ("bad": no number, no duration, a URL of another     *)
(* scheme, an issuer that is not Google, scopes without openid), or        *)
(* "zero": a number or duration that is not positive.                      *)
(***************************************************************************)

OIDCNames == {"OIDC_GOOGLE_CLIENT_ID", "OIDC_GOOGLE_CLIENT_SECRET", "OIDC_GOOGLE_REDIRECT_URI",
              "OIDC_GOOGLE_SCOPES", "OIDC_GOOGLE_ISSUER_URL"}
GCloudNames == {"GCLOUD_PROJECT_ID", "GCLOUD_LOCATION_ID", "GCLOUD_REMIND_REGISTER_QUEUE_ID",
                "GCLOUD_REMIND_CANCEL_QUEUE_ID", "GCLOUD_REMIND_TARGET_URL"}
Names == {"POSTGRES_DSN", "REDIS_DB", "SESSION_SECRET", "SESSION_DURATION", "AUTH_SERVICE_URL",
          "DEVICE_SERVICE_URL", "PRIMIND_TASKS_URL", "TASK_QUEUE_MAX_RETRIES"}
             \cup OIDCNames \cup GCloudNames

\* What is parsed; of the other variables the program asks at most that they are
\* set, so none of their values is "bad".
Parsed == {"POSTGRES_DSN", "REDIS_DB", "SESSION_DURATION", "AUTH_SERVICE_URL",
           "DEVICE_SERVICE_URL", "PRIMIND_TASKS_URL", "TASK_QUEUE_MAX_RETRIES",
           "OIDC_GOOGLE_REDIRECT_URI", "OIDC_GOOGLE_SCOPES", "OIDC_GOOGLE_ISSUER_URL"}

\* BUILD_TAGS is an argument of the build, not of the process.
Environment ==
    {env \in [Names \cup {"BUILD_TAGS"} -> {"unset", "good", "bad", "zero", "gcloud"}] :
        /\ env["BUILD_TAGS"] \in {"unset", "gcloud"}
        /\ \A n \in Names :
            \/ env[n] \in {"unset", "good"}
            \/ env[n] = "bad" /\ n \in Parsed
            \/ env[n] = "zero" /\ n \in {"SESSION_DURATION", "TASK_QUEUE_MAX_RETRIES"}}

IsSet(env, n) == env[n] # "unset"

\* REDIS_ADDR and REDIS_PASSWORD have defaults and are not checked.
PersistenceLoads(env) == IsSet(env, "POSTGRES_DSN") /\ env["REDIS_DB"] # "bad"

\* The default of 24 hours stands in for a duration that cannot be parsed, which
\* one in days cannot, although .env.example:2 gives "7d" as an example.
SessionDuration(env) ==
    CASE env["SESSION_DURATION"] = "good" -> "configured"
      [] env["SESSION_DURATION"] = "zero" -> "not positive"
      [] OTHER -> "default"

SessionLoads(env) == IsSet(env, "SESSION_SECRET") /\ SessionDuration(env) # "not positive"

\* CoreConfig.Validate, then the check of the issuer's host.
ProviderIsValid(env) ==
    \A n \in {"OIDC_GOOGLE_REDIRECT_URI", "OIDC_GOOGLE_SCOPES", "OIDC_GOOGLE_ISSUER_URL"} :
        env[n] # "bad"

\* loadConfig: a provider without a client id is left out, whatever else is
\* set; scopes and issuer have defaults.
Provider(env) ==
    CASE ~IsSet(env, "OIDC_GOOGLE_CLIENT_ID") -> "absent"
      [] /\ IsSet(env, "OIDC_GOOGLE_CLIENT_ID") /\ IsSet(env, "OIDC_GOOGLE_CLIENT_SECRET")
         /\ IsSet(env, "OIDC_GOOGLE_REDIRECT_URI") /\ ProviderIsValid(env) -> "configured"
      [] OTHER -> "invalid"

\* ErrNoProvidersConfigured is not an error here.
AuthLoads(env) == SessionLoads(env) /\ Provider(env) # "invalid"

\* Unset, a service URL is the address of the process itself.
ServiceURL(env, n) ==
    CASE ~IsSet(env, n) -> "self" [] env[n] = "good" -> "remote" [] OTHER -> "invalid"

\* Without a URL the queues are disabled.
PrimindTasksLoads(env) == env["PRIMIND_TASKS_URL"] # "bad"
CloudTasksLoads(env) == \A n \in GCloudNames : IsSet(env, n)

\* The build decides which queue it is.
TaskQueueLoads(env) ==
    IF env["BUILD_TAGS"] = "gcloud" THEN CloudTasksLoads(env) ELSE PrimindTasksLoads(env)

TaskLoads(env) ==
    /\ ServiceURL(env, "AUTH_SERVICE_URL") # "invalid"
    /\ ServiceURL(env, "DEVICE_SERVICE_URL") # "invalid"
    /\ TaskQueueLoads(env)

DeviceLoads(env) == ServiceURL(env, "AUTH_SERVICE_URL") # "invalid"

=============================================================================
