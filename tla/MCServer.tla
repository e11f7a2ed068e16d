------------------------------ MODULE MCServer ------------------------------
(***************************************************************************)
(* Environments for model-checking Server: one that relies on the defaults,*)
(* one with all services elsewhere, one for Google Cloud, and the first    *)
(* and the last with one variable missing or wrong.                        *)
(***************************************************************************)
EXTENDS Server

Deployment(given, tags) ==
    [n \in Names \cup {"BUILD_TAGS"} |->
        IF n = "BUILD_TAGS" THEN tags ELSE IF n \in given THEN "good" ELSE "unset"]

OIDCRequired ==
    {"OIDC_GOOGLE_CLIENT_ID", "OIDC_GOOGLE_CLIENT_SECRET", "OIDC_GOOGLE_REDIRECT_URI"}
Required == {"POSTGRES_DSN", "SESSION_SECRET"} \cup OIDCRequired

Defaults == Deployment(Required, "unset")
Elsewhere == Deployment({"POSTGRES_DSN", "SESSION_SECRET", "AUTH_SERVICE_URL",
                         "DEVICE_SERVICE_URL", "PRIMIND_TASKS_URL"}, "unset")
GoogleCloud == Deployment(Required \cup GCloudNames, "gcloud")

With(e, n, value) == [e EXCEPT ![n] = value]

SomeEnvironments ==
    {Defaults, Elsewhere, GoogleCloud}
        \cup {With(Defaults, n, "unset") : n \in Required}
        \cup {With(Defaults, n, "bad") :
                n \in {"POSTGRES_DSN", "REDIS_DB", "SESSION_DURATION", "OIDC_GOOGLE_REDIRECT_URI",
                       "OIDC_GOOGLE_ISSUER_URL", "DEVICE_SERVICE_URL", "PRIMIND_TASKS_URL"}}
        \cup {With(Defaults, "SESSION_DURATION", "zero"),
              With(With(Defaults, "OIDC_GOOGLE_CLIENT_ID", "unset"), "OIDC_GOOGLE_SCOPES", "bad"),
              With(Elsewhere, "AUTH_SERVICE_URL", "bad"),
              With(GoogleCloud, "GCLOUD_PROJECT_ID", "unset"),
              With(GoogleCloud, "PRIMIND_TASKS_URL", "bad")}

=============================================================================
