---------------------------- MODULE MCConfiguration ----------------------------
(* A bare process, one that is deployed for production and one that sets a
   variable to nothing; .env files of a developer, of production, broken and
   doubled ones. *)
EXTENDS Configuration, TLC

CONSTANTS db, oidc

Line(k, v) == [key |-> k, value |-> v]
Production ==
  ("APP_PROFILE" :> "prod") @@ ("HTTP_ADDRESS" :> ":443") @@ ("OIDC_ISSUERS" :> {"https://issuer"})
    @@ ("OIDC_AUDIENCES" :> {"api"}) @@ ("GOOGLE_CLOUD_PROJECT" :> "project")
    @@ ("DATABASE_URL_SECRET_REF" :> db)

StartEnvironments ==
  {<<>>, Production, ("OIDC_CLIENT_SECRET_REF" :> "") @@ ("APP_ENV" :> "dev")}

EnvFiles ==
  {<<>>,
   <<Line("APP_PROFILE", "local"), Line("JWT_SECRET", "secret"), Line("OIDC_CLIENT_SECRET_REF", oidc)>>,
   <<Line("OIDC_CLIENT_SECRET_REF", oidc), Line("DATABASE_URL_SECRET_REF", db)>>,
   <<Line("APP_PROFILE", "test"), BadLine, Line("LOG_LEVEL", "LOUD")>>,
   <<Line("HTTP_REQUEST_TIMEOUT", "never"), Line("HTTP_REQUEST_TIMEOUT", "30s")>>,
   <<Line("GCS_BUCKET", "bucket"), Line("GCS_UNIFORM_BUCKET_LEVEL_ACCESS", "false")>>}
=============================================================================
