----------------------------- MODULE Configuration -----------------------------
(***************************************************************************)
(* internal/config: Load puts what the .env file adds into the process     *)
(* environment and reads the settings from there, and ResolveSecrets       *)
(* replaces references to secrets by their values, one after the other.    *)
(* Load may be called again, after an error or not, with a .env file that  *)
(* has been edited in the meantime; what an earlier call has put into the  *)
(* environment stays there.  Secrets are rotated at any time.              *)
(*                                                                         *)
(* A text is what it means: letter case, blanks and quotes that the code   *)
(* folds or trims are gone, a comma-separated list is the set of its       *)
(* items, and settings that are only copied are left out.                  *)
(*                                                                         *)
(* An operator whose comment begins with "Faulty:" is no part of the       *)
(* specification: it is the next operator with a programming error, kept   *)
(* to confirm that the properties would notice that error.                 *)
(***************************************************************************)
EXTENDS Naturals, Sequences

CONSTANTS Environments,  \* environments the process may start with
          Files,         \* contents of .env: sequences of lines
          Refs,          \* references to secrets
          Positive,      \* texts of positive durations and numbers
          Whole,         \* texts of integers
          HttpsURLs,     \* texts of https URLs with a host
          BadLine,       \* a line at which parseEnv stops: no "=", or no key
          None,
          MaxVersion     \* bound: versions of a secret

ASSUME FileAssumption == <<>> \in Files
ASSUME DefaultAssumption == {"30s", "10s", "1048576", "15m", "720h", "5s"} \subseteq Positive
                              /\ {"0", "3"} \subseteq Whole
ASSUME VersionAssumption == MaxVersion \in Nat

VARIABLES given,     \* the environment the process was started with
          env,       \* the environment now
          file,
          settings,  \* what the last Load that succeeded returned, or None
          resolved,  \* secret setting -> version it was replaced by, 0 if not
          stage,     \* where ResolveSecrets is, or how it ended
          versions,  \* reference -> newest version of its secret, 0 if there is none
          since      \* versions when ResolveSecrets was called

secretVars == <<resolved, stage, versions, since>>
vars == <<given, env, file, settings, secretVars>>

-----------------------------------------------------------------------------
(* The settings and their fallbacks. *)

Durations == {"HTTP_REQUEST_TIMEOUT", "HTTP_SHUTDOWN_TIMEOUT", "ACCESS_TOKEN_TTL",
              "REFRESH_TOKEN_TTL", "REDIS_TIMEOUT"}
WholeNumbers == {"REDIS_DB", "REDIS_MAX_RETRIES"}
Lists == {"OIDC_ISSUERS", "OIDC_AUDIENCES", "SERVICE_OIDC_ISSUERS"}
SecretKeys == {"DATABASE_URL_SECRET_REF", "OIDC_CLIENT_SECRET_REF"}
Keys == Durations \cup WholeNumbers \cup Lists \cup SecretKeys \cup
  {"APP_PROFILE", "HTTP_ADDRESS", "HTTP_BODY_LIMIT_BYTES", "LOG_LEVEL", "JWT_SECRET", "GCS_BUCKET",
   "GCS_UNIFORM_BUCKET_LEVEL_ACCESS", "GCS_CREDENTIALS", "GCP_PROJECT_ID", "PUBSUB_SUBSCRIPTION_ID"}

Alias(key) == CASE key = "APP_PROFILE" -> "APP_ENV"
                [] key = "GCP_PROJECT_ID" -> "GOOGLE_CLOUD_PROJECT"
                [] OTHER -> key

Default(key) ==
  CASE key = "APP_PROFILE" -> "local"
    [] key = "HTTP_ADDRESS" -> ":8080"
    [] key = "HTTP_REQUEST_TIMEOUT" -> "30s"
    [] key = "HTTP_SHUTDOWN_TIMEOUT" -> "10s"
    [] key = "HTTP_BODY_LIMIT_BYTES" -> "1048576"
    [] key = "ACCESS_TOKEN_TTL" -> "15m"
    [] key = "REFRESH_TOKEN_TTL" -> "720h"
    [] key = "REDIS_TIMEOUT" -> "5s"
    [] key = "REDIS_DB" -> "0"
    [] key = "REDIS_MAX_RETRIES" -> "3"
    [] key = "LOG_LEVEL" -> "INFO"
    [] key = "GCS_UNIFORM_BUCKET_LEVEL_ACCESS" -> "true"
    [] key = "PUBSUB_SUBSCRIPTION_ID" -> "content-uploaded-sub"
    [] key \in Lists -> {}
    [] OTHER -> ""

Get(e, key) == IF key \in DOMAIN e THEN e[key]
               ELSE IF Alias(key) \in DOMAIN e THEN e[Alias(key)]
               ELSE Default(key)

Parses(s) ==
  /\ \A key \in Durations \cup {"HTTP_BODY_LIMIT_BYTES"} : s[key] \in Positive
  /\ \A key \in WholeNumbers : s[key] \in Whole

ValidProduction(s) ==
  /\ s["OIDC_ISSUERS"] # {} /\ s["OIDC_AUDIENCES"] # {}
  /\ s["JWT_SECRET"] = "" /\ s["GCS_CREDENTIALS"] = ""
  /\ s["HTTP_ADDRESS"] # ":8080"
  /\ s["GCP_PROJECT_ID"] # "" /\ s["PUBSUB_SUBSCRIPTION_ID"] # ""

Validate(s) ==
  /\ s["APP_PROFILE"] \in {"local", "dev", "prod"}
  /\ s["HTTP_ADDRESS"] # ""
  /\ s["LOG_LEVEL"] \in {"DEBUG", "INFO", "WARN", "ERROR"}
  /\ s["OIDC_ISSUERS"] \cup s["SERVICE_OIDC_ISSUERS"] \subseteq HttpsURLs
  /\ s["GCS_BUCKET"] # "" => s["GCS_UNIFORM_BUCKET_LEVEL_ACCESS"] = "true"
  /\ s["APP_PROFILE"] = "prod" => ValidProduction(s)

-----------------------------------------------------------------------------
(* Load. *)

(* Faulty: takes a variable that is set to nothing for one that is not set. *)
MissesOrEmpty(e, key) == key \notin DOMAIN e \/ e[key] = ""
Misses(e, key) == key \notin DOMAIN e

(* The lines in front of the first bad one; parseEnv gets no further. *)
ReadLines(lines) ==
  CHOOSE n \in 0..Len(lines) :
    /\ \A i \in 1..n : lines[i] # BadLine
    /\ n < Len(lines) => lines[n + 1] = BadLine

(* The first lines have been set: what misses a value takes that of the first
   line about it. *)
ParseEnv(e, lines, count) ==
  LET read == 1..count
      added == {lines[i].key : i \in {j \in read : Misses(e, lines[j].key)}}
      First(key) == CHOOSE i \in read : lines[i].key = key /\ \A j \in 1..(i - 1) : lines[j].key # key
  IN [key \in DOMAIN e \cup added |-> IF key \in added THEN lines[First(key)].value ELSE e[key]]

Init ==
  /\ given \in Environments /\ env = given
  /\ file = <<>>
  /\ settings = None
  /\ resolved = [key \in SecretKeys |-> 0]
  /\ stage = "idle"
  /\ versions = [ref \in Refs |-> 0] /\ since = versions

Busy == stage \in SecretKeys

(* An error returns no configuration: the caller has what it had before.  The
   file may be one that cannot be opened, or read any further, and a variable
   one that cannot be set; what the lines in front have set stays set. *)
Load ==
  LET loaded == [key \in Keys |-> Get(env', key)] IN
  /\ ~Busy
  /\ \E count \in 0..ReadLines(file) :
       /\ env' = ParseEnv(env, file, count)
       /\ \/ /\ count = Len(file) /\ Parses(loaded) /\ Validate(loaded)
             /\ settings' = loaded
             /\ resolved' = [key \in SecretKeys |-> 0]
             /\ stage' = "idle"
          \/ UNCHANGED <<settings, resolved, stage>>
  /\ UNCHANGED <<given, file, versions, since>>

-----------------------------------------------------------------------------
(* ResolveSecrets. *)

CallResolve ==
  /\ ~Busy /\ settings # None
  /\ stage' = "DATABASE_URL_SECRET_REF"
  /\ since' = versions
  /\ UNCHANGED <<given, env, file, settings, resolved, versions>>

(* Faulty: does not ask again for what it has. *)
SkipsKnown(key) == settings[key] = "" \/ resolved[key] # 0
Skips(key) == settings[key] = ""

Found(ref) == ref \in Refs /\ versions[ref] # 0

(* A secret that is not there is an error, and any other may be. *)
Resolve(key) ==
  LET next == IF key = "DATABASE_URL_SECRET_REF" THEN "OIDC_CLIENT_SECRET_REF" ELSE "resolved" IN
  /\ stage = key
  /\ \/ Skips(key) /\ stage' = next /\ UNCHANGED resolved
     \/ /\ ~Skips(key) /\ Found(settings[key])
        /\ stage' = next
        /\ resolved' = [resolved EXCEPT ![key] = versions[settings[key]]]
     \/ ~Skips(key) /\ stage' = "failed" /\ UNCHANGED resolved
  /\ UNCHANGED <<given, env, file, settings, versions, since>>

(* The operator edits .env; the secret manager (external) has a new version. *)
EditFile ==
  /\ file' \in Files
  /\ UNCHANGED <<given, env, settings, secretVars>>

Rotate(ref) ==
  /\ versions[ref] < MaxVersion
  /\ versions' = [versions EXCEPT ![ref] = @ + 1]
  /\ UNCHANGED <<given, env, file, settings, resolved, stage, since>>

Next ==
  \/ Load
  \/ CallResolve
  \/ \E key \in SecretKeys : Resolve(key)
  \/ EditFile
  \/ \E ref \in Refs : Rotate(ref)

Spec == Init /\ [][Next]_vars

-----------------------------------------------------------------------------
(* What the process was started with decides, also where it is empty: no .env
   file, however often it is edited and read, changes a variable of the
   environment or the setting of that name. *)
EnvironmentWins ==
  \A key \in DOMAIN given :
    /\ env[key] = given[key]
    /\ settings # None /\ key \in Keys => settings[key] = given[key]

(* When ResolveSecrets succeeds, every reference that is configured has been
   replaced by a version no older than the call, although an earlier call may
   have failed halfway and secrets are rotated between the two look-ups. *)
ResolvedIsFresh ==
  stage = "resolved" =>
    \A key \in SecretKeys :
      IF settings[key] = "" THEN resolved[key] = 0
      ELSE resolved[key] >= since[settings[key]] /\ resolved[key] # 0
=============================================================================
