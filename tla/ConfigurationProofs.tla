--------------------------- MODULE ConfigurationProofs ---------------------------
(***************************************************************************)
(* Theorems about Configuration: for every environment, every sequence of  *)
(* .env files, and every rotation of the secrets.                          *)
(***************************************************************************)
EXTENDS Configuration, TLAPS

-----------------------------------------------------------------------------
(* What the process was started with. *)

GivenInv ==
  /\ DOMAIN given \subseteq DOMAIN env
  /\ EnvironmentWins

LEMMA ParseKeeps ==
  ASSUME NEW e, NEW lines, NEW count
  PROVE  /\ DOMAIN e \subseteq DOMAIN ParseEnv(e, lines, count)
         /\ \A key \in DOMAIN e : ParseEnv(e, lines, count)[key] = e[key]
<1> DEFINE read == 1..count
           added == {lines[i].key : i \in {j \in read : Misses(e, lines[j].key)}}
           First(key) == CHOOSE i \in read : lines[i].key = key /\ \A j \in 1..(i - 1) : lines[j].key # key
<1>1. ParseEnv(e, lines, count) =
        [key \in DOMAIN e \cup added |-> IF key \in added THEN lines[First(key)].value ELSE e[key]]
  BY DEF ParseEnv
<1>2. \A key \in added : key \notin DOMAIN e
  BY DEF Misses
<1> HIDE DEF added, First
<1>3. QED
  BY <1>1, <1>2

LEMMA LoadKeepsGiven ==
  ASSUME GivenInv, Load
  PROVE  GivenInv'
<1>1. given' = given /\ \E count : env' = ParseEnv(env, file, count)
  BY DEF Load
<1>2. DOMAIN given \subseteq DOMAIN env' /\ \A key \in DOMAIN given : env'[key] = given[key]
  BY <1>1, ParseKeeps DEF GivenInv, EnvironmentWins
<1>3. settings' = [key \in Keys |-> Get(env', key)] \/ settings' = settings
  BY DEF Load
<1>4. \A key \in DOMAIN given : Get(env', key) = given[key]
  BY <1>2 DEF Get
<1>5. \A key \in DOMAIN given : settings' # None /\ key \in Keys => settings'[key] = given[key]
  BY <1>3, <1>4 DEF GivenInv, EnvironmentWins
<1>6. QED
  BY <1>1, <1>2, <1>5 DEF GivenInv, EnvironmentWins

LEMMA GivenInductive == GivenInv /\ [Next]_vars => GivenInv'
<1> SUFFICES ASSUME GivenInv, [Next]_vars PROVE GivenInv'
  OBVIOUS
<1>1. CASE UNCHANGED <<given, env, settings>>
  BY <1>1 DEF GivenInv, EnvironmentWins
<1>2. CASE ~Load
  BY <1>1, <1>2 DEF Next, CallResolve, Resolve, EditFile, Rotate, vars
<1>3. QED
  BY <1>2, LoadKeepsGiven

(* No .env file, however often it is edited and read, changes a variable that
   the process was started with or the setting of that name (parseEnv). *)
THEOREM EnvironmentDecides == Spec => []EnvironmentWins
<1>1. Init => GivenInv
  BY DEF Init, GivenInv, EnvironmentWins
<1>2. GivenInv => EnvironmentWins
  BY DEF GivenInv
<1>3. QED
  BY <1>1, <1>2, GivenInductive, PTL DEF Spec

-----------------------------------------------------------------------------
(* The secrets. *)

Fresh(key) ==
  IF settings[key] = "" THEN resolved[key] = 0
  ELSE settings[key] \in Refs /\ resolved[key] >= since[settings[key]] /\ resolved[key] # 0

(* A setting that names no secret has none, versions only grow, and what the
   running call has passed it has resolved afresh. *)
SecretInv ==
  /\ stage \in {"idle", "resolved", "failed"} \cup SecretKeys
  /\ versions \in [Refs -> Nat] /\ since \in [Refs -> Nat] /\ resolved \in [SecretKeys -> Nat]
  /\ \A ref \in Refs : versions[ref] >= since[ref]
  /\ settings = None => stage = "idle"
  /\ \A key \in SecretKeys : settings = None \/ settings[key] = "" => resolved[key] = 0
  /\ stage \in {"OIDC_CLIENT_SECRET_REF", "resolved"} => Fresh("DATABASE_URL_SECRET_REF")
  /\ stage = "resolved" => Fresh("OIDC_CLIENT_SECRET_REF")

LEMMA SecretInitial == Init => SecretInv
BY DEF Init, SecretInv, SecretKeys

LEMMA ResolveKeeps ==
  ASSUME SecretInv, NEW key \in SecretKeys, Resolve(key)
  PROVE  SecretInv'
<1> DEFINE next == IF key = "DATABASE_URL_SECRET_REF" THEN "OIDC_CLIENT_SECRET_REF" ELSE "resolved"
<1>1. stage = key /\ UNCHANGED <<settings, versions, since>>
  BY DEF Resolve
<1>2. CASE stage' = "failed" /\ UNCHANGED resolved
  BY <1>1, <1>2 DEF SecretInv, SecretKeys
<1>3. CASE stage' = next /\ settings[key] = "" /\ UNCHANGED resolved
  <2>1. Fresh(key)' /\ \A other \in SecretKeys : Fresh(other) => Fresh(other)'
    BY <1>1, <1>3 DEF SecretInv, Fresh
  <2>2. QED
    BY <1>1, <1>3, <2>1 DEF SecretInv, SecretKeys
<1>4. CASE /\ stage' = next /\ settings[key] # "" /\ settings[key] \in Refs /\ versions[settings[key]] # 0
           /\ resolved' = [resolved EXCEPT ![key] = versions[settings[key]]]
  <2>1. versions[settings[key]] \in Nat /\ versions[settings[key]] >= since[settings[key]]
    BY <1>4 DEF SecretInv
  <2>2. /\ resolved' \in [SecretKeys -> Nat] /\ resolved'[key] = versions[settings[key]]
        /\ \A other \in SecretKeys \ {key} : resolved'[other] = resolved[other]
    BY <1>4, <2>1 DEF SecretInv
  <2>3. Fresh(key)' /\ \A other \in SecretKeys \ {key} : Fresh(other) => Fresh(other)'
    BY <1>1, <1>4, <2>1, <2>2 DEF Fresh
  <2>4. QED
    BY <1>1, <1>4, <2>2, <2>3 DEF SecretInv, SecretKeys
<1>5. QED
  BY <1>2, <1>3, <1>4 DEF Resolve, Skips, Found

LEMMA SecretInductive == SecretInv /\ [Next]_vars => SecretInv'
<1> SUFFICES ASSUME SecretInv, [Next]_vars PROVE SecretInv'
  OBVIOUS
<1>1. /\ versions \in [Refs -> Nat] /\ since \in [Refs -> Nat]
      /\ \A ref \in Refs : versions[ref] >= since[ref]
  BY DEF SecretInv
<1>2. CASE Load
  <2>1. CASE UNCHANGED <<settings, resolved, stage>>
    BY <1>2, <2>1 DEF SecretInv, Fresh, Load
  <2>2. CASE resolved' = [key \in SecretKeys |-> 0] /\ stage' = "idle"
    BY <1>2, <2>2 DEF SecretInv, SecretKeys, Load
  <2>3. QED
    BY <1>2, <2>1, <2>2 DEF Load
<1>3. CASE CallResolve
  <2>1. /\ stage' = "DATABASE_URL_SECRET_REF" /\ since' = versions
        /\ settings # None /\ UNCHANGED <<settings, resolved, versions>>
    BY <1>3 DEF CallResolve
  <2>2. \A ref \in Refs : versions[ref] >= versions[ref]
    BY <1>1
  <2>3. stage' \in SecretKeys /\ stage' \notin {"OIDC_CLIENT_SECRET_REF", "resolved"}
    BY <2>1 DEF SecretKeys
  <2>4. QED
    BY <2>1, <2>2, <2>3 DEF SecretInv
<1>4. ASSUME NEW key \in SecretKeys, Resolve(key) PROVE SecretInv'
  BY <1>4, ResolveKeeps
<1>5. CASE EditFile \/ UNCHANGED vars
  BY <1>5 DEF SecretInv, Fresh, EditFile, vars, secretVars
<1>6. ASSUME NEW ref \in Refs, Rotate(ref) PROVE SecretInv'
  <2>1. versions' = [versions EXCEPT ![ref] = @ + 1] /\ UNCHANGED <<settings, resolved, stage, since>>
    BY <1>6 DEF Rotate
  <2>2. versions' \in [Refs -> Nat] /\ \A other \in Refs : versions'[other] >= versions[other]
    BY <1>1, <2>1
  <2>3. \A other \in Refs : versions'[other] >= since[other]
    BY <1>1, <2>2
  <2>4. \A key : Fresh(key)' = Fresh(key)
    BY <2>1 DEF Fresh
  <2>5. QED
    BY <2>1, <2>2, <2>3, <2>4 DEF SecretInv
<1>7. QED
  BY <1>2, <1>3, <1>4, <1>5, <1>6 DEF Next

(* After ResolveSecrets every configured reference is replaced, by a version
   no older than the call, whatever an earlier call left behind and whenever
   the secrets are rotated (ResolveSecrets). *)
THEOREM SecretsAreFresh == Spec => []ResolvedIsFresh
<1>1. SecretInv => ResolvedIsFresh
  BY DEF SecretInv, ResolvedIsFresh, Fresh, SecretKeys
<1>2. QED
  BY <1>1, SecretInitial, SecretInductive, PTL DEF Spec

=============================================================================
