SPECIFICATION Spec
CONSTANTS
  db = "projects/p/secrets/db"
  oidc = "projects/p/secrets/oidc"
  Environments <- StartEnvironments
  Files <- EnvFiles
  Refs = {"projects/p/secrets/db", "projects/p/secrets/oidc"}
  Positive = {"30s", "10s", "1048576", "15m", "720h", "5s"}
  Whole = {"0", "3"}
  HttpsURLs = {"https://issuer"}
  BadLine = BadLine
  None = None
  MaxVersion = 2
CHECK_DEADLOCK FALSE

INVARIANTS EnvironmentWins ResolvedIsFresh
