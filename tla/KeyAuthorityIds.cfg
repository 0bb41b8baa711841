SPECIFICATION Spec
CONSTANTS
  Empty = Empty
  Callers = {a, b}
  Keys = {k1, k2}
  Scopes = {"github-deployment"}
  Learners = {l1}
  Skills = {s1, s2}
  Policies = {v1}
  Occasions = {o1}
  HolderScopes = {"present-credential", "issue-credential"}
  MaxTime = 0
CHECK_DEADLOCK FALSE

INVARIANTS BindsOneCredential
