SPECIFICATION Spec
CONSTANTS
  Root = root
  Zero = Zero
  Addresses = {root, c1, h1}
  Delegates = {c1}
  Holders = {c1, h1}
  Subjects = {s1}
  Credentials = {p1}
  Provable = {p1}
  Evidence = {e1}
  Programs = {g1}
  Skills = {k1}
  Scopes = {"GitHubDeployment"}
  Expiries = {2}
  MaxTime = 1
CHECK_DEADLOCK FALSE

PROPERTIES RevokedStaysUnverifiable
