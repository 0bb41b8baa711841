SPECIFICATION Spec
CONSTANTS
  Root = root
  Zero = Zero
  Addresses = {root, c1}
  Delegates = {c1}
  Holders = {}
  Subjects = {s1, s2}
  Credentials = {p1}
  Provable = {p1}
  Evidence = {e1}
  Programs = {g1, g2}
  Skills = {k1,k2}
  Scopes = {"GitHubDeployment", "WebPage"}
  Expiries = {2, 3}
  MaxTime = 2
CHECK_DEADLOCK FALSE

SYMMETRY Symmetry

PROPERTIES ConfinedIssuance
