SPECIFICATION Spec
CONSTANTS
  Root = root
  Zero = Zero
  Addresses = {root, c1}
  Delegates = {c1}
  Holders = {root, c1}
  Subjects = {s1}
  Credentials = {p1, p2, p3, x}
  Provable = {p1, p2, p3}
  Evidence = {e1}
  Programs = {g1}
  Skills = {k1, k2}
  Scopes = {"GitHubDeployment"}
  Expiries = {2}
  MaxTime = 2
CHECK_DEADLOCK FALSE

SYMMETRY Symmetry

INVARIANTS TypeOK IndexAgreesWithRecords OneActivePerSkill RecordsWellFormed QuerySurfacesAgree
INVARIANTS LineageLinksAgree LineageEnds

PROPERTIES HolderAuthorityConfined HistoryIsImmutable ImplementsLedger RetiredForGood
