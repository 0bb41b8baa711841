SPECIFICATION FairDemoSpec
CONSTANTS
  Root = root
  Zero = Zero
  Child = c1
  Addresses = {root, c1, h1}
  Delegates = {c1}
  Holders = {h1}
  Subjects = {s1}
  Skills = {k1}
  Programs <- VersionedPrograms
  Evidence = {e1, e2}
  FirstEvidence = {e1}
  Projects = {}
  Expiries = {2}
  MaxTime = 1
  Expiry = 2
  Issues = {i}
  Upgrades = {u1, u2}
  Verifiers = {v}
CHECK_DEADLOCK FALSE


INVARIANTS IssueReportsWhatHolds UpgradeReportsItsOwn RetryUpgradesOnce SkillStaysInView

PROPERTIES CommandEnds
