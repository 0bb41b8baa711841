SPECIFICATION ReportSpec
CONSTANTS
  Root = root
  Zero = Zero
  Addresses = {root, c1, h1, h2}
  Delegates = {c1}
  Holders = {h1, h2}
  Subjects = {s1}
  Skills = {k1}
  Programs = {g1, g2}
  Evidence = {e1}
  Projects = {j1, j2}
  j1 = j1
  j2 = j2
  Expiries = {2}
  MaxTime = 2
  Checks = {w}
  Texts = {"text", "quote"}
  Metrics = {"metric"}
  MaxSigned = 1
  Binding <- QuotedBinding
CHECK_DEADLOCK FALSE

SYMMETRY Symmetry

INVARIANTS ReportTypeOK ExportedWasSigned IndexAgreesWithRecords LineageWellFormed
PROPERTIES RetirementStopsReports ConfinedIssuance ImplementsLedger
