SPECIFICATION AttestSpec
CONSTANTS
  Readmes <- Texts
  Words = {"intro", "usage"}
  MaxRuns = 3
CHECK_DEADLOCK FALSE

INVARIANTS BadgeIsBacked SuccessAgrees AuthorsTextIsKept UnusableRunChangesNothing
