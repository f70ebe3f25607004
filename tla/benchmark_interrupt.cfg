CONSTANTS
  Args <- CommandLines
  Outcomes <- RunOutcomes
  OldRows <- Leftovers
SPECIFICATION Spec
INVARIANT UpToDateIfInterrupted
CHECK_DEADLOCK FALSE
