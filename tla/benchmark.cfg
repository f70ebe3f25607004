CONSTANTS
  Args <- CommandLines
  Outcomes <- RunOutcomes
  OldRows <- Leftovers
SPECIFICATION Spec
INVARIANTS TypeOK RawKeepsCompletedRuns SummaryFromRaw ExitTellsFailures
CHECK_DEADLOCK FALSE
