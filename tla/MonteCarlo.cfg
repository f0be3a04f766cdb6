CONSTANTS
  N_threads = 3
  N_MAX = 5
  Batch = 2
SPECIFICATION FairSpec
INVARIANTS
  Overshoot
  CountersAgree
  ReportIsFinal
PROPERTIES
  BudgetSpec
  EventuallyReports
