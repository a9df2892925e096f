SPECIFICATION Spec
CONSTANTS
  Workflows <- TwoFlows
  Limit <- MainLimit
  ErrorOf <- WithError
  Execs = {1, 2, 3}
  Workers = {"w1"}
  Crashable = {}
  MaxCrashes = 0
  Kept = {"given"}
  Ops = {"delete", "retry"}
INVARIANTS
  ConcurrencyLimit
  ErrorRunsOnce
\* All executions settled and no row left to create.
CHECK_DEADLOCK FALSE
