SPECIFICATION Spec
CONSTANTS
  Workflows <- OneFlow
  Limit <- NoLimit1
  ErrorOf <- NoError
  Execs = {1}
  Workers = {"w1"}
  Crashable = {}
  MaxCrashes = 0
  Kept = {"given"}
  Ops = {"cancel"}
INVARIANTS
  CancelSticks
\* All executions settled and no row left to create.
CHECK_DEADLOCK FALSE
