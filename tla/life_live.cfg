SPECIFICATION FairSpec
CONSTANTS
  Workflows <- OneFlow
  Limit <- LimitOne
  ErrorOf <- NoError
  Execs = {1, 2}
  Workers = {"w1", "w2"}
  Crashable = {"w1"}
  MaxCrashes = 2
  Kept = {"given"}
  Ops = {}
PROPERTIES
  EveryJobEnds
\* All executions settled and no row left to create.
CHECK_DEADLOCK FALSE
