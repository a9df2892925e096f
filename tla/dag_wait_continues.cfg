SPECIFICATION Spec
CONSTANTS
  Nodes <- WaitNodes
  EdgeSeq <- WaitEdges
  Ifs = {}
  Switches = {}
  Choices = {"true", "default"}
  Waits = {"w"}
  Sizes = {"inline", "spilled"}
  Retries = FALSE
  Execs = {1, 2}
INVARIANTS
  WaitContinues
\* Every execution ends.
CHECK_DEADLOCK FALSE
