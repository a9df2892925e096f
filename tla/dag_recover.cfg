SPECIFICATION FairSpec
CONSTANTS
  Nodes <- RecoverNodes
  EdgeSeq <- RecoverEdges
  Ifs = {}
  Switches = {}
  Choices = {"true", "default"}
  Waits = {"w"}
  Sizes = {"inline", "spilled"}
  Retries = TRUE
  Execs = {1, 2}
INVARIANTS
  ErrorsAreRouted
PROPERTIES
  DoneNeverReruns
  EverythingEnds
\* Every execution ends.
CHECK_DEADLOCK FALSE
