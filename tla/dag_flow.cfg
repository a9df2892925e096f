SPECIFICATION Spec
CONSTANTS
  Nodes <- FlowNodes
  EdgeSeq <- FlowEdges
  Ifs = {"i"}
  Switches = {}
  Choices = {"true", "false", "default"}
  Waits = {}
  Sizes = {"inline", "spilled"}
  Retries = FALSE
  Execs = {1}
INVARIANTS
  TypeOK
  JoinWaits
  InputsFromParents
  SuccessIsWhole
PROPERTIES
  TakenOnce
\* Every execution ends.
CHECK_DEADLOCK FALSE
