SPECIFICATION Spec
CONSTANTS
  Inputs <- Asked
  Results <- Reports
  Weight <- Weights
  Wired = {"APEX", "DREAM", "VISION", "HOPE"}
  MaxDispatches = 4
  RateLimit = 2
  Primes = {"ann", "bob", "cid"}
  First = "ann"
  MaxRecords = 3
  Ips = {"i"}
  GateTenants = {"demo", "t"}
  Limits <- HitLimits
  Window = 2
  SweepAbove = 1
  SessionTtl = 1
  MaxOccurrences = 2
  Plans <- Tiers
  Unlimited = Unlimited
  Unset = Unset
  GateRequests <- Requests
  EventSeqs <- Events
  MaxHits = 4
  MaxCheckouts = 1
  MaxClock = 3
  MaxConcurrent = 1
  MaxBoxes = 2
  MaxRuns = 2
CHECK_DEADLOCK FALSE
INVARIANTS
  GateHolds
  CommandIsTold
  LimitsHold
  SessionsAreAccounted
PROPERTIES
  StillWhileFrozen
  NeverUndone
