SPECIFICATION FoundationSpec
CONSTANTS
  Emails = {e1}
  Packets = {p1}
  PersonaIds = {n1}
  Creators = {c1, c2}
  Companions = {k1}
  NoValue = noValue
  Calls = 3
  Crashes = 2
  Faults = 1
  CompanionIds = {a1}
  CreatorIds = {c1}
  TurnIds = {r1, r2, r3}
  HitCounts <- Hits
  MaxAffection = 10
  DefaultAffection = 5
  Unowned = unowned
  PayRequests = {r1, r2}
  MaxSessions = 2
  MaxAccounts = 2
  None = none
  Groups = {g1}
  Partitions = {part1}
  MaxMessages = 3
  MaxSubs = 2
  MaxStack = 4
  MaxSeen = 2
  KGroups = {g1}
  MaxSends = 1
  MaxTopic = 2
  MaxConsumers = 2
  MaxKills = 1
  NoOne = noOne
  Tasks = {t1, t2, t3}
  MaxNacks = 1
  Keys = {"k", "l"}
  Holders = {"a", "b"}
  Free = "free"
  Ttls = {0, 1}
  DefaultTtl = 2
  ClockBack = FALSE
  MaxNow = 4
  MaxToken = 2
  RKeys = {"q"}
  RHolders = {"x", "y"}
  RNobody = "nobody"
  RTtls = {1, 3}
  MaxClock = 3
  MaxIssued = 2
CHECK_DEADLOCK FALSE
INVARIANTS
  StoreSurvives
  TurnsAreCredited
  PayoutsAreEarned
  
  CommitsHold
  TasksKeepTheirPlace
  NoDoubleClaim
  StaleIsFenced
  LeaseIsHeld
PROPERTIES
  ImplementsContract
