SPECIFICATION FairSpec
CONSTANTS
  u1 = u1
  u2 = u2
  e1 = e1
  stock = stock
  scheduled = scheduled
  theirs = theirs
  Users = {u1, u2}
  Flows = {f1, f2}
  Versions = {v1}
  Docs = {stock, scheduled, theirs}
  Author <- Authors
  Cron <- Schedules
  Hook <- WebhookIds
  Nobody = nobody
  None = none
  KeyHolder = u2
  Requests = {r1, r2}
  Syncs = {s1, s2}
  MaxCalls = 4
  Contents = {c0, c1, c2}
  Empty = c0
  HistoryMax = 3
  MaxChanges = 4
  UserIds = {u1, u2, u3}
  Registered = {u1}
  Email0 <- FirstEmail
  Emails = {e1, e2}
  Keys = {k1}
  Tokens = {t1}
  Subs = {sub1}
  Tenants = {n1, n2, n3}
  MaxSent = 3
  NoOne = noOne
  PageRuns = {1, 2}
  NoRun = noRun
  Outcomes <- RunOutcomes
  Earlier = {"error"}
  MaxLeft = 1
CHECK_DEADLOCK FALSE
INVARIANTS
  RowsHoldTheirOwn
  RunsAreMeant
  UndoStartsHere
  CanvasIsTrue
  CallsAreLive
PROPERTIES
  TenantMovesOnlyInARace
  TasksFollow
