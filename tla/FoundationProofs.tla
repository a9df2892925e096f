-------------------------- MODULE FoundationProofs --------------------------
(* Theorems of services of hdv-foundation that share no state: Vision's
   sandboxes, the creator's payouts, the companion's turns, the task router, the
   Kafka queue, the task broker, the durable store. *)
EXTENDS Sandboxes, CreatorPayouts, CompanionTurns, PriorityRouter, KafkaQueue,
        TaskBroker, DurableStore, FiniteSetTheorems, SequenceTheorems, TLAPS

-----------------------------------------------------------------------------
(* Sandboxes: what a session alone must satisfy, the engine's sessions, the cap. *)
Account == [runs : Nat, timeouts : Nat, killed : BOOLEAN]
Box == [real : BOOLEAN, by : {"manager", "caller", "engine"}, status : {"created", "running", "stopped"},
        own : Account, handle : BOOLEAN, seen : Account, ended : BOOLEAN,
        slot : BOOLEAN, docker : BOOLEAN, astray : BOOLEAN]

Sound(b) ==
  /\ b \in Box
  /\ b.slot <=> b.by = "manager" /\ b.status # "stopped"
  /\ b.seen = b.own
  /\ b.own.killed <=> b.own.timeouts > 0
  /\ b.own.killed => b.status = "stopped"
  /\ b.ended <=> b.status = "stopped"
  /\ b.docker => b.real /\ b.handle /\ b.status = "running"

SandboxInv ==
  /\ boxes \in Seq(Box)
  /\ \A i \in DOMAIN boxes : Sound(boxes[i])
  /\ \A i \in DOMAIN boxes : boxes[i].by = "engine" /\ boxes[i].status # "stopped" =>
        boxes[i].real /\ "launch" \in strays
  /\ SlotsTaken <= MaxConcurrent

Holders(all) == {i \in DOMAIN all : all[i].slot}
LEMMA HoldersAreFinite ==
    ASSUME NEW all \in Seq(Box) PROVE IsFiniteSet(Holders(all)) /\ Cardinality(Holders(all)) \in Nat
<1>1. DOMAIN all = 1..Len(all) /\ Len(all) \in Nat
  OBVIOUS
<1>2. IsFiniteSet(DOMAIN all)
  BY <1>1, FS_Interval
<1>3. IsFiniteSet(Holders(all))
  BY <1>2, FS_Subset DEF Holders
<1> QED BY <1>3, FS_CardinalityType

LEMMA SlotsCounted ==
    /\ SlotsTaken = Cardinality(Holders(boxes))
    /\ SlotsTaken' = Cardinality(Holders(boxes'))
BY DEF SlotsTaken, Holders

\* What one session may become in a step of its own.
Becomes(b, c) ==
  /\ Sound(c) /\ (c.slot => b.slot) /\ c.by = b.by /\ c.real = b.real
  /\ b.status = "stopped" => c.status = "stopped" /\ c.own = b.own /\ c.seen = b.seen /\ ~c.slot

LEMMA StartedIsSound ==
    ASSUME NEW b, Sound(b), b.status = "created", NEW launch
    PROVE  Becomes(b, Started(b, launch))
<1>1. b \in Box
  BY DEF Sound
<1>2. CASE ~b.real \/ launch = "ok"
  <2>1. Started(b, launch) = [b EXCEPT !.status = "running", !.handle = b.real, !.docker = b.real]
    BY <1>2 DEF Started
  <2> QED BY <1>1, <2>1 DEF Becomes, Sound, Box
<1>3. CASE b.real /\ launch # "ok"
  <2>1. Started(b, launch) = [b EXCEPT !.astray = b.astray \/ launch = "late"]
    BY <1>3 DEF Started
  <2>2. (b.astray \/ launch = "late") \in BOOLEAN
    OBVIOUS
  <2> QED BY <1>1, <2>1, <2>2 DEF Becomes, Sound, Box
<1> QED BY <1>2, <1>3, <1>1 DEF Box

LEMMA NotedIsSound ==
    ASSUME NEW b, Sound(b), ~b.own.killed, NEW timedOut \in BOOLEAN
    PROVE  /\ Noted(b.own, timedOut) \in Account
           /\ Noted(b.own, timedOut).killed <=> timedOut
           /\ Noted(b.own, timedOut).timeouts > 0 <=> timedOut
<1> DEFINE u == b.own
<1>1. u \in Account /\ ~u.killed /\ ~(u.timeouts > 0)
  BY DEF Sound, Box
<1> HIDE DEF u
<1>2. CASE timedOut
  <2>1. Noted(u, timedOut) = [u EXCEPT !.runs = u.runs + 1, !.timeouts = u.timeouts + 1, !.killed = TRUE]
    BY <1>2, <1>1 DEF Noted, Account
  <2>2. u.timeouts + 1 \in Nat /\ u.timeouts + 1 > 0 /\ u.runs + 1 \in Nat
    BY <1>1 DEF Account
  <2> QED BY <1>1, <1>2, <2>1, <2>2 DEF u, Account
<1>3. CASE ~timedOut
  <2>1. Noted(u, timedOut) = [u EXCEPT !.runs = u.runs + 1]
    BY <1>3, <1>1 DEF Noted, Account
  <2> QED BY <1>1, <1>3, <2>1 DEF u, Account
<1> QED BY <1>2, <1>3

LEMMA StoppedIsSound ==
    ASSUME NEW b \in Box, b.seen = b.own, b.own.killed <=> b.own.timeouts > 0,
           b.status = "stopped" => Sound(b), NEW removed \in BOOLEAN
    PROVE  Sound(Stopped(b, removed)) /\ Stopped(b, removed).status = "stopped" /\ Stopped(b, removed).by = b.by
           /\ Stopped(b, removed).real = b.real
BY DEF Sound, Box, Account, Stopped

LEMMA RanIsSound ==
    ASSUME NEW b, Sound(b), b.status = "running", NEW outcome, NEW removed \in BOOLEAN
    PROVE  Becomes(b, Ran(b, outcome, removed))
<1>1. b \in Box /\ ~b.own.killed /\ b.seen = b.own
  BY DEF Sound
<1>2. CASE outcome = "slow"
  <2> DEFINE c == account(b, TRUE)
  <2>1. c \in Box /\ c.seen = c.own /\ (c.own.killed <=> c.own.timeouts > 0) /\ c.status = "running" /\ c.by = b.by
        /\ c.real = b.real
    BY <1>1, NotedIsSound DEF account, Box
  <2>2. Sound(Stopped(c, removed)) /\ Stopped(c, removed).status = "stopped" /\ Stopped(c, removed).by = c.by
        /\ Stopped(c, removed).real = c.real
    BY <2>1, StoppedIsSound
  <2>3. ~Stopped(c, removed).slot
    BY <2>2 DEF Sound
  <2> QED BY <1>2, <2>1, <2>2, <2>3 DEF Becomes, Ran, Killed
<1>3. CASE outcome # "slow"
  <2> DEFINE c == account(b, FALSE)
  <2>1. c \in Box /\ c.seen = c.own /\ ~c.own.killed /\ ~(c.own.timeouts > 0)
    BY <1>1, NotedIsSound DEF account, Box
  <2>2. c = [b EXCEPT !.own = Noted(b.own, FALSE), !.seen = Noted(b.own, FALSE)]
    BY <1>1 DEF account
  <2>3. /\ c.status = b.status /\ c.by = b.by /\ c.real = b.real /\ c.handle = b.handle
        /\ c.docker = b.docker /\ c.slot = b.slot /\ c.ended = b.ended
    BY <1>1, <2>2 DEF Box
  <2> QED BY <1>3, <2>1, <2>3 DEF Becomes, Ran, Sound
<1> QED BY <1>2, <1>3

\* A session in place of another of the same history.
LEMMA StepKeeps ==
    ASSUME SandboxInv, NEW i \in DOMAIN boxes, NEW b, Becomes(boxes[i], b), Step(i, b)
    PROVE  SandboxInv' /\ StoppedIsFinal
<1>1. boxes' = [boxes EXCEPT ![i] = b] /\ strays' = strays /\ b \in Box
  BY DEF Step, Becomes, Sound
<1>2. boxes \in Seq(Box) /\ boxes' \in Seq(Box) /\ DOMAIN boxes' = DOMAIN boxes
  BY <1>1 DEF SandboxInv
<1>3. boxes'[i] = b /\ \A j \in DOMAIN boxes : j # i => boxes'[j] = boxes[j]
  BY <1>1, <1>2
<1>4. \A j \in DOMAIN boxes' : Sound(boxes'[j])
  BY <1>2, <1>3 DEF SandboxInv, Becomes
<1>5. \A j \in DOMAIN boxes : Becomes(boxes[j], boxes'[j])
  BY <1>2, <1>3, <1>4 DEF Becomes, SandboxInv, Sound
<1>6. Holders(boxes') \subseteq Holders(boxes)
  BY <1>2, <1>5 DEF Holders, Becomes
<1>7. SlotsTaken' <= SlotsTaken
  BY <1>2, <1>6, HoldersAreFinite, SlotsCounted, FS_Subset
<1>8. SlotsTaken' <= MaxConcurrent
  BY <1>2, <1>7, HoldersAreFinite, SlotsCounted, SandboxAssumption DEF SandboxInv
<1>9. \A j \in DOMAIN boxes' : boxes'[j].by = "engine" /\ boxes'[j].status # "stopped" =>
          boxes'[j].real /\ "launch" \in strays'
  BY <1>1, <1>2, <1>5 DEF SandboxInv, Becomes, Sound, Box
<1>10. StoppedIsFinal
  BY <1>2, <1>5 DEF StoppedIsFinal, Becomes
<1> QED BY <1>2, <1>4, <1>8, <1>9, <1>10 DEF SandboxInv

\* One more session, which takes a slot only below the cap.
LEMMA AddKeeps ==
    ASSUME SandboxInv, NEW b, Sound(b), Add(b), strays \subseteq strays',
           b.slot => SlotsTaken < MaxConcurrent,
           b.by = "engine" /\ b.status # "stopped" => b.real /\ "launch" \in strays'
    PROVE  SandboxInv' /\ StoppedIsFinal
<1>1. boxes' = Append(boxes, b) /\ boxes \in Seq(Box) /\ b \in Box
  BY DEF Add, SandboxInv, Sound
<1>2. PICK n \in Nat : n = Len(boxes) + 1
  BY <1>1
<1>3. /\ boxes' \in Seq(Box) /\ DOMAIN boxes = 1..(n - 1) /\ DOMAIN boxes' = 1..n /\ n \in DOMAIN boxes'
      /\ boxes'[n] = b /\ \A j \in DOMAIN boxes : boxes'[j] = boxes[j]
  BY <1>1, <1>2
<1>4. \A j : j \in DOMAIN boxes' <=> j \in DOMAIN boxes \/ j = n
  BY <1>2, <1>3
<1>5. \A j \in DOMAIN boxes' : Sound(boxes'[j])
  BY <1>3, <1>4 DEF SandboxInv
<1>6. \A j \in DOMAIN boxes' : boxes'[j].by = "engine" /\ boxes'[j].status # "stopped" =>
          boxes'[j].real /\ "launch" \in strays'
  BY <1>3, <1>4 DEF SandboxInv
<1>7. SlotsTaken' <= MaxConcurrent
  <2>1. CASE b.slot
    <3>1. Holders(boxes') = Holders(boxes) \cup {n}
      BY <1>3, <1>4, <2>1 DEF Holders
    <3>2. PICK held \in Nat : held = Cardinality(Holders(boxes))
      BY <1>1, HoldersAreFinite
    <3>3. n \notin Holders(boxes) /\ IsFiniteSet(Holders(boxes))
      BY <1>1, <1>2, <1>3, HoldersAreFinite DEF Holders
    <3>4. Cardinality(Holders(boxes')) = held + 1
      BY <3>1, <3>2, <3>3, FS_AddElement
    <3>5. held < MaxConcurrent
      BY <2>1, <3>2, SlotsCounted
    <3> QED BY <3>2, <3>4, <3>5, SlotsCounted, SandboxAssumption
  <2>2. CASE ~b.slot
    <3>1. Holders(boxes') = Holders(boxes)
      BY <1>3, <1>4, <2>2 DEF Holders
    <3> QED BY <3>1, SlotsCounted DEF SandboxInv
  <2> QED BY <2>1, <2>2
<1>8. StoppedIsFinal
  BY <1>3, <1>4 DEF StoppedIsFinal, SandboxInv, Sound
<1> QED BY <1>3, <1>5, <1>6, <1>7, <1>8 DEF SandboxInv

LEMMA NewIsSound ==
    ASSUME NEW real \in BOOLEAN, NEW by \in {"manager", "caller", "engine"}
    PROVE  /\ Sound(NewBox(real, by)) /\ NewBox(real, by).status = "created"
           /\ NewBox(real, by).by = by /\ NewBox(real, by).real = real
           /\ NewBox(real, by).slot <=> by = "manager"
<1> DEFINE b == NewBox(real, by)
<1>1. Usage \in Account /\ ~Usage.killed /\ Usage.timeouts = 0
  BY DEF Usage, Account
<1>2. CASE by = "manager"
  <2>1. b = [real |-> real, by |-> by, status |-> "created", own |-> Usage, handle |-> FALSE,
             seen |-> Usage, ended |-> FALSE, slot |-> TRUE, docker |-> FALSE, astray |-> FALSE]
    BY <1>2 DEF NewBox
  <2>2. b \in Box
    BY <1>1, <2>1 DEF Box
  <2>3. /\ b.real = real /\ b.by = by /\ b.status = "created" /\ b.slot = TRUE /\ b.own = Usage /\ b.seen = Usage
        /\ b.ended = FALSE /\ b.docker = FALSE
    BY <2>1
  <2> HIDE DEF b
  <2>4. Sound(b)
    BY <1>1, <1>2, <2>2, <2>3 DEF Sound
  <2> QED BY <1>2, <2>3, <2>4 DEF b
<1>3. CASE by # "manager"
  <2>1. b = [real |-> real, by |-> by, status |-> "created", own |-> Usage, handle |-> FALSE,
             seen |-> Usage, ended |-> FALSE, slot |-> FALSE, docker |-> FALSE, astray |-> FALSE]
    BY <1>3 DEF NewBox
  <2>2. b \in Box
    BY <1>1, <2>1 DEF Box
  <2>3. /\ b.real = real /\ b.by = by /\ b.status = "created" /\ b.slot = FALSE /\ b.own = Usage /\ b.seen = Usage
        /\ b.ended = FALSE /\ b.docker = FALSE
    BY <2>1
  <2> HIDE DEF b
  <2>4. Sound(b)
    BY <1>1, <1>3, <2>2, <2>3 DEF Sound
  <2> QED BY <1>3, <2>3, <2>4 DEF b
<1> QED BY <1>2, <1>3

\* The tools of an execution leave its session stopped, its account closed.
LEMMA ReportIsSound ==
    ASSUME NEW real \in BOOLEAN, NEW tool, NEW removed \in BOOLEAN
    PROVE  LET b == Report(Started(NewBox(real, "engine"), "ok"), tool, removed) IN
             Sound(b) /\ b.status = "stopped" /\ ~b.slot
<1> DEFINE begun == Started(NewBox(real, "engine"), "ok")
<1>1. Sound(begun) /\ begun.status = "running"
  <2>1. Becomes(NewBox(real, "engine"), begun)
    BY NewIsSound, StartedIsSound
  <2>2. begun.status = "running"
    BY DEF Started, NewBox
  <2> QED BY <2>1, <2>2 DEF Becomes
<1> HIDE DEF begun
<1> DEFINE done == IF tool = "unknown" THEN begun ELSE Ran(begun, tool, removed)
<1>2. Sound(done)
  BY <1>1, RanIsSound DEF Becomes
<1> HIDE DEF done
<1>3. Sound(Stopped(done, removed)) /\ Stopped(done, removed).status = "stopped"
  BY <1>2, StoppedIsSound DEF Sound
<1>4. ~Stopped(done, removed).slot
  BY <1>3 DEF Sound
<1> QED BY <1>3, <1>4 DEF Report, begun, done

LEMMA SandboxStep == SandboxInv /\ [SandboxNext]_sandboxVars => SandboxInv' /\ [StoppedIsFinal]_sandboxVars
<1> SUFFICES ASSUME SandboxInv, [SandboxNext]_sandboxVars PROVE SandboxInv' /\ [StoppedIsFinal]_sandboxVars
  OBVIOUS
<1>0. \A i \in DOMAIN boxes : Sound(boxes[i]) /\ boxes[i] \in Box
  BY DEF SandboxInv, Sound
<1>1. CASE create
  <2>1. CASE UNCHANGED <<boxes, strays>>
    BY <2>1 DEF SandboxInv, SlotsTaken, StoppedIsFinal, Sound
  <2>2. CASE SlotsTaken < MaxConcurrent /\ Add(NewBox(FALSE, "manager")) /\ UNCHANGED strays
    BY <2>2, NewIsSound, AddKeeps
  <2> QED BY <1>1, <2>1, <2>2 DEF create
<1>2. ASSUME NEW real \in BOOLEAN, createSandboxSession(real) PROVE SandboxInv' /\ StoppedIsFinal
  <2>1. Sound(NewBox(real, "caller")) /\ ~NewBox(real, "caller").slot /\ NewBox(real, "caller").by = "caller"
    BY NewIsSound
  <2> QED BY <1>2, <2>1, AddKeeps DEF createSandboxSession
<1>3. CASE execute
  <2>1. CASE UNCHANGED boxes /\ Leaves("persona")
    BY <2>1 DEF SandboxInv, SlotsTaken, StoppedIsFinal, Sound, Leaves
  <2>2. ASSUME NEW launch, Add(Started(NewBox(TRUE, "engine"), launch)), Leaves("launch")
        PROVE  SandboxInv' /\ StoppedIsFinal
    <3> DEFINE b == Started(NewBox(TRUE, "engine"), launch)
    <3>1. Becomes(NewBox(TRUE, "engine"), b)
      BY NewIsSound, StartedIsSound
    <3>2. Sound(b) /\ b.real /\ ~b.slot
      BY <3>1, NewIsSound DEF Becomes
    <3>3. strays \subseteq strays' /\ "launch" \in strays'
      BY <2>2 DEF Leaves
    <3> QED BY <2>2, <3>2, <3>3, AddKeeps
  <2>3. ASSUME NEW real \in BOOLEAN, NEW tool, NEW removed \in BOOLEAN, UNCHANGED strays,
               Add(Report(Started(NewBox(real, "engine"), "ok"), tool, removed))
        PROVE  SandboxInv' /\ StoppedIsFinal
    BY <2>3, ReportIsSound, AddKeeps
  <2> QED BY <1>3, <2>1, <2>2, <2>3 DEF execute
<1>4. ASSUME NEW i \in DOMAIN boxes, start(i) PROVE SandboxInv' /\ StoppedIsFinal
  <2>1. PICK launch : Step(i, Started(boxes[i], launch))
    BY <1>4 DEF start
  <2> QED BY <1>0, <1>4, <2>1, StartedIsSound, StepKeeps DEF start
<1>5. ASSUME NEW i \in DOMAIN boxes, run(i) PROVE SandboxInv' /\ StoppedIsFinal
  <2>1. PICK outcome \in Outcomes, removed \in BOOLEAN : Step(i, Ran(boxes[i], outcome, removed))
    BY <1>5 DEF run
  <2> QED BY <1>0, <1>5, <2>1, RanIsSound, StepKeeps DEF run
<1>6. ASSUME NEW i \in DOMAIN boxes, stop(i) PROVE SandboxInv' /\ StoppedIsFinal
  <2>1. PICK removed \in BOOLEAN : Step(i, Stopped(boxes[i], removed))
    BY <1>6 DEF stop
  <2>2. Sound(Stopped(boxes[i], removed)) /\ Stopped(boxes[i], removed).status = "stopped"
        /\ Stopped(boxes[i], removed).by = boxes[i].by /\ Stopped(boxes[i], removed).real = boxes[i].real
    BY <1>0, StoppedIsSound DEF Sound
  <2>3. Becomes(boxes[i], Stopped(boxes[i], removed))
    BY <1>6, <2>2 DEF Becomes, Sound, stop
  <2> QED BY <2>1, <2>3, StepKeeps
<1>7. ASSUME NEW i \in DOMAIN boxes, KeepAliveEnds(i) PROVE SandboxInv' /\ StoppedIsFinal
  <2>1. PICK b : Step(i, b) /\ (b = [boxes[i] EXCEPT !.docker = FALSE] \/ b = [boxes[i] EXCEPT !.astray = FALSE])
    BY <1>7 DEF KeepAliveEnds
  <2>2. Becomes(boxes[i], b)
    BY <1>0, <2>1 DEF Becomes, Sound, Box
  <2> QED BY <2>1, <2>2, StepKeeps
<1>8. CASE UNCHANGED sandboxVars
  BY <1>8 DEF sandboxVars, SandboxInv, SlotsTaken, Sound
<1> QED BY <1>1, <1>2, <1>3, <1>4, <1>5, <1>6, <1>7, <1>8 DEF SandboxNext

LEMMA SandboxHolds == SandboxSpec => []SandboxInv
<1>1. SandboxInit => SandboxInv
  <2> SUFFICES ASSUME SandboxInit PROVE SandboxInv
    OBVIOUS
  <2>1. boxes \in Seq(Box) /\ DOMAIN boxes = {} /\ Holders(boxes) = {}
    BY DEF SandboxInit, Holders
  <2> QED BY <2>1, FS_EmptySet, SlotsCounted, SandboxAssumption DEF SandboxInv
<1> QED BY <1>1, SandboxStep, PTL DEF SandboxSpec

\* However the sessions of Vision end, the manager's slots are its sessions that
\* are not over and never exceed its cap, the monitor's account is the session's,
\* a container nobody lost sight of has a running session, and an execution
\* leaves its session open only if the launch threw (sandbox manager, monitor,
\* gVisor sessions and engine of hdv-foundation/vision).
THEOREM SessionsStayAccounted == SandboxSpec => []SessionsAreAccounted
<1>1. SandboxInv => SessionsAreAccounted
  BY DEF SandboxInv, Sound, SessionsAreAccounted, SlotsAreLive, MonitorAgrees, ContainersAreOwned, ExecutionsClose
<1> QED BY <1>1, SandboxHolds, PTL

\* A session that has stopped never runs, is never billed another run and never
\* takes a slot again, whatever is called on it late.
THEOREM StoppedStays == SandboxSpec => [][StoppedIsFinal]_sandboxVars
BY SandboxHolds, SandboxStep, PTL DEF SandboxSpec

-----------------------------------------------------------------------------
(* Payouts: the ids of rows and requests exist at Stripe, what is called verified
   was verified there, and one verification at a time makes one account. *)
Statuses == {"requires_input", "verified", "canceled"}
PayRequest == [at : {"idle", "account", "session", "link", "recheck", "transfer"},
               cache : Caches \cup {None}, account : Nat \cup {None}, session : Nat \cup {None}]
Table(t, max, S) == \E n \in 0..max : t \in [1..n -> S]

PayTypes ==
  /\ profile \in ProfileRow \cup {None}
  /\ Table(sessions, MaxSessions, Statuses) /\ Table(accounts, MaxAccounts, BOOLEAN)
  /\ mail \subseteq Statuses /\ excused \in BOOLEAN
  /\ request \in [PayRequests -> PayRequest]
  /\ OnFile \in ProfileRow
IdsExist ==
  /\ OnFile.account \in DOMAIN accounts \cup {None} /\ OnFile.session \in DOMAIN sessions \cup {None}
  /\ \A r \in PayRequests :
       /\ request[r].at \in {"session", "link", "recheck", "transfer"} => request[r].account \in DOMAIN accounts
       /\ request[r].at \in {"link", "recheck", "transfer"} => request[r].session \in DOMAIN sessions
SomeVerified == \E s \in DOMAIN sessions : sessions[s] = "verified"
VerifiedIsTrue ==
  /\ "verified" \in mail \/ OnFile.cache = "verified" \/ (\E r \in PayRequests : request[r].cache = "verified") => SomeVerified
  /\ \A s \in transfers : s \in DOMAIN sessions /\ sessions[s] = "verified"
  /\ \A r \in PayRequests : request[r].at = "transfer" => sessions[request[r].session] = "verified"
OneAtATime ==
  ~excused =>
    /\ \A r, q \in Verifying : r = q
    /\ \A a, b \in DOMAIN accounts : a = b
    /\ \A r \in Verifying : request[r].at = "account" => DOMAIN accounts = {}
    /\ DOMAIN accounts # {} => OnFile.account # None \/ Verifying # {}
PayInv == PayTypes /\ IdsExist /\ VerifiedIsTrue /\ OneAtATime

LEMMA MadeIs ==
    ASSUME NEW S, NEW max \in Nat, NEW t, Table(t, max, S), NEW value \in S, NewId(t) <= max
    PROVE  /\ Table(Made(t, value), max, S) /\ NewId(t) \in Nat
           /\ DOMAIN Made(t, value) = DOMAIN t \cup {NewId(t)} /\ NewId(t) \notin DOMAIN t
           /\ Made(t, value)[NewId(t)] = value
           /\ \A i \in DOMAIN t : Made(t, value)[i] = t[i]
<1>1. PICK n \in 0..max : t \in [1..n -> S]
  BY DEF Table
<1>2. NewId(t) = n + 1
  <2>1. DOMAIN t = 1..n /\ Cardinality(1..n) = n
    BY <1>1, FS_Interval
  <2> QED BY <2>1 DEF NewId
<1>3. DOMAIN t = 1..n /\ n + 1 \in 0..max
  BY <1>1, <1>2
<1>4. Made(t, value) = [i \in 1..(n + 1) |-> IF i = n + 1 THEN value ELSE t[i]]
  <2>1. DOMAIN t \cup {n + 1} = 1..(n + 1)
    BY <1>3
  <2> QED BY <1>2, <2>1 DEF Made
<1>5. \A i \in 1..(n + 1) : (IF i = n + 1 THEN value ELSE t[i]) \in S
  BY <1>1
<1>6. Made(t, value) \in [1..(n + 1) -> S]
  BY <1>4, <1>5
<1>7. DOMAIN Made(t, value) = 1..(n + 1)
  BY <1>4
<1>8. DOMAIN t \cup {n + 1} = 1..(n + 1)
  BY <1>3
<1> QED BY <1>1, <1>2, <1>3, <1>4, <1>6, <1>7, <1>8 DEF Table

LEMMA TableIs ==
    ASSUME NEW S, NEW max \in Nat, NEW t, Table(t, max, S)
    PROVE  DOMAIN t \subseteq 1..max /\ \A i \in DOMAIN t : t[i] \in S
BY DEF Table

LEMMA OnFileIs ==
    /\ profile' \in ProfileRow => OnFile' = profile'
    /\ profile' = profile => OnFile' = OnFile
BY PayAssumption DEF OnFile

LEMMA ElseIs ==
    ASSUME NEW new, NEW old PROVE (new = None => Else(new, old) = old) /\ (new # None => Else(new, old) = new)
BY DEF Else

\* One request of many becomes q.
Now(r, q) == /\ q \in PayRequest /\ DOMAIN request' = PayRequests /\ request'[r] = q
             /\ request' \in [PayRequests -> PayRequest]
             /\ \A p \in PayRequests : p # r => request'[p] = request[p]

LEMMA NowIs ==
    ASSUME PayTypes, NEW r \in PayRequests, NEW q \in PayRequest, request' = [request EXCEPT ![r] = q]
    PROVE  Now(r, q)
BY DEF PayTypes, Now

LEMMA NoRequestIs == NoRequest \in PayRequest /\ NoRequest.at = "idle" /\ NoRequest.cache = None
BY DEF NoRequest, PayRequest

LEMMA AnsweredIs ==
    ASSUME PayTypes, NEW r \in PayRequests, Answered(r)
    PROVE  Now(r, NoRequest) /\ \A q : q \in Verifying' <=> q \in Verifying /\ q # r
<1>1. Now(r, NoRequest)
  BY NowIs, NoRequestIs DEF Answered
<1> QED BY <1>1, NoRequestIs DEF Now, Verifying

LEMMA ApplyKeeps == ASSUME PayInv, handleCreatorApply PROVE PayInv'
<1>1. profile' = Nothing /\ Nothing \in ProfileRow /\ UNCHANGED <<sessions, accounts, mail, request, transfers>>
  BY DEF handleCreatorApply, Nothing, ProfileRow
<1>2. OnFile' = Nothing /\ Nothing.account = None /\ Nothing.session = None /\ Nothing.cache = None
  BY <1>1, OnFileIs DEF Nothing
<1>3. PayTypes'
  <2>1. excused' \in BOOLEAN
    BY DEF handleCreatorApply, PayInv, PayTypes
  <2> QED BY <1>1, <1>2, <2>1 DEF PayInv, PayTypes
<1>4. IdsExist'
  BY <1>1, <1>2 DEF PayInv, IdsExist
<1>5. VerifiedIsTrue'
  BY <1>1, <1>2, PayAssumption DEF PayInv, VerifiedIsTrue, SomeVerified, Caches
<1>6. OneAtATime'
  BY <1>1 DEF PayInv, OneAtATime, handleCreatorApply, Verifying
<1> QED BY <1>3, <1>4, <1>5, <1>6 DEF PayInv

LEMMA VerificationKeeps == ASSUME PayInv, NEW r \in PayRequests, requestVerification(r) PROVE PayInv'
<1> DEFINE q == [at |-> IF OnFile.account = None THEN "account" ELSE "session",
                 cache |-> OnFile.cache, account |-> OnFile.account, session |-> None]
<1>1. UNCHANGED <<profile, sessions, accounts, mail, transfers>> /\ request' = [request EXCEPT ![r] = q]
  BY DEF requestVerification
<1>2. OnFile' = OnFile /\ OnFile \in ProfileRow
  BY <1>1, OnFileIs DEF PayInv, PayTypes
<1>3. Now(r, q)
  <2>1. q \in PayRequest
    BY <1>2 DEF PayRequest, ProfileRow
  <2> QED BY <1>1, <2>1, NowIs DEF PayInv
<1>4. PayTypes'
  <2>1. excused' \in BOOLEAN
    BY DEF requestVerification, PayInv, PayTypes
  <2> QED BY <1>1, <1>2, <1>3, <2>1 DEF PayInv, PayTypes, Now
<1>5. /\ q.at = "account" => OnFile.account = None
      /\ q.at # "account" => q.at = "session" /\ q.account # None
      /\ q.account = OnFile.account /\ q.cache = OnFile.cache
  OBVIOUS
<1> HIDE DEF q
<1>6. IdsExist'
  BY <1>1, <1>2, <1>3, <1>5 DEF PayInv, IdsExist, Now
<1>7. VerifiedIsTrue'
  BY <1>1, <1>2, <1>3, <1>5 DEF PayInv, VerifiedIsTrue, SomeVerified, Now
<1>8. OneAtATime'
  <2> SUFFICES ASSUME ~excused' PROVE OneAtATime'
    BY DEF OneAtATime
  <2>1. ~excused /\ Verifying = {}
    BY DEF requestVerification, PayInv, PayTypes
  <2>2. \A p : p \in Verifying' <=> p = r
    BY <1>3, <1>5, <2>1 DEF Now, Verifying
  <2>3. q.at = "account" => DOMAIN accounts = {}
    BY <1>5, <2>1 DEF PayInv, OneAtATime
  <2> QED BY <1>1, <1>3, <2>1, <2>2, <2>3 DEF PayInv, OneAtATime, Now
<1> QED BY <1>4, <1>6, <1>7, <1>8 DEF PayInv

LEMMA AccountKeeps == ASSUME PayInv, NEW r \in PayRequests, CreateAccount(r) PROVE PayInv'
<1> DEFINE q == [request[r] EXCEPT !.account = NewId(accounts), !.at = "session"]
<1>1. /\ UNCHANGED <<profile, sessions, mail, transfers, excused>> /\ request' = [request EXCEPT ![r] = q]
      /\ accounts' = Made(accounts, FALSE) /\ request[r].at = "account" /\ NewId(accounts) <= MaxAccounts
  BY DEF CreateAccount, PayInv, PayTypes
<1>2. OnFile' = OnFile /\ request[r] \in PayRequest
  BY <1>1, OnFileIs DEF PayInv, PayTypes
<1>3. /\ Table(accounts', MaxAccounts, BOOLEAN) /\ NewId(accounts) \in Nat
      /\ DOMAIN accounts' = DOMAIN accounts \cup {NewId(accounts)}
  BY <1>1, MadeIs, PayAssumption DEF PayInv, PayTypes
<1>4. /\ q.at = "session" /\ q.account = NewId(accounts) /\ q.cache = request[r].cache
      /\ q \in PayRequest
  BY <1>2, <1>3 DEF PayRequest
<1> HIDE DEF q
<1>5. Now(r, q)
  BY <1>1, <1>4, NowIs DEF PayInv
<1>6. PayTypes'
  BY <1>1, <1>2, <1>3, <1>5 DEF PayInv, PayTypes, Now
<1>7. IdsExist'
  BY <1>1, <1>2, <1>3, <1>4, <1>5 DEF PayInv, IdsExist, Now
<1>8. VerifiedIsTrue'
  BY <1>1, <1>2, <1>4, <1>5 DEF PayInv, VerifiedIsTrue, SomeVerified, Now
<1>9. OneAtATime'
  <2> SUFFICES ASSUME ~excused' PROVE OneAtATime'
    BY DEF OneAtATime
  <2>1. r \in Verifying /\ DOMAIN accounts = {}
    BY <1>1 DEF PayInv, OneAtATime, Verifying
  <2>2. \A p : p \in Verifying' <=> p = r
    BY <1>1, <1>4, <1>5, <2>1 DEF Now, Verifying, PayInv, OneAtATime
  <2>3. DOMAIN accounts' = {NewId(accounts)}
    BY <1>3, <2>1
  <2> QED BY <1>4, <1>5, <2>2, <2>3 DEF OneAtATime, Now
<1> QED BY <1>6, <1>7, <1>8, <1>9 DEF PayInv

LEMMA SessionKeeps == ASSUME PayInv, NEW r \in PayRequests, CreateSession(r) PROVE PayInv'
<1> DEFINE q == [request[r] EXCEPT !.session = NewId(sessions), !.at = "link"]
<1>1. /\ UNCHANGED <<profile, accounts, mail, transfers, excused>> /\ request' = [request EXCEPT ![r] = q]
      /\ sessions' = Made(sessions, "requires_input") /\ request[r].at = "session" /\ NewId(sessions) <= MaxSessions
  BY DEF CreateSession, PayInv, PayTypes
<1>2. OnFile' = OnFile /\ request[r] \in PayRequest
  BY <1>1, OnFileIs DEF PayInv, PayTypes
<1>3. /\ Table(sessions', MaxSessions, Statuses) /\ NewId(sessions) \in Nat
      /\ DOMAIN sessions' = DOMAIN sessions \cup {NewId(sessions)}
      /\ \A s \in DOMAIN sessions : sessions'[s] = sessions[s]
  <2>1. PICK v : v = "requires_input"
    OBVIOUS
  <2>2. v \in Statuses /\ Table(sessions, MaxSessions, Statuses)
    BY <2>1 DEF Statuses, PayInv, PayTypes
  <2>3. NewId(sessions) <= MaxSessions /\ MaxSessions \in Nat /\ sessions' = Made(sessions, v)
    BY <1>1, <2>1, PayAssumption
  <2>4. /\ Table(Made(sessions, v), MaxSessions, Statuses) /\ NewId(sessions) \in Nat
        /\ DOMAIN Made(sessions, v) = DOMAIN sessions \cup {NewId(sessions)}
        /\ \A s \in DOMAIN sessions : Made(sessions, v)[s] = sessions[s]
    BY ONLY <2>2, <2>3, MadeIs, SMTT(60)
  <2> QED BY <2>3, <2>4
<1>4. /\ q.at = "link" /\ q.session = NewId(sessions) /\ q.cache = request[r].cache
      /\ q.account = request[r].account /\ q \in PayRequest
  BY <1>2, <1>3 DEF PayRequest
<1> HIDE DEF q
<1>5. Now(r, q)
  BY <1>1, <1>4, NowIs DEF PayInv
<1>6. PayTypes'
  BY <1>1, <1>2, <1>3, <1>5 DEF PayInv, PayTypes, Now
<1>7. IdsExist'
  BY <1>1, <1>2, <1>3, <1>4, <1>5 DEF PayInv, IdsExist, Now
<1>8. VerifiedIsTrue'
  <2>1. SomeVerified => SomeVerified'
    BY <1>3 DEF SomeVerified
  <2>2. \A p \in PayRequests : request'[p].at = "transfer" =>
          /\ request[p].at = "transfer" /\ request'[p].session = request[p].session
          /\ request[p].session \in DOMAIN sessions
    BY <1>4, <1>5 DEF PayInv, IdsExist, Now
  <2>3. \A p \in PayRequests : request'[p].cache = request[p].cache
    BY <1>4, <1>5 DEF Now
  <2>4. \A s \in transfers' : s \in DOMAIN sessions' /\ sessions'[s] = "verified"
    BY <1>1, <1>3 DEF PayInv, VerifiedIsTrue
  <2>5. \A p \in PayRequests : request'[p].at = "transfer" => sessions'[request'[p].session] = "verified"
    BY <1>3, <2>2 DEF PayInv, VerifiedIsTrue
  <2> QED BY <1>1, <1>2, <2>1, <2>3, <2>4, <2>5 DEF PayInv, VerifiedIsTrue
<1>9. OneAtATime'
  <2>1. \A p : p \in Verifying' <=> p \in Verifying
    BY <1>1, <1>4, <1>5 DEF Now, Verifying
  <2>2. \A p \in PayRequests : request'[p].at = "account" => request[p].at = "account"
    BY <1>4, <1>5 DEF Now
  <2>3. \A p \in Verifying : p \in PayRequests
    BY DEF Verifying
  <2> QED BY <1>1, <1>2, <2>1, <2>2, <2>3 DEF PayInv, OneAtATime
<1> QED BY <1>6, <1>7, <1>8, <1>9 DEF PayInv

LEMMA PersistKeeps == ASSUME PayInv, NEW r \in PayRequests, Persist(r) PROVE PayInv'
<1> DEFINE row == [account |-> Else(request[r].account, Nothing.account), session |-> Else(request[r].session, Nothing.session),
                   cache |-> Else(Else(request[r].cache, "pending"), Nothing.cache)]
<1>1. /\ UNCHANGED <<sessions, accounts, mail, transfers, excused>> /\ Answered(r)
      /\ profile' = row /\ request[r].at = "link"
  BY DEF Persist, persistProfile
<1>2. request[r] \in PayRequest /\ request[r].account \in DOMAIN accounts /\ request[r].session \in DOMAIN sessions
  BY <1>1 DEF PayInv, PayTypes, IdsExist
<1>3. request[r].account \in Nat /\ request[r].session \in Nat
  BY <1>2, TableIs, PayAssumption DEF PayInv, PayTypes
<1>4. row.account = request[r].account /\ row.session = request[r].session
  BY <1>3, ElseIs, PayAssumption
<1>5. /\ request[r].cache = None => row.cache = "pending"
      /\ request[r].cache # None => row.cache = request[r].cache
  BY ElseIs, PayAssumption DEF Caches
<1>6. row \in ProfileRow
  <2>1. row.cache \in Caches \cup {None}
    BY <1>2, <1>5 DEF Caches, PayRequest
  <2> QED BY <1>3, <1>4, <2>1 DEF ProfileRow
<1> HIDE DEF row
<1>7. OnFile' = row
  BY <1>1, <1>6, OnFileIs
<1>8. Now(r, NoRequest) /\ \A q : q \in Verifying' <=> q \in Verifying /\ q # r
  BY <1>1, AnsweredIs DEF PayInv
<1>9. PayTypes'
  BY <1>1, <1>6, <1>7, <1>8 DEF PayInv, PayTypes, Now
<1>10. IdsExist'
  BY <1>1, <1>2, <1>4, <1>7, <1>8, NoRequestIs DEF PayInv, IdsExist, Now
<1>11. VerifiedIsTrue'
  <2>1. OnFile'.cache = "verified" => SomeVerified
    BY <1>5, <1>7 DEF PayInv, VerifiedIsTrue
  <2>2. NoRequest.cache # "verified"
    BY NoRequestIs, PayAssumption DEF Caches
  <2>3. SomeVerified' <=> SomeVerified
    BY <1>1 DEF SomeVerified
  <2> QED BY <1>1, <1>8, <2>1, <2>2, <2>3, NoRequestIs DEF PayInv, VerifiedIsTrue, Now
<1>12. OneAtATime'
  <2>1. OnFile'.account # None
    BY <1>3, <1>4, <1>7, PayAssumption
  <2>2. \A p \in Verifying' : p \in PayRequests /\ p # r /\ request'[p] = request[p]
    BY <1>8 DEF Now, Verifying
  <2> QED BY <1>1, <1>8, <2>1, <2>2 DEF PayInv, OneAtATime
<1> QED BY <1>9, <1>10, <1>11, <1>12 DEF PayInv

\* Requests for a payout, and answers, which begin or end without an account made.
LEMMA PayoutKeeps ==
    ASSUME PayInv, NEW r \in PayRequests, requestPayout(r) \/ Recheck(r) \/ Transfer(r) \/ StripeFails(r)
    PROVE  PayInv'
<1>1. UNCHANGED <<profile, sessions, accounts, mail>> /\ OnFile' = OnFile /\ request[r] \in PayRequest
  BY OnFileIs DEF requestPayout, Recheck, Transfer, StripeFails, PayInv, PayTypes
<1>2. PICK q \in PayRequest :
         /\ Now(r, q) /\ q.at \notin {"account", "session", "link"}
         /\ q.at \in {"recheck", "transfer"} => q.account \in DOMAIN accounts /\ q.session \in DOMAIN sessions
         /\ q.cache = "verified" => request[r].cache = "verified"
         /\ q.at = "transfer" => sessions[q.session] = "verified"
  <2>1. CASE Answered(r)
    <3>1. NoRequest.cache # "verified"
      BY NoRequestIs, PayAssumption DEF Caches
    <3> QED BY <2>1, <3>1, AnsweredIs, NoRequestIs DEF PayInv
  <2>2. CASE requestPayout(r)
    <3> DEFINE q == [at |-> "recheck", cache |-> None, account |-> OnFile.account, session |-> OnFile.session]
    <3>1. q \in PayRequest
      BY DEF PayInv, PayTypes, PayRequest, ProfileRow
    <3>2. q.account \in DOMAIN accounts /\ q.session \in DOMAIN sessions
      BY <2>2 DEF requestPayout, PayInv, IdsExist
    <3>3. q.cache # "verified" /\ q.at = "recheck"
      BY PayAssumption DEF Caches
    <3>4. request' = [request EXCEPT ![r] = q]
      BY <2>2 DEF requestPayout
    <3> HIDE DEF q
    <3>5. Now(r, q)
      BY <3>1, <3>4, NowIs DEF PayInv
    <3> QED BY <3>1, <3>2, <3>3, <3>5
  <2>3. CASE Recheck(r) /\ Cleared(r)
    <3> DEFINE q == [request[r] EXCEPT !.at = "transfer"]
    <3>1. q \in PayRequest /\ q.at = "transfer" /\ q.cache = request[r].cache
          /\ q.account = request[r].account /\ q.session = request[r].session
      BY <1>1 DEF PayRequest
    <3>2. request' = [request EXCEPT ![r] = q]
      BY <2>3 DEF Recheck, At, PayInv, PayTypes
    <3> HIDE DEF q
    <3>3. Now(r, q)
      BY <3>1, <3>2, NowIs DEF PayInv
    <3>4. q.account \in DOMAIN accounts /\ q.session \in DOMAIN sessions
      BY <2>3, <3>1 DEF Recheck, PayInv, IdsExist
    <3>5. sessions[q.session] = "verified"
      BY <2>3, <3>1 DEF Cleared
    <3> QED BY <3>1, <3>3, <3>4, <3>5
  <2> QED BY <2>1, <2>2, <2>3 DEF Recheck, Transfer, StripeFails
<1>3. \A s \in transfers' : s \in DOMAIN sessions /\ sessions[s] = "verified"
  <2>1. CASE transfers' = transfers
    BY <2>1 DEF PayInv, VerifiedIsTrue
  <2>2. CASE Transfer(r)
    BY <2>2 DEF Transfer, PayInv, IdsExist, VerifiedIsTrue
  <2> QED BY <2>1, <2>2 DEF requestPayout, Recheck, StripeFails
<1>4. excused' \in BOOLEAN /\ (excused => excused') /\ (r \in Verifying => excused')
  BY DEF requestPayout, Recheck, Transfer, StripeFails, PayInv, PayTypes, Verifying
<1>5. PayTypes'
  BY <1>1, <1>2, <1>4 DEF PayInv, PayTypes, Now
<1>6. IdsExist'
  BY <1>1, <1>2 DEF PayInv, IdsExist, Now
<1>7. VerifiedIsTrue'
  <2>1. SomeVerified' <=> SomeVerified
    BY <1>1 DEF SomeVerified
  <2> QED BY <1>1, <1>2, <1>3, <2>1 DEF PayInv, VerifiedIsTrue, Now
<1>8. OneAtATime'
  <2> SUFFICES ASSUME ~excused' PROVE OneAtATime'
    BY DEF OneAtATime
  <2>1. r \notin Verifying
    BY <1>4
  <2>2. \A p : p \in Verifying' <=> p \in Verifying
    BY <1>2, <2>1 DEF Now, Verifying
  <2>3. \A p \in Verifying' : p \in PayRequests /\ request'[p] = request[p]
    BY <1>2, <2>1, <2>2 DEF Now, Verifying
  <2> QED BY <1>1, <1>4, <2>2, <2>3 DEF PayInv, OneAtATime
<1> QED BY <1>5, <1>6, <1>7, <1>8 DEF PayInv

LEMMA StripeKeeps ==
    ASSUME PayInv, \/ \E s \in DOMAIN sessions, status \in {"requires_input", "verified", "canceled"} : SessionMoves(s, status)
                   \/ \E a \in DOMAIN accounts : AccountMoves(a)
    PROVE  PayInv'
<1>1. UNCHANGED <<profile, request, transfers, excused>> /\ OnFile' = OnFile
  BY OnFileIs DEF SessionMoves, AccountMoves
<1> DEFINE Moved == /\ Table(sessions', MaxSessions, Statuses) /\ DOMAIN sessions' = DOMAIN sessions
                    /\ Table(accounts', MaxAccounts, BOOLEAN) /\ DOMAIN accounts' = DOMAIN accounts
                    /\ mail' \subseteq Statuses
                    /\ \A s \in DOMAIN sessions : sessions[s] = "verified" => sessions'[s] = "verified"
                    /\ "verified" \in mail' => "verified" \in mail \/ SomeVerified'
<1>2. Moved
  <2>1. ASSUME NEW s \in DOMAIN sessions, NEW status \in Statuses, SessionMoves(s, status) PROVE Moved
    <3>1. PICK n \in 0..MaxSessions : sessions \in [1..n -> Statuses]
      BY DEF PayInv, PayTypes, Table
    <3>2. sessions' \in [1..n -> Statuses] /\ DOMAIN sessions' = DOMAIN sessions /\ sessions'[s] = status
          /\ \A i \in DOMAIN sessions : i # s => sessions'[i] = sessions[i]
      BY <2>1, <3>1 DEF SessionMoves
    <3>3. Table(sessions', MaxSessions, Statuses)
      BY <3>1, <3>2 DEF Table
    <3>4. accounts' = accounts /\ mail' = mail \cup {status} /\ sessions[s] # "verified"
      BY <2>1 DEF SessionMoves
    <3>5. status = "verified" => SomeVerified'
      BY <3>2 DEF SomeVerified
    <3> QED BY <3>2, <3>3, <3>4, <3>5 DEF PayInv, PayTypes
  <2>2. ASSUME NEW a \in DOMAIN accounts, AccountMoves(a) PROVE Moved
    <3>1. PICK n \in 0..MaxAccounts : accounts \in [1..n -> BOOLEAN]
      BY DEF PayInv, PayTypes, Table
    <3>2. accounts' \in [1..n -> BOOLEAN] /\ DOMAIN accounts' = DOMAIN accounts
      BY <2>2, <3>1 DEF AccountMoves
    <3>3. Table(accounts', MaxAccounts, BOOLEAN)
      BY <3>1, <3>2 DEF Table
    <3>4. UNCHANGED <<sessions, mail>>
      BY <2>2 DEF AccountMoves
    <3> QED BY <3>2, <3>3, <3>4 DEF PayInv, PayTypes
  <2> QED BY <2>1, <2>2 DEF Statuses
<1>3. PayTypes'
  BY <1>1, <1>2 DEF PayInv, PayTypes
<1>4. IdsExist'
  BY <1>1, <1>2 DEF PayInv, IdsExist
<1>5. VerifiedIsTrue'
  <2>1. SomeVerified => SomeVerified'
    BY <1>2 DEF SomeVerified
  <2>2. \A r \in PayRequests : request[r].at = "transfer" => request[r].session \in DOMAIN sessions
    BY DEF PayInv, IdsExist
  <2> QED BY <1>1, <1>2, <2>1, <2>2 DEF PayInv, VerifiedIsTrue
<1>6. OneAtATime'
  BY <1>1, <1>2 DEF PayInv, OneAtATime, Verifying
<1> QED BY <1>3, <1>4, <1>5, <1>6 DEF PayInv

LEMMA WebhookKeeps == ASSUME PayInv, NEW status \in mail, handleStripeWebhook(status) PROVE PayInv'
<1> DEFINE row == [account |-> Else(None, OnFile.account), session |-> Else(None, OnFile.session),
                   cache |-> Else(CacheOf(status), OnFile.cache)]
<1>1. UNCHANGED <<sessions, accounts, mail, request, transfers, excused>> /\ profile' = row
  BY DEF handleStripeWebhook, persistProfile
<1>2. status \in Statuses /\ OnFile \in ProfileRow
  BY DEF PayInv, PayTypes
<1>3. CacheOf(status) \in Caches /\ (CacheOf(status) = "verified" => status = "verified")
  BY <1>2 DEF CacheOf, Statuses, Caches
<1>4. row.account = OnFile.account /\ row.session = OnFile.session /\ row.cache = CacheOf(status)
  BY <1>3, ElseIs, PayAssumption
<1>5. row \in ProfileRow
  BY <1>2, <1>3, <1>4 DEF ProfileRow
<1> HIDE DEF row
<1>6. OnFile' = row
  BY <1>1, <1>5, OnFileIs
<1>7. PayTypes'
  BY <1>1, <1>5, <1>6 DEF PayInv, PayTypes
<1>8. IdsExist'
  BY <1>1, <1>4, <1>6 DEF PayInv, IdsExist
<1>9. VerifiedIsTrue'
  <2>1. SomeVerified' <=> SomeVerified
    BY <1>1 DEF SomeVerified
  <2> QED BY <1>1, <1>3, <1>4, <1>6, <2>1 DEF PayInv, VerifiedIsTrue
<1>10. OneAtATime'
  BY <1>1, <1>4, <1>6 DEF PayInv, OneAtATime, Verifying
<1> QED BY <1>7, <1>8, <1>9, <1>10 DEF PayInv

LEMMA PayStart == PayInit => PayInv
<1> SUFFICES ASSUME PayInit PROVE PayInv
  OBVIOUS
<1>1. OnFile = Nothing /\ Nothing \in ProfileRow /\ Nothing.account = None /\ Nothing.session = None /\ Nothing.cache = None
  BY DEF PayInit, OnFile, Nothing, ProfileRow
<1>2. \A r \in PayRequests : request[r] = NoRequest
  BY DEF PayInit
<1>3. PayTypes
  <2>1. \A S : sessions \in [1..0 -> S] /\ accounts \in [1..0 -> S]
    BY DEF PayInit
  <2>2. Table(sessions, MaxSessions, Statuses) /\ Table(accounts, MaxAccounts, BOOLEAN)
    BY <2>1, PayAssumption DEF Table
  <2> QED BY <1>1, <2>2, NoRequestIs DEF PayInit, PayTypes
<1>4. IdsExist
  BY <1>1, <1>2, NoRequestIs DEF IdsExist
<1>5. VerifiedIsTrue
  BY <1>1, <1>2, NoRequestIs, PayAssumption DEF PayInit, VerifiedIsTrue, Caches
<1>6. OneAtATime
  <2>1. Verifying = {} /\ DOMAIN accounts = {}
    BY <1>2, NoRequestIs DEF Verifying, PayInit
  <2> QED BY <2>1 DEF OneAtATime
<1> QED BY <1>3, <1>4, <1>5, <1>6 DEF PayInv

\* The one-account clause in the model's own words.
LEMMA FewAccounts ==
    ASSUME PayInv, ~excused PROVE Cardinality(DOMAIN accounts) <= 1
<1>1. CASE DOMAIN accounts = {}
  BY <1>1, FS_EmptySet
<1>2. CASE DOMAIN accounts # {}
  <2>1. PICK a \in DOMAIN accounts : TRUE
    BY <1>2
  <2>2. DOMAIN accounts = {a}
    BY <2>1 DEF PayInv, OneAtATime
  <2> QED BY <2>2, FS_Singleton
<1> QED BY <1>1, <1>2

\* However calls of Stripe fail and its events come late, twice or out of order,
\* money moves only on a session Stripe itself calls verified, the row says
\* verified only if some session was, and a second account needs an overlap, a
\* failure half-way or another application (creator service, live payout provider).
THEOREM MoneyFollowsStripe == PaySpec => []PayoutsAreEarned
<1>1. PayInv /\ [PayNext]_payVars => PayInv'
  <2> SUFFICES ASSUME PayInv, [PayNext]_payVars PROVE PayInv'
    OBVIOUS
  <2>1. CASE UNCHANGED payVars
    <3>1. OnFile' = OnFile
      BY <2>1, OnFileIs DEF payVars
    <3> QED BY <2>1, <3>1 DEF payVars, PayInv, PayTypes, IdsExist, VerifiedIsTrue, SomeVerified, OneAtATime, Verifying
  <2> QED BY <2>1, ApplyKeeps, VerificationKeeps, AccountKeeps, SessionKeeps, PersistKeeps, PayoutKeeps,
             StripeKeeps, WebhookKeeps DEF PayNext
<1>2. PayInv => PayoutsAreEarned
  <2> SUFFICES ASSUME PayInv PROVE PayoutsAreEarned
    OBVIOUS
  <2>1. PayTypeOK
    <3>1. profile = None \/ DOMAIN profile = {"account", "session", "cache"}
      BY DEF PayInv, PayTypes, ProfileRow
    <3>2. DOMAIN sessions \subseteq 1..MaxSessions /\ DOMAIN accounts \subseteq 1..MaxAccounts
      BY TableIs, PayAssumption DEF PayInv, PayTypes
    <3>3. OnFile.cache \in Caches \cup {None}
      BY DEF PayInv, PayTypes, ProfileRow
    <3> QED BY <3>1, <3>2, <3>3 DEF PayTypeOK, PayInv, IdsExist
  <2>2. TransfersAreVerified /\ DisplayIsEarned
    BY DEF PayInv, VerifiedIsTrue, SomeVerified, TransfersAreVerified, DisplayIsEarned
  <2>3. OneAccount
    BY FewAccounts DEF OneAccount
  <2> QED BY <2>1, <2>2, <2>3 DEF PayoutsAreEarned
<1> QED BY <1>1, <1>2, PayStart, PTL DEF PaySpec

-----------------------------------------------------------------------------
(* Turns: a turn under way read no more than was remembered; alone with its
   companion it read what still stands; a credit is that of its turn. *)
Memory == [level : 0..MaxAffection, turns : Nat]
Turn == [kind : {"none", "chat", "stream", "portrait", "scene", "speak"},
         at : {"idle", "asking", "writing", "replied", "fellback"}, id : CompanionIds \cup {Unowned},
         read : Memory, hits : Nat \X Nat, owned : BOOLEAN]
Done(all, c) == {t \in TurnIds : all[t].id = c /\ all[t].kind = "chat" /\ all[t].at = "replied"}

CompanionTypes ==
  /\ memory \in [CompanionIds -> Memory] /\ turn \in [TurnIds -> Turn]
  /\ owner \in [CompanionIds -> CreatorIds \cup {Unowned}] /\ overlapped \subseteq CompanionIds
  /\ \A u \in usage : DOMAIN u = {"turn", "id", "creator"} /\ u = [turn |-> u.turn, id |-> u.id, creator |-> u.creator]
  /\ \A t \in TurnIds : /\ turn[t].at # "idle" => turn[t].id \in CompanionIds
                        /\ turn[t].at = "writing" => turn[t].kind = "chat"
Reads ==
  \A c \in CompanionIds : \A t \in Busy(c) :
    /\ turn[t].read.turns <= Remembered(c)
    /\ c \notin overlapped => turn[t].read = memory[c] /\ \A u \in Busy(c) : u = t
Credits ==
  /\ \A t \in TurnIds : turn[t].owned /\ turn[t].at # "idle" => owner[turn[t].id] # Unowned
  /\ \A u \in usage : /\ u.turn \in TurnIds /\ turn[u.turn].kind \in PaidKinds /\ turn[u.turn].at \in {"writing", "replied"}
                      /\ u.id = turn[u.turn].id /\ u.creator = owner[u.id] /\ u.creator # Unowned
  /\ \A t \in TurnIds : turn[t].owned /\ turn[t].kind \in PaidKinds /\ turn[t].at \in {"writing", "replied"}
                        => \E u \in usage : u.turn = t
CompanionInv == CompanionTypes /\ TurnsCountReplies /\ Reads /\ Credits

LEMMA DoneCounted ==
    /\ \A c : Remembered(c) = Cardinality(Done(turn, c)) /\ Remembered(c)' = Cardinality(Done(turn', c))
    /\ \A all, c : IsFiniteSet(Done(all, c)) /\ Cardinality(Done(all, c)) \in Nat
<1>1. \A c : Remembered(c) = Cardinality(Done(turn, c)) /\ Remembered(c)' = Cardinality(Done(turn', c))
  BY DEF Remembered, Done
<1>2. \A all, c : Done(all, c) \in SUBSET TurnIds
  BY DEF Done
<1>3. \A all, c : IsFiniteSet(Done(all, c))
  BY <1>2, FS_Subset, CompanionAssumption
<1>4. \A all, c : Cardinality(Done(all, c)) \in Nat
  BY <1>3, FS_CardinalityType
<1> QED BY <1>1, <1>3, <1>4

LEMMA UpdateIs ==
    ASSUME NEW m \in Memory, NEW hits \in Nat \X Nat
    PROVE  updateMemoryAfterTurn(m, hits) \in Memory /\ updateMemoryAfterTurn(m, hits).turns = m.turns + 1
<1>1. m.level \in Int /\ m.turns \in Nat /\ hits[1] \in Int /\ hits[2] \in Int
  BY DEF Memory
<1>2. Delta(hits) \in Int
  BY <1>1 DEF Delta, Clamp
<1>3. Clamp(0, m.level + Delta(hits), MaxAffection) \in 0..MaxAffection
  BY <1>1, <1>2, CompanionAssumption DEF Clamp
<1> QED BY <1>1, <1>3 DEF updateMemoryAfterTurn, Memory

\* One turn of many becomes q.
Turned(t, q) == /\ q \in Turn /\ turn' \in [TurnIds -> Turn] /\ turn'[t] = q
                /\ \A u \in TurnIds : u # t => turn'[u] = turn[u]

LEMMA TurnedIs ==
    ASSUME CompanionTypes, NEW t \in TurnIds, NEW q \in Turn, turn' = [turn EXCEPT ![t] = q]
    PROVE  Turned(t, q)
BY DEF CompanionTypes, Turned

\* A turn that is not a chat just answered changes nothing that is remembered.
LEMMA SameMemory ==
    ASSUME CompanionTypes, TurnsCountReplies, NEW t \in TurnIds, NEW q, Turned(t, q), turn[t].at # "replied",
           ~(q.kind = "chat" /\ q.at = "replied"), memory' = memory, overlapped \subseteq overlapped'
    PROVE  TurnsCountReplies' /\ \A c : Remembered(c)' = Remembered(c)
<1>1. \A c : Done(turn', c) = Done(turn, c)
  BY DEF Turned, Done
<1>2. \A c : Remembered(c)' = Remembered(c)
  BY <1>1, DoneCounted
<1> QED BY <1>2 DEF TurnsCountReplies

LEMMA AskKeeps ==
    ASSUME CompanionInv, NEW t \in TurnIds, NEW c \in CompanionIds, NEW hits \in Nat \X Nat,
           NEW kind \in {"chat", "stream", "portrait", "scene", "speak"}, Ask(t, kind, c, hits)
    PROVE  CompanionInv'
<1> DEFINE q == [kind |-> kind, at |-> "asking", id |-> c, read |-> memory[c], hits |-> hits, owned |-> owner[c] # Unowned]
<1>1. UNCHANGED <<memory, owner, usage>> /\ turn' = [turn EXCEPT ![t] = q] /\ turn[t] = Idle
      /\ overlapped' = IF kind = "chat" /\ Busy(c) # {} THEN overlapped \cup {c} ELSE overlapped
  BY DEF Ask
<1>2. q \in Turn
  <2>1. memory[c] \in Memory /\ (owner[c] # Unowned) \in BOOLEAN
    BY DEF CompanionInv, CompanionTypes
  <2> QED BY <2>1 DEF Turn
<1>3. /\ q.kind = kind /\ q.at = "asking" /\ q.id = c /\ q.read = memory[c]
      /\ q.owned <=> owner[c] # Unowned
  OBVIOUS
<1> HIDE DEF q
<1>4. Turned(t, q) /\ turn[t].at = "idle"
  <2>1. Turned(t, q)
    BY <1>1, <1>2, TurnedIs DEF CompanionInv
  <2>2. Idle.at = "idle"
    BY DEF Idle
  <2> QED BY <1>1, <2>1, <2>2
<1>5. CompanionTypes'
  <2>1. overlapped' \subseteq CompanionIds
    BY <1>1 DEF CompanionInv, CompanionTypes
  <2> QED BY <1>1, <1>3, <1>4, <2>1 DEF CompanionInv, CompanionTypes, Turned
<1>6. TurnsCountReplies' /\ \A d : Remembered(d)' = Remembered(d)
  BY <1>1, <1>3, <1>4, SameMemory DEF CompanionInv
<1>7. Reads'
  <2> SUFFICES ASSUME NEW d \in CompanionIds, NEW u \in Busy(d)'
               PROVE  /\ turn'[u].read.turns <= Remembered(d)'
                      /\ d \notin overlapped' => turn'[u].read = memory'[d] /\ \A v \in Busy(d)' : v = u
    BY DEF Reads
  <2>1. \A v : v \in Busy(d)' <=> v \in Busy(d) \/ (v = t /\ kind = "chat" /\ d = c)
    BY <1>3, <1>4 DEF Turned, Busy
  <2>2. t \notin Busy(d)
    BY <1>4 DEF Busy
  <2>3. CASE kind = "chat" /\ d = c
    <3>1. CASE u = t
      <4>1. turn'[u].read = memory[d] /\ memory[d].turns <= Remembered(d)
        BY <1>3, <1>4, <2>3, <3>1 DEF Turned, CompanionInv, TurnsCountReplies
      <4>2. d \notin overlapped' => Busy(d) = {}
        BY <1>1, <2>3
      <4> QED BY <1>1, <1>6, <2>1, <3>1, <4>1, <4>2
    <3>2. CASE u # t
      <4>1. u \in Busy(d) /\ turn'[u] = turn[u] /\ d \in overlapped'
        BY <1>1, <1>4, <2>1, <2>3, <3>2 DEF Turned, Busy
      <4> QED BY <1>6, <4>1 DEF CompanionInv, Reads
    <3> QED BY <3>1, <3>2
  <2>4. CASE ~(kind = "chat" /\ d = c)
    <3>1. u \in Busy(d) /\ turn'[u] = turn[u] /\ (d \notin overlapped' => d \notin overlapped)
      BY <1>1, <1>4, <2>1, <2>2, <2>4 DEF Turned, Busy
    <3>2. /\ turn[u].read.turns <= Remembered(d)
          /\ d \notin overlapped => turn[u].read = memory[d] /\ \A v \in Busy(d) : v = u
      BY <3>1 DEF CompanionInv, Reads
    <3> QED BY <1>1, <1>6, <2>1, <2>4, <3>1, <3>2
  <2> QED BY <2>3, <2>4
<1>8. Credits'
  BY <1>1, <1>3, <1>4 DEF CompanionInv, Credits, Turned
<1> QED BY <1>5, <1>6, <1>7, <1>8 DEF CompanionInv

\* A provider answers: the creator is credited, the memory is still to be written.
LEMMA ReplyKeeps == ASSUME CompanionInv, NEW t \in TurnIds, Reply(t) PROVE CompanionInv'
<1> DEFINE q == [turn[t] EXCEPT !.at = IF turn[t].kind = "chat" THEN "writing" ELSE "replied"]
<1>1. UNCHANGED <<memory, owner, overlapped>> /\ turn' = [turn EXCEPT ![t] = q] /\ usage' = recordLikenessUsage(t)
      /\ turn[t].at = "asking" /\ turn[t] \in Turn
  BY DEF Reply, CompanionInv, CompanionTypes
<1>2. /\ q \in Turn /\ q.kind = turn[t].kind /\ q.id = turn[t].id /\ q.read = turn[t].read /\ q.owned = turn[t].owned
      /\ q.kind = "chat" => q.at = "writing"
      /\ q.kind # "chat" => q.at = "replied"
  BY <1>1 DEF Turn
<1> HIDE DEF q
<1>3. Turned(t, q)
  BY <1>1, <1>2, TurnedIs DEF CompanionInv
<1> DEFINE credit == [turn |-> t, id |-> turn[t].id, creator |-> owner[turn[t].id]]
<1> DEFINE pays == turn[t].kind \in PaidKinds /\ owner[turn[t].id] # Unowned
<1>4. \A u : u \in usage' <=> u \in usage \/ (pays /\ u = credit)
  BY <1>1 DEF recordLikenessUsage
<1>5. DOMAIN credit = {"turn", "id", "creator"} /\ credit.turn = t /\ credit.id = turn[t].id /\ credit.creator = owner[credit.id]
      /\ credit = [turn |-> credit.turn, id |-> credit.id, creator |-> credit.creator]
  OBVIOUS
<1>6. pays <=> turn[t].kind \in PaidKinds /\ owner[turn[t].id] # Unowned
  OBVIOUS
<1> HIDE DEF credit, pays
<1>7. CompanionTypes'
  <2>1. \A u \in usage' : DOMAIN u = {"turn", "id", "creator"} /\ u = [turn |-> u.turn, id |-> u.id, creator |-> u.creator]
    BY <1>4, <1>5 DEF CompanionInv, CompanionTypes
  <2>2. \A u \in TurnIds : /\ turn'[u].at # "idle" => turn'[u].id \in CompanionIds
                           /\ turn'[u].at = "writing" => turn'[u].kind = "chat"
    BY <1>1, <1>2, <1>3 DEF CompanionInv, CompanionTypes, Turned
  <2> QED BY <1>1, <1>3, <2>1, <2>2 DEF CompanionInv, CompanionTypes, Turned
<1>8. TurnsCountReplies' /\ \A d : Remembered(d)' = Remembered(d)
  BY <1>1, <1>2, <1>3, SameMemory DEF CompanionInv
<1>9. \A d : Busy(d)' = Busy(d)
  BY <1>1, <1>2, <1>3 DEF Turned, Busy
<1>10. Reads'
  <2>1. \A d : \A u \in Busy(d) : turn'[u].read = turn[u].read
    BY <1>2, <1>3 DEF Busy, Turned
  <2> QED BY <1>1, <1>8, <1>9, <2>1 DEF CompanionInv, Reads
<1>11. Credits'
  <2>1. \A u \in TurnIds : turn'[u].owned /\ turn'[u].at # "idle" => owner'[turn'[u].id] # Unowned
    BY <1>1, <1>2, <1>3 DEF CompanionInv, Credits, Turned
  <2>2. ASSUME NEW u \in usage'
        PROVE  /\ u.turn \in TurnIds /\ turn'[u.turn].kind \in PaidKinds /\ turn'[u.turn].at \in {"writing", "replied"}
               /\ u.id = turn'[u.turn].id /\ u.creator = owner'[u.id] /\ u.creator # Unowned
    <3>1. CASE u \in usage
      BY <1>1, <1>3, <3>1 DEF CompanionInv, Credits, Turned
    <3>2. CASE pays /\ u = credit
      BY <1>1, <1>2, <1>3, <1>5, <1>6, <3>2 DEF Turned
    <3> QED BY <1>4, <3>1, <3>2
  <2>3. ASSUME NEW u \in TurnIds, turn'[u].owned, turn'[u].kind \in PaidKinds, turn'[u].at \in {"writing", "replied"}
        PROVE  \E v \in usage' : v.turn = u
    <3>1. CASE u = t
      <4>1. pays
        BY <1>1, <1>2, <1>3, <1>6, <2>3, <3>1 DEF CompanionInv, Credits, Turned
      <4> QED BY <1>4, <1>5, <3>1, <4>1
    <3>2. CASE u # t
      BY <1>3, <1>4, <2>3, <3>2 DEF CompanionInv, Credits, Turned
    <3> QED BY <3>1, <3>2
  <2> QED BY <2>1, <2>2, <2>3 DEF Credits
<1> QED BY <1>7, <1>8, <1>10, <1>11 DEF CompanionInv

LEMMA FallbackKeeps == ASSUME CompanionInv, NEW t \in TurnIds, Fallback(t) PROVE CompanionInv'
<1> DEFINE q == [turn[t] EXCEPT !.at = "fellback"]
<1>1. UNCHANGED <<memory, owner, overlapped, usage>> /\ turn' = [turn EXCEPT ![t] = q]
      /\ turn[t].at = "asking" /\ turn[t] \in Turn
  BY DEF Fallback, CompanionInv, CompanionTypes
<1>2. q \in Turn /\ q.kind = turn[t].kind /\ q.id = turn[t].id /\ q.owned = turn[t].owned /\ q.at = "fellback"
  BY <1>1 DEF Turn
<1> HIDE DEF q
<1>3. Turned(t, q)
  BY <1>1, <1>2, TurnedIs DEF CompanionInv
<1>4. CompanionTypes'
  BY <1>1, <1>2, <1>3 DEF CompanionInv, CompanionTypes, Turned
<1>5. TurnsCountReplies' /\ \A d : Remembered(d)' = Remembered(d)
  BY <1>1, <1>2, <1>3, SameMemory DEF CompanionInv
<1>6. Reads'
  <2>1. \A d : \A u \in Busy(d)' : u \in Busy(d) /\ turn'[u] = turn[u]
    BY <1>2, <1>3 DEF Busy, Turned
  <2> QED BY <1>1, <1>5, <2>1 DEF CompanionInv, Reads
<1>7. Credits'
  BY <1>1, <1>2, <1>3 DEF CompanionInv, Credits, Turned
<1> QED BY <1>4, <1>5, <1>6, <1>7 DEF CompanionInv

\* The memory is written: one turn more, over what another may have written since.
LEMMA PersistMemoryKeeps == ASSUME CompanionInv, NEW t \in TurnIds, persistMemoryUpdate(t) PROVE CompanionInv'
<1> DEFINE q == [turn[t] EXCEPT !.at = "replied"]
<1>1. PICK c \in CompanionIds : c = turn[t].id
  BY DEF persistMemoryUpdate, CompanionInv, CompanionTypes
<1>2. PICK m : m = updateMemoryAfterTurn(turn[t].read, turn[t].hits)
  OBVIOUS
<1>3. UNCHANGED <<owner, overlapped, usage>> /\ turn' = [turn EXCEPT ![t] = q]
      /\ turn[t].at = "writing" /\ turn[t].kind = "chat" /\ turn[t] \in Turn
      /\ memory' = [memory EXCEPT ![c] = m]
  BY <1>1, <1>2 DEF persistMemoryUpdate, CompanionInv, CompanionTypes
<1>4. q \in Turn /\ q.kind = "chat" /\ q.id = c /\ q.owned = turn[t].owned /\ q.at = "replied"
  BY <1>1, <1>3 DEF Turn
<1> HIDE DEF q
<1>5. Turned(t, q)
  BY <1>3, <1>4, TurnedIs DEF CompanionInv
<1>6. m \in Memory /\ m.turns = turn[t].read.turns + 1
  BY <1>2, <1>3, UpdateIs DEF Turn
<1>7. memory' \in [CompanionIds -> Memory] /\ memory'[c] = m /\ \A d \in CompanionIds : d # c => memory'[d] = memory[d]
  BY <1>3, <1>6 DEF CompanionInv, CompanionTypes
<1>8. CompanionTypes'
  BY <1>3, <1>4, <1>5, <1>7 DEF CompanionInv, CompanionTypes, Turned
<1>9. \A d : d # c => Remembered(d)' = Remembered(d)
  <2>1. \A d : d # c => Done(turn', d) = Done(turn, d)
    BY <1>1, <1>4, <1>5 DEF Turned, Done
  <2> QED BY <2>1, DoneCounted
<1>10. PICK before \in Nat : before = Remembered(c) /\ Remembered(c)' = before + 1
  <2>1. Done(turn', c) = Done(turn, c) \cup {t} /\ t \notin Done(turn, c)
    BY <1>1, <1>3, <1>4, <1>5 DEF Turned, Done
  <2>2. Cardinality(Done(turn', c)) = Cardinality(Done(turn, c)) + 1
    BY <2>1, DoneCounted, FS_AddElement
  <2> QED BY <2>2, DoneCounted
<1>11. t \in Busy(c)
  BY <1>1, <1>3 DEF Busy
<1>12. /\ turn[t].read.turns <= before
       /\ c \notin overlapped => turn[t].read = memory[c] /\ memory[c].turns = before
  BY <1>10, <1>11 DEF CompanionInv, Reads, TurnsCountReplies
<1>13. turn[t].read.turns \in Nat
  BY <1>3 DEF Turn, Memory
<1>14. TurnsCountReplies'
  <2> SUFFICES ASSUME NEW d \in CompanionIds
               PROVE  memory'[d].turns <= Remembered(d)' /\ (d \notin overlapped' => memory'[d].turns = Remembered(d)')
    BY DEF TurnsCountReplies
  <2>1. CASE d = c
    BY <1>3, <1>6, <1>7, <1>10, <1>12, <1>13, <2>1
  <2>2. CASE d # c
    BY <1>3, <1>7, <1>9, <2>2 DEF CompanionInv, TurnsCountReplies
  <2> QED BY <2>1, <2>2
<1>15. Reads'
  <2> SUFFICES ASSUME NEW d \in CompanionIds, NEW u \in Busy(d)'
               PROVE  /\ turn'[u].read.turns <= Remembered(d)'
                      /\ d \notin overlapped' => turn'[u].read = memory'[d] /\ \A v \in Busy(d)' : v = u
    BY DEF Reads
  <2>1. \A v : v \in Busy(d)' => v \in Busy(d) /\ v # t /\ turn'[v] = turn[v] /\ turn[v] \in Turn
    BY <1>4, <1>5 DEF Turned, Busy, CompanionInv, CompanionTypes
  <2>2. /\ turn[u].read.turns <= Remembered(d)
        /\ d \notin overlapped => turn[u].read = memory[d] /\ \A v \in Busy(d) : v = u
    BY <2>1 DEF CompanionInv, Reads
  <2>3. CASE d = c
    <3>1. d \in overlapped
      BY <1>11, <2>1, <2>2, <2>3
    <3>2. turn[u].read.turns \in Nat
      BY <2>1 DEF Turn, Memory
    <3> QED BY <1>3, <1>10, <2>1, <2>2, <2>3, <3>1, <3>2
  <2>4. CASE d # c
    BY <1>3, <1>7, <1>9, <2>1, <2>2, <2>4
  <2> QED BY <2>3, <2>4
<1>16. Credits'
  BY <1>1, <1>3, <1>4, <1>5 DEF CompanionInv, Credits, Turned
<1> QED BY <1>8, <1>14, <1>15, <1>16 DEF CompanionInv

LEMMA ClaimKeeps == ASSUME CompanionInv, NEW c \in CompanionIds, NEW p \in CreatorIds, Claim(c, p) PROVE CompanionInv'
<1>1. UNCHANGED <<memory, turn, usage, overlapped>> /\ owner[c] = Unowned /\ p # Unowned
      /\ owner' = [owner EXCEPT ![c] = p]
  BY CompanionAssumption DEF Claim
<1>2. owner' \in [CompanionIds -> CreatorIds \cup {Unowned}] /\ owner'[c] = p
      /\ \A d \in CompanionIds : d # c => owner'[d] = owner[d]
  BY <1>1 DEF CompanionInv, CompanionTypes
<1>3. CompanionTypes'
  BY <1>1, <1>2 DEF CompanionInv, CompanionTypes
<1>4. TurnsCountReplies' /\ Reads'
  BY <1>1 DEF CompanionInv, TurnsCountReplies, Reads, Remembered, Busy
<1>5. Credits'
  <2>1. \A t \in TurnIds : turn[t].at # "idle" => turn[t].id \in CompanionIds
    BY DEF CompanionInv, CompanionTypes
  <2>2. \A u \in usage : u.id \in CompanionIds /\ u.id # c
    BY <1>1, <2>1 DEF CompanionInv, Credits
  <2> QED BY <1>1, <1>2, <2>1, <2>2 DEF CompanionInv, Credits
<1> QED BY <1>3, <1>4, <1>5 DEF CompanionInv

LEMMA CompanionStart == CompanionInit => CompanionInv
<1> SUFFICES ASSUME CompanionInit PROVE CompanionInv
  OBVIOUS
<1>1. defaultCompanionMemory \in Memory /\ defaultCompanionMemory.turns = 0
  BY CompanionAssumption DEF defaultCompanionMemory, Memory
<1>2. Idle \in Turn /\ Idle.at = "idle" /\ Idle.kind = "none"
  BY <1>1 DEF Idle, Turn
<1>3. CompanionTypes
  BY <1>1, <1>2 DEF CompanionInit, CompanionTypes
<1>4. \A c : Remembered(c) = 0
  <2>1. \A c : Done(turn, c) = {}
    BY <1>2 DEF CompanionInit, Done
  <2> QED BY <2>1, DoneCounted, FS_EmptySet
<1>5. TurnsCountReplies
  BY <1>1, <1>4 DEF CompanionInit, TurnsCountReplies
<1>6. Reads /\ Credits
  BY <1>2 DEF CompanionInit, Reads, Credits, Busy
<1> QED BY <1>3, <1>5, <1>6 DEF CompanionInv

LEMMA CompanionStep == CompanionInv /\ [CompanionNext]_companionVars => CompanionInv'
<1> SUFFICES ASSUME CompanionInv, [CompanionNext]_companionVars PROVE CompanionInv'
  OBVIOUS
<1>1. ASSUME NEW t \in TurnIds, NEW c \in CompanionIds, NEW hits \in HitCounts, handleCompanionChat(t, c, hits)
      PROVE  CompanionInv'
  BY <1>1, AskKeeps, CompanionAssumption DEF handleCompanionChat
<1>2. ASSUME NEW t \in TurnIds, NEW c \in CompanionIds,
             \/ handleCompanionChatStream(t, c) \/ handlePortraitRequest(t, c)
             \/ handleSceneRequest(t, c) \/ handleSpeakRequest(t, c)
      PROVE  CompanionInv'
  <2>1. <<0, 0>> \in Nat \X Nat
    OBVIOUS
  <2> QED BY <1>2, <2>1, AskKeeps DEF handleCompanionChatStream, handlePortraitRequest, handleSceneRequest, handleSpeakRequest
<1>3. CASE UNCHANGED companionVars
  <2>1. UNCHANGED <<memory, turn, owner, usage, overlapped>>
    BY <1>3 DEF companionVars
  <2>2. CompanionTypes'
    BY <2>1 DEF CompanionInv, CompanionTypes
  <2>3. \A c : Remembered(c)' = Remembered(c) /\ Busy(c)' = Busy(c)
    BY <2>1 DEF Remembered, Busy
  <2>4. TurnsCountReplies' /\ Reads'
    BY <2>1, <2>3 DEF CompanionInv, TurnsCountReplies, Reads
  <2>5. Credits'
    BY <2>1 DEF CompanionInv, Credits
  <2> QED BY <2>2, <2>4, <2>5 DEF CompanionInv
<1> QED BY <1>1, <1>2, <1>3, ReplyKeeps, PersistMemoryKeeps, FallbackKeeps, ClaimKeeps DEF CompanionNext

\* The paid turns of a companion have one credit each.
LEMMA OneCredit ==
    ASSUME CompanionInv, NEW t \in TurnIds, turn[t].owned, turn[t].kind \in PaidKinds, turn[t].at \in {"writing", "replied"}
    PROVE  Cardinality({u \in usage : u.turn = t}) = 1
<1>1. PICK u \in usage : u.turn = t
  BY DEF CompanionInv, Credits
<1>2. \A v \in usage : v.turn = t => v = u
  <2> SUFFICES ASSUME NEW v \in usage, v.turn = t PROVE v = u
    OBVIOUS
  <2>1. v.id = u.id /\ v.creator = u.creator
    BY <1>1 DEF CompanionInv, Credits
  <2>2. v = [turn |-> v.turn, id |-> v.id, creator |-> v.creator] /\ u = [turn |-> u.turn, id |-> u.id, creator |-> u.creator]
    BY DEF CompanionInv, CompanionTypes
  <2> QED BY <1>1, <2>1, <2>2
<1>3. {v \in usage : v.turn = t} = {u}
  BY <1>1, <1>2
<1> QED BY <1>3, FS_Singleton

\* However many turns with a companion overlap and whatever providers do, its
\* memory never counts a turn that was not answered, loses one only by an overlap,
\* and its creator is credited once for each paid reply (companion endpoints).
THEOREM TurnsStayCredited == CompanionSpec => []TurnsAreCredited
<1>1. CompanionInv => TurnsAreCredited
  <2> SUFFICES ASSUME CompanionInv PROVE TurnsAreCredited
    OBVIOUS
  <2>1. CompanionTypeOK
    BY DEF CompanionInv, CompanionTypes, CompanionTypeOK, Memory, Turn
  <2>2. CreditPerReply
    <3>1. \A u \in usage : /\ turn[u.turn].kind \in PaidKinds /\ turn[u.turn].at \in {"writing", "replied"}
                           /\ u.id = turn[u.turn].id /\ u.creator = owner[u.id]
      BY DEF CompanionInv, Credits
    <3> QED BY <3>1, OneCredit DEF CreditPerReply
  <2> QED BY <2>1, <2>2 DEF TurnsAreCredited, CompanionInv
<1> QED BY <1>1, CompanionStart, CompanionStep, PTL DEF CompanionSpec

-----------------------------------------------------------------------------
(* The priority router. *)
Queued == Tasks \X DOMAIN PRIORITY_ORDER

\* The places of a task exclude each other.
Apart ==
  /\ \A i, j \in DOMAIN ready : ready[i] = ready[j] => i = j
  /\ \A i \in DOMAIN ready : ready[i] \notin flight /\ ready[i] \notin finished
  /\ flight \cap finished = {}

\* A task is known by its id, and came before the next push.
Arrived ==
  /\ nacks \in Nat /\ came \in [Tasks -> Nat]
  /\ \A t, u \in known : t[1] = u[1] => t = u
  /\ \A t \in known : came[t[1]] < Pushes

RouterInv ==
  /\ ready \in Seq(Queued) /\ known \subseteq Queued /\ IsFiniteSet(known)
  /\ Arrived
  /\ TasksKeepTheirPlace
  /\ Apart

LEMMA OrderType == \A t \in Queued : Order(t) \in 0..2
BY DEF Queued, Order, PRIORITY_ORDER

\* A set of numbers that goes down without a gap is as long as it is large.
LEMMA Downward ==
  ASSUME NEW n \in Nat, NEW D \in SUBSET (1..n), \A i \in D : \A j \in 1..i : j \in D
  PROVE  Cardinality(D) \in 0..n /\ D = 1..Cardinality(D)
<1>1. IsFiniteSet(1..n) /\ Cardinality(1..n) = n
  BY FS_Interval
<1>2. IsFiniteSet(D) /\ Cardinality(D) <= n /\ Cardinality(D) \in Nat
  BY <1>1, FS_Subset, FS_CardinalityType
<1>3. D \subseteq 1..Cardinality(D)
  <2>1. SUFFICES ASSUME NEW i \in D PROVE i <= Cardinality(D)
    BY <1>2
  <2>2. 1..i \in SUBSET D /\ i \in Nat /\ Cardinality(1..i) = i
    BY FS_Interval
  <2>3. Cardinality(1..i) <= Cardinality(D)
    BY <1>2, <2>2, FS_Subset
  <2> QED BY <2>2, <2>3
<1>4. IsFiniteSet(1..Cardinality(D)) /\ Cardinality(1..Cardinality(D)) = Cardinality(D)
  BY <1>2, FS_Interval
<1>5. D = 1..Cardinality(D)
  BY <1>3, <1>4, FS_Subset
<1> QED BY <1>2, <1>5

\* Two sequences with an entry between them.
Between(r, a, e, b) ==
  /\ Len(r) = Len(a) + 1 + Len(b)
  /\ \A i \in 1..Len(a) : r[i] = a[i]
  /\ r[Len(a) + 1] = e
  /\ \A i \in 1..Len(b) : r[Len(a) + 1 + i] = b[i]

LEMMA BetweenIs ==
  ASSUME NEW S, NEW a \in Seq(S), NEW e \in S, NEW b \in Seq(S)
  PROVE  (a \o <<e>> \o b) \in Seq(S) /\ Between(a \o <<e>> \o b, a, e, b)
<1> DEFINE c == a \o <<e>>
           d == c \o b
<1>0. Len(a) \in Nat /\ Len(b) \in Nat /\ <<e>> \in Seq(S) /\ Len(<<e>>) = 1 /\ <<e>>[1] = e
  OBVIOUS
<1>1. /\ c \in Seq(S) /\ Len(c) = Len(a) + 1
      /\ \A i \in 1..(Len(a) + 1) : c[i] = IF i <= Len(a) THEN a[i] ELSE <<e>>[i - Len(a)]
  BY <1>0, ConcatProperties
<1>2. c[Len(a) + 1] = e /\ \A i \in 1..Len(a) : c[i] = a[i]
  BY <1>0, <1>1
<1> HIDE DEF c
<1>3. /\ d \in Seq(S) /\ Len(d) = Len(c) + Len(b)
      /\ \A i \in 1..(Len(c) + Len(b)) : d[i] = IF i <= Len(c) THEN c[i] ELSE b[i - Len(c)]
  <2>1. c \in Seq(S)
    BY <1>1
  <2>2. (c \o b) \in Seq(S) /\ Len(c \o b) = Len(c) + Len(b)
    BY <2>1, ConcatProperties
  <2>3. \A i \in 1..(Len(c) + Len(b)) : (c \o b)[i] = IF i <= Len(c) THEN c[i] ELSE b[i - Len(c)]
    BY <2>1, ConcatProperties
  <2> QED BY <2>2, <2>3
<1> HIDE DEF d
<1>4. \A i \in 1..(Len(a) + 1) : d[i] = c[i]
  BY <1>0, <1>1, <1>3
<1>5. ASSUME NEW i \in 1..Len(b) PROVE d[Len(a) + 1 + i] = b[i]
  <2>1. Len(c) + i \in 1..(Len(c) + Len(b)) /\ ~ (Len(c) + i <= Len(c)) /\ Len(c) + i - Len(c) = i
    BY <1>0, <1>1
  <2> QED BY <1>1, <1>3, <2>1
<1>6. d \in Seq(S) /\ Between(d, a, e, b)
  BY <1>0, <1>1, <1>2, <1>3, <1>4, <1>5 DEF Between
<1> QED BY <1>6 DEF d, c

\* r is s with an entry put in behind the first k.
Spliced(r, s, k, e) ==
  /\ Len(r) = Len(s) + 1
  /\ \A i \in 1..k : r[i] = s[i]
  /\ r[k + 1] = e
  /\ \A i \in (k + 1)..Len(s) : r[i + 1] = s[i]

LEMMA SpliceIs ==
  ASSUME NEW S, NEW s \in Seq(S), NEW e \in S, NEW k \in 0..Len(s), NEW r,
         r = SubSeq(s, 1, k) \o <<e>> \o SubSeq(s, k + 1, Len(s))
  PROVE  r \in Seq(S) /\ Spliced(r, s, k, e)
<1> DEFINE front == SubSeq(s, 1, k)
           back == SubSeq(s, k + 1, Len(s))
           result == front \o <<e>> \o back
<1>0. Len(s) \in Nat /\ k \in Nat /\ k <= Len(s) /\ k + 1 \in 1..(Len(s) + 1)
  OBVIOUS
<1>1. r = result
  OBVIOUS
<1>2. front \in Seq(S) /\ Len(front) = k /\ \A i \in 1..k : front[i] = s[i]
  BY <1>0
<1>3. back \in Seq(S) /\ Len(back) = Len(s) - k /\ \A i \in 1..(Len(s) - k) : back[i] = s[k + i]
  <2>1. back \in Seq(S)
    BY <1>0
  <2>2. Len(back) = Len(s) - k
    BY <1>0
  <2>3. ASSUME NEW i \in 1..(Len(s) - k) PROVE back[i] = s[k + i]
    BY <1>0, <2>2
  <2> QED BY <2>1, <2>2, <2>3
<1> HIDE DEF front, back
<1>4. /\ result \in Seq(S) /\ Len(result) = Len(s) + 1
      /\ \A i \in 1..k : result[i] = front[i]
      /\ result[k + 1] = e
      /\ \A i \in 1..(Len(s) - k) : result[k + 1 + i] = back[i]
  <2>1. k = Len(front) /\ Len(s) - k = Len(back) /\ k + 1 + (Len(s) - k) = Len(s) + 1
    BY <1>0, <1>2, <1>3
  <2>2. result \in Seq(S) /\ Between(result, front, e, back)
    BY <1>2, <1>3, BetweenIs
  <2> QED BY <2>1, <2>2 DEF Between
<1> HIDE DEF result
<1>5. \A i \in (k + 1)..Len(s) : result[i + 1] = s[i]
  <2>1. SUFFICES ASSUME NEW i \in (k + 1)..Len(s) PROVE result[i + 1] = s[i]
    OBVIOUS
  <2>2. i - k \in 1..(Len(s) - k) /\ i = k + (i - k)
    BY <1>0
  <2>3. PICK j \in 1..(Len(s) - k) : i = k + j
    BY <2>2
  <2>4. i + 1 = k + 1 + j
    BY <1>0, <2>3
  <2>5. result[k + 1 + j] = back[j] /\ back[j] = s[k + j]
    BY <1>3, <1>4
  <2> QED BY <2>3, <2>4, <2>5, Zenon
<1> QED BY <1>1, <1>2, <1>4, <1>5 DEF Spliced

\* A task is pushed between those that are not less urgent and those that are.
LEMMA PushedBetween ==
  ASSUME NEW t \in Queued, ready \in Seq(Queued), UrgentFirst
  PROVE  \E k \in 0..Len(ready) :
           /\ Pushed(t) \in Seq(Queued) /\ Len(Pushed(t)) = Len(ready) + 1
           /\ \A i \in 1..k : Pushed(t)[i] = ready[i] /\ Order(ready[i]) <= Order(t)
           /\ Pushed(t)[k + 1] = t
           /\ \A i \in (k + 1)..Len(ready) : Pushed(t)[i + 1] = ready[i] /\ Order(t) < Order(ready[i])
<1> DEFINE D == NotLessUrgent(t)
<1>0. Len(ready) \in Nat /\ DOMAIN ready = 1..Len(ready) /\ \A i \in 1..Len(ready) : ready[i] \in Queued
  OBVIOUS
<1>1. \A i \in 1..Len(ready) : Order(ready[i]) \in Int
  BY <1>0, OrderType
<1>2. Order(t) \in Int
  BY OrderType
<1>3. D \in SUBSET (1..Len(ready)) /\ \A i \in D : \A j \in 1..i : j \in D
  <2>1. SUFFICES ASSUME NEW i \in D, NEW j \in 1..i, j # i PROVE j \in D
    BY <1>0 DEF NotLessUrgent
  <2>2. i \in 1..Len(ready) /\ j \in 1..Len(ready) /\ j < i /\ Order(ready[i]) <= Order(t)
    BY <1>0, <2>1 DEF NotLessUrgent
  <2>3. Order(ready[j]) <= Order(ready[i])
    BY <1>0, <2>2 DEF UrgentFirst
  <2> QED BY <1>0, <1>1, <1>2, <2>2, <2>3 DEF NotLessUrgent
<1>4. PICK k \in 0..Len(ready) : k = Cardinality(NotLessUrgent(t)) /\ NotLessUrgent(t) = 1..k
  BY <1>0, <1>3, Downward
<1>5. \A i \in 1..k : Order(ready[i]) <= Order(t)
  BY <1>4 DEF NotLessUrgent
<1>6. \A i \in (k + 1)..Len(ready) : Order(t) < Order(ready[i])
  <2>1. SUFFICES ASSUME NEW i \in (k + 1)..Len(ready) PROVE Order(t) < Order(ready[i])
    OBVIOUS
  <2>2. i \in 1..Len(ready) /\ i \notin 1..k
    BY <1>0
  <2>3. i \notin NotLessUrgent(t)
    BY <1>4, <2>2, Zenon
  <2> QED BY <1>0, <1>1, <1>2, <2>2, <2>3 DEF NotLessUrgent
<1>7. Pushed(t) = SubSeq(ready, 1, k) \o <<t>> \o SubSeq(ready, k + 1, Len(ready))
  BY <1>4 DEF Pushed
<1>8. Pushed(t) \in Seq(Queued) /\ Spliced(Pushed(t), ready, k, t)
  BY <1>7, SpliceIs
<1> QED BY <1>5, <1>6, <1>8 DEF Spliced

\* A task from nowhere may be pushed.
LEMMA PushedInv ==
  ASSUME NEW t \in Queued, RouterInv, ready' = Pushed(t), \A i \in DOMAIN ready : ready[i] # t
  PROVE  /\ ready' \in Seq(Queued) /\ Len(ready') = Len(ready) + 1
         /\ ToSet(ready') = ToSet(ready) \cup {t}
         /\ UrgentFirst'
         /\ \A i, j \in DOMAIN ready' : ready'[i] = ready'[j] => i = j
<1>0. /\ ready \in Seq(Queued) /\ UrgentFirst /\ Len(ready) \in Nat /\ DOMAIN ready = 1..Len(ready)
      /\ \A i, j \in DOMAIN ready : ready[i] = ready[j] => i = j
  BY DEF RouterInv, TasksKeepTheirPlace, Apart
<1>1. PICK k \in 0..Len(ready) :
           /\ ready' \in Seq(Queued) /\ Len(ready') = Len(ready) + 1
           /\ \A i \in 1..k : ready'[i] = ready[i] /\ Order(ready[i]) <= Order(t)
           /\ ready'[k + 1] = t
           /\ \A i \in (k + 1)..Len(ready) : ready'[i + 1] = ready[i] /\ Order(t) < Order(ready[i])
  BY <1>0, PushedBetween
<1>2. DOMAIN ready' = 1..(Len(ready) + 1) /\ k \in Nat /\ k <= Len(ready)
  BY <1>0, <1>1
<1>3. \A i \in 1..Len(ready) : Order(ready[i]) \in Int
  BY <1>0, OrderType
<1>4. Order(t) \in Int
  BY OrderType
\* where an entry of the new queue comes from
<1>5. \A i \in DOMAIN ready' :
         \/ i \in 1..k /\ i \in DOMAIN ready /\ ready'[i] = ready[i]
         \/ i = k + 1 /\ ready'[i] = t
         \/ i \in (k + 2)..(Len(ready) + 1) /\ i - 1 \in (k + 1)..Len(ready) /\ i - 1 \in DOMAIN ready
            /\ ready'[i] = ready[i - 1]
  <2>1. SUFFICES ASSUME NEW i \in (k + 2)..(Len(ready) + 1)
                 PROVE  i - 1 \in (k + 1)..Len(ready) /\ i - 1 \in DOMAIN ready /\ ready'[i] = ready[i - 1]
    BY <1>0, <1>1, <1>2
  <2>2. i - 1 \in (k + 1)..Len(ready) /\ (i - 1) + 1 = i
    BY <1>0, <1>2
  <2> QED BY <1>0, <1>1, <1>2, <2>2
<1>6. ToSet(ready') = ToSet(ready) \cup {t}
  <2>1. ToSet(ready') \subseteq ToSet(ready) \cup {t}
    BY <1>5 DEF ToSet
  <2>2. t \in ToSet(ready')
    BY <1>0, <1>1, <1>2 DEF ToSet
  <2>3. ASSUME NEW i \in DOMAIN ready PROVE ready[i] \in ToSet(ready')
    <3>1. CASE i <= k
      <4>1. i \in 1..k /\ i \in DOMAIN ready'
        BY <1>0, <1>2, <3>1
      <4> QED BY <1>1, <4>1 DEF ToSet
    <3>2. CASE ~ (i <= k)
      <4>1. i \in (k + 1)..Len(ready) /\ i + 1 \in DOMAIN ready'
        BY <1>0, <1>2, <3>2
      <4> QED BY <1>1, <4>1 DEF ToSet
    <3> QED BY <3>1, <3>2
  <2>4. ToSet(ready) \subseteq ToSet(ready')
    BY <2>3 DEF ToSet
  <2> QED BY <2>1, <2>2, <2>4
<1>7. ASSUME NEW i \in DOMAIN ready', NEW j \in DOMAIN ready', i < j
      PROVE  Order(ready'[i]) <= Order(ready'[j]) /\ ready'[i] # ready'[j]
  <2>1. CASE i \in 1..k /\ j \in 1..k
    BY <1>0, <1>1, <1>5, <1>7, <2>1 DEF UrgentFirst
  <2>2. CASE i \in 1..k /\ j = k + 1
    BY <1>0, <1>1, <1>5, <2>2
  <2>3. CASE i \in 1..k /\ j \in (k + 2)..(Len(ready) + 1)
    <3>1. i \in DOMAIN ready /\ j - 1 \in DOMAIN ready /\ i < j - 1
      BY <1>0, <1>2, <2>3
    <3>2. ready'[i] = ready[i] /\ ready'[j] = ready[j - 1]
      BY <1>2, <1>5, <2>3
    <3> QED BY <1>0, <3>1, <3>2 DEF UrgentFirst
  <2>4. CASE i = k + 1 /\ j \in (k + 2)..(Len(ready) + 1)
    <3>1. j - 1 \in (k + 1)..Len(ready) /\ j - 1 \in DOMAIN ready /\ ready'[j] = ready[j - 1] /\ ready'[i] = t
      BY <1>1, <1>2, <1>5, <2>4
    <3>2. Order(t) < Order(ready[j - 1])
      BY <1>1, <3>1
    <3> QED BY <1>0, <1>3, <1>4, <3>1, <3>2
  <2>5. CASE i \in (k + 2)..(Len(ready) + 1) /\ j \in (k + 2)..(Len(ready) + 1)
    <3>1. i - 1 \in DOMAIN ready /\ j - 1 \in DOMAIN ready /\ i - 1 < j - 1
      BY <1>0, <1>2, <1>7, <2>5
    <3>2. ready'[i] = ready[i - 1] /\ ready'[j] = ready[j - 1]
      BY <1>2, <1>5, <2>5
    <3> QED BY <1>0, <3>1, <3>2 DEF UrgentFirst
  <2> QED BY <1>2, <1>7, <2>1, <2>2, <2>3, <2>4, <2>5
<1>8. \A i, j \in DOMAIN ready' : ready'[i] = ready'[j] => i = j
  BY <1>2, <1>7
<1>9. UrgentFirst'
  BY <1>7 DEF UrgentFirst, Order
<1> QED BY <1>1, <1>6, <1>8, <1>9

\* A pushed task is the last of its equals.
LEMMA PushedInTurn ==
  ASSUME NEW t \in Queued, RouterInv, Queues(t), \A i \in DOMAIN ready : ready[i][1] # t[1],
         \A i \in DOMAIN ready : ready[i] \in known, Pushes \in Nat
  PROVE  EqualsInTurn'
<1>0. /\ ready \in Seq(Queued) /\ UrgentFirst /\ EqualsInTurn /\ Len(ready) \in Nat /\ DOMAIN ready = 1..Len(ready)
      /\ came \in [Tasks -> Nat] /\ \A u \in known : came[u[1]] < Pushes
  BY DEF RouterInv, TasksKeepTheirPlace, Arrived
<1>1. PICK k \in 0..Len(ready) :
           /\ ready' \in Seq(Queued) /\ Len(ready') = Len(ready) + 1
           /\ \A i \in 1..k : ready'[i] = ready[i] /\ Order(ready[i]) <= Order(t)
           /\ ready'[k + 1] = t
           /\ \A i \in (k + 1)..Len(ready) : ready'[i + 1] = ready[i] /\ Order(t) < Order(ready[i])
  BY <1>0, PushedBetween DEF Queues
<1>2. /\ k \in Nat /\ k <= Len(ready) /\ t[1] \in Tasks
      /\ \A i \in 1..Len(ready) : Order(ready[i]) \in Int /\ ready[i][1] \in Tasks
      /\ Order(t) \in Int
  BY <1>0, OrderType DEF Queued
<1>3. came'[t[1]] = Pushes /\ \A id \in Tasks : id # t[1] => came'[id] = came[id]
  BY <1>0, <1>2 DEF Queues
<1>4. \A i \in 1..Len(ready) : came'[ready[i][1]] = came[ready[i][1]] /\ came[ready[i][1]] < Pushes
  BY <1>0, <1>2, <1>3
<1>5. SUFFICES ASSUME NEW i \in DOMAIN ready', NEW j \in DOMAIN ready', i < j,
                      Order(ready'[i]) = Order(ready'[j])
               PROVE  came'[ready'[i][1]] < came'[ready'[j][1]]
  BY DEF EqualsInTurn, Order
<1>6. i \in 1..(Len(ready) + 1) /\ j \in 1..(Len(ready) + 1) /\ i \in Int /\ j \in Int
  BY <1>0, <1>1, <1>5
<1>a. k \in Int /\ Len(ready) \in Int /\ i < j
  BY <1>0, <1>2, <1>5
<1>7. CASE j <= k
  <2>1. i \in 1..k /\ j \in 1..k /\ i \in DOMAIN ready /\ j \in DOMAIN ready
    BY <1>0, <1>2, <1>5, <1>6, <1>7
  <2>2. ready'[i] = ready[i] /\ ready'[j] = ready[j]
    BY <1>1, <2>1
  <2> QED BY <1>0, <1>4, <1>5, <2>1, <2>2 DEF EqualsInTurn
<1>8. CASE j = k + 1
  <2>1. i \in 1..k /\ i \in 1..Len(ready)
    BY <1>0, <1>2, <1>5, <1>6, <1>8
  <2>2. ready'[i] = ready[i] /\ ready'[j] = t
    BY <1>1, <1>8, <2>1
  <2> QED BY <1>3, <1>4, <2>1, <2>2
<1>9. CASE j > k + 1
  <2>1. j - 1 \in (k + 1)..Len(ready) /\ (j - 1) + 1 = j
    BY <1>a, <1>6, <1>9
  <2>2. ready'[j] = ready[j - 1] /\ Order(t) < Order(ready[j - 1]) /\ j - 1 \in DOMAIN ready
    BY <1>0, <1>1, <1>2, <2>1
  <2>3. CASE i > k + 1
    <3>1. i - 1 \in (k + 1)..Len(ready) /\ (i - 1) + 1 = i /\ i - 1 < j - 1
      BY <1>a, <1>6, <2>3
    <3>2. ready'[i] = ready[i - 1] /\ i - 1 \in DOMAIN ready
      BY <1>0, <1>1, <1>2, <3>1
    <3> QED BY <1>0, <1>4, <1>5, <2>2, <3>1, <3>2 DEF EqualsInTurn
  <2>4. CASE i = k + 1
    BY <1>0, <1>1, <1>2, <1>5, <2>2, <2>4
  <2>5. CASE i <= k
    <3>1. i \in 1..k /\ i \in 1..Len(ready)
      BY <1>0, <1>2, <1>6, <2>5
    <3>2. ready'[i] = ready[i] /\ Order(ready[i]) <= Order(t)
      BY <1>1, <3>1
    <3> QED BY <1>0, <1>2, <1>5, <2>2, <3>1, <3>2
  <2> QED BY <1>2, <1>6, <2>3, <2>4, <2>5
<1> QED BY <1>2, <1>6, <1>7, <1>8, <1>9

LEMMA RouterStepInv == RouterInv /\ [RouterNext]_routerVars => RouterInv'
<1> SUFFICES ASSUME RouterInv, [RouterNext]_routerVars PROVE RouterInv'
  OBVIOUS
<1>0. /\ ready \in Seq(Queued) /\ Len(ready) \in Nat /\ DOMAIN ready = 1..Len(ready)
      /\ known \subseteq Queued /\ IsFiniteSet(known) /\ OnePlace /\ UrgentFirst /\ EqualsInTurn
      /\ Apart /\ Arrived
  BY DEF RouterInv, TasksKeepTheirPlace
<1>1. known = ToSet(ready) \cup flight \cup finished
  BY <1>0 DEF OnePlace
<1>2. /\ IsFiniteSet(flight) /\ IsFiniteSet(finished)
      /\ Cardinality(flight) \in Nat /\ Cardinality(finished) \in Nat /\ Cardinality(known) \in Nat
  BY <1>0, <1>1, FS_Subset, FS_CardinalityType
<1>3. Len(ready) + Cardinality(flight) + Cardinality(finished) = Cardinality(known)
  BY <1>0 DEF OnePlace
<1>4. ASSUME NEW id \in Tasks, NEW priority \in DOMAIN PRIORITY_ORDER, enqueue(id, priority)
      PROVE  RouterInv'
  <2> DEFINE t == <<id, priority>>
  <2>1. /\ t \in Queued /\ t \notin known /\ known' = known \cup {t} /\ ready' = Pushed(t)
        /\ UNCHANGED <<flight, finished, nacks>> /\ Queues(t) /\ \A u \in known : u[1] # t[1]
    BY <1>4 DEF enqueue, Queued, Queues
  <2> HIDE DEF t
  <2>2. \A i \in DOMAIN ready : ready[i] # t
    BY <1>1, <2>1 DEF ToSet
  <2>3. /\ ready' \in Seq(Queued) /\ Len(ready') = Len(ready) + 1
        /\ ToSet(ready') = ToSet(ready) \cup {t} /\ UrgentFirst'
        /\ \A i, j \in DOMAIN ready' : ready'[i] = ready'[j] => i = j
    BY <2>1, <2>2, PushedInv
  <2>4. IsFiniteSet(known') /\ Cardinality(known') = Cardinality(known) + 1
    BY <1>0, <2>1, FS_AddElement
  <2>5. OnePlace'
    BY <1>1, <1>2, <1>3, <2>1, <2>3, <2>4 DEF OnePlace
  <2>6. \A i \in DOMAIN ready' : ready'[i] \in ToSet(ready) \cup {t}
    BY <2>3 DEF ToSet
  <2>7. Apart'
    BY <1>0, <1>1, <2>1, <2>3, <2>6 DEF Apart, ToSet
  <2>8. Arrived'
    <3>0. nacks \in Nat /\ nacks' = nacks
      BY <1>0, <2>1 DEF Arrived
    <3>1. Pushes \in Nat /\ Pushes' = Pushes + 1
      BY <1>2, <2>4, <3>0 DEF Pushes
    <3>2. t[1] \in Tasks /\ \A u \in known : u[1] \in Tasks
      BY <1>0, <2>1 DEF Queued
    <3>3. came' \in [Tasks -> Nat] /\ came'[t[1]] = Pushes /\ \A u \in known : came'[u[1]] = came[u[1]]
      BY <1>0, <2>1, <3>1, <3>2 DEF Queues, Arrived
    <3>4. \A u \in known' : came'[u[1]] < Pushes'
      BY <1>0, <2>1, <3>1, <3>2, <3>3 DEF Arrived
    <3> QED BY <1>0, <2>1, <3>3, <3>4 DEF Arrived
  <2>9. EqualsInTurn'
    <3>1. Pushes \in Nat
      BY <1>0, <1>2 DEF Pushes, Arrived
    <3>2. \A i \in DOMAIN ready : ready[i] \in known /\ ready[i][1] # t[1]
      BY <1>1, <2>1 DEF ToSet
    <3> QED BY <2>1, <3>1, <3>2, PushedInTurn
  <2> QED BY <1>0, <2>1, <2>3, <2>4, <2>5, <2>7, <2>8, <2>9 DEF RouterInv, TasksKeepTheirPlace
<1>5. CASE dequeue
  <2>1. /\ ready # <<>> /\ ready' = Tail(ready) /\ flight' = flight \cup {ready[1]}
        /\ UNCHANGED <<finished, known, nacks, came>> /\ Head(ready) = ready[1]
    BY <1>0, <1>5 DEF dequeue
  <2>2. /\ Len(ready) >= 1 /\ ready' \in Seq(Queued) /\ Len(ready') = Len(ready) - 1
        /\ \A i \in 1..(Len(ready) - 1) : ready'[i] = ready[i + 1] /\ i + 1 \in DOMAIN ready
        /\ DOMAIN ready' = 1..(Len(ready) - 1)
    BY <1>0, <2>1
  <2>3. ToSet(ready) = ToSet(ready') \cup {ready[1]}
    <3>1. ASSUME NEW i \in DOMAIN ready PROVE ready[i] \in ToSet(ready') \cup {ready[1]}
      <4>1. CASE i # 1
        <5>1. i - 1 \in 1..(Len(ready) - 1) /\ (i - 1) + 1 = i
          BY <1>0, <4>1
        <5>2. ready'[i - 1] = ready[i] /\ i - 1 \in DOMAIN ready'
          BY <2>2, <5>1
        <5> QED BY <5>2 DEF ToSet
      <4> QED BY <4>1
    <3>2. 1 \in DOMAIN ready
      BY <1>0, <2>2
    <3> QED BY <2>2, <3>1, <3>2 DEF ToSet
  <2>4. ready[1] \notin flight /\ ready[1] \notin finished
    BY <1>0, <2>2 DEF Apart
  <2>5. Cardinality(flight') = Cardinality(flight) + 1
    BY <1>2, <2>1, <2>4, FS_AddElement
  <2>6. OnePlace'
    BY <1>0, <1>1, <1>2, <1>3, <2>1, <2>2, <2>3, <2>5 DEF OnePlace
  <2>7. \A i \in DOMAIN ready' : ready'[i] # ready[1]
    BY <1>0, <2>2 DEF Apart
  <2>8. \A i, j \in DOMAIN ready' : ready'[i] = ready'[j] => i = j
    <3>1. SUFFICES ASSUME NEW i \in DOMAIN ready', NEW j \in DOMAIN ready', ready'[i] = ready'[j] PROVE i = j
      OBVIOUS
    <3>2. i + 1 \in DOMAIN ready /\ j + 1 \in DOMAIN ready /\ ready[i + 1] = ready[j + 1] /\ i \in Int /\ j \in Int
      BY <2>2, <3>1
    <3>3. i + 1 = j + 1
      BY <1>0, <3>2 DEF Apart
    <3> QED BY <3>2, <3>3
  <2>9. Apart'
    BY <1>0, <2>1, <2>2, <2>4, <2>7, <2>8 DEF Apart
  <2>10. UrgentFirst'
    <3>1. SUFFICES ASSUME NEW i \in DOMAIN ready', NEW j \in DOMAIN ready', i < j
                   PROVE  Order(ready'[i]) <= Order(ready'[j])
      BY DEF UrgentFirst, Order
    <3>2. i + 1 \in DOMAIN ready /\ j + 1 \in DOMAIN ready /\ i + 1 < j + 1
          /\ ready'[i] = ready[i + 1] /\ ready'[j] = ready[j + 1]
      BY <1>0, <2>2, <3>1
    <3> QED BY <1>0, <3>2 DEF UrgentFirst
  <2>11. EqualsInTurn'
    <3>1. SUFFICES ASSUME NEW i \in DOMAIN ready', NEW j \in DOMAIN ready', i < j,
                          Order(ready'[i]) = Order(ready'[j])
                   PROVE  came[ready'[i][1]] < came[ready'[j][1]]
      BY <2>1 DEF EqualsInTurn, Order
    <3>2. i + 1 \in DOMAIN ready /\ j + 1 \in DOMAIN ready /\ i + 1 < j + 1
          /\ ready'[i] = ready[i + 1] /\ ready'[j] = ready[j + 1]
      BY <1>0, <2>2, <3>1
    <3> QED BY <1>0, <3>1, <3>2 DEF EqualsInTurn
  <2>12. Arrived'
    BY <1>0, <2>1 DEF Arrived, Pushes
  <2> QED BY <1>0, <2>1, <2>2, <2>6, <2>9, <2>10, <2>11, <2>12 DEF RouterInv, TasksKeepTheirPlace
<1>6. ASSUME NEW t \in flight, Rack(t) PROVE RouterInv'
  <2>1. flight' = flight \ {t} /\ finished' = finished \cup {t} /\ UNCHANGED <<ready, known, nacks, came>>
    BY <1>6 DEF Rack
  <2>2. t \notin finished
    BY <1>0, <1>6 DEF Apart
  <2>3. Cardinality(flight') = Cardinality(flight) - 1 /\ Cardinality(finished') = Cardinality(finished) + 1
    BY <1>2, <1>6, <2>1, <2>2, FS_AddElement, FS_RemoveElement
  <2>4. OnePlace'
    BY <1>0, <1>1, <1>2, <1>3, <1>6, <2>1, <2>3 DEF OnePlace
  <2>5. Apart'
    BY <1>0, <1>6, <2>1 DEF Apart
  <2>6. UrgentFirst' /\ EqualsInTurn' /\ Arrived'
    BY <1>0, <2>1 DEF UrgentFirst, EqualsInTurn, Arrived, Pushes, Order
  <2> QED BY <1>0, <2>1, <2>4, <2>5, <2>6 DEF RouterInv, TasksKeepTheirPlace
<1>7. ASSUME NEW t \in flight, Rnack(t) PROVE RouterInv'
  <2>1. /\ flight' = flight \ {t} /\ ready' = Pushed(t) /\ UNCHANGED <<finished, known>>
        /\ nacks' = nacks + 1 /\ Queues(t)
    BY <1>7 DEF Rnack, Queues
  <2>2. t \in Queued /\ t \notin finished /\ \A i \in DOMAIN ready : ready[i] # t
    BY <1>0, <1>1, <1>7 DEF Apart
  <2>3. /\ ready' \in Seq(Queued) /\ Len(ready') = Len(ready) + 1
        /\ ToSet(ready') = ToSet(ready) \cup {t} /\ UrgentFirst'
        /\ \A i, j \in DOMAIN ready' : ready'[i] = ready'[j] => i = j
    BY <2>1, <2>2, PushedInv
  <2>4. Cardinality(flight') = Cardinality(flight) - 1
    BY <1>2, <1>7, <2>1, FS_RemoveElement
  <2>5. OnePlace'
    BY <1>1, <1>2, <1>3, <1>7, <2>1, <2>3, <2>4 DEF OnePlace
  <2>6. \A i \in DOMAIN ready' : ready'[i] \in ToSet(ready) \cup {t}
    BY <2>3 DEF ToSet
  <2>7. Apart'
    BY <1>0, <2>1, <2>2, <2>3, <2>6 DEF Apart, ToSet
  <2>8. t \in known /\ t[1] \in Tasks /\ \A u \in known : u[1] \in Tasks
    BY <1>0, <1>1, <1>7 DEF Queued
  <2>9. Pushes \in Nat /\ Pushes' = Pushes + 1
    BY <1>0, <1>2, <2>1 DEF Pushes, Arrived
  <2>10. Arrived'
    <3>1. came' \in [Tasks -> Nat] /\ came'[t[1]] = Pushes
          /\ \A u \in known : u[1] # t[1] => came'[u[1]] = came[u[1]]
      BY <1>0, <2>1, <2>8, <2>9 DEF Queues, Arrived
    <3>2. \A u \in known' : came'[u[1]] < Pushes'
      BY <1>0, <2>1, <2>8, <2>9, <3>1 DEF Arrived
    <3> QED BY <1>0, <2>1, <3>1, <3>2 DEF Arrived
  <2>11. EqualsInTurn'
    <3>1. \A i \in DOMAIN ready : ready[i] \in known
      BY <1>1 DEF ToSet
    <3>2. \A i \in DOMAIN ready : ready[i][1] # t[1]
      BY <1>0, <2>2, <2>8, <3>1 DEF Arrived
    <3> QED BY <2>1, <2>2, <2>9, <3>1, <3>2, PushedInTurn
  <2> QED BY <1>0, <2>1, <2>3, <2>5, <2>7, <2>10, <2>11 DEF RouterInv, TasksKeepTheirPlace
<1>8. CASE UNCHANGED routerVars
  BY <1>0, <1>8 DEF routerVars, RouterInv, TasksKeepTheirPlace, OnePlace, UrgentFirst, EqualsInTurn, Order,
                    Apart, Arrived, Pushes
<1> QED BY <1>4, <1>5, <1>6, <1>7, <1>8 DEF RouterNext

\* However tasks are enqueued, delivered, acked and requeued, none is lost or doubled,
\* and none waits before a more urgent one or an equal that came earlier (the ready list
\* and the flight map of InMemoryRedisRouterStub).
THEOREM TasksStayInPlace == RouterSpec => []TasksKeepTheirPlace
<1>1. RouterInit => RouterInv
  BY FS_EmptySet DEF RouterInit, RouterInv, TasksKeepTheirPlace, OnePlace, UrgentFirst, EqualsInTurn, Apart,
                     Arrived, Pushes, ToSet
<1>2. RouterInv => TasksKeepTheirPlace
  BY DEF RouterInv
<1> QED BY <1>1, <1>2, RouterStepInv, PTL DEF RouterSpec

-----------------------------------------------------------------------------
(* The Kafka queue: a group's offset, the consumer the topic is assigned to, and
   the state ack and nack find. *)
Stages == {"starting", "running", "off"}
KConsumer == [group : KGroups, stage : Stages, at : Nat \cup {NoOne}, busy : BOOLEAN,
              inFlight : SUBSET Nat, closed : BOOLEAN]

KafkaTypes ==
  /\ topic \in Seq(Nat) /\ sends \in Nat /\ pending \subseteq 1..sends
  /\ \A i \in DOMAIN topic : topic[i] \in 0..sends
  /\ committed \in [KGroups -> Nat \cup {NoOne}] /\ began \in [KGroups -> Nat \cup {NoOne}]
  /\ consumers \in Seq(KConsumer) /\ current \in [KGroups -> Nat \cup {NoOne}]
  /\ handed \in [KGroups -> SUBSET Nat] /\ swallowed \in [KGroups -> SUBSET Nat] /\ shadowed \subseteq KGroups

\* What a group has committed is accounted for, from where it began.
Offsets(g) ==
  /\ committed[g] # NoOne => /\ began[g] # NoOne /\ committed[g] <= Len(topic)
                             /\ \A o \in began[g]..committed[g] - 1 : Accounted(g, o)
  /\ committed[g] = NoOne => began[g] = NoOne
  /\ current[g] # NoOne => current[g] \in DOMAIN consumers /\ consumers[current[g]].group = g

\* A consumer with the topic is running and at what its group has committed, if
\* anything; the message at work is accounted for; the one consumer of a group nobody
\* shadowed is its entry.
Placed(c) ==
  LET k == consumers[c] IN
  /\ k.inFlight \subseteq 1..sends
  /\ k.at # NoOne => k.stage = "running" /\ (committed[k.group] # NoOne => k.at = committed[k.group])
  /\ k.busy => k.at # NoOne /\ k.at < Len(topic) /\ Accounted(k.group, k.at)
  /\ k.group \notin shadowed => ~k.closed /\ current[k.group] = c

Alone ==
  \A c, d \in DOMAIN consumers :
    consumers[c].group = consumers[d].group /\ consumers[c].at # NoOne /\ consumers[d].at # NoOne => c = d

KafkaInv ==
  /\ KafkaTypes
  /\ \A g \in KGroups : Offsets(g)
  /\ \A c \in DOMAIN consumers : Placed(c)
  /\ Alone

\* A consumer replaced by another record of the same group.
LEMMA ReplacedIs ==
  ASSUME NEW q \in Seq(KConsumer), NEW c \in DOMAIN q, NEW k \in KConsumer
  PROVE  LET r == [q EXCEPT ![c] = k] IN
         /\ r \in Seq(KConsumer) /\ Len(r) = Len(q) /\ DOMAIN r = DOMAIN q /\ r[c] = k
         /\ \A d \in DOMAIN q : d # c => r[d] = q[d]
OBVIOUS

LEMMA NoOneIsNoOffset == NoOne \notin Nat
BY KafkaAssumption

\* What is in the topic stays; a send or a foreign message comes behind it.
LEMMA Appended ==
  ASSUME NEW q \in Seq(Nat), NEW m \in Nat
  PROVE  LET r == Append(q, m) IN
         /\ r \in Seq(Nat) /\ Len(r) = Len(q) + 1 /\ Len(q) \in Nat
         /\ \A i \in DOMAIN r : r[i] = m \/ (i \in DOMAIN q /\ r[i] = q[i])
         /\ \A o \in Nat : o < Len(q) => r[o + 1] = q[o + 1]
OBVIOUS

\* The steps that leave the consumers alone: a publish and what becomes of a send.
LEMMA SendsKeep ==
  ASSUME KafkaInv, Kpublish \/ Foreign \/ \E m \in pending : Sent(m) \/ SendFails(m) PROVE KafkaInv'
<1>1. UNCHANGED <<committed, began, consumers, current, handed, swallowed, shadowed>>
  BY DEF Kpublish, Foreign, Sent, SendFails
<1>0. /\ topic \in Seq(Nat) /\ sends \in Nat /\ pending \subseteq 1..sends /\ Len(topic) \in Nat
      /\ \A i \in DOMAIN topic : topic[i] \in 0..sends
  BY DEF KafkaInv, KafkaTypes
<1>2. /\ topic' \in Seq(Nat) /\ sends' \in Nat /\ sends <= sends' /\ pending' \subseteq 1..sends'
      /\ Len(topic') \in Nat /\ Len(topic) <= Len(topic') /\ \A i \in DOMAIN topic' : topic'[i] \in 0..sends'
      /\ \A o \in Nat : o < Len(topic) => topic'[o + 1] = topic[o + 1]
  <2>1. CASE Kpublish
    BY <1>0, <2>1 DEF Kpublish
  <2>2. CASE Foreign \/ \E m \in pending : Sent(m)
    <3>1. PICK m \in 0..sends : topic' = Append(topic, m) /\ pending' \subseteq pending /\ sends' = sends
      BY <1>0, <2>2 DEF Foreign, Sent, Undecodable
    <3>2. m \in Nat
      BY <1>0, <3>1
    <3> QED BY <1>0, <3>1, <3>2, Appended
  <2>3. CASE \E m \in pending : SendFails(m)
    BY <1>0, <2>3 DEF SendFails
  <2> QED BY <2>1, <2>2, <2>3
<1>3. KafkaTypes'
  BY <1>1, <1>2 DEF KafkaInv, KafkaTypes
<1>a. ASSUME NEW g \in KGroups, NEW o \in Nat, o < Len(topic), Accounted(g, o) PROVE Accounted(g, o)'
  BY <1>1, <1>2, <1>a DEF Accounted
<1>4. ASSUME NEW g \in KGroups PROVE Offsets(g)'
  <2>1. committed[g] \in Nat \cup {NoOne} /\ began[g] \in Nat \cup {NoOne} /\ Offsets(g)
    BY DEF KafkaInv, KafkaTypes
  <2>2. ASSUME committed[g] # NoOne PROVE \A o \in began[g]..committed[g] - 1 : Accounted(g, o)'
    <3>1. began[g] \in Nat /\ committed[g] \in Nat /\ committed[g] <= Len(topic)
      BY <2>1, <2>2 DEF Offsets
    <3>2. ASSUME NEW o \in began[g]..committed[g] - 1 PROVE Accounted(g, o)'
      <4>1. o \in Nat /\ o < Len(topic) /\ Accounted(g, o)
        BY <1>0, <2>1, <2>2, <3>1 DEF Offsets
      <4> QED BY <1>a, <4>1
    <3> QED BY <3>2
  <2> QED BY <1>0, <1>1, <1>2, <2>1, <2>2, NoOneIsNoOffset DEF Offsets
<1>5. ASSUME NEW c \in DOMAIN consumers PROVE Placed(c)'
  <2>0. Placed(c) /\ consumers[c] \in KConsumer
    BY DEF KafkaInv, KafkaTypes
  <2>1. consumers[c].at \in Nat \cup {NoOne} /\ consumers[c].group \in KGroups
    BY <2>0 DEF KConsumer
  <2>2. 1..sends \subseteq 1..sends'
    BY <1>0, <1>2
  <2>3. ASSUME consumers[c].busy
        PROVE  consumers[c].at # NoOne /\ consumers[c].at < Len(topic') /\ Accounted(consumers[c].group, consumers[c].at)'
    <3>1. /\ consumers[c].at # NoOne /\ consumers[c].at < Len(topic) /\ consumers[c].at \in Nat
          /\ Accounted(consumers[c].group, consumers[c].at)
      BY <2>0, <2>1, <2>3 DEF Placed
    <3>2. PICK h \in KGroups, o \in Nat : h = consumers[c].group /\ o = consumers[c].at
      BY <2>1, <3>1
    <3>3. Accounted(h, o)'
      BY <1>a, <3>1, <3>2
    <3> QED BY <1>0, <1>1, <1>2, <3>1, <3>2, <3>3
  <2> QED BY <1>1, <2>0, <2>2, <2>3 DEF Placed
<1>6. Alone'
  BY <1>1 DEF KafkaInv, Alone
<1> QED BY <1>1, <1>3, <1>4, <1>5, <1>6 DEF KafkaInv

LEMMA SubscribeKeeps ==
  ASSUME KafkaInv, NEW g \in KGroups, Ksubscribe(g) PROVE KafkaInv'
<1> DEFINE n == Len(consumers) + 1
<1>k. PICK k : k = NewConsumer(g)
  OBVIOUS
<1>1. /\ k \in KConsumer /\ k.group = g /\ k.at = NoOne /\ k.busy = FALSE /\ k.inFlight = {} /\ k.closed = FALSE
      /\ consumers' = Append(consumers, k)
      /\ UNCHANGED <<topic, committed, began, pending, sends, handed, swallowed>>
      /\ current' = [current EXCEPT ![g] = Len(consumers')]
      /\ shadowed' = IF \E c \in DOMAIN consumers : consumers[c].group = g THEN shadowed \cup {g} ELSE shadowed
  BY <1>k DEF Ksubscribe, NewConsumer, KConsumer, Stages
<1>2. KafkaTypes
  BY DEF KafkaInv
<1>3. /\ consumers' \in Seq(KConsumer) /\ Len(consumers') = n /\ n \in Nat
      /\ DOMAIN consumers' = DOMAIN consumers \cup {n} /\ n \notin DOMAIN consumers
      /\ consumers'[n] = k /\ \A c \in DOMAIN consumers : consumers'[c] = consumers[c]
  BY <1>1, <1>2 DEF KafkaTypes
<1> HIDE DEF n
<1>5. /\ current' \in [KGroups -> Nat \cup {NoOne}] /\ current'[g] = n
      /\ \A h \in KGroups \ {g} : current'[h] = current[h]
  BY <1>1, <1>2, <1>3 DEF KafkaTypes
<1>6. KafkaTypes'
  BY <1>1, <1>2, <1>3, <1>5 DEF KafkaTypes
<1>7. ASSUME NEW h \in KGroups PROVE Offsets(h)'
  BY <1>1, <1>3, <1>5 DEF KafkaInv, Offsets, Accounted
<1>8. ASSUME NEW c \in DOMAIN consumers' PROVE Placed(c)'
  <2>1. CASE c = n
    BY <1>1, <1>3, <1>5, <2>1 DEF Placed
  <2>2. CASE c # n
    <3>1. c \in DOMAIN consumers /\ consumers'[c] = consumers[c] /\ Placed(c) /\ consumers[c] \in KConsumer
      BY <1>2, <1>3, <2>2 DEF KafkaInv, KafkaTypes
    <3>2. consumers[c].group \in KGroups /\ (consumers[c].group \notin shadowed' => consumers[c].group # g)
      BY <1>1, <3>1 DEF KConsumer
    <3> QED BY <1>1, <1>5, <3>1, <3>2 DEF Placed, Accounted
  <2> QED BY <2>1, <2>2
<1>9. Alone'
  BY <1>1, <1>3 DEF KafkaInv, Alone
<1> QED BY <1>6, <1>7, <1>8, <1>9 DEF KafkaInv

\* Nobody else of the group has the topic.
Sole(c, g) == \A d \in DOMAIN consumers : consumers[d].group = g /\ d # c => consumers[d].at = NoOne

\* A step of one consumer keeps the invariant if it keeps that consumer's and its
\* group's part, and takes the topic or commits only when nobody else of the group has it.
LEMMA OneMoves ==
  ASSUME KafkaInv, NEW c \in DOMAIN consumers, NEW g, g = consumers[c].group, NEW k \in KConsumer, k.group = g,
         consumers' = [consumers EXCEPT ![c] = k], UNCHANGED <<topic, sends>>,
         pending' \subseteq 1..sends,
         committed' \in [KGroups -> Nat \cup {NoOne}], began' \in [KGroups -> Nat \cup {NoOne}],
         handed' \in [KGroups -> SUBSET Nat], swallowed' \in [KGroups -> SUBSET Nat],
         current' \in [KGroups -> Nat \cup {NoOne}],
         \A h \in KGroups \ {g} : committed'[h] = committed[h] /\ began'[h] = began[h] /\ current'[h] = current[h],
         \A h \in KGroups : handed[h] \subseteq handed'[h] /\ swallowed[h] \subseteq swallowed'[h],
         shadowed \subseteq shadowed', shadowed' \subseteq shadowed \cup {g},
         current'[g] = current[g] \/ g \in shadowed',
         committed'[g] = committed[g] \/ Sole(c, g),
         k.at # NoOne => Sole(c, g),
         Offsets(g)', Placed(c)'
  PROVE  KafkaInv'
<1>1. KafkaTypes /\ consumers \in Seq(KConsumer) /\ g \in KGroups
  BY DEF KafkaInv, KafkaTypes, KConsumer
<1>2. /\ consumers' \in Seq(KConsumer) /\ DOMAIN consumers' = DOMAIN consumers /\ consumers'[c] = k
      /\ \A d \in DOMAIN consumers : d # c => consumers'[d] = consumers[d]
  BY <1>1, ReplacedIs
<1>3. KafkaTypes'
  BY <1>1, <1>2 DEF KafkaTypes
<1>a. ASSUME NEW h \in KGroups, NEW o, Accounted(h, o) PROVE Accounted(h, o)'
  BY <1>a DEF Accounted
<1>4. ASSUME NEW h \in KGroups PROVE Offsets(h)'
  <2>1. CASE h # g
    <3>1. Offsets(h)
      BY DEF KafkaInv
    <3>2. committed'[h] = committed[h] /\ began'[h] = began[h] /\ current'[h] = current[h] /\ topic' = topic
      BY <2>1
    <3>3. \A d \in DOMAIN consumers : consumers'[d].group = consumers[d].group
      BY <1>2
    <3> QED BY <1>2, <1>a, <3>1, <3>2, <3>3 DEF Offsets
  <2> QED BY <2>1
<1>5. ASSUME NEW d \in DOMAIN consumers, d # c PROVE Placed(d)'
  <2>1. consumers[d] \in KConsumer
    BY <1>1
  <2>2. Placed(d) /\ consumers'[d] = consumers[d] /\ consumers[d].group \in KGroups
    BY <1>2, <1>5, <2>1 DEF KafkaInv, KConsumer
  <2>3. consumers[d].group \notin shadowed' => current'[consumers[d].group] = current[consumers[d].group]
    BY <2>2
  <2>4. consumers[d].at # NoOne => committed'[consumers[d].group] = committed[consumers[d].group]
    BY <1>5, <2>2 DEF Sole
  <2> QED BY <1>a, <2>2, <2>3, <2>4 DEF Placed
<1>6. Alone'
  BY <1>2 DEF KafkaInv, Alone, Sole
<1> QED BY <1>2, <1>3, <1>4, <1>5, <1>6 DEF KafkaInv

\* Where a consumer stands: what each action needs of its types and its group.
Stands(c, g) ==
  /\ consumers \in Seq(KConsumer) /\ consumers[c] \in KConsumer /\ g \in KGroups /\ Placed(c) /\ Offsets(g)
  /\ g = consumers[c].group /\ consumers[c].at \in Nat \cup {NoOne}
  /\ consumers[c].at # NoOne => c \in Members(g) /\ Sole(c, g)
  /\ topic \in Seq(Nat) /\ Len(topic) \in Nat /\ sends \in Nat /\ pending \subseteq 1..sends
  /\ \A i \in DOMAIN topic : topic[i] \in 0..sends
  /\ committed \in [KGroups -> Nat \cup {NoOne}] /\ began \in [KGroups -> Nat \cup {NoOne}]
  /\ handed \in [KGroups -> SUBSET Nat] /\ swallowed \in [KGroups -> SUBSET Nat]
  /\ current \in [KGroups -> Nat \cup {NoOne}] /\ shadowed \subseteq KGroups
LEMMA StandsAt ==
  ASSUME KafkaInv, NEW c \in DOMAIN consumers, NEW g, g = consumers[c].group
  PROVE  Stands(c, g)
<1>1. /\ consumers[c] \in KConsumer /\ Placed(c) /\ KafkaTypes /\ Alone /\ \A h \in KGroups : Offsets(h)
  BY DEF KafkaInv, KafkaTypes
<1>2. consumers[c].group \in KGroups /\ consumers[c].at \in Nat \cup {NoOne}
  BY <1>1 DEF KConsumer
<1>3. consumers[c].at # NoOne => c \in Members(g) /\ Sole(c, g)
  BY <1>1, <1>2 DEF Placed, Members, Alone, Sole
<1> QED BY <1>1, <1>2, <1>3 DEF KafkaTypes, Stands

\* The part of a group's own that a step of its consumer leaves alone.
LEMMA OffsetsKept ==
  ASSUME NEW c \in DOMAIN consumers, NEW g \in KGroups, Stands(c, g), NEW k \in KConsumer, k.group = g,
         consumers' = [consumers EXCEPT ![c] = k],
         UNCHANGED <<topic, committed, began>>, current'[g] \in {current[g], NoOne},
         handed[g] \subseteq handed'[g], swallowed[g] \subseteq swallowed'[g]
  PROVE  Offsets(g)' /\ consumers'[c] = k
<1>1. /\ DOMAIN consumers' = DOMAIN consumers /\ consumers'[c] = k
      /\ \A d \in DOMAIN consumers : consumers'[d].group = consumers[d].group
  <2>1. /\ DOMAIN consumers' = DOMAIN consumers /\ consumers'[c] = k
        /\ \A d \in DOMAIN consumers : d # c => consumers'[d] = consumers[d]
    BY ReplacedIs DEF Stands
  <2> QED BY <2>1 DEF Stands
<1> QED BY <1>1 DEF Stands, Offsets, Accounted

\* A step that changes a consumer's record and commits nothing.
LEMMA RecordMoves ==
  ASSUME KafkaInv, NEW c \in DOMAIN consumers, NEW g, g = consumers[c].group, NEW k \in KConsumer, k.group = g,
         consumers' = [consumers EXCEPT ![c] = k], UNCHANGED <<topic, sends, committed, began, handed, swallowed>>,
         pending' \subseteq 1..sends, current' \in {current, [current EXCEPT ![g] = NoOne]},
         shadowed' \in {shadowed, shadowed \cup {g}}, current' = current \/ g \in shadowed',
         k.at # NoOne => /\ Sole(c, g) /\ k.stage = "running"
                         /\ committed[g] # NoOne => k.at = committed[g],
         k.busy => k.at = consumers[c].at /\ consumers[c].busy,
         k.closed = consumers[c].closed \/ g \in shadowed',
         k.inFlight \subseteq consumers[c].inFlight
  PROVE  KafkaInv'
<1>1. Stands(c, g)
  BY StandsAt
<1>2. /\ current' \in [KGroups -> Nat \cup {NoOne}] /\ current'[g] \in {current[g], NoOne}
      /\ \A h \in KGroups \ {g} : current'[h] = current[h]
  BY <1>1 DEF Stands
<1>3. Offsets(g)' /\ consumers'[c] = k
  BY <1>1, <1>2, OffsetsKept DEF Stands
<1>4. Placed(c)'
  <2>1. k.busy => k.at # NoOne /\ k.at < Len(topic) /\ Accounted(g, k.at)
    BY <1>1 DEF Stands, Placed
  <2>2. g \notin shadowed' => ~k.closed /\ current'[g] = c
    BY <1>1 DEF Stands, Placed
  <2> QED BY <1>1, <1>3, <2>1, <2>2 DEF Stands, Placed, Accounted
<1> QED BY <1>1, <1>2, <1>3, <1>4, OneMoves DEF Stands

\* A consumer's record with some fields written over is a record of the same group.
Written(e, s, at, b, f, x) ==
  [e EXCEPT !.stage = s, !.at = at, !.busy = b, !.inFlight = f, !.closed = x]
LEMMA RecordIs ==
  ASSUME NEW e \in KConsumer, NEW s \in Stages, NEW at \in Nat \cup {NoOne}, NEW b \in BOOLEAN,
         NEW f \in SUBSET Nat, NEW x \in BOOLEAN, NEW k,
         k = Written(e, s, at, b, f, x)
  PROVE  /\ k \in KConsumer /\ k.group = e.group /\ k.stage = s /\ k.at = at /\ k.busy = b
         /\ k.inFlight = f /\ k.closed = x
BY DEF KConsumer, Written

LEMMA QuietStepsKeep ==
  ASSUME KafkaInv, NEW c \in DOMAIN consumers, Ready(c) \/ Revoke(c) \/ GivenAgain(c) \/ Kclose(c) \/ Disconnect(c)
  PROVE  KafkaInv'
<1>g. PICK g, e : g = consumers[c].group /\ e = consumers[c]
  OBVIOUS
<1>0. Stands(c, g)
  BY <1>g, StandsAt
<1>e. /\ e \in KConsumer /\ e.stage \in Stages /\ e.at \in Nat \cup {NoOne} /\ e.busy \in BOOLEAN
      /\ e.inFlight \in SUBSET Nat /\ e.closed \in BOOLEAN
      /\ (e.at # NoOne => e.stage = "running") /\ (e.busy => e.at # NoOne)
  BY <1>0, <1>g DEF Stands, Placed, KConsumer
<1>1. PICK s \in Stages, at \in {e.at, NoOne}, b \in BOOLEAN, x \in BOOLEAN :
        /\ consumers' = [consumers EXCEPT
                           ![c] = Written(e, s, at, b, e.inFlight, x)]
        /\ (at # NoOne => s = "running") /\ (b => at = e.at /\ e.busy) /\ (x = e.closed \/ g \in shadowed')
  <2>1. CASE Ready(c)
    <3>1. PICK s \in Stages : consumers' = [consumers EXCEPT ![c].stage = s]
      BY <2>1 DEF Ready, Stages
    <3>2. e.at = NoOne
      BY <1>e, <1>g, <2>1 DEF Ready
    <3>3. [e EXCEPT !.stage = s] = Written(e, s, e.at, e.busy, e.inFlight, e.closed)
      BY <1>e DEF KConsumer, Written
    <3>4. consumers' = [consumers EXCEPT ![c] = [e EXCEPT !.stage = s]]
      BY <1>g, <3>1
    <3> QED BY <1>e, <3>2, <3>3, <3>4
  <2>2. CASE Revoke(c)
    <3>1. [e EXCEPT !.at = NoOne, !.busy = FALSE]
            = Written(e, e.stage, NoOne, FALSE, e.inFlight, e.closed)
      BY <1>e DEF KConsumer, Written
    <3>2. consumers' = [consumers EXCEPT ![c] = [e EXCEPT !.at = NoOne, !.busy = FALSE]]
      BY <1>g, <2>2 DEF Revoke
    <3> QED BY <1>e, <3>1, <3>2
  <2>3. CASE GivenAgain(c)
    <3>1. [e EXCEPT !.busy = FALSE]
            = Written(e, e.stage, e.at, FALSE, e.inFlight, e.closed)
      BY <1>e DEF KConsumer, Written
    <3>2. consumers' = [consumers EXCEPT ![c] = [e EXCEPT !.busy = FALSE]]
      BY <1>g, <2>3 DEF GivenAgain
    <3> QED BY <1>e, <3>1, <3>2
  <2>4. CASE Kclose(c)
    <3>1. [e EXCEPT !.closed = TRUE]
            = Written(e, e.stage, e.at, e.busy, e.inFlight, TRUE)
      BY <1>e DEF KConsumer, Written
    <3>2. consumers' = [consumers EXCEPT ![c] = [e EXCEPT !.closed = TRUE]] /\ g \in shadowed'
      BY <1>0, <1>g, <2>4 DEF Kclose
    <3> QED BY <1>e, <3>1, <3>2
  <2>5. CASE Disconnect(c)
    <3>1. "off" \in Stages
      BY DEF Stages
    <3>2. [e EXCEPT !.stage = "off", !.at = NoOne, !.busy = FALSE]
            = Written(e, "off", NoOne, FALSE, e.inFlight, e.closed)
      BY <1>e DEF KConsumer, Written
    <3>3. consumers' = [consumers EXCEPT ![c] = [e EXCEPT !.stage = "off", !.at = NoOne, !.busy = FALSE]]
      BY <1>g, <2>5 DEF Disconnect
    <3> QED BY <1>e, <3>1, <3>2, <3>3
  <2> QED BY <2>1, <2>2, <2>3, <2>4, <2>5
<1>k. PICK k : k = Written(e, s, at, b, e.inFlight, x)
  OBVIOUS
<1>4. /\ k \in KConsumer /\ k.group = g /\ k.stage = s /\ k.at = at /\ k.busy = b
      /\ k.inFlight = e.inFlight /\ k.closed = x
  BY <1>e, <1>k, <1>g, <1>1, RecordIs
<1>2. /\ UNCHANGED <<topic, sends, committed, began, handed, swallowed, pending>>
      /\ current' \in {current, [current EXCEPT ![g] = NoOne]}
      /\ shadowed' \in {shadowed, shadowed \cup {g}} /\ (current' = current \/ g \in shadowed')
  BY <1>g DEF Ready, Revoke, GivenAgain, Kclose, Disconnect
<1>3. k.at # NoOne => Sole(c, g) /\ (committed[g] # NoOne => k.at = committed[g])
  BY <1>0, <1>1, <1>4, <1>g DEF Stands, Placed
<1>5. pending' \subseteq 1..sends
  BY <1>0, <1>2 DEF Stands
<1>6. /\ g = consumers[c].group /\ consumers' = [consumers EXCEPT ![c] = k]
      /\ (k.at # NoOne => k.stage = "running") /\ (k.busy => k.at = consumers[c].at /\ consumers[c].busy)
      /\ (k.closed = consumers[c].closed \/ g \in shadowed') /\ k.inFlight \subseteq consumers[c].inFlight
  BY <1>1, <1>4, <1>g, <1>k
<1> QED BY <1>2, <1>3, <1>4, <1>5, <1>6, RecordMoves

LEMMA AssignKeeps ==
  ASSUME KafkaInv, NEW c \in DOMAIN consumers, Assign(c) PROVE KafkaInv'
<1>g. PICK g : g = consumers[c].group
  OBVIOUS
<1>0. Stands(c, g)
  BY <1>g, StandsAt
<1>1. PICK o \in IF committed[g] = NoOne THEN {0, Len(topic)} ELSE {committed[g]} :
        /\ consumers' = [consumers EXCEPT ![c].at = o] /\ c \in Members(g)
        /\ \A d \in Members(g) : consumers[d].at = NoOne
        /\ UNCHANGED <<topic, committed, began, pending, sends, current, handed, swallowed, shadowed>>
  BY <1>g DEF Assign
<1>2. o \in Nat
  BY <1>0, <1>1 DEF Stands
<1>k. PICK k : k = [consumers[c] EXCEPT !.at = o]
  OBVIOUS
<1>3. /\ consumers' = [consumers EXCEPT ![c] = k] /\ k \in KConsumer /\ k.group = g /\ k.at = o
      /\ k.busy = consumers[c].busy /\ k.closed = consumers[c].closed /\ k.inFlight = consumers[c].inFlight
      /\ k.stage = "running" /\ ~k.busy
  BY <1>0, <1>1, <1>2, <1>k DEF KConsumer, Stands, Members, Placed
<1>4. Sole(c, g)
  <2>1. ASSUME NEW d \in DOMAIN consumers, consumers[d].group = g, consumers[d].at # NoOne PROVE FALSE
    <3>1. Stands(d, g)
      BY <2>1, StandsAt
    <3> QED BY <1>1, <2>1, <3>1 DEF Stands
  <2> QED BY <2>1 DEF Sole
<1>5. committed[g] # NoOne => k.at = committed[g]
  BY <1>1, <1>3
<1>6. /\ g = consumers[c].group /\ pending' \subseteq 1..sends
      /\ UNCHANGED <<topic, sends, committed, began, handed, swallowed>>
      /\ current' \in {current, [current EXCEPT ![g] = NoOne]}
      /\ shadowed' \in {shadowed, shadowed \cup {g}} /\ (current' = current \/ g \in shadowed')
      /\ (k.closed = consumers[c].closed \/ g \in shadowed') /\ k.inFlight \subseteq consumers[c].inFlight
      /\ (k.at # NoOne => Sole(c, g) /\ k.stage = "running" /\ (committed[g] # NoOne => k.at = committed[g]))
      /\ (k.busy => k.at = consumers[c].at /\ consumers[c].busy)
  BY <1>0, <1>1, <1>3, <1>4, <1>5, <1>g DEF Stands
<1> QED BY <1>3, <1>6, RecordMoves

\* However eachMessage takes a message, it is accounted for from then on.
LEMMA EachMessageKeeps ==
  ASSUME KafkaInv, NEW c \in DOMAIN consumers, eachMessage(c) PROVE KafkaInv'
<1>g. PICK g, at, m : g = consumers[c].group /\ at = consumers[c].at /\ m = NextMessage(c)
  OBVIOUS
<1>0. Stands(c, g)
  BY <1>g, StandsAt
<1>1. /\ at \in Nat /\ at # NoOne /\ at < Len(topic)
      /\ UNCHANGED <<topic, committed, began, pending, sends, current, shadowed>>
  BY <1>0, <1>g DEF eachMessage, Fetching, Stands
<1>2. m = topic[at + 1] /\ m \in 0..sends
  <2>1. at + 1 \in DOMAIN topic
    BY <1>0, <1>1 DEF Stands
  <2> QED BY <1>0, <1>g, <2>1 DEF Stands, NextMessage
<1>e. PICK e : e = consumers[c]
  OBVIOUS
<1>f. /\ e \in KConsumer /\ e.stage \in Stages /\ e.at = at /\ at \in Nat \cup {NoOne} /\ e.group = g
      /\ e.inFlight \in SUBSET Nat /\ e.closed \in BOOLEAN
  BY <1>0, <1>1, <1>g, <1>e DEF Stands, KConsumer
<1>3. PICK f \in SUBSET Nat :
        /\ consumers' = [consumers EXCEPT
                           ![c] = Written(e, e.stage, at, TRUE, f, e.closed)]
        /\ f \subseteq e.inFlight \cup (1..sends)
        /\ handed' \in [KGroups -> SUBSET Nat] /\ swallowed' \in [KGroups -> SUBSET Nat]
        /\ \A h \in KGroups : handed[h] \subseteq handed'[h] /\ swallowed[h] \subseteq swallowed'[h]
        /\ (at \in handed'[g] \/ at \in swallowed'[g] \/ m = Undecodable)
  <2>0. g \in KGroups /\ handed \in [KGroups -> SUBSET Nat] /\ swallowed \in [KGroups -> SUBSET Nat] /\ sends \in Nat
    BY <1>0 DEF Stands
  <2>1. CASE consumers' = [consumers EXCEPT ![c].busy = TRUE]
    <3>1. [e EXCEPT !.busy = TRUE]
            = Written(e, e.stage, at, TRUE, e.inFlight, e.closed)
      BY <1>f DEF KConsumer, Written
    <3>2. consumers' = [consumers EXCEPT ![c] = [e EXCEPT !.busy = TRUE]]
      BY <1>e, <2>1
    <3>3. \/ UNCHANGED handed /\ swallowed' = [swallowed EXCEPT ![g] = @ \cup {at}]
          \/ UNCHANGED <<handed, swallowed>> /\ m = Undecodable
          \/ UNCHANGED swallowed /\ handed' = [handed EXCEPT ![g] = @ \cup {at}]
      BY <1>g DEF eachMessage
    <3>4. /\ handed' \in [KGroups -> SUBSET Nat] /\ swallowed' \in [KGroups -> SUBSET Nat]
          /\ \A h \in KGroups : handed[h] \subseteq handed'[h] /\ swallowed[h] \subseteq swallowed'[h]
          /\ (at \in handed'[g] \/ at \in swallowed'[g] \/ m = Undecodable)
      BY <1>1, <2>0, <3>3
    <3> QED BY <1>f, <3>1, <3>2, <3>4
  <2>2. CASE /\ consumers' = [consumers EXCEPT ![c].busy = TRUE, ![c].inFlight = @ \cup {m}] /\ m # Undecodable
             /\ handed' = [handed EXCEPT ![g] = @ \cup {at}] /\ UNCHANGED swallowed
    <3>1. PICK f : f = e.inFlight \cup {m}
      OBVIOUS
    <3>2. f \in SUBSET Nat /\ f \subseteq e.inFlight \cup (1..sends)
      BY <1>2, <1>f, <2>0, <2>2, <3>1 DEF Undecodable
    <3>3. [e EXCEPT !.busy = TRUE, !.inFlight = f]
            = Written(e, e.stage, at, TRUE, f, e.closed)
      BY <1>f DEF KConsumer, Written
    <3>4. consumers' = [consumers EXCEPT ![c] = [e EXCEPT !.busy = TRUE, !.inFlight = f]]
      BY <1>e, <1>0, <2>2, <3>1 DEF Stands
    <3>5. /\ handed' \in [KGroups -> SUBSET Nat] /\ swallowed' \in [KGroups -> SUBSET Nat]
          /\ \A h \in KGroups : handed[h] \subseteq handed'[h] /\ swallowed[h] \subseteq swallowed'[h]
          /\ at \in handed'[g]
      BY <1>1, <2>0, <2>2
    <3> QED BY <3>2, <3>3, <3>4, <3>5
  <2> QED BY <1>g, <2>1, <2>2 DEF eachMessage
<1>k. PICK k : k = Written(e, e.stage, at, TRUE, f, e.closed)
  OBVIOUS
<1>6. /\ k \in KConsumer /\ k.group = g /\ k.stage = e.stage /\ k.at = at /\ k.busy = TRUE
      /\ k.inFlight = f /\ k.closed = e.closed /\ consumers' = [consumers EXCEPT ![c] = k]
  <2>1. /\ e \in KConsumer /\ e.stage \in Stages /\ at \in Nat \cup {NoOne} /\ TRUE \in BOOLEAN
        /\ f \in SUBSET Nat /\ e.closed \in BOOLEAN
    BY <1>f, <1>3
  <2>2. /\ k \in KConsumer /\ k.group = e.group /\ k.stage = e.stage /\ k.at = at /\ k.busy = TRUE
        /\ k.inFlight = f /\ k.closed = e.closed
    BY <2>1, <1>k DEF KConsumer, Written
  <2>3. consumers' = [consumers EXCEPT ![c] = k]
    BY <1>3, <1>k
  <2> QED BY <1>f, <2>2, <2>3
<1>4. Offsets(g)' /\ consumers'[c] = k
  BY <1>0, <1>1, <1>3, <1>6, OffsetsKept DEF Stands
<1>5. Placed(c)'
  <2>1. Accounted(g, at)'
    BY <1>1, <1>2, <1>3 DEF Accounted, Undecodable
  <2>2. /\ e.inFlight \subseteq 1..sends /\ e.stage = "running"
        /\ (committed[g] # NoOne => at = committed[g])
        /\ (g \notin shadowed => ~e.closed /\ current[g] = c)
    BY <1>0, <1>1, <1>e, <1>f, <1>g DEF Placed, Stands
  <2>3. k.inFlight \subseteq 1..sends
    BY <1>3, <1>6, <2>2
  <2> QED BY <1>1, <1>4, <1>6, <2>1, <2>2, <2>3 DEF Placed
<1>7. Sole(c, g)
  BY <1>0, <1>1, <1>g DEF Stands
<1> QED BY <1>0, <1>1, <1>3, <1>4, <1>5, <1>6, <1>7, <1>g, OneMoves DEF Stands

LEMMA AutoCommitKeeps ==
  ASSUME KafkaInv, NEW c \in DOMAIN consumers, AutoCommit(c) PROVE KafkaInv'
<1>g. PICK g, at : g = consumers[c].group /\ at = consumers[c].at
  OBVIOUS
<1>0. Stands(c, g)
  BY <1>g, StandsAt
<1>1. /\ committed' = [committed EXCEPT ![g] = at + 1] /\ consumers[c].busy
      /\ began' = IF began[g] = NoOne THEN [began EXCEPT ![g] = at] ELSE began
      /\ UNCHANGED <<topic, pending, sends, current, handed, swallowed, shadowed>>
  BY <1>g DEF AutoCommit
<1>2. /\ at \in Nat /\ at # NoOne /\ at < Len(topic) /\ Accounted(g, at) /\ Sole(c, g)
      /\ consumers[c].stage = "running" /\ (committed[g] # NoOne => at = committed[g])
  BY <1>0, <1>1, <1>g DEF Placed, Stands
<1>k. PICK e, k : e = consumers[c] /\ k = [e EXCEPT !.busy = FALSE, !.at = at + 1]
  OBVIOUS
<1>3. /\ consumers' = [consumers EXCEPT ![c] = k] /\ k \in KConsumer /\ k.group = g /\ k.at = at + 1 /\ ~k.busy
      /\ k.closed = consumers[c].closed /\ k.inFlight = consumers[c].inFlight /\ k.stage = "running"
  <2>1. e \in KConsumer /\ at + 1 \in Nat /\ e.group = g /\ e.stage = "running" /\ e.at = at
    BY <1>0, <1>2, <1>g, <1>k DEF Stands
  <2>2. /\ k \in KConsumer /\ k.group = e.group /\ k.at = at + 1 /\ k.busy = FALSE
        /\ k.closed = e.closed /\ k.inFlight = e.inFlight /\ k.stage = e.stage
    BY <2>1, <1>k DEF KConsumer
  <2>3. consumers' = [consumers EXCEPT ![c] = k]
    <3>1. consumers' = [consumers EXCEPT ![c].busy = FALSE, ![c].at = at + 1]
      BY <1>g DEF AutoCommit
    <3> QED BY <1>0, <1>k, <3>1 DEF Stands
  <2> QED BY <1>k, <2>1, <2>2, <2>3
<1>4. /\ DOMAIN consumers' = DOMAIN consumers /\ consumers'[c] = k
      /\ \A d \in DOMAIN consumers : d # c => consumers'[d] = consumers[d]
  BY <1>0, <1>3, ReplacedIs DEF Stands
<1>5. /\ committed' \in [KGroups -> Nat \cup {NoOne}] /\ committed'[g] = at + 1 /\ at + 1 \in Nat /\ at + 1 # NoOne
      /\ began' \in [KGroups -> Nat \cup {NoOne}] /\ began'[g] \in Nat
      /\ \A h \in KGroups \ {g} : committed'[h] = committed[h] /\ began'[h] = began[h]
  BY <1>0, <1>1, <1>2, NoOneIsNoOffset DEF Stands
<1>6. Placed(c)'
  BY <1>0, <1>1, <1>3, <1>4, <1>5, <1>g DEF Placed, Stands
<1>7. Offsets(g)'
  <2>1. \A o \in began'[g]..(at + 1) - 1 : Accounted(g, o)
    <3>1. CASE committed[g] # NoOne
      <4>1. began[g] # NoOne /\ began'[g] = began[g] /\ \A o \in began[g]..at - 1 : Accounted(g, o)
        BY <1>0, <1>1, <1>2, <3>1 DEF Offsets, Stands
      <4>2. ASSUME NEW o \in began'[g]..(at + 1) - 1 PROVE o = at \/ o \in began[g]..at - 1
        BY <1>2, <1>5, <4>1
      <4> QED BY <1>2, <4>1, <4>2
    <3>2. CASE committed[g] = NoOne
      <4>1. began'[g] = at
        BY <1>0, <1>1, <3>2 DEF Offsets, Stands
      <4>2. ASSUME NEW o \in began'[g]..(at + 1) - 1 PROVE o = at
        BY <1>2, <4>1
      <4> QED BY <1>2, <4>2
    <3> QED BY <3>1, <3>2
  <2>2. at + 1 <= Len(topic)
    BY <1>0, <1>2 DEF Stands
  <2>3. began'[g] # NoOne
    BY <1>5, NoOneIsNoOffset
  <2>4. current[g] # NoOne => current[g] \in DOMAIN consumers' /\ consumers'[current[g]].group = g
    BY <1>0, <1>3, <1>4 DEF Stands, Offsets
  <2> QED BY <1>1, <1>5, <2>1, <2>2, <2>3, <2>4 DEF Offsets, Accounted
<1> QED BY <1>0, <1>1, <1>2, <1>3, <1>5, <1>6, <1>7, <1>g, OneMoves DEF Stands

\* An entry's consumer: ack, nack and the queue's close() reach it.
LEMMA EntryKeeps ==
  ASSUME KafkaInv, NEW g \in KGroups,
         CloseGroup(g) \/ \E m \in Flight(g) : Kack(g, m) \/ Knack(g, m)
  PROVE  KafkaInv'
<1>c. PICK c : c = current[g]
  OBVIOUS
<1>1. c # NoOne
  BY <1>c DEF CloseGroup, Flight
<1>2. c \in DOMAIN consumers /\ consumers[c].group = g
  BY <1>1, <1>c DEF KafkaInv, Offsets
<1>0. Stands(c, g)
  BY <1>2, StandsAt
<1>3. PICK k : /\ consumers' = [consumers EXCEPT ![c] = k] /\ k \in KConsumer /\ k.group = g /\ k.at = consumers[c].at
               /\ k.stage = consumers[c].stage /\ k.busy = consumers[c].busy
               /\ k.inFlight \subseteq consumers[c].inFlight /\ (k.closed = consumers[c].closed \/ g \in shadowed')
               /\ pending' \subseteq 1..sends
  <2>1. CASE CloseGroup(g)
    <3>1. PICK k : k = [consumers[c] EXCEPT !.closed = TRUE]
      OBVIOUS
    <3>2. consumers' = [consumers EXCEPT ![c] = k] /\ g \in shadowed' /\ pending' \subseteq 1..sends
      BY <1>0, <1>2, <1>c, <2>1, <3>1 DEF CloseGroup, Stands
    <3>3. /\ k \in KConsumer /\ k.group = g /\ k.at = consumers[c].at /\ k.stage = consumers[c].stage
          /\ k.busy = consumers[c].busy /\ k.inFlight = consumers[c].inFlight
      BY <1>0, <1>2, <3>1 DEF Stands, KConsumer
    <3> QED BY <3>2, <3>3
  <2>2. ASSUME NEW m \in Flight(g), Kack(g, m) \/ Knack(g, m)
        PROVE  \E k : /\ consumers' = [consumers EXCEPT ![c] = k] /\ k \in KConsumer /\ k.group = g /\ k.at = consumers[c].at
                      /\ k.stage = consumers[c].stage /\ k.busy = consumers[c].busy
                      /\ k.inFlight \subseteq consumers[c].inFlight /\ (k.closed = consumers[c].closed \/ g \in shadowed')
                      /\ pending' \subseteq 1..sends
    <3>1. PICK k : k = [consumers[c] EXCEPT !.inFlight = @ \ {m}]
      OBVIOUS
    <3>2. m \in consumers[c].inFlight
      BY <1>1, <1>c DEF Flight
    <3>3. consumers' = [consumers EXCEPT ![c] = k] /\ pending' \subseteq pending \cup {m}
      BY <1>0, <1>2, <1>c, <2>2, <3>1 DEF Kack, Knack, Landed, Stands
    <3>4. pending' \subseteq 1..sends
      BY <1>0, <3>2, <3>3 DEF Stands, Placed
    <3>5. /\ k \in KConsumer /\ k.group = g /\ k.at = consumers[c].at /\ k.stage = consumers[c].stage
          /\ k.busy = consumers[c].busy /\ k.closed = consumers[c].closed /\ k.inFlight \subseteq consumers[c].inFlight
      BY <1>0, <1>2, <3>1 DEF Stands, KConsumer
    <3> QED BY <3>3, <3>4, <3>5
  <2> QED BY <2>1, <2>2
<1>4. /\ UNCHANGED <<topic, sends, committed, began, handed, swallowed, current>>
      /\ shadowed' \in {shadowed, shadowed \cup {g}}
  BY DEF CloseGroup, Kack, Knack
<1>5. k.at # NoOne => Sole(c, g) /\ k.stage = "running" /\ (committed[g] # NoOne => k.at = committed[g])
  BY <1>0, <1>3 DEF Stands, Placed
<1> QED BY <1>0, <1>2, <1>3, <1>4, <1>5, RecordMoves DEF Stands

\* clear() and the end of close() touch every group's entry at once.
LEMMA AllEntriesKeep ==
  ASSUME KafkaInv, Kclear \/ ForgetGroups PROVE KafkaInv'
<1>1. /\ UNCHANGED <<topic, committed, began, pending, sends, handed, swallowed, shadowed>>
      /\ consumers \in Seq(KConsumer) /\ KafkaTypes
  BY DEF Kclear, ForgetGroups, KafkaInv, KafkaTypes
<1>2. CASE Kclear
  <2>1. current' = current
    BY <1>2 DEF Kclear
  <2>2. /\ DOMAIN consumers' = DOMAIN consumers /\ Len(consumers) \in Nat /\ DOMAIN consumers = 1..Len(consumers)
        /\ \A c \in DOMAIN consumers :
             /\ consumers'[c] \in KConsumer /\ consumers'[c].inFlight \subseteq consumers[c].inFlight
             /\ consumers'[c].group = consumers[c].group /\ consumers'[c].at = consumers[c].at
             /\ consumers'[c].stage = consumers[c].stage /\ consumers'[c].busy = consumers[c].busy
             /\ consumers'[c].closed = consumers[c].closed
    <3>1. ASSUME NEW c \in DOMAIN consumers, NEW e, e = [consumers[c] EXCEPT !.inFlight = {}]
          PROVE  /\ e \in KConsumer /\ e.inFlight = {} /\ e.group = consumers[c].group /\ e.at = consumers[c].at
                 /\ e.stage = consumers[c].stage /\ e.busy = consumers[c].busy /\ e.closed = consumers[c].closed
                 /\ consumers[c] \in KConsumer
      <4>1. consumers[c] \in KConsumer
        BY <1>1
      <4> QED BY <3>1, <4>1 DEF KConsumer
    <3> QED BY <1>1, <1>2, <3>1 DEF Kclear
  <2>3. consumers' \in Seq(KConsumer)
    <3>1. consumers' \in [1..Len(consumers) -> KConsumer]
      <4>1. consumers' = [c \in DOMAIN consumers |-> consumers'[c]]
        BY <1>2 DEF Kclear
      <4> QED BY <2>2, <4>1
    <3> QED BY <2>2, <3>1
  <2>4. KafkaTypes'
    BY <1>1, <2>1, <2>3 DEF KafkaTypes
  <2>5. \A g \in KGroups : Offsets(g)'
    BY <1>1, <2>1, <2>2 DEF KafkaInv, Offsets, Accounted
  <2>6. ASSUME NEW c \in DOMAIN consumers PROVE Placed(c)'
    BY <1>1, <2>1, <2>2 DEF KafkaInv, Placed, Accounted
  <2>7. Alone'
    BY <2>2 DEF KafkaInv, Alone
  <2> QED BY <2>2, <2>4, <2>5, <2>6, <2>7 DEF KafkaInv
<1>3. CASE ForgetGroups
  <2>1. current' = [g \in KGroups |-> NoOne] /\ consumers' = consumers
        /\ \A g \in KGroups : current[g] # NoOne => consumers[current[g]].closed
    BY <1>3 DEF ForgetGroups
  <2>2. KafkaTypes'
    BY <1>1, <2>1 DEF KafkaTypes
  <2>3. \A g \in KGroups : Offsets(g)'
    BY <1>1, <2>1 DEF KafkaInv, Offsets, Accounted
  <2>4. ASSUME NEW c \in DOMAIN consumers PROVE Placed(c)'
    <3>1. Placed(c) /\ consumers[c] \in KConsumer
      BY <1>1 DEF KafkaInv
    <3>2. consumers[c].group \in KGroups /\ c # NoOne
      BY <1>1, <3>1, NoOneIsNoOffset DEF KConsumer
    <3>3. consumers[c].group \in shadowed
      BY <2>1, <3>1, <3>2 DEF Placed
    <3> QED BY <1>1, <2>1, <3>1, <3>3 DEF Placed, Accounted
  <2>5. Alone'
    BY <2>1 DEF KafkaInv, Alone
  <2> QED BY <2>1, <2>2, <2>3, <2>4, <2>5 DEF KafkaInv
<1> QED BY <1>2, <1>3

\* A process that is killed takes its consumers with it; the broker keeps the rest.
LEMMA KillKeeps ==
  ASSUME KafkaInv, Kill PROVE KafkaInv'
<1>1. /\ consumers' = <<>> /\ current' = [g \in KGroups |-> NoOne] /\ pending' = {} /\ shadowed' = {}
      /\ UNCHANGED <<topic, committed, began, sends, handed, swallowed>>
  BY DEF Kill
<1>2. DOMAIN consumers' = {} /\ consumers' \in Seq(KConsumer)
  BY <1>1
<1>3. KafkaTypes'
  BY <1>1, <1>2 DEF KafkaInv, KafkaTypes
<1>4. ASSUME NEW g \in KGroups PROVE Offsets(g)'
  BY <1>1 DEF KafkaInv, Offsets, Accounted
<1> QED BY <1>2, <1>3, <1>4 DEF KafkaInv, Alone

LEMMA KafkaStart == KafkaInit => KafkaInv
<1> SUFFICES ASSUME KafkaInit PROVE KafkaInv
  OBVIOUS
<1>1. KafkaTypes
  BY DEF KafkaInit, KafkaTypes
<1>2. DOMAIN consumers = {} /\ \A g \in KGroups : committed[g] = NoOne /\ began[g] = NoOne /\ current[g] = NoOne
  BY DEF KafkaInit
<1> QED BY <1>1, <1>2 DEF KafkaInv, Offsets, Alone

LEMMA KafkaStep == KafkaInv /\ [KafkaNext]_kafkaVars => KafkaInv'
<1> SUFFICES ASSUME KafkaInv, [KafkaNext]_kafkaVars PROVE KafkaInv'
  OBVIOUS
<1>1. CASE Kpublish \/ Foreign \/ \E m \in pending : Sent(m) \/ SendFails(m)
  BY <1>1, SendsKeep
<1>2. CASE Kill \/ Kclear \/ ForgetGroups
  BY <1>2, KillKeeps, AllEntriesKeep
<1>3. ASSUME NEW g \in KGroups, Ksubscribe(g) PROVE KafkaInv'
  BY <1>3, SubscribeKeeps
<1>4. ASSUME NEW g \in KGroups, CloseGroup(g) \/ \E m \in Flight(g) : Kack(g, m) \/ Knack(g, m) PROVE KafkaInv'
  BY <1>4, EntryKeeps
<1>5. ASSUME NEW c \in DOMAIN consumers,
             Ready(c) \/ Assign(c) \/ Revoke(c) \/ eachMessage(c) \/ AutoCommit(c) \/ GivenAgain(c) \/ Kclose(c) \/ Disconnect(c)
      PROVE KafkaInv'
  BY <1>5, QuietStepsKeep, AssignKeeps, EachMessageKeeps, AutoCommitKeeps
<1>6. CASE UNCHANGED kafkaVars
  BY <1>6 DEF kafkaVars, KafkaInv, KafkaTypes, Offsets, Placed, Alone, Accounted
<1> QED BY <1>1, <1>2, <1>3, <1>4, <1>5, <1>6 DEF KafkaNext

\* At most one of a group's consumers has the topic.
LEMMA OneAssigned ==
  ASSUME KafkaInv, NEW g \in KGroups PROVE Cardinality({c \in Members(g) : consumers[c].at # NoOne}) <= 1
<1> DEFINE A == {c \in Members(g) : consumers[c].at # NoOne}
<1>1. \A c, d \in A : c = d
  BY DEF KafkaInv, Alone, Members
<1>2. CASE A = {}
  BY <1>2, FS_EmptySet
<1>3. CASE A # {}
  <2>1. PICK c : A = {c}
    BY <1>1, <1>3, Zenon
  <2>2. Cardinality(A) = 1
    BY <2>1, FS_Singleton, Zenon
  <2> QED BY <2>2
<1> QED BY <1>2, <1>3

LEMMA CommitsFollow == KafkaInv => CommitsHold
<1> SUFFICES ASSUME KafkaInv PROVE CommitsHold
  OBVIOUS
<1>0. KafkaTypes
  BY DEF KafkaInv
<1>1. ToSet(topic) \subseteq 0..sends /\ pending \subseteq 1..sends
  BY <1>0 DEF KafkaTypes, ToSet
<1>2. ASSUME NEW g \in KGroups
      PROVE  committed[g] \in 0..Len(topic) \cup {NoOne} /\ current[g] \in DOMAIN consumers \cup {NoOne}
  BY <1>0 DEF KafkaInv, KafkaTypes, Offsets
<1>3. CommitFollowsHandler
  BY DEF KafkaInv, Offsets, CommitFollowsHandler
<1>4. ASSUME NEW c \in DOMAIN consumers, consumers[c].group \notin shadowed
      PROVE  consumers[c].inFlight \subseteq Flight(consumers[c].group)
  <2>1. current[consumers[c].group] = c
    BY <1>4 DEF KafkaInv, Placed
  <2>2. c # NoOne
    BY <1>0, NoOneIsNoOffset DEF KafkaTypes
  <2> QED BY <2>1, <2>2 DEF Flight
<1>5. FlightIsReachable
  BY <1>4 DEF FlightIsReachable
<1> QED BY <1>1, <1>2, <1>3, <1>5, OneAssigned DEF CommitsHold, KafkaTypeOK

\* From where a group began, its offset passes only messages that a handler was given,
\* that nobody could decode, or that a closed subscription's consumer took while it
\* still ran, whatever fails, is killed or reassigned; what is in flight in a group
\* with one subscription can be acked and nacked (KafkaTaskQueue on kafkajs).
THEOREM CommitsFollowHandlers == KafkaSpec => []CommitsHold
<1> QED BY KafkaStart, KafkaStep, CommitsFollow, PTL DEF KafkaSpec

-----------------------------------------------------------------------------
(* The task broker: the calls under way, what each loop of deliverNew has still
   to do, and what a group has seen. *)
Sub == [id : Nat, partitions : SUBSET Partitions]
HandlerCall == [call : {"handler"}, group : Groups, message : Messages]
LoopCall == [call : {"deliver"}, group : Groups, partition : Partitions, at : Nat]
EachCall == [call : {"each"}, todo : SUBSET (Groups \X Partitions)]
CallUnderWay == HandlerCall \cup LoopCall \cup EachCall

BrokerTypes ==
  /\ size \in [Partitions -> Nat] /\ \A p \in Partitions : size[p] <= MaxMessages
  /\ subs \in [Groups -> SUBSET Sub] /\ made \in Nat /\ joined \subseteq Groups
  /\ \A g \in Groups : \A s \in subs[g] : s.id \in 1..made
  /\ cursor \in [Groups -> [Partitions -> Nat]]
  /\ \A g \in Groups, p \in Partitions : cursor[g][p] <= size[p]
  /\ inFlight \in [Groups -> SUBSET Messages] /\ acked \in [Groups -> SUBSET Messages]
  /\ dropped \in [Groups -> SUBSET Messages] /\ again \in [Groups -> SUBSET Messages]
  /\ seen \in [Groups -> [Messages -> Nat]]
  /\ stack \in Seq(CallUnderWay)
  /\ \A i \in DOMAIN stack : stack[i].call = "deliver" => stack[i].at <= size[stack[i].partition]

\* What is in flight was seen, what was seen is published, and kept or let go.
Holding(g) ==
  /\ subs[g] # {} => g \in joined
  /\ \A m \in Messages : /\ m \in inFlight[g] => seen[g][m] > 0
                         /\ seen[g][m] > 0 => m \in inFlight[g] \cup acked[g] \cup dropped[g] /\ m[2] <= size[m[1]]
                         /\ seen[g][m] > 1 => m \in again[g]

\* Whoever reads partition p of group g from `at` on has seen all before it, and
\* what it will see twice has a reason.
From(g, p, at) ==
  \A m \in Messages : m[1] = p => /\ m[2] <= at => seen[g][m] > 0
                                  /\ m[2] > at /\ seen[g][m] > 0 => m \in again[g]

Brings(f, g, p) == \/ f.call = "deliver" /\ f.group = g /\ f.partition = p
                   \/ f.call = "each" /\ <<g, p>> \in f.todo
Due(g, p, i) == \E j \in DOMAIN stack : j > i /\ Brings(stack[j], g, p)
Owned(g, p) == ownerFor(g, p) # {}

\* A loop above another one of the same group and partition was let in by a call
\* that excused what it overtakes; a loop is at the cursor unless one above it will
\* bring the group to the end, or has.
Above(g, p, at, i) ==
  /\ From(g, p, at)
  /\ Due(g, p, i) => \A m \in Messages : m[1] = p /\ m[2] > at => m \in again[g]
  /\ Owned(g, p) => at = cursor[g][p] \/ cursor[g][p] = size[p] \/ Due(g, p, i)
Nested(i) == stack[i].call = "deliver" => Above(stack[i].group, stack[i].partition, stack[i].at, i)
Behind(g, p) == Owned(g, p) => cursor[g][p] = size[p] \/ Due(g, p, 0)

BrokerInv ==
  /\ BrokerTypes /\ NoGaps
  /\ \A g \in Groups : Holding(g)
  /\ \A g \in Groups, p \in Partitions : From(g, p, cursor[g][p]) /\ Behind(g, p)
  /\ \A i \in DOMAIN stack : Nested(i)

LEMMA PoppedIs ==
  ASSUME NEW S, NEW s \in Seq(S), s # <<>>
  PROVE  /\ Len(s) \in Nat /\ Len(s) >= 1 /\ Last(s) = s[Len(s)] /\ Last(s) \in S
         /\ Front(s) \in Seq(S) /\ Len(Front(s)) = Len(s) - 1 /\ DOMAIN Front(s) = 1..Len(s) - 1
         /\ \A i \in 1..Len(s) - 1 : Front(s)[i] = s[i]
<1>1. Len(s) \in Nat /\ Len(s) >= 1
  BY EmptySeq
<1>2. \A i \in 1..Len(s) - 1 : s[i] \in S
  BY <1>1
<1>3. 1 \in Int /\ Len(s) - 1 \in Int
  BY <1>1
<1>4. /\ SubSeq(s, 1, Len(s) - 1) \in Seq(S)
      /\ Len(SubSeq(s, 1, Len(s) - 1)) = IF 1 <= Len(s) - 1 THEN Len(s) - 1 - 1 + 1 ELSE 0
      /\ \A i \in 1..Len(s) - 1 - 1 + 1 : SubSeq(s, 1, Len(s) - 1)[i] = s[1 + i - 1]
  BY <1>2, <1>3, SubSeqProperties
<1>5. Front(s) \in Seq(S) /\ Len(Front(s)) = Len(s) - 1
  <2>1. PICK n : n = Len(s)
    OBVIOUS
  <2>2. n \in Nat /\ n >= 1
    BY <1>1, <2>1
  <2>3. (IF 1 <= n - 1 THEN n - 1 - 1 + 1 ELSE 0) = n - 1
    BY <2>2
  <2>4. Len(SubSeq(s, 1, Len(s) - 1)) = Len(s) - 1
    BY <1>4, <2>1, <2>3
  <2>5. Front(s) = SubSeq(s, 1, Len(s) - 1)
    BY DEF Front
  <2> QED BY <1>4, <2>4, <2>5
<1>6. ASSUME NEW i \in 1..Len(s) - 1 PROVE Front(s)[i] = s[i]
  <2>1. i \in 1..Len(s) - 1 - 1 + 1 /\ 1 + i - 1 = i
    BY <1>1
  <2> QED BY <1>4, <2>1 DEF Front
<1> QED BY <1>1, <1>5, <1>6 DEF Last

\* The top of the stack gives way to another call, and a call goes on top.
LEMMA TopIs == \A s \in Seq(CallUnderWay), f \in CallUnderWay : Len(s) >= 1 =>
   LET r == Append(Front(s), f) IN
         /\ r \in Seq(CallUnderWay) /\ Len(r) = Len(s) /\ DOMAIN r = 1..Len(s) /\ r[Len(s)] = f
         /\ \A i \in 1..Len(s) - 1 : r[i] = s[i]
<1> SUFFICES ASSUME NEW s \in Seq(CallUnderWay), NEW f \in CallUnderWay, Len(s) >= 1
     PROVE LET r == Append(Front(s), f) IN
         /\ r \in Seq(CallUnderWay) /\ Len(r) = Len(s) /\ DOMAIN r = 1..Len(s) /\ r[Len(s)] = f
         /\ \A i \in 1..Len(s) - 1 : r[i] = s[i]
  OBVIOUS
<1> DEFINE r == Append(Front(s), f)
<1>1. Front(s) \in Seq(CallUnderWay) /\ Len(Front(s)) = Len(s) - 1
  BY PoppedIs
<1>2. r \in Seq(CallUnderWay) /\ Len(r) = Len(s) /\ DOMAIN r = 1..Len(s) /\ r[Len(s)] = f
  BY <1>1
<1>3. \A i \in 1..Len(s) - 1 : r[i] = s[i]
  BY <1>1, PoppedIs
<1> QED BY <1>2, <1>3

LEMMA PushIs ==
  ASSUME NEW s \in Seq(CallUnderWay), NEW f \in CallUnderWay, NEW r, r = Append(s, f), NEW n \in Nat, Len(s) = n
  PROVE  /\ r \in Seq(CallUnderWay) /\ Len(r) = n + 1 /\ r[n + 1] = f /\ DOMAIN r = 1..n + 1
         /\ \A i \in 1..n : r[i] = s[i]
OBVIOUS

LEMMA JoinedIs ==
  ASSUME NEW s \in Seq(CallUnderWay), NEW f \in CallUnderWay, NEW h \in CallUnderWay
  PROVE  /\ s \o <<>> = s /\ s \o <<h>> = Append(s, h)
         /\ s \o <<f, h>> = Append(Append(s, f), h)
<1>1. s \o <<>> = s /\ s \o <<h>> = Append(s, h)
  OBVIOUS
<1>2. s \o <<f, h>> = Append(Append(s, f), h)
  OBVIOUS
<1> QED BY <1>1, <1>2

LEMMA FromKept ==
  ASSUME NEW g, NEW p, NEW at, From(g, p, at), again[g] \subseteq again'[g],
         \A m \in Messages : seen'[g][m] > 0 <=> seen[g][m] > 0
  PROVE  From(g, p, at)'
BY DEF From

LEMMA GapsKept ==
  ASSUME NoGaps, \A g \in Groups, m \in Messages : seen'[g][m] > 0 <=> seen[g][m] > 0 PROVE NoGaps'
<1>1. ASSUME NEW p \in Partitions, NEW i \in 2..MaxMessages
      PROVE  <<p, i>> \in Messages /\ <<p, i - 1>> \in Messages
  BY BrokerAssumption DEF Messages
<1> QED BY <1>1 DEF NoGaps

\* The calls of the stack.
LEMMA CallsAre ==
  ASSUME BrokerInv, NEW i \in DOMAIN stack
  PROVE  /\ stack[i] \in CallUnderWay /\ i \in Nat /\ i >= 1 /\ i <= Len(stack)
         /\ stack[i].call = "deliver" =>
              /\ stack[i].group \in Groups /\ stack[i].partition \in Partitions /\ stack[i].at \in Nat
              /\ stack[i].at <= size[stack[i].partition]
              /\ Above(stack[i].group, stack[i].partition, stack[i].at, i)
<1>1. stack \in Seq(CallUnderWay)
  BY DEF BrokerInv, BrokerTypes
<1>2. stack[i] \in CallUnderWay /\ i \in Nat /\ i >= 1 /\ i <= Len(stack)
  BY <1>1
<1>3. stack[i].call = "deliver" => stack[i] \in LoopCall
  BY <1>2 DEF CallUnderWay, HandlerCall, LoopCall, EachCall
<1> QED BY <1>2, <1>3 DEF BrokerInv, BrokerTypes, Nested, LoopCall

\* A call is over that leaves nobody behind.
LEMMA PopKeeps ==
  ASSUME BrokerInv, stack # <<>>, stack' = Front(stack),
         UNCHANGED <<size, subs, joined, cursor, inFlight, made, seen, acked, dropped, again>>,
         \A g \in Groups, p \in Partitions :
           Brings(Last(stack), g, p) /\ Owned(g, p) => cursor[g][p] = size[p]
  PROVE  BrokerInv'
<1>n. PICK n : n = Len(stack)
  OBVIOUS
<1>1. /\ n \in Nat /\ n >= 1 /\ Last(stack) = stack[n] /\ stack \in Seq(CallUnderWay)
      /\ DOMAIN stack = 1..n /\ DOMAIN stack' = 1..n - 1 /\ stack' \in Seq(CallUnderWay)
      /\ \A i \in 1..n - 1 : stack'[i] = stack[i]
  <2>1. stack \in Seq(CallUnderWay)
    BY DEF BrokerInv, BrokerTypes
  <2>2. DOMAIN stack = 1..Len(stack)
    BY <2>1
  <2> QED BY <1>n, <2>1, <2>2, PoppedIs
<1>2. BrokerTypes'
  <2>1. \A i \in DOMAIN stack' : i \in DOMAIN stack /\ stack'[i] = stack[i]
    BY <1>1
  <2> QED BY <1>1, <2>1 DEF BrokerInv, BrokerTypes
<1>3. ASSUME NEW g \in Groups, NEW p \in Partitions, NEW i \in 0..n - 1
      PROVE  /\ Due(g, p, i)' => Due(g, p, i)
             /\ Due(g, p, i) => Due(g, p, i)' \/ (Owned(g, p) => cursor[g][p] = size[p])
  <2>1. \A j \in DOMAIN stack' : j \in DOMAIN stack /\ stack'[j] = stack[j]
    BY <1>1
  <2>2. \A j \in DOMAIN stack : j = n \/ j \in DOMAIN stack'
    BY <1>1
  <2>3. Brings(stack[n], g, p) => (Owned(g, p) => cursor[g][p] = size[p])
    BY <1>1
  <2> QED BY <2>1, <2>2, <2>3 DEF Due, Brings
<1>4. ASSUME NEW g, NEW p, NEW at, From(g, p, at) PROVE From(g, p, at)'
  BY <1>4 DEF From
<1>5. ASSUME NEW i \in DOMAIN stack' PROVE Nested(i)'
  <2>1. PICK f : f = stack[i]
    OBVIOUS
  <2>2. i \in DOMAIN stack /\ i \in 0..n - 1 /\ stack'[i] = f
    BY <1>1, <2>1
  <2>3. CASE f.call = "deliver"
    <3>1. PICK g \in Groups, p \in Partitions, at \in Nat :
            f.group = g /\ f.partition = p /\ f.at = at /\ Above(g, p, at, i)
      BY <2>1, <2>2, <2>3, CallsAre
    <3>2. Above(g, p, at, i)'
      BY <1>3, <1>4, <2>2, <3>1 DEF Above, Owned, ownerFor
    <3> QED BY <2>2, <3>1, <3>2 DEF Nested
  <2> QED BY <2>2, <2>3 DEF Nested
<1>6. ASSUME NEW g \in Groups, NEW p \in Partitions PROVE From(g, p, cursor[g][p])' /\ Behind(g, p)'
  <2>1. From(g, p, cursor[g][p]) /\ Behind(g, p) /\ 0 \in 0..n - 1
    BY <1>1 DEF BrokerInv
  <2>2. Behind(g, p)'
    BY <1>3, <2>1 DEF Behind, Owned, ownerFor
  <2>3. From(g, p, cursor[g][p])'
    BY <2>1 DEF From
  <2> QED BY <2>2, <2>3
<1>7. ASSUME NEW g \in Groups PROVE Holding(g)'
  BY DEF BrokerInv, Holding
<1>g. NoGaps'
  BY GapsKept DEF BrokerInv
<1> QED BY <1>2, <1>5, <1>6, <1>7, <1>g DEF BrokerInv

\* A call of a client: the loops it puts on top excuse what they overtake, and
\* whoever it leaves behind they bring to the end.
LEMMA PushKeeps ==
  ASSUME BrokerInv, NEW f \in HandlerCall \cup EachCall, stack' = Append(stack, f),
         BrokerTypes', \A g \in Groups : Holding(g)',
         \A g \in Groups : again[g] \subseteq again'[g],
         \A g \in Groups, m \in Messages : seen'[g][m] > 0 <=> seen[g][m] > 0,
         \A g \in Groups, p \in Partitions :
            /\ From(g, p, cursor[g][p])'
            /\ Brings(f, g, p) => Ahead(g, {p}) \subseteq again'[g]
            /\ \/ Brings(f, g, p) \/ ~Owned(g, p)'
               \/ cursor'[g][p] = cursor[g][p] /\ size'[p] = size[p] /\ (Owned(g, p)' => Owned(g, p))
  PROVE  BrokerInv'
<1>n. PICK n : n = Len(stack)
  OBVIOUS
<1>1. /\ n \in Nat /\ DOMAIN stack = 1..n /\ DOMAIN stack' = DOMAIN stack \cup {n + 1}
      /\ stack'[n + 1] = f /\ \A i \in DOMAIN stack : stack'[i] = stack[i] /\ i < n + 1
  <2>1. stack \in Seq(CallUnderWay) /\ f \in CallUnderWay
    BY DEF BrokerInv, BrokerTypes, CallUnderWay
  <2> QED BY <1>n, <2>1
<1>2. f.call # "deliver"
  BY DEF HandlerCall, EachCall
<1>3. ASSUME NEW g \in Groups, NEW p \in Partitions, NEW i \in 0..n
      PROVE  Due(g, p, i)' <=> Due(g, p, i) \/ Brings(f, g, p)
  <2>1. n + 1 > i
    BY <1>1
  <2> QED BY <1>1, <2>1 DEF Due, Brings
<1>4. ASSUME NEW i \in DOMAIN stack' PROVE Nested(i)'
  <2>1. CASE i = n + 1
    BY <1>1, <1>2, <2>1 DEF Nested
  <2>2. CASE i # n + 1
    <3>1. PICK h : h = stack[i]
      OBVIOUS
    <3>2. i \in DOMAIN stack /\ i \in 0..n /\ stack'[i] = h
      BY <1>1, <2>2, <3>1
    <3>3. CASE h.call = "deliver"
      <4>1. PICK g \in Groups, p \in Partitions, at \in Nat :
              h.group = g /\ h.partition = p /\ h.at = at /\ Above(g, p, at, i)
        BY <3>1, <3>2, <3>3, CallsAre
      <4>2. From(g, p, at)'
        BY <4>1, FromKept DEF Above
      <4>3. Brings(f, g, p) => \A m \in Messages : m[1] = p /\ m[2] > at => m \in again'[g]
        <5>1. ASSUME NEW m \in Messages, m[1] = p, m[2] > at PROVE m \in Ahead(g, {p})
          BY <3>1, <3>2, <3>3, <4>1, <5>1 DEF Ahead
        <5> QED BY <5>1
      <4>4. Due(g, p, i)' => \A m \in Messages : m[1] = p /\ m[2] > at => m \in again'[g]
        BY <1>3, <3>2, <4>1, <4>3 DEF Above
      <4>5. Owned(g, p)' => at = cursor'[g][p] \/ cursor'[g][p] = size'[p] \/ Due(g, p, i)'
        BY <1>3, <3>2, <4>1 DEF Above
      <4>6. Above(g, p, at, i)'
        BY <4>2, <4>4, <4>5 DEF Above
      <4> QED BY <3>2, <4>1, <4>6 DEF Nested
    <3> QED BY <3>2, <3>3 DEF Nested
  <2> QED BY <2>1, <2>2
<1>5. ASSUME NEW g \in Groups, NEW p \in Partitions PROVE Behind(g, p)'
  <2>1. Behind(g, p) /\ 0 \in 0..n
    BY <1>1 DEF BrokerInv
  <2> QED BY <1>3, <2>1 DEF Behind
<1>g. NoGaps'
  BY GapsKept DEF BrokerInv
<1> QED BY <1>4, <1>5, <1>g DEF BrokerInv

\* A loop over groups or partitions starts the next loop of deliverNew, if the
\* partition has an owner, and is itself left with the rest.
LEMMA DescendKeeps ==
  ASSUME BrokerInv, stack # <<>>, Last(stack).call = "each", NEW next \in Last(stack).todo,
         stack' = Append(Front(stack), each(Last(stack).todo \ {next}))
                  \o IF ownerFor(next[1], next[2]) = {} THEN <<>> ELSE <<loop(next[1], next[2], cursor[next[1]][next[2]])>>,
         UNCHANGED <<size, subs, joined, cursor, inFlight, made, seen, acked, dropped, again>>
  PROVE  BrokerInv'
<1>n. PICK n : n = Len(stack)
  OBVIOUS
<1>t. PICK todo : todo = Last(stack).todo
  OBVIOUS
<1>f. PICK f : f = each(todo \ {next})
  OBVIOUS
<1>r. PICK r : r = Append(Front(stack), f)
  OBVIOUS
<1>1. stack \in Seq(CallUnderWay) /\ Last(stack) \in CallUnderWay /\ n \in Nat /\ n >= 1 /\ DOMAIN stack = 1..n
      /\ stack[n] = Last(stack) /\ n \in DOMAIN stack
  <2>1. stack \in Seq(CallUnderWay)
    BY DEF BrokerInv, BrokerTypes
  <2>2. DOMAIN stack = 1..Len(stack)
    BY <2>1
  <2>3. /\ Len(stack) \in Nat /\ Len(stack) >= 1 /\ Last(stack) = stack[Len(stack)]
        /\ Last(stack) \in CallUnderWay
    BY <2>1, PoppedIs
  <2>4. Len(stack) \in 1..Len(stack)
    BY <2>3
  <2> QED BY <1>n, <2>1, <2>2, <2>3, <2>4
<1>2. todo \in SUBSET (Groups \X Partitions)
  BY <1>1, <1>t DEF CallUnderWay, HandlerCall, LoopCall, EachCall
<1>3. PICK g \in Groups, p \in Partitions : next = <<g, p>>
  BY <1>2, <1>t
<1>4. f \in CallUnderWay /\ f.call = "each" /\ f.todo = todo \ {<<g, p>>}
  BY <1>2, <1>3, <1>f DEF CallUnderWay, EachCall, each
<1>5. /\ r \in Seq(CallUnderWay) /\ Len(r) = n /\ DOMAIN r = 1..n /\ r[n] = f
      /\ \A i \in 1..n - 1 : r[i] = stack[i]
  <2>1. n \in Nat /\ n >= 1 /\ r = Append(Front(stack), f) /\ n = Len(stack) /\ stack \in Seq(CallUnderWay) /\ f \in CallUnderWay
    BY <1>1, <1>4, <1>n, <1>r
  <2> QED BY ONLY <2>1, TopIs
<1>5a. /\ \A i \in 1..n : i = n \/ (i \in 1..n - 1 /\ i \in DOMAIN stack /\ r[i] = stack[i])
       /\ \A i \in 1..n - 1 : i \in DOMAIN stack /\ i \in 1..n /\ i # n
  BY <1>1, <1>5
<1>6. \A h \in Groups, q \in Partitions :
        Brings(stack[n], h, q) <=> Brings(f, h, q) \/ (h = g /\ q = p)
  BY <1>1, <1>2, <1>3, <1>4, <1>t DEF Brings
<1>7. /\ cursor[g][p] \in Nat /\ cursor[g][p] <= size[p] /\ From(g, p, cursor[g][p])
  BY DEF BrokerInv, BrokerTypes
<1>8. PICK l : l = loop(g, p, cursor[g][p])
  OBVIOUS
<1>9. l \in CallUnderWay /\ l.call = "deliver" /\ l.group = g /\ l.partition = p /\ l.at = cursor[g][p]
  BY <1>7, <1>8 DEF CallUnderWay, LoopCall, loop
<1>g. NoGaps'
  BY GapsKept DEF BrokerInv
<1>10. CASE ~Owned(g, p)
  <2>1. stack' = r
    <3>1. stack' = r \o <<>>
      BY <1>3, <1>10, <1>f, <1>r, <1>t DEF Owned
    <3> QED BY <1>4, <1>5, <3>1, JoinedIs
  <2>2. BrokerTypes'
    <3>1. \A i \in DOMAIN stack' : stack'[i].call = "deliver" => i \in DOMAIN stack /\ stack'[i] = stack[i]
      BY <1>4, <1>5, <1>5a, <2>1
    <3> QED BY <1>5, <2>1, <3>1 DEF BrokerInv, BrokerTypes
  <2>3. ASSUME NEW h \in Groups, NEW q \in Partitions, NEW i \in 0..n - 1
        PROVE  Due(h, q, i)' \/ (h = g /\ q = p) <=> Due(h, q, i) \/ (h = g /\ q = p)
    <3>1. \A j \in 1..n : j # n => stack'[j] = stack[j]
      BY <1>5a, <2>1
    <3>2. DOMAIN stack = 1..n /\ DOMAIN stack' = 1..n /\ stack'[n] = f
      BY <1>1, <1>5, <2>1
    <3>3. ~(h = g /\ q = p) => (Brings(stack[n], h, q) <=> Brings(f, h, q))
      BY <1>6
    <3>4. \A j \in 1..n : ~(h = g /\ q = p) => (Brings(stack'[j], h, q) <=> Brings(stack[j], h, q))
      BY <3>1, <3>2, <3>3
    <3>5. ~(h = g /\ q = p) => (Due(h, q, i)' <=> Due(h, q, i))
      BY <3>2, <3>4 DEF Due, Brings
    <3> QED BY <3>5
  <2>4. ASSUME NEW i \in DOMAIN stack' PROVE Nested(i)'
    <3>1. CASE i = n
      BY <1>4, <1>5, <2>1, <3>1 DEF Nested
    <3>2. CASE i # n
      <4>1. PICK k : k = stack[i]
        OBVIOUS
      <4>2. i \in DOMAIN stack /\ i \in 0..n - 1 /\ stack'[i] = k
        <5>1. i \in 1..n
          BY <1>5, <2>1
        <5>2. i \in 1..n - 1 /\ stack'[i] = stack[i] /\ i \in DOMAIN stack
          BY <1>5a, <2>1, <3>2, <5>1
        <5> QED BY <1>1, <4>1, <5>2
      <4>3. CASE k.call = "deliver"
        <5>1. PICK h \in Groups, q \in Partitions, at \in Nat :
                k.group = h /\ k.partition = q /\ k.at = at /\ Above(h, q, at, i)
          BY <4>1, <4>2, <4>3, CallsAre
        <5>2. From(h, q, at)' /\ (Owned(h, q)' <=> Owned(h, q))
          BY <5>1 DEF Above, From, Owned, ownerFor
        <5>3. Due(h, q, i)' => Due(h, q, i)
          <6>1. h = g /\ q = p => Due(h, q, i)
            BY <1>1, <1>6, <4>2, <5>1 DEF Due
          <6> QED BY <2>3, <4>2, <6>1
        <5>4. Above(h, q, at, i)'
          BY <1>10, <2>3, <4>2, <5>1, <5>2, <5>3 DEF Above
        <5> QED BY <4>2, <5>1, <5>4 DEF Nested
      <4> QED BY <4>2, <4>3 DEF Nested
    <3> QED BY <3>1, <3>2
  <2>5. ASSUME NEW h \in Groups, NEW q \in Partitions PROVE From(h, q, cursor[h][q])' /\ Behind(h, q)'
    <3>1. From(h, q, cursor[h][q]) /\ Behind(h, q) /\ 0 \in 0..n - 1 /\ (Owned(h, q)' <=> Owned(h, q))
      BY <1>1 DEF BrokerInv, Owned, ownerFor
    <3>2. From(h, q, cursor[h][q])'
      BY <3>1 DEF From
    <3> QED BY <1>10, <2>3, <3>1, <3>2 DEF Behind
  <2>6. \A h \in Groups : Holding(h)'
    BY DEF BrokerInv, Holding
  <2> QED BY <1>g, <2>2, <2>4, <2>5, <2>6 DEF BrokerInv
<1>11. CASE Owned(g, p)
  <2>1. stack' = Append(r, l)
    <3>1. stack' = r \o <<l>>
      BY <1>3, <1>8, <1>11, <1>f, <1>r, <1>t DEF Owned
    <3>2. r \o <<l>> = Append(r, l)
      BY <1>5, <1>9, JoinedIs
    <3> QED BY <3>1, <3>2
  <2>2. /\ stack' \in Seq(CallUnderWay) /\ DOMAIN stack' = 1..n + 1 /\ stack'[n + 1] = l /\ stack'[n] = f
        /\ \A i \in 1..n - 1 : stack'[i] = stack[i]
    <3>1. /\ stack' \in Seq(CallUnderWay) /\ DOMAIN stack' = 1..n + 1 /\ stack'[n + 1] = l
          /\ \A i \in 1..n : stack'[i] = r[i]
      <4>1. r \in Seq(CallUnderWay) /\ l \in CallUnderWay /\ n \in Nat /\ Len(r) = n /\ stack' = Append(r, l)
        BY <1>1, <1>5, <1>9, <2>1
      <4> QED BY ONLY <4>1, PushIs
    <3> QED BY <1>1, <1>5, <1>5a, <3>1
  <2>2a. /\ \A i \in DOMAIN stack' : i = n + 1 \/ i = n \/ (i \in DOMAIN stack /\ i \in 1..n - 1 /\ stack'[i] = stack[i])
         /\ \A i \in DOMAIN stack : i = n \/ (i \in DOMAIN stack' /\ stack'[i] = stack[i])
         /\ n \in DOMAIN stack' /\ n + 1 \in DOMAIN stack'
    BY <1>1, <2>2
  <2>3. BrokerTypes'
    <3>1. \A i \in DOMAIN stack' : stack'[i].call = "deliver" =>
              i = n + 1 \/ (i \in DOMAIN stack /\ stack'[i] = stack[i])
      BY <1>4, <2>2, <2>2a
    <3>2. stack'[n + 1].at <= size[stack'[n + 1].partition]
      BY <1>7, <1>9, <2>2
    <3>3. \A i \in DOMAIN stack' : stack'[i].call = "deliver" => stack'[i].at <= size[stack'[i].partition]
      <4>1. \A i \in DOMAIN stack : stack[i].call = "deliver" => stack[i].at <= size[stack[i].partition]
        BY DEF BrokerInv, BrokerTypes
      <4> QED BY <3>1, <3>2, <4>1
    <3>4. BrokerTypes
      BY DEF BrokerInv
    <3> QED BY <2>2, <3>3, <3>4 DEF BrokerTypes
  <2>4. ASSUME NEW h \in Groups, NEW q \in Partitions, NEW i \in 0..n - 1
        PROVE  Due(h, q, i)' <=> Due(h, q, i)
    <3>1. Brings(l, h, q) <=> h = g /\ q = p
      BY <1>9 DEF Brings
    <3>2. Brings(stack[n], h, q) <=> Brings(f, h, q) \/ Brings(l, h, q)
      BY <1>6, <3>1
    <3>3. n > i /\ n + 1 > i
      BY <1>1
    <3>4. Due(h, q, i) => Due(h, q, i)'
      <4>1. ASSUME NEW j \in DOMAIN stack, j > i, Brings(stack[j], h, q)
            PROVE  \E k \in DOMAIN stack' : k > i /\ Brings(stack'[k], h, q)
        BY <2>2, <2>2a, <3>2, <3>3, <4>1
      <4> QED BY <4>1 DEF Due, Brings
    <3>5. Due(h, q, i)' => Due(h, q, i)
      <4>1. ASSUME NEW j \in DOMAIN stack', j > i, Brings(stack'[j], h, q)
            PROVE  \E k \in DOMAIN stack : k > i /\ Brings(stack[k], h, q)
        BY <1>1, <2>2, <2>2a, <3>2, <3>3, <4>1
      <4> QED BY <4>1 DEF Due, Brings
    <3> QED BY <3>4, <3>5
  <2>5. ASSUME NEW i \in DOMAIN stack' PROVE Nested(i)'
    <3>1. CASE i = n
      BY <1>4, <2>2, <3>1 DEF Nested
    <3>2. CASE i = n + 1
      <4>1. ~Due(g, p, i)'
        BY <1>1, <2>2, <3>2 DEF Due
      <4>2. From(g, p, cursor[g][p])'
        BY <1>7 DEF From
      <4>3. Above(g, p, cursor[g][p], i)'
        BY <4>1, <4>2 DEF Above
      <4> QED BY <1>9, <2>2, <3>2, <4>3 DEF Nested
    <3>3. CASE i # n /\ i # n + 1
      <4>1. PICK k : k = stack[i]
        OBVIOUS
      <4>2. i \in DOMAIN stack /\ i \in 0..n - 1 /\ stack'[i] = k
        BY <1>1, <2>2, <3>3, <4>1
      <4>3. CASE k.call = "deliver"
        <5>1. PICK h \in Groups, q \in Partitions, at \in Nat :
                k.group = h /\ k.partition = q /\ k.at = at /\ Above(h, q, at, i)
          BY <4>1, <4>2, <4>3, CallsAre
        <5>2. From(h, q, at)' /\ (Owned(h, q)' <=> Owned(h, q))
          BY <5>1 DEF Above, From, Owned, ownerFor
        <5>3. Above(h, q, at, i)'
          BY <2>4, <4>2, <5>1, <5>2 DEF Above
        <5> QED BY <4>2, <5>1, <5>3 DEF Nested
      <4> QED BY <4>2, <4>3 DEF Nested
    <3> QED BY <3>1, <3>2, <3>3
  <2>6. ASSUME NEW h \in Groups, NEW q \in Partitions PROVE From(h, q, cursor[h][q])' /\ Behind(h, q)'
    <3>1. From(h, q, cursor[h][q]) /\ Behind(h, q) /\ 0 \in 0..n - 1 /\ (Owned(h, q)' <=> Owned(h, q))
      BY <1>1 DEF BrokerInv, Owned, ownerFor
    <3>2. From(h, q, cursor[h][q])'
      BY <3>1 DEF From
    <3> QED BY <2>4, <3>1, <3>2 DEF Behind
  <2>7. \A h \in Groups : Holding(h)'
    BY DEF BrokerInv, Holding
  <2> QED BY <1>g, <2>3, <2>5, <2>6, <2>7 DEF BrokerInv
<1> QED BY <1>10, <1>11

\* A loop hands over its next message: whoever reads behind it was excused when it
\* was let in.
LEMMA HandOverKeeps ==
  ASSUME BrokerInv, stack # <<>>, Last(stack).call = "deliver",
         Last(stack).at # size[Last(stack).partition], deliverNew
  PROVE  BrokerInv'
<1>n. PICK n : n = Len(stack)
  OBVIOUS
<1>d. PICK d : d = Last(stack)
  OBVIOUS
<1>1. /\ stack \in Seq(CallUnderWay) /\ d \in CallUnderWay /\ n \in Nat /\ n >= 1 /\ DOMAIN stack = 1..n
      /\ stack[n] = d /\ n \in DOMAIN stack /\ Front(stack) \in Seq(CallUnderWay)
  <2>1. stack \in Seq(CallUnderWay)
    BY DEF BrokerInv, BrokerTypes
  <2>2. DOMAIN stack = 1..Len(stack)
    BY <2>1
  <2>3. /\ Len(stack) \in Nat /\ Len(stack) >= 1 /\ Last(stack) = stack[Len(stack)]
        /\ Last(stack) \in CallUnderWay /\ Front(stack) \in Seq(CallUnderWay)
    BY <2>1, PoppedIs
  <2>4. Len(stack) \in 1..Len(stack)
    BY <2>3
  <2> QED BY <1>n, <1>d, <2>1, <2>2, <2>3, <2>4
<1>2. d \in LoopCall /\ d.call = "deliver"
  BY <1>1, <1>d DEF CallUnderWay, LoopCall, HandlerCall, EachCall
<1>3. PICK g \in Groups, p \in Partitions, at \in Nat :
        d.group = g /\ d.partition = p /\ d.at = at /\ Above(g, p, at, n) /\ at <= size[p]
  BY <1>1, <1>2, CallsAre
<1>m. PICK m : m = <<p, at + 1>>
  OBVIOUS
<1>e. PICK e : e = [d EXCEPT !.at = @ + 1]
  OBVIOUS
<1>h. PICK h : h = handler(g, m)
  OBVIOUS
<1>4. /\ size[p] \in Nat /\ at + 1 <= size[p] /\ at + 1 \in Nat /\ m \in Messages /\ m[1] = p /\ m[2] = at + 1
  <2>1. size[p] \in Nat /\ size[p] <= MaxMessages /\ at # size[p]
    BY <1>d, <1>3 DEF BrokerInv, BrokerTypes
  <2>2. at + 1 \in 1..MaxMessages /\ at + 1 <= size[p]
    BY <1>3, <2>1, BrokerAssumption
  <2> QED BY <1>m, <1>3, <2>1, <2>2 DEF Messages
<1>5. e \in LoopCall /\ e.call = "deliver" /\ e.group = g /\ e.partition = p /\ e.at = at + 1
  BY <1>e, <1>2, <1>3, <1>4 DEF LoopCall
<1>6. h \in HandlerCall /\ h.call = "handler"
  BY <1>h, <1>4 DEF HandlerCall, handler
<1>7. /\ stack' = Front(stack) \o <<e, h>> /\ cursor' = [cursor EXCEPT ![g][p] = at + 1]
      /\ inFlight' = [inFlight EXCEPT ![g] = @ \cup {m}] /\ seen' = [seen EXCEPT ![g][m] = @ + 1]
      /\ UNCHANGED <<size, subs, joined, made, acked, dropped, again>>
  BY <1>d, <1>m, <1>e, <1>h, <1>3 DEF deliverNew, HandOver
<1>r. PICK r : r = Append(Front(stack), e)
  OBVIOUS
<1>8. /\ r \in Seq(CallUnderWay) /\ Len(r) = n /\ DOMAIN r = 1..n /\ r[n] = e
      /\ \A i \in 1..n - 1 : r[i] = stack[i]
  <2>1. n \in Nat /\ n >= 1 /\ r = Append(Front(stack), e) /\ n = Len(stack) /\ stack \in Seq(CallUnderWay) /\ e \in CallUnderWay
    BY <1>1, <1>5, <1>n, <1>r DEF CallUnderWay
  <2> QED BY ONLY <2>1, TopIs
<1>9. /\ stack' \in Seq(CallUnderWay) /\ DOMAIN stack' = 1..n + 1 /\ stack'[n + 1] = h
      /\ \A i \in 1..n : stack'[i] = r[i]
  <2>1. stack' = Append(r, h)
    BY <1>1, <1>5, <1>6, <1>7, <1>r, JoinedIs DEF CallUnderWay
  <2>2. r \in Seq(CallUnderWay) /\ h \in CallUnderWay /\ n \in Nat /\ Len(r) = n /\ stack' = Append(r, h)
    BY <1>1, <1>6, <1>8, <2>1 DEF CallUnderWay
  <2> QED BY ONLY <2>2, PushIs
<1>10. /\ \A i \in DOMAIN stack' : i = n + 1 \/ i = n \/ (i \in DOMAIN stack /\ i \in 1..n - 1 /\ stack'[i] = stack[i])
       /\ \A i \in DOMAIN stack : i = n \/ (i \in DOMAIN stack' /\ stack'[i] = stack[i])
       /\ n \in DOMAIN stack' /\ n + 1 \in DOMAIN stack' /\ stack'[n] = e
  <2>1. n \in 1..n /\ \A i \in 1..n : i \in 1..n + 1 /\ (i = n \/ i \in 1..n - 1)
    BY <1>1
  <2>2. \A i \in 1..n + 1 : i = n + 1 \/ i \in 1..n
    BY <1>1
  <2>3. \A i \in 1..n - 1 : i \in 1..n
    BY <1>1
  <2> QED BY <1>1, <1>8, <1>9, <2>1, <2>2, <2>3
<1>11. /\ cursor' \in [Groups -> [Partitions -> Nat]] /\ cursor'[g][p] = at + 1
       /\ \A k \in Groups, q \in Partitions : (k = g /\ q = p) \/ cursor'[k][q] = cursor[k][q]
  BY <1>4, <1>7 DEF BrokerInv, BrokerTypes
<1>12. /\ seen' \in [Groups -> [Messages -> Nat]] /\ seen'[g][m] = seen[g][m] + 1 /\ seen[g][m] \in Nat
       /\ \A k \in Groups, o \in Messages : (k = g /\ o = m) \/ seen'[k][o] = seen[k][o]
  BY <1>4, <1>7 DEF BrokerInv, BrokerTypes
<1>13. /\ inFlight' \in [Groups -> SUBSET Messages] /\ inFlight'[g] = inFlight[g] \cup {m}
       /\ \A k \in Groups : k # g => inFlight'[k] = inFlight[k]
  BY <1>4, <1>7 DEF BrokerInv, BrokerTypes
<1>14. BrokerTypes'
  <2>1. \A i \in DOMAIN stack' : stack'[i].call = "deliver" => stack'[i].at <= size[stack'[i].partition]
    <3>1. stack'[n].at <= size[stack'[n].partition] /\ stack'[n + 1].call # "deliver"
      BY <1>4, <1>5, <1>6, <1>9, <1>10
    <3> QED BY <1>10, <3>1 DEF BrokerInv, BrokerTypes
  <2>2. \A k \in Groups, q \in Partitions : cursor'[k][q] <= size[q]
    BY <1>4, <1>11 DEF BrokerInv, BrokerTypes
  <2> QED BY <1>7, <1>9, <1>11, <1>12, <1>13, <2>1, <2>2 DEF BrokerInv, BrokerTypes
<1>15. seen[g][m] > 0 => m \in again[g]
  BY <1>3, <1>4 DEF Above, From
<1>16. ASSUME NEW k \in Groups PROVE Holding(k)'
  <2>1. Holding(k)
    BY DEF BrokerInv
  <2>2. ASSUME NEW o \in Messages
        PROVE  /\ o \in inFlight'[k] => seen'[k][o] > 0
               /\ seen'[k][o] > 0 => o \in inFlight'[k] \cup acked[k] \cup dropped[k] /\ o[2] <= size[o[1]]
               /\ seen'[k][o] > 1 => o \in again[k]
    <3>1. CASE k = g /\ o = m
      BY <1>4, <1>12, <1>13, <1>15, <3>1
    <3>2. CASE ~(k = g /\ o = m)
      <4>1. seen'[k][o] = seen[k][o] /\ (o \in inFlight'[k] <=> o \in inFlight[k])
        BY <1>12, <1>13, <3>2
      <4> QED BY <2>1, <4>1 DEF Holding
    <3> QED BY <3>1, <3>2
  <2> QED BY <1>7, <2>1, <2>2 DEF Holding
<1>17. ASSUME NEW k \in Groups, NEW q \in Partitions, NEW c \in Nat, From(k, q, c),
              k = g /\ q = p => \A o \in Messages : o[1] = p /\ o[2] > c => o \in again[g]
       PROVE  From(k, q, c)'
  <2>1. ASSUME NEW o \in Messages, o[1] = q
        PROVE  (o[2] <= c => seen'[k][o] > 0) /\ (o[2] > c /\ seen'[k][o] > 0 => o \in again[k])
    <3>1. CASE k = g /\ o = m
      BY <1>4, <1>12, <1>17, <2>1, <3>1
    <3>2. CASE ~(k = g /\ o = m)
      <4>1. seen'[k][o] = seen[k][o]
        BY <1>12, <3>2
      <4> QED BY <1>17, <2>1, <4>1 DEF From
    <3> QED BY <3>1, <3>2
  <2> QED BY <1>7, <2>1 DEF From
<1>18. From(g, p, at + 1)'
  <2>1. ASSUME NEW o \in Messages, o[1] = p
        PROVE  (o[2] <= at + 1 => seen'[g][o] > 0) /\ (o[2] > at + 1 /\ seen'[g][o] > 0 => o \in again[g])
    <3>1. CASE o = m
      BY <1>4, <1>12, <3>1
    <3>2. CASE o # m
      <4>1. seen'[g][o] = seen[g][o]
        BY <1>12, <3>2
      <4>2. o[2] # at + 1 /\ o[2] \in Nat
        BY <1>m, <2>1, <3>2 DEF Messages
      <4>3. (o[2] <= at => seen[g][o] > 0) /\ (o[2] > at /\ seen[g][o] > 0 => o \in again[g])
        BY <1>3, <2>1 DEF Above, From
      <4> QED BY <1>4, <4>1, <4>2, <4>3
    <3> QED BY <3>1, <3>2
  <2> QED BY <1>7, <2>1 DEF From
<1>19. ASSUME NEW k \in Groups, NEW q \in Partitions, NEW i \in 0..n - 1
       PROVE  /\ Due(k, q, i)' <=> Due(k, q, i)
              /\ k = g /\ q = p => Due(k, q, i)
  <2>1. (Brings(e, k, q) <=> Brings(d, k, q)) /\ ~Brings(h, k, q) /\ (k = g /\ q = p => Brings(d, k, q))
    BY <1>2, <1>3, <1>5, <1>6 DEF Brings
  <2>2. n > i
    BY <1>1
  <2>3. Due(k, q, i) => Due(k, q, i)'
    <3>1. ASSUME NEW j \in DOMAIN stack, j > i, Brings(stack[j], k, q)
          PROVE  \E l \in DOMAIN stack' : l > i /\ Brings(stack'[l], k, q)
      BY <1>1, <1>10, <2>1, <2>2, <3>1
    <3> QED BY <3>1 DEF Due, Brings
  <2>4. Due(k, q, i)' => Due(k, q, i)
    <3>1. ASSUME NEW j \in DOMAIN stack', j > i, Brings(stack'[j], k, q)
          PROVE  \E l \in DOMAIN stack : l > i /\ Brings(stack[l], k, q)
      BY <1>1, <1>9, <1>10, <2>1, <2>2, <3>1
    <3> QED BY <3>1 DEF Due, Brings
  <2>5. k = g /\ q = p => Due(k, q, i)
    BY <1>1, <2>1, <2>2 DEF Due
  <2> QED BY <2>3, <2>4, <2>5
<1>20. ASSUME NEW i \in DOMAIN stack' PROVE Nested(i)'
  <2>1. CASE i = n + 1
    BY <1>6, <1>9, <2>1 DEF Nested
  <2>2. CASE i = n
    <3>1. ~Due(g, p, n)'
      <4>1. ~Brings(h, g, p)
        BY <1>6 DEF Brings
      <4>2. \A j \in DOMAIN stack' : j > n => j = n + 1
        BY <1>1, <1>9
      <4> QED BY <1>9, <4>1, <4>2 DEF Due, Brings
    <3>2. Above(g, p, at + 1, n)'
      BY <1>11, <1>18, <3>1 DEF Above
    <3> QED BY <1>5, <1>10, <2>2, <3>2 DEF Nested
  <2>3. CASE i # n /\ i # n + 1
    <3>1. PICK f : f = stack[i]
      OBVIOUS
    <3>2. i \in DOMAIN stack /\ i \in 0..n - 1 /\ stack'[i] = f
      <4>1. i \in DOMAIN stack /\ i \in 1..n - 1 /\ stack'[i] = f
        BY <1>10, <2>3, <3>1
      <4> QED BY <1>1, <4>1
    <3>3. CASE f.call = "deliver"
      <4>1. PICK k \in Groups, q \in Partitions, c \in Nat :
              f.group = k /\ f.partition = q /\ f.at = c /\ Above(k, q, c, i)
        BY <3>1, <3>2, <3>3, CallsAre
      <4>2. From(k, q, c)'
        BY <1>17, <1>19, <3>2, <4>1 DEF Above
      <4>3. Owned(k, q)' <=> Owned(k, q)
        BY <1>7 DEF Owned, ownerFor
      <4>4. (Due(k, q, i)' <=> Due(k, q, i)) /\ (cursor'[k][q] = cursor[k][q] \/ Due(k, q, i))
        BY <1>11, <1>19, <3>2
      <4>5. Above(k, q, c, i)'
        BY <1>7, <4>1, <4>2, <4>3, <4>4 DEF Above
      <4> QED BY <3>2, <4>1, <4>5 DEF Nested
    <3> QED BY <3>2, <3>3 DEF Nested
  <2> QED BY <2>1, <2>2, <2>3
<1>21. ASSUME NEW k \in Groups, NEW q \in Partitions PROVE From(k, q, cursor[k][q])' /\ Behind(k, q)'
  <2>0. 0 \in 0..n - 1 /\ (Owned(k, q)' <=> Owned(k, q))
    BY <1>1, <1>7 DEF Owned, ownerFor
  <2>1. CASE k = g /\ q = p
    <3>1. Due(k, q, 0)'
      BY <1>19, <2>0, <2>1
    <3>2. From(g, p, cursor[g][p])'
      BY <1>11, <1>18 DEF From
    <3> QED BY <2>1, <3>1, <3>2 DEF Behind
  <2>2. CASE ~(k = g /\ q = p)
    <3>1. PICK c : c = cursor[k][q]
      OBVIOUS
    <3>2. c \in Nat /\ From(k, q, c) /\ Behind(k, q) /\ cursor'[k][q] = c
      BY <1>11, <2>2, <3>1 DEF BrokerInv, BrokerTypes
    <3>3. From(k, q, c)'
      BY <1>17, <2>2, <3>2
    <3>4. From(k, q, cursor[k][q])'
      BY <3>2, <3>3 DEF From
    <3>5. Behind(k, q)'
      BY <1>7, <1>19, <2>0, <3>1, <3>2 DEF Behind
    <3> QED BY <3>4, <3>5
  <2> QED BY <2>1, <2>2
<1>22. NoGaps'
  <2>1. ASSUME NEW k \in Groups, NEW q \in Partitions, NEW i \in 2..MaxMessages, seen'[k][<<q, i>>] > 0
        PROVE  seen'[k][<<q, i - 1>>] > 0
    <3>0. <<q, i>> \in Messages /\ <<q, i - 1>> \in Messages
      BY BrokerAssumption DEF Messages
    <3>1. \A o \in Messages : seen[k][o] \in Nat /\ (seen[k][o] > 0 => seen'[k][o] > 0)
      <4>1. \A o \in Messages : seen[k][o] \in Nat
        BY DEF BrokerInv, BrokerTypes
      <4>2. \A o \in Messages : (k = g /\ o = m) \/ seen'[k][o] = seen[k][o]
        BY <1>12
      <4>3. seen'[g][m] > 0
        BY <1>12
      <4> QED BY <4>1, <4>2, <4>3
    <3>2. CASE k = g /\ <<q, i>> = m
      <4>1. q = p /\ i - 1 = at
        BY <1>m, <3>2
      <4>2. seen[g][<<q, i - 1>>] > 0
        BY <1>3, <3>0, <4>1 DEF Above, From
      <4> QED BY <3>0, <3>1, <3>2, <4>2
    <3>3. CASE ~(k = g /\ <<q, i>> = m)
      <4>1. seen[k][<<q, i>>] > 0
        BY <1>12, <2>1, <3>0, <3>3
      <4> QED BY <3>0, <3>1, <4>1 DEF BrokerInv, NoGaps
    <3> QED BY <3>2, <3>3
  <2> QED BY <2>1 DEF NoGaps
<1> QED BY <1>14, <1>16, <1>20, <1>21, <1>22 DEF BrokerInv

\* A call of a client that starts no other.
LEMMA StayKeeps ==
  ASSUME BrokerInv, UNCHANGED <<size, joined, cursor, stack, made, seen>>,
         BrokerTypes', \A g \in Groups : Holding(g)', \A g \in Groups : again[g] \subseteq again'[g],
         \A g \in Groups : subs'[g] \subseteq subs[g]
  PROVE  BrokerInv'
<1>1. ASSUME NEW g \in Groups, NEW p \in Partitions, NEW i
      PROVE  (Due(g, p, i)' <=> Due(g, p, i)) /\ (Owned(g, p)' => Owned(g, p))
  BY DEF Due, Brings, Owned, ownerFor
<1>2. ASSUME NEW g \in Groups, NEW p, NEW at, From(g, p, at) PROVE From(g, p, at)'
  BY <1>2 DEF From
<1>3. ASSUME NEW i \in DOMAIN stack PROVE Nested(i)'
  <2>1. PICK f : f = stack[i]
    OBVIOUS
  <2>2. CASE f.call = "deliver"
    <3>1. PICK g \in Groups, p \in Partitions, at \in Nat :
            f.group = g /\ f.partition = p /\ f.at = at /\ Above(g, p, at, i)
      BY <2>1, <2>2, CallsAre
    <3>2. Above(g, p, at, i)'
      BY <1>1, <1>2, <3>1 DEF Above
    <3> QED BY <2>1, <3>1, <3>2 DEF Nested
  <2> QED BY <2>1, <2>2 DEF Nested
<1>4. ASSUME NEW g \in Groups, NEW p \in Partitions PROVE From(g, p, cursor[g][p])' /\ Behind(g, p)'
  <2>1. From(g, p, cursor[g][p]) /\ Behind(g, p)
    BY DEF BrokerInv
  <2>2. From(g, p, cursor[g][p])'
    BY <2>1 DEF From
  <2> QED BY <1>1, <2>1, <2>2 DEF Behind
<1>g. NoGaps'
  BY GapsKept DEF BrokerInv
<1> QED BY <1>3, <1>4, <1>g DEF BrokerInv

LEMMA AheadIs == ASSUME NEW g, NEW ps PROVE Ahead(g, ps) \subseteq Messages
BY DEF Ahead

LEMMA PublishKeeps ==
  ASSUME BrokerInv, NEW p \in Partitions, publish(p) PROVE BrokerInv'
<1>f. PICK f : f = each(joined \X {p})
  OBVIOUS
<1>0. BrokerTypes /\ size[p] \in Nat
  BY DEF BrokerInv, BrokerTypes
<1>1. f \in EachCall /\ f.call = "each" /\ f.todo = joined \X {p}
  BY <1>f, <1>0 DEF EachCall, each, BrokerTypes
<1>2. /\ stack' = Append(stack, f) /\ size' = [size EXCEPT ![p] = @ + 1] /\ size[p] < MaxMessages
      /\ again' = [g \in Groups |-> again[g] \cup Ahead(g, {p})]
      /\ UNCHANGED <<subs, joined, cursor, inFlight, made, seen, acked, dropped>>
  BY <1>f DEF publish
<1>3. /\ size' \in [Partitions -> Nat] /\ size'[p] = size[p] + 1 /\ size'[p] <= MaxMessages
      /\ \A q \in Partitions : q # p => size'[q] = size[q]
      /\ \A q \in Partitions : size[q] \in Nat /\ size[q] <= size'[q]
  BY <1>0, <1>2, BrokerAssumption DEF BrokerTypes
<1>4. again' \in [Groups -> SUBSET Messages] /\ \A g \in Groups : again'[g] = again[g] \cup Ahead(g, {p})
  BY <1>0, <1>2, AheadIs DEF BrokerTypes
<1>5. BrokerTypes'
  <2>1. stack' \in Seq(CallUnderWay) /\ DOMAIN stack' = 1..Len(stack) + 1 /\ stack'[Len(stack) + 1] = f
        /\ Len(stack) \in Nat /\ \A i \in 1..Len(stack) : stack'[i] = stack[i]
    <3>1. stack \in Seq(CallUnderWay) /\ f \in CallUnderWay /\ Len(stack) \in Nat /\ stack' = Append(stack, f)
      BY <1>0, <1>1, <1>2 DEF BrokerTypes, CallUnderWay
    <3> QED BY ONLY <3>1, PushIs
  <2>2. ASSUME NEW i \in DOMAIN stack', stack'[i].call = "deliver" PROVE stack'[i].at <= size'[stack'[i].partition]
    <3>1. i \in 1..Len(stack) /\ i \in DOMAIN stack
      BY <1>0, <1>1, <2>1, <2>2 DEF BrokerTypes
    <3>2. stack[i].partition \in Partitions /\ stack[i].at \in Nat /\ stack[i].at <= size[stack[i].partition]
      BY <2>1, <2>2, <3>1, CallsAre
    <3>3. size[stack[i].partition] \in Nat /\ size'[stack[i].partition] \in Nat
          /\ size[stack[i].partition] <= size'[stack[i].partition]
      BY <1>3, <3>2
    <3>4. stack'[i] = stack[i]
      BY <2>1, <3>1
    <3> QED BY <3>2, <3>3, <3>4
  <2>3. \A q \in Partitions : size'[q] <= MaxMessages
    BY <1>0, <1>3 DEF BrokerTypes
  <2>4. \A g \in Groups, q \in Partitions : cursor'[g][q] <= size'[q]
    <3>1. ASSUME NEW g \in Groups, NEW q \in Partitions PROVE cursor[g][q] <= size'[q]
      <4>1. cursor[g][q] \in Nat /\ cursor[g][q] <= size[q]
        BY <1>0 DEF BrokerTypes
      <4>2. size[q] \in Nat /\ size'[q] \in Nat /\ size[q] <= size'[q]
        BY <1>3
      <4> QED BY <4>1, <4>2
    <3> QED BY <1>2, <3>1
  <2> QED BY <1>0, <1>2, <1>3, <1>4, <2>1, <2>2, <2>3, <2>4 DEF BrokerTypes
<1>6. ASSUME NEW g \in Groups PROVE Holding(g)'
  <2>1. ASSUME NEW m \in Messages, seen[g][m] > 0 PROVE m[2] <= size'[m[1]]
    <3>1. m[2] <= size[m[1]] /\ m[1] \in Partitions /\ m[2] \in Nat
      BY <2>1 DEF BrokerInv, Holding, Messages
    <3>2. size[m[1]] \in Nat /\ size'[m[1]] \in Nat /\ size[m[1]] <= size'[m[1]]
      BY <1>3, <3>1
    <3> QED BY <3>1, <3>2
  <2>2. Holding(g)
    BY DEF BrokerInv
  <2> QED BY <1>2, <1>4, <2>1, <2>2 DEF Holding
<1>7. ASSUME NEW g \in Groups, NEW q \in Partitions
      PROVE  /\ From(g, q, cursor[g][q])'
             /\ Brings(f, g, q) => Ahead(g, {q}) \subseteq again'[g]
             /\ \/ Brings(f, g, q) \/ ~Owned(g, q)'
                \/ cursor'[g][q] = cursor[g][q] /\ size'[q] = size[q] /\ (Owned(g, q)' => Owned(g, q))
  <2>1. From(g, q, cursor[g][q]) /\ Holding(g)
    BY DEF BrokerInv
  <2>2. From(g, q, cursor[g][q])'
    BY <1>2, <1>4, <2>1 DEF From
  <2>3. Brings(f, g, q) <=> g \in joined /\ q = p
    BY <1>1 DEF Brings
  <2>4. Owned(g, q)' <=> Owned(g, q)
    BY <1>2 DEF Owned, ownerFor
  <2>5. Owned(g, q) => g \in joined
    BY <2>1 DEF Owned, ownerFor, Holding
  <2> QED BY <1>2, <1>3, <1>4, <2>2, <2>3, <2>4, <2>5
<1>8. /\ \A g \in Groups, m \in Messages : seen'[g][m] > 0 <=> seen[g][m] > 0
      /\ \A g \in Groups : again[g] \subseteq again'[g]
  BY <1>2, <1>4
<1> QED BY <1>1, <1>2, <1>5, <1>6, <1>7, <1>8, PushKeeps

LEMMA SubscribesKeep ==
  ASSUME BrokerInv, NEW g \in Groups, NEW ps \in SUBSET Partitions, NEW replay \in BOOLEAN, subscribe(g, ps, replay)
  PROVE  BrokerInv'
<1>f. PICK f : f = each({g} \X ps)
  OBVIOUS
<1>s. PICK s : s = [id |-> made + 1, partitions |-> ps]
  OBVIOUS
<1>0. BrokerTypes /\ made \in Nat
  BY DEF BrokerInv, BrokerTypes
<1>1. f \in EachCall /\ f \in CallUnderWay /\ f.call = "each" /\ f.todo = {g} \X ps
  BY <1>f DEF EachCall, each, CallUnderWay
<1>2. /\ stack' = Append(stack, f) /\ made' = made + 1 /\ joined' = joined \cup {g}
      /\ subs' = [subs EXCEPT ![g] = @ \cup {s}]
      /\ cursor' = [cursor EXCEPT ![g] = [p \in Partitions |-> IF replay /\ p \in ps THEN 0 ELSE cursor[g][p]]]
      /\ again' = [again EXCEPT ![g] = @ \cup Ahead(g, ps) \cup IF replay THEN UNION {Published(p) : p \in ps} ELSE {}]
      /\ UNCHANGED <<size, inFlight, seen, acked, dropped>>
  BY <1>f, <1>s DEF subscribe, Backlog, ensureGroup
<1>3. /\ subs' \in [Groups -> SUBSET Sub] /\ s \in Sub /\ s.id = made + 1 /\ s.partitions = ps /\ subs'[g] = subs[g] \cup {s}
      /\ \A k \in Groups : k # g => subs'[k] = subs[k]
  BY <1>0, <1>2, <1>s DEF BrokerTypes, Sub
<1>4. /\ cursor' \in [Groups -> [Partitions -> Nat]]
      /\ \A p \in Partitions : cursor'[g][p] = IF replay /\ p \in ps THEN 0 ELSE cursor[g][p]
      /\ \A k \in Groups : k # g => cursor'[k] = cursor[k]
  BY <1>0, <1>2 DEF BrokerTypes
<1>5. /\ again' \in [Groups -> SUBSET Messages] /\ again[g] \cup Ahead(g, ps) \subseteq again'[g]
      /\ replay => \A p \in ps : Published(p) \subseteq again'[g]
      /\ \A k \in Groups : k # g => again'[k] = again[k]
  <2>1. ASSUME NEW p \in ps PROVE Published(p) \subseteq Messages
    <3>1. size[p] \in Nat /\ size[p] <= MaxMessages
      BY <1>0 DEF BrokerTypes
    <3>2. 1..size[p] \subseteq 1..MaxMessages
      BY <3>1, BrokerAssumption
    <3> QED BY <3>2 DEF Published, Messages
  <2> QED BY <1>0, <1>2, <2>1, AheadIs DEF BrokerTypes
<1>6. BrokerTypes'
  <2>1. stack' \in Seq(CallUnderWay) /\ DOMAIN stack' = 1..Len(stack) + 1 /\ stack'[Len(stack) + 1] = f
        /\ Len(stack) \in Nat /\ \A i \in 1..Len(stack) : stack'[i] = stack[i]
    <3>1. stack \in Seq(CallUnderWay) /\ f \in CallUnderWay /\ Len(stack) \in Nat /\ stack' = Append(stack, f)
      BY <1>0, <1>1, <1>2 DEF BrokerTypes
    <3> QED BY ONLY <3>1, PushIs
  <2>2. \A i \in DOMAIN stack' : stack'[i].call = "deliver" => stack'[i].at <= size[stack'[i].partition]
    <3>1. \A i \in DOMAIN stack' : i = Len(stack) + 1 \/ (i \in DOMAIN stack /\ stack'[i] = stack[i])
      <4>1. DOMAIN stack = 1..Len(stack)
        BY <1>0 DEF BrokerTypes
      <4>2. \A i \in 1..Len(stack) + 1 : i = Len(stack) + 1 \/ i \in 1..Len(stack)
        BY <2>1
      <4> QED BY <2>1, <4>1, <4>2
    <3> QED BY <1>0, <1>1, <2>1, <3>1 DEF BrokerTypes
  <2>3. ASSUME NEW k \in Groups, NEW t \in subs'[k] PROVE t.id \in 1..made'
    <3>1. 1..made \subseteq 1..made' /\ made + 1 \in 1..made'
      BY <1>0, <1>2
    <3>2. t = s \/ t \in subs[k]
      BY <1>3, <2>3
    <3> QED BY <1>0, <1>3, <3>1, <3>2 DEF BrokerTypes
  <2>4. ASSUME NEW k \in Groups, NEW p \in Partitions PROVE cursor'[k][p] <= size[p]
    <3>1. cursor[k][p] <= size[p] /\ size[p] \in Nat
      BY <1>0 DEF BrokerTypes
    <3>2. cursor'[k][p] = 0 \/ cursor'[k][p] = cursor[k][p]
      BY <1>4
    <3> QED BY <3>1, <3>2
  <2>5. made' \in Nat /\ joined' \subseteq Groups
    BY <1>0, <1>2 DEF BrokerTypes
  <2> QED BY <1>0, <1>2, <1>3, <1>4, <1>5, <2>1, <2>2, <2>3, <2>4, <2>5 DEF BrokerTypes
<1>7. \A k \in Groups : again[k] \subseteq again'[k]
  BY <1>5
<1>8. ASSUME NEW k \in Groups PROVE Holding(k)'
  <2>1. Holding(k)
    BY DEF BrokerInv
  <2>2. subs'[k] # {} => k \in joined'
    BY <1>2, <1>3, <2>1 DEF Holding
  <2> QED BY <1>2, <1>7, <2>1, <2>2 DEF Holding
<1>9. ASSUME NEW k \in Groups, NEW q \in Partitions PROVE From(k, q, cursor[k][q])'
  <2>1. From(k, q, cursor[k][q])
    BY DEF BrokerInv
  <2>2. CASE k = g /\ q \in ps /\ replay
    <3>1. cursor'[k][q] = 0
      BY <1>4, <2>2
    <3>2. ASSUME NEW m \in Messages, m[1] = q, seen[k][m] > 0 PROVE m \in again'[k]
      <4>1. m \in Partitions \X (1..MaxMessages) /\ m[2] <= size[q] /\ size[q] \in Nat
        BY <1>0, <3>2 DEF Messages, BrokerInv, Holding, BrokerTypes
      <4>2. m[2] \in 1..size[q] /\ m = <<q, m[2]>>
        BY <3>2, <4>1
      <4>3. m \in Published(q)
        BY <4>2 DEF Published
      <4> QED BY <1>5, <2>2, <4>3
    <3>3. \A m \in Messages : m[2] \in Nat /\ m[2] > 0
      BY BrokerAssumption DEF Messages
    <3> QED BY <1>2, <3>1, <3>2, <3>3 DEF From
  <2>3. CASE ~(k = g /\ q \in ps /\ replay)
    <3>1. cursor'[k][q] = cursor[k][q]
      BY <1>4, <2>3
    <3> QED BY <1>2, <1>7, <2>1, <3>1 DEF From
  <2> QED BY <2>2, <2>3
<1>10. ASSUME NEW k \in Groups, NEW q \in Partitions
       PROVE  /\ Brings(f, k, q) => Ahead(k, {q}) \subseteq again'[k]
              /\ \/ Brings(f, k, q) \/ ~Owned(k, q)'
                 \/ cursor'[k][q] = cursor[k][q] /\ size'[q] = size[q] /\ (Owned(k, q)' => Owned(k, q))
  <2>1. Brings(f, k, q) <=> k = g /\ q \in ps
    BY <1>1 DEF Brings
  <2>2. q \in ps => Ahead(g, {q}) \subseteq Ahead(g, ps)
    BY DEF Ahead
  <2>3. ~Brings(f, k, q) => cursor'[k][q] = cursor[k][q] /\ (Owned(k, q)' => Owned(k, q))
    BY <1>3, <1>4, <2>1 DEF Owned, ownerFor
  <2> QED BY <1>2, <1>5, <2>1, <2>2, <2>3
<1> QED BY <1>1, <1>2, <1>6, <1>7, <1>8, <1>9, <1>10, PushKeeps

LEMMA CloseOfSubKeeps ==
  ASSUME BrokerInv, NEW g \in Groups, NEW s \in subs[g], close(g, s) PROVE BrokerInv'
<1>0. BrokerTypes
  BY DEF BrokerInv
<1>1. /\ subs' = [subs EXCEPT ![g] = {t \in @ : t.id # s.id}]
      /\ UNCHANGED <<size, joined, cursor, inFlight, stack, made, seen, acked, dropped, again>>
  BY DEF close
<1>2. subs' \in [Groups -> SUBSET Sub] /\ \A k \in Groups : subs'[k] \subseteq subs[k]
  BY <1>0, <1>1 DEF BrokerTypes
<1>3. BrokerTypes'
  BY <1>0, <1>1, <1>2 DEF BrokerTypes
<1>4. \A k \in Groups : Holding(k)'
  BY <1>1, <1>2 DEF BrokerInv, Holding
<1> QED BY <1>1, <1>2, <1>3, <1>4, StayKeeps

LEMMA AckKeeps ==
  ASSUME BrokerInv, NEW g \in Groups, NEW m \in inFlight[g], ack(g, m) PROVE BrokerInv'
<1>0. BrokerTypes
  BY DEF BrokerInv
<1>1. /\ inFlight' = [inFlight EXCEPT ![g] = @ \ {m}] /\ acked' = [acked EXCEPT ![g] = @ \cup {m}]
      /\ UNCHANGED <<size, subs, joined, cursor, stack, made, seen, dropped, again>>
  BY DEF ack
<1>2. /\ inFlight' \in [Groups -> SUBSET Messages] /\ acked' \in [Groups -> SUBSET Messages]
      /\ \A k \in Groups : inFlight'[k] \subseteq inFlight[k] /\ inFlight[k] \cup acked[k] \subseteq inFlight'[k] \cup acked'[k]
  BY <1>0, <1>1 DEF BrokerTypes
<1>3. BrokerTypes'
  BY <1>0, <1>1, <1>2 DEF BrokerTypes
<1>4. ASSUME NEW k \in Groups PROVE Holding(k)'
  <2>1. Holding(k)
    BY DEF BrokerInv
  <2> QED BY <1>1, <1>2, <2>1 DEF Holding
<1> QED BY <1>1, <1>3, <1>4, StayKeeps

LEMMA NackKeeps ==
  ASSUME BrokerInv, NEW g \in Groups, NEW m \in inFlight[g], nack(g, m) PROVE BrokerInv'
<1>0. BrokerTypes /\ m \in Messages /\ m[1] \in Partitions /\ seen[g][m] \in Nat /\ seen[g][m] > 0
  <2>1. BrokerTypes /\ Holding(g)
    BY DEF BrokerInv
  <2>2. m \in Messages /\ seen[g][m] \in Nat
    BY <2>1 DEF BrokerTypes
  <2>3. m[1] \in Partitions
    BY <2>2 DEF Messages
  <2> QED BY <2>1, <2>2, <2>3 DEF Holding
<1>1. /\ again' = [again EXCEPT ![g] = @ \cup {m}]
      /\ UNCHANGED <<size, subs, joined, cursor, made, acked>>
  BY DEF nack
<1>2. /\ again' \in [Groups -> SUBSET Messages] /\ m \in again'[g]
      /\ \A k \in Groups : again[k] \subseteq again'[k]
  BY <1>0, <1>1 DEF BrokerTypes
<1>3. CASE ownerFor(g, m[1]) = {}
  <2>1. /\ inFlight' = [inFlight EXCEPT ![g] = @ \ {m}] /\ dropped' = [dropped EXCEPT ![g] = @ \cup {m}]
        /\ UNCHANGED <<stack, seen>>
    BY <1>3 DEF nack
  <2>2. /\ inFlight' \in [Groups -> SUBSET Messages] /\ dropped' \in [Groups -> SUBSET Messages]
        /\ \A k \in Groups : inFlight'[k] \subseteq inFlight[k] /\ inFlight[k] \cup dropped[k] \subseteq inFlight'[k] \cup dropped'[k]
    BY <1>0, <2>1 DEF BrokerTypes
  <2>3. BrokerTypes'
    BY <1>0, <1>1, <1>2, <2>1, <2>2 DEF BrokerTypes
  <2>4. ASSUME NEW k \in Groups PROVE Holding(k)'
    <3>1. Holding(k)
      BY DEF BrokerInv
    <3> QED BY <1>1, <1>2, <2>1, <2>2, <3>1 DEF Holding
  <2> QED BY <1>1, <1>2, <2>1, <2>3, <2>4, StayKeeps
<1>4. CASE ownerFor(g, m[1]) # {}
  <2>f. PICK f : f = handler(g, m)
    OBVIOUS
  <2>1. /\ inFlight' = [inFlight EXCEPT ![g] = @ \cup {m}] /\ seen' = [seen EXCEPT ![g][m] = @ + 1]
        /\ stack' = Append(stack, f) /\ dropped' = dropped
    BY <1>4, <2>f DEF nack, HandOver
  <2>2. f \in HandlerCall /\ f \in CallUnderWay /\ f.call = "handler"
    BY <1>0, <2>f DEF HandlerCall, CallUnderWay, handler
  <2>3. inFlight' = inFlight
    BY <1>0, <2>1 DEF BrokerTypes
  <2>4. /\ seen' \in [Groups -> [Messages -> Nat]] /\ seen'[g][m] = seen[g][m] + 1
        /\ \A k \in Groups, o \in Messages : (k = g /\ o = m) \/ seen'[k][o] = seen[k][o]
    BY <1>0, <2>1 DEF BrokerTypes
  <2>5. BrokerTypes'
    <3>1. stack' \in Seq(CallUnderWay) /\ DOMAIN stack' = 1..Len(stack) + 1 /\ stack'[Len(stack) + 1] = f
          /\ Len(stack) \in Nat /\ \A i \in 1..Len(stack) : stack'[i] = stack[i]
      <4>1. stack \in Seq(CallUnderWay) /\ f \in CallUnderWay /\ Len(stack) \in Nat /\ stack' = Append(stack, f)
        BY <1>0, <2>1, <2>2 DEF BrokerTypes
      <4> QED BY ONLY <4>1, PushIs
    <3>2. \A i \in DOMAIN stack' : stack'[i].call = "deliver" => stack'[i].at <= size[stack'[i].partition]
      <4>1. \A i \in DOMAIN stack' : i = Len(stack) + 1 \/ (i \in DOMAIN stack /\ stack'[i] = stack[i])
        <5>1. DOMAIN stack = 1..Len(stack)
          BY <1>0 DEF BrokerTypes
        <5>2. \A i \in 1..Len(stack) + 1 : i = Len(stack) + 1 \/ i \in 1..Len(stack)
          BY <3>1
        <5> QED BY <3>1, <5>1, <5>2
      <4> QED BY <1>0, <2>2, <3>1, <4>1 DEF BrokerTypes
    <3> QED BY <1>0, <1>1, <1>2, <2>1, <2>3, <2>4, <3>1, <3>2 DEF BrokerTypes
  <2>6. \A k \in Groups, o \in Messages : seen'[k][o] > 0 <=> seen[k][o] > 0
    BY <1>0, <2>4
  <2>7. ASSUME NEW k \in Groups PROVE Holding(k)'
    <3>1. Holding(k)
      BY DEF BrokerInv
    <3>2. \A o \in Messages : seen'[k][o] > 1 => o \in again'[k]
      <4>1. ASSUME NEW o \in Messages, seen'[k][o] > 1 PROVE o \in again'[k]
        <5>1. CASE k = g /\ o = m
          BY <1>2, <5>1
        <5>2. CASE ~(k = g /\ o = m)
          BY <1>2, <2>4, <3>1, <4>1, <5>2 DEF Holding
        <5> QED BY <5>1, <5>2
      <4> QED BY <4>1
    <3> QED BY <1>1, <2>1, <2>3, <2>6, <3>1, <3>2 DEF Holding
  <2>8. ASSUME NEW k \in Groups, NEW q \in Partitions
        PROVE  /\ From(k, q, cursor[k][q])'
               /\ Brings(f, k, q) => Ahead(k, {q}) \subseteq again'[k]
               /\ cursor'[k][q] = cursor[k][q] /\ size'[q] = size[q] /\ (Owned(k, q)' => Owned(k, q))
    <3>1. From(k, q, cursor[k][q])
      BY DEF BrokerInv
    <3>2. From(k, q, cursor[k][q])'
      BY <1>1, <1>2, <2>6, <3>1 DEF From
    <3>3. ~Brings(f, k, q)
      BY <2>2 DEF Brings
    <3> QED BY <1>1, <3>2, <3>3 DEF Owned, ownerFor
  <2> QED BY <1>2, <2>1, <2>2, <2>5, <2>6, <2>7, <2>8, PushKeeps
<1> QED BY <1>3, <1>4

LEMMA BrokerStart == BrokerInit => BrokerInv
<1> SUFFICES ASSUME BrokerInit PROVE BrokerInv
  OBVIOUS
<1>1. /\ size = [p \in Partitions |-> 0] /\ subs = [g \in Groups |-> {}] /\ joined = {}
      /\ cursor = [g \in Groups |-> [p \in Partitions |-> 0]] /\ inFlight = [g \in Groups |-> {}]
      /\ stack = <<>> /\ made = 0 /\ seen = [g \in Groups |-> [m \in Messages |-> 0]]
      /\ acked = [g \in Groups |-> {}] /\ dropped = [g \in Groups |-> {}] /\ again = [g \in Groups |-> {}]
  BY DEF BrokerInit
<1>2. stack \in Seq(CallUnderWay) /\ DOMAIN stack = {}
  BY <1>1
<1>3. BrokerTypes
  BY <1>1, <1>2, BrokerAssumption DEF BrokerTypes
<1>4. \A g \in Groups : Holding(g)
  BY <1>1 DEF Holding
<1>5. ASSUME NEW g \in Groups, NEW p \in Partitions PROVE From(g, p, cursor[g][p]) /\ Behind(g, p)
  <2>1. \A m \in Messages : m[2] \in Nat /\ m[2] > 0
    BY BrokerAssumption DEF Messages
  <2> QED BY <1>1, <2>1 DEF From, Behind, Owned, ownerFor
<1>6. NoGaps
  BY <1>1, BrokerAssumption DEF NoGaps, Messages
<1> QED BY <1>2, <1>3, <1>4, <1>5, <1>6 DEF BrokerInv

LEMMA LoopsKeep ==
  ASSUME BrokerInv, NextLoop \/ deliverNew \/ handlerReturns PROVE BrokerInv'
<1>1. CASE NextLoop
  <2>1. /\ stack # <<>> /\ Last(stack).call = "each"
        /\ UNCHANGED <<size, subs, joined, cursor, inFlight, made, seen, acked, dropped, again>>
    BY <1>1 DEF NextLoop
  <2>2. CASE Last(stack).todo = {} /\ stack' = Front(stack)
    <3>1. \A g \in Groups, p \in Partitions : ~Brings(Last(stack), g, p)
      BY <2>1, <2>2 DEF Brings
    <3> QED BY <2>1, <2>2, <3>1, PopKeeps
  <2>3. ASSUME NEW next \in Last(stack).todo,
               stack' = Append(Front(stack), each(Last(stack).todo \ {next}))
                        \o IF ownerFor(next[1], next[2]) = {} THEN <<>>
                           ELSE <<loop(next[1], next[2], cursor[next[1]][next[2]])>>
        PROVE  BrokerInv'
    BY <2>1, <2>3, DescendKeeps
  <2> QED BY <1>1, <2>2, <2>3 DEF NextLoop
<1>2. CASE handlerReturns
  <2>1. /\ stack # <<>> /\ Last(stack).call = "handler" /\ stack' = Front(stack)
        /\ UNCHANGED <<size, subs, joined, cursor, inFlight, made, seen, acked, dropped, again>>
    BY <1>2 DEF handlerReturns
  <2>2. \A g \in Groups, p \in Partitions : ~Brings(Last(stack), g, p)
    BY <2>1 DEF Brings
  <2> QED BY <2>1, <2>2, PopKeeps
<1>3. CASE deliverNew
  <2>1. stack # <<>> /\ Last(stack).call = "deliver"
    BY <1>3 DEF deliverNew
  <2>2. CASE Last(stack).at # size[Last(stack).partition]
    BY <1>3, <2>1, <2>2, HandOverKeeps
  <2>3. CASE Last(stack).at = size[Last(stack).partition]
    <3>1. stack' = Front(stack) /\ UNCHANGED <<size, subs, joined, cursor, inFlight, made, seen, acked, dropped, again>>
      BY <1>3, <2>3 DEF deliverNew
    <3>2. Len(stack) \in DOMAIN stack /\ Last(stack) = stack[Len(stack)] /\ DOMAIN stack = 1..Len(stack)
          /\ Len(stack) \in Nat
      <4>1. stack \in Seq(CallUnderWay)
        BY DEF BrokerInv, BrokerTypes
      <4>2. DOMAIN stack = 1..Len(stack) /\ Len(stack) \in Nat
        BY <4>1
      <4>3. Len(stack) >= 1 /\ Last(stack) = stack[Len(stack)]
        BY <2>1, <4>1, PoppedIs
      <4> QED BY <4>2, <4>3
    <3>3. ASSUME NEW g \in Groups, NEW p \in Partitions, Brings(Last(stack), g, p), Owned(g, p)
          PROVE  cursor[g][p] = size[p]
      <4>1. Last(stack).group = g /\ Last(stack).partition = p
        BY <2>1, <3>3 DEF Brings
      <4>2. Above(g, p, Last(stack).at, Len(stack))
        BY <2>1, <3>2, <4>1, CallsAre
      <4>3. ~Due(g, p, Len(stack))
        BY <3>2 DEF Due
      <4> QED BY <2>3, <3>3, <4>1, <4>2, <4>3 DEF Above
    <3> QED BY <2>1, <3>1, <3>3, PopKeeps
  <2> QED BY <2>2, <2>3
<1> QED BY <1>1, <1>2, <1>3

LEMMA BrokerStep == BrokerInv /\ [BrokerNext]_brokerVars => BrokerInv'
<1> SUFFICES ASSUME BrokerInv, [BrokerNext]_brokerVars PROVE BrokerInv'
  OBVIOUS
<1>1. ASSUME NEW p \in Partitions, publish(p) PROVE BrokerInv'
  BY <1>1, PublishKeeps
<1>2. CASE NextLoop \/ deliverNew \/ handlerReturns
  BY <1>2, LoopsKeep
<1>3. ASSUME NEW g \in Groups, NEW ps \in SUBSET Partitions \ {{}}, NEW replay \in BOOLEAN, subscribe(g, ps, replay)
      PROVE  BrokerInv'
  BY <1>3, SubscribesKeep
<1>4. ASSUME NEW g \in Groups, NEW s \in subs[g], close(g, s) PROVE BrokerInv'
  BY <1>4, CloseOfSubKeeps
<1>5. ASSUME NEW g \in Groups, NEW m \in inFlight[g], ack(g, m) \/ nack(g, m) PROVE BrokerInv'
  BY <1>5, AckKeeps, NackKeeps
<1>6. CASE UNCHANGED brokerVars
  <2>1. BrokerTypes' /\ \A g \in Groups : Holding(g)'
    BY <1>6 DEF brokerVars, BrokerInv, BrokerTypes, Holding
  <2> QED BY <1>6, <2>1, StayKeeps DEF brokerVars
<1> QED BY <1>1, <1>2, <1>3, <1>4, <1>5, <1>6 DEF BrokerNext

LEMMA BrokerHolds == BrokerInv => DeliveryHolds
<1> SUFFICES ASSUME BrokerInv PROVE DeliveryHolds
  OBVIOUS
<1>0. BrokerTypes /\ \A g \in Groups : Holding(g)
  BY DEF BrokerInv
<1>1. BrokerTypeOK
  <2>1. \A p \in Partitions : size[p] \in 0..MaxMessages
    BY <1>0, BrokerAssumption DEF BrokerTypes
  <2>2. \A g \in Groups, p \in Partitions : cursor[g][p] \in 0..size[p]
    BY <1>0 DEF BrokerTypes
  <2>3. ASSUME NEW i \in DOMAIN stack PROVE stack[i].call \in {"handler", "deliver", "each"}
    <3>1. stack[i] \in CallUnderWay
      BY CallsAre
    <3> QED BY <3>1 DEF CallUnderWay, HandlerCall, LoopCall, EachCall
  <2>4. \A g \in Groups : /\ inFlight[g] \cup acked[g] \cup dropped[g] \cup again[g] \subseteq Messages
                          /\ \A s \in subs[g] : s.id \in 1..made
    BY <1>0 DEF BrokerTypes
  <2> QED BY <2>1, <2>2, <2>3, <2>4 DEF BrokerTypeOK
<1>2. HeldUntilAcked /\ OnceUnlessExcused
  BY <1>0 DEF Holding, HeldUntilAcked, OnceUnlessExcused
<1>3. CaughtUp
  <2>1. ASSUME stack = <<>>, NEW g \in Groups, NEW p \in Partitions, ownerFor(g, p) # {} PROVE cursor[g][p] = size[p]
    BY <2>1 DEF BrokerInv, Behind, Due, Owned
  <2> QED BY <2>1 DEF CaughtUp
<1>4. NoGaps
  BY DEF BrokerInv
<1> QED BY <1>1, <1>2, <1>3, <1>4 DEF DeliveryHolds

\* The broker's delivery to a group: a message handed over is kept until it is
\* acked or nacked with nobody to own it, a group sees every partition from its
\* first message on and without gaps, twice only for a reason, and at rest all of
\* what it owns, however handlers publish, subscribe and nack within each other.
THEOREM DeliveryIsWhole == BrokerSpec => []DeliveryHolds
<1> QED BY BrokerStart, BrokerStep, BrokerHolds, PTL DEF BrokerSpec

-----------------------------------------------------------------------------
(* The durable store: the projections, the queue of writes and Postgres. *)
StoreKeys == {"id", "led"} \X Nat \cup Companions \cup Creators
StoreRows == [key : StoreKeys, unique : Emails \cup Packets \cup PersonaIds \cup {NoValue},
              value : StoreKeys \cup PersonaIds \cup {NoValue}]
StoreWrites == [op : {"create", "upsert", "delete"}, table : Tables, row : StoreRows]

StoreTypes ==
  /\ rows \in [Tables -> SUBSET StoreRows] /\ db \in [Tables -> SUBSET StoreRows]
  /\ writes \in Seq(StoreWrites)
  /\ phase \in {"down", "up", "closing"} /\ (phase = "down" => writes = <<>>)
  /\ calls \in 0..Calls /\ ledgerSeq \in 0..calls /\ faults \in 0..Faults
  /\ failed \subseteq Tables

\* A fresh id is new in the tables whose rows only get such ids.
Numbered == {"securityAudit", "user", "session", "likenessUsageEvent"}
Old(key) == \E n \in 0..calls - 1 : key = <<"id", n>>
Dated ==
  /\ \A t \in Numbered : \A r \in rows[t] \cup db[t] : Old(r.key)
  /\ \A i \in DOMAIN writes : writes[i].table \in Numbered => Old(writes[i].row.key)
  /\ \A k \in loggedOut : Old(k)

\* Users and persona ids in memory and in Postgres have one holder each.
Claimed == {"user", "creatorPersona"}
Claims ==
  /\ NoDoubleClaims
  /\ \A t \in Claimed : \A r \in rows[t] \cup db[t] : r.unique # NoValue
  /\ \A i \in DOMAIN writes : writes[i].table \in Claimed => writes[i].row.unique # NoValue

\* No write of a user is ever refused: whom Postgres has, or will have, the
\* projection that signup asks has already.
UserWrite(i) == writes[i].table = "user"
UsersWait ==
  /\ \A i \in DOMAIN writes : UserWrite(i) =>
        /\ writes[i].op = "create"
        /\ phase # "down" => writes[i].row \in rows["user"]
        /\ writes[i].row.key \notin RowKeys(db["user"])
        /\ \A j \in DOMAIN writes : UserWrite(j) /\ j # i => writes[j].row.key # writes[i].row.key
  /\ phase # "down" => db["user"] \subseteq rows["user"]

\* A session's user is in Postgres or before it in the queue.
Homed(key, i) == key \in RowKeys(db["user"]) \/ \E j \in DOMAIN writes : j < i /\ UserWrite(j) /\ writes[j].row.key = key
Homes ==
  /\ \A i \in DOMAIN writes : writes[i].table = "session" => writes[i].op \in {"create", "delete"}
  /\ faults = 0 =>
       /\ "user" \notin failed
       /\ \A s \in db["session"] : s.value \in RowKeys(db["user"])
       /\ \A i \in DOMAIN writes : writes[i].table = "session" /\ writes[i].op = "create" => Homed(writes[i].row.value, i)

\* What was logged out and not lost is deleted after all that would bring it back.
SessionWrite(i, k) == writes[i].table = "session" /\ writes[i].row.key = k
Ended(k, i) == \E j \in DOMAIN writes : j > i /\ SessionWrite(j, k) /\ writes[j].op = "delete"
LogOuts ==
  \A k \in loggedOut \ lost :
     /\ phase # "down" => k \notin RowKeys(rows["session"])
     /\ k \in RowKeys(db["session"]) => Ended(k, 0)
     /\ \A i \in DOMAIN writes : SessionWrite(i, k) /\ writes[i].op # "delete" => Ended(k, i)

StoreInv ==
  /\ StoreTypes /\ Dated /\ Claims
  /\ UsersWait /\ Homes /\ LogOuts
  /\ QueueClosesTheGap

LEMMA WrittenIs == \A ws \in Seq(StoreWrites), w \in StoreWrites : LET r == Append(ws, w) n == Len(ws) + 1 IN
   /\ r \in Seq(StoreWrites) /\ n \in Nat /\ DOMAIN r = DOMAIN ws \cup {n} /\ r[n] = w
   /\ \A i \in DOMAIN ws : i \in Nat /\ 0 < i /\ i < n /\ r[i] = ws[i] /\ ws[i] \in StoreWrites
OBVIOUS

LEMMA RestIs == \A ws \in Seq(StoreWrites) : ws # <<>> => LET r == Tail(ws) IN
   /\ r \in Seq(StoreWrites) /\ 1 \in DOMAIN ws /\ Head(ws) = ws[1] /\ ws[1] \in StoreWrites
   /\ \A i \in DOMAIN ws : i \in Nat /\ 0 < i /\ (i = 1 \/ i - 1 \in DOMAIN r)
   /\ \A i \in DOMAIN r : i \in Nat /\ 0 < i /\ i + 1 \in DOMAIN ws /\ r[i] = ws[i + 1] /\ ws[i + 1] \in StoreWrites
<1> SUFFICES ASSUME NEW ws \in Seq(StoreWrites), ws # <<>>
             PROVE  LET r == Tail(ws) IN
   /\ r \in Seq(StoreWrites) /\ 1 \in DOMAIN ws /\ Head(ws) = ws[1] /\ ws[1] \in StoreWrites
   /\ \A i \in DOMAIN ws : i \in Nat /\ 0 < i /\ (i = 1 \/ i - 1 \in DOMAIN r)
   /\ \A i \in DOMAIN r : i \in Nat /\ 0 < i /\ i + 1 \in DOMAIN ws /\ r[i] = ws[i + 1] /\ ws[i + 1] \in StoreWrites
  OBVIOUS
<1>1. Len(ws) \in Nat /\ Len(ws) >= 1 /\ DOMAIN ws = 1..Len(ws)
  BY EmptySeq
<1>2. /\ Tail(ws) \in Seq(StoreWrites) /\ Len(Tail(ws)) = Len(ws) - 1
      /\ \A i \in 1..Len(ws) - 1 : Tail(ws)[i] = ws[i + 1]
  BY <1>1
<1>3. DOMAIN Tail(ws) = 1..Len(ws) - 1
  BY <1>1, <1>2
<1> QED BY <1>1, <1>2, <1>3

\* A queue that grows by a write, or loses its first, replays as a fold would.
LEMMA ReplayedAppend ==
  ASSUME NEW ws \in Seq(StoreWrites), NEW w \in StoreWrites, NEW t, NEW T
  PROVE  Replayed(t, T, Append(ws, w)) = IF w.table = t THEN Effect(Replayed(t, T, ws), w) ELSE Replayed(t, T, ws)
<1>r. PICK r : r = Append(ws, w)
  OBVIOUS
<1>n. PICK n : n = Len(ws) + 1
  OBVIOUS
<1>1. /\ n \in Nat /\ DOMAIN r = DOMAIN ws \cup {n} /\ r[n] = w
      /\ \A i \in DOMAIN ws : i \in Nat /\ 0 < i /\ i < n /\ r[i] = ws[i]
  BY <1>r, <1>n, WrittenIs
<1>2. ASSUME NEW key, NEW i \in 0..n - 1
      PROVE  LeftAlone(r, t, key, i) <=> LeftAlone(ws, t, key, i) /\ (w.table = t => w.row.key # key)
  <2>1. n > i
    BY <1>1
  <2> QED BY <1>1, <2>1 DEF LeftAlone
<1>3. \A key : LeftAlone(r, t, key, n)
  BY <1>1 DEF LeftAlone
<1>4. 0 \in 0..n - 1 /\ \A i \in DOMAIN ws : i \in 0..n - 1 /\ i # n
  <2>1. n \in Nat /\ n >= 1
    BY <1>n
  <2>2. ASSUME NEW i \in DOMAIN ws PROVE i \in 0..n - 1 /\ i # n
    <3>1. i \in Nat /\ i < n
      BY <1>1
    <3> QED BY <2>1, <3>1
  <2> QED BY <2>1, <2>2
<1>5. ASSUME NEW x
      PROVE  x \in Replayed(t, T, r) <=> \/ x \in Replayed(t, T, ws) /\ (w.table = t => w.row.key # x.key)
                                         \/ w.table = t /\ w.op # "delete" /\ x = w.row
  <2>1. x \in Replayed(t, T, r) <=>
          \/ x \in T /\ LeftAlone(r, t, x.key, 0)
          \/ \E i \in DOMAIN r : x = r[i].row /\ r[i].table = t /\ r[i].op # "delete" /\ LeftAlone(r, t, x.key, i)
    BY DEF Replayed
  <2>2. x \in Replayed(t, T, ws) <=>
          \/ x \in T /\ LeftAlone(ws, t, x.key, 0)
          \/ \E i \in DOMAIN ws : x = ws[i].row /\ ws[i].table = t /\ ws[i].op # "delete" /\ LeftAlone(ws, t, x.key, i)
    BY DEF Replayed
  <2>3. (\E i \in DOMAIN r : x = r[i].row /\ r[i].table = t /\ r[i].op # "delete" /\ LeftAlone(r, t, x.key, i))
        <=> \/ (\E i \in DOMAIN ws : x = ws[i].row /\ ws[i].table = t /\ ws[i].op # "delete" /\ LeftAlone(ws, t, x.key, i))
               /\ (w.table = t => w.row.key # x.key)
            \/ w.table = t /\ w.op # "delete" /\ x = w.row
    BY <1>1, <1>2, <1>3, <1>4
  <2> QED BY <1>2, <1>4, <2>1, <2>2, <2>3
<1>6. CASE w.table # t
  BY <1>5, <1>6, <1>r
<1>7. CASE w.table = t
  <2>1. \A x : x \in Effect(Replayed(t, T, ws), w) <=>
          \/ x \in Replayed(t, T, ws) /\ w.row.key # x.key
          \/ w.op # "delete" /\ x = w.row
    BY DEF Effect, Without
  <2>2. \A x : x \in Replayed(t, T, r) <=> x \in Effect(Replayed(t, T, ws), w)
    BY <1>5, <1>7, <2>1
  <2>3. Replayed(t, T, r) = Effect(Replayed(t, T, ws), w)
    BY <2>2 DEF Effect, Without, Replayed
  <2> QED BY <1>7, <1>r, <2>3
<1> QED BY <1>6, <1>7

LEMMA ReplayedTail ==
  ASSUME NEW ws \in Seq(StoreWrites), ws # <<>>, NEW t, NEW T
  PROVE  Replayed(t, T, ws) = Replayed(t, IF Head(ws).table = t THEN Effect(T, Head(ws)) ELSE T, Tail(ws))
<1>r. PICK r : r = Tail(ws)
  OBVIOUS
<1>w. PICK w : w = Head(ws)
  OBVIOUS
<1>1. /\ r \in Seq(StoreWrites) /\ 1 \in DOMAIN ws /\ ws[1] = w
      /\ \A i \in DOMAIN ws : i \in Nat /\ 0 < i /\ (i = 1 \/ i - 1 \in DOMAIN r)
      /\ \A i \in DOMAIN r : i \in Nat /\ 0 < i /\ i + 1 \in DOMAIN ws /\ r[i] = ws[i + 1]
  BY <1>r, <1>w, RestIs
<1>2. ASSUME NEW key, NEW i \in Nat
      PROVE  LeftAlone(ws, t, key, i + 1) <=> LeftAlone(r, t, key, i)
  <2>1. \A j \in DOMAIN r : j > i <=> j + 1 > i + 1
    BY <1>1
  <2>2. \A j \in DOMAIN ws : j > i + 1 => j # 1 /\ j - 1 > i /\ j - 1 + 1 = j
    BY <1>1
  <2>3. ASSUME LeftAlone(ws, t, key, i + 1), NEW j \in DOMAIN r, j > i, r[j].table = t PROVE r[j].row.key # key
    BY <1>1, <2>1, <2>3 DEF LeftAlone
  <2>4. ASSUME LeftAlone(r, t, key, i), NEW j \in DOMAIN ws, j > i + 1, ws[j].table = t PROVE ws[j].row.key # key
    <3>1. j - 1 \in DOMAIN r /\ j - 1 > i /\ r[j - 1] = ws[j]
      BY <1>1, <2>2, <2>4
    <3> QED BY <2>4, <3>1 DEF LeftAlone
  <2> QED BY <2>3, <2>4 DEF LeftAlone
<1>3. ASSUME NEW key
      PROVE  LeftAlone(ws, t, key, 0) <=> LeftAlone(r, t, key, 0) /\ (w.table = t => w.row.key # key)
  <2>1. LeftAlone(ws, t, key, 1) <=> LeftAlone(r, t, key, 0)
    BY <1>2
  <2>2. LeftAlone(ws, t, key, 0) <=> LeftAlone(ws, t, key, 1) /\ (w.table = t => w.row.key # key)
    <3>1. \A j \in DOMAIN ws : j > 0 /\ (j = 1 \/ j > 1)
      BY <1>1
    <3>2. \A j \in DOMAIN ws : j > 1 => j > 0
      BY <1>1
    <3> QED BY <1>1, <3>1, <3>2 DEF LeftAlone
  <2> QED BY <2>1, <2>2
<1>4. \A key : LeftAlone(ws, t, key, 1) <=> LeftAlone(r, t, key, 0)
  BY <1>2
<1>5. ASSUME NEW x
      PROVE  (\E i \in DOMAIN ws : x = ws[i].row /\ ws[i].table = t /\ ws[i].op # "delete" /\ LeftAlone(ws, t, x.key, i))
             <=> \/ x = w.row /\ w.table = t /\ w.op # "delete" /\ LeftAlone(r, t, x.key, 0)
                 \/ \E i \in DOMAIN r : x = r[i].row /\ r[i].table = t /\ r[i].op # "delete" /\ LeftAlone(r, t, x.key, i)
  <2>1. ASSUME NEW i \in DOMAIN ws, x = ws[i].row, ws[i].table = t, ws[i].op # "delete", LeftAlone(ws, t, x.key, i)
        PROVE  \/ x = w.row /\ w.table = t /\ w.op # "delete" /\ LeftAlone(r, t, x.key, 0)
               \/ \E j \in DOMAIN r : x = r[j].row /\ r[j].table = t /\ r[j].op # "delete" /\ LeftAlone(r, t, x.key, j)
    <3>1. CASE i = 1
      BY <1>1, <1>4, <2>1, <3>1
    <3>2. CASE i # 1
      <4>1. PICK j \in DOMAIN r : i = j + 1
        BY <1>1, <3>2
      <4>2. j \in Nat /\ r[j] = ws[i]
        BY <1>1, <4>1
      <4>3. LeftAlone(r, t, x.key, j)
        BY <1>2, <2>1, <4>1, <4>2
      <4> QED BY <2>1, <4>2, <4>3
    <3> QED BY <3>1, <3>2
  <2>2. ASSUME NEW i \in DOMAIN r, x = r[i].row, r[i].table = t, r[i].op # "delete", LeftAlone(r, t, x.key, i)
        PROVE  \E j \in DOMAIN ws : x = ws[j].row /\ ws[j].table = t /\ ws[j].op # "delete" /\ LeftAlone(ws, t, x.key, j)
    <3>1. i \in Nat /\ i + 1 \in DOMAIN ws /\ r[i] = ws[i + 1]
      BY <1>1
    <3>2. LeftAlone(ws, t, x.key, i + 1)
      BY <1>2, <2>2, <3>1
    <3> QED BY <2>2, <3>1, <3>2
  <2>3. ASSUME x = w.row, w.table = t, w.op # "delete", LeftAlone(r, t, x.key, 0)
        PROVE  \E j \in DOMAIN ws : x = ws[j].row /\ ws[j].table = t /\ ws[j].op # "delete" /\ LeftAlone(ws, t, x.key, j)
    BY <1>1, <1>4, <2>3
  <2> QED BY <2>1, <2>2, <2>3
<1>6. PICK U : U = IF w.table = t THEN Effect(T, w) ELSE T
  OBVIOUS
<1>7. \A x : x \in U <=> \/ x \in T /\ (w.table = t => w.row.key # x.key)
                         \/ w.table = t /\ w.op # "delete" /\ x = w.row
  BY <1>6 DEF Effect, Without
<1>8. \A x : x \in Replayed(t, U, r) <=>
          \/ x \in U /\ LeftAlone(r, t, x.key, 0)
          \/ \E i \in DOMAIN r : x = r[i].row /\ r[i].table = t /\ r[i].op # "delete" /\ LeftAlone(r, t, x.key, i)
  BY DEF Replayed
<1>9. \A x : x \in Replayed(t, T, ws) <=>
          \/ x \in T /\ LeftAlone(ws, t, x.key, 0)
          \/ \E i \in DOMAIN ws : x = ws[i].row /\ ws[i].table = t /\ ws[i].op # "delete" /\ LeftAlone(ws, t, x.key, i)
  BY DEF Replayed
<1>10. ASSUME NEW x PROVE x \in Replayed(t, T, ws) <=> x \in Replayed(t, U, r)
  BY <1>3, <1>5, <1>7, <1>8, <1>9
<1> QED BY <1>10, <1>6, <1>r, <1>w

LEMMA FreshIsNew == ASSUME StoreInv, calls < Calls, calls' = calls + 1
  PROVE  /\ ~Old(Fresh) /\ Fresh \in StoreKeys
         /\ \A k : Old(k) \/ k = Fresh => Old(k)'
<1>1. calls \in Nat
  BY DEF StoreInv, StoreTypes
<1>2. ~Old(Fresh)
  BY <1>1 DEF Old, Fresh
<1>3. \A k : k = Fresh => Old(k)'
  BY <1>1 DEF Old, Fresh
<1>4. \A k : Old(k) => Old(k)'
  BY <1>1 DEF Old
<1>5. Fresh \in StoreKeys
  BY <1>1 DEF Fresh, StoreKeys
<1> QED BY <1>2, <1>3, <1>4, <1>5

\* A user the projection has is in Postgres or will be.
LEMMA UserIsHomed ==
  ASSUME StoreInv, faults = 0, phase # "down", NEW u \in rows["user"]
  PROVE  u.key \in RowKeys(db["user"]) \/ \E j \in DOMAIN writes : UserWrite(j) /\ writes[j].row.key = u.key
<1>1. u \in Replayed("user", db["user"], writes)
  BY DEF StoreInv, Homes, QueueClosesTheGap, After, Tables
<1> QED BY <1>1 DEF Replayed, RowKeys, UserWrite

\* One call of a repository other than signup's.
LEMMA CallKeeps ==
  ASSUME StoreInv, NEW w \in StoreWrites, phase = "up", calls < Calls, calls' = calls + 1,
         writes' = Append(writes, w), rows' \in [Tables -> SUBSET StoreRows],
         \A t \in Tables : t # w.table => rows'[t] = rows[t],
         w.table # "requestLog" => rows'[w.table] = Effect(rows[w.table], w),
         UNCHANGED <<db, phase, faults, failed, lost>>, ledgerSeq' \in 0..calls',
         w.table # "user",
         w.table \in Numbered => Old(w.row.key) \/ w.row.key = Fresh,
         w.table = "creatorPersona" => /\ w.row.unique # NoValue /\ w.op # "delete"
                                       /\ \A r \in rows[w.table] : r.unique = w.row.unique => r.key = w.row.key,
         w.table = "session" => \/ w.op = "delete" /\ loggedOut' = loggedOut \cup {w.row.key} /\ Old(w.row.key)
                                \/ /\ w.op = "create" /\ loggedOut' = loggedOut /\ w.row.key = Fresh
                                   /\ w.row.value \in RowKeys(rows["user"]),
         w.table # "session" => loggedOut' = loggedOut
  PROVE  StoreInv'
<1>n. PICK n : n = Len(writes) + 1
  OBVIOUS
<1>1. /\ writes' \in Seq(StoreWrites) /\ n \in Nat /\ DOMAIN writes' = DOMAIN writes \cup {n} /\ writes'[n] = w
      /\ \A i \in DOMAIN writes : i \in Nat /\ 0 < i /\ i < n /\ writes'[i] = writes[i]
  BY <1>n, WrittenIs DEF StoreInv, StoreTypes
<1>2. \A x : Old(x) \/ x = Fresh => Old(x)'
  BY FreshIsNew
<1>3. /\ w.op \in {"create", "upsert", "delete"} /\ w.table \in Tables /\ w.row \in StoreRows
      /\ \A t \in Tables \ {"requestLog"} : rows'[t] \subseteq rows[t] \cup {w.row}
  BY DEF StoreWrites, Effect, Without
<1>4. StoreTypes'
  <2>1. calls' \in 0..Calls
    BY StoreAssumption DEF StoreInv, StoreTypes
  <2> QED BY <1>1, <2>1 DEF StoreInv, StoreTypes
<1>5. Dated'
  <2>1. ASSUME NEW t \in Numbered, NEW r \in rows'[t] \cup db[t] PROVE Old(r.key)'
    <3>1. t \in Tables \ {"requestLog"}
      BY DEF Numbered, Tables
    <3>2. r \in rows[t] \cup db[t] \/ (t = w.table /\ r = w.row)
      BY <1>3, <3>1
    <3> QED BY <1>2, <3>2 DEF StoreInv, Dated
  <2>2. ASSUME NEW i \in DOMAIN writes', writes'[i].table \in Numbered PROVE Old(writes[i].row.key)'
    <3>1. PICK k : k = writes'[i].row.key
      OBVIOUS
    <3>2. Old(k) \/ k = Fresh
      BY <1>1, <2>2, <3>1 DEF StoreInv, Dated
    <3>3. Old(k)'
      BY <1>2, <3>2
    <3> QED BY <3>1, <3>3
  <2>3. ASSUME NEW k \in loggedOut' PROVE Old(k)'
    <3>1. Old(k)
      BY DEF StoreInv, Dated
    <3> QED BY <1>2, <3>1
  <2> QED BY <2>1, <2>2, <2>3 DEF Dated
<1>6. Claims'
  <2>1. "user" \in Tables /\ "creatorPersona" \in Tables /\ rows'["user"] = rows["user"]
    BY DEF Tables
  <2>2. CASE w.table # "creatorPersona"
    <3>1. rows'["creatorPersona"] = rows["creatorPersona"]
      BY <2>1, <2>2
    <3> QED BY <1>1, <2>1, <2>2, <3>1 DEF StoreInv, Claims, NoDoubleClaims, Claimed
  <2>3. CASE w.table = "creatorPersona"
    <3>1. rows'["creatorPersona"] = Without(rows["creatorPersona"], w.row.key) \cup {w.row}
      BY <2>3 DEF Effect
    <3>2. OneHolder(rows'["creatorPersona"])
      <4>1. OneHolder(rows["creatorPersona"])
        BY DEF StoreInv, Claims, NoDoubleClaims
      <4> QED BY <2>3, <3>1, <4>1 DEF OneHolder, Without
    <3>3. \A r \in rows'["creatorPersona"] : r.unique # NoValue
      BY <2>3, <3>1 DEF StoreInv, Claims, Claimed, Without
    <3>4. NoDoubleClaims'
      BY <2>1, <3>2 DEF StoreInv, Claims, NoDoubleClaims, OneHolder
    <3>5. \A i \in DOMAIN writes' : writes'[i].table \in Claimed => writes'[i].row.unique # NoValue
      BY <1>1, <2>3 DEF StoreInv, Claims
    <3> QED BY <2>1, <3>3, <3>4, <3>5 DEF StoreInv, Claims, Claimed
  <2> QED BY <2>2, <2>3
<1>7. UsersWait'
  <2>1. rows'["user"] = rows["user"]
    BY DEF Tables
  <2>2. \A i \in DOMAIN writes' : UserWrite(i)' <=> i \in DOMAIN writes /\ UserWrite(i)
    BY <1>1 DEF UserWrite
  <2> QED BY <1>1, <2>1, <2>2 DEF StoreInv, UsersWait, RowKeys
<1>8. Homes'
  <2>1. ASSUME NEW k, NEW i \in DOMAIN writes, Homed(k, i) PROVE Homed(k, i)'
    BY <1>1, <2>1 DEF Homed, UserWrite, RowKeys
  <2>2. ASSUME faults = 0, w.table = "session", w.op = "create" PROVE Homed(w.row.value, n)'
    <3>1. PICK u \in rows["user"] : u.key = w.row.value
      BY <2>2 DEF RowKeys
    <3>2. u.key \in RowKeys(db["user"]) \/ \E j \in DOMAIN writes : UserWrite(j) /\ writes[j].row.key = u.key
      BY <2>2, UserIsHomed
    <3> QED BY <1>1, <3>1, <3>2 DEF Homed, UserWrite, RowKeys
  <2>3. ASSUME faults = 0, NEW i \in DOMAIN writes', writes'[i].table = "session", writes'[i].op = "create"
        PROVE  Homed(writes[i].row.value, i)'
    <3>1. CASE i = n
      <4>1. PICK k : k = writes'[i].row.value
        OBVIOUS
      <4>2. w.table = "session" /\ w.op = "create" /\ k = w.row.value
        BY <1>1, <2>3, <3>1, <4>1
      <4> QED BY <2>2, <2>3, <3>1, <4>1, <4>2
    <3>2. CASE i # n
      <4>1. i \in DOMAIN writes /\ writes'[i] = writes[i] /\ Homed(writes[i].row.value, i)
        BY <1>1, <2>3, <3>2 DEF StoreInv, Homes
      <4>2. PICK k : k = writes[i].row.value
        OBVIOUS
      <4>3. Homed(k, i)'
        BY <2>1, <4>1, <4>2
      <4> QED BY <4>1, <4>2, <4>3
    <3> QED BY <3>1, <3>2
  <2>4. \A i \in DOMAIN writes' : writes'[i].table = "session" => writes'[i].op \in {"create", "delete"}
    BY <1>1 DEF StoreInv, Homes
  <2> QED BY <2>3, <2>4 DEF StoreInv, Homes, RowKeys
<1>9. LogOuts'
  <2>0. "session" \in Tables /\ "session" # "requestLog"
    BY DEF Tables
  <2>1. ASSUME NEW k \in loggedOut' \ lost
        PROVE  /\ k \notin RowKeys(rows'["session"])
               /\ k \in RowKeys(db["session"]) => Ended(k, 0)'
               /\ \A i \in DOMAIN writes' : SessionWrite(i, k)' /\ writes'[i].op # "delete" => Ended(k, i)'
    <3>1. CASE w.table = "session" /\ w.op = "delete" /\ w.row.key = k
      <4>1. rows'["session"] = Without(rows["session"], k)
        BY <2>0, <3>1 DEF Effect
      <4>2. \A i \in DOMAIN writes \cup {0} : Ended(k, i)'
        BY <1>1, <3>1 DEF Ended, SessionWrite
      <4> QED BY <1>1, <3>1, <4>1, <4>2 DEF Without, RowKeys
    <3>2. CASE ~(w.table = "session" /\ w.op = "delete" /\ w.row.key = k)
      <4>1. k \in loggedOut \ lost /\ k # Fresh
        BY <2>1, <3>2, FreshIsNew DEF StoreInv, Dated
      <4>2. \A i : Ended(k, i) => Ended(k, i)'
        BY <1>1 DEF Ended, SessionWrite
      <4>3. \/ rows'["session"] = rows["session"]
            \/ w.table = "session" /\ rows'["session"] \subseteq rows["session"] \cup {w.row}
        BY <1>3, <2>0
      <4>4. ~(w.table = "session" /\ w.row.key = k)
        BY <3>2, <4>1
      <4>5. k \notin RowKeys(rows["session"])
        BY <4>1 DEF StoreInv, LogOuts
      <4>6. k \notin RowKeys(rows'["session"])
        BY <4>3, <4>4, <4>5 DEF RowKeys
      <4>7. k \in RowKeys(db["session"]) => Ended(k, 0)'
        BY <4>1, <4>2 DEF StoreInv, LogOuts
      <4>8. \A i \in DOMAIN writes' : SessionWrite(i, k)' => i \in DOMAIN writes /\ SessionWrite(i, k)
        BY <1>1, <4>4 DEF SessionWrite
      <4> QED BY <1>1, <4>1, <4>2, <4>6, <4>7, <4>8 DEF StoreInv, LogOuts
    <3> QED BY <3>1, <3>2
  <2> QED BY <2>1 DEF LogOuts, RowKeys
<1>10. QueueClosesTheGap'
  <2>1. ASSUME NEW t \in Tables \ failed, t # "requestLog" PROVE Replayed(t, db[t], Append(writes, w)) = rows'[t]
    <3>1. Replayed(t, db[t], writes) = rows[t]
      BY <2>1 DEF StoreInv, QueueClosesTheGap, After
    <3>2. Replayed(t, db[t], Append(writes, w)) = IF w.table = t THEN Effect(Replayed(t, db[t], writes), w)
                                                  ELSE Replayed(t, db[t], writes)
      BY ReplayedAppend DEF StoreInv, StoreTypes
    <3> QED BY <2>1, <3>1, <3>2
  <2>2. \A t \in Tables \ failed : t # "requestLog" => Replayed(t, db'[t], writes') = rows'[t]
    BY <2>1
  <2> QED BY <2>2 DEF QueueClosesTheGap, After, Replayed, LeftAlone
<1> QED BY <1>4, <1>5, <1>6, <1>7, <1>8, <1>9, <1>10 DEF StoreInv

\* A sign-up: nobody has the address, and the session comes after its user.
LEMMA SignupKeeps ==
  ASSUME StoreInv, NEW e \in Emails, Signup(e) PROVE StoreInv'
<1>k. PICK k : k = Fresh
  OBVIOUS
<1>u. PICK u : u = StoreRow(k, e, NoValue)
  OBVIOUS
<1>s. PICK s : s = StoreRow(k, NoValue, k)
  OBVIOUS
<1>v. PICK v : v = Write("create", "user", u)
  OBVIOUS
<1>w. PICK w : w = Write("create", "session", s)
  OBVIOUS
<1>n. PICK n : n = Len(writes) + 1
  OBVIOUS
<1>1. /\ phase = "up" /\ calls < Calls /\ calls' = calls + 1 /\ UserOf(e) = {}
      /\ rows' = [rows EXCEPT !["user"] = @ \cup {u}, !["session"] = @ \cup {s}]
      /\ writes' = writes \o <<v, w>>
      /\ UNCHANGED <<db, phase, ends, faults, failed, lost, ledgerSeq, loggedOut>>
  BY <1>k, <1>u, <1>s, <1>v, <1>w DEF Signup, Call, Enqueue, Kept, Same
<1>2. ~Old(k) /\ k \in StoreKeys /\ Old(k)' /\ \A x : Old(x) => Old(x)'
  BY <1>k, <1>1, FreshIsNew
<1>3. /\ u \in StoreRows /\ u.key = k /\ u.unique = e /\ u.unique # NoValue
      /\ s \in StoreRows /\ s.key = k /\ s.value = k
  BY <1>u, <1>s, <1>2, StoreAssumption DEF StoreRows, StoreRow
<1>4. /\ v \in StoreWrites /\ v.op = "create" /\ v.table = "user" /\ v.row = u
      /\ w \in StoreWrites /\ w.op = "create" /\ w.table = "session" /\ w.row = s
  BY <1>v, <1>w, <1>3 DEF StoreWrites, Write, Tables
<1>q. PICK q : q = Append(writes, v)
  OBVIOUS
<1>5. /\ q \in Seq(StoreWrites) /\ n \in Nat /\ DOMAIN q = DOMAIN writes \cup {n} /\ q[n] = v /\ Len(q) = n
      /\ \A i \in DOMAIN writes : i \in Nat /\ 0 < i /\ i < n /\ q[i] = writes[i]
  <2>1. writes \in Seq(StoreWrites)
    BY DEF StoreInv, StoreTypes
  <2>2. Len(q) = n
    BY <1>n, <1>q, <2>1
  <2> QED BY <1>4, <1>n, <1>q, <2>1, <2>2, WrittenIs
<1>6. writes' = Append(q, w)
  BY <1>1, <1>4, <1>q DEF StoreInv, StoreTypes
<1>7. /\ writes' \in Seq(StoreWrites) /\ DOMAIN writes' = DOMAIN writes \cup {n, n + 1}
      /\ writes'[n] = v /\ writes'[n + 1] = w
      /\ \A i \in DOMAIN writes : writes'[i] = writes[i]
  <2>1. /\ Append(q, w) \in Seq(StoreWrites) /\ DOMAIN Append(q, w) = DOMAIN q \cup {n + 1} /\ Append(q, w)[n + 1] = w
        /\ \A i \in DOMAIN q : Append(q, w)[i] = q[i]
    BY <1>4, <1>5, WrittenIs
  <2> QED BY <1>5, <1>6, <2>1
<1>8. /\ rows' \in [Tables -> SUBSET StoreRows]
      /\ rows'["user"] = rows["user"] \cup {u} /\ rows'["session"] = rows["session"] \cup {s}
      /\ \A t \in Tables : t # "user" /\ t # "session" => rows'[t] = rows[t]
  BY <1>1, <1>3 DEF StoreInv, StoreTypes, Tables
<1>9. StoreTypes'
  <2>1. calls' \in 0..Calls /\ ledgerSeq' \in 0..calls'
    BY <1>1, StoreAssumption DEF StoreInv, StoreTypes
  <2> QED BY <1>1, <1>7, <1>8, <2>1 DEF StoreInv, StoreTypes
<1>10. Dated'
  <2>1. ASSUME NEW t \in Numbered, NEW r \in rows'[t] \cup db[t] PROVE Old(r.key)'
    <3>1. r \in rows[t] \cup db[t] \/ r = u \/ r = s
      BY <1>8 DEF Numbered, Tables
    <3> QED BY <1>2, <1>3, <3>1 DEF StoreInv, Dated
  <2>2. ASSUME NEW i \in DOMAIN writes', writes'[i].table \in Numbered PROVE Old(writes[i].row.key)'
    <3>1. PICK x : x = writes'[i].row.key
      OBVIOUS
    <3>2. Old(x) \/ x = k
      BY <1>3, <1>4, <1>7, <2>2, <3>1 DEF StoreInv, Dated
    <3>3. Old(x)'
      BY <1>2, <3>2
    <3> QED BY <3>1, <3>3
  <2>3. ASSUME NEW x \in loggedOut' PROVE Old(x)'
    BY <1>1, <1>2 DEF StoreInv, Dated
  <2> QED BY <1>1, <2>1, <2>2, <2>3 DEF Dated
<1>11. Claims'
  <2>1. rows'["creatorPersona"] = rows["creatorPersona"]
    BY <1>8 DEF Tables
  <2>2. OneHolder(rows'["user"])
    <3>1. OneHolder(rows["user"])
      BY DEF StoreInv, Claims, NoDoubleClaims
    <3>2. \A r \in rows["user"] : r.unique # e
      BY <1>1 DEF UserOf
    <3> QED BY <1>3, <1>8, <3>1, <3>2 DEF OneHolder
  <2>3. NoDoubleClaims'
    BY <1>1, <2>1, <2>2 DEF StoreInv, Claims, NoDoubleClaims, OneHolder
  <2>4. \A t \in Claimed : \A r \in rows'[t] \cup db'[t] : r.unique # NoValue
    BY <1>1, <1>3, <1>8, <2>1 DEF StoreInv, Claims, Claimed
  <2>5. \A i \in DOMAIN writes' : writes'[i].table \in Claimed => writes'[i].row.unique # NoValue
    BY <1>3, <1>4, <1>7 DEF StoreInv, Claims, Claimed
  <2> QED BY <2>3, <2>4, <2>5 DEF Claims
<1>12. UsersWait'
  <2>1. k \notin RowKeys(db["user"]) /\ \A i \in DOMAIN writes : UserWrite(i) => writes[i].row.key # k
    BY <1>2 DEF StoreInv, Dated, Numbered, UserWrite, RowKeys
  <2>2. \A i \in DOMAIN writes' : UserWrite(i)' <=> i = n \/ (i \in DOMAIN writes /\ UserWrite(i))
    BY <1>4, <1>5, <1>7 DEF UserWrite
  <2>3. ASSUME NEW i \in DOMAIN writes', UserWrite(i)'
        PROVE  /\ writes'[i].op = "create" /\ writes'[i].row \in rows'["user"]
               /\ writes'[i].row.key \notin RowKeys(db["user"])
               /\ \A j \in DOMAIN writes' : UserWrite(j)' /\ j # i => writes'[j].row.key # writes'[i].row.key
    <3>1. CASE i = n
      BY <1>3, <1>4, <1>7, <1>8, <2>1, <2>2, <3>1
    <3>2. CASE i # n
      <4>1. /\ i \in DOMAIN writes /\ UserWrite(i) /\ writes'[i] = writes[i] /\ writes[i].row.key # k
            /\ writes[i].op = "create" /\ writes[i].row \in rows["user"] /\ writes[i].row.key \notin RowKeys(db["user"])
        BY <1>1, <1>7, <2>1, <2>2, <2>3, <3>2 DEF StoreInv, UsersWait
      <4>2. ASSUME NEW j \in DOMAIN writes', UserWrite(j)', j # i PROVE writes'[j].row.key # writes'[i].row.key
        <5>1. CASE j = n
          BY <1>3, <1>4, <1>7, <4>1, <5>1
        <5>2. CASE j # n
          <6>1. j \in DOMAIN writes /\ UserWrite(j) /\ writes'[j] = writes[j]
            BY <1>7, <2>2, <4>2, <5>2
          <6> QED BY <4>1, <4>2, <6>1 DEF StoreInv, UsersWait
        <5> QED BY <5>1, <5>2
      <4> QED BY <1>8, <4>1, <4>2
    <3> QED BY <3>1, <3>2
  <2>4. db["user"] \subseteq rows'["user"]
    BY <1>1, <1>8 DEF StoreInv, UsersWait
  <2> QED BY <1>1, <2>3, <2>4 DEF UsersWait, RowKeys
<1>13. Homes'
  <2>1. ASSUME NEW x, NEW i \in DOMAIN writes, Homed(x, i) PROVE Homed(x, i)'
    BY <1>1, <1>7, <2>1 DEF Homed, UserWrite, RowKeys
  <2>2. Homed(k, n + 1)'
    <3>1. n < n + 1
      BY <1>5
    <3> QED BY <1>3, <1>4, <1>7, <3>1 DEF Homed, UserWrite
  <2>3. ASSUME faults = 0, NEW i \in DOMAIN writes', writes'[i].table = "session", writes'[i].op = "create"
        PROVE  Homed(writes[i].row.value, i)'
    <3>1. PICK x : x = writes'[i].row.value
      OBVIOUS
    <3>2. CASE i = n + 1
      <4>1. x = k
        BY <1>3, <1>4, <1>7, <3>1, <3>2
      <4> QED BY <2>2, <3>1, <3>2, <4>1
    <3>3. CASE i # n + 1
      <4>1. i \in DOMAIN writes /\ writes'[i] = writes[i] /\ Homed(writes[i].row.value, i)
        BY <1>4, <1>7, <2>3, <3>3 DEF StoreInv, Homes
      <4>2. Homed(x, i)'
        BY <2>1, <3>1, <4>1
      <4> QED BY <3>1, <4>2
    <3> QED BY <3>2, <3>3
  <2>4. \A i \in DOMAIN writes' : writes'[i].table = "session" => writes'[i].op \in {"create", "delete"}
    BY <1>4, <1>7 DEF StoreInv, Homes
  <2> QED BY <1>1, <2>3, <2>4 DEF StoreInv, Homes, RowKeys
<1>14. LogOuts'
  <2>1. ASSUME NEW x \in loggedOut \ lost
        PROVE  /\ x \notin RowKeys(rows'["session"])
               /\ x \in RowKeys(db["session"]) => Ended(x, 0)'
               /\ \A i \in DOMAIN writes' : SessionWrite(i, x)' /\ writes'[i].op # "delete" => Ended(x, i)'
    <3>1. x # k
      BY <1>2 DEF StoreInv, Dated
    <3>2. \A i : Ended(x, i) => Ended(x, i)'
      BY <1>7 DEF Ended, SessionWrite
    <3>3. x \notin RowKeys(rows'["session"])
      BY <1>1, <1>3, <1>8, <3>1 DEF StoreInv, LogOuts, RowKeys
    <3>4. \A i \in DOMAIN writes' : SessionWrite(i, x)' => i \in DOMAIN writes /\ SessionWrite(i, x)
      BY <1>3, <1>4, <1>7, <3>1 DEF SessionWrite
    <3> QED BY <1>7, <3>2, <3>3, <3>4 DEF StoreInv, LogOuts
  <2> QED BY <1>1, <2>1 DEF LogOuts, RowKeys
<1>15. QueueClosesTheGap'
  <2>1. ASSUME NEW t \in Tables \ failed, t # "requestLog" PROVE Replayed(t, db[t], Append(q, w)) = rows'[t]
    <3>1. Replayed(t, db[t], writes) = rows[t]
      BY <1>1, <2>1 DEF StoreInv, QueueClosesTheGap, After
    <3>2. Replayed(t, db[t], q) = IF v.table = t THEN Effect(Replayed(t, db[t], writes), v)
                                  ELSE Replayed(t, db[t], writes)
      BY <1>4, <1>q, ReplayedAppend DEF StoreInv, StoreTypes
    <3>3. Replayed(t, db[t], Append(q, w)) = IF w.table = t THEN Effect(Replayed(t, db[t], q), w)
                                             ELSE Replayed(t, db[t], q)
      BY <1>4, <1>5, ReplayedAppend
    <3>4. \A r \in rows["user"] \cup rows["session"] : r.key # k
      BY <1>2 DEF StoreInv, Dated, Numbered
    <3>5. Effect(rows["user"], v) = rows'["user"] /\ Effect(rows["session"], w) = rows'["session"]
      BY <1>3, <1>4, <1>8, <3>4 DEF Effect, Without
    <3> QED BY <1>4, <1>8, <2>1, <3>1, <3>2, <3>3, <3>5
  <2>2. \A t \in Tables \ failed' : t # "requestLog" => Replayed(t, db'[t], writes') = rows'[t]
    BY <1>1, <1>6, <2>1
  <2> QED BY <2>2 DEF QueueClosesTheGap, After, Replayed, LeftAlone
<1> QED BY <1>9, <1>10, <1>11, <1>12, <1>13, <1>14, <1>15 DEF StoreInv

\* Postgres refuses no user.
LEMMA UserIsAccepted ==
  ASSUME StoreInv, writes # <<>>, phase # "down", Head(writes).table = "user" PROVE ~Refused(Head(writes))
<1>w. PICK w : w = Head(writes)
  OBVIOUS
<1>1. /\ w.table = "user" /\ w.op = "create" /\ w.row \in rows["user"] /\ w.row.key \notin RowKeys(db["user"])
      /\ db["user"] \subseteq rows["user"]
  <2>1. 1 \in DOMAIN writes /\ writes[1] = w
    BY <1>w, RestIs DEF StoreInv, StoreTypes
  <2> QED BY <1>w, <2>1 DEF StoreInv, UsersWait, UserWrite
<1>2. OneHolder(rows["user"])
  BY DEF StoreInv, Claims, NoDoubleClaims
<1>3. \A r \in db["user"] : r.unique # w.row.unique
  BY <1>1, <1>2 DEF OneHolder, RowKeys
<1> QED BY <1>1, <1>3, <1>w DEF Refused, Clashes

\* The head of the queue reaches Postgres, or does not.
LEMMA HeadLeavesKeeps ==
  ASSUME StoreInv, writes # <<>>, phase # "down", writes' = Tail(writes), NEW w, w = Head(writes),
         UNCHANGED <<rows, phase, ledgerSeq, calls, loggedOut>>,
         \/ /\ ~Refused(w) /\ db' = [db EXCEPT ![w.table] = Effect(@, w)] /\ UNCHANGED <<failed, faults, lost>>
         \/ /\ db' = db /\ failed' = failed \cup {w.table}
            /\ \/ Refused(w) /\ UNCHANGED <<faults, lost>>
               \/ faults < Faults /\ faults' = faults + 1 /\ lost' = lost \cup Dropped(w)
  PROVE  StoreInv'
<1>1. /\ writes' \in Seq(StoreWrites) /\ 1 \in DOMAIN writes /\ writes[1] = w /\ w \in StoreWrites
      /\ \A i \in DOMAIN writes : i \in Nat /\ 0 < i /\ (i = 1 \/ i - 1 \in DOMAIN writes')
      /\ \A i \in DOMAIN writes' : i \in Nat /\ 0 < i /\ i + 1 \in DOMAIN writes /\ writes'[i] = writes[i + 1]
  BY RestIs DEF StoreInv, StoreTypes
<1>2. w.op \in {"create", "upsert", "delete"} /\ w.table \in Tables /\ w.row \in StoreRows
  BY <1>1 DEF StoreWrites
<1>3. /\ db' \in [Tables -> SUBSET StoreRows]
      /\ \A t \in Tables : t # w.table => db'[t] = db[t]
      /\ db'[w.table] = Effect(db[w.table], w) \/ db'[w.table] = db[w.table]
  <2>1. db \in [Tables -> SUBSET StoreRows]
    BY DEF StoreInv, StoreTypes
  <2>2. Effect(db[w.table], w) \in SUBSET StoreRows
    BY <1>2, <2>1 DEF Effect, Without
  <2> QED BY <1>2, <2>1, <2>2
<1>4. \A t \in Tables : db'[t] \subseteq db[t] \cup {w.row} /\ (w.table # t \/ w.op = "delete" => db'[t] \subseteq db[t])
  BY <1>2, <1>3 DEF Effect, Without
<1>5. StoreTypes'
  <2>1. failed' \subseteq Tables /\ faults' \in 0..Faults
    BY <1>2, StoreAssumption DEF StoreInv, StoreTypes
  <2> QED BY <1>1, <1>3, <2>1 DEF StoreInv, StoreTypes
<1>6. Dated'
  <2>1. ASSUME NEW t \in Numbered, NEW r \in rows'[t] \cup db'[t] PROVE Old(r.key)'
    <3>1. r \in rows[t] \cup db[t] \/ (w.table = t /\ r = w.row)
      BY <1>4 DEF Numbered, Tables
    <3>2. Old(r.key)
      BY <1>1, <3>1 DEF StoreInv, Dated
    <3> QED BY <3>2 DEF Old
  <2>2. ASSUME NEW i \in DOMAIN writes', writes'[i].table \in Numbered PROVE Old(writes[i].row.key)'
    <3>1. PICK k : k = writes'[i].row.key
      OBVIOUS
    <3>2. Old(k)
      BY <1>1, <2>2, <3>1 DEF StoreInv, Dated
    <3>3. Old(k)'
      BY <3>2 DEF Old
    <3> QED BY <3>1, <3>3
  <2>3. ASSUME NEW k \in loggedOut' PROVE Old(k)'
    BY DEF StoreInv, Dated, Old
  <2> QED BY <2>1, <2>2, <2>3 DEF Dated
<1>7. Claims'
  <2>1. ASSUME NEW t \in Claimed PROVE OneHolder(db'[t])
    <3>1. OneHolder(db[t]) /\ t \in Tables
      BY DEF StoreInv, Claims, NoDoubleClaims, Claimed, Tables
    <3>2. CASE db'[t] = db[t]
      BY <3>1, <3>2
    <3>3. CASE db'[t] # db[t]
      <4>1. w.table = t /\ ~Refused(w) /\ db'[t] = Effect(db[t], w)
        BY <1>3, <3>1, <3>3
      <4>2. w.row.unique # NoValue
        BY <1>1, <4>1 DEF StoreInv, Claims
      <4>3. CASE w.op = "delete"
        BY <3>1, <4>1, <4>3 DEF Effect, Without, OneHolder
      <4>4. CASE w.op # "delete"
        <5>1. \A r \in Without(db[t], w.row.key) : r.unique # w.row.unique
          BY <1>2, <4>1, <4>2, <4>4 DEF Refused, Clashes, Without
        <5> QED BY <3>1, <4>1, <4>4, <5>1 DEF Effect, Without, OneHolder
      <4> QED BY <4>3, <4>4
    <3> QED BY <3>2, <3>3
  <2>2. NoDoubleClaims'
    BY <2>1 DEF StoreInv, Claims, NoDoubleClaims, OneHolder, Claimed
  <2>3. ASSUME NEW t \in Claimed, NEW r \in rows'[t] \cup db'[t] PROVE r.unique # NoValue
    <3>1. r \in rows[t] \cup db[t] \/ (w.table = t /\ r = w.row)
      BY <1>4 DEF Claimed, Tables
    <3> QED BY <1>1, <3>1 DEF StoreInv, Claims
  <2>4. \A i \in DOMAIN writes' : writes'[i].table \in Claimed => writes'[i].row.unique # NoValue
    BY <1>1 DEF StoreInv, Claims
  <2> QED BY <2>2, <2>3, <2>4 DEF Claims
<1>8. w.table = "user" => ~Refused(w) /\ w.op = "create" /\ w.row \in rows["user"]
  BY <1>1, UserIsAccepted DEF StoreInv, UsersWait, UserWrite
<1>9. UsersWait'
  <2>1. ASSUME NEW i \in DOMAIN writes', UserWrite(i)'
        PROVE  /\ writes'[i].op = "create" /\ writes'[i].row \in rows["user"]
               /\ writes'[i].row.key \notin RowKeys(db'["user"])
               /\ \A j \in DOMAIN writes' : UserWrite(j)' /\ j # i => writes'[j].row.key # writes'[i].row.key
    <3>1. /\ i + 1 \in DOMAIN writes /\ UserWrite(i + 1) /\ writes'[i] = writes[i + 1] /\ i + 1 # 1 /\ i \in Nat
      BY <1>1, <2>1 DEF UserWrite
    <3>2. /\ writes[i + 1].op = "create" /\ writes[i + 1].row \in rows["user"]
          /\ writes[i + 1].row.key \notin RowKeys(db["user"])
          /\ \A j \in DOMAIN writes : UserWrite(j) /\ j # i + 1 => writes[j].row.key # writes[i + 1].row.key
      BY <3>1 DEF StoreInv, UsersWait
    <3>3. w.table = "user" => w.row.key # writes[i + 1].row.key
      BY <1>1, <3>1, <3>2 DEF UserWrite
    <3>4. writes'[i].row.key \notin RowKeys(db'["user"])
      <4>1. ASSUME NEW r \in db'["user"] PROVE r.key # writes[i + 1].row.key
        <5>1. r \in db["user"] \/ (w.table = "user" /\ r = w.row)
          BY <1>4 DEF Tables
        <5> QED BY <3>2, <3>3, <5>1 DEF RowKeys
      <4> QED BY <3>1, <4>1 DEF RowKeys
    <3>5. ASSUME NEW j \in DOMAIN writes', UserWrite(j)', j # i PROVE writes'[j].row.key # writes'[i].row.key
      <4>1. j + 1 \in DOMAIN writes /\ UserWrite(j + 1) /\ writes'[j] = writes[j + 1] /\ j + 1 # i + 1
        BY <1>1, <3>1, <3>5 DEF UserWrite
      <4> QED BY <3>1, <3>2, <4>1
    <3> QED BY <3>1, <3>2, <3>4, <3>5
  <2>2. db'["user"] \subseteq rows["user"]
    BY <1>4, <1>8 DEF StoreInv, UsersWait, Tables
  <2> QED BY <2>1, <2>2 DEF UsersWait, RowKeys
<1>10. /\ RowKeys(db["user"]) \subseteq RowKeys(db'["user"])
       /\ w.table = "user" /\ faults' = 0 => w.row.key \in RowKeys(db'["user"])
  <2>1. faults \in Nat
    BY DEF StoreInv, StoreTypes
  <2>2. CASE w.table # "user"
    BY <1>3, <2>2 DEF Tables
  <2>3. CASE w.table = "user"
    <3>1. Effect(db["user"], w) = Without(db["user"], w.row.key) \cup {w.row}
      BY <1>8, <2>3 DEF Effect
    <3>2. w.row.key \in RowKeys(Effect(db["user"], w)) /\ RowKeys(db["user"]) \subseteq RowKeys(Effect(db["user"], w))
      BY <3>1 DEF RowKeys, Without
    <3>3. faults' = 0 => db'["user"] = Effect(db["user"], w)
      BY <1>8, <2>1, <2>3 DEF StoreInv, StoreTypes, Tables
    <3> QED BY <1>3, <2>3, <3>2, <3>3
  <2> QED BY <2>2, <2>3
<1>11. Homes'
  <2>1. \A i \in DOMAIN writes' : writes'[i].table = "session" => writes'[i].op \in {"create", "delete"}
    BY <1>1 DEF StoreInv, Homes
  <2>2. ASSUME faults' = 0
        PROVE  /\ "user" \notin failed'
               /\ \A s \in db'["session"] : s.value \in RowKeys(db'["user"])
               /\ \A i \in DOMAIN writes' : writes'[i].table = "session" /\ writes'[i].op = "create" => Homed(writes[i].row.value, i)'
    <3>1. faults = 0 /\ faults' # faults + 1
      BY <2>2 DEF StoreInv, StoreTypes
    <3>2. "user" \notin failed'
      BY <1>8, <3>1 DEF StoreInv, Homes
    <3>3. ASSUME NEW s \in db'["session"] PROVE s.value \in RowKeys(db'["user"])
      <4>1. s \in db["session"] \/ (w.table = "session" /\ w.op # "delete" /\ s = w.row)
        BY <1>4, <3>3 DEF Tables
      <4>2. CASE s \in db["session"]
        BY <1>10, <3>1, <4>2 DEF StoreInv, Homes
      <4>3. CASE w.table = "session" /\ w.op # "delete" /\ s = w.row
        <5>1. w.op = "create" /\ Homed(w.row.value, 1)
          BY <1>1, <3>1, <4>3 DEF StoreInv, Homes
        <5>2. ~\E j \in DOMAIN writes : j < 1
          BY <1>1
        <5> QED BY <1>10, <4>3, <5>1, <5>2 DEF Homed
      <4> QED BY <4>1, <4>2, <4>3
    <3>4. ASSUME NEW i \in DOMAIN writes', writes'[i].table = "session", writes'[i].op = "create"
          PROVE  Homed(writes[i].row.value, i)'
      <4>1. PICK x : x = writes'[i].row.value
        OBVIOUS
      <4>2. i + 1 \in DOMAIN writes /\ Homed(x, i + 1) /\ i \in Nat
        BY <1>1, <3>1, <3>4, <4>1 DEF StoreInv, Homes
      <4>3. CASE x \in RowKeys(db["user"])
        <5>1. Homed(x, i)'
          BY <1>10, <4>3 DEF Homed, RowKeys
        <5> QED BY <4>1, <5>1
      <4>4. ASSUME NEW j \in DOMAIN writes, j < i + 1, UserWrite(j), writes[j].row.key = x
            PROVE  Homed(writes[i].row.value, i)'
        <5>1. CASE j = 1
          <6>1. x \in RowKeys(db'["user"])
            BY <1>1, <1>10, <2>2, <4>4, <5>1 DEF UserWrite
          <6>2. Homed(x, i)'
            BY <6>1 DEF Homed, RowKeys
          <6> QED BY <4>1, <6>2
        <5>2. CASE j # 1
          <6>1. PICK l \in DOMAIN writes' : j = l + 1
            BY <1>1, <5>2
          <6>2. l < i /\ writes'[l] = writes[j]
            BY <1>1, <4>2, <4>4, <6>1
          <6>3. Homed(x, i)'
            BY <4>4, <6>2 DEF Homed, UserWrite
          <6> QED BY <4>1, <6>3
        <5> QED BY <5>1, <5>2
      <4> QED BY <4>2, <4>3, <4>4 DEF Homed
    <3> QED BY <3>2, <3>3, <3>4
  <2> QED BY <2>1, <2>2 DEF Homes, RowKeys
<1>12. LogOuts'
  <2>1. ASSUME NEW k \in loggedOut' \ lost'
        PROVE  /\ phase # "down" => k \notin RowKeys(rows["session"])
               /\ k \in RowKeys(db'["session"]) => Ended(k, 0)'
               /\ \A i \in DOMAIN writes' : SessionWrite(i, k)' /\ writes'[i].op # "delete" => Ended(k, i)'
    <3>1. k \in loggedOut \ lost
      BY <2>1
    <3>2. ASSUME NEW i \in Nat, Ended(k, i + 1) PROVE Ended(k, i)'
      <4>1. PICK j \in DOMAIN writes : j > i + 1 /\ SessionWrite(j, k) /\ writes[j].op = "delete"
        BY <3>2 DEF Ended
      <4>2. PICK l \in DOMAIN writes' : j = l + 1
        <5>1. j # 1 /\ j \in Nat
          BY <1>1, <4>1
        <5>2. j - 1 \in DOMAIN writes' /\ j = j - 1 + 1
          BY <1>1, <5>1
        <5> QED BY <5>2
      <4>3. l > i /\ writes'[l] = writes[j]
        BY <1>1, <4>1, <4>2
      <4> QED BY <4>1, <4>3 DEF Ended, SessionWrite
    <3>3. \A i \in DOMAIN writes' : SessionWrite(i, k)' /\ writes'[i].op # "delete" => Ended(k, i)'
      <4>1. ASSUME NEW i \in DOMAIN writes', SessionWrite(i, k)', writes'[i].op # "delete" PROVE Ended(k, i)'
        <5>1. i + 1 \in DOMAIN writes /\ SessionWrite(i + 1, k) /\ writes[i + 1].op # "delete" /\ i \in Nat
          BY <1>1, <4>1 DEF SessionWrite
        <5>2. Ended(k, i + 1)
          BY <3>1, <5>1 DEF StoreInv, LogOuts
        <5> QED BY <3>2, <5>1, <5>2
      <4> QED BY <4>1
    <3>4. ASSUME k \in RowKeys(db'["session"]) PROVE Ended(k, 0)'
      <4>1. PICK s \in db'["session"] : s.key = k
        BY <3>4 DEF RowKeys
      <4>2. Ended(k, 1)
        <5>1. CASE w.table = "session" /\ w.op # "delete" /\ s = w.row
          BY <1>1, <3>1, <4>1, <5>1 DEF StoreInv, LogOuts, SessionWrite
        <5>2. CASE ~(w.table = "session" /\ w.op # "delete" /\ s = w.row)
          <6>1. s \in db["session"]
            BY <1>4, <5>2 DEF Tables
          <6>2. Ended(k, 0)
            BY <3>1, <4>1, <6>1 DEF StoreInv, LogOuts, RowKeys
          <6>3. ~(w.table = "session" /\ w.op = "delete" /\ w.row.key = k)
            <7>1. ASSUME w.table = "session", w.op = "delete", w.row.key = k PROVE FALSE
              <8>1. k \notin lost'
                BY <2>1
              <8>2. ~Refused(w)
                BY <7>1 DEF Refused
              <8>3. db'["session"] = Effect(db["session"], w)
                BY <7>1, <8>1, <8>2 DEF Dropped, StoreInv, StoreTypes, Tables
              <8> QED BY <4>1, <7>1, <8>3 DEF Effect, Without
            <7> QED BY <7>1
          <6>4. PICK j \in DOMAIN writes : j > 0 /\ SessionWrite(j, k) /\ writes[j].op = "delete"
            BY <6>2 DEF Ended
          <6>5. j > 1
            BY <1>1, <6>3, <6>4 DEF SessionWrite
          <6> QED BY <6>4, <6>5 DEF Ended
        <5> QED BY <5>1, <5>2
      <4> QED BY <3>2, <4>2
    <3>5. phase # "down" => k \notin RowKeys(rows["session"])
      BY <3>1 DEF StoreInv, LogOuts
    <3> QED BY <3>3, <3>4, <3>5
  <2> QED BY <2>1 DEF LogOuts, RowKeys
<1>13. QueueClosesTheGap'
  <2>1. ASSUME NEW t \in Tables \ failed', t # "requestLog" PROVE Replayed(t, db'[t], Tail(writes)) = rows[t]
    <3>1. t \in Tables \ failed /\ db'[t] = IF w.table = t THEN Effect(db[t], w) ELSE db[t]
      BY <1>3, <2>1 DEF StoreInv, StoreTypes
    <3>2. Replayed(t, db[t], writes) = rows[t]
      BY <2>1, <3>1 DEF StoreInv, QueueClosesTheGap, After
    <3>3. Replayed(t, db[t], writes) = Replayed(t, IF w.table = t THEN Effect(db[t], w) ELSE db[t], Tail(writes))
      BY ReplayedTail DEF StoreInv, StoreTypes
    <3> QED BY <3>1, <3>2, <3>3
  <2>2. \A t \in Tables \ failed' : t # "requestLog" => Replayed(t, db'[t], writes') = rows'[t]
    BY <2>1
  <2> QED BY <2>2 DEF QueueClosesTheGap, After, Replayed, LeftAlone
<1> QED BY <1>5, <1>6, <1>7, <1>9, <1>11, <1>12, <1>13 DEF StoreInv

\* The process ends, or comes back.
LEMMA EndsKeep ==
  ASSUME StoreInv, Shutdown \/ Exit \/ Crash PROVE StoreInv'
<1>0. /\ UNCHANGED <<rows, db, ledgerSeq, calls, faults, failed, loggedOut>> /\ phase' \in {"closing", "down"} /\ phase # "down"
      /\ \/ phase' = "closing" /\ writes' = writes /\ lost' = lost
         \/ /\ phase' = "down" /\ writes' = <<>>
            /\ lost' = lost \cup UNION {Dropped(writes[i]) : i \in DOMAIN writes}
  BY DEF Shutdown, Exit, Crash, Down
<1>1. CASE phase' = "closing"
  <2>1. UNCHANGED <<rows, db, writes, ledgerSeq, calls, faults, failed, lost, loggedOut>> /\ phase' # "down" /\ phase # "down"
    BY <1>0, <1>1
  <2>2. StoreTypes' /\ Dated'
    BY <1>1, <2>1 DEF StoreInv, StoreTypes, Dated, Old
  <2>3. Claims' /\ UsersWait'
    BY <2>1 DEF StoreInv, Claims, NoDoubleClaims, OneHolder, UsersWait, UserWrite, RowKeys
  <2>4. Homes' /\ LogOuts'
    BY <2>1 DEF StoreInv, Homes, Homed, UserWrite, RowKeys, LogOuts, Ended, SessionWrite
  <2>5. QueueClosesTheGap'
    BY <2>1 DEF StoreInv, QueueClosesTheGap, After, Replayed, LeftAlone
  <2> QED BY <2>2, <2>3, <2>4, <2>5 DEF StoreInv
<1>2. CASE phase' = "down"
  <2>1. writes' = <<>> /\ DOMAIN writes' = {} /\ lost' = lost \cup UNION {Dropped(writes[i]) : i \in DOMAIN writes}
    BY <1>0, <1>2
  <2>2. StoreTypes' /\ Dated'
    BY <1>0, <1>2, <2>1 DEF StoreInv, StoreTypes, Dated, Old
  <2>3. Claims' /\ UsersWait'
    BY <1>0, <1>2, <2>1 DEF StoreInv, Claims, NoDoubleClaims, OneHolder, UsersWait
  <2>4. Homes'
    BY <1>0, <2>1 DEF StoreInv, Homes, RowKeys
  <2>5. ASSUME NEW k \in loggedOut' \ lost' PROVE k \notin RowKeys(db["session"])
    <3>1. k \in loggedOut \ lost
      BY <1>0, <2>1, <2>5
    <3>2. ~Ended(k, 0)
      <4>1. ASSUME NEW j \in DOMAIN writes, SessionWrite(j, k), writes[j].op = "delete" PROVE FALSE
        <5>1. k \in Dropped(writes[j])
          BY <4>1 DEF Dropped, SessionWrite
        <5> QED BY <2>1, <2>5, <5>1
      <4> QED BY <4>1 DEF Ended
    <3> QED BY <3>1, <3>2 DEF StoreInv, LogOuts
  <2>6. LogOuts'
    BY <1>0, <1>2, <2>1, <2>5 DEF LogOuts, RowKeys
  <2> QED BY <1>2, <2>2, <2>3, <2>4, <2>6 DEF StoreInv, QueueClosesTheGap
<1> QED BY <1>0, <1>1, <1>2

LEMMA BootKeeps == ASSUME StoreInv, Boot PROVE StoreInv'
<1>1. /\ phase = "down" /\ phase' = "up" /\ rows' = db /\ ledgerSeq' = 0 /\ failed' = {}
      /\ UNCHANGED <<db, writes, calls, faults, lost, loggedOut>> /\ writes = <<>> /\ DOMAIN writes = {}
  BY DEF Boot, StoreInv, StoreTypes
<1>2. StoreTypes' /\ Dated'
  BY <1>1 DEF StoreInv, StoreTypes, Dated, Old
<1>3. Claims' /\ UsersWait' /\ Homes'
  BY <1>1 DEF StoreInv, Claims, NoDoubleClaims, OneHolder, UsersWait, Homes, RowKeys
<1>4. LogOuts'
  <2>1. \A k \in loggedOut \ lost : ~Ended(k, 0) /\ k \notin RowKeys(db["session"])
    BY <1>1 DEF StoreInv, LogOuts, Ended
  <2> QED BY <1>1, <2>1 DEF LogOuts, RowKeys
<1>5. QueueClosesTheGap'
  <2>1. \A t \in Tables : Replayed(t, db[t], writes) = db[t]
    BY <1>1 DEF Replayed, LeftAlone
  <2>2. \A t \in Tables : Replayed(t, db'[t], writes') = rows'[t]
    BY <1>1, <2>1
  <2> QED BY <2>2 DEF QueueClosesTheGap, After, Replayed, LeftAlone
<1> QED BY <1>2, <1>3, <1>4, <1>5 DEF StoreInv

LEMMA QueueKeeps == ASSUME StoreInv, RunWrite \/ WriteFails PROVE StoreInv'
<1>w. PICK w : w = Head(writes)
  OBVIOUS
<1>1. CASE RunWrite
  BY <1>1, <1>w, HeadLeavesKeeps DEF RunWrite, Head1
<1>2. CASE WriteFails
  BY <1>2, <1>w, HeadLeavesKeeps DEF WriteFails, Head1
<1> QED BY <1>1, <1>2

\* What a caller asks of a repository.
LEMMA CallersKeep ==
  ASSUME StoreInv,
         \/ \E p \in Packets : LogRequest(p)
         \/ RecordAudit
         \/ \E c \in Companions : Remember(c) \/ UpsertNode(c)
         \/ SaveIntent
         \/ \E e \in Emails : Login(e)
         \/ \E s \in rows["session"] : Logout(s)
         \/ \E c \in Creators : SaveProfile(c) \/ \E p \in PersonaIds : SubmitPersona(c, p)
         \/ \E p \in PersonaIds : AccrueUsage(p)
  PROVE  StoreInv'
<1>k. PICK k : k = Fresh
  OBVIOUS
<1>0. StoreTypes /\ calls \in Nat /\ ledgerSeq \in 0..calls
  BY DEF StoreInv, StoreTypes
<1>1. ASSUME NEW t \in Tables, NEW op \in {"create", "upsert", "delete"}, NEW row \in StoreRows, Mirror(op, t, row),
             t \notin {"requestLog", "user"}, t \in Numbered => Old(row.key) \/ row.key = k,
             t = "creatorPersona" => /\ row.unique # NoValue /\ op # "delete"
                                     /\ \A r \in rows[t] : r.unique = row.unique => r.key = row.key,
             t = "session" => \/ op = "delete" /\ loggedOut' = loggedOut \cup {row.key} /\ Old(row.key)
                              \/ op = "create" /\ loggedOut' = loggedOut /\ row.key = k /\ row.value \in RowKeys(rows["user"]),
             t # "session" => loggedOut' = loggedOut,
             ledgerSeq' = ledgerSeq
      PROVE  StoreInv'
  <2>w. PICK w : w = Write(op, t, row)
    OBVIOUS
  <2>1. w \in StoreWrites /\ w.op = op /\ w.table = t /\ w.row = row
    BY <2>w DEF Write, StoreWrites
  <2>2. /\ phase = "up" /\ calls < Calls /\ calls' = calls + 1 /\ writes' = writes \o <<w>>
        /\ rows' = [rows EXCEPT ![t] = Effect(@, w)] /\ UNCHANGED <<db, phase, ends, faults, failed, lost>>
    BY <1>1, <2>w DEF Mirror, Call, Enqueue, Kept
  <2>3. writes' = Append(writes, w)
    BY <1>0, <2>1, <2>2 DEF StoreTypes
  <2>4. Effect(rows[t], w) \in SUBSET StoreRows
    BY <1>0, <2>1 DEF StoreTypes, Effect, Without
  <2>5. rows' \in [Tables -> SUBSET StoreRows] /\ rows'[t] = Effect(rows[t], w) /\ \A o \in Tables : o # t => rows'[o] = rows[o]
    BY <1>0, <2>2, <2>4 DEF StoreTypes
  <2>6. ledgerSeq' \in 0..calls'
    BY <1>0, <1>1, <2>2
  <2> QED BY <1>k, <1>1, <2>1, <2>2, <2>3, <2>5, <2>6, CallKeeps
<1>2. ASSUME NEW t \in Tables, NEW row \in StoreRows, Push(t, row), loggedOut' = loggedOut, ledgerSeq' \in {ledgerSeq, ledgerSeq + 1},
             t = "requestLog" \/ (t \in {"securityAudit", "likenessUsageEvent"} /\ row.key = k)
      PROVE  StoreInv'
  <2>w. PICK w : w = Write("create", t, row)
    OBVIOUS
  <2>1. w \in StoreWrites /\ w.op = "create" /\ w.table = t /\ w.row = row
    BY <2>w DEF Write, StoreWrites
  <2>2. /\ phase = "up" /\ calls < Calls /\ calls' = calls + 1 /\ writes' = writes \o <<w>>
        /\ rows' = [rows EXCEPT ![t] = @ \cup {row}] /\ UNCHANGED <<db, phase, ends, faults, failed, lost>>
    BY <1>2, <2>w DEF Push, Call, Enqueue, Kept
  <2>3. writes' = Append(writes, w)
    BY <1>0, <2>1, <2>2 DEF StoreTypes
  <2>4. /\ rows' \in [Tables -> SUBSET StoreRows] /\ rows'[t] = rows[t] \cup {row}
        /\ \A o \in Tables : o # t => rows'[o] = rows[o]
    BY <1>0, <2>2 DEF StoreTypes
  <2>5. t # "requestLog" => rows'[t] = Effect(rows[t], w)
    <3>1. t # "requestLog" => \A r \in rows[t] : r.key # row.key
      BY <1>2, <1>k, <2>2, FreshIsNew DEF StoreInv, Dated, Numbered
    <3> QED BY <2>1, <2>4, <3>1 DEF Effect, Without
  <2>6. ledgerSeq' \in 0..calls'
    BY <1>0, <1>2, <2>2
  <2>7. /\ w.table # "user" /\ w.table # "creatorPersona" /\ w.table # "session"
        /\ w.table \in Numbered => w.row.key = Fresh
    BY <1>2, <1>k, <2>1 DEF Numbered
  <2>8. /\ \A o \in Tables : o # w.table => rows'[o] = rows[o]
        /\ w.table # "requestLog" => rows'[w.table] = Effect(rows[w.table], w)
    BY <2>1, <2>4, <2>5
  <2> QED BY <1>2, <2>1, <2>2, <2>3, <2>4, <2>6, <2>7, <2>8, CallKeeps
<1>3. calls < Calls => k \in StoreKeys
  BY <1>0, <1>k DEF Fresh, StoreKeys
<1> DEFINE IsRow(key, unique, value) ==
             /\ StoreRow(key, unique, value) \in StoreRows /\ StoreRow(key, unique, value).key = key
             /\ StoreRow(key, unique, value).unique = unique /\ StoreRow(key, unique, value).value = value
<1>4. ASSUME NEW key \in StoreKeys, NEW unique \in Emails \cup Packets \cup PersonaIds \cup {NoValue},
             NEW value \in StoreKeys \cup PersonaIds \cup {NoValue}
      PROVE  IsRow(key, unique, value)
  BY DEF StoreRow, StoreRows
<1>5. k \in StoreKeys /\ k = Fresh
  BY <1>0, <1>k DEF Fresh, StoreKeys
<1>6. Companions \subseteq StoreKeys /\ Creators \subseteq StoreKeys
  BY DEF StoreKeys
<1> HIDE DEF IsRow
<1>7. ASSUME NEW p \in Packets, LogRequest(p) PROVE StoreInv'
  <2>1. PICK key : key = <<"led", ledgerSeq + 1>>
    OBVIOUS
  <2>2. key \in StoreKeys
    BY <1>0, <2>1 DEF StoreKeys
  <2>3. StoreRow(key, p, NoValue) \in StoreRows
    BY <1>4, <2>2 DEF IsRow
  <2>4. Push("requestLog", StoreRow(key, p, NoValue)) /\ loggedOut' = loggedOut /\ ledgerSeq' = ledgerSeq + 1
    BY <1>7, <2>1 DEF LogRequest
  <2> QED BY <1>2, <2>3, <2>4 DEF Tables
<1>8. ASSUME RecordAudit PROVE StoreInv'
  <2>1. IsRow(k, NoValue, NoValue)
    BY <1>4, <1>5
  <2>2. Push("securityAudit", StoreRow(k, NoValue, NoValue)) /\ loggedOut' = loggedOut /\ ledgerSeq' = ledgerSeq
    BY <1>8, <1>5 DEF RecordAudit, Same
  <2> QED BY <1>2, <2>1, <2>2 DEF Tables, IsRow
<1>9. ASSUME NEW p \in PersonaIds, AccrueUsage(p) PROVE StoreInv'
  <2>1. IsRow(k, NoValue, p)
    BY <1>4, <1>5
  <2>2. Push("likenessUsageEvent", StoreRow(k, NoValue, p)) /\ loggedOut' = loggedOut /\ ledgerSeq' = ledgerSeq
    BY <1>9, <1>5 DEF AccrueUsage, Same
  <2> QED BY <1>2, <2>1, <2>2 DEF Tables, IsRow
<1>10. ASSUME NEW t \in {"companionMemory", "nodeIdentity", "creatorProfile", "intentDocument"}, NEW row \in StoreRows,
              Mirror("upsert", t, row), Same
       PROVE  StoreInv'
  BY <1>1, <1>10 DEF Tables, Numbered, Same
<1>11. ASSUME NEW c \in Companions, Remember(c) \/ UpsertNode(c) PROVE StoreInv'
  <2>1. IsRow(c, NoValue, k)
    BY <1>4, <1>5, <1>6
  <2> QED BY <1>5, <1>10, <1>11, <2>1 DEF Remember, UpsertNode, IsRow
<1>12. ASSUME SaveIntent PROVE StoreInv'
  <2>1. IsRow(k, NoValue, NoValue)
    BY <1>4, <1>5
  <2> QED BY <1>5, <1>10, <1>12, <2>1 DEF SaveIntent, IsRow
<1>13. ASSUME NEW c \in Creators, SaveProfile(c) PROVE StoreInv'
  <2>1. IsRow(c, NoValue, k)
    BY <1>4, <1>5, <1>6
  <2> QED BY <1>5, <1>10, <1>13, <2>1 DEF SaveProfile, IsRow
<1>14. ASSUME NEW e \in Emails, Login(e) PROVE StoreInv'
  <2>1. PICK u \in rows["user"] : Mirror("create", "session", StoreRow(k, NoValue, u.key)) /\ Same
    BY <1>5, <1>14 DEF Login, UserOf
  <2>2. u.key \in StoreKeys
    BY <1>0 DEF StoreTypes, StoreRows, Tables
  <2>3. IsRow(k, NoValue, u.key)
    BY <1>4, <1>5, <2>2
  <2> QED BY <1>1, <2>1, <2>3 DEF Tables, Same, IsRow, RowKeys
<1>15. ASSUME NEW s \in rows["session"], Logout(s) PROVE StoreInv'
  <2>1. s \in StoreRows /\ Old(s.key)
    BY <1>0 DEF StoreTypes, Tables, StoreInv, Dated, Numbered
  <2> QED BY <1>1, <1>15, <2>1 DEF Tables, Logout
<1>16. ASSUME NEW c \in Creators, NEW p \in PersonaIds, SubmitPersona(c, p) PROVE StoreInv'
  <2>1. PICK key : key = IF OwnerRow(p) = {} THEN k ELSE (CHOOSE o \in OwnerRow(p) : TRUE).key
    OBVIOUS
  <2>2. Mirror("upsert", "creatorPersona", StoreRow(key, p, c)) /\ Same
    BY <1>5, <1>16, <2>1 DEF SubmitPersona
  <2>3. key \in StoreKeys /\ \A r \in OwnerRow(p) : r.key = key
    <3>1. CASE OwnerRow(p) = {}
      BY <1>5, <2>1, <3>1
    <3>2. CASE OwnerRow(p) # {}
      <4>1. PICK r : r = CHOOSE o \in OwnerRow(p) : TRUE
        OBVIOUS
      <4>2. r \in OwnerRow(p) /\ key = r.key
        BY <2>1, <3>2, <4>1
      <4>3. OneHolder(rows["creatorPersona"])
        BY DEF StoreInv, Claims, NoDoubleClaims
      <4>4. \A o \in OwnerRow(p) : o = r
        BY <4>2, <4>3 DEF OwnerRow, OneHolder
      <4>5. r.key \in StoreKeys
        BY <1>0, <4>2 DEF OwnerRow, StoreTypes, StoreRows, Tables
      <4> QED BY <4>2, <4>4, <4>5
    <3> QED BY <3>1, <3>2
  <2>4. IsRow(key, p, c) /\ p # NoValue
    BY <1>4, <1>6, <2>3, StoreAssumption
  <2>5. \A r \in rows["creatorPersona"] : r.unique = p => r.key = key
    BY <2>3 DEF OwnerRow
  <2> QED BY <1>1, <2>2, <2>4, <2>5 DEF Tables, Numbered, Same, IsRow
<1> QED BY <1>7, <1>8, <1>9, <1>11, <1>12, <1>13, <1>14, <1>15, <1>16

LEMMA StoreStart == StoreInit => StoreInv
<1> SUFFICES ASSUME StoreInit PROVE StoreInv
  OBVIOUS
<1>1. /\ rows = [t \in Tables |-> {}] /\ db = [t \in Tables |-> {}] /\ writes = <<>> /\ phase = "up"
      /\ ledgerSeq = 0 /\ calls = 0 /\ faults = 0 /\ failed = {} /\ lost = {} /\ loggedOut = {} /\ DOMAIN writes = {}
  BY DEF StoreInit
<1>2. StoreTypes /\ Dated
  BY <1>1, StoreAssumption DEF StoreTypes, Dated, Numbered, Tables
<1>3. Claims /\ UsersWait /\ Homes /\ LogOuts
  BY <1>1 DEF Claims, Claimed, NoDoubleClaims, OneHolder, UsersWait, Homes, LogOuts, Tables
<1>4. QueueClosesTheGap
  BY <1>1 DEF QueueClosesTheGap, After, Replayed
<1> QED BY <1>2, <1>3, <1>4 DEF StoreInv

LEMMA StoreStep == StoreInv /\ [StoreNext]_storeVars => StoreInv'
<1> SUFFICES ASSUME StoreInv, [StoreNext]_storeVars PROVE StoreInv'
  OBVIOUS
<1>1. CASE \E e \in Emails : Signup(e)
  BY <1>1, SignupKeeps
<1>2. CASE RunWrite \/ WriteFails
  BY <1>2, QueueKeeps
<1>3. CASE Shutdown \/ Exit \/ Crash
  BY <1>3, EndsKeep
<1>4. CASE Boot
  BY <1>4, BootKeeps
<1>5. CASE UNCHANGED storeVars
  <2>1. StoreTypes' /\ Dated'
    BY <1>5 DEF storeVars, StoreInv, StoreTypes, Dated, Old
  <2>2. Claims' /\ UsersWait'
    BY <1>5 DEF storeVars, StoreInv, Claims, NoDoubleClaims, OneHolder, UsersWait, UserWrite, RowKeys
  <2>3. Homes' /\ LogOuts'
    BY <1>5 DEF storeVars, StoreInv, Homes, Homed, UserWrite, RowKeys, LogOuts, Ended, SessionWrite
  <2>4. QueueClosesTheGap'
    BY <1>5 DEF storeVars, StoreInv, QueueClosesTheGap, After, Replayed, LeftAlone
  <2> QED BY <2>1, <2>2, <2>3, <2>4 DEF StoreInv
<1>6. CASE StoreNext /\ ~(\E e \in Emails : Signup(e)) /\ ~(RunWrite \/ WriteFails)
           /\ ~(Shutdown \/ Exit \/ Crash) /\ ~Boot
  BY <1>6, CallersKeep DEF StoreNext
<1> QED BY <1>1, <1>2, <1>3, <1>4, <1>5, <1>6

LEMMA StoreHolds == StoreInv => StoreSurvives
<1> SUFFICES ASSUME StoreInv PROVE StoreSurvives
  OBVIOUS
<1>1. StoreTypeOK
  <2>1. \A t \in Tables : \A r \in rows[t] \cup db[t] : DOMAIN r = {"key", "unique", "value"}
    BY DEF StoreInv, StoreTypes, StoreRows
  <2>2. \A i \in DOMAIN writes : writes[i].op \in {"create", "upsert", "delete"} /\ writes[i].table \in Tables
    <3>1. \A i \in DOMAIN writes : writes[i] \in StoreWrites
      BY DEF StoreInv, StoreTypes
    <3> QED BY <3>1 DEF StoreWrites
  <2>3. ledgerSeq \in 0..Calls
    BY StoreAssumption DEF StoreInv, StoreTypes
  <2> QED BY <2>1, <2>2, <2>3 DEF StoreInv, StoreTypes, StoreTypeOK
<1>2. SessionsHaveUsers /\ RevivedOnlyByLoss /\ NoDoubleClaims
  <2>1. RevivedOnlyByLoss
    BY DEF StoreInv, LogOuts, RevivedOnlyByLoss, RowKeys
  <2> QED BY <2>1 DEF StoreInv, Homes, SessionsHaveUsers, Claims
<1> QED BY <1>1, <1>2 DEF StoreInv, StoreSurvives

\* The write-behind store keeps, through crashes, restarts and lost writes: memory
\* and queue account for Postgres, a session in Postgres has its user, a logged-out
\* token comes back only by a lost delete, and nothing is claimed twice.
THEOREM StoreKeepsItsWord == StoreSpec => []StoreSurvives
<1> QED BY StoreStart, StoreStep, StoreHolds, PTL DEF StoreSpec
=============================================================================
