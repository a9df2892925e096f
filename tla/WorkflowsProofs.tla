---------------------------- MODULE WorkflowsProofs ----------------------------
(***************************************************************************)
(* What holds of the workflow rows for any number of users, workflows,     *)
(* versions, requests and refreshes in flight.                             *)
(***************************************************************************)
EXTENDS Workflows, TLAPS

\* The requests there can be, whatever stage they are at.
RequestOps == {"put", "delete", "duplicate", "snapshot", "restore", "execute", "internal", "hook"}
Sendable == [op : RequestOps, user : Users \cup {Nobody}, flow : Flows \cup {None},
             doc : Docs \cup {None}, active : BOOLEAN \cup {None},
             version : Versions \cup Hooks \cup {None}, tab : {"no", "save", "toggle", "restore"},
             then : {"none", "execute", "snapshot"}, found : BOOLEAN, seen : Docs \cup {None}]
StoredRun == [flow : Flows, cause : {"user", "key", "hook", "schedule"},
              by : Users \cup {Hook[d] : d \in Docs} \cup {Cron[d] : d \in Docs},
              saved : Docs \cup {None}]

TypeInv ==
    /\ flows \in [Flows -> Row \cup {None}]
    /\ versions \in [Versions -> VersionRow \cup {None}]
    /\ tab \in [Users -> TabState \cup {None}]
    /\ requests \in [Requests -> Sendable \cup {Idle}]
    /\ runs \subseteq StoredRun
    /\ past \subseteq Flows \X Docs \X BOOLEAN
    /\ tasks \in [Flows -> {Cron[d] : d \in Docs} \cup {None}]
    /\ DOMAIN listing = Syncs

\* Workflow f had the flag set, with a schedule or hook whose value is x.
Had(f, column, x) == \E p \in past : p[1] = f /\ p[3] /\ column[p[2]] = x
\* Workflow f held the content d.
Held(f, d) == \E p \in past : p[1] = f /\ p[2] = d
Known(f) == \E p \in past : p[1] = f

\* A row is on record, and holds its owner's content.
RowInv == \A f \in Flows : flows[f] # None =>
    /\ <<f, flows[f].doc, flows[f].active>> \in past
    /\ flows[f].doc \in Submits(flows[f].owner)

\* What a request carries: content its sender may send; once found, the row it found
\* is its sender's for as long as it exists, since ids are not given out twice.
Bears(q) ==
    /\ q.op # "hook" => q.user \in Users /\ q.flow \in Flows /\ Known(q.flow)
    /\ q.op = "hook" => q.then = "none" /\ q.tab = "no"
    /\ q.op # "hook" /\ q.doc # None => q.doc \in Submits(q.user)
    /\ q.op \notin {"hook", "internal"} /\ q.found =>
          /\ q.seen \in Submits(q.user)
          /\ flows[q.flow] # None => flows[q.flow].owner = q.user
    /\ q.op = "internal" => q.user = KeyHolder /\ q.doc = None /\ q.then = "none" /\ q.tab = "no"
    /\ q.op = "hook" /\ q.found => q.flow \in Flows /\ Had(q.flow, Hook, q.version)
    /\ q.op = "restore" => q.then = "none" /\ q.version \in Versions
    /\ q.then # "none" => q.op = "put" /\ q.doc # None
    /\ q.op = "execute" /\ q.doc # None => Held(q.flow, q.doc)
    /\ q.tab # "no" => tab[q.user] # None
    /\ q.tab = "restore" /\ q.op = "put" => q.doc # None
RequestInv == \A r \in Requests : requests[r] # Idle => Bears(requests[r])

\* An editor shows a workflow that was, and content its user may send.
TabInv == \A u \in Users : tab[u] # None => tab[u].doc \in Submits(u) /\ Known(tab[u].flow)

\* A version belongs to a workflow that is there, and to its owner.
VersionInv == \A v \in Versions : versions[v] # None =>
    /\ flows[versions[v].of] # None
    /\ versions[v].doc \in Submits(flows[versions[v].of].owner)

\* A task, and what a refresh has read, come from a row that was active.
TaskInv ==
    /\ \A f \in Flows : tasks[f] # None => Had(f, Cron, tasks[f])
    /\ \A s \in Syncs : listing[s] # None =>
          \A f \in Flows : f \in DOMAIN listing[s] => Had(f, Cron, listing[s][f])

RunInv == \A x \in runs :
    /\ flows[x.flow] # None
    /\ x.cause = "user" => flows[x.flow].owner = x.by
    /\ x.cause = "key" => x.by = KeyHolder
    /\ x.cause = "hook" => Had(x.flow, Hook, x.by)
    /\ x.cause = "schedule" => Had(x.flow, Cron, x.by)
    /\ x.saved # None => Held(x.flow, x.saved)

WorkflowInv == TypeInv /\ RowInv /\ RequestInv /\ TabInv /\ VersionInv /\ TaskInv /\ RunInv

LEMMA WorkflowInitInv == WorkflowInit => WorkflowInv
<1> SUFFICES ASSUME WorkflowInit PROVE WorkflowInv
  OBVIOUS
<1>1. TypeInv
  BY DEF WorkflowInit, TypeInv, Idle
<1>2. RowInv /\ RequestInv /\ TabInv /\ VersionInv
  BY DEF WorkflowInit, RowInv, RequestInv, TabInv, VersionInv
<1>3. TaskInv /\ RunInv
  BY DEF WorkflowInit, TaskInv, RunInv
<1> QED BY <1>1, <1>2, <1>3 DEF WorkflowInv

-----------------------------------------------------------------------------
(* What a step leaves alone.                                               *)

\* No step forgets what was on record, brings a deleted workflow back or gives a
\* workflow another owner.
Settled ==
    /\ past \subseteq past'
    /\ \A f \in Flows : Known(f) /\ flows'[f] # None => flows[f] # None /\ flows'[f].owner = flows[f].owner

LEMMA OnRecordStays ==
    ASSUME past \subseteq past'
    PROVE  /\ \A f, x : Had(f, Hook, x) => Had(f, Hook, x)'
           /\ \A f, x : Had(f, Cron, x) => Had(f, Cron, x)'
           /\ \A f, d : Held(f, d) => Held(f, d)'
           /\ \A f : Known(f) => Known(f)'
BY DEF Had, Held, Known

LEMMA RowKnown ==
    ASSUME RowInv, NEW f \in Flows, flows[f] # None PROVE Known(f)
BY DEF RowInv, Known

\* A step that changes one request leaves the others true.
LEMMA RequestsKept ==
    ASSUME RequestInv, TypeInv, Settled, \A u \in Users : tab[u] # None => tab'[u] # None,
           NEW r \in Requests, \A o \in Requests \ {r} : requests'[o] = requests[o],
           requests'[r] # Idle => Bears(requests[r])'
    PROVE  RequestInv'
<1> SUFFICES ASSUME NEW o \in Requests, requests'[o] # Idle PROVE Bears(requests[o])'
  BY DEF RequestInv
<1>1. CASE o = r
  BY <1>1
<1>2. CASE o # r
  <2>1. requests'[o] = requests[o] /\ Bears(requests[o])
    BY <1>2 DEF RequestInv
  <2>2. requests[o].op # "hook" => Known(requests[o].flow) /\ requests[o].flow \in Flows /\ requests[o].user \in Users
    BY <2>1 DEF Bears
  <2>3. requests[o] \in Sendable
    BY <2>1, <1>2 DEF TypeInv
  <2>4. requests[o].tab # "no" => requests[o].user \in Users
    BY <2>1, <2>3 DEF Bears
  <2> QED BY <2>1, <2>2, <2>3, <2>4, OnRecordStays DEF Bears, Settled
<1> QED BY <1>1, <1>2

LEMMA TasksKept ==
    ASSUME TaskInv, past \subseteq past', UNCHANGED <<tasks, listing>> PROVE TaskInv'
BY OnRecordStays DEF TaskInv

LEMMA RunsKept ==
    ASSUME TypeInv, RowInv, RunInv, Settled, runs' \subseteq runs, \A x \in runs' : flows'[x.flow] # None
    PROVE  RunInv'
<1> SUFFICES ASSUME NEW x \in runs' 
             PROVE  /\ flows'[x.flow] # None
                    /\ x.cause = "user" => flows'[x.flow].owner = x.by
                    /\ x.cause = "key" => x.by = KeyHolder
                    /\ x.cause = "hook" => Had(x.flow, Hook, x.by)'
                    /\ x.cause = "schedule" => Had(x.flow, Cron, x.by)'
                    /\ x.saved # None => Held(x.flow, x.saved)'
  BY DEF RunInv
<1>1. x \in runs /\ x.flow \in Flows /\ flows[x.flow] # None
  BY DEF TypeInv, StoredRun, RunInv
<1>2. flows'[x.flow].owner = flows[x.flow].owner
  BY <1>1, RowKnown DEF Settled
<1> QED BY <1>1, <1>2, OnRecordStays DEF RunInv, Settled

LEMMA TabsKept ==
    ASSUME TabInv, past \subseteq past', UNCHANGED tab PROVE TabInv'
BY OnRecordStays DEF TabInv

LEMMA VersionsKept ==
    ASSUME TypeInv, RowInv, VersionInv, Settled, UNCHANGED versions,
           \A f \in Flows : flows[f] # None => flows'[f] # None
    PROVE  VersionInv'
BY RowKnown DEF TypeInv, VersionRow, VersionInv, Settled, Submits

\* A step that only changes requests.
LEMMA RequestStepKept ==
    ASSUME WorkflowInv, UNCHANGED <<flows, versions, runs, tab, tasks, listing, past>>,
           NEW r \in Requests, requests' = [requests EXCEPT ![r] = requests'[r]],
           requests'[r] \in Sendable \cup {Idle},
           requests'[r] # Idle => Bears(requests[r])'
    PROVE  WorkflowInv'
<1>1. Settled
  BY DEF Settled
<1>2. TypeInv'
  BY DEF WorkflowInv, TypeInv
<1>3. RowInv' /\ VersionInv' /\ TabInv' /\ TaskInv' /\ RunInv'
  BY DEF WorkflowInv, RowInv, VersionInv, TabInv, TaskInv, RunInv, Had, Held, Known
<1>4. \A o \in Requests \ {r} : requests'[o] = requests[o]
  BY DEF WorkflowInv, TypeInv
<1>5. RequestInv'
  BY <1>1, <1>4, RequestsKept DEF WorkflowInv
<1> QED BY <1>2, <1>3, <1>5 DEF WorkflowInv

LEMMA FinishKept ==
    ASSUME WorkflowInv, UNCHANGED <<flows, versions, runs, tab, tasks, listing, past>>,
           NEW r \in Requests, Finish(r)
    PROVE  WorkflowInv'
<1>1. requests' = [requests EXCEPT ![r] = Idle]
  BY DEF Finish
<1>2. requests'[r] = Idle
  BY <1>1 DEF WorkflowInv, TypeInv
<1> QED BY <1>1, <1>2, RequestStepKept

-----------------------------------------------------------------------------
(* Requests.                                                               *)

LEMMA SendKept ==
    ASSUME WorkflowInv, NEW q \in Sendable, q.found = FALSE, Bears(q), Send(q)
    PROVE  WorkflowInv'
<1>1. PICK r \in Requests : requests[r] = Idle /\ requests' = [requests EXCEPT ![r] = q]
  BY DEF Send
<1>2. UNCHANGED <<flows, versions, runs, tab, tasks, listing, past>>
  BY DEF Send
<1>3. requests'[r] = q
  BY <1>1 DEF WorkflowInv, TypeInv
<1>4. Bears(requests[r])'
  BY <1>2, <1>3 DEF Bears, Had, Held, Known
<1>5. requests' = [requests EXCEPT ![r] = requests'[r]]
  BY <1>1, <1>3
<1> QED BY <1>2, <1>3, <1>4, <1>5, RequestStepKept

\* What a user sends who names a workflow that was.
LEMMA BlankBears ==
    ASSUME NEW u \in Users, NEW f \in Flows, Known(f)
    PROVE  Blank(u, f) \in Sendable /\ Bears(Blank(u, f))
BY DEF Blank, Sendable, Bears, RequestOps

LEMMA KnownFlows == \A f \in Flows \ Fresh : Known(f)
BY DEF Fresh, Known

LEMMA SendPlainStep ==
    ASSUME WorkflowInv, NEW u \in Users, NEW f \in Flows \ Fresh, SendPlain(u, f) PROVE WorkflowInv'
<1>1. PICK op \in {"delete", "duplicate", "snapshot", "execute"} : Send([Blank(u, f) EXCEPT !.op = op])
  BY DEF SendPlain
<1> DEFINE q == [Blank(u, f) EXCEPT !.op = op]
<1>2. q \in Sendable /\ q.found = FALSE
  BY DEF Blank, Sendable, RequestOps
<1>3. Bears(q)
  BY KnownFlows DEF Blank, Bears
<1> HIDE DEF q
<1> QED BY <1>1, <1>2, <1>3, SendKept DEF q

LEMMA SendPatchStep ==
    ASSUME WorkflowInv, NEW u \in Users, NEW f \in Flows \ Fresh, SendPatch(u, f) PROVE WorkflowInv'
<1>1. PICK a \in BOOLEAN : Send([Blank(u, f) EXCEPT !.active = a])
  BY DEF SendPatch
<1> DEFINE q == [Blank(u, f) EXCEPT !.active = a]
<1>2. q \in Sendable /\ q.found = FALSE
  BY DEF Blank, Sendable, RequestOps
<1>3. Bears(q)
  BY KnownFlows DEF Blank, Bears
<1> HIDE DEF q
<1> QED BY <1>1, <1>2, <1>3, SendKept DEF q

LEMMA SendRestoreStep ==
    ASSUME WorkflowInv, NEW u \in Users, NEW f \in Flows \ Fresh, SendRestore(u, f) PROVE WorkflowInv'
<1>1. PICK v \in Versions : Send([Blank(u, f) EXCEPT !.op = "restore", !.version = v])
  BY DEF SendRestore
<1> DEFINE q == [Blank(u, f) EXCEPT !.op = "restore", !.version = v]
<1>2. q \in Sendable /\ q.found = FALSE
  BY DEF Blank, Sendable, RequestOps
<1>3. Bears(q)
  BY KnownFlows DEF Blank, Bears
<1> HIDE DEF q
<1> QED BY <1>1, <1>2, <1>3, SendKept DEF q

LEMMA SendInternalStep ==
    ASSUME WorkflowInv, NEW f \in Flows \ Fresh, SendInternal(f) PROVE WorkflowInv'
<1> DEFINE q == [Blank(KeyHolder, f) EXCEPT !.op = "internal"]
<1>1. Send(q) /\ KeyHolder \in Users
  BY DEF SendInternal
<1>2. q \in Sendable /\ q.found = FALSE
  BY <1>1 DEF Blank, Sendable, RequestOps
<1>3. Bears(q)
  BY <1>1, KnownFlows DEF Blank, Bears
<1> HIDE DEF q
<1> QED BY <1>1, <1>2, <1>3, SendKept

LEMMA CallHookStep ==
    ASSUME WorkflowInv, NEW h \in Hooks, CallHook(h) PROVE WorkflowInv'
<1> DEFINE q == [Blank(Nobody, None) EXCEPT !.op = "hook", !.version = h]
<1>1. Send(q)
  BY DEF CallHook
<1>2. q \in Sendable /\ q.found = FALSE
  BY DEF Blank, Sendable, RequestOps
<1>3. Bears(q)
  BY DEF Blank, Bears
<1> HIDE DEF q
<1> QED BY <1>1, <1>2, <1>3, SendKept

\* What the editor sends is of the workflow and the content it shows.
LEMMA SaveStep ==
    ASSUME WorkflowInv, NEW u \in Users, Save(u) PROVE WorkflowInv'
<1>1. tab[u] # None /\ tab[u] \in TabState /\ Known(tab[u].flow) /\ tab[u].doc \in Submits(u)
  BY DEF Save, WorkflowInv, TypeInv, TabInv
<1>2. PICK next \in {"none", "execute", "snapshot"} :
        Send([Blank(u, tab[u].flow) EXCEPT !.doc = tab[u].doc, !.active = tab[u].active,
                                           !.tab = "save", !.then = next])
  BY DEF Save
<1>3. PICK t \in TabState : t = tab[u]
  BY <1>1
<1> DEFINE q == [Blank(u, t.flow) EXCEPT !.doc = t.doc, !.active = t.active,
                                         !.tab = "save", !.then = next]
<1>4. q \in Sendable /\ q.found = FALSE
  BY DEF Blank, Sendable, RequestOps, TabState
<1>5. Bears(q)
  BY <1>1, <1>3, WorkflowsAssumption DEF Blank, Bears, TabState
<1>6. Send(q)
  BY <1>2, <1>3
<1> HIDE DEF q
<1> QED BY <1>4, <1>5, <1>6, SendKept

LEMMA ToggleStep ==
    ASSUME WorkflowInv, NEW u \in Users, ToggleActive(u) PROVE WorkflowInv'
<1>1. tab[u] # None /\ tab[u] \in TabState /\ Known(tab[u].flow)
  BY DEF ToggleActive, WorkflowInv, TypeInv, TabInv
<1>2. PICK t \in TabState : t = tab[u]
  BY <1>1
<1> DEFINE q == [Blank(u, t.flow) EXCEPT !.active = ~t.active, !.tab = "toggle"]
<1>3. q \in Sendable /\ q.found = FALSE
  BY DEF Blank, Sendable, RequestOps, TabState
<1>4. Bears(q)
  BY <1>1, <1>2 DEF Blank, Bears, TabState
<1>5. Send(q)
  BY <1>2 DEF ToggleActive
<1> HIDE DEF q
<1> QED BY <1>3, <1>4, <1>5, SendKept

LEMMA RestoreInTabStep ==
    ASSUME WorkflowInv, NEW u \in Users, RestoreInTab(u) PROVE WorkflowInv'
<1>1. tab[u] # None /\ tab[u] \in TabState /\ Known(tab[u].flow)
  BY DEF RestoreInTab, WorkflowInv, TypeInv, TabInv
<1>2. PICK v \in Versions :
        Send([Blank(u, tab[u].flow) EXCEPT !.op = "restore", !.version = v, !.tab = "restore"])
  BY DEF RestoreInTab
<1>3. PICK t \in TabState : t = tab[u]
  BY <1>1
<1> DEFINE q == [Blank(u, t.flow) EXCEPT !.op = "restore", !.version = v, !.tab = "restore"]
<1>4. q \in Sendable /\ q.found = FALSE
  BY DEF Blank, Sendable, RequestOps, TabState
<1>5. Bears(q)
  BY <1>1, <1>3 DEF Blank, Bears, TabState
<1>6. Send(q)
  BY <1>2, <1>3
<1> HIDE DEF q
<1> QED BY <1>4, <1>5, <1>6, SendKept

\* A row that is found is the sender's, or active with the hook that was called.
LEMMA FindStep ==
    ASSUME WorkflowInv, NEW r \in Requests, Find(r) PROVE WorkflowInv'
<1> DEFINE q == requests[r]
<1>1. q \in Sendable /\ q # Idle /\ Bears(q) /\ UNCHANGED <<flows, versions, runs, tab, tasks, listing, past>>
  BY DEF Find, WorkflowInv, TypeInv, RequestInv
<1>2. CASE Reads(q) = {}
  BY <1>1, <1>2, FinishKept DEF Find
<1>3. CASE Reads(q) # {}
  <2>1. PICK f \in Reads(q) :
           requests' = [requests EXCEPT ![r].flow = f, ![r].found = TRUE, ![r].seen = flows[f].doc]
    BY <1>3 DEF Find
  <2>2. /\ f \in Flows /\ flows[f] # None /\ flows[f] \in Row
        /\ q.op # "hook" => f = q.flow
        /\ q.op \notin {"hook", "internal"} => flows[f].owner = q.user
        /\ q.op = "hook" => flows[f].active /\ Hook[flows[f].doc] = q.version
    BY <1>1, <2>1 DEF Reads, WorkflowInv, TypeInv, Bears
  <2>3. requests'[r] = [q EXCEPT !.flow = f, !.found = TRUE, !.seen = flows[f].doc]
    BY <2>1 DEF WorkflowInv, TypeInv
  <2>4. requests' = [requests EXCEPT ![r] = requests'[r]]
    BY <2>1 DEF WorkflowInv, TypeInv
  <2> HIDE DEF q
  <2>5. requests'[r] \in Sendable
    BY <1>1, <2>2, <2>3 DEF Sendable, Row
  <2>6. flows[f].doc \in Submits(flows[f].owner) /\ <<f, flows[f].doc, flows[f].active>> \in past
    BY <2>2 DEF WorkflowInv, RowInv
  <2>7. q.op = "hook" => Had(f, Hook, q.version)
    BY <2>2, <2>6 DEF Had
  <2>8. Bears(requests[r])'
    <3> DEFINE n == [q EXCEPT !.flow = f, !.found = TRUE, !.seen = flows[f].doc]
    <3>1. /\ n.op = q.op /\ n.user = q.user /\ n.flow = f /\ n.doc = q.doc /\ n.version = q.version
          /\ n.tab = q.tab /\ n.then = q.then /\ n.seen = flows[f].doc /\ n.found = TRUE
      BY <1>1 DEF Sendable
    <3> HIDE DEF n
    <3>2. Bears(n)
      BY <1>1, <2>2, <2>6, <2>7, <3>1 DEF Bears
    <3> QED BY <1>1, <2>3, <3>2 DEF n, Bears, Had, Held, Known
  <2> QED BY <1>1, <2>4, <2>5, <2>8, RequestStepKept
<1> QED BY <1>2, <1>3

\* A restore goes on only with a version of the workflow it found, so with content
\* its sender may send.
LEMMA FindVersionStep ==
    ASSUME WorkflowInv, NEW r \in Requests, FindVersion(r) PROVE WorkflowInv'
<1> DEFINE q == requests[r]
<1>1. /\ q \in Sendable /\ q # Idle /\ Bears(q) /\ q.found /\ q.op = "restore"
      /\ UNCHANGED <<flows, versions, runs, tab, tasks, listing, past>>
  BY DEF FindVersion, WorkflowInv, TypeInv, RequestInv
<1>2. CASE versions[q.version] = None \/ versions[q.version].of # q.flow
  BY <1>1, <1>2, FinishKept DEF FindVersion
<1>3. CASE versions[q.version] # None /\ versions[q.version].of = q.flow
  <2> DEFINE d == versions[q.version].doc
             n == [q EXCEPT !.op = "put", !.doc = d]
  <2>1. requests' = [requests EXCEPT ![r].op = "put", ![r].doc = d]
    BY <1>3 DEF FindVersion
  <2>2. requests'[r] = n /\ requests' = [requests EXCEPT ![r] = n]
    BY <2>1 DEF WorkflowInv, TypeInv
  <2>3. d \in Submits(q.user) /\ d \in Docs /\ d # None
    <3>1. q.version \in Versions
      BY <1>1 DEF Bears
    <3> QED BY <1>1, <1>3, <3>1, WorkflowsAssumption DEF WorkflowInv, TypeInv, VersionInv, VersionRow, Bears, Submits
  <2> HIDE DEF d, q
  <2>4. n \in Sendable
    BY <1>1, <2>3 DEF Sendable, RequestOps
  <2>5. /\ n.op = "put" /\ n.user = q.user /\ n.flow = q.flow /\ n.doc = d /\ n.version = q.version
        /\ n.tab = q.tab /\ n.then = q.then /\ n.seen = q.seen /\ n.found
    BY <1>1 DEF Sendable
  <2> HIDE DEF n
  <2>6. Bears(n)
    BY <1>1, <2>3, <2>5 DEF Bears
  <2>7. Bears(requests[r])'
    BY <1>1, <2>2, <2>6 DEF Bears, Had, Held, Known
  <2> QED BY <1>1, <2>2, <2>4, <2>7, RequestStepKept
<1> QED BY <1>2, <1>3

-----------------------------------------------------------------------------
(* Writes of rows.                                                         *)

\* A row is written on an id that was never given out, or over one of the same
\* owner, with content its owner may send.
LEMMA StoreKept ==
    ASSUME WorkflowInv, NEW f \in Flows, NEW row \in Row, row.doc \in Submits(row.owner),
           ~Known(f) \/ (flows[f] # None /\ flows[f].owner = row.owner), Store(f, row),
           UNCHANGED <<versions, runs, tasks, listing>>
    PROVE  /\ flows' \in [Flows -> Row \cup {None}] /\ past' \subseteq Flows \X Docs \X BOOLEAN
           /\ Settled /\ RowInv' /\ VersionInv' /\ TaskInv' /\ RunInv' /\ Held(f, row.doc)'
<1>1. flows' = [flows EXCEPT ![f] = row] /\ past' = past \cup {<<f, row.doc, row.active>>}
  BY DEF Store
<1>2. flows' \in [Flows -> Row \cup {None}] /\ past' \subseteq Flows \X Docs \X BOOLEAN
  <2>1. <<f, row.doc, row.active>> \in Flows \X Docs \X BOOLEAN
    BY DEF Row
  <2>2. past' \subseteq Flows \X Docs \X BOOLEAN
    BY <1>1, <2>1 DEF WorkflowInv, TypeInv
  <2>3. flows' \in [Flows -> Row \cup {None}]
    BY <1>1 DEF WorkflowInv, TypeInv
  <2> QED BY <2>2, <2>3
<1>3. /\ flows'[f] = row /\ row # None
      /\ \A g \in Flows : g # f => flows'[g] = flows[g]
  BY <1>1, WorkflowsAssumption DEF WorkflowInv, TypeInv
<1>4. past \subseteq past' /\ <<f, row.doc, row.active>> \in past'
  BY <1>1
<1>5. Settled
  BY <1>3, <1>4 DEF Settled
<1>6. RowInv'
  <2> SUFFICES ASSUME NEW g \in Flows, flows'[g] # None
               PROVE  /\ <<g, flows'[g].doc, flows'[g].active>> \in past'
                      /\ flows'[g].doc \in Submits(flows'[g].owner)
    BY DEF RowInv, Submits
  <2>1. CASE g = f
    BY <2>1, <1>3, <1>4
  <2>2. CASE g # f
    <3>1. flows'[g] = flows[g] /\ flows[g] # None
      BY <2>2, <1>3
    <3>2. <<g, flows[g].doc, flows[g].active>> \in past'
      BY <1>4, <3>1 DEF WorkflowInv, RowInv
    <3>3. flows'[g].doc \in Submits(flows'[g].owner)
      BY <3>1 DEF WorkflowInv, RowInv
    <3> QED BY <3>1, <3>2, <3>3
  <2> QED BY <2>1, <2>2
<1>7. \A g \in Flows : flows[g] # None => flows'[g] # None
  BY <1>3
<1>8. VersionInv' /\ TaskInv'
  BY <1>4, <1>5, <1>7, VersionsKept, TasksKept DEF WorkflowInv
<1>9. \A x \in runs : flows'[x.flow] # None
  BY <1>7 DEF WorkflowInv, TypeInv, RunInv, StoredRun
<1>10. RunInv'
  BY <1>5, <1>9, RunsKept DEF WorkflowInv
<1>11. Held(f, row.doc)'
  <2>1. \E p \in past' : p[1] = f /\ p[2] = row.doc
    <3> DEFINE p == <<f, row.doc, row.active>>
    <3>1. p[1] = f /\ p[2] = row.doc
      OBVIOUS
    <3> HIDE DEF p
    <3> QED BY <1>4, <3>1 DEF p
  <2> QED BY <2>1 DEF Held
<1> QED BY <1>2, <1>5, <1>6, <1>8, <1>10, <1>11

LEMMA AddKept ==
    ASSUME WorkflowInv, NEW u \in Users, NEW d \in Docs, d \in Submits(u), Add(u, d),
           UNCHANGED <<versions, runs, tab, tasks, listing>>
    PROVE  /\ flows' \in [Flows -> Row \cup {None}] /\ past' \subseteq Flows \X Docs \X BOOLEAN
           /\ Settled /\ RowInv' /\ VersionInv' /\ TabInv' /\ TaskInv' /\ RunInv'
<1> DEFINE row == [owner |-> u, doc |-> d, active |-> FALSE]
<1>1. PICK f \in Fresh : Store(f, row)
  BY DEF Add
<1>2. row \in Row /\ f \in Flows /\ ~Known(f) /\ row.doc = d /\ row.owner = u
  BY DEF Row, Fresh, Known
<1> HIDE DEF row
<1>3. /\ flows' \in [Flows -> Row \cup {None}] /\ past' \subseteq Flows \X Docs \X BOOLEAN
      /\ Settled /\ RowInv' /\ VersionInv' /\ TaskInv' /\ RunInv'
  BY <1>1, <1>2, StoreKept
<1>4. TabInv'
  BY <1>3, TabsKept DEF WorkflowInv, Settled
<1> QED BY <1>3, <1>4

\* Requests stay true when none of them changes.
LEMMA NoRequestChanges ==
    ASSUME WorkflowInv, Settled, UNCHANGED requests, \A u \in Users : tab[u] # None => tab'[u] # None
    PROVE  RequestInv'
<1> SUFFICES ASSUME NEW r \in Requests, requests'[r] # Idle PROVE Bears(requests[r])'
  BY DEF RequestInv
<1>1. \A o \in Requests \ {r} : requests'[o] = requests[o]
  OBVIOUS
<1>2. requests[r] \in Sendable /\ Bears(requests[r])
  BY DEF WorkflowInv, TypeInv, RequestInv
<1>3. Bears(requests[r])'
  BY <1>2, OnRecordStays DEF Settled, Bears
<1> QED BY <1>3

LEMMA CreateStep ==
    ASSUME WorkflowInv, NEW u \in Users, NEW d \in Docs, Create(u, d) PROVE WorkflowInv'
<1>1. /\ d \in Submits(u) /\ Add(u, d)
      /\ UNCHANGED <<versions, runs, requests, tab, tasks, listing>>
  BY DEF Create
<1>2. Settled /\ RowInv' /\ VersionInv' /\ TabInv' /\ TaskInv' /\ RunInv'
  BY <1>1, AddKept
<1>3. TypeInv'
  BY <1>1, AddKept DEF WorkflowInv, TypeInv
<1>4. RequestInv'
  BY <1>1, <1>2, NoRequestChanges
<1> QED BY <1>2, <1>3, <1>4 DEF WorkflowInv

LEMMA UseTemplateStep ==
    ASSUME WorkflowInv, NEW u \in Users, UseTemplate(u) PROVE WorkflowInv'
<1>1. PICK d \in Submits(Nobody) : Add(u, d)
  BY DEF UseTemplate
<1>2. d \in Docs /\ d \in Submits(u) /\ UNCHANGED <<versions, runs, requests, tab, tasks, listing>>
  BY DEF UseTemplate, Submits
<1>3. Settled /\ RowInv' /\ VersionInv' /\ TabInv' /\ TaskInv' /\ RunInv'
  BY <1>1, <1>2, AddKept
<1>4. TypeInv'
  BY <1>1, <1>2, AddKept DEF WorkflowInv, TypeInv
<1>5. RequestInv'
  BY <1>2, <1>3, NoRequestChanges
<1> QED BY <1>3, <1>4, <1>5 DEF WorkflowInv

\* The duplicate holds what Find read, which was its sender's.
LEMMA DuplicateStep ==
    ASSUME WorkflowInv, NEW r \in Requests, Duplicate(r) PROVE WorkflowInv'
<1> DEFINE q == requests[r]
<1>1. /\ q \in Sendable /\ q # Idle /\ Bears(q) /\ q.found /\ q.op = "duplicate" /\ Add(q.user, q.seen)
      /\ requests' = [requests EXCEPT ![r] = Idle]
      /\ UNCHANGED <<versions, runs, tab, tasks, listing>>
  BY DEF Duplicate, Finish, WorkflowInv, TypeInv, RequestInv
<1>2. q.user \in Users /\ q.seen \in Submits(q.user) /\ q.seen \in Docs
  BY <1>1 DEF Bears, Submits
<1>3. PICK u \in Users, d \in Docs : u = q.user /\ d = q.seen
  BY <1>2
<1>4. Add(u, d) /\ d \in Submits(u)
  BY <1>1, <1>2, <1>3
<1>5. /\ flows' \in [Flows -> Row \cup {None}] /\ past' \subseteq Flows \X Docs \X BOOLEAN
      /\ Settled /\ RowInv' /\ VersionInv' /\ TabInv' /\ TaskInv' /\ RunInv'
  BY <1>1, <1>4, AddKept
<1>6. TypeInv'
  BY <1>1, <1>5 DEF WorkflowInv, TypeInv
<1>7. requests'[r] = Idle /\ \A o \in Requests \ {r} : requests'[o] = requests[o]
  BY <1>1 DEF WorkflowInv, TypeInv
<1>8. RequestInv'
  BY <1>1, <1>5, <1>7, RequestsKept DEF WorkflowInv
<1> QED BY <1>5, <1>6, <1>8 DEF WorkflowInv

LEMMA OpenStep ==
    ASSUME WorkflowInv, NEW u \in Users, NEW f \in Flows, Open(u, f) PROVE WorkflowInv'
<1> DEFINE shown == [flow |-> f, doc |-> flows[f].doc, active |-> flows[f].active]
<1>1. /\ flows[f] # None /\ flows[f].owner = u /\ tab' = [tab EXCEPT ![u] = shown]
      /\ UNCHANGED <<flows, versions, runs, requests, tasks, listing, past>>
  BY DEF Open
<1>2. flows[f] \in Row /\ flows[f].doc \in Submits(u) /\ Known(f)
  BY <1>1, RowKnown DEF WorkflowInv, TypeInv, RowInv
<1>3. shown \in TabState /\ shown # None /\ shown.flow = f /\ shown.doc = flows[f].doc
  BY <1>2, WorkflowsAssumption DEF Row, TabState
<1> HIDE DEF shown
<1>4. tab' \in [Users -> TabState \cup {None}] /\ tab'[u] = shown /\ \A v \in Users : v # u => tab'[v] = tab[v]
  BY <1>1, <1>3 DEF WorkflowInv, TypeInv
<1>5. Settled /\ TypeInv'
  BY <1>1, <1>4 DEF WorkflowInv, TypeInv, Settled
<1>6. TabInv'
  BY <1>1, <1>2, <1>3, <1>4 DEF WorkflowInv, TabInv, Known
<1>7. RequestInv'
  BY <1>1, <1>3, <1>4, <1>5, NoRequestChanges
<1>8. RowInv' /\ VersionInv' /\ TaskInv' /\ RunInv'
  BY <1>1 DEF WorkflowInv, RowInv, VersionInv, TaskInv, RunInv, Had, Held
<1> QED BY <1>5, <1>6, <1>7, <1>8 DEF WorkflowInv

LEMMA EditStep ==
    ASSUME WorkflowInv, NEW u \in Users, NEW d \in Docs, Edit(u, d) PROVE WorkflowInv'
<1> DEFINE shown == [tab[u] EXCEPT !.doc = d]
<1>1. /\ tab[u] # None /\ d \in Submits(u) /\ tab' = [tab EXCEPT ![u] = shown]
      /\ UNCHANGED <<flows, versions, runs, requests, tasks, listing, past>>
  BY DEF Edit
<1>2. tab[u] \in TabState /\ Known(tab[u].flow)
  BY <1>1 DEF WorkflowInv, TypeInv, TabInv
<1>3. shown \in TabState /\ shown # None /\ shown.flow = tab[u].flow /\ shown.doc = d
  BY <1>2, WorkflowsAssumption DEF TabState
<1> HIDE DEF shown
<1>4. tab' \in [Users -> TabState \cup {None}] /\ tab'[u] = shown /\ \A v \in Users : v # u => tab'[v] = tab[v]
  BY <1>1, <1>3 DEF WorkflowInv, TypeInv
<1>5. Settled /\ TypeInv'
  BY <1>1, <1>4 DEF WorkflowInv, TypeInv, Settled
<1>6. TabInv'
  BY <1>1, <1>2, <1>3, <1>4 DEF WorkflowInv, TabInv, Known
<1>7. RequestInv'
  BY <1>1, <1>3, <1>4, <1>5, NoRequestChanges
<1>8. RowInv' /\ VersionInv' /\ TaskInv' /\ RunInv'
  BY <1>1 DEF WorkflowInv, RowInv, VersionInv, TaskInv, RunInv, Had, Held
<1> QED BY <1>5, <1>6, <1>7, <1>8 DEF WorkflowInv

\* What the row becomes under a write is a row of the same owner.
LEMMA WrittenRow ==
    ASSUME WorkflowInv, NEW q \in Sendable, Bears(q), q.op = "put", q.found, flows[q.flow] # None
    PROVE  /\ Written(q) \in Row /\ Written(q).owner = q.user /\ flows[q.flow].owner = q.user
           /\ Written(q).doc \in Submits(q.user)
           /\ q.doc # None => Written(q).doc = q.doc
<1>1. q.flow \in Flows /\ q.user \in Users /\ flows[q.flow].owner = q.user
  BY DEF Bears
<1>2. flows[q.flow] \in Row /\ flows[q.flow].doc \in Submits(q.user)
  BY <1>1 DEF WorkflowInv, TypeInv, RowInv
<1>3. q.doc # None => q.doc \in Submits(q.user) /\ q.doc \in Docs
  BY DEF Bears, Submits
<1>4. PICK row \in Row : row = flows[q.flow]
  BY <1>2
<1>5. q.active # None => q.active \in BOOLEAN
  BY DEF Sendable
<1>6. Written(q) = [owner |-> row.owner, doc |-> IF q.doc = None THEN row.doc ELSE q.doc,
                    active |-> IF q.active = None THEN row.active ELSE q.active]
  <2>1. Written(q) = [row EXCEPT !.doc = IF q.doc = None THEN @ ELSE q.doc,
                                 !.active = IF q.active = None THEN @ ELSE q.active]
    BY <1>4 DEF Written
  <2> QED BY <2>1 DEF Row
<1> QED BY <1>1, <1>2, <1>3, <1>4, <1>5, <1>6 DEF Row

\* The answer leaves every editor with a row, of content its user may send.
LEMMA AnswerTyped ==
    ASSUME WorkflowInv, NEW q \in Sendable, Bears(q), q.op = "put", q.found, flows[q.flow] # None
    PROVE  /\ Answered(q) \in [Users -> TabState \cup {None}]
           /\ \A u \in Users : tab[u] # None => Answered(q)[u] # None
           /\ \A u \in Users : Answered(q)[u] # None =>
                 /\ tab[u] # None /\ Answered(q)[u].flow = tab[u].flow
                 /\ Answered(q)[u].doc \in Submits(u)
<1>0. tab \in [Users -> TabState \cup {None}] /\ TabInv
  BY DEF WorkflowInv, TypeInv
<1>1. CASE q.tab \in {"no", "save"}
  BY <1>0, <1>1 DEF Answered, TabInv
<1>2. CASE q.tab = "toggle"
  <2>1. q.user \in Users /\ tab[q.user] # None /\ Written(q).active \in BOOLEAN
    BY <1>2, WrittenRow DEF Bears, Row
  <2>2. tab[q.user] \in TabState
    BY <1>0, <2>1
  <2> DEFINE shown == [tab[q.user] EXCEPT !.active = Written(q).active]
  <2>3. shown \in TabState /\ shown # None /\ shown.flow = tab[q.user].flow /\ shown.doc = tab[q.user].doc
    BY <2>1, <2>2, WorkflowsAssumption DEF TabState
  <2>4. Answered(q) = [tab EXCEPT ![q.user] = shown]
    BY <1>2 DEF Answered
  <2> HIDE DEF shown
  <2> QED BY <1>0, <2>1, <2>3, <2>4 DEF TabInv
<1>3. CASE q.tab = "restore"
  <2>1. q.user \in Users /\ tab[q.user] # None /\ q.doc \in Submits(q.user) /\ q.doc \in Docs
    BY <1>3 DEF Bears, Submits
  <2>2. tab[q.user] \in TabState
    BY <1>0, <2>1
  <2> DEFINE shown == [tab[q.user] EXCEPT !.doc = q.doc]
  <2>3. shown \in TabState /\ shown # None /\ shown.flow = tab[q.user].flow /\ shown.doc = q.doc
    BY <2>1, <2>2, WorkflowsAssumption DEF TabState
  <2>4. Answered(q) = [tab EXCEPT ![q.user] = shown]
    BY <1>3 DEF Answered
  <2> HIDE DEF shown
  <2> QED BY <1>0, <2>1, <2>3, <2>4 DEF TabInv
<1> QED BY <1>1, <1>2, <1>3 DEF Sendable

LEMMA NextSendable ==
    ASSUME NEW q \in Sendable, NEW op \in RequestOps
    PROVE  [q EXCEPT !.op = op, !.then = "none", !.found = FALSE, !.tab = "no"] \in Sendable
BY DEF Sendable

\* What follows a save carries the content that was stored.
LEMMA FollowUp ==
    ASSUME WorkflowInv, NEW r \in Requests, NEW q \in Sendable, requests[r] = q, q # Idle,
           Followed(r), q.op = "put", past \subseteq past', q.doc # None => Held(q.flow, q.doc)'
    PROVE  /\ requests' \in [Requests -> Sendable \cup {Idle}]
           /\ requests' = [requests EXCEPT ![r] = requests'[r]]
           /\ requests'[r] # Idle => Bears(requests[r])'
<1>1. CASE q.then = "none"
  BY <1>1 DEF Followed, Finish, WorkflowInv, TypeInv
<1>2. CASE q.then # "none"
  <2> DEFINE n == [q EXCEPT !.op = q.then, !.then = "none", !.found = FALSE, !.tab = "no"]
  <2>1. Bears(q)
    BY DEF WorkflowInv, TypeInv, RequestInv
  <2>2. requests' = [requests EXCEPT ![r].op = q.then, ![r].then = "none",
                                     ![r].found = FALSE, ![r].tab = "no"]
    BY <1>2 DEF Followed, WorkflowInv, TypeInv
  <2>3. requests' = [requests EXCEPT ![r] = n] /\ requests'[r] = n
    BY <2>2 DEF WorkflowInv, TypeInv
  <2>4. q.user \in Users /\ q.flow \in Flows /\ Known(q.flow) /\ (q.doc # None => q.doc \in Submits(q.user))
    BY <2>1 DEF Bears
  <2>5. q.then \in {"execute", "snapshot"}
    BY <1>2, <2>1 DEF Sendable
  <2>6. n \in Sendable
    BY <2>5, NextSendable DEF RequestOps
  <2>7. /\ n.op = q.then /\ n.user = q.user /\ n.flow = q.flow /\ n.doc = q.doc /\ n.then = "none"
        /\ n.found = FALSE /\ n.tab = "no"
    BY <2>1 DEF Sendable
  <2> HIDE DEF n
  <2>8. Known(q.flow)' /\ (q.doc # None => Held(q.flow, q.doc)')
    BY <2>4, OnRecordStays
  <2>9. Bears(requests[r])'
    BY <2>3, <2>4, <2>5, <2>7, <2>8 DEF Bears
  <2>10. requests' \in [Requests -> Sendable \cup {Idle}]
    BY <2>3, <2>6 DEF WorkflowInv, TypeInv
  <2> QED BY <2>3, <2>9, <2>10
<1> QED BY <1>1, <1>2

LEMMA PutStep ==
    ASSUME WorkflowInv, NEW r \in Requests, Put(r) PROVE WorkflowInv'
<1>0. requests[r] \in Sendable
  BY DEF Put, WorkflowInv, TypeInv
<1>p. PICK q \in Sendable : q = requests[r]
  BY <1>0
<1>1. /\ q # Idle /\ Bears(q) /\ q.found /\ q.op = "put"
      /\ UNCHANGED <<versions, runs, tasks, listing>>
  BY <1>p DEF Put, WorkflowInv, TypeInv, RequestInv
<1>2. CASE flows[q.flow] = None
  BY <1>p, <1>1, <1>2, FinishKept DEF Put
<1>3. CASE flows[q.flow] # None
  <2>1. Store(q.flow, Written(q)) /\ tab' = Answered(q) /\ Followed(r)
    BY <1>p, <1>3 DEF Put
  <2>2. /\ Written(q) \in Row /\ Written(q).owner = q.user /\ flows[q.flow].owner = q.user
        /\ Written(q).doc \in Submits(q.user) /\ (q.doc # None => Written(q).doc = q.doc)
    BY <1>1, <1>3, WrittenRow
  <2>3. PICK f \in Flows, row \in Row : f = q.flow /\ row = Written(q)
    BY <1>1, <2>2 DEF Bears
  <2>4. /\ flows' \in [Flows -> Row \cup {None}] /\ past' \subseteq Flows \X Docs \X BOOLEAN
        /\ Settled /\ RowInv' /\ VersionInv' /\ TaskInv' /\ RunInv' /\ Held(f, row.doc)'
    BY <1>1, <1>3, <2>1, <2>2, <2>3, StoreKept
  <2>5. past \subseteq past'
    BY <2>4 DEF Settled
  <2>6. /\ tab' \in [Users -> TabState \cup {None}]
        /\ \A u \in Users : tab[u] # None => tab'[u] # None
        /\ \A u \in Users : tab'[u] # None =>
              tab[u] # None /\ tab'[u].flow = tab[u].flow /\ tab'[u].doc \in Submits(u)
    BY <1>1, <1>3, <2>1, AnswerTyped
  <2>7. TabInv'
    BY <2>5, <2>6, OnRecordStays DEF WorkflowInv, TabInv
  <2>8. q.doc # None => Held(q.flow, q.doc)'
    BY <2>2, <2>3, <2>4
  <2>9. /\ requests' \in [Requests -> Sendable \cup {Idle}]
        /\ requests' = [requests EXCEPT ![r] = requests'[r]]
        /\ requests'[r] # Idle => Bears(requests[r])'
    BY <1>p, <1>1, <2>1, <2>5, <2>8, FollowUp
  <2>10. \A o \in Requests \ {r} : requests'[o] = requests[o]
    BY <2>9 DEF WorkflowInv, TypeInv
  <2>11. RequestInv'
    BY <2>4, <2>6, <2>9, <2>10, RequestsKept DEF WorkflowInv
  <2>12. TypeInv'
    BY <1>1, <2>4, <2>6, <2>9 DEF WorkflowInv, TypeInv
  <2> QED BY <2>4, <2>7, <2>11, <2>12 DEF WorkflowInv
<1> QED BY <1>2, <1>3

-----------------------------------------------------------------------------
(* Rows that go, and rows of other tables.                                 *)

LEMMA DeleteStep ==
    ASSUME WorkflowInv, NEW r \in Requests, Delete(r) PROVE WorkflowInv'
<1>0. requests[r] \in Sendable /\ requests[r].flow \in Flows
  BY DEF Delete, WorkflowInv, TypeInv, RequestInv, Bears
<1>p. PICK f \in Flows : f = requests[r].flow
  BY <1>0
<1>1. /\ requests' = [requests EXCEPT ![r] = Idle]
      /\ flows' = [flows EXCEPT ![f] = None]
      /\ versions' = [v \in Versions |-> IF versions[v] # None /\ versions[v].of = f
                                         THEN None ELSE versions[v]]
      /\ runs' = {x \in runs : x.flow # f}
      /\ UNCHANGED <<tab, tasks, listing, past>>
  BY <1>p DEF Delete, Finish
<1>2. flows'[f] = None /\ \A g \in Flows : g # f => flows'[g] = flows[g]
  BY <1>1 DEF WorkflowInv, TypeInv
<1>3. Settled
  BY <1>1, <1>2 DEF Settled
<1>4. TypeInv'
  BY <1>1 DEF WorkflowInv, TypeInv
<1>5. RowInv'
  BY <1>1, <1>2 DEF WorkflowInv, RowInv
<1>6. VersionInv'
  <2> SUFFICES ASSUME NEW v \in Versions, versions'[v] # None
               PROVE  /\ flows'[versions'[v].of] # None
                      /\ versions'[v].doc \in Submits(flows'[versions'[v].of].owner)
    BY DEF VersionInv, Submits
  <2>1. versions'[v] = versions[v] /\ versions[v] # None /\ versions[v].of # f
    BY <1>1
  <2>2. versions[v].of \in Flows
    BY <2>1 DEF WorkflowInv, TypeInv, VersionRow
  <2> QED BY <1>2, <2>1, <2>2 DEF WorkflowInv, VersionInv
<1>7. TabInv' /\ TaskInv'
  BY <1>1, TabsKept, TasksKept DEF WorkflowInv
<1>8. RunInv'
  <2>1. \A x \in runs' : x \in runs /\ x.flow \in Flows /\ x.flow # f
    BY <1>1 DEF WorkflowInv, TypeInv, StoredRun
  <2>2. \A x \in runs' : flows'[x.flow] # None
    BY <1>2, <2>1 DEF WorkflowInv, RunInv
  <2> QED BY <1>1, <1>3, <2>2, RunsKept DEF WorkflowInv
<1>9. requests'[r] = Idle /\ \A o \in Requests \ {r} : requests'[o] = requests[o]
  BY <1>1 DEF WorkflowInv, TypeInv
<1>10. RequestInv'
  BY <1>1, <1>3, <1>9, RequestsKept DEF WorkflowInv
<1> QED BY <1>4, <1>5, <1>6, <1>7, <1>8, <1>10 DEF WorkflowInv

\* A snapshot that finds its workflow gone is not stored; one that finds it there
\* finds it with its sender.
LEMMA SnapshotStep ==
    ASSUME WorkflowInv, NEW r \in Requests, Snapshot(r) PROVE WorkflowInv'
<1>0. requests[r] \in Sendable
  BY DEF Snapshot, WorkflowInv, TypeInv
<1>p. PICK q \in Sendable : q = requests[r]
  BY <1>0
<1>1. /\ q # Idle /\ Bears(q) /\ q.found /\ q.op = "snapshot" /\ Finish(r)
      /\ UNCHANGED <<flows, runs, tab, tasks, listing, past>>
  BY <1>p DEF Snapshot, WorkflowInv, TypeInv, RequestInv
<1>2. CASE flows[q.flow] = None
  <2>1. UNCHANGED versions
    BY <1>p, <1>2 DEF Snapshot
  <2> QED BY <1>1, <2>1, FinishKept
<1>3. CASE flows[q.flow] # None
  <2> DEFINE row == [of |-> q.flow, doc |-> q.seen]
  <2>1. PICK v \in Versions : versions' = [versions EXCEPT ![v] = row]
    BY <1>p, <1>3 DEF Snapshot
  <2>2. /\ q.flow \in Flows /\ q.user \in Users /\ flows[q.flow].owner = q.user
        /\ q.seen \in Submits(q.user) /\ q.seen \in Docs
    BY <1>1, <1>3 DEF Bears, Submits
  <2>3. row \in VersionRow /\ row.of = q.flow /\ row.doc = q.seen
    BY <2>2 DEF VersionRow
  <2> HIDE DEF row
  <2>4. /\ versions' \in [Versions -> VersionRow \cup {None}] /\ versions'[v] = row
        /\ \A w \in Versions : w # v => versions'[w] = versions[w]
    BY <2>1, <2>3 DEF WorkflowInv, TypeInv
  <2>5. VersionInv'
    <3> SUFFICES ASSUME NEW w \in Versions, versions'[w] # None
                 PROVE  /\ flows'[versions'[w].of] # None
                        /\ versions'[w].doc \in Submits(flows'[versions'[w].of].owner)
      BY DEF VersionInv, Submits
    <3>1. CASE w = v
      BY <1>1, <1>3, <2>2, <2>3, <2>4, <3>1
    <3>2. CASE w # v
      BY <1>1, <2>4, <3>2 DEF WorkflowInv, VersionInv
    <3> QED BY <3>1, <3>2
  <2>6. requests' = [requests EXCEPT ![r] = Idle]
    BY <1>1 DEF Finish
  <2>7. TypeInv' /\ Settled
    BY <1>1, <2>4, <2>6 DEF WorkflowInv, TypeInv, Settled
  <2>8. requests'[r] = Idle /\ \A o \in Requests \ {r} : requests'[o] = requests[o]
    BY <2>6 DEF WorkflowInv, TypeInv
  <2>9. RequestInv'
    BY <1>1, <2>7, <2>8, RequestsKept DEF WorkflowInv
  <2>10. RowInv' /\ TabInv' /\ TaskInv' /\ RunInv'
    BY <1>1 DEF WorkflowInv, RowInv, TabInv, TaskInv, RunInv, Had, Held, Known
  <2> QED BY <2>5, <2>7, <2>9, <2>10 DEF WorkflowInv
<1> QED BY <1>2, <1>3

\* An execution is stored with its cause, and only while its workflow is there.
LEMMA RunKept ==
    ASSUME WorkflowInv, UNCHANGED <<flows, past>>,
           NEW f \in Flows, NEW cause \in {"user", "key", "hook", "schedule"}, NEW by, NEW saved \in Docs \cup {None},
           cause = "user" => by \in Users /\ (flows[f] # None => flows[f].owner = by),
           cause = "key" => by \in Users /\ by = KeyHolder,
           cause = "hook" => Had(f, Hook, by), cause = "schedule" => Had(f, Cron, by),
           saved # None => Held(f, saved), Run(f, cause, by, saved)
    PROVE  runs' \subseteq StoredRun /\ RunInv'
<1> DEFINE new == [flow |-> f, cause |-> cause, by |-> by, saved |-> saved]
<1>1. by \in Users \cup {Hook[d] : d \in Docs} \cup {Cron[d] : d \in Docs}
  BY DEF Had, WorkflowInv, TypeInv
<1>2. new \in StoredRun /\ new.flow = f /\ new.cause = cause /\ new.by = by /\ new.saved = saved
  BY <1>1 DEF StoredRun
<1>3. runs' = IF flows[f] = None THEN runs ELSE runs \cup {new}
  BY DEF Run
<1> HIDE DEF new
<1>4. runs' \subseteq StoredRun
  BY <1>2, <1>3 DEF WorkflowInv, TypeInv
<1>5. RunInv'
  <2> SUFFICES ASSUME NEW x \in runs'
               PROVE  /\ flows'[x.flow] # None
                      /\ x.cause = "user" => flows'[x.flow].owner = x.by
                      /\ x.cause = "key" => x.by = KeyHolder
                      /\ x.cause = "hook" => Had(x.flow, Hook, x.by)'
                      /\ x.cause = "schedule" => Had(x.flow, Cron, x.by)'
                      /\ x.saved # None => Held(x.flow, x.saved)'
    BY DEF RunInv
  <2>1. CASE x \in runs
    BY <2>1, OnRecordStays DEF WorkflowInv, RunInv
  <2>2. CASE x \notin runs
    <3>1. x = new /\ flows[f] # None
      BY <1>3, <2>2
    <3> QED BY <1>2, <3>1, OnRecordStays
  <2> QED BY <2>1, <2>2
<1> QED BY <1>4, <1>5

LEMMA ExecuteStep ==
    ASSUME WorkflowInv, NEW r \in Requests, Execute(r) PROVE WorkflowInv'
<1>0. requests[r] \in Sendable
  BY DEF Execute, WorkflowInv, TypeInv
<1>p. PICK q \in Sendable : q = requests[r]
  BY <1>0
<1> DEFINE cause == IF q.op = "internal" THEN "key" ELSE "user"
<1>1. /\ q # Idle /\ Bears(q) /\ q.found /\ q.op \in {"execute", "internal"}
      /\ Run(q.flow, cause, q.user, q.doc) /\ requests' = [requests EXCEPT ![r] = Idle]
      /\ UNCHANGED <<flows, versions, tab, tasks, listing, past>>
  BY <1>p DEF Execute, Finish, WorkflowInv, TypeInv, RequestInv
<1>2. /\ q.flow \in Flows /\ q.user \in Users /\ q.doc \in Docs \cup {None}
      /\ q.op = "execute" /\ flows[q.flow] # None => flows[q.flow].owner = q.user
      /\ q.op = "internal" => q.user = KeyHolder
      /\ q.doc # None => Held(q.flow, q.doc)
  BY <1>1 DEF Bears, Sendable
<1>c. /\ cause \in {"user", "key", "hook", "schedule"} /\ cause # "hook" /\ cause # "schedule"
      /\ cause = "user" => q.op = "execute"
      /\ cause = "key" => q.op = "internal"
  BY <1>1
<1> HIDE DEF cause
<1>3. runs' \subseteq StoredRun /\ RunInv'
  BY <1>1, <1>2, <1>c, RunKept
<1>4. TypeInv' /\ Settled
  BY <1>1, <1>3 DEF WorkflowInv, TypeInv, Settled
<1>5. requests'[r] = Idle /\ \A o \in Requests \ {r} : requests'[o] = requests[o]
  BY <1>1 DEF WorkflowInv, TypeInv
<1>6. RequestInv'
  BY <1>1, <1>4, <1>5, RequestsKept DEF WorkflowInv
<1>7. RowInv' /\ TabInv' /\ TaskInv' /\ VersionInv'
  BY <1>1 DEF WorkflowInv, RowInv, TabInv, TaskInv, VersionInv, Had, Held, Known
<1> QED BY <1>3, <1>4, <1>6, <1>7 DEF WorkflowInv

LEMMA HandleWebhookStep ==
    ASSUME WorkflowInv, NEW r \in Requests, handleWebhook(r) PROVE WorkflowInv'
<1>0. requests[r] \in Sendable
  BY DEF handleWebhook, WorkflowInv, TypeInv
<1>p. PICK q \in Sendable : q = requests[r]
  BY <1>0
<1>1. /\ q # Idle /\ Bears(q) /\ q.found /\ q.op = "hook" /\ Finish(r)
      /\ UNCHANGED runs \/ Run(q.flow, "hook", q.version, None)
      /\ UNCHANGED <<flows, versions, tab, tasks, listing, past>>
  BY <1>p DEF handleWebhook, WorkflowInv, TypeInv, RequestInv
<1>2. CASE UNCHANGED runs
  BY <1>1, <1>2, FinishKept
<1>3. CASE Run(q.flow, "hook", q.version, None)
  <2>1. q.flow \in Flows /\ Had(q.flow, Hook, q.version)
    BY <1>1 DEF Bears
  <2>2. runs' \subseteq StoredRun /\ RunInv'
    BY <1>1, <1>3, <2>1, RunKept
  <2>3. requests' = [requests EXCEPT ![r] = Idle]
    BY <1>1 DEF Finish
  <2>4. TypeInv' /\ Settled
    BY <1>1, <2>2, <2>3 DEF WorkflowInv, TypeInv, Settled
  <2>5. requests'[r] = Idle /\ \A o \in Requests \ {r} : requests'[o] = requests[o]
    BY <2>3 DEF WorkflowInv, TypeInv
  <2>6. RequestInv'
    BY <1>1, <2>4, <2>5, RequestsKept DEF WorkflowInv
  <2>7. RowInv' /\ TabInv' /\ TaskInv' /\ VersionInv'
    BY <1>1 DEF WorkflowInv, RowInv, TabInv, TaskInv, VersionInv, Had, Held, Known
  <2> QED BY <2>2, <2>4, <2>6, <2>7 DEF WorkflowInv
<1> QED BY <1>1, <1>2, <1>3

-----------------------------------------------------------------------------
(* The scheduler.                                                          *)

\* Requests, rows and editors do not notice the scheduler.
LEMMA SchedulerLeaves ==
    ASSUME WorkflowInv, UNCHANGED <<flows, versions, requests, tab, past>>
    PROVE  RowInv' /\ RequestInv' /\ TabInv' /\ VersionInv'
<1>1. RowInv' /\ TabInv' /\ VersionInv'
  BY DEF WorkflowInv, RowInv, TabInv, VersionInv, Known
<1>2. Settled
  BY DEF Settled
<1> QED BY <1>1, <1>2, NoRequestChanges

LEMMA SyncReadStep ==
    ASSUME WorkflowInv, NEW s \in Syncs, SyncRead(s) PROVE WorkflowInv'
<1> DEFINE read == [f \in Desired |-> Cron[flows[f].doc]]
<1>1. listing' = [listing EXCEPT ![s] = read] /\ UNCHANGED <<flows, versions, runs, requests, tab, tasks, past>>
  BY DEF SyncRead
<1>2. \A f \in DOMAIN read : Had(f, Cron, read[f])
  <2> SUFFICES ASSUME NEW f \in Desired PROVE Had(f, Cron, Cron[flows[f].doc])
    OBVIOUS
  <2>1. f \in Flows /\ flows[f] # None /\ flows[f].active
    BY DEF Desired
  <2>2. <<f, flows[f].doc, flows[f].active>> \in past
    BY <2>1 DEF WorkflowInv, RowInv
  <2> QED BY <2>1, <2>2 DEF Had
<1> HIDE DEF read
<1>3. \A t \in Syncs : listing'[t] = IF t = s THEN read ELSE listing[t]
  BY <1>1 DEF WorkflowInv, TypeInv
<1>4. TaskInv'
  BY <1>1, <1>2, <1>3 DEF WorkflowInv, TaskInv, Had
<1>5. TypeInv' /\ RunInv'
  BY <1>1 DEF WorkflowInv, TypeInv, RunInv, Had, Held
<1> QED BY <1>1, <1>4, <1>5, SchedulerLeaves DEF WorkflowInv

LEMMA SyncSchedulesStep ==
    ASSUME WorkflowInv, NEW s \in Syncs, syncSchedules(s) PROVE WorkflowInv'
<1>1. /\ listing[s] # None /\ listing' = [listing EXCEPT ![s] = None]
      /\ tasks' = [f \in Flows |-> IF f \notin DOMAIN listing[s] THEN None
                                   ELSE IF tasks[f] # None THEN tasks[f] ELSE listing[s][f]]
      /\ UNCHANGED <<flows, versions, runs, requests, tab, past>>
  BY DEF syncSchedules
<1>2. \A t \in Syncs : listing'[t] = IF t = s THEN None ELSE listing[t]
  BY <1>1 DEF WorkflowInv, TypeInv
<1>3. \A f \in Flows : tasks'[f] # None => Had(f, Cron, tasks'[f])
  BY <1>1 DEF WorkflowInv, TaskInv
<1>4. TaskInv'
  BY <1>1, <1>2, <1>3 DEF WorkflowInv, TaskInv, Had
<1>5. \A f \in Flows : tasks'[f] \in {Cron[d] : d \in Docs} \cup {None}
  BY <1>3 DEF Had, WorkflowInv, TypeInv
<1>6. TypeInv' /\ RunInv'
  BY <1>1, <1>5 DEF WorkflowInv, TypeInv, RunInv, Had, Held
<1> QED BY <1>1, <1>4, <1>6, SchedulerLeaves DEF WorkflowInv

LEMMA FireStep ==
    ASSUME WorkflowInv, NEW f \in Flows, Fire(f) PROVE WorkflowInv'
<1>1. /\ tasks[f] # None /\ Run(f, "schedule", tasks[f], None)
      /\ UNCHANGED <<flows, versions, requests, tab, tasks, listing, past>>
  BY DEF Fire
<1>2. Had(f, Cron, tasks[f])
  BY <1>1 DEF WorkflowInv, TaskInv
<1>3. runs' \subseteq StoredRun /\ RunInv'
  BY <1>1, <1>2, RunKept
<1>4. TypeInv' /\ TaskInv'
  BY <1>1, <1>3 DEF WorkflowInv, TypeInv, TaskInv, Had
<1> QED BY <1>1, <1>3, <1>4, SchedulerLeaves DEF WorkflowInv

-----------------------------------------------------------------------------
LEMMA WorkflowStep == WorkflowInv /\ [RequestStep \/ SchedulerStep]_workflowVars => WorkflowInv'
<1> SUFFICES ASSUME WorkflowInv, [RequestStep \/ SchedulerStep]_workflowVars PROVE WorkflowInv'
  OBVIOUS
<1>1. CASE RequestStep
  <2>1. ASSUME NEW u \in Users, NEW d \in Docs, Create(u, d) \/ Edit(u, d) PROVE WorkflowInv'
    BY <2>1, CreateStep, EditStep
  <2>2. ASSUME NEW u \in Users, NEW f \in Flows \ Fresh,
               SendPlain(u, f) \/ SendPatch(u, f) \/ SendRestore(u, f) \/ Open(u, f)
        PROVE  WorkflowInv'
    BY <2>2, SendPlainStep, SendPatchStep, SendRestoreStep, OpenStep
  <2>3. ASSUME NEW u \in Users, Save(u) \/ ToggleActive(u) \/ RestoreInTab(u) \/ UseTemplate(u)
        PROVE  WorkflowInv'
    BY <2>3, SaveStep, ToggleStep, RestoreInTabStep, UseTemplateStep
  <2>4. ASSUME NEW h \in Hooks, CallHook(h) PROVE WorkflowInv'
    BY <2>4, CallHookStep
  <2>7. ASSUME NEW f \in Flows \ Fresh, SendInternal(f) PROVE WorkflowInv'
    BY <2>7, SendInternalStep
  <2>5. ASSUME NEW r \in Requests, Find(r) \/ FindVersion(r) \/ Put(r) \/ Delete(r)
        PROVE  WorkflowInv'
    BY <2>5, FindStep, FindVersionStep, PutStep, DeleteStep
  <2>6. ASSUME NEW r \in Requests, Duplicate(r) \/ Snapshot(r) \/ Execute(r) \/ handleWebhook(r)
        PROVE  WorkflowInv'
    BY <2>6, DuplicateStep, SnapshotStep, ExecuteStep, HandleWebhookStep
  <2> QED BY <1>1, <2>1, <2>2, <2>3, <2>4, <2>5, <2>6, <2>7 DEF RequestStep
<1>2. CASE SchedulerStep
  BY <1>2, SyncReadStep, SyncSchedulesStep, FireStep DEF SchedulerStep
<1>3. CASE UNCHANGED workflowVars
  <2>1. UNCHANGED <<flows, versions, runs, requests, tab, tasks, listing, past>>
    BY <1>3 DEF workflowVars
  <2>2. TypeInv' /\ TaskInv' /\ RunInv'
    BY <2>1 DEF WorkflowInv, TypeInv, TaskInv, RunInv, Had, Held
  <2> QED BY <2>1, <2>2, SchedulerLeaves DEF WorkflowInv
<1> QED BY <1>1, <1>2, <1>3

LEMMA WorkflowInvHolds == WorkflowSpec => []WorkflowInv
BY WorkflowInitInv, WorkflowStep, PTL DEF WorkflowSpec

\* Whatever the requests in flight interleave with (PUT, PATCH, restore, snapshot,
\* duplicate, delete of workflows.ts and templates.ts), a workflow and its versions
\* hold only what their owner sent or a template, and nothing is left of one that
\* was deleted half way through a request.
THEOREM RowsAreTheirOwners == WorkflowSpec => []RowsHoldTheirOwn
<1>1. WorkflowInv => WorkflowTypeOK
  <2> SUFFICES ASSUME WorkflowInv PROVE WorkflowTypeOK
    OBVIOUS
  <2>1. \A f \in Flows : tasks[f] # None => \E d \in Docs : Cron[d] = tasks[f]
    BY DEF WorkflowInv, TypeInv
  <2>2. \A r \in Requests : requests[r] # Idle => requests[r].op \in RequestOps
    BY DEF WorkflowInv, TypeInv, Sendable
  <2> QED BY <2>1, <2>2 DEF WorkflowInv, TypeInv, WorkflowTypeOK, RequestOps
<1>2. WorkflowInv => NoForeignContent
  BY DEF WorkflowInv, RowInv, VersionInv, NoForeignContent
<1>3. WorkflowInv => NothingOutlivesItsWorkflow
  BY DEF WorkflowInv, VersionInv, RunInv, NothingOutlivesItsWorkflow
<1> QED BY <1>1, <1>2, <1>3, WorkflowInvHolds, PTL DEF RowsHoldTheirOwn

\* A run that is stored was asked for by its workflow's owner, or with the internal
\* key by its holder (workflows.ts:252-258), or its workflow was active with the
\* schedule or webhook that fired; and what the editor runs was
\* stored before (executions.ts, webhooks.ts, scheduler.ts, Editor.tsx), though the
\* scheduler's map and the requests in flight lag behind the rows.
THEOREM RunsAreAsked == WorkflowSpec => []RunsAreMeant
<1>1. WorkflowInv => RunsHaveCause
  BY DEF WorkflowInv, RunInv, RunsHaveCause, Had
<1>2. WorkflowInv => RunsWereSaved
  BY DEF WorkflowInv, RunInv, RunsWereSaved, Held
<1> QED BY <1>1, <1>2, WorkflowInvHolds, PTL DEF RunsAreMeant

=============================================================================
