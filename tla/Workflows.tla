------------------------------ MODULE Workflows ------------------------------
(***************************************************************************)
(* The workflow rows of the API, the requests that read a row in one step  *)
(* and write it in a later one, the editor tab that keeps a copy of a row, *)
(* the public webhook, and the worker's cron scheduler, whose map of       *)
(* running tasks follows the rows one minute behind.                       *)
(***************************************************************************)
EXTENDS Naturals, FiniteSets

CONSTANTS
    Users, Flows, Versions,  \* ids, each used once
    Docs,                    \* what a workflow may contain (nodes and edges)
    Author,                  \* Author[d]: the user who may send d; Nobody's are the templates
    Cron, Hook,              \* Cron[d], Hook[d]: its schedule and its webhook id, or None
    Nobody, None,
    KeyHolder,               \* whose API token WORKFLOW_API_KEY is; if nobody's, the API refuses it
    Requests, Syncs,         \* requests in flight, refreshes in flight
    MaxCalls                 \* bound: calls of users and outsiders

\* The columns of a row, and what an absent row or field is told by.
Row == [owner : Users, doc : Docs, active : BOOLEAN]
VersionRow == [of : Flows, doc : Docs]
TabState == [flow : Flows, doc : Docs, active : BOOLEAN]
ASSUME WorkflowsAssumption == None \notin Docs \cup Flows \cup Row \cup VersionRow \cup TabState

VARIABLES
    flows,      \* Workflow rows
    versions,   \* WorkflowVersion rows
    runs,       \* Execution rows: the workflow, what caused it, what the editor saved for it
    requests,   \* requests in flight
    tab,        \* each user's editor: the workflow it shows and its copies of the row
    tasks,      \* activeTasks: workflow |-> expression
    listing,    \* what each refresh in flight has read
    past,       \* every <<workflow, content, active>> a row has had
    calls

workflowVars == <<flows, versions, runs, requests, tab, tasks, listing, past, calls>>

Idle == [op |-> "idle"]
Submits(u) == {d \in Docs : Author[d] \in {u, Nobody}}
Hooks == {Hook[d] : d \in Docs} \ {None}

\* A workflow row that is active and has a schedule: syncSchedules wants a task for it.
Desired == {f \in Flows : /\ flows[f] # None
                          /\ flows[f].active
                          /\ Cron[flows[f].doc] # None}

WorkflowInit ==
    /\ flows = [f \in Flows |-> None]
    /\ versions = [v \in Versions |-> None]
    /\ runs = {}
    /\ requests = [r \in Requests |-> Idle]
    /\ tab = [u \in Users |-> None]
    /\ tasks = [f \in Flows |-> None]
    /\ listing = [s \in Syncs |-> None]
    /\ past = {}
    /\ calls = 0

Call == calls < MaxCalls /\ calls' = calls + 1
\* Ids are given out once; a request for one that never was is a plain 404, left out.
Fresh == {f \in Flows : \A p \in past : p[1] # f}
Finish(r) == requests' = [requests EXCEPT ![r] = Idle]
Store(f, row) ==
    /\ flows' = [flows EXCEPT ![f] = row]
    /\ past' = past \cup {<<f, row.doc, row.active>>}

-----------------------------------------------------------------------------
(* Requests: sent, then found (the row is read), then written. A field that *)
(* a request leaves out is None.                                            *)

Blank(u, f) == [op |-> "put", user |-> u, flow |-> f, doc |-> None, active |-> None,
                version |-> None, tab |-> "no", then |-> "none", found |-> FALSE, seen |-> None]

Send(q) ==
    \E r \in Requests :
        /\ requests[r] = Idle
        /\ requests' = [requests EXCEPT ![r] = q]
        /\ UNCHANGED <<flows, versions, runs, tab, tasks, listing, past>>

Add(u, d) == \E f \in Fresh : Store(f, [owner |-> u, doc |-> d, active |-> FALSE])

\* create and import: what the user sent.
Create(u, d) ==
    /\ Call
    /\ d \in Submits(u)
    /\ Add(u, d)
    /\ UNCHANGED <<versions, runs, requests, tab, tasks, listing>>

\* use and clone: a template's content.
UseTemplate(u) ==
    /\ Call
    /\ \E d \in Submits(Nobody) : Add(u, d)
    /\ UNCHANGED <<versions, runs, requests, tab, tasks, listing>>

SendPlain(u, f) ==
    /\ Call
    /\ \E op \in {"delete", "duplicate", "snapshot", "execute"} : Send([Blank(u, f) EXCEPT !.op = op])
\* execute and run with WORKFLOW_API_KEY as the bearer token.
SendInternal(f) ==
    /\ Call
    /\ KeyHolder \in Users
    /\ Send([Blank(KeyHolder, f) EXCEPT !.op = "internal"])
SendPatch(u, f) == Call /\ \E a \in BOOLEAN : Send([Blank(u, f) EXCEPT !.active = a])
SendRestore(u, f) ==
    /\ Call
    /\ \E v \in Versions : Send([Blank(u, f) EXCEPT !.op = "restore", !.version = v])
CallHook(h) == Call /\ Send([Blank(Nobody, None) EXCEPT !.op = "hook", !.version = h])

\* Where a request reads its row: its user's own, whosever it is for the internal key,
\* or the first active one with the hook.
Reads(q) ==
    IF q.op = "hook"
    THEN {f \in Flows : /\ flows[f] # None
                        /\ flows[f].active
                        /\ Hook[flows[f].doc] = q.version}
    ELSE {f \in {q.flow} : flows[f] # None /\ (q.op = "internal" \/ flows[f].owner = q.user)}

Find(r) ==
    LET q == requests[r] IN
    /\ q # Idle /\ ~q.found
    /\ IF Reads(q) = {} THEN Finish(r)
       ELSE \E f \in Reads(q) :
                requests' = [requests EXCEPT ![r].flow = f, ![r].found = TRUE,
                                             ![r].seen = flows[f].doc]
    /\ UNCHANGED <<flows, versions, runs, tab, tasks, listing, past, calls>>

\* Any version will do.
FindVersion_Any(r) ==
    LET q == requests[r] IN
    /\ q # Idle /\ q.found /\ q.op = "restore"
    /\ IF versions[q.version] = None
       THEN Finish(r)
       ELSE requests' = [requests EXCEPT ![r].op = "put", ![r].doc = versions[q.version].doc]
    /\ UNCHANGED <<flows, versions, runs, tab, tasks, listing, past, calls>>

\* restore looks the version up, and goes on to write its content.
FindVersion(r) ==
    LET q == requests[r] IN
    /\ q # Idle /\ q.found /\ q.op = "restore"
    /\ IF versions[q.version] = None \/ versions[q.version].of # q.flow
       THEN Finish(r)
       ELSE requests' = [requests EXCEPT ![r].op = "put", ![r].doc = versions[q.version].doc]
    /\ UNCHANGED <<flows, versions, runs, tab, tasks, listing, past, calls>>


\* What the row becomes under a write of q.
Written(q) ==
    [flows[q.flow] EXCEPT !.doc = IF q.doc = None THEN @ ELSE q.doc,
                          !.active = IF q.active = None THEN @ ELSE q.active]

\* The answer to a tab: a toggle shows the row's flag, a restore its content.
Answered(q) ==
    CASE q.tab = "toggle"  -> [tab EXCEPT ![q.user].active = Written(q).active]
      [] q.tab = "restore" -> [tab EXCEPT ![q.user].doc = q.doc]
      [] OTHER             -> tab

\* What the editor sends once its save is answered.
Followed(r) ==
    IF requests[r].then = "none" THEN Finish(r)
    ELSE requests' = [requests EXCEPT ![r].op = requests[r].then, ![r].then = "none",
                                      ![r].found = FALSE, ![r].tab = "no"]

\* The update of PUT, PATCH and restore. A row that was deleted after Find makes it
\* fail, and nothing follows.
Put(r) ==
    LET q == requests[r] IN
    /\ q # Idle /\ q.found /\ q.op = "put"
    /\ IF flows[q.flow] = None
       THEN Finish(r) /\ UNCHANGED <<flows, past, tab>>
       ELSE /\ Store(q.flow, Written(q))
            /\ tab' = Answered(q)
            /\ Followed(r)
    /\ UNCHANGED <<versions, runs, tasks, listing, calls>>


\* Versions and executions go with their workflow (onDelete: Cascade).
Delete(r) ==
    LET f == requests[r].flow IN
    /\ requests[r] # Idle /\ requests[r].found /\ requests[r].op = "delete"
    /\ Finish(r)
    /\ flows' = [flows EXCEPT ![f] = None]
    /\ versions' = [v \in Versions |-> IF versions[v] # None /\ versions[v].of = f
                                       THEN None ELSE versions[v]]
    /\ runs' = {x \in runs : x.flow # f}
    /\ UNCHANGED <<tab, tasks, listing, past, calls>>

Duplicate(r) ==
    LET q == requests[r] IN
    /\ q # Idle /\ q.found /\ q.op = "duplicate"
    /\ Add(q.user, q.seen)
    /\ Finish(r)
    /\ UNCHANGED <<versions, runs, tab, tasks, listing, calls>>

\* The version holds what Find read; its workflow must still be there.
Snapshot(r) ==
    LET q == requests[r] IN
    /\ q # Idle /\ q.found /\ q.op = "snapshot"
    /\ IF flows[q.flow] = None THEN UNCHANGED versions
       ELSE \E v \in {w \in Versions : versions[w] = None} :
                versions' = [versions EXCEPT ![v] = [of |-> q.flow, doc |-> q.seen]]
    /\ Finish(r)
    /\ UNCHANGED <<flows, runs, tab, tasks, listing, past, calls>>

\* An execution of a workflow that is still there.
Run(f, cause, by, saved) ==
    runs' = IF flows[f] = None THEN runs
            ELSE runs \cup {[flow |-> f, cause |-> cause, by |-> by, saved |-> saved]}

Execute(r) ==
    LET q == requests[r] IN
    /\ q # Idle /\ q.found /\ q.op \in {"execute", "internal"}
    /\ Run(q.flow, IF q.op = "internal" THEN "key" ELSE "user", q.user, q.doc)
    /\ Finish(r)
    /\ UNCHANGED <<flows, versions, tab, tasks, listing, past, calls>>

\* The trigger's own check may refuse the caller: what it compares is not modelled.
handleWebhook(r) ==
    LET q == requests[r] IN
    /\ q # Idle /\ q.found /\ q.op = "hook"
    /\ UNCHANGED runs \/ Run(q.flow, "hook", q.version, None)
    /\ Finish(r)
    /\ UNCHANGED <<flows, versions, tab, tasks, listing, past, calls>>

-----------------------------------------------------------------------------
(* The editor.                                                             *)

Waiting(u) == \E r \in Requests : requests[r] # Idle /\ requests[r].user = u /\ requests[r].tab # "no"

Open(u, f) ==
    /\ ~Waiting(u)
    /\ flows[f] # None /\ flows[f].owner = u
    /\ tab' = [tab EXCEPT ![u] = [flow |-> f, doc |-> flows[f].doc, active |-> flows[f].active]]
    /\ tab' # tab
    /\ Call
    /\ UNCHANGED <<flows, versions, runs, requests, tasks, listing, past>>

Edit(u, d) ==
    /\ tab[u] # None
    /\ d \in Submits(u) \ {tab[u].doc}
    /\ tab' = [tab EXCEPT ![u].doc = d]
    /\ Call
    /\ UNCHANGED <<flows, versions, runs, requests, tasks, listing, past>>

\* The follow-up is sent without waiting for the save.
Save_NoWait(u) ==
    /\ tab[u] # None
    /\ Call
    /\ \E next \in {"none", "execute", "snapshot"} :
        Send([Blank(u, tab[u].flow) EXCEPT !.doc = tab[u].doc,
                                           !.op = IF next = "none" THEN "put" ELSE next])

\* save, also as the first half of execute and snapshotWorkflow: the content and
\* the flag as the tab has them.
Save(u) ==
    /\ tab[u] # None
    /\ Call
    /\ \E next \in {"none", "execute", "snapshot"} :
        Send([Blank(u, tab[u].flow) EXCEPT !.doc = tab[u].doc, !.active = tab[u].active,
                                           !.tab = "save", !.then = next])

ToggleActive(u) ==
    /\ tab[u] # None
    /\ Call
    /\ Send([Blank(u, tab[u].flow) EXCEPT !.active = ~tab[u].active, !.tab = "toggle"])

RestoreInTab(u) ==
    /\ tab[u] # None
    /\ Call
    /\ \E v \in Versions :
        Send([Blank(u, tab[u].flow) EXCEPT !.op = "restore", !.version = v, !.tab = "restore"])

-----------------------------------------------------------------------------
(* The scheduler: a refresh reads the active rows and, once it has them,   *)
(* stops and starts tasks in one go. A refresh does not wait for another.  *)


SyncRead(s) ==
    /\ listing[s] = None
    /\ listing' = [listing EXCEPT ![s] = [f \in Desired |-> Cron[flows[f].doc]]]
    /\ UNCHANGED <<flows, versions, runs, requests, tab, tasks, past, calls>>

\* Only starts.
syncSchedules_NeverStops(s) ==
    /\ listing[s] # None
    /\ tasks' = [f \in Flows |-> IF tasks[f] # None \/ f \notin DOMAIN listing[s]
                                 THEN tasks[f] ELSE listing[s][f]]
    /\ listing' = [listing EXCEPT ![s] = None]
    /\ UNCHANGED <<flows, versions, runs, requests, tab, past, calls>>

\* A task that runs already is left as it is.
syncSchedules(s) ==
    /\ listing[s] # None
    /\ tasks' = [f \in Flows |-> IF f \notin DOMAIN listing[s] THEN None
                                 ELSE IF tasks[f] # None THEN tasks[f] ELSE listing[s][f]]
    /\ listing' = [listing EXCEPT ![s] = None]
    /\ UNCHANGED <<flows, versions, runs, requests, tab, past, calls>>

Fire(f) ==
    /\ tasks[f] # None
    /\ Run(f, "schedule", tasks[f], None)
    /\ UNCHANGED <<flows, versions, requests, tab, tasks, listing, past, calls>>

-----------------------------------------------------------------------------
RequestStep ==
    \/ \E u \in Users, d \in Docs : Create(u, d) \/ Edit(u, d)
    \/ \E u \in Users, f \in Flows \ Fresh :
          SendPlain(u, f) \/ SendPatch(u, f) \/ SendRestore(u, f) \/ Open(u, f)
    \/ \E f \in Flows \ Fresh : SendInternal(f)
    \/ \E u \in Users : Save(u) \/ ToggleActive(u) \/ RestoreInTab(u) \/ UseTemplate(u)
    \/ \E h \in Hooks : CallHook(h)
    \/ \E r \in Requests :
          \/ Find(r) \/ FindVersion(r) \/ Put(r) \/ Delete(r)
          \/ Duplicate(r) \/ Snapshot(r) \/ Execute(r) \/ handleWebhook(r)

SchedulerStep ==
    \/ \E s \in Syncs : SyncRead(s) \/ syncSchedules(s)
    \/ \E f \in Flows : Fire(f)

-----------------------------------------------------------------------------
WorkflowSpec == WorkflowInit /\ [][RequestStep \/ SchedulerStep]_workflowVars

WorkflowTypeOK ==
    /\ flows \in [Flows -> Row \cup {None}]
    /\ versions \in [Versions -> VersionRow \cup {None}]
    /\ tab \in [Users -> TabState \cup {None}]
    /\ \A f \in Flows : tasks[f] # None => \E d \in Docs : Cron[d] = tasks[f]
    /\ \A r \in Requests : requests[r] # Idle => requests[r].op \in
          {"put", "delete", "duplicate", "snapshot", "restore", "execute", "internal", "hook"}

\* A workflow and its versions hold what their owner sent, or a template: a restore
\* that names a version of somebody else's workflow brings nothing over.
NoForeignContent ==
    /\ \A f \in Flows : flows[f] # None => flows[f].doc \in Submits(flows[f].owner)
    /\ \A v \in Versions : versions[v] # None /\ flows[versions[v].of] # None =>
          versions[v].doc \in Submits(flows[versions[v].of].owner)

\* No version and no execution is left of a workflow that is gone, though a snapshot
\* or an execution of it was half way when it was deleted.
NothingOutlivesItsWorkflow ==
    /\ \A v \in Versions : versions[v] # None => flows[versions[v].of] # None
    /\ \A x \in runs : flows[x.flow] # None

\* Workflows, versions and executions: whose content, and of which workflow.
RowsHoldTheirOwn == WorkflowTypeOK /\ NoForeignContent /\ NothingOutlivesItsWorkflow

\* A run has a cause: its owner asked for it, or the holder of the internal key did,
\* who may run anybody's, or the workflow was active, at some time, with the schedule
\* or the webhook that fired.
RunsHaveCause ==
    \A x \in runs :
        /\ x.cause = "user" => flows[x.flow].owner = x.by
        /\ x.cause = "key" => x.by = KeyHolder
        /\ x.cause = "hook" => \E p \in past : p[1] = x.flow /\ p[3] /\ Hook[p[2]] = x.by
        /\ x.cause = "schedule" => \E p \in past : p[1] = x.flow /\ p[3] /\ Cron[p[2]] = x.by

\* The editor runs a workflow only after the content it shows was stored.
RunsWereSaved ==
    \A x \in runs : x.saved # None => \E p \in past : p[1] = x.flow /\ p[2] = x.saved

\* What runs was asked for, and is what was shown.
RunsAreMeant == RunsHaveCause /\ RunsWereSaved

\* However refreshes overlap, in the end a task runs exactly for the workflows
\* that want one.
TasksCatchUp ==
    \A f \in Flows :
        /\ <>[](f \notin Desired) => <>[](tasks[f] = None)
        /\ <>[](f \in Desired) => <>[](tasks[f] # None)
=============================================================================
