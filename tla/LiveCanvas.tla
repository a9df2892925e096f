------------------------------ MODULE LiveCanvas ------------------------------
(* An execution as the editor page sees it: the worker writes the row and
   publishes each event to two Redis channels, the API's socket bridge passes the
   legacy one on to the room of the execution and the other one to the rooms of
   the workflow and of the tenant, and the page colours its nodes from both while
   it polls the row.  One node of the canvas stands for all of them. *)
EXTENDS Naturals, Sequences, FiniteSets

CONSTANTS PageRuns,     \* the executions the page starts: 1, 2, ...
          NoRun,
          Outcomes,     \* how the runs of the instance may go, of Scripts' domain
          Earlier,      \* status of the node in a run before the page was opened
          MaxLeft       \* bound: steps, answers and events left of earlier runs

VARIABLES status,        \* what the database says of a run
          todo,         \* the worker's steps left of it
          truth,        \* how the node really fared in it
          tele, stream, \* events published and not yet delivered, per channel
          joined,       \* execution rooms the page's socket is in
          stage,        \* how far the page's request for a run has come
          page,         \* what the page holds
          polls, cancelled,   \* intervals; answers on the way to the page
          clean,        \* history: nothing disturbed the page since it last started a run
          reopened      \* history: runs the worker began after they had been cancelled
canvasVars == <<status, todo, truth, tele, stream, joined, stage, page, polls,
                cancelled, clean, reopened>>

Unfinished == {"PENDING", "RUNNING"}
Nothing == "none"
NodeStatuses == {"running", "success", "error", "skipped"}
StatusOf == [started |-> "running", finished |-> "success", error |-> "error", skipped |-> "skipped"]
NodeEvents == DOMAIN StatusOf

(* The processor of one job: the node succeeds, fails, is skipped, is not reached
   (concurrency limit), or goes on after its execution has timed out. *)
Scripts ==
  [success  |-> <<"begin", "start", "started", "finished", "done">>,
   failure  |-> <<"begin", "start", "started", "error", "fails", "failed">>,
   branch   |-> <<"begin", "start", "skipped", "done">>,
   full     |-> <<"begin", "start", "fails", "failed">>,
   timedOut |-> <<"begin", "start", "started", "fails", "failed", "finished">>]
RowAfter == [begin |-> "RUNNING", done |-> "SUCCESS", fails |-> "FAILED"]

ASSUME CanvasAssumption ==
  /\ PageRuns \subseteq Nat /\ NoRun \notin PageRuns /\ MaxLeft \in Nat
  /\ Outcomes \in [PageRuns -> SUBSET DOMAIN Scripts]
  /\ Earlier \subseteq NodeStatuses

RunOver(st) == st \notin Unfinished

CanvasInit ==
  /\ status = [r \in PageRuns |-> Nothing]
  /\ todo = [r \in PageRuns |-> <<>>]
  /\ truth = [r \in PageRuns |-> Nothing]
  /\ tele = <<>> /\ stream = <<>> /\ joined = {}
  /\ stage = [r \in PageRuns |-> "unused"]
  /\ page \in [executing : {FALSE}, run : {NoRun}, fromTele : {Nothing},
               fromStream : {Nothing}, joining : {{}}]
  /\ polls = {} /\ cancelled = {}
  /\ clean = TRUE /\ reopened = {}

-----------------------------------------------------------------------------
(* One step of the worker on run r: a write of the row, or an event on its
   channels.  `start` is not sent on workflow:telemetry. *)
WorkerStep(r) ==
  /\ todo[r] # <<>>
  /\ LET step == Head(todo[r]) IN
     /\ todo' = [todo EXCEPT ![r] = Tail(@)]
     /\ status' = IF step \in DOMAIN RowAfter THEN [status EXCEPT ![r] = RowAfter[step]] ELSE status
     /\ reopened' = IF step = "begin" /\ status[r] = "FAILED" THEN reopened \cup {r} ELSE reopened
     /\ truth' = IF step \in NodeEvents THEN [truth EXCEPT ![r] = StatusOf[step]] ELSE truth
     /\ stream' = IF step \in NodeEvents \cup {"start", "failed"}
                    THEN Append(stream, [type |-> step, run |-> r]) ELSE stream
     /\ tele' = IF step \in NodeEvents \cup {"failed"}
                  THEN Append(tele, [type |-> step, run |-> r]) ELSE tele
  /\ UNCHANGED <<joined, stage, page, polls, cancelled, clean>>

LeftOf(s) == Len(todo[s]) + Cardinality({s} \cap (polls \cup cancelled))
CanvasAtRest == tele = <<>> /\ stream = <<>> /\ \A s \in PageRuns : LeftOf(s) = 0

Cleared(p) == [p EXCEPT !.executing = TRUE, !.run = NoRun, !.fromTele = Nothing]

(* Execute, which the button offers while `executing` is not set: the page forgets
   what it showed of earlier runs and posts the request.  MaxLeft bounds what may
   still be under way of them.  (The workflow is saved first; a second click during
   the save is not modelled.) *)
PressExecute(r) ==
  /\ ~page.executing /\ stage[r] = "unused"
  /\ \A s \in PageRuns : s < r => stage[s] \in {"answered", "refused"}
                                  /\ LeftOf(s) + Len(tele) + Len(stream) <= MaxLeft
  /\ stage' = [stage EXCEPT ![r] = "posted"]
  /\ page' = Cleared(page)
  /\ clean' = CanvasAtRest
  /\ UNCHANGED <<status, todo, truth, tele, stream, joined, polls, cancelled, reopened>>

(* The API creates the row and the job. *)
RunCreated(r) ==
  /\ stage[r] = "posted"
  /\ stage' = [stage EXCEPT ![r] = "created"]
  /\ status' = [status EXCEPT ![r] = "PENDING"]
  /\ \E o \in Outcomes[r] : todo' = [todo EXCEPT ![r] = Scripts[o]]
  /\ UNCHANGED <<truth, tele, stream, joined, page, polls, cancelled, clean, reopened>>

(* The POST fails, before or after the row was made: execute() has no handler, the
   page keeps `executing`. *)
ExecuteRefused(r) ==
  /\ stage[r] \in {"posted", "created"}
  /\ stage' = [stage EXCEPT ![r] = "refused"]
  /\ UNCHANGED <<status, todo, truth, tele, stream, joined, page, polls, cancelled, clean, reopened>>

(* The answer: from here on the page knows the id, asks for its room and polls. *)
ExecuteAnswered(r) ==
  /\ stage[r] = "created"
  /\ stage' = [stage EXCEPT ![r] = "answered"]
  /\ page' = [page EXCEPT !.run = r, !.joining = @ \cup {r}]
  /\ polls' = polls \cup {r}
  /\ UNCHANGED <<status, todo, truth, tele, stream, joined, cancelled, clean, reopened>>

JoinExecution(r) ==
  /\ r \in page.joining
  /\ joined' = joined \cup {r}
  /\ page' = [page EXCEPT !.joining = @ \ {r}]
  /\ UNCHANGED <<status, todo, truth, tele, stream, stage, polls, cancelled, clean, reopened>>

-----------------------------------------------------------------------------
(* The interval of a run goes on until an answer finds the run and then
   changes the page, whatever run it is executing by then. *)
Poll_ClearsFirst(r) ==
  /\ r \in polls
  /\ polls' = polls \ {r}
  /\ page' = [page EXCEPT !.executing = @ /\ ~RunOver(status[r])]
  /\ UNCHANGED <<status, todo, truth, tele, stream, joined, stage, cancelled, clean, reopened>>

Poll(r) ==
  /\ r \in polls /\ RunOver(status[r])
  /\ polls' = polls \ {r}
  /\ page' = [page EXCEPT !.executing = FALSE]
  /\ UNCHANGED <<status, todo, truth, tele, stream, joined, stage, cancelled, clean, reopened>>

(* Cancelling fails the row at once; the page compares the id it held at the click. *)
CancelExecution(r) ==
  /\ status[r] \in Unfinished
  /\ status' = [status EXCEPT ![r] = "FAILED"]
  /\ cancelled' = IF page.run = r THEN cancelled \cup {r} ELSE cancelled
  /\ UNCHANGED <<todo, truth, tele, stream, joined, stage, page, polls, clean, reopened>>

CancelAnswer(r) ==
  /\ r \in cancelled
  /\ cancelled' = cancelled \ {r}
  /\ page' = [page EXCEPT !.executing = FALSE]
  /\ UNCHANGED <<status, todo, truth, tele, stream, joined, stage, polls, clean, reopened>>

-----------------------------------------------------------------------------
(* socket.on("telemetry"): the room filters, the page does not. *)
Telemetry ==
  /\ tele # <<>>
  /\ tele' = Tail(tele)
  /\ LET event == Head(tele) IN
     page' = IF event.run \notin joined THEN page
             ELSE IF event.type = "failed" THEN [page EXCEPT !.executing = FALSE]
             ELSE [page EXCEPT !.fromTele = StatusOf[event.type]]
  /\ UNCHANGED <<status, todo, truth, stream, joined, stage, polls, cancelled, clean, reopened>>

(* socket.on("execution:update"), delivered by both rooms, one after the other. *)
Updated(event) ==
  CASE event = "start" -> [page EXCEPT !.fromStream = Nothing]
    [] event = "failed" -> page
    [] OTHER -> [page EXCEPT !.fromStream = StatusOf[event]]

ExecutionUpdate ==
  /\ stream # <<>>
  /\ stream' = Tail(stream)
  /\ page' = Updated(Head(stream).type)
  /\ UNCHANGED <<status, todo, truth, tele, joined, stage, polls, cancelled, clean, reopened>>

(* The room of the tenant also brings the events of runs the page did not start,
   of this workflow and of others. *)
ForeignUpdate ==
  /\ clean /\ clean' = FALSE
  /\ \E type \in {"start", "started"} : page' = Updated(type)
  /\ UNCHANGED <<status, todo, truth, tele, stream, joined, stage, polls, cancelled, reopened>>

(* Redis keeps nothing for a bridge that is away, and a socket that reconnects is
   back in the room of its tenant, not in those of the executions. *)
Disconnect ==
  /\ \/ tele # <<>> /\ tele' = <<>> /\ joined' = {} /\ UNCHANGED stream
     \/ stream # <<>> /\ stream' = <<>> /\ UNCHANGED <<tele, joined>>
  /\ clean /\ clean' = FALSE
  /\ UNCHANGED <<status, todo, truth, stage, page, polls, cancelled, reopened>>

(* The logs of the last run that was finished when the page was opened, which may
   come late: they replace what the events have shown. *)
LogsShown ==
  /\ clean /\ clean' = FALSE
  /\ \E s \in Earlier : page' = [page EXCEPT !.fromTele = s]
  /\ UNCHANGED <<status, todo, truth, tele, stream, joined, stage, polls, cancelled, reopened>>

CanvasStep ==
  \/ \E r \in PageRuns :
       \/ WorkerStep(r) \/ CancelExecution(r)
       \/ PressExecute(r) \/ RunCreated(r) \/ ExecuteRefused(r) \/ ExecuteAnswered(r)
       \/ JoinExecution(r) \/ Poll(r) \/ CancelAnswer(r)
  \/ Telemetry \/ ExecutionUpdate \/ ForeignUpdate \/ Disconnect \/ LogsShown

CanvasSpec == CanvasInit /\ [][CanvasStep]_canvasVars

-----------------------------------------------------------------------------
Shown(p) == IF p.fromTele # Nothing THEN p.fromTele ELSE p.fromStream

LiveTypeOK ==
  /\ status \in [PageRuns -> {Nothing, "PENDING", "RUNNING", "SUCCESS", "FAILED"}]
  /\ todo \in [PageRuns -> Seq(NodeEvents \cup DOMAIN RowAfter \cup {"start", "failed"})]
  /\ truth \in [PageRuns -> NodeStatuses \cup {Nothing}]
  /\ \A i \in DOMAIN tele : tele[i] \in [type : NodeEvents \cup {"failed"}, run : PageRuns]
  /\ \A i \in DOMAIN stream : stream[i] \in [type : NodeEvents \cup {"start", "failed"}, run : PageRuns]
  /\ stage \in [PageRuns -> {"unused", "posted", "created", "answered", "refused"}]
  /\ page.run \in PageRuns \cup {NoRun} /\ page.executing \in BOOLEAN
  /\ {page.fromTele, page.fromStream, Shown(page)} \subseteq NodeStatuses \cup {Nothing}
  /\ page.joining \cup joined \cup polls \cup cancelled \subseteq PageRuns
  /\ reopened \subseteq PageRuns /\ clean \in BOOLEAN

(* Once nothing of a run is left to do or on its way, an undisturbed page colours
   the node as it fared in the page's run: whichever of the events came before the
   page had joined the room of its execution, and in whichever order the two
   channels brought the rest. *)
CanvasSettles ==
  \A r \in PageRuns :
    clean /\ page.run = r /\ todo[r] = <<>> /\ tele = <<>> /\ stream = <<>> /\ truth[r] # Nothing
      => Shown(page) = truth[r]

(* A page that offers Execute again shows a run that is over, or one that was
   cancelled before the worker had begun it. *)
IdleIsHonest ==
  \A r \in PageRuns :
    clean /\ page.run = r /\ ~page.executing => RunOver(status[r]) \/ r \in reopened

(* The button comes back: a page that shows the run it knows the id of as running
   still polls it, so that it learns of the end of the run even when every event of
   the sockets is lost. *)
RunningIsPolled == \A r \in PageRuns : page.executing /\ page.run = r => r \in polls

\* What the page shows of a run, its button and its colours, follows from the run.
CanvasIsTrue ==
  /\ LiveTypeOK
  /\ CanvasSettles
  /\ IdleIsHonest
  /\ RunningIsPolled
=============================================================================
