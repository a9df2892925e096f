------------------------------ MODULE DagEngine ------------------------------
(***************************************************************************)
(* One workflow as packages/worker/src/engine/dag.ts executes it, with the *)
(* execution rows it is run for (packages/worker/src/index.ts) and the     *)
(* executions that continue it from its checkpoint: the one a Wait node    *)
(* enqueues and the one POST /executions/:id/retry creates.                *)
(*                                                                         *)
(* A step of a node is the code between two awaits of processNode.  A      *)
(* node's output is abstracted to how it is held: "inline" (an object      *)
(* under the spill threshold), "big" (over it but held in memory),         *)
(* "spilled" (a SpillRef, the value in a file) or "stub" (what a log row   *)
(* keeps of an output over the threshold).                                 *)
(***************************************************************************)
EXTENDS Naturals, Sequences, FiniteSets

CONSTANTS
  Nodes,      \* node ids of the workflow
  EdgeSeq,    \* its edges in stored order: [src, dst, handle]
  Ifs,        \* the ifBranch nodes
  Switches,   \* the switch nodes
  Choices,    \* the values _branch / _switch can take
  Waits,      \* the wait nodes
  Sizes,      \* the forms an executor's output may take
  Execs,      \* execution rows: 1 is triggered, the others continue one
  Retries     \* whether a user may POST /executions/:id/retry

Branches == Ifs \cup Switches
Indices == 1..Len(EdgeSeq)
Handles == {"none", "error"} \cup Choices
Forms   == {"none", "inline", "big", "spilled", "stub"}

ASSUME WorkflowAssumption ==
  /\ EdgeSeq \in Seq([src : Nodes, dst : Nodes, handle : Handles])
  /\ Branches \subseteq Nodes /\ Ifs \cap Switches = {}
  /\ Waits \subseteq Nodes \ Branches
  /\ {"true", "default"} \subseteq Choices
  /\ Sizes \subseteq {"inline", "spilled"}
  /\ Retries \in BOOLEAN
  /\ Execs \subseteq Nat /\ 1 \in Execs /\ 0 \notin Execs

VARIABLES
  phase,    \* status column of the execution row, "absent" before it exists
  prior,    \* checkpointExecutionId of its job, 0 for none
  status,   \* nodeStatus
  pc,       \* where processNode stands; "idle" iff the node is not in launched
  inputs,   \* the done parents whose outputs were gathered
  kids,     \* the children whose promises the node awaits
  out,      \* outputs
  verdict,  \* the _branch / _switch value in a branch's output
  cyclic,   \* nodes whose output object contains itself
  tainted,  \* history: an output object was made to contain itself
  log,      \* status of the node's log row
  files     \* nodes with a spill file in the execution's directory

vars == <<phase, prior, status, pc, inputs, kids, out, verdict, cyclic, tainted,
          log, files>>
-----------------------------------------------------------------------------
Parents  == [n \in Nodes |-> {EdgeSeq[i].src : i \in {j \in Indices : EdgeSeq[j].dst = n}}]
Children == [n \in Nodes |-> {EdgeSeq[i].dst : i \in {j \in Indices : EdgeSeq[j].src = n}}]
Roots    == {n \in Nodes : Parents[n] = {}}

\* edges.find: only the first edge between two nodes tells its handle.
HandleOf == [n \in Nodes |-> [c \in Nodes |->
  LET first == CHOOSE i \in Indices :
                 /\ EdgeSeq[i].src = n /\ EdgeSeq[i].dst = c
                 /\ \A j \in Indices :
                      EdgeSeq[j].src = n /\ EdgeSeq[j].dst = c => i <= j
  IN  IF c \in Children[n] THEN EdgeSeq[first].handle ELSE "none"]]

ErrorChildren == [n \in Nodes |->
  {EdgeSeq[i].dst : i \in {j \in Indices : EdgeSeq[j].src = n /\ EdgeSeq[j].handle = "error"}}]
HasErrorEdge(n) == ErrorChildren[n] # {}

\* isReady, over a given nodeStatus.
Ready_AnyParent(st, n) == Parents[n] = {} \/ \E p \in Parents[n] : st[p] \in {"done", "skipped"}
Ready(st, n) == \A p \in Parents[n] : st[p] \in {"done", "skipped"}

Cascade_ChildOnly(st, S) == {n \in S : st[n] = "pending"}
\* cascadeSkip from every node of S: the pending nodes reached through
\* pending nodes, the least set closed under Children.
Cascade(st, S) ==
  LET pending == {n \in Nodes : st[n] = "pending"}
      Closed(T) == \A n \in T : Children[n] \cap pending \subseteq T
  IN  {n \in pending : \A T \in SUBSET pending :
                         S \cap pending \subseteq T /\ Closed(T) => n \in T}

Skip(st, S) ==
  IF S = {} THEN st
  ELSE LET cut == Cascade(st, S) IN [n \in Nodes |-> IF n \in cut THEN "skipped" ELSE st[n]]

\* The loop over children[n] after a success with active handle h (branches
\* only).  The loop skips as it goes, so a child is tested for readiness
\* against the skips of the edges before its own.
Inactive(n, h, c) ==
  /\ n \in Branches
  /\ LET k == HandleOf[n][c] IN k # "error" /\ h # (IF k = "none" THEN "true" ELSE k)
SkippedBefore(n, h, i) ==
  {EdgeSeq[j].dst : j \in {k \in Indices : /\ k < i /\ EdgeSeq[k].src = n
                                           /\ Inactive(n, h, EdgeSeq[k].dst)}}
NextNodes_NotLaunchedUntested(x, n, h) ==
  {c \in Children[n] : HandleOf[n][c] # "error" /\ ~Inactive(n, h, c) /\ Ready(status[x], c)}
NextNodes(x, n, h) ==
  {c \in Nodes : \E i \in Indices :
     /\ EdgeSeq[i].src = n /\ EdgeSeq[i].dst = c
     /\ HandleOf[n][c] # "error" /\ ~Inactive(n, h, c)
     /\ pc[x][c] = "idle"
     /\ Ready(Skip(status[x], SkippedBefore(n, h, i)), c)}

\* processNode(c) for each c of S, up to its first await: pc and inputs.
Launched(x, S) == [c \in Nodes |-> IF c \in S THEN "gather" ELSE pc[x][c]]
Gathered_FromLog(x, S, st) ==
  [c \in Nodes |-> IF c \in S THEN {p \in Parents[c] : log[x][p] = "SUCCESS"} ELSE inputs[x][c]]
Gathered(x, S, st) ==
  [c \in Nodes |-> IF c \in S THEN {p \in Parents[c] : st[p] = "done"} ELSE inputs[x][c]]
-----------------------------------------------------------------------------
Init ==
  /\ phase    = [x \in Execs |-> IF x = 1 THEN "PENDING" ELSE "absent"]
  /\ prior    = [x \in Execs |-> 0]
  /\ status   = [x \in Execs |-> [n \in Nodes |-> "pending"]]
  /\ pc       = [x \in Execs |-> [n \in Nodes |-> "idle"]]
  /\ inputs   = [x \in Execs |-> [n \in Nodes |-> {}]]
  /\ kids     = [x \in Execs |-> [n \in Nodes |-> {}]]
  /\ out      = [x \in Execs |-> [n \in Nodes |-> "none"]]
  /\ verdict  = [x \in Execs |-> [n \in Nodes |-> "true"]]
  /\ cyclic   = [x \in Execs |-> {}]
  /\ tainted  = [x \in Execs |-> FALSE]
  /\ log      = [x \in Execs |-> [n \in Nodes |-> "none"]]
  /\ files    = [x \in Execs |-> {}]

\* What a log row keeps of an output: payloadSummary of the raw value.
Summary(form) == IF form \in {"spilled", "big"} THEN "stub" ELSE form

\* The log rows of the prior execution that seed this one.
Restored(x) ==
  IF prior[x] = 0 THEN {} ELSE {n \in Nodes : log[prior[x]][n] = "SUCCESS"}

Start_SeedsNotLaunched(x) ==
  /\ phase[x] = "PENDING"
  /\ phase' = [phase EXCEPT ![x] = "RUNNING"]
  /\ status' = [status EXCEPT ![x] =
        [n \in Nodes |-> IF n \in Restored(x) THEN "done" ELSE "pending"]]
  /\ out' = [out EXCEPT ![x] =
        [n \in Nodes |-> IF n \in Restored(x) THEN Summary(out[prior[x]][n]) ELSE "none"]]
  /\ pc' = [pc EXCEPT ![x] = [n \in Nodes |-> IF n \in Roots THEN "gather" ELSE "idle"]]
  /\ UNCHANGED <<prior, inputs, kids, verdict, cyclic, tainted, log, files>>
\* The worker takes the job: the row is RUNNING, the checkpoint is restored
\* and the roots not restored are launched.
Start(x) ==
  /\ phase[x] = "PENDING"
  /\ phase' = [phase EXCEPT ![x] = "RUNNING"]
  /\ status' = [status EXCEPT ![x] =
        [n \in Nodes |-> IF n \in Restored(x) THEN "done" ELSE "pending"]]
  /\ out' = [out EXCEPT ![x] =
        [n \in Nodes |-> IF n \in Restored(x) THEN Summary(out[prior[x]][n]) ELSE "none"]]
  /\ pc' = [pc EXCEPT ![x] =
        [n \in Nodes |-> IF n \in Restored(x) THEN "resolved"
                         ELSE IF n \in Roots THEN "gather" ELSE "idle"]]
  /\ UNCHANGED <<prior, inputs, kids, verdict, cyclic, tainted, log, files>>

\* The inputs are resolved: a spilled one is read back from its file, and a
\* single one held in memory is mutated ($input.$nodeOutputs = ...).
Gather(x, n) ==
  LET lost == {p \in inputs[x][n] : out[x][p] = "spilled" /\ p \notin files[x]}
      self == {p \in inputs[x][n] : inputs[x][n] = {p} /\ out[x][p] # "spilled"}
  IN  /\ pc[x][n] = "gather"
      /\ IF lost # {}
         THEN /\ pc' = [pc EXCEPT ![x][n] = "rejected"]
              /\ UNCHANGED <<status, cyclic, tainted>>
         ELSE /\ pc' = [pc EXCEPT ![x][n] = "starting"]
              /\ status' = [status EXCEPT ![x][n] = "running"]
              /\ cyclic' = [cyclic EXCEPT ![x] = @ \cup self]
              /\ tainted' = IF self = {} THEN tainted ELSE [tainted EXCEPT ![x] = TRUE]
      /\ UNCHANGED <<phase, prior, inputs, kids, out, verdict, log, files>>

\* JSON.stringify of a value that reaches every output: it throws on a cycle.
\* An output replaced since may still be reached through an older snapshot.
MustThrow(x) == cyclic[x] # {}
MayThrow(x)  == tainted[x]

\* The log row is created, outside the try block.
Begin(x, n) ==
  /\ pc[x][n] = "starting"
  /\ \/ /\ ~MustThrow(x)
        /\ pc' = [pc EXCEPT ![x][n] = "executing"]
        /\ log' = [log EXCEPT ![x][n] = "RUNNING"]
     \/ /\ MayThrow(x)
        /\ pc' = [pc EXCEPT ![x][n] = "rejected"]
        /\ UNCHANGED log
  /\ UNCHANGED <<phase, prior, status, inputs, kids, out, verdict, cyclic, tainted, files>>

\* The executor returned and storePayload kept or spilled the output.
ExecuteOk(x, n) ==
  /\ pc[x][n] = "executing"
  /\ n \notin Waits
  /\ \E form \in Sizes :
       /\ out' = [out EXCEPT ![x][n] = form]
       /\ files' = [files EXCEPT ![x] = IF form = "spilled" THEN @ \cup {n} ELSE @]
  /\ \E v \in IF n \in Branches THEN Choices ELSE {"true"} :
       verdict' = [verdict EXCEPT ![x][n] = v]
  /\ status' = [status EXCEPT ![x][n] = "done"]
  /\ pc' = [pc EXCEPT ![x][n] = "stored"]
  /\ UNCHANGED <<phase, prior, inputs, kids, cyclic, tainted, log>>

\* The executor threw (or its output could not be serialised).
ExecuteFails(x, n) ==
  /\ pc[x][n] = "executing"
  /\ n \notin Waits
  /\ status' = [status EXCEPT ![x][n] = "error"]
  /\ pc' = [pc EXCEPT ![x][n] = "caught"]
  /\ UNCHANGED <<phase, prior, inputs, kids, out, verdict, cyclic, tainted, log, files>>

\* A new PENDING row and a job for it, if the model has a row left.
Continue(x) ==
  LET free == {y \in Execs : phase[y] = "absent"}
  IN  IF free = {}
      THEN UNCHANGED <<phase, prior>>
      ELSE \E y \in free :
             /\ phase' = [phase EXCEPT ![y] = "PENDING"]
             /\ prior' = [prior EXCEPT ![y] = x]

\* A wait node throws WaitSignal: it is done with its input as output, a
\* continuation is enqueued and its children are left to it.
WaitSignal(x, n) ==
  /\ pc[x][n] = "executing"
  /\ n \in Waits
  /\ status' = [status EXCEPT ![x][n] = "done"]
  /\ out' = [out EXCEPT ![x][n] =
        IF \E p \in inputs[x][n] : out[x][p] \in {"spilled", "big"} THEN "big" ELSE "inline"]
  /\ \/ /\ pc' = [pc EXCEPT ![x][n] = "resolved"]
        /\ log' = [log EXCEPT ![x][n] = "SUCCESS"]
        /\ Continue(x)
     \/ /\ MayThrow(x)
        /\ pc' = [pc EXCEPT ![x][n] = "rejected"]
        /\ \E l \in {"RUNNING", "SUCCESS"} : log' = [log EXCEPT ![x][n] = l]
        /\ UNCHANGED <<phase, prior>>
  /\ UNCHANGED <<inputs, kids, verdict, cyclic, tainted, files>>

\* The handle read off the stored output: a SpillRef has no _branch, so a
\* spilled output routes by the default.
ActiveHandle(x, n) ==
  IF out[x][n] # "spilled" THEN verdict[x][n]
  ELSE IF n \in Ifs THEN "true" ELSE "default"

\* The log row is SUCCESS, inactive children are skipped, ready ones launched.
Route(x, n) ==
  LET h    == ActiveHandle(x, n)
      next == NextNodes(x, n, h)
      st   == Skip(status[x], SkippedBefore(n, h, Len(EdgeSeq) + 1))
  IN  /\ pc[x][n] = "stored"
      /\ log' = [log EXCEPT ![x][n] = "SUCCESS"]
      /\ status' = [status EXCEPT ![x] = st]
      /\ inputs' = [inputs EXCEPT ![x] = Gathered(x, next, st)]
      /\ pc' = [pc EXCEPT ![x] = [Launched(x, next) EXCEPT ![n] = "waiting"]]
      /\ kids' = [kids EXCEPT ![x][n] = next]
      /\ UNCHANGED <<phase, prior, out, verdict, cyclic, tainted, files>>

\* Summarising the output for the event or the log row threw.
RouteFails(x, n) ==
  /\ pc[x][n] = "stored"
  /\ MayThrow(x)
  /\ status' = [status EXCEPT ![x][n] = "error"]
  /\ pc' = [pc EXCEPT ![x][n] = "caught"]
  /\ UNCHANGED <<phase, prior, inputs, kids, out, verdict, cyclic, tainted, log, files>>

KidsDone_AllSettled(x, n) ==
  /\ pc[x][n] \in {"waiting", "errwait"}
  /\ \A c \in kids[x][n] : pc[x][c] \in {"resolved", "rejected"}
  /\ pc' = [pc EXCEPT ![x][n] = "resolved"]
  /\ UNCHANGED <<phase, prior, status, inputs, kids, out, verdict, cyclic, tainted, log, files>>
KidsDone_WrongStage(x, n) ==
  /\ pc[x][n] \in {"waiting", "errwait"}
  /\ \A c \in kids[x][n] : pc[x][c] = "resolved"
  /\ pc' = [pc EXCEPT ![x][n] = "done"]
  /\ UNCHANGED <<phase, prior, status, inputs, kids, out, verdict, cyclic, tainted, log, files>>
\* Promise.all over the children, in the try block.
KidsDone(x, n) ==
  /\ pc[x][n] \in {"waiting", "errwait"}
  /\ \A c \in kids[x][n] : pc[x][c] = "resolved"
  /\ pc' = [pc EXCEPT ![x][n] = "resolved"]
  /\ UNCHANGED <<phase, prior, status, inputs, kids, out, verdict, cyclic, tainted, log, files>>

\* A child's rejection lands in the catch block of the parent awaiting it.
KidFails(x, n) ==
  /\ pc[x][n] = "waiting"
  /\ \E c \in kids[x][n] : pc[x][c] = "rejected"
  /\ status' = [status EXCEPT ![x][n] = "error"]
  /\ pc' = [pc EXCEPT ![x][n] = "caught"]
  /\ UNCHANGED <<phase, prior, inputs, kids, out, verdict, cyclic, tainted, log, files>>

ErrorKidFails_OnlyFromError(x, n) ==
  /\ pc[x][n] = "errwait" /\ status[x][n] = "error"
  /\ \E c \in kids[x][n] : pc[x][c] = "rejected"
  /\ pc' = [pc EXCEPT ![x][n] = "rejected"]
  /\ UNCHANGED <<phase, prior, status, inputs, kids, out, verdict, cyclic, tainted, log, files>>
\* A rejection while the catch block awaits its error children goes up.
ErrorKidFails(x, n) ==
  /\ pc[x][n] = "errwait"
  /\ \E c \in kids[x][n] : pc[x][c] = "rejected"
  /\ pc' = [pc EXCEPT ![x][n] = "rejected"]
  /\ UNCHANGED <<phase, prior, status, inputs, kids, out, verdict, cyclic, tainted, log, files>>

\* The catch block: the log row is ERROR; with an error edge the node counts
\* as done and its error children run, else the error is thrown again.
Handle(x, n) ==
  LET st   == [status[x] EXCEPT ![n] = "done"]
      next == {c \in ErrorChildren[n] : pc[x][c] = "idle" /\ Ready(st, c)}
  IN  /\ pc[x][n] = "caught"
      /\ log' = [log EXCEPT ![x][n] = "ERROR"]
      /\ IF HasErrorEdge(n)
         THEN /\ status' = [status EXCEPT ![x] = st]
              /\ out' = [out EXCEPT ![x][n] = "inline"]
              /\ cyclic' = [cyclic EXCEPT ![x] = @ \ {n}]
              /\ inputs' = [inputs EXCEPT ![x] = Gathered(x, next, st)]
              /\ pc' = [pc EXCEPT ![x] = [Launched(x, next) EXCEPT ![n] = "errwait"]]
              /\ kids' = [kids EXCEPT ![x][n] = next]
         ELSE /\ pc' = [pc EXCEPT ![x][n] = "rejected"]
              /\ UNCHANGED <<status, out, cyclic, inputs, kids>>
      /\ UNCHANGED <<phase, prior, verdict, tainted, files>>

\* executeWorkflow settled before the timeout: the row takes its final
\* status and the spill directory is removed.
Finish(x) ==
  /\ phase[x] = "RUNNING"
  /\ \/ /\ \A r \in Roots : pc[x][r] = "resolved"
        /\ \/ ~MustThrow(x) /\ phase' = [phase EXCEPT ![x] = "SUCCESS"]
           \/ MayThrow(x) /\ phase' = [phase EXCEPT ![x] = "FAILED"]
     \/ /\ \E r \in Roots : pc[x][r] = "rejected"
        /\ phase' = [phase EXCEPT ![x] = "FAILED"]
  /\ files' = [files EXCEPT ![x] = {}]
  /\ UNCHANGED <<prior, status, pc, inputs, kids, out, verdict, cyclic, tainted, log>>

\* The timeout wins the race; the nodes under way are not stopped.
Timeout(x) ==
  /\ phase[x] = "RUNNING"
  /\ phase' = [phase EXCEPT ![x] = "FAILED"]
  /\ files' = [files EXCEPT ![x] = {}]
  /\ UNCHANGED <<prior, status, pc, inputs, kids, out, verdict, cyclic, tainted, log>>

\* POST /executions/:id/retry, whatever the status of the execution.
Retry(x) ==
  /\ Retries
  /\ phase[x] # "absent"
  /\ \E y \in Execs : phase[y] = "absent"
  /\ Continue(x)
  /\ UNCHANGED <<status, pc, inputs, kids, out, verdict, cyclic, tainted, log, files>>

NodeStep(x, n) ==
  \/ Gather(x, n) \/ Begin(x, n)
  \/ ExecuteOk(x, n) \/ ExecuteFails(x, n) \/ WaitSignal(x, n)
  \/ Route(x, n)
  \/ RouteFails(x, n) \/ KidsDone(x, n) \/ KidFails(x, n)
  \/ ErrorKidFails(x, n) \/ Handle(x, n)

WorkerStep(x) == Start(x) \/ Finish(x) \/ \E n \in Nodes : NodeStep(x, n)

Next == \E x \in Execs : WorkerStep(x) \/ Timeout(x) \/ Retry(x)

Spec == Init /\ [][Next]_vars

\* Every await of the worker is answered (the stores reply, executors return
\* or throw) and the event loop runs what is ready: as long as the engine has
\* a step, it takes one.  Timeouts and retries are not owed.
FairSpec == Spec /\ WF_vars(\E x \in Execs : WorkerStep(x))
-----------------------------------------------------------------------------
Statuses == {"pending", "running", "done", "skipped", "error"}
Stages   == {"idle", "gather", "starting", "executing", "stored", "waiting",
             "caught", "errwait", "resolved", "rejected"}
Phases   == {"absent", "PENDING", "RUNNING", "SUCCESS", "FAILED"}
Terminal == {"SUCCESS", "FAILED"}

\* The type of every variable of the engine and of the rows it keeps.
TypeOK ==
  /\ phase \in [Execs -> Phases]
  /\ prior \in [Execs -> Execs \cup {0}]
  /\ status \in [Execs -> [Nodes -> Statuses]]
  /\ pc \in [Execs -> [Nodes -> Stages]]
  /\ inputs \in [Execs -> [Nodes -> SUBSET Nodes]]
  /\ kids \in [Execs -> [Nodes -> SUBSET Nodes]]
  /\ out \in [Execs -> [Nodes -> Forms]]
  /\ verdict \in [Execs -> [Nodes -> Choices]]
  /\ cyclic \in [Execs -> SUBSET Nodes]
  /\ tainted \in [Execs -> BOOLEAN]
  /\ log \in [Execs -> [Nodes -> {"none", "RUNNING", "SUCCESS", "ERROR"}]]
  /\ files \in [Execs -> SUBSET Nodes]

\* A node the checkpoint restored: it is in launched and never ran here.
Seeded(x, n) == pc[x][n] = "resolved" /\ log[x][n] = "none"
\* A node processNode took up in this execution.
Taken(x, n)  == pc[x][n] # "idle" /\ ~Seeded(x, n)
\* The nodes reached from n through edges, n included.
Below == [n \in Nodes |->
  {m \in Nodes : \A T \in SUBSET Nodes :
     n \in T /\ (\A k \in T : Children[k] \subseteq T) => m \in T}]

\* Whatever the order in which parents finish, processNode takes a node up
\* at most once in an execution (the launched set of dag.ts).
TakenOnce ==
  [][\A x \in Execs, n \in Nodes :
       pc'[x][n] = "gather" /\ pc[x][n] # "gather" => pc[x][n] = "idle"]_vars

\* Work that is done is never done again in the execution that counts on it: a
\* finished or restored node may turn into an error when a child fails, but is
\* neither gathered for, begun nor executed again, and a restored one gets no log
\* row of its own.
DoneNeverReruns ==
  [][\A x \in Execs, n \in Nodes : status[x][n] = "done" =>
       /\ status'[x][n] \in {"done", "error"}
       /\ pc'[x][n] \notin {"gather", "starting", "executing"}
       /\ Seeded(x, n) => Seeded(x, n)']_vars

\* A join: no node is taken up while one of its parents is neither taken up
\* nor skipped, so a merge never runs ahead of a branch that is still to come.
JoinWaits ==
  \A x \in Execs, n \in Nodes :
    Taken(x, n) => \A p \in Parents[n] : pc[x][p] # "idle" \/ status[x][p] = "skipped"

\* Only a root runs on the trigger data: every other node that is taken up
\* has gathered the output of at least one finished parent, on the success
\* path and on the error path.
InputsFromParents ==
  \A x \in Execs : \A n \in Nodes \ Roots : Taken(x, n) => inputs[x][n] # {}

\* An error is never lost: if an execution ends in SUCCESS although a node's
\* promise was rejected, some node above it caught the error, has an error edge
\* to route it to, and its own promise resolved.
FailureSurfaces ==
  \A x \in Execs, n \in Nodes :
    phase[x] = "SUCCESS" /\ pc[x][n] = "rejected" =>
      \E m \in Nodes : /\ n \in Below[m] /\ HasErrorEdge(m)
                      /\ log[x][m] = "ERROR" /\ pc[x][m] = "resolved"

\* With no error edge in the workflow, SUCCESS means that the run is over:
\* every node taken up has resolved and its row says SUCCESS.
SuccessIsComplete ==
  \A x \in Execs, n \in Nodes :
    phase[x] = "SUCCESS" /\ (\A m \in Nodes : ~HasErrorEdge(m)) /\ Taken(x, n) =>
      pc[x][n] = "resolved" /\ log[x][n] = "SUCCESS"

\* With neither error edges nor waits, the SUCCESS of an execution that continues
\* no other accounts for every node: it is done, or it was skipped with the branch
\* it hangs from; none is forgotten.
EveryNodeAccountedFor ==
  \A x \in Execs, n \in Nodes :
    phase[x] = "SUCCESS" /\ prior[x] = 0 /\ Waits = {} /\ (\A m \in Nodes : ~HasErrorEdge(m)) =>
      status[x][n] \in {"done", "skipped"}

\* SUCCESS, written when the promises of the roots resolve, means as much for all
\* other nodes.
SuccessIsWhole == SuccessIsComplete /\ EveryNodeAccountedFor

\* A node all of whose in-edges are error edges runs only after one of its
\* parents has failed and said so in its log row.
ErrorBranchNeedsError ==
  \A x \in Execs, n \in Nodes \ Roots :
    /\ Taken(x, n)
    /\ \A i \in Indices : EdgeSeq[i].dst = n => EdgeSeq[i].handle = "error"
    => \E p \in Parents[n] : log[x][p] = "ERROR"

\* An error takes its error edge or fails the execution, and nothing else leads
\* to an error branch.
ErrorsAreRouted == FailureSurfaces /\ ErrorBranchNeedsError

\* Nothing waits for ever: every node taken up settles, also the ones a
\* timeout left running and the ones below a failed sibling.
EveryNodeSettles ==
  \A x \in Execs, n \in Nodes :
    pc[x][n] # "idle" ~> pc[x][n] \in {"resolved", "rejected"}

\* Every execution whose job is queued reaches a final status.
EveryExecutionEnds ==
  \A x \in Execs : phase[x] = "PENDING" ~> phase[x] \in Terminal

\* No node and no execution is left hanging.
EverythingEnds == EveryNodeSettles /\ EveryExecutionEnds
-----------------------------------------------------------------------------
(* What the comments of the code say and the code does not do. *)

\* dag.ts: "Wait node signals a delayed continuation": once the execution it
\* enqueued has succeeded, the children of the wait node have run in it.
WaitContinues ==
  \A x, y \in Execs, n \in Waits :
    /\ phase[y] = "SUCCESS" /\ prior[y] = x /\ log[x][n] = "SUCCESS"
    => \A c \in Children[n] : log[x][c] # "none" \/ log[y][c] # "none"
=============================================================================
