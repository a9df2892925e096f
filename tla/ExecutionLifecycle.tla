-------------------------- MODULE ExecutionLifecycle --------------------------
(***************************************************************************)
(* The rows of the Execution table and the jobs of the BullMQ queue        *)
(* "workflow-execution": what the API routes (create, cancel, delete,      *)
(* retry), the job processor of packages/worker/src/index.ts and the stall *)
(* recovery of packages/worker/src/stall.ts do to them.                    *)
(*                                                                         *)
(* A run is one delivery of a job to a processor.  A job whose lock        *)
(* expires is delivered again while the old run may still be alive, so an  *)
(* execution may have several runs.  What a run computes is the subject of *)
(* DagEngine: here it returns or throws.                                   *)
(***************************************************************************)
EXTENDS Naturals, FiniteSets

CONSTANTS
  Workflows,  \* workflow ids
  Limit,      \* maxConcurrency of each, 0 for none
  ErrorOf,    \* errorWorkflowId of each, "none" for none
  Execs,      \* ids of execution rows
  Workers,    \* worker processes
  Crashable,  \* those that may crash or be restarted
  MaxCrashes, \* how often, in all
  Kept,       \* what the row of a trigger keeps of the trigger data: "given"
              \* (the execute route), "none" (webhooks, the scheduler)
  Ops         \* what else happens: "cancel", "delete", "note",
              \* "retry", "stall"

Attempts   == 3   \* attempts of enqueueWorkflow
MaxStalled == 1   \* maxStalledCount of the worker
\* The most a job can be delivered: two more for throws, one for a stall.
Runs == 1..(Attempts + MaxStalled)

ASSUME LifecycleAssumption ==
  /\ Workflows # {} /\ Workers # {}
  /\ Limit \in [Workflows -> Nat]
  /\ "none" \notin Workflows /\ ErrorOf \in [Workflows -> Workflows \cup {"none"}]
  /\ Execs \subseteq Nat \ {0} /\ IsFiniteSet(Execs)
  /\ Crashable \subseteq Workers /\ MaxCrashes \in Nat
  /\ Kept \subseteq {"given", "none"}
  /\ Ops \subseteq {"cancel", "delete", "note", "retry", "stall"}

VARIABLES
  row,      \* status column, "absent" before the row exists
  flow,     \* workflowId
  data,     \* triggerData in the data column: "given", "empty", or "none"
  trigger,  \* triggerData of the job
  outputs,  \* the rows whose data column holds the outputs of a run
  maker,    \* <<execution, run>> that created the row: run 0 for a retry
            \* request, <<0, 0>> for a trigger
  job,      \* state of the job in the queue
  lock,     \* the run that holds the job's lock, 0 for none
  tries,    \* attemptsMade
  stalls,   \* the job's stalled counter
  run,      \* where each delivery stands in the processor
  host,     \* the worker it is on
  watch,    \* where each worker stands in startStallRecovery
  stale,    \* what its startup scan still considers an orphan
  events,   \* stalled and failed events not yet handled: <<worker, exec, kind>>
  cancels,  \* cancel requests between their read and their write
  notes,    \* note requests between their read and their write, with the read
  cancelled, \* history: rows a cancel request has set to FAILED
  forced,   \* history: rows set to FAILED by other than their own runs
  crashes   \* history: number of crashes

rowVars   == <<row, flow, data, outputs, maker>>
jobVars   == <<trigger, job, lock, tries, stalls>>
runVars   == <<run, host>>
watchVars == <<watch, stale>>
hist      == <<cancelled, forced, crashes>>
vars == <<rowVars, jobVars, runVars, watchVars, events, cancels, notes, hist>>

Live == {"taken", "marked", "working", "returned", "succeeded", "catching",
         "failed", "erring", "closing"}
Alive(x) == {r \in Runs : run[x][r] \in Live}
-----------------------------------------------------------------------------
Init ==
  /\ row  = [x \in Execs |-> "absent"]
  /\ flow = [x \in Execs |-> CHOOSE f \in Workflows : TRUE]
  /\ data = [x \in Execs |-> "none"]
  /\ outputs = {}
  /\ trigger = [x \in Execs |-> "given"]
  /\ maker = [x \in Execs |-> <<0, 0>>]
  /\ job = [x \in Execs |-> "none"]
  /\ lock = [x \in Execs |-> 0]
  /\ tries = [x \in Execs |-> 0]
  /\ stalls = [x \in Execs |-> 0]
  /\ run = [x \in Execs |-> [r \in Runs |-> "free"]]
  /\ host = [x \in Execs |-> [r \in Runs |-> CHOOSE w \in Workers : TRUE]]
  /\ watch = [w \in Workers |-> "watching"]
  /\ stale = [w \in Workers |-> {}]
  /\ events = {} /\ cancels = {} /\ notes = {} /\ cancelled = {} /\ forced = {} /\ crashes = 0

\* prisma.execution.create: the next row, PENDING; ids are taken in order.
Create(y, f, d, m) ==
  /\ row[y] = "absent" /\ \A z \in Execs : row[z] = "absent" => y <= z
  /\ row' = [row EXCEPT ![y] = "PENDING"]
  /\ flow' = [flow EXCEPT ![y] = f]
  /\ data' = [data EXCEPT ![y] = d]
  /\ maker' = [maker EXCEPT ![y] = m]
  /\ UNCHANGED outputs

\* A user, a webhook or the scheduler triggers a workflow.
Submit(y) ==
  /\ \E f \in Workflows, d \in Kept : Create(y, f, d, <<0, 0>>)
  /\ UNCHANGED <<jobVars, runVars, watchVars, events, cancels, notes, hist>>

\* POST /executions/:id/retry, whatever the status of the original.
Retry(x, y) ==
  /\ "retry" \in Ops
  /\ row[x] \notin {"absent", "deleted"}
  /\ Create(y, flow[x], "none", <<x, 0>>)
  /\ trigger' = [trigger EXCEPT ![y] = IF data[x] = "none" THEN "empty" ELSE data[x]]
  /\ UNCHANGED <<job, lock, tries, stalls, runVars, watchVars, events, cancels, notes, hist>>

\* enqueueWorkflow, by the request that created the row.
Enqueue(y) ==
  /\ row[y] # "absent" /\ maker[y][2] = 0 /\ job[y] = "none"
  /\ job' = [job EXCEPT ![y] = "waiting"]
  /\ UNCHANGED <<rowVars, trigger, lock, tries, stalls, runVars, watchVars, events, cancels, notes, hist>>

\* POST /executions/:id/cancel reads the row, then writes it.
CancelCheck(x) ==
  /\ "cancel" \in Ops
  /\ row[x] \in {"RUNNING", "PENDING"} /\ x \notin cancels
  /\ cancels' = cancels \cup {x}
  /\ UNCHANGED <<rowVars, jobVars, runVars, watchVars, events, notes, hist>>
CancelWrite(x) ==
  /\ x \in cancels
  /\ cancels' = cancels \ {x}
  /\ IF row[x] = "deleted"
     THEN UNCHANGED <<row, data, outputs, cancelled, forced>>
     ELSE /\ row' = [row EXCEPT ![x] = "FAILED"]
          /\ data' = [data EXCEPT ![x] = "none"]
          /\ outputs' = outputs \ {x}
          /\ cancelled' = cancelled \cup {x}
          /\ forced' = forced \cup {x}
  /\ UNCHANGED <<flow, maker, jobVars, runVars, watchVars, events, notes, crashes>>

\* PATCH /executions/:id reads the data column, adds the note and writes the
\* whole column back.
NoteRead(x) ==
  /\ "note" \in Ops
  /\ row[x] \notin {"absent", "deleted"} /\ \A m \in notes : m.exec # x
  /\ notes' = notes \cup {[exec |-> x, data |-> data[x], outputs |-> x \in outputs]}
  /\ UNCHANGED <<rowVars, jobVars, runVars, watchVars, events, cancels, hist>>
NoteWrite(x) ==
  /\ \E m \in notes :
       /\ m.exec = x
       /\ notes' = notes \ {m}
       /\ IF row[x] = "deleted"
          THEN UNCHANGED <<data, outputs>>
          ELSE /\ data' = [data EXCEPT ![x] = m.data]
               /\ outputs' = IF m.outputs THEN outputs \cup {x} ELSE outputs \ {x}
  /\ UNCHANGED <<row, flow, maker, jobVars, runVars, watchVars, events, cancels, hist>>

\* DELETE /executions/:id and the bulk delete; the job stays.
Delete(x) ==
  /\ "delete" \in Ops
  /\ row[x] \notin {"absent", "deleted"}
  /\ row' = [row EXCEPT ![x] = "deleted"]
  /\ UNCHANGED <<flow, data, outputs, maker, jobVars, runVars, watchVars, events, cancels, notes, hist>>
-----------------------------------------------------------------------------
(* The job processor. *)

Stage(x, r, s) == run' = [run EXCEPT ![x][r] = s]

\* QueueEvents: only the workers whose listeners are attached hear of it.
Emit(x, kind) == events' = events \cup {<<w, x, kind>> : w \in {v \in Workers : watch[v] = "watching"}}

\* A worker takes a waiting job; it does so from its start, before the scan.
Take(x, r, w) ==
  /\ job[x] = "waiting" /\ watch[w] # "down"
  /\ run[x][r] = "free" /\ \A q \in Runs : run[x][q] = "free" => r <= q
  /\ job' = [job EXCEPT ![x] = "active"]
  /\ lock' = [lock EXCEPT ![x] = r]
  /\ Stage(x, r, "taken")
  /\ host' = [host EXCEPT ![x][r] = w]
  /\ UNCHANGED <<rowVars, trigger, tries, stalls, watchVars, events, cancels, notes, hist>>

Throw_OneMore(x, r) ==
  /\ Stage(x, r, "ended")
  /\ IF lock[x] = r
     THEN /\ lock' = [lock EXCEPT ![x] = 0]
          /\ tries' = [tries EXCEPT ![x] = @ + 1]
          /\ IF tries[x] < Attempts
             THEN job' = [job EXCEPT ![x] = "waiting"] /\ UNCHANGED events
             ELSE job' = [job EXCEPT ![x] = "failed"] /\ Emit(x, "failed")
     ELSE UNCHANGED <<lock, tries, job, events>>
  /\ UNCHANGED <<rowVars, trigger, stalls, host, watchVars, cancels, notes, hist>>
\* The processor rejects: another attempt, or the job has failed.  A run that
\* lost its lock cannot move the job.
Throw(x, r) ==
  /\ Stage(x, r, "ended")
  /\ IF lock[x] = r
     THEN /\ lock' = [lock EXCEPT ![x] = 0]
          /\ tries' = [tries EXCEPT ![x] = @ + 1]
          /\ IF tries[x] + 1 < Attempts
             THEN job' = [job EXCEPT ![x] = "waiting"] /\ UNCHANGED events
             ELSE job' = [job EXCEPT ![x] = "failed"] /\ Emit(x, "failed")
     ELSE UNCHANGED <<lock, tries, job, events>>
  /\ UNCHANGED <<rowVars, trigger, stalls, host, watchVars, cancels, notes, hist>>

\* The row is set to RUNNING whatever its status; a deleted one throws, and
\* that is outside the try block.
MarkRunning(x, r) ==
  /\ run[x][r] = "taken"
  /\ row[x] # "deleted"
  /\ row' = [row EXCEPT ![x] = "RUNNING"]
  /\ data' = [data EXCEPT ![x] = trigger[x]]
  /\ outputs' = outputs \ {x}
  /\ Stage(x, r, "marked")
  /\ UNCHANGED <<flow, maker, jobVars, host, watchVars, events, cancels, notes, hist>>
MarkFails(x, r) ==
  /\ run[x][r] = "taken"
  /\ row[x] = "deleted"
  /\ Throw(x, r)

\* The other executions of the workflow that count as running.
Running(x) == {y \in Execs \ {x} : flow[y] = flow[x] /\ row[y] = "RUNNING"}

Guard_OffByOne(x, r) ==
  /\ run[x][r] = "marked"
  /\ IF Limit[flow[x]] # 0 /\ Cardinality(Running(x)) > Limit[flow[x]]
     THEN Stage(x, r, "catching")
     ELSE Stage(x, r, "working")
  /\ UNCHANGED <<rowVars, jobVars, host, watchVars, events, cancels, notes, hist>>
Guard_Waits(x, r) ==
  /\ run[x][r] = "marked"
  /\ Limit[flow[x]] # 0 => Cardinality(Running(x)) < Limit[flow[x]]
  /\ Stage(x, r, "working")
  /\ UNCHANGED <<rowVars, jobVars, host, watchVars, events, cancels, notes, hist>>
\* The concurrency guard, after the row was marked.
Guard(x, r) ==
  /\ run[x][r] = "marked"
  /\ IF Limit[flow[x]] # 0 /\ Cardinality(Running(x)) >= Limit[flow[x]]
     THEN Stage(x, r, "catching")
     ELSE Stage(x, r, "working")
  /\ UNCHANGED <<rowVars, jobVars, host, watchVars, events, cancels, notes, hist>>

\* executeWorkflow returned, or it threw or the timeout won the race.
Work(x, r) ==
  /\ run[x][r] = "working"
  /\ \E s \in {"returned", "catching"} : Stage(x, r, s)
  /\ UNCHANGED <<rowVars, jobVars, host, watchVars, events, cancels, notes, hist>>

\* SUCCESS is written whatever the status; a deleted row makes it throw.
WriteSuccess(x, r) ==
  /\ run[x][r] = "returned"
  /\ IF row[x] = "deleted"
     THEN Stage(x, r, "catching") /\ UNCHANGED <<row, data, outputs>>
     ELSE /\ row' = [row EXCEPT ![x] = "SUCCESS"]
          /\ data' = [data EXCEPT ![x] = trigger[x]]
          /\ outputs' = outputs \cup {x}
          /\ Stage(x, r, "succeeded")
  /\ UNCHANGED <<flow, maker, jobVars, host, watchVars, events, cancels, notes, hist>>

WriteFailed_NotWritten(x, r) ==
  /\ run[x][r] = "catching"
  /\ row[x] # "deleted"
  /\ Stage(x, r, "failed")
  /\ UNCHANGED <<rowVars, jobVars, host, watchVars, events, cancels, notes, hist>>
\* The catch block sets FAILED; on a deleted row that throws again, now out of
\* the processor.
WriteFailed(x, r) ==
  /\ run[x][r] = "catching"
  /\ row[x] # "deleted"
  /\ row' = [row EXCEPT ![x] = "FAILED"]
  /\ data' = [data EXCEPT ![x] = trigger[x]]
  /\ outputs' = outputs \ {x}
  /\ Stage(x, r, "failed")
  /\ UNCHANGED <<flow, maker, jobVars, host, watchVars, events, cancels, notes, hist>>
CatchFails(x, r) ==
  /\ run[x][r] = "catching"
  /\ row[x] = "deleted"
  /\ Throw(x, r)

\* The error workflow: its row, then its job.
ErrorCreate(x, r, y) ==
  /\ run[x][r] = "failed"
  /\ ErrorOf[flow[x]] # "none"
  /\ Create(y, ErrorOf[flow[x]], "given", <<x, r>>)
  /\ Stage(x, r, "erring")
  /\ UNCHANGED <<jobVars, host, watchVars, events, cancels, notes, hist>>
ErrorEnqueue(x, r, y) ==
  /\ run[x][r] = "erring" /\ maker[y] = <<x, r>> /\ job[y] = "none"
  /\ job' = [job EXCEPT ![y] = "waiting"]
  /\ Stage(x, r, "closing")
  /\ UNCHANGED <<rowVars, trigger, lock, tries, stalls, host, watchVars, events, cancels, notes, hist>>

Complete_Rethrows(x, r) ==
  IF run[x][r] = "closing" THEN Throw(x, r)
  ELSE /\ run[x][r] = "succeeded" \/ (run[x][r] = "failed" /\ ErrorOf[flow[x]] = "none")
       /\ Stage(x, r, "ended")
       /\ IF lock[x] = r
          THEN /\ lock' = [lock EXCEPT ![x] = 0]
               /\ job' = [job EXCEPT ![x] = "completed"]
          ELSE UNCHANGED <<lock, job>>
       /\ UNCHANGED <<rowVars, trigger, tries, stalls, host, watchVars, events, cancels, notes, hist>>
\* The processor returns: the job is completed if the run still holds it.
Complete(x, r) ==
  /\ \/ run[x][r] \in {"succeeded", "closing"}
     \/ run[x][r] = "failed" /\ ErrorOf[flow[x]] = "none"
  /\ Stage(x, r, "ended")
  /\ IF lock[x] = r
     THEN /\ lock' = [lock EXCEPT ![x] = 0]
          /\ job' = [job EXCEPT ![x] = "completed"]
     ELSE UNCHANGED <<lock, job>>
  /\ UNCHANGED <<rowVars, trigger, tries, stalls, host, watchVars, events, cancels, notes, hist>>

ProcessorStep(x, r) ==
  \/ MarkRunning(x, r) \/ MarkFails(x, r) \/ Guard(x, r) \/ Work(x, r)
  \/ WriteSuccess(x, r) \/ WriteFailed(x, r) \/ CatchFails(x, r)
  \/ \E y \in Execs : ErrorCreate(x, r, y) \/ ErrorEnqueue(x, r, y)
  \/ Complete(x, r)
-----------------------------------------------------------------------------
(* Stalls, crashes and recovery. *)

\* The queue finds a job whose lock has expired: its run is dead, or its
\* worker was too busy to renew the lock and the run goes on without it.
LoseLock(x) ==
  /\ job[x] = "active"
  /\ run[x][lock[x]] = "dead" \/ "stall" \in Ops
  /\ \E w \in Workers : watch[w] # "down"
  /\ lock' = [lock EXCEPT ![x] = 0]
  /\ stalls' = [stalls EXCEPT ![x] = @ + 1]
  /\ IF stalls[x] < MaxStalled
     THEN job' = [job EXCEPT ![x] = "waiting"] /\ Emit(x, "stalled")
     ELSE job' = [job EXCEPT ![x] = "failed"] /\ Emit(x, "failed")
  /\ UNCHANGED <<rowVars, trigger, tries, runVars, watchVars, cancels, notes, hist>>

\* Rows of S are set to FAILED and lose their data column.
Fail(S) ==
  /\ row'  = [x \in Execs |-> IF x \in S THEN "FAILED" ELSE row[x]]
  /\ data' = [x \in Execs |-> IF x \in S THEN "none" ELSE data[x]]
  /\ outputs' = outputs \ S
  /\ forced' = forced \cup S

\* syncFailedExecution: a predicate on the status guards the write.
SyncFailedExecution(w, x, kind) ==
  /\ <<w, x, kind>> \in events
  /\ events' = events \ {<<w, x, kind>>}
  /\ Fail(IF row[x] \in {"RUNNING", "PENDING"} THEN {x} ELSE {})
  /\ UNCHANGED <<flow, maker, jobVars, runVars, watchVars, cancels, notes, cancelled, crashes>>

\* The process dies with its runs, its listeners and what they had not handled.
Crash(w) ==
  /\ w \in Crashable /\ watch[w] # "down" /\ crashes < MaxCrashes
  /\ crashes' = crashes + 1
  /\ watch' = [watch EXCEPT ![w] = "down"]
  /\ stale' = [stale EXCEPT ![w] = {}]
  /\ run' = [x \in Execs |-> [r \in Runs |->
               IF host[x][r] = w /\ run[x][r] \in Live THEN "dead" ELSE run[x][r]]]
  /\ events' = {e \in events : e[1] # w}
  /\ UNCHANGED <<rowVars, jobVars, host, cancels, notes, cancelled, forced>>

\* The process starts: the worker consumes at once, the scan has yet to run.
Boot(w) ==
  /\ watch[w] = "down"
  /\ watch' = [watch EXCEPT ![w] = "booting"]
  /\ UNCHANGED <<rowVars, jobVars, runVars, stale, events, cancels, notes, hist>>

\* recoverOrphans: the RUNNING rows older than the threshold, ...
ScanRows(w) ==
  /\ watch[w] = "booting"
  /\ \E S \in SUBSET {x \in Execs : row[x] = "RUNNING"} :
       /\ stale' = [stale EXCEPT ![w] = S]
       /\ watch' = [watch EXCEPT ![w] = IF S = {} THEN "watching" ELSE "scanned"]
  /\ UNCHANGED <<rowVars, jobVars, runVars, events, cancels, notes, hist>>
\* ... without those whose job is active by now, ...
ScanJobs(w) ==
  LET orphans == {x \in stale[w] : job[x] # "active"}
  IN  /\ watch[w] = "scanned"
      /\ stale' = [stale EXCEPT ![w] = orphans]
      /\ watch' = [watch EXCEPT ![w] = IF orphans = {} THEN "watching" ELSE "crossed"]
      /\ UNCHANGED <<rowVars, jobVars, runVars, events, cancels, notes, hist>>
\* ... are set to FAILED by id alone; then the listeners are attached.
RecoverOrphans(w) ==
  /\ watch[w] = "crossed"
  /\ Fail({x \in stale[w] : row[x] # "deleted"})
  /\ stale' = [stale EXCEPT ![w] = {}]
  /\ watch' = [watch EXCEPT ![w] = "watching"]
  /\ UNCHANGED <<flow, maker, jobVars, runVars, events, cancels, notes, cancelled, crashes>>

RecoveryStep(w) ==
  \/ Boot(w) \/ ScanRows(w) \/ ScanJobs(w) \/ RecoverOrphans(w)
  \/ \E x \in Execs, kind \in {"stalled", "failed"} : SyncFailedExecution(w, x, kind)

\* What the worker processes and the queue do of themselves.
Progress ==
  \/ \E x \in Execs, r \in Runs :
       ProcessorStep(x, r) \/ \E w \in Workers : Take(x, r, w)
  \/ \E w \in Workers : RecoveryStep(w)
  \/ \E x \in Execs : job[x] = "active" /\ run[x][lock[x]] = "dead" /\ LoseLock(x)

Request ==
  \E x \in Execs : \/ Submit(x) \/ Enqueue(x) \/ CancelCheck(x) \/ CancelWrite(x)
                   \/ NoteRead(x) \/ NoteWrite(x)
                   \/ Delete(x) \/ \E y \in Execs : Retry(x, y)

Next ==
  \/ Progress
  \/ Request
  \/ \E x \in Execs : LoseLock(x)
  \/ \E w \in Workers : Crash(w)

Spec == Init /\ [][Next]_vars

\* The processors run, their awaits are answered, the queue hands out waiting
\* jobs and finds expired locks: as long as one of these has a step, one is
\* taken.  Nothing is owed by users, crashes or late lock renewals.
FairSpec == Spec /\ WF_vars(Progress)
-----------------------------------------------------------------------------
Rows   == {"absent", "PENDING", "RUNNING", "SUCCESS", "FAILED", "deleted"}
Stages == Live \cup {"free", "ended", "dead"}
Kinds  == {"stalled", "failed"}

\* The types of the rows, the jobs, the runs and the recovery state.
TypeOK ==
  /\ row \in [Execs -> Rows]
  /\ flow \in [Execs -> Workflows]
  /\ data \in [Execs -> {"none", "given", "empty"}]
  /\ trigger \in [Execs -> {"given", "empty"}]
  /\ outputs \subseteq Execs
  /\ notes \subseteq [exec : Execs, data : {"none", "given", "empty"}, outputs : BOOLEAN]
  /\ maker \in [Execs -> (Execs \cup {0}) \X (Runs \cup {0})]
  /\ job \in [Execs -> {"none", "waiting", "active", "completed", "failed"}]
  /\ lock \in [Execs -> Runs \cup {0}]
  /\ tries \in [Execs -> 0..Attempts]
  /\ stalls \in [Execs -> 0..(MaxStalled + 1)]
  /\ run \in [Execs -> [Runs -> Stages]]
  /\ host \in [Execs -> [Runs -> Workers]]
  /\ watch \in [Workers -> {"down", "booting", "scanned", "crossed", "watching"}]
  /\ stale \in [Workers -> SUBSET Execs]
  /\ events \subseteq Workers \X Execs \X Kinds
  /\ cancels \subseteq Execs /\ cancelled \subseteq Execs /\ forced \subseteq Execs
  /\ crashes \in 0..MaxCrashes

\* An execution delivered once, whose row only its own run has settled.
Undisturbed(x) == x \notin forced /\ row[x] # "deleted" /\ \A r \in Runs \ {1} : run[x][r] = "free"
Working(f) == {x \in Execs : flow[x] = f /\ Undisturbed(x) /\ run[x][1] = "working"}

\* maxConcurrency: never more executions of a workflow at work than it allows,
\* although each processor marks, counts and starts on its own.  Executions
\* that were cancelled, deleted or delivered twice drop out of the count.
ConcurrencyLimit ==
  \A f \in Workflows : Limit[f] # 0 => Cardinality(Working(f)) <= Limit[f]

\* The job is over: no delivery is left, none is alive, no event is unhandled.
AtRest(x) ==
  /\ job[x] \in {"completed", "failed"}
  /\ Alive(x) = {}
  /\ \A e \in events : e[2] # x

\* Rows and queue agree in the end: when the job is over the row is settled,
\* whatever the order of late runs, redeliveries, cancels, deletes and events.
SettledAtRest == \A x \in Execs : AtRest(x) => row[x] \notin {"PENDING", "RUNNING"}

IsError(y) == maker[y][2] # 0

\* A workflow that failed by itself has run its error workflow: once its job
\* is over, the error execution exists and has been queued.
ErrorFollowsFailure ==
  \A x \in Execs :
    /\ AtRest(x) /\ row[x] = "FAILED" /\ x \notin forced
    /\ ErrorOf[flow[x]] # "none"
    => \E y \in Execs : IsError(y) /\ maker[y][1] = x /\ job[y] # "none"

\* One failure, one error execution: attempts made again after a throw do not
\* trigger the error workflow again.
ErrorOnce ==
  \A y, z \in Execs :
    IsError(y) /\ IsError(z) /\ maker[y][1] = maker[z][1] => y = z

\* One failure, one run of the error workflow: at least, and at most.
ErrorRunsOnce == ErrorFollowsFailure /\ ErrorOnce

\* A queued job ends: its row reaches a final status or is deleted.
EveryJobEnds ==
  \A x \in Execs : job[x] = "waiting" ~> row[x] \in {"SUCCESS", "FAILED", "deleted"} /\ AtRest(x)
-----------------------------------------------------------------------------
(* What the comments of the code say and the code does not do. *)

\* executions.ts: "Cancel a running/pending execution — marks it FAILED
\* immediately": a cancelled execution is and stays FAILED.
CancelSticks == \A x \in cancelled : row[x] \in {"FAILED", "deleted"}

=============================================================================
