# A verification project for hdv-orchestrator

TLA+ models of the parts of hdv-orchestrator whose correctness depends on the
order in which things happen, TLC configurations that check them on small
instances, and proofs that TLAPS checks for every instance. Paths are relative
to `src/`; a bare file name is the one of the component table below.

## 1. The system

The repository holds two generations of one product.

**The orchestrator** (`packages/`) runs user-drawn workflows. An Express API
(`packages/api`) stores workflows, executions, accounts and a wallet through
Prisma, and puts a job on a BullMQ queue for each execution. A worker
(`packages/worker`) takes the job, walks the workflow graph, writes a log row
per node, publishes events on Redis, and settles the execution row; it also
fires the schedules. A React frontend (`packages/frontend`) edits workflows and
watches their executions over Socket.IO.

**The foundation** (`hdv-foundation/`) is a set of services in one process,
behind an HTTP gateway of its own: a router (Apex) that lets a packet reach an
agent only past a gate (Knoll), an authority above both (Holloway), a write-behind
store over Postgres, companions and their creators, queues, leases on slices of
a node, billing, and sandboxes for tools (Vision).

### Components that are modelled

| Component | State | Operations | What is hard | What makes it correct |
|---|---|---|---|---|
| Workflow engine: `packages/worker/src/engine/dag.ts`, `lib/payload.ts` | `nodeStatus`, `launched`, `outputs`, log rows, spill files | start from a checkpoint, gather, execute, route, skip, catch, wait | children awaited inside a parent's try block; joins reached from several parents; the timeout does not stop the engine | a node runs once, after all its parents, on their outputs; errors surface; every node settles |
| Execution lifecycle: worker `index.ts`, `stall.ts`, `queue.ts`, API `executions.ts` | execution rows, BullMQ jobs, listeners | create, enqueue, cancel, delete, retry, note, mark, guard, settle, error workflow, stall events, startup scan | every writer writes without looking; jobs are delivered again; processes crash between two writes | rows and jobs agree at rest; the concurrency limit; one error workflow per failure |
| Workflow rows: API `workflows.ts`, `templates.ts` | workflows, versions, execution rows | create, save, restore, snapshot, clone, toggle, delete, execute, public webhook | read in one statement, write in a later one; the editor's stale copy | content stays its owner's; runs have a cause; nothing is left of a deleted workflow |
| Cron scheduler: worker `scheduler.ts` | `activeTasks` | refresh, fire | two refreshes overlap and apply old reads | tasks catch up with the rows |
| Editor: `pages/Editor.tsx` | canvas, history, copy of the row, polls, node colours | save, execute, cancel, undo, redo | answers that come late; undo renders and the render is pushed | what runs was saved; undo starts from what is seen |
| Live events: worker publishers, API `socket/index.ts`, `useExecutionSocket.ts` | two Redis channels, socket rooms, the page | publish, join, deliver, drop, poll | two channels in their own orders; joined too late; run after run on one page | the canvas settles on what happened; "Running…" ends |
| Accounts, keys, tokens of the API: `auth.ts`, `apikeys.ts`, `tokens.ts`, the three middlewares | users, keys, tokens, names the identity provider vouches for | register, provision, create, revoke, check | a credential revoked while a request is on its way | one account per email; a request acts for a live credential |
| Wallet, shop, membership, Stripe webhook | balance, transactions, memberships, stock, orders | deposit, checkout, subscribe, refund, events | read-then-write balances without transactions; duplicate and reordered events | money and goods are accounted for; acknowledged means applied |
| Durable store: `persistence/prisma_repos.ts`, `auth/service.ts` | projections, write queue, Postgres | append, upsert, delete, flush, hydrate | a crash loses the queue; an error drops a write | the queue is the whole difference; nothing comes back but by a loss |
| Companion and creators: `companion/`, `creator/` | memory records, creator rows, Stripe accounts and sessions | turn, portrait, scene, stream, speech; apply, verify, pay out, webhook | overlapping turns; three Stripe calls with one write at the end; late events | credit once per reply; money only to the verified |
| Queues: `kafka_stub.ts`, `kafka_real.ts`, `redis_router_stub.ts` | partition logs, cursors, in-flight maps, priority lists | publish, subscribe, close, ack, nack, replay | handlers re-enter the broker; kills between handler and commit | no gap, once unless excused, nothing in flight is out of reach |
| Node-slice leases: `nodes/lease.ts` | entries, tokens, clock; keys of Redis | claim, renew, release, holderOf | expiry races a late renew or release; two commands where one was needed | one holder at a time; fencing tokens rise |
| Apex and Knoll: `apex/`, `knoll/` | handlers, ledger, audit log, freeze, reputation | dispatch, nested dispatch, intercept, freeze, lift | the gate is asked again in mid-chain; results of nested dispatches are ignored | one row per dispatch; no handler without a verdict; still while frozen |
| Holloway: `holloway/` | acting Prime, formers, directives, override tokens, designated ledger | issue, countermand, succeed, override | tokens outlive the office they were minted in | every act is told; the veto is for life |
| Gateway and billing: `gateway/`, `billing/` | limiter windows, allowances, meter, checkout sessions | hit, sweep, setAllowance, consume, observe, settle | windows that restart; tiers and caps that change in between | at most twice the limit; spend under a cap; books agree |
| Vision: `vision/sandbox*.ts`, `resource_monitor.ts`, `engine.ts` | sessions, slots, account, containers | launch, run, stop, purge, execute | a timeout ends a session from inside its run; Docker fails late | slots and account follow the sessions |

### Components that are not

Listed in `PROJECT.json` with their sources and reasons: the polling schedule
runner, the dream scheduler, the waitlist market, tenancy look-ups, the memory
bus, hash chains, the second (identical) gateway, node scores, Vision's tools,
Hope, the workflow bridges, the plan check, the marketplace and GPU routes, the
API routes that only read or write a row of their own, node executors, the agent
core, adapters to providers and metrics, the other frontend pages, evaluation
and demos, and the Python services. Section 6 says more.

### How the parts interact

```
 Editor --save, execute--> API routes --row PENDING--> executions <--RUNNING, SUCCESS, FAILED-- processor
   ^  ^                       |  ^                                                                |    ^
   |  +----poll---------------+  +--webhook, cron task--                                          v    |
   |                          |                                                            executeWorkflow
   |                          +--job--> BullMQ --delivery (again after a lost lock)--------> (DagEngine) |
   |                                      ^ |                                                     |    |
   |                                      | +--stalled, failed events--> stall recovery           |    |
   |                                      +----continuation of a wait, retry, error workflow------+----+
   +--rooms of a socket-- bridge <--two Redis channels-- events of the worker

 request -> limiters, key check (Gateway) -> handlers (CompanionTurns, CreatorPayouts, checkout)
                                          -> Apex -> Knoll -> agent -> Apex -> Knoll -> agent ...   (DispatchGate)
                                                       ^  freeze, override (Sovereign)
 agents -> Vision (Sandboxes), queues (TaskBroker, KafkaQueue, PriorityRouter), leases
 all rows of the foundation -> projections -> write queue -> Postgres                               (DurableStore)
```

Where two parts meet without sharing state, the seam is one step in each model:
`Work` of `ExecutionLifecycle` stands for a whole run of `DagEngine`; `runs` of
`Workflows` ends where the row of `ExecutionLifecycle` begins; `LiveCanvas` has
the worker's writes as scripts of one node. Parts that do share state are one
module (`Commerce`, `DispatchGate`), or composed in an MC module: an override of
`Sovereign` sets the freeze of `DispatchGate` in one step of `MCGovernance`.

## 2. Modules

| Module | What it is |
|---|---|
| `DagEngine`, `MCDagEngine`, `DagEngineProofs` | the engine: one workflow, its executions and continuations; four small workflows; theorems |
| `ExecutionLifecycle`, `MCExecutionLifecycle`, `ExecutionLifecycleProofs` | rows, jobs, processors, recovery, user requests; workflow sets and limits; theorems |
| `NodeSliceLease`, `LeaseContract` | the in-memory lease, and what its interface promises |
| `RedisLease` | the lease over Redis, command by command |
| `NodeSliceLeaseProofs` | theorems about both leases, and the refinement |
| `Commerce`, `MCCommerce`, `CommerceProofs` | wallet, shop, membership and Stripe's events; theorems |
| `DurableStore`, `CompanionTurns`, `CreatorPayouts`, `TaskBroker`, `KafkaQueue`, `PriorityRouter` | the foundation's services that keep data |
| `MCFoundation` | these six and both leases, as one run |
| `DispatchGate`, `Sovereign`, `Gateway`, `Sandboxes`, `MCGovernance` | packets and their gate, the layer above, the front door with billing, Vision's sessions |
| `DispatchGateProofs`, `FoundationProofs` | theorems about the gate, the layer above and the front door; about sandboxes, payouts, companion turns, the three queues and the store |
| `Workflows`, `EditorHistory`, `LiveCanvas`, `Accounts`, `MCWorkspace` | what a user of the API and the editor works with |
| `WorkflowsProofs`, `WorkspaceProofs` | theorems about the workflow rows; about accounts, keys and tokens, the editor's history, and the live canvas |

**Focus.** The parts of `MCFoundation`, `MCGovernance` and `MCWorkspace` that
share no state are not interleaved with each other, which would multiply their
states and show nothing. A variable `focus`, chosen once, says which of them
moves; so the states of a run are the union of the states of its parts. What
does interact is in one focus: overrides act among packets, the editor, webhook
and scheduler act on the same workflow rows.

**Variants.** Operators named `X_Something` next to an `X` are deliberately
wrong variants of `X` (a dropped guard, an off-by-one, a swapped order, a lost
reset). No specification uses them. `PROJECT.json` pairs each with the property
that must then fail: they show that every property says something about the
code.

### DagEngine

One step is the code between two awaits of `processNode`. JavaScript runs it
without interruption, and everything else of the same process may happen before
the next. `pc[x][n]` says before which step node `n` of execution `x` stands:

| `pc` | in `processNode` | leaves by |
|---|---|---|
| `idle` | not in `launched` | a parent's `Route` or `Handle`, or `Start` for a root |
| `gather` | resolving `parentOuts` (130-156) | `Gather` |
| `starting` | creating the log row (155-160) | `Begin` |
| `executing` | the executor and `storePayload` (162-171) | `ExecuteOk`, `ExecuteFails`, `WaitSignal` |
| `stored` | node status set; updating the log row (173-177) | `Route`, `RouteFails` |
| `waiting` | `Promise.all` over the children, in the try block (207) | `KidsDone`, `KidFails` |
| `caught` | the catch block (236) | `Handle` |
| `errwait` | `Promise.all` over the error children (252) | `KidsDone`, `ErrorKidFails` |
| `resolved`, `rejected` | the promise has settled | none |

The data is reduced to what the control depends on. An output is kept as
`inline`, `big`, `spilled` or `stub`. A branch's output carries its `verdict`.
`cyclic` holds the outputs that contain themselves, which the engine brings
about when it hands a single parent's output object to a child and sets
`$nodeOutputs` on it (line 153). After that, every `JSON.stringify` that reaches
one of them throws (`MustThrow`); a value replaced since may still be reached
through an older snapshot, so `MayThrow` leaves the choice open.

Executions are numbered. Number 1 is triggered; each other one is a
continuation or a retry, and `prior` names the execution whose log rows seed it.

### ExecutionLifecycle

One step is one database statement, one queue command or one event handler. An
execution has a row, a job and up to four runs. A run is one delivery of the
job: with `attempts: 3` and `maxStalledCount: 1` BullMQ delivers a job once,
again after each of at most two throws, and again after at most one stall, so
`Runs == 1..4` loses nothing. BullMQ itself is external and appears as `Take`,
`LoseLock`, `Emit` and the fields `job`, `lock`, `tries`, `stalls`. All writers
of the row are modelled with the predicate they use, which for most is none:
`MarkRunning`, `WriteSuccess` and `WriteFailed` by id alone, `CancelWrite` by id
after a read (`CancelCheck`), `SyncFailedExecution` guarded by the status,
`RecoverOrphans` by ids read two awaits earlier.

### NodeSliceLease and LeaseContract

Each call of the in-memory lease runs without an await and is one step. The
five calls are written as the outcomes they have: `Acquire` (claim on a free or
expired key), `Refresh` (claim or renew by the live holder), `Denied`,
`NotHeld`, `Release`, `HolderOf`. `claims` is what each worker was last told, so
that a worker may act on it late, which is the reason leases have tokens.
`Tick` moves the injectable clock, also backwards if `ClockBack`.
`LeaseContract` knows neither clock nor TTL: a free key is granted under the
next token, and its owner or time takes it away. `NodeSliceLease` implements it
with the owner of a key being its live holder.

### RedisLease

The same interface over Redis, where a call is one to three commands. `RClaim`,
`RRenew` and `RRelease` send the first command; `ClaimGet`, `Pexpire` and `Del`
are those that follow, each a step of its own with what the process saw before.
The key expires on the server by `ClockTick`; a process may crash between two
commands. A command and its answer are two steps: `call` stays at `granted` or
`refused` while the answer is under way, and `ClaimFor` or `Refuse` comes with
`Answer`. So `granted`, what a process believes, has an expiry counted from the
answer, later than the server's by the time the answer took; the history `lag`
keeps that time, and a claim is `Assured` for its TTL less the lag. One clock
serves all, so what is shown of delays is not blurred by clocks that differ. A
process has one call at a time; the command of a process that died was either
run before its death or not at all.

### Commerce

A step is one SQL statement: no route opens a transaction, so the statements of
two requests interleave, and a request may die after any of them. `rq[r]` holds
the route, the statement that comes next and what was read; `Deliver` is Stripe
delivering an event, which it repeats until `acked`. An event without a customer,
user or subscription the handler can find is answered all the same (`PassOver`),
and a credit or debit that finds no wallet row changes nothing (`NoWallet`;
`wallets` is who has a row, chosen at the start). The histories `raced`,
`crossed`, `late` and `passed` record what a property has to except, so that it
says: this is the only way to lose it.

### The foundation's data

- `DurableStore`: every repository call is synchronous, changes a projection in
  memory and appends a statement to one queue; `RunWrite`, `WriteFails`, `Exit`
  (orderly, with a flush), `Crash` and `Boot` (hydrate) come between any two.
  The callers that decide on what they read are part of it: sign-up, login and
  logout, creator personas, the ledger's counted row ids.
- `CompanionTurns`: chat, stream, portrait, scene and speech, each split at the
  await of the provider; usage is credited to a persona's creator, who may change.
- `CreatorPayouts`: `requestVerification` as three calls of Stripe and one write
  from an old read, `requestPayout` with its live re-check, sessions and accounts
  on Stripe's side, and a webhook that may come late, often and in any order.
- `TaskBroker`: the in-process broker of `kafka_stub.ts`. Handlers run inside
  `deliverNew` and may call every operation again, so `stack` holds the calls
  under way, and a loop goes on with its own cursor when the inner call returns.
  Groups and partitions are taken in any order, and which subscription of a group
  gets a message is left open: their handlers are alike here.
- `KafkaQueue`: the adapter of `kafka_real.ts` over an external Kafka: sends that
  are pending, assignment and revocation, autocommit, acks and nacks, kills. The
  consumer of a subscription is `starting`, `running` or `off`: its ready promise
  starts it without a look at `state.closed` (`Ready`), and the disconnect that
  `close()` sends off arrives later, or before `run()` and then never
  (`Disconnect`). `eachMessage` has the three ways of the code: a closed
  subscription swallows the message, an undecodable one is passed over, any other
  goes to the handler; `AutoCommit` follows each. The queue's own `close()` awaits
  between groups (`CloseGroup`, `ForgetGroups`).
- `PriorityRouter`: the sorted list of `redis_router_stub.ts`. `came` keeps the
  order in which tasks arrived, so that equals can be said to keep it.

### Packets and their gate

`DispatchGate` has `frames`, the handlers under way with the innermost last. A
dispatch is one step up to the start of its handler: structure and hash
(`Tampered`), rate and laws (`Denied`), score (`Anomaly`, which freezes), freeze
gate (`Closed`), else `Delivered`. The handler then forwards (`sendViaApex`), or
settles, throws or fails, which writes the one row of its dispatch. `Sovereign`
has commands, countermands, succession and overrides with the records they
leave; an override that is live sets the freeze of the gate in the same step.

`Gateway` serves a request in one step, as the handlers do: limiters in their
order, key check, handler. `Sandboxes` has, for each session, its own account,
the monitor's, the manager's slot and the container, which may outlive the
session (`astray`).

### The user's workspace

- `Workflows`: a request is sent, finds its row, and writes in a later step; the
  editor tab holds copies of a row and chains its follow-ups (toggle, execute,
  snapshot) to the answer of its save; an execute under the internal key
  (`SendInternal`), which finds its row by id alone; the public webhook; the cron refresh,
  which reads the rows in one step and applies what it read in another.
- `EditorHistory`: the effect that pushes the canvas after every render, also
  after the render that undo or redo caused.
- `LiveCanvas`: the worker's steps for a run as a script of row writes and events
  on two Redis channels; the room a page joins only after it knows the id; its
  handlers, its poll, cancel, and a socket that drops.
- `Accounts`: a request passes the API-key check, the identity provider's
  (`supabaseAuth`, which may name a user between the other two) and the token
  check, each of which reads, before its handler reads and writes.

## 3. Runs

`CHECK_DEADLOCK FALSE` stands where everything may be over and nothing is left
to begin. Each bound is a constant of its module. Runs with a `focus` check each
part on the instance named here.

| Run | Question | Instance, and why it is enough |
|---|---|---|
| `dag_flow` | Do joins wait and receive their parents' outputs, is a node taken up once, does SUCCESS account for every node? | Six nodes: an IF whose branches meet in a join that a second root also feeds, and that root has another child. So the join has a live, a skipped and a late parent, in each order, with inline and spilled outputs |
| `dag_recover` | Error branches, waits, retries from a checkpoint, timeouts: do errors surface, does done stay done, does everything end? | A root with a child and a handler the two share as their error branch, and a wait below the handler, so that a rejection climbs through a parent whose row said SUCCESS into its catch block; two executions, so that each wait or retry may start the second at any moment of the first. Fair |
| `life_error` | Concurrency limit, and the error workflow after a failure | Two workflows, the first limited to one execution and naming the second as its error workflow; three rows; deletes and retries at any moment |
| `life_rest` | Do row and job agree at rest, whatever cancels, deletes, notes and late runs do? | One execution with all its deliveries. The rows of different executions meet only in the concurrency guard and the error workflow, which `life_error` covers |
| `life_live` | Do all jobs end, and rows with them, across crashes? | Two workers, one of which crashes up to twice, which is once more than the queue's stall limit; two executions of a workflow limited to one. Fair |
| `commerce` | What do money, stock, memberships and acknowledgements still guarantee? | One user; four requests or deliveries, two at a time; one of them dies. A lost update takes two; four let a subscription be paid, upgraded, cancelled and delivered again. The user has a wallet row or none. Prices, stock and balance are 1, so that the second taker is refused |
| `foundation` | The data services and the leases | Store: three calls, two ends of the process, one database error. Companion: three turns. Payouts: two requests at a time and no bound on their number, two sessions, two accounts. Broker: three messages, two subscriptions, handlers nested four deep. Kafka: one send beside foreign messages, a topic of two, two consumers, one kill, so that a closed consumer still runs beside the one in its place. Router: three tasks, two priorities, one nack. In-memory lease: two keys, two holders, four ticks, so that a lease expires, passes on and expires again while the first holder still acts. Redis lease: one key, two processes, TTLs of one and three with the clock going to three: one claim runs out while its answer is under way, the other outlives it |
| `governance` | Packets, sovereigns, front door, sandboxes | Packets: eleven kinds, four dispatches, which is a chain of three with a submission beside it, rate limit two. Sovereigns: three Primes, three acts. Gateway: one address, two tenants, four hits on limits of one and two, three ticks, one checkout. Sandboxes: a cap of one, two sessions, two runs |
| `workspace` | The user's rows, editor, canvas and credentials | Rows: two users, two workflows, one version, two requests at a time, four calls (create, create, snapshot, a foreign restore), the second user holding the internal key. Scheduler: one call less, two refreshes at a time. History: three entries instead of 50, four changes, so that the oldest is dropped. Canvas: two runs, one node that fails, branches or times out, one thing left of the first run when the second begins. Accounts: three user ids, one key, one token, one name the identity provider vouches for, three requests |
| `dag_wait_continues`, `life_cancel_undone`, `key_refused` | Violations of three texts, section 4 | The smallest instances that have the case |

### The properties

Each is stated at its definition, and the parts of a conjunction are named
definitions with comments of their own.

Engine and lifecycle:

- `TakenOnce`: no order of finishing parents makes a node run twice.
- `DoneNeverReruns`: for a node that is done, restored ones included, no step gathers, begins or executes, and its status goes nowhere but to error; what was restored from a checkpoint keeps its place. (A skipped node may be launched later by a join, and a catch block writes the row of a done node again: neither is denied.)
- `JoinWaits`, `InputsFromParents`: a merge never runs ahead of a branch still to come, and only roots see the trigger data. A join is launched by whichever parent comes last, on the skips of the others, so both depend on every writer of `nodeStatus`.
- `SuccessIsWhole`: SUCCESS is written when the roots' promises resolve; this says what that means for all other nodes. Every node taken up has finished; and with neither error edges nor waits, every node of an execution that continues no other is done or skipped.
- `ErrorsAreRouted`: an error is routed to an error edge above it or fails the execution, also when a child fails after the row of its parent said SUCCESS; and a handler runs only for an error that is on record.
- `EverythingEnds`, `EveryJobEnds`: liveness, below.
- `ConcurrencyLimit`: marking comes before counting, so two executions that start together are rather both refused than both admitted.
- `ErrorRunsOnce`: a failed execution has run its error workflow once its job is over, and once only, although the processor may be attempted three times.
- `SettledAtRest`: a job that is over leaves no row PENDING or RUNNING.

Commerce:

- `MoneyAddsUp`: at rest the balance is the sum of the transactions, unless a deposit or subscription wrote a balance computed from an outdated one, or a refund was cut off at zero, or a request died; and it is negative only after such a race.
- `GoodsAreAccounted`: nothing is handed out that was not paid and taken from the stock, wherever a request dies; and with nothing under way and nobody dead, all that was paid was handed out.
- `MembershipsHold`: one active membership, short of two activations at once; cancelled stays cancelled, short of events that crossed, and until Stripe sends a later event about the subscription.
- `AckMeansApplied`: what Stripe was told is done is in the log, unless the event had no customer, user or subscription to be found or its user no wallet row: there is no third way to lose a payment.

Foundation:

- `StoreSurvives`: the queue is the whole difference between memory and Postgres; sessions have users; a logged-out token returns only by a lost delete; no address or persona is held twice, across restarts.
- `TurnsAreCredited`: overlapping turns lose counts and invent none; a creator is credited exactly once per provider reply.
- `PayoutsAreEarned`: money moves only on a session Stripe calls verified, the display says verified only if one was, and a second account has a reason.
- `DeliveryHolds`: a group sees a partition from the start, without gaps, once unless a message was nacked, replayed or overtaken by a handler's own call, and nothing published is left waiting.
- `CommitsHold`: from where a group began, its offset passes only messages a handler was given, undecodable ones, and those the consumer of a closed subscription took while it still ran; what is in flight can be acked.
- `TasksKeepTheirPlace`: no task is lost, doubled, or overtaken by one less urgent or by a later equal.
- `NoDoubleClaim`, `StaleIsFenced`, `ImplementsContract`: the in-memory lease is exclusive, a holder that lost it is told by its token, and it implements `LeaseContract`.
- `LeaseIsHeld`: over Redis a claim is backed by the server's key for its TTL less the time its answer took, unless a DEL or PEXPIRE came after the key had changed hands. So a holder goes by a claim it has lost for no longer than that delay, or after one of those two commands.

Governance:

- `GateHolds`: one row per dispatch, the ledger and the audit log tell one story, only Apex commands, a freeze has the packet that began it as its cause, and an anomaly never runs or pays.
- `StillWhileFrozen`: no handler starts without a token while frozen, in mid-chain too.
- `NeverUndone`: the cause of a freeze that goes on, a countermand and a stopped session stay as they are.
- `CommandIsTold`: the ledger says every act, in order and once; an override was its Prime's at the time.
- `LimitsHold`: a window lets at most twice its limit pass around its end and a sweep adds nothing; no tenant outspends the largest cap it had; meter and account agree; a tier was given or paid in time.
- `SessionsAreAccounted`: slots, monitor and containers follow the sessions however they end.

Workspace:

- `RowsHoldTheirOwn`: a restore brings nothing of somebody else's over; nothing outlives its workflow.
- `RunsAreMeant`: a run was asked for by its owner, by the holder of the internal key, or by a schedule or hook the workflow had while active; the editor runs what it stored.
- `TasksFollow`: liveness, below.
- `UndoStartsHere`: the next undo starts from what is seen.
- `CanvasIsTrue`: the node ends in the colour of how it fared; Execute comes back only for a run that is over; what is shown as running is polled.
- `CallsAreLive`, `TenantMovesOnlyInARace`: a request acts for the owner of a credential that was live when it was sent; an email has one account; a tenant is replaced only by overlapping calls.

### Fairness

The fair specifications of engine and lifecycle assume weak fairness of one
action: the union of all steps that the worker processes (and, in the lifecycle,
the queue) take by themselves. It says that as long as the program has something
to run, something runs. An event loop with answered promises does that, and
Node.js picks no favourites among ready callbacks beyond this. Users, timeouts,
crashes, retries and late lock renewals are never owed. A stronger per-step
fairness is not assumed, and is not needed: no step of the engine or the
processor is repeated for ever, so a union that keeps moving reaches all of
them. In `workspace` only the refresh of the schedules is fair, which an
interval runs every minute.

## 4. Findings

Three texts of the repository disagree with what the code does; each is a
violation run with the text quoted in `PROJECT.json`.

| Run | Says | Does |
|---|---|---|
| `dag_wait_continues` | a wait node signals a delayed continuation | the continuation has the roots in `launched`, so nothing below the wait is reached and it ends in SUCCESS |
| `life_cancel_undone` | cancel marks the execution FAILED | the processor writes RUNNING or SUCCESS over it |
| `key_refused` | API keys authenticate calls by their header | `verifyToken` answers 401 without a bearer token, so a key alone opens no protected route |

Seen while modelling, and excepted by name in the properties or left to a note:

*Orchestrator.*
- The child of a single parent gets that parent's output object and sets `$nodeOutputs` on it, so the object contains itself and the next serialisation throws (`dag.ts:153`).
- A retry restores the stub the log row kept of a spilled output (`dag.ts:88`); an output spilled after a timeout leaves a file behind the removed directory (`index.ts:103`); a spilled IF or switch output has no `_branch` and routes by the default (`dag.ts:182`).
- An error handler shared by two nodes runs only once both are done or skipped (`dag.ts:251`). What hangs below a failed branch stays pending (`dag.ts:201`); a skip cascades through a join whose other branch has yet to deliver (`dag.ts:113`).
- Cancel and the startup scan may write FAILED over a SUCCESS they have not seen (`executions.ts:134`, `stall.ts:122`). A note writes back the column it read before, over the outputs (`executions.ts:117`). The second stall of a job may come before the listeners, and its row stays RUNNING (`stall.ts:36`). A retry after a cancel has no trigger data (`executions.ts:150`).
- Two executions started together at a limit of one may both be refused (`index.ts:56`). An error workflow that names itself creates executions without end (`index.ts:117`); the sub-workflow depth starts again at a retry or continuation (`subWorkflow.ts:16`); a row whose job could not be queued stays PENDING (`workflows.ts:264`).
- `SettledAtRest` fails if late runs without a lock and crashes are combined: the late run writes RUNNING after the recovery and then dies. So `life_rest` has late runs and no crashes.
- A subscription's upgrade event finds its row and keeps the old tier (`stripeWebhook.ts:57`). A top-up is acknowledged with nothing applied if its customer is missing or unknown (`stripeWebhook.ts:94`) or the user has no wallet row (`stripeWebhook.ts:33`). Two checkouts that read the same stock may take it below zero.
- The internal key runs anybody's workflow, without a test of the owner (`workflows.ts:252`). `verifyToken` in front of the routes (`index.ts:96` of the API) refuses it unless it is a token or JWT itself, so with the default value the worker's call (`vision.ts:93`) is answered 401; `Workflows` models a deployment whose key passes.
- Saving in the editor activates a workflow that was deactivated elsewhere (`Editor.tsx:414`). Redo never has anything to redo, because undo's own render is pushed, and undo past the load empties the canvas (`Editor.tsx:212`).
- A poll of an old run, answered after a cancel, ends the next run's "Running…"; a failed POST leaves it (`Editor.tsx`). The telemetry handler does not test the execution id, and the tenant room brings every workflow's events, twice (`socket/index.ts:91`).
- Two provisions at once give a user two tenants, where `auth.ts:88` says "Idempotently". `req.user` is never set, so the plan check and the writing GPU routes always answer 401. The polling schedule runner sends one value as API key and as token, which no value can be.
- The list of executions is ordered by `startedAt` and paged by id (`executions.ts:28`).

*Foundation.*
- Row ids of the ledger are counted per process and collide with those of an earlier one (`ledger.ts:59`).
- A replay delivers acknowledged messages again (`kafka_stub.ts:75` says not yet committed ones).
- A Kafka subscription closed before it was ready leaves a consumer running that takes the topic and passes over its messages, also those of the group's next subscription (`kafka_real.ts:270`, `:303`).
- A creator who applies again loses the verified display that `repositories.ts:110` says only Stripe changes.
- A packet in quarantine may be dispatched again (`freeze.ts:121` says it can never re-enter routing). A submission with a token to Apex is forwarded without it, so while frozen it is refused inside a row of SUCCESS.
- A refused hit of the tenant limiter has used up the address's bucket, which the header of `middleware.ts` says it separates. A session paid in time and settled late reads expired. The estimate uses the tier's allowance and not the override (`pricing.ts:173`).
- `execute` leaves a session open when the launch throws (`engine.ts`).
- `RedisLeaseStub` says two workers can never run the same node: a late DEL or PEXPIRE breaks it (`lease.ts:251`, `lease.ts:231`); its tokens are per process, and a holder's expiry is later than the server's by as long as the answer took (`lease.ts:255`).

## 5. Proofs

TLAPS checks every theorem for all values of the constants, under one named
assumption per module: `WorkflowAssumption`, `LifecycleAssumption`,
`LeaseAssumption`, `RedisAssumption`, `CommerceAssumption`, `WorkflowsAssumption`,
`AccountsAssumption`, `GateAssumption`, `SovereignAssumption`, `GatewayAssumption`, `SandboxAssumption`, `PayAssumption`,
`CompanionAssumption`, `KafkaAssumption`, `BrokerAssumption`, `StoreAssumption`,
`HistoryAssumption`, `CanvasAssumption`. TLC evaluates each in
the runs. They say that bounds are numbers, that ids of different kinds differ and
that "no row" is no row, that an edge joins nodes and a limit is a number, what
outcomes and earlier statuses are, that the first Acting Prime is one of the Primes,
that a limiter has a limit and one request causes at most three dispatches,
and of Stripe that a subscription has one customer.

Each theorem rests on an inductive invariant stronger than the property, and
each proof has the same shape: the initial states satisfy it; for every action a
lemma shows that its step keeps it; a last lemma draws the property from it. A
proof module begins with what a step of each kind leaves alone, so that the
lemmas of the actions deal only with what changes.

### DagEngineProofs

| Theorem | States |
|---|---|
| `TypeCorrect`, `JoinsWait`, `InputsComeFromParents` | `TypeOK`, `JoinWaits`, `InputsFromParents` |
| `TakenUpOnce`, `DoneStaysDone` | the action properties `TakenOnce`, `DoneNeverReruns` |
| `ErrorsTakeTheirEdge`, `SuccessSpeaksForAll` | `ErrorsAreRouted`, `SuccessIsWhole` |

`TypeOK` is inductive. `JoinWaits` is not: nothing in it says why a node that has
been taken up was ready. `JoinInv` adds `StageInv`, which ties the stage of a node
to its status: a node in mid-flight has a log row or is about to have one, a
`done` or `skipped` parent keeps counting as ready when it turns into an error
because it is then no longer idle. The step that matters is launching: `Ready`
is evaluated over the skips made so far, and skips only move pending nodes, so
readiness survives until the child is taken up. Lemmas about `Cascade` and
`Skip` carry that part.

`FlowInv` ties the stage to the log row and to what the node waits for: a node
awaits only children it launched, a resolved one's children are resolved, an
error that is not rejected has an error edge. From it follow the first half of
`ErrorsAreRouted` and both action properties.

What remains says that nothing happens without a cause and nothing is forgotten.
`ReachInv` says that the nodes taken up are inside every set that contains the
roots and is closed under launching (`Covers`): so an error branch, which only an
error leads to, needs one, and in a SUCCESS everything taken up is below resolved
roots. It quantifies over sets because a node's path from a root would be an
induction over data. For the nodes never taken up, `SkipsSpread` says that below
a skipped node nothing is pending, and `PromptInv` that a node whose parents are
all done is taken up or about to be (`Overdue` is never lasting). A node left
pending therefore has a pending parent, and that one another; in a workflow
without a cycle this ends. So `SuccessSpeaksForAll` has the hypothesis `Acyclic`,
and needs it: the engine starts from nodes without parents, and a cycle no root
leads to is never run at all.

### ExecutionLifecycleProofs

`TypeCorrect`, `LimitHolds` (`ConcurrencyLimit`), `SettlesAtRest`
(`SettledAtRest`) and `ErrorsRunOnce` (`ErrorRunsOnce`). The second needs two
invariants. `JobInv` ties a job's counters to the runs already used, which bounds
`tries` and `stalls`. `CountedInv` says that an undisturbed execution past its
mark is RUNNING, hence counted by everyone else's guard. When an execution passes
the guard, the others at work are a subset of those it counted, whose number was
below the limit; adding one keeps the cardinality within it. All other steps
only shrink the set of undisturbed executions at work.

`SettlesAtRest` assumes `NoCrash`: with crashes the second stall of a job may come
before any listener is attached, and its row stays RUNNING. Runs that go on
without their lock are allowed. `RestInv` counts on the runs, not on the job: a
RUNNING row has a run that marked it and has yet to write its end, whichever of
them wrote last, and a PENDING row whose job has failed has an event on its way.

`ErrorsRunOnce` assumes `NoCrash` and `NoLateRuns`, and needs both: a run that died
after creating the error execution is attempted again and creates a second one,
and so does a second run beside the first. Under them a job has one run under way,
which holds its lock (`AloneInv`). `Made` then ties an error execution to the run
that created it: until that run has queued it, it does not end, and once it has
ended its job is completed, so no later attempt comes by. `Followed` is the other
half: a failure has its error execution or a run about to create it.

### NodeSliceLeaseProofs

`TypeCorrect`, `Fenced`, `Exclusive`, `Implements` for the in-memory lease.
`Fenced` holds for any clock: the live entry carries the last token of its key
and everyone else's remembered token is lower (`FenceInv`). `Exclusive` needs a
clock that only goes forward: a claim a worker still believes in is backed by
the live entry, with the same expiry (`HoldInv`). `Implements` maps the owner of
a key to its live holder: `Acquire` is `Grant`, `Release` is `GiveUp`, `Tick` is
`Lapse` of the keys that expire, the rest stutters. It assumes `~ClockBack`,
because a clock set back revives an expired entry, which no contract of this
kind allows. The run `foundation` has `ClockBack = FALSE` for that reason; the
theorem `Fenced` covers both.

`RedisHolds` (`LeaseIsHeld`) and `RedisExcludes` for the lease over Redis. The
property speaks of claims that are assured at this moment; to survive the clock
it has to say until when: `OnServer`, that the server's key of a claim is the
claimant's and lasts until the claim's expiry less its lag, and that a grant whose
answer is under way has its key until its TTL after the command; both unless the
key is among `slipped`. A PEXPIRE or DEL between whose GET and arrival the key
changed hands is what puts a key there. `RedisExcludes` draws the exclusion from
it: of two processes that go by a claim of one key, without such a command, one
is in the last `lag` of its own.

### CommerceProofs

`MoneyIsSafe`, `GoodsAreSafe`, `MembershipsAreSafe`, `AcksAreSafe`, for any
catalogue, prices, users, events and requests. All follow from `CommerceIsSound`,
which proves one invariant.

The properties compare tables at rest, and at rest nothing is in flight. In
between, each equation is off by what the requests under way still have to write.
So the invariant counts it: `WalletInv` is the equation of balance and
transactions with `Owes`, what has been moved and not logged; `PaidInv` those of
orders and memberships with `AllOrdering` and `AllJoining`, what has been paid and
not handed out; `StockInv` the one of stock and items with `InHand`. When a request
dies its share is never written: the inequalities stay, and the equations are
claimed only for histories without a death. `SeenInv` says that what a request saw when it tested covered
what it is about to take, which leaves a debit meanwhile as the only way below
zero. `FreshInv` gives a subscription a row nobody else inserts; `OneInv` says that
while one request activates for a user there is no active row; `LateInv` that
after a cancellation which nothing crossed only that event is being served.
`AcksAreSafe` is an induction by itself: an event is answered in the step that adds
its amount to the log, or joins `passed`.

These are sums over sets, and the library has no theorems about the fold of the
community modules. The module begins with them: the fold is the function that
satisfies its recursion, proved by looking for a smallest subset on which it does
not; a sum changes by what one member changes, gains a new member's term, and is
monotonic. Two lemmas keep the proof short: `Writes` says which statements write
which table, `Follows` which step precedes which, so most pairs of a statement and
a conjunct of the invariant are settled once for all statements.

### WorkflowsProofs and WorkspaceProofs

`RowsAreTheirOwners` and `RunsAreAsked`. A row is written by requests that read it
earlier. `WorkflowInv` says what a request carries at each stage (`Bears`): content
its sender may send, and, once it found a row, that the row is its sender's for as
long as it exists, which holds because an id is not given out twice. The requests
under the internal key are the exception: they carry neither content nor an owner,
only that their sender holds the key, and can do nothing but run. `past` keeps
what each workflow ever was; tasks, and listings a refresh has read but not yet
applied, come from it (`TaskInv`).

`CallsActForTheirOwner` and `TenantsMoveInARace`. A request is checked in one
step and served in a later one, and its credential may be revoked in between:
`Carried` says that the credential vouches for the user and was not among those
gone when the request was sent, and `RaceInv` that two provisioning calls between
read and write know of each other, and that a call that found no tenant and will
overwrite one has a rival.

`UndoIsOfWhatIsSeen` (`UndoStartsHere`). An effect sees a new canvas because its
arrays are not the ones it saw last, so the invariant says that those are the
ones on show and that every array in the history has an id already given out. The
lemma `Pushed` says what `pushHistory` returns: it ends with the canvas pushed,
keeps to the limit whatever falls off the front, and makes nothing up.

`CanvasTellsTheTruth` (`CanvasIsTrue`). `CanvasInv` has a part that always holds
and one for a page nothing disturbed. Always, the steps left of a run agree with
its row and its node, and a last `failed` event is on its way only of a run that
is over (`Left`); the page's requests follow each other (`InTurn`), so it is at one
run at a time (`Current`). Undisturbed, every other run is over with nothing on its
way (`Quiet`), and each channel either ends with how the node fared (`EndsWith`) or
says no more while the page shows it already (`Undisturbed`); what the page merges
out of the two is then the node's colour, in whichever order it reads them.

### DispatchGateProofs

`GateIsKept` (`GateHolds`), `FrozenIsStill`, and `CauseIsKept` (a part of
`NeverUndone`), for any packets and weights. `GateInv` says that a packet
dispatched has its row or its handler on the stack, never both, and that the two
logs agree packet by packet (`LedgerInv`, `AuditInv`); that ids on the stack differ,
and who can stand on whom (`StackInv`), which bounds the depth of a chain and
shows that only Apex commands. The theorems hold for a gate whose freeze an
override may set at any moment (`GateMoves`), as in `MCGovernance`.

`CommandIsAlwaysTold` (`CommandIsTold`) and `CountermandsStand` (a part of
`NeverUndone`), for any Primes and any number of acts. `CommandIsTold` is not
inductive for two reasons, and `SovereignInv` adds what is missing: the acts alone
say who is in command (`ActingIsLast`), so that a live token's bearer is the last
who succeeded; and every record an act told stands inside the ledger
(`TellingsInside`), so that what is appended moves none of them. How far the
ledger had come before an act is the cardinality of a set (`Tellings`): an act
appended adds its own records to that set and nothing else (`LedgerGrows`), because
a countermand changes nothing that the record of its directive says
(`DirectivesKept`). With `CauseIsKept` and `StoppedStays` every part of
`NeverUndone` is proved, each of its own component.

`LimitsAreKept` (`LimitsHold`), for any limits, windows, plans and requests. Each
request a limiter let pass belongs to the window its bucket had then, so a theorem
about times needs a window per request: `Windowed` says that one exists for each,
with the request inside it, and that a window is over when the one `limit` places
later begins; two such steps are the window between a request and the one
`2 * limit` after it. An open bucket knows how many of the last requests are its
own (`OpenUntil`), refused ones being counted with them, and a key without one has
all its windows behind it (`OverBy`), which is why a sweep, which takes only
buckets that are over, changes nothing. The sums of the meter are kept dispatch by
dispatch (`Balanced`), at most three of them in a request (`MaxChain`): Apex, an
engine, its report to Hope. That a spend stays under the largest cap needs that cap
to cover the one in force (`Covers`), also after a change of tier or of the cap.

### FoundationProofs

`SessionsStayAccounted` and `StoppedStays`: what `SandboxInv` says of one session
alone (`Sound`) every step keeps, and the cap is a count of slots.
`MoneyFollowsStripe`: the cached statuses, the mail and the requests on their way
say "verified" only if a session is (`VerifiedIsTrue`), and without an excuse only
one request is between reading the profile and writing it (`OneAtATime`).
`TurnsStayCredited`: what a turn read is not above what is remembered, and of turns
that do not overlap it is the memory itself (`Reads`); usage rows and turns that
owe one correspond (`Credits`).

`TasksStayInPlace` (`TasksKeepTheirPlace`): the places of a task exclude each other
(`Apart`), which is what keeps the count. The tasks not less urgent than a new one
are the first so many of a sorted list (`Downward`), so it is put in between them
and the rest, and the list stays sorted. Every task that waits came before the next
push will (`Arrived`), so the new one stands behind its equals (`PushedInTurn`).

`CommitsFollowHandlers` (`CommitsHold`): a consumer stands at its group's committed
offset, and the message it is busy with is accounted for: handed over, undecodable, or
swallowed because its subscription was closed (`Placed`); of a group one consumer at a
time reads (`Alone`); and in a group that never had a second subscription or a close
the consumer is the one the map of in-flight messages knows.

`DeliveryIsWhole` (`DeliveryHolds`): every reader of a partition, the group's cursor
and each loop of `deliverNew` on the stack alike, has seen all before it, and what it
will see twice has a reason (`From`). The cursor alone does not do: a handler's call
moves it past a loop that waits below. So of a loop with another one above it, what
it has before it is excused, and a loop stands at the cursor unless the one above it
brings the group to the end (`Above`); a cursor that is behind has a call under way
that will catch it up (`Behind`), which at rest is nobody.

`StoreKeepsItsWord` (`StoreSurvives`): what a table holds after the queue is said
without a fold: a row is there if it is in the table or written, and no later write is
about its key. `ReplayedAppend` and `ReplayedTail` show that this is what a fold would
compute, at either end of the queue, which is where writes enter and leave it. The
invariant adds that ids of appended rows are new (`Dated`), that a user is in memory
before it is in Postgres and so never refused there (`UsersWait`), that a session's
user is before it in the queue (`Homes`), and that a logout's delete stands after
whatever would bring the session back (`LogOuts`).

### Only model-checked

- *Liveness*, out of the prover's reach: `EverythingEnds`, `EveryJobEnds`,
  `TasksFollow`.
- `SettledAtRest` and `ErrorRunsOnce` where workers crash: `SettledAtRest` fails
  there as said above, `EveryJobEnds` is what is left of it under fairness.

No model declares a RECURSIVE operator.

## 6. Not modelled

Inside modelled components:

- What node executors, tools and providers compute: each is a few outcomes.
- Time in the lifecycle: a timeout may strike at any moment of a running
  execution, the age test of the startup scan may include or leave out any
  RUNNING row. Database failures there, other than a missing row.
- Apex's intake through a queue consumer and its cost estimates; the tenant law
  and the learned scorer of Knoll, which nothing switches on. An override's
  registry and ledger are options (`holloway_bridge.ts:102`); the model has both:
  without a ledger nothing is told, without a registry a token outlives its office.
- A handler that throws out of `deliverNew` (`kafka_stub.ts:276`): the group's cursor
  is then past a message whose loop stopped, and the rest waits for the next call.
  `DeliveryHolds` is about handlers that return.
- In the engine, `Gather` reads the parents' outputs one step after `processNode`
  captured them, and an output that contains itself always throws, where one that
  is an array or an older snapshot would not (`dag.ts:130`, `:153`): the model has the
  outcome that fails where the code has both.
- `Math.floor` of a lease's TTL (`lease.ts:91`): TTLs are naturals.
- Usage of a companion is a set of turns: that one turn's own code credits it twice
  would not show. Costs in the gateway are fixed small numbers.
- A second click on Execute during the editor's save; layout, dialogs, panels.
- Amounts as decimals: money is in small naturals.

Whole components, with the reason:

- Arithmetic on floats by one caller: dream scheduler and energy, node lifecycle,
  pipeline and matrix.
- One in-memory map behind synchronous handlers, which unit tests cover: waitlist
  market, marketplace registry, tenancy look-ups, Hope's memory.
- Always refused or always failing as the code stands: the polling schedule
  runner, the writing GPU routes, the memory bus's hydration.
- Statements about a digest: audit hash chains.
- Reads, forms, adapters and texts: the remaining API routes, the other pages of
  the frontend, node executors, the agent core, the MCP server, providers and
  metrics, evaluation, demos, SDK.
- `devices.ts` and `distribution.ts` use tables the schema does not have, so what
  they do cannot be read from the repository.
- The Python services, and vendored code.

The map covers a ninth of the repository's implementation lines. What it leaves
out is the list above: code whose state is nobody else's, and whose order of
steps is the order of its text.

## 7. Plan

Every safety property the passing runs check is stated by a theorem (`NeverUndone`
by three, one per component); with crashing workers, two of the lifecycle's hold by
the runs alone (§5). What is left is breadth: the workflow bridges of the
foundation, and the polling schedule runner should its query be mended.
