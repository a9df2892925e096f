--------------------------- MODULE PriorityRouter ---------------------------
(* InMemoryRedisRouterStub (hdv-foundation/persistence/redis_router_stub.ts):
   three priorities, first come first served within one, a requeued task behind
   those of its priority. *)
EXTENDS Naturals, Sequences, FiniteSets, SequencesExt

CONSTANTS Tasks, MaxNacks  \* tasks that may be enqueued; bound on requeues

VARIABLES
  ready,  \* tasks waiting, as <<task, priority>>
  flight, \* tasks delivered and not acked
  nacks, finished, known, \* requeues so far, tasks acked, tasks enqueued (history)
  came    \* per task, how many pushes there were before its last (history)

routerVars == <<ready, flight, nacks, finished, known, came>>

PRIORITY_ORDER == [CRITICAL |-> 0, STANDARD |-> 1, BACKGROUND |-> 2]
Order(t) == PRIORITY_ORDER[t[2]]

(* push, then a stable sort of what was sorted before: behind those that are not
   less urgent. *)
Pushed_AtEnd(t) == Append(ready, t)
NotLessUrgent(t) == {i \in DOMAIN ready : Order(ready[i]) <= Order(t)}
Pushed(t) == LET k == Cardinality(NotLessUrgent(t))
             IN  SubSeq(ready, 1, k) \o <<t>> \o SubSeq(ready, k + 1, Len(ready))

Pushes == Cardinality(known) + nacks
Queues(t) == ready' = Pushed(t) /\ came' = [came EXCEPT ![t[1]] = Pushes]

enqueue(id, priority) ==
  /\ \A t \in known : t[1] # id
  /\ known' = known \cup {<<id, priority>>} /\ Queues(<<id, priority>>)
  /\ UNCHANGED <<flight, nacks, finished>>
dequeue == /\ ready # <<>> /\ ready' = Tail(ready) /\ flight' = flight \cup {Head(ready)}
           /\ UNCHANGED <<nacks, finished, known, came>>
Rack(t) == /\ t \in flight /\ flight' = flight \ {t} /\ finished' = finished \cup {t}
           /\ UNCHANGED <<ready, nacks, known, came>>
Rnack(t) == /\ t \in flight /\ nacks < MaxNacks /\ nacks' = nacks + 1
            /\ flight' = flight \ {t} /\ Queues(t)
            /\ UNCHANGED <<finished, known>>

RouterInit == /\ ready = <<>> /\ flight = {} /\ nacks = 0 /\ finished = {} /\ known = {}
              /\ came = [id \in Tasks |-> 0]
RouterNext == \/ \E id \in Tasks, priority \in DOMAIN PRIORITY_ORDER : enqueue(id, priority)
              \/ dequeue
              \/ \E t \in flight : Rack(t) \/ Rnack(t)

RouterSpec == RouterInit /\ [][RouterNext]_routerVars

-----------------------------------------------------------------------------
(* Every task is in exactly one place until it is acked, and once only. *)
OnePlace ==
  /\ known = ToSet(ready) \cup flight \cup finished
  /\ Len(ready) + Cardinality(flight) + Cardinality(finished) = Cardinality(known)

(* No task waits before one of a more urgent priority, also after a requeue. *)
UrgentFirst == \A i, j \in DOMAIN ready : i < j => Order(ready[i]) <= Order(ready[j])

(* Of two equally urgent tasks the one that waits longer comes first: a requeue goes
   to the end of its priority, and a later push moves nobody. *)
EqualsInTurn == \A i, j \in DOMAIN ready :
  i < j /\ Order(ready[i]) = Order(ready[j]) => came[ready[i][1]] < came[ready[j][1]]

\* No task is lost, doubled, or overtaken by a less urgent one or a later equal.
TasksKeepTheirPlace == OnePlace /\ UrgentFirst /\ EqualsInTurn
=============================================================================
