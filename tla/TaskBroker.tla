----------------------------- MODULE TaskBroker -----------------------------
(* InMemoryKafkaStub (hdv-foundation/persistence/kafka_stub.ts): partitioned
   logs, consumer groups, in-flight messages.  Everything is synchronous: a
   subscriber's handler runs inside deliverNew and may itself publish, subscribe,
   ack, nack or close, so the calls under way form a stack, whose top moves.  A
   message is named by its partition and offset. *)
EXTENDS Naturals, Sequences, FiniteSets, SequencesExt

CONSTANTS
  Groups, Partitions,
  MaxMessages, MaxSubs,   \* bounds on publish and on subscribe
  MaxStack, MaxSeen       \* bounds on nested calls and on nacks of a message

ASSUME BrokerAssumption == MaxMessages \in Nat

VARIABLES
  size,     \* size[p]: length of partition p's log
  subs,     \* subs[g]: subscriptions of group g
  joined,   \* groups that exist
  cursor,   \* cursor[g][p]
  inFlight, \* inFlight[g]: delivered and not acked
  stack,    \* calls under way, the innermost last
  made,     \* subscriptions made so far
  seen,     \* seen[g][m]: how often m was handed to g (history)
  acked,    \* acked[g]: messages acked by g (history)
  dropped,  \* dropped[g]: messages nacked when nobody owned the partition (history)
  again     \* again[g]: messages with a reason to be handed over twice (history)

brokerVars == <<size, subs, joined, cursor, inFlight, stack, made, seen, acked, dropped, again>>

Messages == Partitions \X (1..MaxMessages)
Published(p) == {p} \X (1..size[p])
(* Handlers of a group are alike here, so which of these is the owner is left open. *)
ownerFor(g, p) == {s \in subs[g] : p \in s.partitions}

(* Only code at the bottom or in a handler makes calls. *)
Client == stack # <<>> => Last(stack).call = "handler"
Room == Len(stack) < MaxStack
handler(g, m) == [call |-> "handler", group |-> g, message |-> m]
loop(g, p, from) == [call |-> "deliver", group |-> g, partition |-> p, at |-> from]
(* for (...) this.deliverNew(group, partition), over what is still to come, in any order *)
each(pairs) == [call |-> "each", todo |-> pairs]

(* Messages a loop of deliverNew under way on partition p has still before it:
   calls in its handler move the group's cursor and not the loop's. *)
Ahead(g, ps) ==
  {m \in Messages : \E i \in DOMAIN stack : /\ stack[i].call = "deliver" /\ stack[i].group = g
                                            /\ stack[i].partition = m[1] /\ m[1] \in ps /\ stack[i].at < m[2]}

ensureGroup(g) == cursor[g]

publish(p) ==
  /\ Client /\ Room /\ size[p] < MaxMessages
  /\ size' = [size EXCEPT ![p] = @ + 1]
  /\ stack' = Append(stack, each(joined \X {p}))
  /\ again' = [g \in Groups |-> again[g] \cup Ahead(g, {p})]
  /\ UNCHANGED <<subs, joined, cursor, inFlight, made, seen, acked, dropped>>

NextLoop ==
  /\ stack # <<>> /\ Last(stack).call = "each"
  /\ LET todo == Last(stack).todo IN
     \/ todo = {} /\ stack' = Front(stack)
     \/ \E next \in todo :
          LET g == next[1] p == next[2] IN
          stack' = Append(Front(stack), each(todo \ {next}))
                   \o IF ownerFor(g, p) = {} THEN <<>> ELSE <<loop(g, p, cursor[g][p])>>
  /\ UNCHANGED <<size, subs, joined, cursor, inFlight, made, seen, acked, dropped, again>>

HandOver(g, m) == /\ inFlight' = [inFlight EXCEPT ![g] = @ \cup {m}]
                  /\ seen' = [seen EXCEPT ![g][m] = @ + 1]

(* One turn of the loop of deliverNew: its own cursor is what counts. *)
deliverNew_HandlerFirst ==
  /\ stack # <<>> /\ Last(stack).call = "deliver"
  /\ LET d == Last(stack) m == <<d.partition, d.at + 1>> IN
     IF d.at = size[d.partition]
     THEN stack' = Front(stack) /\ UNCHANGED <<cursor, inFlight, seen>>
     ELSE /\ UNCHANGED cursor
          /\ stack' = Front(stack) \o <<[d EXCEPT !.at = @ + 1], handler(d.group, m)>>
          /\ HandOver(d.group, m)
  /\ UNCHANGED <<size, subs, joined, made, acked, dropped, again>>
deliverNew ==
  /\ stack # <<>> /\ Last(stack).call = "deliver"
  /\ LET d == Last(stack) m == <<d.partition, d.at + 1>> IN
     IF d.at = size[d.partition]
     THEN stack' = Front(stack) /\ UNCHANGED <<cursor, inFlight, seen>>
     ELSE /\ cursor' = [cursor EXCEPT ![d.group][d.partition] = d.at + 1]
          /\ stack' = Front(stack) \o <<[d EXCEPT !.at = @ + 1], handler(d.group, m)>>
          /\ HandOver(d.group, m)
  /\ UNCHANGED <<size, subs, joined, made, acked, dropped, again>>

handlerReturns == /\ stack # <<>> /\ Last(stack).call = "handler" /\ stack' = Front(stack)
                  /\ UNCHANGED <<size, subs, joined, cursor, inFlight, made, seen, acked, dropped, again>>

Backlog(g, ps, replay) == each({g} \X ps)

subscribe(g, ps, replay) ==
  /\ Client /\ Room /\ made < MaxSubs /\ made' = made + 1
  /\ joined' = joined \cup {g}
  /\ subs' = [subs EXCEPT ![g] = @ \cup {[id |-> made', partitions |-> ps]}]
  /\ cursor' = [cursor EXCEPT ![g] = [p \in Partitions |-> IF replay /\ p \in ps THEN 0 ELSE ensureGroup(g)[p]]]
  /\ stack' = Append(stack, Backlog(g, ps, replay))
  /\ again' = [again EXCEPT ![g] = @ \cup Ahead(g, ps) \cup IF replay THEN UNION {Published(p) : p \in ps} ELSE {}]
  /\ UNCHANGED <<size, inFlight, seen, acked, dropped>>

close(g, s) ==
  /\ Client
  /\ subs' = [subs EXCEPT ![g] = {t \in @ : t.id # s.id}]
  /\ UNCHANGED <<size, joined, cursor, inFlight, stack, made, seen, acked, dropped, again>>

ack(g, m) ==
  /\ Client /\ m \in inFlight[g]
  /\ inFlight' = [inFlight EXCEPT ![g] = @ \ {m}] /\ acked' = [acked EXCEPT ![g] = @ \cup {m}]
  /\ UNCHANGED <<size, subs, joined, cursor, stack, made, seen, dropped, again>>

(* Handed to the owner again, at once; without an owner the message is gone. *)
nack(g, m) ==
  /\ Client /\ Room /\ m \in inFlight[g] /\ seen[g][m] < MaxSeen
  /\ again' = [again EXCEPT ![g] = @ \cup {m}]
  /\ IF ownerFor(g, m[1]) = {}
     THEN /\ inFlight' = [inFlight EXCEPT ![g] = @ \ {m}] /\ dropped' = [dropped EXCEPT ![g] = @ \cup {m}]
          /\ UNCHANGED <<stack, seen>>
     ELSE HandOver(g, m) /\ stack' = Append(stack, handler(g, m)) /\ UNCHANGED dropped
  /\ UNCHANGED <<size, subs, joined, cursor, made, acked>>

BrokerInit ==
  /\ size = [p \in Partitions |-> 0] /\ subs = [g \in Groups |-> {}] /\ joined = {}
  /\ cursor = [g \in Groups |-> [p \in Partitions |-> 0]] /\ inFlight = [g \in Groups |-> {}]
  /\ stack = <<>> /\ made = 0 /\ seen = [g \in Groups |-> [m \in Messages |-> 0]]
  /\ acked = [g \in Groups |-> {}] /\ dropped = acked /\ again = acked

BrokerNext ==
  \/ \E p \in Partitions : publish(p)
  \/ NextLoop \/ deliverNew \/ handlerReturns
  \/ \E g \in Groups : \/ \E ps \in SUBSET Partitions \ {{}}, replay \in BOOLEAN : subscribe(g, ps, replay)
                       \/ \E s \in subs[g] : close(g, s)
                       \/ \E m \in inFlight[g] : ack(g, m) \/ nack(g, m)
BrokerSpec == BrokerInit /\ [][BrokerNext]_brokerVars

-----------------------------------------------------------------------------
BrokerTypeOK ==
  /\ \A p \in Partitions : size[p] \in 0..MaxMessages
  /\ \A g \in Groups : /\ \A p \in Partitions : cursor[g][p] \in 0..size[p]
                       /\ inFlight[g] \cup acked[g] \cup dropped[g] \cup again[g] \subseteq Messages
                       /\ \A s \in subs[g] : s.id \in 1..made
  /\ \A i \in DOMAIN stack : stack[i].call \in {"handler", "deliver", "each"}

(* Nothing handed over disappears: until it is acked a message stays in flight,
   unless it was nacked when no subscription owned its partition. *)
HeldUntilAcked ==
  \A g \in Groups, m \in Messages : seen[g][m] > 0 => m \in inFlight[g] \cup acked[g] \cup dropped[g]

(* A group sees every partition from its first message on and without gaps,
   whoever of it owned the partition when, and however handlers nest. *)
NoGaps ==
  \A g \in Groups, p \in Partitions, i \in 2..MaxMessages : seen[g][<<p, i>>] > 0 => seen[g][<<p, i - 1>>] > 0

(* A message is handed over twice only when it was nacked, when a subscriber
   asked for a replay, or when a handler's own call overtook a loop of deliverNew
   that still had the message before it. *)
OnceUnlessExcused == \A g \in Groups, m \in Messages : seen[g][m] > 1 => m \in again[g]

(* When no call is under way, a group has seen the whole of every partition one
   of its subscriptions owns: a message that was published before anybody
   subscribed, or in the middle of another's delivery, is not left waiting. *)
CaughtUp ==
  stack = <<>> => \A g \in Groups, p \in Partitions : ownerFor(g, p) # {} => cursor[g][p] = size[p]

\* Delivery to a group: all of it, in order, and once, with handlers that call back.
DeliveryHolds ==
  /\ BrokerTypeOK
  /\ HeldUntilAcked
  /\ NoGaps
  /\ OnceUnlessExcused
  /\ CaughtUp

=============================================================================
