----------------------------- MODULE KafkaQueue -----------------------------
(* KafkaTaskQueue (hdv-foundation/persistence/kafka_real.ts) on one topic: sends
   that are not awaited, one kafkajs consumer per subscribe, which its ready promise
   starts and close() does not wait for, offsets committed when eachMessage resolves
   whatever is acked, nack as a new send, a process that may be killed and started
   again.  The broker is external: it keeps the topic and each group's committed
   offset, and gives the topic to one of the group's running consumers; a consumer is
   given messages of the topics it subscribed to and no others. *)
EXTENDS Naturals, Sequences, FiniteSets, SequencesExt

CONSTANTS
  KGroups,
  MaxSends, MaxTopic, MaxConsumers, MaxKills,  \* bounds
  NoOne                              \* no consumer, no offset

ASSUME KafkaAssumption == NoOne \notin Nat

VARIABLES
  topic,     \* messages in the broker
  committed, \* committed[g]: next offset of the group, or NoOne
  began,     \* began[g]: the first offset the group committed past, or NoOne (history)
  pending,   \* pendingSends
  sends,     \* messages made by publish, numbered
  consumers, \* consumers made by subscribe, in order; their state.closed and how far
             \* kafkajs is with them: stage "starting", "running" or "off"
  current,   \* current[g]: groups.get(g), an index of consumers
  kills,
  handed,    \* handed[g]: offsets given to a handler of g (history)
  swallowed,   \* swallowed[g]: offsets a closed subscription's consumer took (history)
  shadowed   \* groups that were subscribed to twice, or closed (history)

kafkaVars == <<topic, committed, began, pending, sends, consumers, current, kills, handed, swallowed, shadowed>>

Undecodable == 0   \* what parsePacket refuses, from another producer
Members(g) == {c \in DOMAIN consumers : consumers[c].group = g /\ consumers[c].stage = "running"}

Kpublish ==
  /\ sends < MaxSends /\ sends' = sends + 1 /\ pending' = pending \cup {sends'}
  /\ UNCHANGED <<topic, committed, began, consumers, current, kills, handed, swallowed, shadowed>>

Sent(m) ==
  /\ m \in pending /\ Len(topic) < MaxTopic
  /\ topic' = Append(topic, m) /\ pending' = pending \ {m}
  /\ UNCHANGED <<committed, began, sends, consumers, current, kills, handed, swallowed, shadowed>>
SendFails(m) ==
  /\ m \in pending /\ pending' = pending \ {m}
  /\ UNCHANGED <<topic, committed, began, sends, consumers, current, kills, handed, swallowed, shadowed>>
Foreign ==
  /\ Len(topic) < MaxTopic /\ topic' = Append(topic, Undecodable)
  /\ UNCHANGED <<committed, began, pending, sends, consumers, current, kills, handed, swallowed, shadowed>>

(* A new consumer and a new state for the group, in place of the one before. *)
NewConsumer(g) ==
  [group |-> g, stage |-> "starting", at |-> NoOne, busy |-> FALSE, inFlight |-> {}, closed |-> FALSE]
Ksubscribe(g) ==
  /\ Len(consumers) < MaxConsumers
  /\ consumers' = Append(consumers, NewConsumer(g))
  /\ current' = [current EXCEPT ![g] = Len(consumers')]
  /\ shadowed' = IF \E c \in DOMAIN consumers : consumers[c].group = g THEN shadowed \cup {g} ELSE shadowed
  /\ UNCHANGED <<topic, committed, began, pending, sends, kills, handed, swallowed>>

(* The ready promise goes on by itself: it does not look at state.closed. *)
Ready(c) ==
  /\ consumers[c].stage = "starting"
  /\ \E stage \in {"running", "off"} : consumers' = [consumers EXCEPT ![c].stage = stage]
  /\ UNCHANGED <<topic, committed, began, pending, sends, current, kills, handed, swallowed, shadowed>>

(* The broker assigns the topic to a running consumer, from the committed offset; a
   group without one begins where the consumer's fromBeginning says. *)
Assign(c) ==
  /\ LET g == consumers[c].group IN
     /\ c \in Members(g) /\ \A d \in Members(g) : consumers[d].at = NoOne
     /\ \E o \in IF committed[g] = NoOne THEN {0, Len(topic)} ELSE {committed[g]} :
          consumers' = [consumers EXCEPT ![c].at = o]
  /\ UNCHANGED <<topic, committed, began, pending, sends, current, kills, handed, swallowed, shadowed>>
Revoke(c) ==
  /\ consumers[c].at # NoOne /\ Cardinality(Members(consumers[c].group)) > 1
  /\ consumers' = [consumers EXCEPT ![c].at = NoOne, ![c].busy = FALSE]
  /\ UNCHANGED <<topic, committed, began, pending, sends, current, kills, handed, swallowed, shadowed>>

Fetching(c) == consumers[c].at # NoOne /\ ~consumers[c].busy /\ consumers[c].at < Len(topic)
NextMessage(c) == topic[consumers[c].at + 1]

eachMessage_CommitsFirst(c) ==
  /\ Fetching(c)
  /\ LET g == consumers[c].group IN
     /\ committed' = [committed EXCEPT ![g] = consumers[c].at + 1]
     /\ began' = IF began[g] = NoOne THEN [began EXCEPT ![g] = consumers[c].at] ELSE began
  /\ consumers' = [consumers EXCEPT ![c].at = @ + 1]
  /\ UNCHANGED <<topic, pending, sends, current, kills, handed, swallowed, shadowed>>
(* A closed subscription's consumer returns at once, and so does any consumer on a
   message it cannot decode; otherwise the message is in flight and the handler runs. *)
eachMessage(c) ==
  /\ Fetching(c)
  /\ LET g == consumers[c].group
         m == NextMessage(c) IN
     \/ /\ consumers[c].closed
        /\ consumers' = [consumers EXCEPT ![c].busy = TRUE]
        /\ swallowed' = [swallowed EXCEPT ![g] = @ \cup {consumers[c].at}] /\ UNCHANGED handed
     \/ /\ ~consumers[c].closed /\ m = Undecodable
        /\ consumers' = [consumers EXCEPT ![c].busy = TRUE] /\ UNCHANGED <<handed, swallowed>>
     \/ /\ ~consumers[c].closed /\ m # Undecodable
        /\ consumers' = [consumers EXCEPT ![c].busy = TRUE, ![c].inFlight = @ \cup {m}]
        /\ handed' = [handed EXCEPT ![g] = @ \cup {consumers[c].at}] /\ UNCHANGED swallowed
  /\ UNCHANGED <<topic, committed, began, pending, sends, current, kills, shadowed>>

(* eachMessage has resolved: kafkajs commits, acked or not, handled or not. *)
AutoCommit(c) ==
  /\ consumers[c].busy
  /\ LET g == consumers[c].group IN
     /\ committed' = [committed EXCEPT ![g] = consumers[c].at + 1]
     /\ began' = IF began[g] = NoOne THEN [began EXCEPT ![g] = consumers[c].at] ELSE began
  /\ consumers' = [consumers EXCEPT ![c].busy = FALSE, ![c].at = @ + 1]
  /\ UNCHANGED <<topic, pending, sends, current, kills, handed, swallowed, shadowed>>
(* The handler threw, or the commit failed: the message is given again. *)
GivenAgain(c) ==
  /\ consumers[c].busy /\ consumers' = [consumers EXCEPT ![c].busy = FALSE]
  /\ UNCHANGED <<topic, committed, began, pending, sends, current, kills, handed, swallowed, shadowed>>

Flight(g) == IF current[g] = NoOne THEN {} ELSE consumers[current[g]].inFlight
Landed(g, m) == consumers' = [consumers EXCEPT ![current[g]].inFlight = @ \ {m}]
Kack(g, m) ==
  /\ m \in Flight(g) /\ Landed(g, m)
  /\ UNCHANGED <<topic, committed, began, pending, sends, current, kills, handed, swallowed, shadowed>>
Knack(g, m) ==
  /\ m \in Flight(g) /\ m \notin pending /\ Landed(g, m) /\ pending' = pending \cup {m}
  /\ UNCHANGED <<topic, committed, began, sends, current, kills, handed, swallowed, shadowed>>

(* clear() empties the in-flight map of every group's entry. *)
Kclear ==
  /\ consumers' = [c \in DOMAIN consumers |->
                     IF current[consumers[c].group] = c THEN [consumers[c] EXCEPT !.inFlight = {}] ELSE consumers[c]]
  /\ UNCHANGED <<topic, committed, began, pending, sends, current, kills, handed, swallowed, shadowed>>

(* A subscription's close(): the group's entry goes, whichever subscription it belongs
   to.  disconnect is not awaited: it takes the consumer off later, or never when it
   came before run(). *)
Kclose(c) ==
  /\ consumers' = [consumers EXCEPT ![c].closed = TRUE]
  /\ current' = [current EXCEPT ![consumers[c].group] = NoOne]
  /\ shadowed' = shadowed \cup {consumers[c].group}
  /\ UNCHANGED <<topic, committed, began, pending, sends, kills, handed, swallowed>>
Disconnect(c) ==
  /\ consumers[c].closed /\ consumers[c].stage = "running"
  /\ consumers' = [consumers EXCEPT ![c].stage = "off", ![c].at = NoOne, ![c].busy = FALSE]
  /\ UNCHANGED <<topic, committed, began, pending, sends, current, kills, handed, swallowed, shadowed>>

(* The queue's close() comes to a group, and to the end of them. *)
CloseGroup(g) ==
  /\ current[g] # NoOne
  /\ consumers' = [consumers EXCEPT ![current[g]].closed = TRUE]
  /\ shadowed' = shadowed \cup {g}
  /\ UNCHANGED <<topic, committed, began, pending, sends, current, kills, handed, swallowed>>
ForgetGroups ==
  /\ \A g \in KGroups : current[g] # NoOne => consumers[current[g]].closed
  /\ current' = [g \in KGroups |-> NoOne]
  /\ UNCHANGED <<topic, committed, began, pending, sends, consumers, kills, handed, swallowed, shadowed>>

Kill ==
  /\ kills < MaxKills /\ kills' = kills + 1
  /\ consumers' = <<>> /\ current' = [g \in KGroups |-> NoOne] /\ pending' = {}
  /\ shadowed' = {}
  /\ UNCHANGED <<topic, committed, began, sends, handed, swallowed>>

KafkaInit ==
  /\ topic = <<>> /\ committed = [g \in KGroups |-> NoOne] /\ began = committed /\ pending = {} /\ sends = 0
  /\ consumers = <<>> /\ current = committed /\ kills = 0
  /\ handed = [g \in KGroups |-> {}] /\ swallowed = handed /\ shadowed = {}

KafkaNext ==
  \/ Kpublish \/ Foreign \/ Kclear \/ ForgetGroups \/ Kill
  \/ \E m \in pending : Sent(m) \/ SendFails(m)
  \/ \E g \in KGroups : Ksubscribe(g) \/ CloseGroup(g) \/ \E m \in Flight(g) : Kack(g, m) \/ Knack(g, m)
  \/ \E c \in DOMAIN consumers : \/ Ready(c) \/ Assign(c) \/ Revoke(c) \/ eachMessage(c) \/ AutoCommit(c)
                                 \/ GivenAgain(c) \/ Kclose(c) \/ Disconnect(c)
KafkaSpec == KafkaInit /\ [][KafkaNext]_kafkaVars

-----------------------------------------------------------------------------
KafkaTypeOK ==
  /\ ToSet(topic) \subseteq 0..sends /\ pending \subseteq 1..sends
  /\ \A g \in KGroups : /\ committed[g] \in 0..Len(topic) \cup {NoOne}
                        /\ current[g] \in DOMAIN consumers \cup {NoOne}
                        /\ Cardinality({c \in Members(g) : consumers[c].at # NoOne}) <= 1

(* From where the group began, its offset passes a message only if a handler of the
   group was given it, it cannot be decoded, or a closed subscription's consumer that
   was still running took it: whatever failures, kills and reassignments come between
   the handler and the commit. *)
Accounted(g, o) == o \in handed[g] \/ o \in swallowed[g] \/ topic[o + 1] = Undecodable
CommitFollowsHandler ==
  \A g \in KGroups : committed[g] # NoOne => \A o \in began[g]..committed[g] - 1 : Accounted(g, o)

(* While a group has one subscription, everything in flight can be acked and
   nacked: no message sits in the in-flight map of a state nobody reaches. *)
FlightIsReachable ==
  \A c \in DOMAIN consumers : consumers[c].group \notin shadowed => consumers[c].inFlight \subseteq Flight(consumers[c].group)

\* Offsets and the in-flight map, whatever is killed, closed, reassigned or nacked.
CommitsHold == KafkaTypeOK /\ CommitFollowsHandler /\ FlightIsReachable
=============================================================================
