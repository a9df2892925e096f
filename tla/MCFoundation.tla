---------------------------- MODULE MCFoundation ----------------------------
(* The services of hdv-foundation that keep data, and its leases, one at a time:
   they share no state, so a behaviour belongs to the one `focus` names.  Values
   for the constants a .cfg cannot write. *)
EXTENDS DurableStore, CompanionTurns, CreatorPayouts, TaskBroker, KafkaQueue, PriorityRouter, NodeSliceLease, RedisLease

VARIABLE focus

Hits == {<<3, 0>>, <<0, 3>>}

FoundationInit ==
  /\ focus \in {"store", "companion", "payouts", "broker", "kafka", "router", "leases", "redis"}
  /\ StoreInit /\ CompanionInit /\ PayInit /\ BrokerInit /\ KafkaInit /\ RouterInit /\ Init /\ RedisInit

FoundationNext ==
  /\ UNCHANGED focus
  /\ \/ focus = "store" /\ StoreNext /\ UNCHANGED <<companionVars, payVars, brokerVars, kafkaVars, routerVars, redisVars, vars>>
     \/ focus = "companion" /\ CompanionNext /\ UNCHANGED <<storeVars, payVars, brokerVars, kafkaVars, routerVars, redisVars, vars>>
     \/ focus = "payouts" /\ PayNext /\ UNCHANGED <<storeVars, companionVars, brokerVars, kafkaVars, routerVars, redisVars, vars>>
     \/ focus = "broker" /\ BrokerNext /\ UNCHANGED <<storeVars, companionVars, payVars, kafkaVars, routerVars, redisVars, vars>>
     \/ focus = "kafka" /\ KafkaNext /\ UNCHANGED <<storeVars, companionVars, payVars, brokerVars, routerVars, redisVars, vars>>
     \/ focus = "router" /\ RouterNext /\ UNCHANGED <<storeVars, companionVars, payVars, brokerVars, kafkaVars, redisVars, vars>>
     \/ focus = "leases" /\ Next /\ UNCHANGED <<storeVars, companionVars, payVars, brokerVars, kafkaVars, routerVars, redisVars>>
     \/ focus = "redis" /\ RedisNext /\ UNCHANGED <<storeVars, companionVars, payVars, brokerVars, kafkaVars, routerVars, vars>>

FoundationSpec == FoundationInit /\ [][FoundationNext]_<<focus, storeVars, companionVars, payVars, brokerVars, kafkaVars, routerVars, redisVars, vars>>
=============================================================================
