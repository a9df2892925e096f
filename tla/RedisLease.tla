------------------------------ MODULE RedisLease ------------------------------
(* RedisLeaseStub: the node-slice lease on a Redis server, one stub per process.
   A call is one to three commands, with the commands of other processes between
   them, and ends when the answer to its last one is back: the caller counts its
   claim's time from there, the server from the command.  One clock for all. *)
EXTENDS Naturals

CONSTANTS RKeys, RHolders,   \* leases; processes, each with its holder name
          RNobody, RTtls,
          MaxClock, MaxIssued \* bounds: of the server's clock, of one process's tokens

ASSUME RedisAssumption == RNobody \notin RHolders /\ RTtls \subseteq Nat /\ MaxClock \in Nat /\ MaxIssued \in Nat

VARIABLES clock,    \* the server's time
          held,     \* the server's keys: holder and expiry of each
          call,     \* where the call of each process stands, what its GET saw, and
                    \* when the server ran the command whose answer is under way
          issued,   \* the process-local fencing tokens
          granted,  \* per process and key: its claim's expiry, how long the answer that
                    \* granted it was under way (history), and the token
          slipped   \* history: keys with a DEL or PEXPIRE that met another entry than its GET
redisVars == <<clock, held, call, issued, granted, slipped>>

Empty(k) == held[k].holder = RNobody \/ held[k].until <= clock
Got(k) == IF Empty(k) THEN RNobody ELSE held[k].holder
NoGrant == [until |-> 0, lag |-> 0, token |-> 0]
NoCall == [op |-> "none", key |-> "none", ttl |-> 0, saw |-> RNobody, at |-> 0]
Calling(op, k, ttl, saw) == [op |-> op, key |-> k, ttl |-> ttl, saw |-> saw, at |-> 0]
Granted(k, ttl) == [op |-> "granted", key |-> k, ttl |-> ttl, saw |-> RNobody, at |-> clock]

RedisInit ==
  /\ clock = 1
  /\ held = [k \in RKeys |-> [holder |-> RNobody, until |-> 0]]
  /\ call = [h \in RHolders |-> NoCall]
  /\ issued = [h \in RHolders |-> 0]
  /\ granted = [h \in RHolders |-> [k \in RKeys |-> NoGrant]]
  /\ slipped = {}

Nx_Overwrites(k) == TRUE
Nx(k) == Empty(k)

(* SET key holder NX PX ttl. *)
RClaim(h, k, ttl) ==
  /\ call[h] = NoCall
  /\ \/ /\ Nx(k)
        /\ held' = [held EXCEPT ![k] = [holder |-> h, until |-> clock + ttl]]
        /\ call' = [call EXCEPT ![h] = Granted(k, ttl)]
     \/ ~Nx(k) /\ call' = [call EXCEPT ![h] = Calling("claimGet", k, ttl, RNobody)]
               /\ UNCHANGED held
  /\ UNCHANGED <<clock, issued, granted, slipped>>

(* The GET of a claim that NX blocked, of a renewal or of a release. *)
Compare(h, k, op, ttl) ==
  /\ call' = [call EXCEPT ![h] = IF Got(k) = h THEN Calling(op, k, ttl, h) ELSE Calling("refused", k, 1, RNobody)]
  /\ UNCHANGED <<clock, held, issued, granted, slipped>>

ClaimGet(h) == call[h].op = "claimGet" /\ Compare(h, call[h].key, "claimExpire", call[h].ttl)
RRenew(h, k, ttl) == call[h] = NoCall /\ Compare(h, k, "renewExpire", ttl)
RRelease(h, k) == call[h] = NoCall /\ Compare(h, k, "del", 1)

Slip(h, k) == slipped' = IF Got(k) = call[h].saw THEN slipped ELSE slipped \cup {k}

Extended(entry, ttl) == [entry EXCEPT !.until = clock + ttl]

(* PEXPIRE: claim does not look at its answer, renew does. *)
Pexpire(h) ==
  /\ call[h].op \in {"claimExpire", "renewExpire"}
  /\ LET k == call[h].key IN
     /\ held' = IF Empty(k) THEN held ELSE [held EXCEPT ![k] = Extended(@, call[h].ttl)]
     /\ call' = [call EXCEPT ![h] = IF Empty(k) /\ call[h].op = "renewExpire"
                                     THEN Calling("refused", k, 1, RNobody) ELSE Granted(k, call[h].ttl)]
     /\ Slip(h, k)
  /\ UNCHANGED <<clock, issued, granted>>

Del(h) ==
  /\ call[h].op = "del"
  /\ LET k == call[h].key IN
     /\ held' = [held EXCEPT ![k] = [holder |-> RNobody, until |-> 0]]
     /\ call' = [call EXCEPT ![h] = Calling("refused", k, 1, RNobody)]
     /\ Slip(h, k)
  /\ UNCHANGED <<clock, issued, granted>>

(* The answer is back: claimFor counts the expiry from the caller's clock now. *)
ClaimFor(h, k, ttl) ==
  /\ issued[h] < MaxIssued
  /\ issued' = [issued EXCEPT ![h] = @ + 1]
  /\ granted' = [granted EXCEPT ![h][k] =
                   [until |-> clock + ttl, lag |-> clock - call[h].at, token |-> issued[h] + 1]]
Refuse(h, k) == granted' = [granted EXCEPT ![h][k] = NoGrant] /\ UNCHANGED issued

Answer(h) ==
  /\ \/ call[h].op = "granted" /\ ClaimFor(h, call[h].key, call[h].ttl)
     \/ call[h].op = "refused" /\ Refuse(h, call[h].key)
  /\ call' = [call EXCEPT ![h] = NoCall]
  /\ UNCHANGED <<clock, held, slipped>>

(* A process dies with its call, its claims and its count of tokens. *)
ProcessCrash(h) ==
  /\ call' = [call EXCEPT ![h] = NoCall]
  /\ issued' = [issued EXCEPT ![h] = 0]
  /\ granted' = [granted EXCEPT ![h] = [k \in RKeys |-> NoGrant]]
  /\ UNCHANGED <<clock, held, slipped>>

ClockTick ==
  /\ clock < MaxClock /\ clock' = clock + 1
  /\ UNCHANGED <<held, call, issued, granted, slipped>>

RedisNext ==
  \/ \E h \in RHolders :
       \/ \E k \in RKeys : RRelease(h, k) \/ \E ttl \in RTtls : RClaim(h, k, ttl) \/ RRenew(h, k, ttl)
       \/ ClaimGet(h) \/ Pexpire(h) \/ Del(h) \/ Answer(h) \/ ProcessCrash(h)
  \/ ClockTick

RedisSpec == RedisInit /\ [][RedisNext]_redisVars

-----------------------------------------------------------------------------
Ops == {"none", "claimGet", "claimExpire", "renewExpire", "del", "granted", "refused"}
RedisTypeOK ==
  /\ clock \in Nat /\ clock > 0
  /\ held \in [RKeys -> [holder : RHolders \cup {RNobody}, until : Nat]]
  /\ call \in [RHolders -> [op : Ops, key : RKeys \cup {"none"}, ttl : Nat,
                        saw : RHolders \cup {RNobody}, at : 0 .. clock]]
  /\ issued \in [RHolders -> 0 .. MaxIssued]
  /\ granted \in [RHolders -> [RKeys -> [until : Nat, lag : Nat, token : 0 .. MaxIssued]]]
  /\ slipped \subseteq RKeys

(* A claim that was d on its way is good for the first ttl - d of the time its
   holder counts; a caller with an answer about the key under way is told anew. *)
Assured(h, k) ==
  /\ granted[h][k].until > clock + granted[h][k].lag
  /\ ~(call[h].op \in {"granted", "refused"} /\ call[h].key = k)

(* So much of its claim a process has the key on the server, and no two processes
   have it, as long as no DEL or PEXPIRE came after the key had changed hands.  The
   rest of its time it may go by a claim the server has given to another. *)
HeldWhileGranted ==
  \A h \in RHolders, k \in RKeys : Assured(h, k) => k \in slipped \/ Got(k) = h

\* A claim is backed by the key on the server until its last `lag`.
LeaseIsHeld == RedisTypeOK /\ HeldWhileGranted
=============================================================================
