-------------------------- MODULE NodeSliceLeaseProofs --------------------------
(***************************************************************************)
(* What holds of the in-memory lease for any number of keys and workers,   *)
(* any TTLs and, where no clock is mentioned, any behaviour of the clock;  *)
(* then the same for the lease over Redis.                                 *)
(***************************************************************************)
EXTENDS NodeSliceLease, RedisLease, TLAPS

\* A TTL is positive once normalised (normalizeTtl).
LEMMA TtlPositive ==
  \A ttl \in Ttls : NormalizeTtl(ttl) \in Nat /\ NormalizeTtl(ttl) > 0
BY LeaseAssumption DEF NormalizeTtl

\* The entry and the claim a call writes are well-typed: the expiry time is one
\* TTL ahead of the clock.
LEMMA NewExpiry ==
  ASSUME TypeOK, NEW ttl \in Ttls
  PROVE  /\ now + NormalizeTtl(ttl) \in Expiries
         /\ now + NormalizeTtl(ttl) > now
<1>1. now \in 0..MaxNow /\ now \in Nat
  BY LeaseAssumption DEF TypeOK
<1>2. now + NormalizeTtl(ttl) > now
  BY <1>1, TtlPositive
<1>3. now + NormalizeTtl(ttl) \in Expiries
  BY <1>1 DEF Expiries
<1> QED BY <1>2, <1>3

LEMMA EmptyTyped == NoEntry \in Entries /\ NoClaim \in Claims
BY LeaseAssumption DEF NoEntry, NoClaim, Entries, Claims, Expiries

\* Writing one entry and one claim keeps the types.
LEMMA WriteTyped ==
  ASSUME TypeOK, NEW k \in Keys, NEW h \in Holders, NEW e \in Entries, NEW c \in Claims
  PROVE  /\ Store(k, e) => entries' \in [Keys -> Entries]
         /\ Told(h, k, c) => claims' \in [Holders -> [Keys -> Claims]]
BY DEF TypeOK, Store, Told

LEMMA PurgeTyped ==
  ASSUME TypeOK, NEW k \in Keys, Purge(k)
  PROVE  entries' \in [Keys -> Entries]
BY EmptyTyped DEF TypeOK, Purge

LEMMA TypeInit == Init => TypeOK
BY LeaseAssumption, EmptyTyped DEF Init, TypeOK

LEMMA TypeStep ==
  ASSUME TypeOK, Next PROVE TypeOK'
<1>1. ASSUME NEW k \in Keys, NEW h \in Holders, NEW ttl \in Ttls, Acquire(k, h, ttl)
      PROVE  TypeOK'
  <2> DEFINE e == [holder |-> h, expiresAt |-> now + NormalizeTtl(ttl),
                   fencingToken |-> tokens[k] + 1]
  <2>1. tokens[k] \in 0..MaxToken /\ tokens[k] < MaxToken
    BY <1>1 DEF TypeOK, Acquire
  <2>2. tokens[k] + 1 \in 0..MaxToken
    BY <2>1, LeaseAssumption
  <2>3. e \in Entries /\ ToClaim(e) \in Claims
    BY <2>2, NewExpiry DEF Entries, Claims, ToClaim
  <2>4. Store(k, e) /\ Told(h, k, ToClaim(e))
    BY <1>1 DEF Acquire
  <2>5. tokens' \in [Keys -> 0..MaxToken]
    BY <1>1, <2>2 DEF TypeOK, Acquire
  <2> HIDE DEF e
  <2>6. entries' \in [Keys -> Entries] /\ claims' \in [Holders -> [Keys -> Claims]]
    BY <2>3, <2>4, WriteTyped
  <2> QED BY <1>1, <2>5, <2>6 DEF TypeOK, Acquire
<1>2. ASSUME NEW k \in Keys, NEW h \in Holders, NEW ttl \in Ttls, Refresh(k, h, ttl)
      PROVE  TypeOK'
  <2> DEFINE e == [entries[k] EXCEPT !.expiresAt = now + NormalizeTtl(ttl)]
  <2>1. entries[k] \in Entries
    BY DEF TypeOK
  <2>2. e \in Entries /\ ToClaim(e) \in Claims
    BY <2>1, NewExpiry DEF Entries, Claims, ToClaim
  <2>3. Store(k, e) /\ Told(h, k, ToClaim(e))
    BY <1>2 DEF Refresh
  <2> HIDE DEF e
  <2>4. entries' \in [Keys -> Entries] /\ claims' \in [Holders -> [Keys -> Claims]]
    BY <2>2, <2>3, WriteTyped
  <2> QED BY <1>2, <2>4 DEF TypeOK, Refresh
<1>3. ASSUME NEW k \in Keys, NEW h \in Holders, Denied(k, h)
      PROVE  TypeOK'
  BY <1>3, EmptyTyped DEF TypeOK, Denied, Told
<1>4. ASSUME NEW k \in Keys, NEW h \in Holders, NotHeld(k, h)
      PROVE  TypeOK'
  <2>1. entries' \in [Keys -> Entries]
    BY <1>4, PurgeTyped DEF NotHeld
  <2> QED BY <1>4, <2>1, EmptyTyped DEF TypeOK, NotHeld, Told
<1>5. ASSUME NEW k \in Keys, NEW h \in Holders, Release(k, h)
      PROVE  TypeOK'
  BY <1>5, EmptyTyped DEF TypeOK, Release, Store, Told
<1>6. ASSUME NEW k \in Keys, HolderOf(k)
      PROVE  TypeOK'
  <2>1. entries' \in [Keys -> Entries]
    BY <1>6, PurgeTyped DEF HolderOf
  <2> QED BY <1>6, <2>1 DEF TypeOK, HolderOf
<1>7. ASSUME Tick PROVE TypeOK'
  BY <1>7 DEF TypeOK, Tick
<1> QED BY <1>1, <1>2, <1>3, <1>4, <1>5, <1>6, <1>7 DEF Next

\* The lease's maps, the clock and the claims the workers remember keep their
\* types; in particular no lease runs further ahead than one TTL (lease.ts).
THEOREM TypeCorrect == Spec => []TypeOK
<1>1. TypeOK /\ [Next]_vars => TypeOK'
  <2>1. TypeOK /\ UNCHANGED vars => TypeOK'
    BY DEF TypeOK, vars
  <2> QED BY <2>1, TypeStep
<1> QED BY TypeInit, <1>1, PTL DEF Spec
-----------------------------------------------------------------------------
(* Fencing, whatever the clock does. *)

\* The entry in the map carries the last token of its key, and no worker
\* remembers a later one; all but its holder remember an earlier one.
KeyFenced(k) ==
  /\ entries[k].holder # Free => entries[k].fencingToken = tokens[k] /\ tokens[k] > 0
  /\ \A h \in Holders : claims[h][k].fencingToken <= tokens[k]
  /\ \A h \in Holders :
       entries[k].holder # Free /\ entries[k].holder # h => claims[h][k].fencingToken < tokens[k]
FenceInv == \A k \in Keys : KeyFenced(k)

LEMMA FenceImplies == FenceInv => StaleIsFenced
BY DEF FenceInv, KeyFenced, StaleIsFenced, Live

LEMMA FenceInit == Init => FenceInv
<1> SUFFICES ASSUME Init, NEW k \in Keys PROVE KeyFenced(k)
  BY DEF FenceInv
<1>1. entries[k].holder = Free /\ tokens[k] = 0
  BY DEF Init, NoEntry
<1>2. \A h \in Holders : claims[h][k].fencingToken = 0
  BY DEF Init, NoClaim
<1> QED BY <1>1, <1>2 DEF KeyFenced

\* A step that leaves a key's entry, token and claims alone leaves it fenced.
LEMMA OtherKeys ==
  ASSUME NEW j \in Keys, KeyFenced(j),
         entries'[j] = entries[j], tokens'[j] = tokens[j],
         \A h \in Holders : claims'[h][j] = claims[h][j]
  PROVE  KeyFenced(j)'
BY DEF KeyFenced

LEMMA FenceStep ==
  ASSUME TypeOK, FenceInv, Next PROVE FenceInv'
<1> SUFFICES ASSUME NEW j \in Keys PROVE KeyFenced(j)'
  BY DEF FenceInv
<1>0. KeyFenced(j)
  BY DEF FenceInv
<1>t. /\ tokens[j] \in Nat
      /\ \A h \in Holders : claims[h][j].fencingToken \in Nat
      /\ entries[j].fencingToken \in Nat
  BY LeaseAssumption DEF TypeOK, Claims, Entries
<1>1. ASSUME NEW k \in Keys, NEW h \in Holders, NEW ttl \in Ttls, Acquire(k, h, ttl)
      PROVE  KeyFenced(j)'
  <2>1. CASE j = k
    <3>1. /\ entries'[j].holder = h /\ entries'[j].fencingToken = tokens[j] + 1
          /\ tokens'[j] = tokens[j] + 1
          /\ claims'[h][j].fencingToken = tokens[j] + 1
          /\ \A g \in Holders : g # h => claims'[g][j] = claims[g][j]
      BY <1>1, <2>1 DEF Acquire, Store, Told, ToClaim, TypeOK
    <3> QED BY <3>1, <1>0, <1>t DEF KeyFenced
  <2>2. CASE j # k
    BY <1>1, <2>2, <1>0, OtherKeys DEF Acquire, Store, Told, TypeOK
  <2> QED BY <2>1, <2>2
<1>2. ASSUME NEW k \in Keys, NEW h \in Holders, NEW ttl \in Ttls, Refresh(k, h, ttl)
      PROVE  KeyFenced(j)'
  <2>1. CASE j = k
    <3>0. entries[k] \in Entries
      BY DEF TypeOK
    <3>1. /\ entries'[j].holder = h /\ entries[j].holder = h
          /\ entries'[j].fencingToken = entries[j].fencingToken
          /\ claims'[h][j].fencingToken = entries[j].fencingToken
      BY <3>0, <1>2, <2>1 DEF Refresh, Store, Told, ToClaim, HeldBy, TypeOK, Entries
    <3>2. /\ tokens'[j] = tokens[j]
          /\ \A g \in Holders : g # h => claims'[g][j] = claims[g][j]
      BY <1>2, <2>1 DEF Refresh, Told, TypeOK
    <3>3. h # Free
      BY LeaseAssumption
    <3> QED BY <3>1, <3>2, <3>3, <1>0, <1>t DEF KeyFenced
  <2>2. CASE j # k
    BY <1>2, <2>2, <1>0, OtherKeys DEF Refresh, Store, Told, TypeOK
  <2> QED BY <2>1, <2>2
<1>3. ASSUME NEW k \in Keys, NEW h \in Holders, Denied(k, h)
      PROVE  KeyFenced(j)'
  <2>1. CASE j = k
    <3>1. /\ entries' = entries /\ tokens' = tokens
          /\ claims'[h][j].fencingToken = 0
          /\ \A g \in Holders : g # h => claims'[g][j] = claims[g][j]
      BY <1>3, <2>1 DEF Denied, Told, NoClaim, TypeOK
    <3> QED BY <3>1, <1>0, <1>t DEF KeyFenced
  <2>2. CASE j # k
    BY <1>3, <2>2, <1>0, OtherKeys DEF Denied, Told, TypeOK
  <2> QED BY <2>1, <2>2
<1>4. ASSUME NEW k \in Keys, NEW h \in Holders, NotHeld(k, h)
      PROVE  KeyFenced(j)'
  <2>1. CASE j = k
    <3>1. /\ entries'[j].holder = Free /\ tokens' = tokens
          /\ claims'[h][j].fencingToken = 0
          /\ \A g \in Holders : g # h => claims'[g][j] = claims[g][j]
      BY <1>4, <2>1 DEF NotHeld, Purge, Told, NoClaim, NoEntry, TypeOK
    <3> QED BY <3>1, <1>0, <1>t DEF KeyFenced
  <2>2. CASE j # k
    BY <1>4, <2>2, <1>0, OtherKeys DEF NotHeld, Purge, Told, TypeOK
  <2> QED BY <2>1, <2>2
<1>5. ASSUME NEW k \in Keys, NEW h \in Holders, Release(k, h)
      PROVE  KeyFenced(j)'
  <2>1. CASE j = k
    <3>1. /\ entries'[j].holder = Free /\ tokens' = tokens
          /\ claims'[h][j].fencingToken = 0
          /\ \A g \in Holders : g # h => claims'[g][j] = claims[g][j]
      BY <1>5, <2>1 DEF Release, Store, Told, NoClaim, NoEntry, TypeOK
    <3> QED BY <3>1, <1>0, <1>t DEF KeyFenced
  <2>2. CASE j # k
    BY <1>5, <2>2, <1>0, OtherKeys DEF Release, Store, Told, TypeOK
  <2> QED BY <2>1, <2>2
<1>6. ASSUME NEW k \in Keys, HolderOf(k)
      PROVE  KeyFenced(j)'
  <2>1. CASE entries'[j] = entries[j]
    BY <1>6, <2>1, <1>0, OtherKeys DEF HolderOf
  <2>2. CASE entries'[j] # entries[j]
    <3>1. entries'[j].holder = Free /\ tokens' = tokens /\ claims' = claims
      BY <1>6, <2>2 DEF HolderOf, Purge, NoEntry, TypeOK
    <3> QED BY <3>1, <1>0 DEF KeyFenced
  <2> QED BY <2>1, <2>2
<1>7. ASSUME Tick PROVE KeyFenced(j)'
  BY <1>7, <1>0, OtherKeys DEF Tick
<1> QED BY <1>1, <1>2, <1>3, <1>4, <1>5, <1>6, <1>7 DEF Next

\* Fencing tokens order the holders of a key: a stale holder's token is lower
\* than the live one's, for any clock, also one that is set back (lease.ts:
\* "a stale holder that wakes up after its lease expired can be detected").
THEOREM Fenced == Spec => []StaleIsFenced
<1>1. TypeOK /\ FenceInv /\ [Next]_vars => FenceInv'
  <2>1. FenceInv /\ UNCHANGED vars => FenceInv'
    BY DEF FenceInv, KeyFenced, vars
  <2> QED BY <2>1, FenceStep
<1> QED BY FenceInit, <1>1, FenceImplies, TypeCorrect, PTL DEF Spec
-----------------------------------------------------------------------------
(* Exclusion, while the clock only goes forward. *)

\* A worker that goes by an unexpired claim is the live holder in the map, and
\* knows the expiry time the map holds.
Backed(h, k) ==
  Believes(h, k) => HeldBy(k, h) /\ entries[k].expiresAt = claims[h][k].expiresAt
HoldInv == steady => \A k \in Keys, h \in Holders : Backed(h, k)

LEMMA HoldImplies == HoldInv => NoDoubleClaim
BY DEF HoldInv, Backed, NoDoubleClaim, HeldBy

LEMMA HoldInit == Init => HoldInv
BY DEF Init, HoldInv, Backed, Believes, NoClaim

LEMMA HoldStep ==
  ASSUME TypeOK, HoldInv, Next PROVE HoldInv'
<1> SUFFICES ASSUME steady', NEW j \in Keys, NEW g \in Holders, Believes(g, j)'
             PROVE  HeldBy(j, g)' /\ entries'[j].expiresAt = claims'[g][j].expiresAt
  BY DEF HoldInv, Backed
<1>0. now \in Nat
  BY LeaseAssumption DEF TypeOK
<1>s. steady
  <2>1. CASE Tick
    BY <2>1 DEF Tick
  <2>2. CASE ~Tick
    BY <2>2 DEF Next, Acquire, Refresh, Denied, NotHeld, Release, HolderOf
  <2> QED BY <2>1, <2>2
<1>b. Believes(g, j) => HeldBy(j, g) /\ entries[j].expiresAt = claims[g][j].expiresAt
  BY <1>s DEF HoldInv, Backed
\* The call is on another key, or by another worker that leaves the entry alone.
<1>u. ASSUME entries'[j] = entries[j], claims'[g][j] = claims[g][j], now' = now
      PROVE  HeldBy(j, g)' /\ entries'[j].expiresAt = claims'[g][j].expiresAt
  BY <1>u, <1>b DEF Believes, HeldBy, Live
<1>1. ASSUME NEW k \in Keys, NEW h \in Holders, NEW ttl \in Ttls, Acquire(k, h, ttl)
      PROVE  HeldBy(j, g)' /\ entries'[j].expiresAt = claims'[g][j].expiresAt
  <2>1. CASE j = k /\ g = h
    <3>1. /\ entries'[j].holder = g
          /\ entries'[j].expiresAt = now + NormalizeTtl(ttl)
          /\ claims'[g][j].expiresAt = now + NormalizeTtl(ttl)
          /\ now' = now
      BY <1>1, <2>1 DEF Acquire, Store, Told, ToClaim, TypeOK
    <3>2. now + NormalizeTtl(ttl) > now /\ g # Free
      BY NewExpiry, LeaseAssumption
    <3> QED BY <3>1, <3>2 DEF HeldBy, Live
  <2>2. CASE j = k /\ g # h
    <3>1. ~Live(j) /\ claims'[g][j] = claims[g][j] /\ now' = now
      BY <1>1, <2>2 DEF Acquire, Told, TypeOK
    <3> QED BY <3>1, <1>b DEF Believes, HeldBy
  <2>3. CASE j # k
    BY <1>1, <2>3, <1>u DEF Acquire, Store, Told, TypeOK
  <2> QED BY <2>1, <2>2, <2>3
<1>2. ASSUME NEW k \in Keys, NEW h \in Holders, NEW ttl \in Ttls, Refresh(k, h, ttl)
      PROVE  HeldBy(j, g)' /\ entries'[j].expiresAt = claims'[g][j].expiresAt
  <2>0. entries[k] \in Entries
    BY DEF TypeOK
  <2>1. CASE j = k /\ g = h
    <3>1. /\ entries'[j].holder = g
          /\ entries'[j].expiresAt = now + NormalizeTtl(ttl)
          /\ claims'[g][j].expiresAt = now + NormalizeTtl(ttl)
          /\ now' = now
      BY <2>0, <1>2, <2>1 DEF Refresh, Store, Told, ToClaim, HeldBy, TypeOK, Entries
    <3>2. now + NormalizeTtl(ttl) > now /\ g # Free
      BY NewExpiry, LeaseAssumption
    <3> QED BY <3>1, <3>2 DEF HeldBy, Live
  <2>2. CASE j = k /\ g # h
    <3>1. entries[j].holder = h /\ claims'[g][j] = claims[g][j] /\ now' = now
      BY <1>2, <2>2 DEF Refresh, HeldBy, Told, TypeOK
    <3> QED BY <3>1, <2>2, <1>b DEF Believes, HeldBy
  <2>3. CASE j # k
    BY <1>2, <2>3, <1>u DEF Refresh, Store, Told, TypeOK
  <2> QED BY <2>1, <2>2, <2>3
\* A worker that was told it has no claim goes by none.
<1>n. ASSUME claims'[g][j] = NoClaim, now' = now PROVE FALSE
  BY <1>n, <1>0 DEF Believes, NoClaim
<1>3. ASSUME NEW k \in Keys, NEW h \in Holders, Denied(k, h)
      PROVE  HeldBy(j, g)' /\ entries'[j].expiresAt = claims'[g][j].expiresAt
  <2>1. CASE j = k /\ g = h
    BY <1>3, <2>1, <1>n DEF Denied, Told, TypeOK
  <2>2. CASE ~(j = k /\ g = h)
    BY <1>3, <2>2, <1>u DEF Denied, Told, TypeOK
  <2> QED BY <2>1, <2>2
<1>4. ASSUME NEW k \in Keys, NEW h \in Holders, NotHeld(k, h)
      PROVE  HeldBy(j, g)' /\ entries'[j].expiresAt = claims'[g][j].expiresAt
  <2>1. CASE j = k /\ g = h
    BY <1>4, <2>1, <1>n DEF NotHeld, Told, TypeOK
  <2>2. CASE j = k /\ g # h
    <3>1. ~Live(j) /\ claims'[g][j] = claims[g][j] /\ now' = now
      BY <1>4, <2>2 DEF NotHeld, Told, TypeOK
    <3> QED BY <3>1, <1>b DEF Believes, HeldBy
  <2>3. CASE j # k
    BY <1>4, <2>3, <1>u DEF NotHeld, Purge, Told, TypeOK
  <2> QED BY <2>1, <2>2, <2>3
<1>5. ASSUME NEW k \in Keys, NEW h \in Holders, Release(k, h)
      PROVE  HeldBy(j, g)' /\ entries'[j].expiresAt = claims'[g][j].expiresAt
  <2>1. CASE j = k /\ g = h
    BY <1>5, <2>1, <1>n DEF Release, Told, TypeOK
  <2>2. CASE j = k /\ g # h
    <3>1. entries[j].holder = h /\ claims'[g][j] = claims[g][j] /\ now' = now
      BY <1>5, <2>2 DEF Release, HeldBy, Told, TypeOK
    <3> QED BY <3>1, <2>2, <1>b DEF Believes, HeldBy
  <2>3. CASE j # k
    BY <1>5, <2>3, <1>u DEF Release, Store, Told, TypeOK
  <2> QED BY <2>1, <2>2, <2>3
<1>6. ASSUME NEW k \in Keys, HolderOf(k)
      PROVE  HeldBy(j, g)' /\ entries'[j].expiresAt = claims'[g][j].expiresAt
  <2>1. claims' = claims /\ now' = now
    BY <1>6 DEF HolderOf
  <2>2. Live(j)
    BY <2>1, <1>b DEF Believes, HeldBy
  <2>3. entries'[j] = entries[j]
    BY <1>6, <2>2 DEF HolderOf, Purge, TypeOK
  <2> QED BY <2>1, <2>3, <1>u
<1>7. ASSUME Tick
      PROVE  HeldBy(j, g)' /\ entries'[j].expiresAt = claims'[g][j].expiresAt
  <2>0. now' > now
    BY <1>7, Zenon DEF Tick
  <2>1. now' > now /\ now' \in Nat /\ entries' = entries /\ claims' = claims
    BY <1>7, <2>0, LeaseAssumption DEF Tick
  <2>2. claims[g][j].expiresAt > now' /\ claims[g][j].expiresAt \in Nat
    <3>1. claims[g][j] \in Claims
      BY DEF TypeOK
    <3>2. Expiries \subseteq Nat
      BY TtlPositive, LeaseAssumption DEF Expiries
    <3> QED BY <3>1, <3>2, <2>1 DEF Claims, Believes
  <2>3. Believes(g, j)
    BY <2>1, <2>2, <1>0 DEF Believes
  <2> QED BY <2>1, <2>2, <2>3, <1>b DEF HeldBy, Live
<1> QED BY <1>1, <1>2, <1>3, <1>4, <1>5, <1>6, <1>7 DEF Next

\* No double claims (lease.ts: "two workers can never run the same node"): as
\* long as the clock was never set back, at most one worker goes by an unexpired
\* claim on a key.
THEOREM Exclusive == Spec => []NoDoubleClaim
<1>1. TypeOK /\ HoldInv /\ [Next]_vars => HoldInv'
  <2>1. HoldInv /\ UNCHANGED vars => HoldInv'
    BY DEF HoldInv, Backed, Believes, HeldBy, Live, vars
  <2> QED BY <2>1, HoldStep
<1> QED BY HoldInit, <1>1, HoldImplies, TypeCorrect, PTL DEF Spec
-----------------------------------------------------------------------------
(* The in-memory lease implements the contract. *)

Owner(k) == IF Live(k) THEN entries[k].holder ELSE Free
Owners   == [k \in Keys |-> Owner(k)]

\* A call that keeps every owner and token is a stutter of the contract.
LEMMA SameOwners ==
  ASSUME \A k \in Keys : Owner(k)' = Owner(k), tokens' = tokens
  PROVE  UNCHANGED Contract!vars
BY DEF Contract!vars, Owner

LEMMA ContractInit == Init => Contract!Init
BY DEF Init, Contract!Init, Live, NoEntry

LEMMA ContractStep ==
  ASSUME TypeOK, ~ClockBack, Next
  PROVE  Contract!Next \/ UNCHANGED Contract!vars
<1>0. now \in Nat
  BY LeaseAssumption DEF TypeOK
<1>1. ASSUME NEW k \in Keys, NEW h \in Holders, NEW ttl \in Ttls, Acquire(k, h, ttl)
      PROVE  Contract!Grant(k, h)
  <2>1. /\ entries'[k].holder = h /\ entries'[k].expiresAt = now + NormalizeTtl(ttl)
        /\ now' = now /\ \A j \in Keys : j # k => entries'[j] = entries[j]
    BY <1>1 DEF Acquire, Store, TypeOK
  <2>2. now + NormalizeTtl(ttl) > now /\ h # Free
    BY NewExpiry, LeaseAssumption
  <2>3. Owner(k) = Free /\ Owner(k)' = h
    BY <1>1, <2>1, <2>2 DEF Acquire, Owner, Live
  <2>4. \A j \in Keys : j # k => Owner(j)' = Owner(j)
    BY <2>1 DEF Owner, Live
  <2>5. tokens' = [tokens EXCEPT ![k] = @ + 1]
    BY <1>1 DEF Acquire
  <2>6. Owners' = [Owners EXCEPT ![k] = h]
    BY <2>3, <2>4 DEF Owners
  <2> QED BY <2>3, <2>5, <2>6 DEF Contract!Grant, Owners, Owner
<1>2. ASSUME NEW k \in Keys, NEW h \in Holders, NEW ttl \in Ttls, Refresh(k, h, ttl)
      PROVE  UNCHANGED Contract!vars
  <2>0. entries[k] \in Entries
    BY DEF TypeOK
  <2>1. /\ entries'[k].holder = h /\ entries'[k].expiresAt = now + NormalizeTtl(ttl)
        /\ now' = now /\ \A j \in Keys : j # k => entries'[j] = entries[j]
    BY <2>0, <1>2 DEF Refresh, Store, HeldBy, TypeOK, Entries
  <2>2. now + NormalizeTtl(ttl) > now /\ h # Free
    BY NewExpiry, LeaseAssumption
  <2>3. Owner(k) = h /\ Owner(k)' = h
    BY <1>2, <2>1, <2>2 DEF Refresh, HeldBy, Owner, Live
  <2>4. \A j \in Keys : Owner(j)' = Owner(j)
    BY <2>1, <2>3 DEF Owner, Live
  <2> QED BY <1>2, <2>4, SameOwners DEF Refresh
<1>3. ASSUME NEW k \in Keys, NEW h \in Holders, Denied(k, h)
      PROVE  UNCHANGED Contract!vars
  BY <1>3, SameOwners DEF Denied, Owner, Live
\* Deleting an expired entry does not change an owner.
<1>p. ASSUME NEW k \in Keys, Purge(k), now' = now
      PROVE  \A j \in Keys : Owner(j)' = Owner(j)
  BY <1>p DEF Purge, Owner, Live, NoEntry, TypeOK
<1>4. ASSUME NEW k \in Keys, NEW h \in Holders, NotHeld(k, h)
      PROVE  UNCHANGED Contract!vars
  BY <1>4, <1>p, SameOwners DEF NotHeld
<1>5. ASSUME NEW k \in Keys, NEW h \in Holders, Release(k, h)
      PROVE  Contract!GiveUp(k, h)
  <2>1. /\ entries'[k].holder = Free /\ now' = now /\ tokens' = tokens
        /\ \A j \in Keys : j # k => entries'[j] = entries[j]
    BY <1>5 DEF Release, Store, NoEntry, TypeOK
  <2>2. Owner(k) = h /\ Owner(k)' = Free /\ \A j \in Keys : j # k => Owner(j)' = Owner(j)
    BY <1>5, <2>1 DEF Release, HeldBy, Owner, Live
  <2>3. Owners' = [Owners EXCEPT ![k] = Free]
    BY <2>2 DEF Owners
  <2> QED BY <2>1, <2>2, <2>3 DEF Contract!GiveUp, Owners, Owner
<1>6. ASSUME NEW k \in Keys, HolderOf(k)
      PROVE  UNCHANGED Contract!vars
  BY <1>6, <1>p, SameOwners DEF HolderOf
<1>7. ASSUME Tick
      PROVE  \E S \in SUBSET Keys : Contract!Lapse(S)
  <2>1. now' > now /\ now' \in Nat /\ entries' = entries /\ tokens' = tokens
    BY <1>7, LeaseAssumption DEF Tick
  <2>2. \A k \in Keys : Live(k)' => Live(k)
    <3> SUFFICES ASSUME NEW k \in Keys, Live(k)' PROVE Live(k)
      OBVIOUS
    <3>1. entries[k].expiresAt \in Nat
      BY TtlPositive, LeaseAssumption DEF TypeOK, Entries, Expiries
    <3> QED BY <2>1, <3>1, <1>0 DEF Live
  <2>3. \A k \in Keys : Owner(k)' = IF Live(k)' THEN Owner(k) ELSE Free
    BY <2>1, <2>2 DEF Owner
  <2>4. PICK S \in SUBSET Keys : S = {k \in Keys : ~Live(k)'}
    OBVIOUS
  <2>5. Contract!Lapse(S)
    BY <2>1, <2>3, <2>4 DEF Contract!Lapse, Owner
  <2> QED BY <2>5
<1> QED BY <1>1, <1>2, <1>3, <1>4, <1>5, <1>6, <1>7 DEF Next, Contract!Next

\* The in-memory lease implements the contract of the NodeSliceLease interface
\* under a clock that is never set back: every call grants a free key under the
\* next token, gives up the caller's own key, or changes no owner.
THEOREM Implements == ~ClockBack /\ Spec => ImplementsContract
<1> SUFFICES ASSUME ~ClockBack PROVE Spec => ImplementsContract
  OBVIOUS
<1>1. TypeOK /\ [Next]_vars => [Contract!Next]_(Contract!vars)
  <2>1. UNCHANGED vars => UNCHANGED Contract!vars
    BY DEF vars, Contract!vars, Live
  <2> QED BY <2>1, ContractStep
<1> QED BY ContractInit, <1>1, TypeCorrect, PTL DEF Spec, ImplementsContract, Contract!Spec

-----------------------------------------------------------------------------
(***************************************************************************)
(* The lease over Redis, for any number of keys and processes, any TTLs,   *)
(* any interleaving of the commands and any delay of their answers.        *)
(***************************************************************************)

\* What a call under way has seen: the key it is about is one of the leases, and
\* before a PEXPIRE or DEL its GET answered the caller's own name.
CallInv ==
  \A h \in RHolders :
    /\ call[h].op # "none" => call[h].key \in RKeys
    /\ call[h].op \in {"claimExpire", "renewExpire", "del"} => call[h].saw = h

\* The server's key is h's and lasts until u.
KeyLasts(h, k, u) == k \in slipped \/ (held[k].holder = h /\ held[k].until >= u)

\* A grant on its way back is backed for its whole TTL, counted from the command; a
\* claim for as long as the server counts it, its expiry less what the answer took.
\* Both are what makes HeldWhileGranted survive the clock and the answer.
OnItsWay(h) ==
  call[h].op = "granted" /\ call[h].at + call[h].ttl > clock =>
    KeyLasts(h, call[h].key, call[h].at + call[h].ttl)
OnServer(h, k) == Assured(h, k) => KeyLasts(h, k, granted[h][k].until - granted[h][k].lag)
Safe(h) == OnItsWay(h) /\ \A k \in RKeys : OnServer(h, k)

RedisInv == RedisTypeOK /\ CallInv /\ \A h \in RHolders : Safe(h)

LEMMA RedisInitInv == RedisInit => RedisInv
BY RedisAssumption
   DEF RedisInit, RedisInv, RedisTypeOK, CallInv, Safe, OnItsWay, OnServer, Assured, NoCall, NoGrant, Ops

\* A command of h's changes at most the entry of its key, and only one that is empty,
\* its own, or counted as slipped: nobody else's claim is disturbed.
LEMMA OthersKeep ==
  ASSUME RedisTypeOK, NEW h \in RHolders, NEW g \in RHolders, g # h, NEW k \in RKeys, Safe(g), CallInv,
         clock' = clock, call'[g] = call[g], granted'[g] = granted[g], slipped \subseteq slipped',
         \A j \in RKeys : j # k => held'[j] = held[j],
         held'[k] = held[k] \/ Empty(k) \/ Got(k) = h \/ k \in slipped'
  PROVE  Safe(g)'
<1>1. ASSUME NEW j \in RKeys, NEW u \in Nat, u > clock, KeyLasts(g, j, u) PROVE KeyLasts(g, j, u)'
  <2>1. held[j].until \in Nat /\ clock \in Nat /\ g # RNobody
    BY RedisAssumption DEF RedisTypeOK
  <2>2. CASE j \in slipped
    BY <2>2 DEF KeyLasts
  <2>3. CASE j # k /\ j \notin slipped
    BY <1>1, <2>3 DEF KeyLasts
  <2>4. CASE j = k /\ k \notin slipped
    <3>1. held[k].holder = g /\ held[k].until >= u
      BY <1>1, <2>4 DEF KeyLasts
    <3>2. ~Empty(k) /\ Got(k) = g
      BY <1>1, <2>1, <2>4, <3>1 DEF Empty, Got
    <3> QED BY <2>4, <3>1, <3>2 DEF KeyLasts
  <2> QED BY <2>2, <2>3, <2>4
<1>2. OnItsWay(g)'
  <2>1. SUFFICES ASSUME call[g].op = "granted", call[g].at + call[g].ttl > clock
                 PROVE  KeyLasts(g, call[g].key, call[g].at + call[g].ttl)'
    BY DEF OnItsWay
  <2>2. PICK j, u : j = call[g].key /\ u = call[g].at + call[g].ttl
    OBVIOUS
  <2>3. j \in RKeys /\ u \in Nat /\ u > clock /\ KeyLasts(g, j, u)
    BY <2>1, <2>2 DEF RedisTypeOK, CallInv, Safe, OnItsWay
  <2>4. KeyLasts(g, j, u)'
    BY <1>1, <2>3
  <2> QED BY <2>2, <2>4 DEF KeyLasts
<1>3. ASSUME NEW j \in RKeys PROVE OnServer(g, j)'
  <2>1. SUFFICES ASSUME Assured(g, j) PROVE KeyLasts(g, j, granted[g][j].until - granted[g][j].lag)'
    BY DEF OnServer, Assured
  <2>2. PICK u : u = granted[g][j].until - granted[g][j].lag
    OBVIOUS
  <2>3. u \in Nat /\ u > clock /\ KeyLasts(g, j, u)
    BY <2>1, <2>2 DEF RedisTypeOK, Safe, OnServer, Assured
  <2>4. KeyLasts(g, j, u)'
    BY <1>1, <2>3
  <2> QED BY <2>2, <2>4 DEF KeyLasts
<1> QED BY <1>2, <1>3 DEF Safe

\* A caller whose answer is not back yet stays assured of no more than it was.
LEMMA CallerKeeps ==
  ASSUME RedisInv, NEW h \in RHolders, NEW k \in RKeys, NEW c,
         call[h].op \notin {"granted", "refused"}, call' = [call EXCEPT ![h] = c],
         c.key = k, c.op \in {"granted", "refused"} \/ held'[k] = held[k],
         clock' = clock, granted' = granted, slipped \subseteq slipped',
         \A j \in RKeys : j # k => held'[j] = held[j]
  PROVE  \A j \in RKeys : OnServer(h, j)'
<1> SUFFICES ASSUME NEW j \in RKeys PROVE OnServer(h, j)'
  OBVIOUS
<1>0. call'[h] = c
  BY DEF RedisInv, RedisTypeOK
<1>1. CASE j = k /\ c.op \in {"granted", "refused"}
  BY <1>0, <1>1 DEF OnServer, Assured
<1>2. CASE held'[j] = held[j]
  BY <1>0, <1>2 DEF RedisInv, Safe, OnServer, Assured, KeyLasts
<1> QED BY <1>1, <1>2

\* The frame of a command: the types, what its own caller may count on, the others.
LEMMA CommandFrame ==
  ASSUME RedisInv, NEW h \in RHolders, NEW k \in RKeys, NEW c,
         call' = [call EXCEPT ![h] = c], RedisTypeOK', CallInv', OnItsWay(h)',
         call[h].op \notin {"granted", "refused"}, c.key = k,
         c.op \in {"granted", "refused"} \/ held'[k] = held[k],
         clock' = clock, granted' = granted, slipped \subseteq slipped',
         \A j \in RKeys : j # k => held'[j] = held[j],
         held'[k] = held[k] \/ Empty(k) \/ Got(k) = h \/ k \in slipped'
  PROVE  RedisInv'
<1>1. Safe(h)'
  BY CallerKeeps DEF Safe
<1>2. ASSUME NEW g \in RHolders, g # h PROVE Safe(g)'
  BY <1>2, OthersKeep DEF RedisInv, RedisTypeOK
<1> QED BY <1>1, <1>2 DEF RedisInv

LEMMA CompareStep ==
  ASSUME RedisInv, NEW h \in RHolders, NEW k \in RKeys, NEW ttl \in Nat,
         NEW op \in {"claimExpire", "renewExpire", "del"}, Compare(h, k, op, ttl),
         call[h].op \notin {"granted", "refused"}
  PROVE  RedisInv'
<1>1. PICK c : /\ c = IF Got(k) = h THEN Calling(op, k, ttl, h) ELSE Calling("refused", k, 1, RNobody)
               /\ call' = [call EXCEPT ![h] = c] /\ UNCHANGED <<clock, held, issued, granted, slipped>>
  BY DEF Compare
<1>2. /\ c \in [op : Ops, key : RKeys \cup {"none"}, ttl : Nat, saw : RHolders \cup {RNobody}, at : 0 .. clock]
      /\ c.key = k /\ c.op # "granted" /\ (c.op # "refused" => c.saw = h)
  BY <1>1 DEF Calling, Ops, RedisInv, RedisTypeOK
<1>3. RedisTypeOK' /\ CallInv' /\ OnItsWay(h)'
  BY <1>1, <1>2 DEF RedisInv, RedisTypeOK, CallInv, OnItsWay
<1> QED BY <1>1, <1>2, <1>3, CommandFrame

LEMMA ClaimStep ==
  ASSUME RedisInv, NEW h \in RHolders, NEW k \in RKeys, NEW ttl \in RTtls, RClaim(h, k, ttl)
  PROVE  RedisInv'
<1>0. ttl \in Nat /\ clock \in Nat /\ call[h].op = "none" /\ UNCHANGED <<clock, issued, granted, slipped>>
  BY RedisAssumption DEF RClaim, NoCall, RedisInv, RedisTypeOK
<1>1. CASE Nx(k) /\ held' = [held EXCEPT ![k] = [holder |-> h, until |-> clock + ttl]]
            /\ call' = [call EXCEPT ![h] = Granted(k, ttl)]
  <2>1. PICK c : c = Granted(k, ttl)
    OBVIOUS
  <2>2. /\ c \in [op : Ops, key : RKeys \cup {"none"}, ttl : Nat, saw : RHolders \cup {RNobody}, at : 0 .. clock]
        /\ c.key = k /\ c.op = "granted" /\ c.at = clock /\ c.ttl = ttl
    BY <1>0, <2>1 DEF Granted, Ops
  <2>3. [holder |-> h, until |-> clock + ttl] \in [holder : RHolders \cup {RNobody}, until : Nat]
    BY <1>0
  <2>4. RedisTypeOK' /\ CallInv'
    BY <1>0, <1>1, <2>1, <2>2, <2>3 DEF RedisInv, RedisTypeOK, CallInv
  <2>5. OnItsWay(h)'
    BY <1>0, <1>1, <2>1, <2>2 DEF RedisInv, RedisTypeOK, OnItsWay, KeyLasts
  <2>6. \A j \in RKeys : j # k => held'[j] = held[j]
    BY <1>1 DEF RedisInv, RedisTypeOK
  <2> QED BY <1>0, <1>1, <2>1, <2>2, <2>4, <2>5, <2>6, CommandFrame DEF Nx
<1>2. CASE call' = [call EXCEPT ![h] = Calling("claimGet", k, ttl, RNobody)] /\ UNCHANGED held
  <2>1. PICK c : c = Calling("claimGet", k, ttl, RNobody)
    OBVIOUS
  <2>2. /\ c \in [op : Ops, key : RKeys \cup {"none"}, ttl : Nat, saw : RHolders \cup {RNobody}, at : 0 .. clock]
        /\ c.key = k /\ c.op = "claimGet"
    BY <1>0, <2>1 DEF Calling, Ops
  <2>3. RedisTypeOK' /\ CallInv' /\ OnItsWay(h)'
    BY <1>0, <1>2, <2>1, <2>2 DEF RedisInv, RedisTypeOK, CallInv, OnItsWay
  <2> QED BY <1>0, <1>2, <2>1, <2>2, <2>3, CommandFrame
<1> QED BY <1>1, <1>2 DEF RClaim

\* A PEXPIRE that finds the entry of its GET renews it; one that meets another or
\* none has slipped, whatever it answers.
LEMMA PexpireStep ==
  ASSUME RedisInv, NEW h \in RHolders, Pexpire(h) PROVE RedisInv'
<1>1. PICK k, ttl : k = call[h].key /\ ttl = call[h].ttl
  OBVIOUS
<1>2. PICK c : c = IF Empty(k) /\ call[h].op = "renewExpire" THEN Calling("refused", k, 1, RNobody) ELSE Granted(k, ttl)
  OBVIOUS
<1>3. /\ k \in RKeys /\ ttl \in Nat /\ call[h].saw = h /\ clock \in Nat /\ h # RNobody
      /\ call[h].op \notin {"granted", "refused"}
  BY <1>1, RedisAssumption DEF Pexpire, RedisInv, CallInv, RedisTypeOK
<1>4. /\ UNCHANGED <<clock, issued, granted>> /\ call' = [call EXCEPT ![h] = c]
      /\ held' = IF Empty(k) THEN held ELSE [held EXCEPT ![k] = Extended(@, ttl)]
      /\ slipped' = IF Got(k) = h THEN slipped ELSE slipped \cup {k}
  BY <1>1, <1>2, <1>3 DEF Pexpire, Slip
<1>5. /\ c \in [op : Ops, key : RKeys \cup {"none"}, ttl : Nat, saw : RHolders \cup {RNobody}, at : 0 .. clock]
      /\ c.key = k /\ c.op \in {"granted", "refused"}
      /\ c.op = "granted" => c.at = clock /\ c.ttl = ttl
  BY <1>2, <1>3 DEF Granted, Calling, Ops
<1>6. /\ held' \in [RKeys -> [holder : RHolders \cup {RNobody}, until : Nat]]
      /\ \A j \in RKeys : j # k => held'[j] = held[j]
      /\ ~Empty(k) => held'[k].holder = held[k].holder /\ held'[k].until = clock + ttl
  <2>1. CASE Empty(k)
    BY <2>1, <1>4 DEF RedisInv, RedisTypeOK
  <2>2. CASE ~Empty(k)
    <3> DEFINE e == [holder |-> held[k].holder, until |-> clock + ttl]
    <3>1. held \in [RKeys -> [holder : RHolders \cup {RNobody}, until : Nat]] /\ clock + ttl \in Nat
      BY <1>3 DEF RedisInv, RedisTypeOK
    <3>2. Extended(held[k], ttl) = e
      BY <1>3, <3>1 DEF Extended
    <3>3. held' = [held EXCEPT ![k] = e]
      BY <2>2, <1>4, <3>2
    <3> QED BY <1>3, <3>1, <3>3
  <2> QED BY <2>1, <2>2
<1>7. RedisTypeOK' /\ CallInv'
  BY <1>3, <1>4, <1>5, <1>6 DEF RedisInv, RedisTypeOK, CallInv
<1>8. OnItsWay(h)'
  <2>1. call'[h] = c
    BY <1>4 DEF RedisInv, RedisTypeOK
  <2>2. CASE Got(k) # h
    BY <2>1, <2>2, <1>4, <1>5 DEF OnItsWay, KeyLasts
  <2>3. CASE Got(k) = h
    BY <2>1, <2>3, <1>3, <1>4, <1>5, <1>6 DEF OnItsWay, KeyLasts, Got
  <2> QED BY <2>2, <2>3
<1>9. slipped \subseteq slipped' /\ (Got(k) = h \/ k \in slipped')
  BY <1>4
<1> QED BY <1>3, <1>4, <1>5, <1>6, <1>7, <1>8, <1>9, CommandFrame

LEMMA DelStep ==
  ASSUME RedisInv, NEW h \in RHolders, Del(h) PROVE RedisInv'
<1>1. PICK k, c : k = call[h].key /\ c = Calling("refused", k, 1, RNobody)
  OBVIOUS
<1>2. k \in RKeys /\ call[h].saw = h /\ call[h].op = "del" /\ clock \in Nat
  BY <1>1 DEF Del, RedisInv, CallInv, RedisTypeOK
<1>3. /\ UNCHANGED <<clock, issued, granted>> /\ call' = [call EXCEPT ![h] = c]
      /\ held' = [held EXCEPT ![k] = [holder |-> RNobody, until |-> 0]]
      /\ slipped' = IF Got(k) = h THEN slipped ELSE slipped \cup {k}
  BY <1>1, <1>2 DEF Del, Slip
<1>4. /\ c \in [op : Ops, key : RKeys \cup {"none"}, ttl : Nat, saw : RHolders \cup {RNobody}, at : 0 .. clock]
      /\ c.key = k /\ c.op = "refused"
  BY <1>1, <1>2 DEF Calling, Ops
<1>5. RedisTypeOK' /\ CallInv' /\ OnItsWay(h)'
  BY <1>2, <1>3, <1>4 DEF RedisInv, RedisTypeOK, CallInv, OnItsWay
<1>6. /\ \A j \in RKeys : j # k => held'[j] = held[j]
      /\ slipped \subseteq slipped' /\ (Got(k) = h \/ k \in slipped')
  BY <1>2, <1>3 DEF RedisInv, RedisTypeOK
<1> QED BY <1>2, <1>3, <1>4, <1>5, <1>6, CommandFrame

\* The answer turns what was granted into a claim that is late by what it took.
LEMMA AnswerStep ==
  ASSUME RedisInv, NEW h \in RHolders, Answer(h) PROVE RedisInv'
<1>1. PICK k, ttl, at : k = call[h].key /\ ttl = call[h].ttl /\ at = call[h].at
  OBVIOUS
<1>2. /\ k \in RKeys /\ ttl \in Nat /\ at \in 0 .. clock /\ clock \in Nat /\ clock > 0
      /\ UNCHANGED <<clock, held, slipped>> /\ call' = [call EXCEPT ![h] = NoCall]
      /\ \/ call[h].op = "granted" /\ ClaimFor(h, k, ttl)
         \/ call[h].op = "refused" /\ Refuse(h, k)
  BY <1>1 DEF Answer, RedisInv, CallInv, RedisTypeOK
<1>3. PICK e : /\ granted' = [granted EXCEPT ![h][k] = e] /\ issued' \in [RHolders -> 0 .. MaxIssued]
               /\ e \in [until : Nat, lag : Nat, token : 0 .. MaxIssued]
               /\ e.until - e.lag > clock =>
                    call[h].op = "granted" /\ at + ttl > clock /\ e.until - e.lag = at + ttl
  <2>1. CASE call[h].op = "granted" /\ ClaimFor(h, k, ttl)
    <3>1. PICK e : e = [until |-> clock + ttl, lag |-> clock - at, token |-> issued[h] + 1]
      OBVIOUS
    <3>2. issued[h] + 1 \in 0 .. MaxIssued /\ clock + ttl \in Nat /\ clock - at \in Nat
      BY <1>2, <2>1, RedisAssumption DEF ClaimFor, RedisInv, RedisTypeOK
    <3>3. granted' = [granted EXCEPT ![h][k] = e] /\ issued' \in [RHolders -> 0 .. MaxIssued]
      BY <1>1, <2>1, <3>1, <3>2 DEF ClaimFor, RedisInv, RedisTypeOK
    <3>4. e.until - e.lag = at + ttl
      BY <1>2, <3>1, <3>2
    <3> QED BY <2>1, <3>1, <3>2, <3>3, <3>4
  <2>2. CASE call[h].op = "refused" /\ Refuse(h, k)
    <3>1. PICK e : e = NoGrant
      OBVIOUS
    <3>2. e \in [until : Nat, lag : Nat, token : 0 .. MaxIssued] /\ e.until - e.lag = 0
      BY <3>1, RedisAssumption DEF NoGrant
    <3>3. granted' = [granted EXCEPT ![h][k] = e] /\ issued' \in [RHolders -> 0 .. MaxIssued]
      BY <2>2, <3>1 DEF Refuse, RedisInv, RedisTypeOK
    <3>4. ~(e.until - e.lag > clock)
      BY <1>2, <3>2
    <3> QED BY <3>2, <3>3, <3>4
  <2> QED BY <1>2, <2>1, <2>2
<1>4. /\ granted'[h][k] = e
      /\ \A g \in RHolders, j \in RKeys : g # h \/ j # k => granted'[g][j] = granted[g][j]
      /\ granted' \in [RHolders -> [RKeys -> [until : Nat, lag : Nat, token : 0 .. MaxIssued]]]
      /\ call'[h] = NoCall /\ \A g \in RHolders : g # h => call'[g] = call[g]
  BY <1>2, <1>3 DEF RedisInv, RedisTypeOK
<1>5. NoCall \in [op : Ops, key : RKeys \cup {"none"}, ttl : Nat, saw : RHolders \cup {RNobody}, at : 0 .. clock]
  BY <1>2 DEF NoCall, Ops
<1>6. RedisTypeOK' /\ CallInv' /\ OnItsWay(h)'
  BY <1>2, <1>3, <1>4, <1>5 DEF RedisInv, RedisTypeOK, CallInv, NoCall, OnItsWay
<1>7. OnServer(h, k)'
  <2>1. SUFFICES ASSUME e.until > clock + e.lag PROVE KeyLasts(h, k, e.until - e.lag)'
    BY <1>2, <1>4 DEF OnServer, Assured
  <2>2. e.until - e.lag > clock /\ e.until - e.lag = at + ttl
    BY <1>2, <1>3, <2>1
  <2>3. KeyLasts(h, k, at + ttl)
    BY <1>1, <1>3, <2>2 DEF RedisInv, Safe, OnItsWay
  <2> QED BY <1>2, <2>2, <2>3 DEF KeyLasts
<1>8. ASSUME NEW j \in RKeys, j # k PROVE OnServer(h, j)'
  BY <1>1, <1>2, <1>4, <1>8 DEF RedisInv, Safe, OnServer, Assured, KeyLasts
<1>9. ASSUME NEW g \in RHolders, g # h PROVE Safe(g)'
  <2>1. granted'[g] = granted[g]
    BY <1>3, <1>9 DEF RedisInv, RedisTypeOK
  <2> QED BY <1>2, <1>4, <1>9, <2>1, OthersKeep DEF RedisInv
<1> QED BY <1>6, <1>7, <1>8, <1>9 DEF RedisInv, Safe

LEMMA CrashStep ==
  ASSUME RedisInv, NEW h \in RHolders, ProcessCrash(h) PROVE RedisInv'
BY RedisAssumption
   DEF ProcessCrash, RedisInv, RedisTypeOK, CallInv, Safe, OnItsWay, OnServer, Assured, KeyLasts, NoCall, NoGrant, Ops

LEMMA TickStep ==
  ASSUME RedisInv, ClockTick PROVE RedisInv'
BY DEF ClockTick, RedisInv, RedisTypeOK, CallInv, Safe, OnItsWay, OnServer, Assured, KeyLasts

LEMMA RedisStep ==
  ASSUME RedisInv, RedisNext PROVE RedisInv'
<1>1. ASSUME NEW h \in RHolders, NEW k \in RKeys, NEW ttl \in RTtls, RRenew(h, k, ttl) PROVE RedisInv'
  BY <1>1, CompareStep, RedisAssumption DEF RRenew, NoCall
<1>2. ASSUME NEW h \in RHolders, NEW k \in RKeys, RRelease(h, k) PROVE RedisInv'
  BY <1>2, CompareStep DEF RRelease, NoCall
<1>3. ASSUME NEW h \in RHolders, ClaimGet(h) PROVE RedisInv'
  <2>1. call[h].key \in RKeys /\ call[h].ttl \in Nat
    BY <1>3 DEF ClaimGet, RedisInv, RedisTypeOK, CallInv
  <2> QED BY <1>3, <2>1, CompareStep DEF ClaimGet
<1> QED BY <1>1, <1>2, <1>3, ClaimStep, PexpireStep, DelStep, AnswerStep, CrashStep, TickStep DEF RedisNext

LEMMA RedisAlways == RedisSpec => []RedisInv
<1>1. RedisInv /\ UNCHANGED redisVars => RedisInv'
  BY DEF redisVars, RedisInv, RedisTypeOK, CallInv, Safe, OnItsWay, OnServer, Assured, KeyLasts
<1> QED BY RedisInitInv, RedisStep, <1>1, PTL DEF RedisSpec

LEMMA GrantIsHeld == RedisInv => LeaseIsHeld
<1> SUFFICES ASSUME RedisInv, NEW h \in RHolders, NEW k \in RKeys, Assured(h, k)
             PROVE  k \in slipped \/ Got(k) = h
  BY DEF RedisInv, LeaseIsHeld, HeldWhileGranted
<1> QED BY RedisAssumption DEF RedisInv, RedisTypeOK, Safe, OnServer, Assured, KeyLasts, Got, Empty

\* A claim is backed by the server's key for the TTL less the time its answer took,
\* for any number of processes and any order of their commands and answers, unless a
\* PEXPIRE or DEL of that key came after it had changed hands (lease.ts:231, 251).
THEOREM RedisHolds == RedisSpec => []LeaseIsHeld
BY RedisAlways, GrantIsHeld, PTL

\* Two processes within that part of a claim of one key: then a command has slipped.
OneGrantEach ==
  \A k \in RKeys \ slipped, g, h \in RHolders : Assured(g, k) /\ Assured(h, k) => g = h

\* The exclusion the stub promises (lease.ts: two workers never run the same node) is
\* lost through those two commands or in a claim's last part, which the answer's way
\* took from it, and nowhere else.
THEOREM RedisExcludes == RedisSpec => []OneGrantEach
<1>1. LeaseIsHeld => OneGrantEach
  BY DEF LeaseIsHeld, HeldWhileGranted, OneGrantEach
<1> QED BY RedisHolds, <1>1, PTL
=============================================================================
