---------------------------- MODULE NodeSliceLease ----------------------------
(***************************************************************************)
(* InMemoryNodeSliceLease of hdv-foundation/nodes/lease.ts, with the       *)
(* workers that call it.  Each call runs without an await and is one step. *)
(* The clock is Date.now or an injected one: with ClockBack it may also be *)
(* set back.                                                               *)
(***************************************************************************)
EXTENDS Naturals

CONSTANTS
  Keys,       \* node-slice keys
  Holders,    \* worker ids
  Free,       \* the holder in an entry that is not in the map
  Ttls,       \* the ttlMs callers ask for; 0 stands for one that is not positive
  DefaultTtl, \* DEFAULT_TTL_MS
  ClockBack,  \* whether the clock may be set back
  MaxNow,     \* bound on the clock
  MaxToken    \* bound on the grants of a key

ASSUME LeaseAssumption ==
  /\ Free \notin Holders
  /\ Ttls \subseteq Nat /\ DefaultTtl \in Nat \ {0}
  /\ ClockBack \in BOOLEAN
  /\ MaxNow \in Nat /\ MaxToken \in Nat

VARIABLES
  entries,  \* the entry of each key
  tokens,   \* the last fencing token of each key
  now,      \* the clock
  claims,   \* the claim each worker was last given on a key and has neither
            \* released nor been denied
  steady    \* history: the clock was never set back

vars == <<entries, tokens, now, claims, steady>>

NoClaim == [expiresAt |-> 0, fencingToken |-> 0]
NoEntry == [holder |-> Free, expiresAt |-> 0, fencingToken |-> 0]
ToClaim(e) == [expiresAt |-> e.expiresAt, fencingToken |-> e.fencingToken]
-----------------------------------------------------------------------------
NormalizeTtl(ttl) == IF ttl > 0 THEN ttl ELSE DefaultTtl

\* liveEntry finds an entry; one that has expired counts as absent ...
Live(k) == entries[k].holder # Free /\ entries[k].expiresAt > now
HeldBy(k, h) == Live(k) /\ entries[k].holder = h
\* ... and is deleted when a call comes across it.
Purge(k) == entries' = [entries EXCEPT ![k] = IF Live(k) THEN @ ELSE NoEntry]

Init ==
  /\ entries = [k \in Keys |-> NoEntry]
  /\ tokens  = [k \in Keys |-> 0]
  /\ now     = 0
  /\ claims  = [h \in Holders |-> [k \in Keys |-> NoClaim]]
  /\ steady  = TRUE

\* The caller keeps the claim it got, or has learnt that it has none.
Store(k, e) == entries' = [entries EXCEPT ![k] = e]
Told(h, k, c) == claims' = [claims EXCEPT ![h][k] = c]

\* claim on a free or expired key: a new entry under the next token.
Acquire(k, h, ttl) ==
  LET e == [holder |-> h, expiresAt |-> now + NormalizeTtl(ttl), fencingToken |-> tokens[k] + 1]
  IN  /\ ~Live(k) /\ tokens[k] < MaxToken
      /\ tokens' = [tokens EXCEPT ![k] = @ + 1]
      /\ Store(k, e) /\ Told(h, k, ToClaim(e))
      /\ UNCHANGED <<now, steady>>

Refresh_Late(k, h, ttl) ==
  LET e == [entries[k] EXCEPT !.expiresAt = now + NormalizeTtl(ttl)]
  IN  /\ entries[k].holder = h
      /\ Store(k, e) /\ Told(h, k, ToClaim(e))
      /\ UNCHANGED <<tokens, now, steady>>
\* claim or renew by the live holder: the token stays, the TTL starts anew.
Refresh(k, h, ttl) ==
  LET e == [entries[k] EXCEPT !.expiresAt = now + NormalizeTtl(ttl)]
  IN  /\ HeldBy(k, h)
      /\ Store(k, e) /\ Told(h, k, ToClaim(e))
      /\ UNCHANGED <<tokens, now, steady>>

Denied_TellsToken(k, h) ==
  /\ Live(k) /\ entries[k].holder # h
  /\ Told(h, k, [NoClaim EXCEPT !.fencingToken = entries[k].fencingToken])
  /\ UNCHANGED <<entries, tokens, now, steady>>
\* claim, renew or release against another live holder.
Denied(k, h) ==
  /\ Live(k) /\ entries[k].holder # h
  /\ Told(h, k, NoClaim)
  /\ UNCHANGED <<entries, tokens, now, steady>>

\* renew or release of a key nobody holds.
NotHeld(k, h) ==
  /\ ~Live(k)
  /\ Purge(k)
  /\ Told(h, k, NoClaim)
  /\ UNCHANGED <<tokens, now, steady>>

Release_AnyHolder(k, h) ==
  /\ Live(k)
  /\ Store(k, NoEntry) /\ Told(h, k, NoClaim)
  /\ UNCHANGED <<tokens, now, steady>>
\* Compare and delete.
Release(k, h) ==
  /\ HeldBy(k, h)
  /\ Store(k, NoEntry) /\ Told(h, k, NoClaim)
  /\ UNCHANGED <<tokens, now, steady>>

HolderOf(k) == Purge(k) /\ UNCHANGED <<tokens, now, claims, steady>>

Tick ==
  /\ now' \in {t \in 0..MaxNow : t > now \/ (ClockBack /\ t < now)}
  /\ steady' = (steady /\ now' > now)
  /\ UNCHANGED <<entries, tokens, claims>>

Next ==
  \/ \E k \in Keys, h \in Holders :
       \/ \E ttl \in Ttls : Acquire(k, h, ttl) \/ Refresh(k, h, ttl)
       \/ Denied(k, h) \/ NotHeld(k, h) \/ Release(k, h)
  \/ \E k \in Keys : HolderOf(k)
  \/ Tick

Spec == Init /\ [][Next]_vars
-----------------------------------------------------------------------------
\* A lease never runs further ahead of the clock than one TTL.
Expiries == {0} \cup {t + NormalizeTtl(ttl) : t \in 0..MaxNow, ttl \in Ttls}
Claims   == [expiresAt : Expiries, fencingToken : 0..MaxToken]
Entries  == [holder : Holders \cup {Free}, expiresAt : Expiries, fencingToken : 0..MaxToken]

\* The types of the lease's maps and of what the workers remember.
TypeOK ==
  /\ entries \in [Keys -> Entries]
  /\ tokens \in [Keys -> 0..MaxToken]
  /\ now \in 0..MaxNow
  /\ claims \in [Holders -> [Keys -> Claims]]
  /\ steady \in BOOLEAN

\* A worker that goes by the expiry time it was told takes itself for the holder.
Believes(h, k) == claims[h][k].expiresAt > now

\* No double claims: while the clock only goes forward, two workers never both
\* go by an unexpired claim on the same key, whatever they claim, renew and
\* release, late or twice.
NoDoubleClaim ==
  steady => \A k \in Keys : \A g, h \in Holders : Believes(g, k) /\ Believes(h, k) => g = h

\* Fencing: whoever else was ever given a claim on a key remembers a lower
\* token than its live holder, even when the clock was set back; so a stale
\* holder that wakes up can be told from the current one.
StaleIsFenced ==
  \A k \in Keys, h \in Holders :
    Live(k) /\ entries[k].holder # h => claims[h][k].fencingToken < entries[k].fencingToken

\* The lease implements its contract: the owner of a key is its live holder.
Contract == INSTANCE LeaseContract WITH
  owner <- [k \in Keys |-> IF Live(k) THEN entries[k].holder ELSE Free],
  fence <- tokens

\* Under a clock that only goes forward each call grants a free key under the
\* next token, takes away the caller's own, or changes nothing.
ImplementsContract == Contract!Spec
=============================================================================
