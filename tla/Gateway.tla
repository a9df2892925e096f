------------------------------ MODULE Gateway ------------------------------
(* The HTTP front door of hdv-foundation (gateway/middleware.ts, server.ts) and
   the billing behind it (billing/): three fixed-window limiters and the key
   check before a handler runs; allowances, the meter that observes every
   dispatch, and the stub of Stripe checkout.  Handlers run to their end. *)
EXTENDS Integers, Sequences, FiniteSets

CONSTANTS
  Ips, GateTenants,  \* "demo" is a tenant
  Limits,            \* [ip, auth, tenant]: hits per window
  Window, SweepAbove, SessionTtl, MaxOccurrences,
  Plans,             \* tier -> [included, cap, fee, byok]
  Unlimited, Unset,  \* a cap of null, an argument left out
  GateRequests,      \* [path, ip, tenant, key]
  EventSeqs,         \* what the router may report during one request
  MaxHits, MaxCheckouts, MaxClock  \* bounds

Demo == "demo"
MaxChain == 3  \* dispatches one request may cause: HOPE to APEX, on to an engine, its report to HOPE

ASSUME GatewayAssumption ==
  /\ Demo \in GateTenants
  /\ Limits \in [{"ip", "auth", "tenant"} -> Nat \ {0}]  \* zero would switch a limiter off
  /\ {Window, SweepAbove, SessionTtl, MaxOccurrences, MaxHits, MaxCheckouts, MaxClock} \subseteq Nat
  /\ Unlimited # Unset /\ Unlimited \notin Nat /\ Unset \notin Nat \cup DOMAIN Plans
  /\ {"FREE", "STARTER"} \subseteq DOMAIN Plans
  /\ \A tier \in DOMAIN Plans :
       Plans[tier].included \in Nat /\ Plans[tier].cap \in Nat \cup {Unlimited} /\ Plans[tier].fee \in Nat
  /\ \A r \in GateRequests : r.ip \in Ips /\ r.tenant \in GateTenants
  /\ \A es \in EventSeqs : Len(es) <= MaxChain

VARIABLES
  clock,
  buckets,   \* limiter -> key -> [count, resetAt]
  checkouts, \* the sessions issued
  acct,      \* AllowanceStore; a tenant without an account is as on the default tier
  meter,     \* MeterService counters
  passed, hits,          \* when each limiter let each key pass; requests so far (history)
  granted, highest, fees \* tiers set by the operator, the largest cap in force, BYOK fees (history)

guardVars == <<buckets, passed, hits>>
billVars == <<acct, meter, granted, highest, fees>>
gatewayVars == <<clock, guardVars, billVars, checkouts>>

Limiters == DOMAIN Limits
PublicPaths == {"health"}
ExemptPaths == PublicPaths \cup {"waitlist", "login", "checkout", "settle"}
AuthPaths == {"login"}
TenantPaths == {"checkout", "settle"}

Counting(l, k) == k \in DOMAIN buckets[l] /\ clock < buckets[l][k].resetAt
Count(l, k) == 1 + IF Counting(l, k) THEN buckets[l][k].count ELSE 0
Sweep(b) == IF Cardinality(DOMAIN b) > SweepAbove THEN [k \in {j \in DOMAIN b : clock < b[j].resetAt} |-> b[k]] ELSE b
hit(l, k) ==
  LET bucket == [count |-> Count(l, k), resetAt |-> IF Counting(l, k) THEN buckets[l][k].resetAt ELSE clock + Window]
  IN Sweep([j \in DOMAIN buckets[l] \cup {k} |-> IF j = k THEN bucket ELSE buckets[l][j]])

(* A request meets the limiters of its path in this order, up to the first
   that refuses it; a refused hit counts as well. *)
Rank == [ip |-> 1, auth |-> 2, tenant |-> 3]
Meets(r) == {l \in Limiters : /\ r.path \notin PublicPaths
                              /\ l = "auth" => r.path \in AuthPaths
                              /\ l = "tenant" => r.path \in TenantPaths}
Key(r, l) == IF l = "tenant" THEN r.tenant ELSE r.ip
Allowed(r, l) == Count(l, Key(r, l)) <= Limits[l]
Reached(r) == {l \in Meets(r) : \A m \in Meets(r) : Rank[m] < Rank[l] => Allowed(r, m)}
Through(r) == (\A l \in Meets(r) : Allowed(r, l)) /\ (r.path \in ExemptPaths \/ r.key)

guard(r) ==
  /\ hits < MaxHits /\ hits' = hits + 1
  /\ buckets' = [l \in Limiters |-> IF l \in Reached(r) THEN hit(l, Key(r, l)) ELSE buckets[l]]
  /\ passed' = [l \in Limiters |-> [k \in Ips \cup GateTenants |->
                  IF l \in Reached(r) /\ k = Key(r, l) /\ Allowed(r, l) THEN Append(passed[l][k], clock) ELSE passed[l][k]]]
  /\ UNCHANGED clock

-----------------------------------------------------------------------------
hardCapUsd(a) == IF a.cap = Unset THEN Plans[a.tier].cap ELSE a.cap
UnderCap(cost, cap) == cap = Unlimited \/ cost <= cap

(* A change of tier drops the operator's cap unless the call sets another. *)
setAllowance(a, tier, cap) ==
  [a EXCEPT !.tier = IF tier = Unset THEN @ ELSE tier,
            !.cap = IF cap # Unset THEN cap ELSE IF tier # Unset THEN Unset ELSE @]

Higher(h, cap) == IF h = Unlimited \/ cap = Unlimited THEN Unlimited ELSE IF cap > h THEN cap ELSE h
Adjust(t, tier, cap) ==
  /\ acct' = [acct EXCEPT ![t] = setAllowance(@, tier, cap)]
  /\ highest' = [highest EXCEPT ![t] = Higher(@, hardCapUsd(setAllowance(acct[t], tier, cap)))]
  /\ UNCHANGED <<meter, fees>>

(* estimate: the overage rate is twice the included one here, and the included
   allowance is the plan's, whatever the operator set for the account. *)
estimate(a, e) == IF ~e.ephemeral THEN 1 ELSE IF a.spent < Plans[a.tier].included THEN 1 ELSE 2

Recorded(a, accepted, cost) ==
  [a EXCEPT !.log = IF @ < MaxOccurrences THEN @ + 1 ELSE @,
            !.accepted = IF accepted THEN @ + 1 ELSE @, !.rejected = IF accepted THEN @ ELSE @ + 1,
            !.spent = IF accepted THEN @ + cost ELSE @]
Accepts_Before(a, cost) == UnderCap(a.spent, hardCapUsd(a))
Accepts(a, cost) == UnderCap(a.spent + cost, hardCapUsd(a))
consume(a, e) ==
  LET fee == Plans[a.tier].fee
  IN IF Plans[a.tier].byok THEN [a |-> Recorded(a, TRUE, fee), ok |-> TRUE, cost |-> fee]
     ELSE LET ok == Accepts(a, estimate(a, e))
          IN [a |-> Recorded(a, ok, estimate(a, e)), ok |-> ok, cost |-> estimate(a, e)]

(* The observer of the router: successful dispatches are billed to one tenant. *)
observe(b, e) ==
  LET c == consume(b.a, e)
  IN IF e.status # "SUCCESS" THEN [b EXCEPT !.m.skipped = @ + 1]
     ELSE [a |-> c.a, m |-> [b.m EXCEPT !.metered = @ + 1, !.estimated = IF e.ephemeral THEN @ + 1 ELSE @,
                                        !.fallback = IF e.ephemeral THEN @ ELSE @ + 1,
                                        !.rejected = IF c.ok THEN @ ELSE @ + 1,
                                        !.attributed = IF c.ok THEN @ + c.cost ELSE @],
           fees |-> b.fees + IF Plans[b.a.tier].byok THEN c.cost ELSE 0]

-----------------------------------------------------------------------------
(* Requests the guard stops, whose handler refuses the body, finds nothing, or
   keeps no state here. *)
Pass(r) == guard(r) /\ UNCHANGED <<billVars, checkouts>>

(* handleIntent and handleWorkerReport: the dispatches they cause are observed,
   the innermost first. *)
observeNth(b, es, n) == IF n <= Len(es) THEN observe(b, es[n]) ELSE b
observeAll(b, es) == observeNth(observeNth(observeNth(b, es, 1), es, 2), es, 3)
Dispatched(r) ==
  /\ r.path = "intent" /\ Through(r) /\ guard(r)
  /\ \E es \in EventSeqs :
       LET b == observeAll([a |-> acct[Demo], m |-> meter, fees |-> fees], es)
       IN acct' = [acct EXCEPT ![Demo] = b.a] /\ meter' = b.m /\ fees' = b.fees
  /\ UNCHANGED <<checkouts, granted, highest>>

handleBillingAllowance(r) ==
  /\ r.path = "allowance" /\ Through(r) /\ guard(r)
  /\ \E tier \in DOMAIN Plans \cup {Unset}, cap \in {0, Unset} :
       /\ tier # Unset \/ cap # Unset
       /\ Adjust(r.tenant, tier, cap)
       /\ granted' = IF tier = Unset THEN granted ELSE granted \cup {<<r.tenant, tier>>}
  /\ UNCHANGED checkouts

handleBillingCheckout(r) ==
  /\ r.path = "checkout" /\ Through(r) /\ guard(r) /\ Len(checkouts) < MaxCheckouts
  /\ \E tier \in DOMAIN Plans :
       checkouts' = Append(checkouts, [tenant |-> r.tenant, tier |-> tier, status |-> "open",
                                       paid |-> FALSE, expiresAt |-> clock + SessionTtl])
  /\ UNCHANGED billVars

(* A session may be settled again: its tier is applied each time, and once its
   day is over it reads expired although it was paid. *)
markSessionPaid(s) ==
  IF clock >= s.expiresAt THEN [s EXCEPT !.status = "expired"] ELSE [s EXCEPT !.status = "complete", !.paid = TRUE]
handleBillingCheckoutSettle(r) ==
  /\ r.path = "settle" /\ Through(r) /\ guard(r)
  /\ \E i \in DOMAIN checkouts :
       /\ checkouts' = [checkouts EXCEPT ![i] = markSessionPaid(@)]
       /\ IF markSessionPaid(checkouts[i]).status = "complete"
          THEN Adjust(checkouts[i].tenant, checkouts[i].tier, Unset) /\ UNCHANGED granted
          ELSE UNCHANGED billVars

Tick == clock < MaxClock /\ clock' = clock + 1 /\ UNCHANGED <<guardVars, billVars, checkouts>>

Account(tier) == [tier |-> tier, cap |-> Unset, spent |-> 0, accepted |-> 0, rejected |-> 0, log |-> 0]
DefaultTier(t) == IF t = Demo THEN "STARTER" ELSE "FREE"
GatewayInit ==
  /\ clock = 0 /\ buckets = [l \in Limiters |-> << >>] /\ checkouts = <<>>
  /\ acct = [t \in GateTenants |-> Account(DefaultTier(t))]
  /\ meter = [metered |-> 0, skipped |-> 0, estimated |-> 0, fallback |-> 0, rejected |-> 0, attributed |-> 0]
  /\ passed = [l \in Limiters |-> [k \in Ips \cup GateTenants |-> <<>>]] /\ hits = 0
  /\ granted = {} /\ fees = 0
  /\ highest = [t \in GateTenants |-> Plans[DefaultTier(t)].cap]

GatewayNext ==
  \/ Tick
  \/ \E r \in GateRequests :
       \/ Pass(r) \/ Dispatched(r)
       \/ handleBillingAllowance(r) \/ handleBillingCheckout(r) \/ handleBillingCheckoutSettle(r)
GatewaySpec == GatewayInit /\ [][GatewayNext]_gatewayVars

-----------------------------------------------------------------------------
(* Limiters: of 2 * limit + 1 requests in a row of one key that a limiter let
   pass, the last came at least a window after the first.  A fixed window lets
   twice its limit pass around its end, a sweep nothing more. *)
TwiceTheLimit ==
  \A l \in Limiters : \A k \in Ips \cup GateTenants : \A i \in DOMAIN passed[l][k] :
    i + 2 * Limits[l] \in DOMAIN passed[l][k] => passed[l][k][i + 2 * Limits[l]] - passed[l][k][i] >= Window

(* Billing: fees apart, no tenant has spent more than the largest cap it had,
   whatever tiers and caps came and went. *)
SpendUnderACap == \A t \in GateTenants : UnderCap(acct[t].spent - (IF t = Demo THEN fees ELSE 0), highest[t])

(* Meter: its books and those of the account it bills agree. *)
BooksAgree ==
  /\ meter.metered = meter.estimated + meter.fallback
  /\ meter.metered = acct[Demo].accepted + acct[Demo].rejected
  /\ meter.rejected = acct[Demo].rejected /\ meter.attributed = acct[Demo].spent

(* Checkout: a tenant is on the tier it began with, one the operator set, or
   one it paid for in time. *)
TierWasGiven ==
  \A t \in GateTenants :
    \/ acct[t].tier = DefaultTier(t) \/ <<t, acct[t].tier>> \in granted
    \/ \E i \in DOMAIN checkouts : checkouts[i].tenant = t /\ checkouts[i].tier = acct[t].tier /\ checkouts[i].paid

GatewayTypeOK ==
  /\ clock \in 0..MaxClock /\ hits \in 0..MaxHits
  /\ \A l \in Limiters : \A k \in DOMAIN buckets[l] :
       k \in Ips \cup GateTenants /\ buckets[l][k].count \in 1..MaxHits /\ buckets[l][k].resetAt \in Window..(MaxClock + Window)
  /\ \A t \in GateTenants : acct[t].tier \in DOMAIN Plans /\ acct[t].log <= MaxOccurrences
  /\ \A i \in DOMAIN checkouts : checkouts[i].status \in {"open", "complete", "expired"}

\* What the front door and the billing behind it let through.
LimitsHold ==
  /\ GatewayTypeOK
  /\ TwiceTheLimit
  /\ SpendUnderACap
  /\ BooksAgree
  /\ TierWasGiven
=============================================================================
