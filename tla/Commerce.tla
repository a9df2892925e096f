------------------------------ MODULE Commerce ------------------------------
(***************************************************************************)
(* Wallet, membership, shop and Stripe webhook of the API                  *)
(* (packages/api/src/routes/wallet.ts, membership.ts, shop.ts,             *)
(* stripeWebhook.ts).  A step is one SQL statement: no route opens a       *)
(* transaction, so the statements of two requests interleave freely, and a *)
(* request may die between any two of its own (a failed query, a crash).   *)
(* The tables are reduced to what the routes compare: the transactions to  *)
(* their sum by type, the orders to their totals, the order items to the   *)
(* quantity of each product.                                               *)
(***************************************************************************)
EXTENDS Integers, FiniteSets, FiniteSetsExt

CONSTANTS Users, Requests, Products, Price, Quantities, Stock0, Balance0, Cart0,
          TierPrice,     \* tier -> price in the wallet, membership.ts
          Features,      \* tier -> entitlements
          Amounts,
          Events,        \* Stripe's events: [kind, user, amount, sub, tier, seq]
          NoRow,
          MaxRequests,   \* bound: requests and deliveries that arrive
          MaxDeaths      \* bound: requests that die half-way

Tiers == DOMAIN TierPrice
Subs == {e.sub : e \in Events} \ {NoRow}
\* A row that subscribe inserts has no subscription id; it is named after its request.
RowIds == Subs \cup (1 .. MaxRequests)
TxTypes == {"deposit", "purchase", "credit", "shop", "refund"}
Row == [user : Users, tier : Tiers, active : BOOLEAN] \cup {NoRow}
NoItems == [p \in Products |-> 0]
Idle == [op |-> "none", step |-> "idle", user |-> CHOOSE u \in Users : TRUE, seen |-> 0,
         amount |-> 0, basket |-> NoItems, todo |-> {}, row |-> NoRow, tier |-> "basic",
         event |-> NoRow]

ASSUME CommerceAssumption ==
    /\ Balance0 \in Nat /\ MaxRequests \in Nat /\ MaxDeaths \in Nat
    /\ IsFiniteSet(Requests) /\ IsFiniteSet(Products) /\ IsFiniteSet(Events)
    /\ Amounts \subseteq Nat /\ Quantities \subseteq Nat /\ Users # {}
    /\ Price \in [Products -> Nat] /\ Cart0 \in [Products -> Nat] /\ Stock0 \in [Products -> Nat]
    /\ "basic" \in Tiers /\ \A t \in Tiers : TierPrice[t] \in Nat
    /\ NoRow \notin 1 .. MaxRequests /\ NoRow \notin Events
    /\ NoRow \notin [user : Users, tier : Tiers, active : BOOLEAN]
    /\ \A e \in Events : /\ e.user \in Users /\ e.tier \in Tiers /\ e.amount \in Nat /\ e.seq \in Nat
                         /\ e.kind \in {"topup", "activate", "deactivate", "refund"}
                         /\ e.kind \in {"activate", "deactivate"} => e.sub # NoRow
    \* A subscription has an id of Stripe's and one customer.
    /\ Subs \cap 1 .. MaxRequests = {}
    /\ \A d, e \in Events : d.sub = e.sub /\ d.sub # NoRow => d.user = e.user

VARIABLES balance,     \* wallet_accounts.balance_cents
          tx,          \* wallet_transactions: sum of amount_cents by user and type
          members,     \* memberships, by row
          granted,     \* entitlements, by user
          stock, cart, \* shop_products.stock, cart_items.quantity
          orders,      \* shop_orders: sum of total_cents by user
          items,       \* order_items: sum of quantity by product
          wallets,     \* users with a row in wallet_accounts; no route makes one
          rq,          \* the requests being served
          acked,       \* events answered with 200
          passed,      \* those of them that found no user, or no wallet, to apply to
          made, deaths, \* counters for the bounds
          raced,       \* history: <<user, "write" or "debit">> on a balance read before it changed
          floored,     \* history: users with a refund cut off at zero
          crossed,     \* history: users with two activations at once
          late,        \* history: subscriptions with an event served out of order
          begun        \* history: events that were ever delivered

accounts == <<balance, tx>>
membership == <<members, granted>>
shop == <<stock, cart, orders, items>>
bounds == <<made, deaths>>
history == <<raced, floored, crossed, late, begun>>
found == <<wallets, passed>>
vars == <<accounts, membership, shop, rq, acked, bounds, history, found>>

At(r, op, step) == rq[r].op = op /\ rq[r].step = step
Go(r, q) == rq' = [rq EXCEPT ![r] = q]
To(r, step) == Go(r, [rq[r] EXCEPT !.step = step])
Ends(r) == Go(r, Idle) /\ acked' = acked \cup ({rq[r].event} \ {NoRow})
Loops(r, here, next) ==    \* one round of a for loop is over
    LET q == [rq[r] EXCEPT !.todo = @ \ {here}]
    IN  Go(r, IF q.todo = {} THEN next ELSE q)

AddTx(u, type, n) == tx' = [tx EXCEPT ![u][type] = @ + n]
SumOf(f, S) == MapThenSumSet(LAMBDA x : f[x], S)
Total(basket) == SumOf([p \in Products |-> Price[p] * basket[p]], Products)
InBasket(basket) == {p \in Products : basket[p] > 0}
ActiveRows(u) == {i \in RowIds : members[i] # NoRow /\ members[i].user = u /\ members[i].active}
Deactivated(S) == [i \in RowIds |-> IF i \in S THEN [members[i] EXCEPT !.active = FALSE] ELSE members[i]]

Init == /\ wallets \in SUBSET Users /\ passed = {}
        /\ balance = [u \in Users |-> IF u \in wallets THEN Balance0 ELSE 0]
        /\ tx = [u \in Users |-> [t \in TxTypes |-> IF t = "deposit" THEN balance[u] ELSE 0]]
        /\ members = [i \in RowIds |-> NoRow]
        /\ granted = [u \in Users |-> {}]
        /\ stock = Stock0
        /\ cart = [u \in Users |-> Cart0]
        /\ orders = [u \in Users |-> 0]
        /\ items = NoItems
        /\ rq = [r \in Requests |-> Idle]
        /\ acked = {}
        /\ made = 0 /\ deaths = 0
        /\ raced = {} /\ floored = {} /\ crossed = {} /\ late = {} /\ begun = {}

\* A request arrives; a user's executes its first statement in the same step.
Arrives(r) == /\ rq[r] = Idle /\ made < MaxRequests
              /\ made' = made + 1 /\ UNCHANGED deaths

------------------------------------------------------------------------------
(* wallet.ts: POST /wallet/deposit *)

DepositRead(r, u, n) ==   \* 404 without a wallet
    /\ Arrives(r) /\ u \in wallets
    /\ Go(r, [Idle EXCEPT !.op = "deposit", !.step = "write", !.user = u, !.amount = n, !.seen = balance[u]])
    /\ UNCHANGED <<accounts, membership, shop, acked, history>>

\* UPDATE ... SET balance_cents = <the sum computed from the balance read before>
WriteBalance(r, new) ==
    LET u == rq[r].user
    IN  /\ balance' = [balance EXCEPT ![u] = new]
        /\ raced' = IF balance[u] # rq[r].seen THEN raced \cup {<<u, "write">>} ELSE raced
        /\ To(r, "log")
        /\ UNCHANGED <<tx, membership, shop, acked, bounds, floored, crossed, late, begun>>

DepositWrite(r) == At(r, "deposit", "write") /\ WriteBalance(r, rq[r].seen + rq[r].amount)

DepositLog(r) ==
    /\ At(r, "deposit", "log")
    /\ AddTx(rq[r].user, "deposit", rq[r].amount)
    /\ Ends(r)
    /\ UNCHANGED <<balance, membership, shop, bounds, history>>

------------------------------------------------------------------------------
(* membership.ts: POST /membership/subscribe, POST /membership/cancel *)

\* A request that has deactivated a user's rows and not yet inserted the new one.
Activating(r) == rq[r].op \in {"subscribe", "activate"} /\ rq[r].step \in {"read", "write", "log", "insert"}
MarkCrossed(r, u) ==
    crossed' = IF \E s \in Requests \ {r} : Activating(s) /\ rq[s].user = u THEN crossed \cup {u} ELSE crossed

SubscribeDeactivate(r, u, t) ==
    /\ Arrives(r)
    /\ members' = Deactivated(ActiveRows(u))
    /\ Go(r, [Idle EXCEPT !.op = "subscribe", !.user = u, !.tier = t, !.amount = TierPrice[t], !.row = made + 1,
                          !.step = IF TierPrice[t] > 0 THEN "read" ELSE "insert"])
    /\ MarkCrossed(r, u)
    /\ UNCHANGED <<accounts, granted, shop, acked, raced, floored, late, begun>>

SubscribeRead(r) ==
    /\ At(r, "subscribe", "read")
    /\ IF rq[r].user \notin wallets \/ balance[rq[r].user] < rq[r].amount
       THEN Ends(r)   \* 402
       ELSE /\ Go(r, [rq[r] EXCEPT !.seen = balance[rq[r].user], !.step = "write"])
            /\ UNCHANGED acked
    /\ UNCHANGED <<accounts, membership, shop, bounds, history>>

SubscribeWrite_InsertsFirst(r) ==
    /\ At(r, "subscribe", "write") /\ To(r, "insert")
    /\ UNCHANGED <<accounts, membership, shop, acked, bounds, history>>

SubscribeWrite(r) == At(r, "subscribe", "write") /\ WriteBalance(r, rq[r].seen - rq[r].amount)

SubscribeLog(r) ==
    /\ At(r, "subscribe", "log")
    /\ AddTx(rq[r].user, "purchase", rq[r].amount)
    /\ To(r, "insert")
    /\ UNCHANGED <<balance, membership, shop, acked, bounds, history>>

\* INSERT INTO memberships; the webhook's has ON CONFLICT (stripe_subscription_id)
\* DO UPDATE SET is_active, ends_at, which leaves the tier as it was.
InsertMembership(r) ==
    LET q == rq[r]
    IN  /\ q.op \in {"subscribe", "activate"} /\ q.step = "insert"
        /\ members' = [members EXCEPT ![q.row] = IF @ = NoRow THEN [user |-> q.user, tier |-> q.tier, active |-> TRUE]
                                                               ELSE [@ EXCEPT !.active = TRUE]]
        /\ Go(r, [q EXCEPT !.step = "grant", !.todo = Features[q.tier]])
        /\ UNCHANGED <<accounts, granted, shop, acked, bounds, history>>

\* for (const featureKey of features) INSERT INTO entitlements ... ON CONFLICT DO UPDATE
Grant(r) ==
    /\ rq[r].step = "grant"
    /\ IF rq[r].todo = {}
       THEN Ends(r) /\ UNCHANGED granted
       ELSE \E f \in rq[r].todo : /\ granted' = [granted EXCEPT ![rq[r].user] = @ \cup {f}]
                                  /\ Go(r, [rq[r] EXCEPT !.todo = @ \ {f}]) /\ UNCHANGED acked
    /\ UNCHANGED <<accounts, members, shop, bounds, history>>

CancelMembership(r, u) ==
    /\ Arrives(r)
    /\ members' = Deactivated(ActiveRows(u))
    /\ UNCHANGED <<accounts, granted, shop, rq, acked, history>>

------------------------------------------------------------------------------
(* shop.ts: POST and DELETE /shop/cart, POST /shop/checkout *)

CartRead(r, u, p, n) ==
    /\ Arrives(r)
    /\ IF stock[p] < n THEN UNCHANGED rq   \* 409
       ELSE Go(r, [Idle EXCEPT !.op = "cart", !.step = "put", !.user = u, !.basket[p] = n, !.todo = {p}])
    /\ UNCHANGED <<accounts, membership, shop, acked, history>>

CartPut(r) ==
    /\ At(r, "cart", "put")
    /\ \E p \in rq[r].todo : cart' = [cart EXCEPT ![rq[r].user][p] = rq[r].basket[p]]
    /\ Ends(r)
    /\ UNCHANGED <<accounts, membership, stock, orders, items, bounds, history>>

CartClear(r, u) ==
    /\ Arrives(r)
    /\ cart' = [cart EXCEPT ![u] = NoItems]
    /\ UNCHANGED <<accounts, membership, stock, orders, items, rq, acked, history>>

\* Reads cart and stock in one statement: 400 for an empty cart, 409 for too little stock.
CheckoutRead(r, u) ==
    /\ Arrives(r)
    /\ IF \/ InBasket(cart[u]) = {}
          \/ \E p \in Products : stock[p] < cart[u][p]
       THEN UNCHANGED rq
       ELSE Go(r, [Idle EXCEPT !.op = "checkout", !.step = "balance", !.user = u,
                               !.basket = cart[u], !.amount = Total(cart[u])])
    /\ UNCHANGED <<accounts, membership, shop, acked, history>>

CheckoutBalance(r) ==
    /\ At(r, "checkout", "balance")
    /\ IF rq[r].user \notin wallets \/ balance[rq[r].user] < rq[r].amount
       THEN Ends(r)   \* 402
       ELSE /\ Go(r, [rq[r] EXCEPT !.seen = balance[rq[r].user], !.step = "debit"])
            /\ UNCHANGED acked
    /\ UNCHANGED <<accounts, membership, shop, bounds, history>>

CheckoutDebit_Absolute(r) ==
    LET u == rq[r].user
    IN  /\ At(r, "checkout", "debit")
        /\ balance' = [balance EXCEPT ![u] = rq[r].seen - rq[r].amount]
        /\ raced' = IF balance[u] # rq[r].seen THEN raced \cup {<<u, "debit">>} ELSE raced
        /\ To(r, "log")
        /\ UNCHANGED <<tx, membership, shop, acked, bounds, floored, crossed, late, begun>>

\* balance_cents = balance_cents - total: relative, and without a condition
CheckoutDebit(r) ==
    LET u == rq[r].user
    IN  /\ At(r, "checkout", "debit")
        /\ balance' = [balance EXCEPT ![u] = @ - rq[r].amount]
        /\ raced' = IF balance[u] # rq[r].seen THEN raced \cup {<<u, "debit">>} ELSE raced
        /\ To(r, "log")
        /\ UNCHANGED <<tx, membership, shop, acked, bounds, floored, crossed, late, begun>>

CheckoutLog(r) ==
    /\ At(r, "checkout", "log")
    /\ AddTx(rq[r].user, "shop", rq[r].amount)
    /\ Go(r, [rq[r] EXCEPT !.step = "stock", !.todo = InBasket(rq[r].basket)])
    /\ UNCHANGED <<balance, membership, shop, acked, bounds, history>>

CheckoutStock(r) ==
    /\ At(r, "checkout", "stock")
    /\ \E p \in rq[r].todo : /\ stock' = [stock EXCEPT ![p] = @ - rq[r].basket[p]]
                             /\ Loops(r, p, [rq[r] EXCEPT !.step = "order", !.todo = {}])
    /\ UNCHANGED <<accounts, membership, cart, orders, items, acked, bounds, history>>

CheckoutOrder(r) ==
    /\ At(r, "checkout", "order")
    /\ orders' = [orders EXCEPT ![rq[r].user] = @ + rq[r].amount]
    /\ Go(r, [rq[r] EXCEPT !.step = "items", !.todo = InBasket(rq[r].basket)])
    /\ UNCHANGED <<accounts, membership, stock, cart, items, acked, bounds, history>>

CheckoutItem(r) ==
    /\ At(r, "checkout", "items")
    /\ \E p \in rq[r].todo : /\ items' = [items EXCEPT ![p] = @ + rq[r].basket[p]]
                             /\ Loops(r, p, [rq[r] EXCEPT !.step = "clear", !.todo = {}])
    /\ UNCHANGED <<accounts, membership, stock, cart, orders, acked, bounds, history>>

CheckoutClear(r) ==
    /\ At(r, "checkout", "clear")
    /\ cart' = [cart EXCEPT ![rq[r].user] = NoItems]
    /\ Ends(r)
    /\ UNCHANGED <<accounts, membership, stock, orders, items, bounds, history>>

------------------------------------------------------------------------------
(* stripeWebhook.ts: POST /stripe/webhook.  Stripe delivers an event until  *)
(* it is answered with 200, may deliver it again after that, and keeps no   *)
(* order between events.                                                    *)

FirstStep(e) == CASE e.kind = "topup" -> "credit"
                  [] e.kind = "activate" -> "deactivate"
                  [] e.kind = "deactivate" -> "cancel"
                  [] e.kind = "refund" -> "refund"

\* No customer, no user of that customer, no subscription or tier: a break, and 200.
PassOver(r, e) ==
    /\ Arrives(r)
    /\ acked' = acked \cup {e} /\ passed' = passed \cup {e}
    /\ UNCHANGED <<accounts, membership, shop, rq, history, wallets>>

InFlight(e) == \E r \in Requests : rq[r].event = e

Deliver(r, e) ==
    /\ Arrives(r)
    /\ Go(r, [Idle EXCEPT !.op = e.kind, !.step = FirstStep(e), !.user = e.user, !.amount = e.amount,
                          !.row = e.sub, !.tier = e.tier, !.event = e])
    /\ begun' = begun \cup {e}
    /\ late' = IF \E d \in Events : /\ d.sub = e.sub
                                    /\ InFlight(d) \/ (d \in begun /\ d.seq > e.seq)
               THEN late \cup {e.sub} ELSE late
    /\ UNCHANGED <<accounts, membership, shop, acked, raced, floored, crossed>>

TopUpCredit_AnswersFirst(r) ==
    /\ At(r, "topup", "credit") /\ rq[r].user \in wallets
    /\ balance' = [balance EXCEPT ![rq[r].user] = @ + rq[r].amount]
    /\ To(r, "log")
    /\ acked' = acked \cup {rq[r].event}
    /\ UNCHANGED <<tx, membership, shop, bounds, history>>

\* creditWallet: a relative update, then the transaction
TopUpCredit(r) ==
    /\ At(r, "topup", "credit") /\ rq[r].user \in wallets
    /\ balance' = [balance EXCEPT ![rq[r].user] = @ + rq[r].amount]
    /\ To(r, "log")
    /\ UNCHANGED <<tx, membership, shop, acked, bounds, history>>

TopUpLog(r) ==
    /\ At(r, "topup", "log")
    /\ AddTx(rq[r].user, "credit", rq[r].amount)
    /\ Ends(r)
    /\ UNCHANGED <<balance, membership, shop, bounds, history>>

ActivateDeactivate_OwnRow(r) ==
    /\ At(r, "activate", "deactivate")
    /\ members' = Deactivated(ActiveRows(rq[r].user) \cap {rq[r].row})
    /\ To(r, "insert")
    /\ MarkCrossed(r, rq[r].user)
    /\ UNCHANGED <<accounts, granted, shop, acked, bounds, raced, floored, late, begun>>

\* activateMembership; InsertMembership and Grant are its other statements
ActivateDeactivate(r) ==
    /\ At(r, "activate", "deactivate")
    /\ members' = Deactivated(ActiveRows(rq[r].user))
    /\ To(r, "insert")
    /\ MarkCrossed(r, rq[r].user)
    /\ UNCHANGED <<accounts, granted, shop, acked, bounds, raced, floored, late, begun>>

\* deactivateMembership
DeactivateSubscription(r) ==
    /\ At(r, "deactivate", "cancel")
    /\ members' = Deactivated({rq[r].row} \cap {i \in RowIds : members[i] # NoRow})
    /\ Ends(r)
    /\ UNCHANGED <<accounts, granted, shop, bounds, history>>

\* GREATEST(0, balance_cents - amount_refunded)
RefundDebit(r) ==
    LET u == rq[r].user
    IN  /\ At(r, "refund", "refund") /\ u \in wallets
        /\ balance' = [balance EXCEPT ![u] = Max({0, @ - rq[r].amount})]
        /\ floored' = IF balance[u] < rq[r].amount THEN floored \cup {u} ELSE floored
        /\ To(r, "log")
        /\ UNCHANGED <<tx, membership, shop, acked, bounds, raced, crossed, late, begun>>

RefundLog(r) ==
    /\ At(r, "refund", "log")
    /\ AddTx(rq[r].user, "refund", rq[r].amount)
    /\ Ends(r)
    /\ UNCHANGED <<balance, membership, shop, bounds, history>>

\* Without a wallet neither the update nor the INSERT ... SELECT of a top-up or a
\* refund matches a row; the answer is 200.
NoWallet(r) ==
    /\ At(r, "topup", "credit") \/ At(r, "refund", "refund")
    /\ rq[r].user \notin wallets
    /\ passed' = passed \cup {rq[r].event} /\ Ends(r)
    /\ UNCHANGED <<accounts, membership, shop, bounds, history, wallets>>

\* A statement throws, or the process goes down: the request ends where it
\* stands, without an answer or with 500.
Die(r) ==
    /\ rq[r] # Idle /\ deaths < MaxDeaths
    /\ deaths' = deaths + 1
    /\ Go(r, Idle)
    /\ UNCHANGED <<accounts, membership, shop, acked, made, history>>

UserRequest(r) ==
    \E u \in Users :
        \/ \E n \in Amounts : DepositRead(r, u, n)
        \/ \E t \in Tiers : SubscribeDeactivate(r, u, t)
        \/ CancelMembership(r, u)
        \/ \E p \in Products, n \in Quantities : CartRead(r, u, p, n)
        \/ CartClear(r, u)
        \/ CheckoutRead(r, u)

Statement(r) ==
    \/ DepositWrite(r) \/ DepositLog(r)
    \/ SubscribeRead(r) \/ SubscribeWrite(r) \/ SubscribeLog(r)
    \/ InsertMembership(r) \/ Grant(r)
    \/ CartPut(r)
    \/ CheckoutBalance(r) \/ CheckoutDebit(r) \/ CheckoutLog(r) \/ CheckoutStock(r)
    \/ CheckoutOrder(r) \/ CheckoutItem(r) \/ CheckoutClear(r)
    \/ TopUpCredit(r) \/ TopUpLog(r)
    \/ ActivateDeactivate(r) \/ DeactivateSubscription(r)
    \/ RefundDebit(r) \/ RefundLog(r)

Step(r) == UserRequest(r) \/ (\E e \in Events : Deliver(r, e)) \/ Statement(r) \/ Die(r)

Next == \E r \in Requests : \/ Step(r) /\ UNCHANGED found
                            \/ \E e \in Events : PassOver(r, e)
                            \/ NoWallet(r)

Spec == Init /\ [][Next]_vars
------------------------------------------------------------------------------
(* Properties *)

Request == [op : {"none", "deposit", "subscribe", "cart", "checkout", "topup", "activate", "deactivate", "refund"},
            step : {"idle", "read", "write", "log", "insert", "grant", "put", "balance", "debit", "stock",
                    "order", "items", "clear", "credit", "deactivate", "cancel", "refund"},
            user : Users, seen : Int, amount : Nat, basket : [Products -> Nat], todo : SUBSET (Products \cup UNION {Features[t] : t \in Tiers}),
            row : RowIds \cup {NoRow}, tier : Tiers, event : Events \cup {NoRow}]

\* Type invariant: tables, requests, counters and histories.
TypeOK ==
    /\ balance \in [Users -> Int] /\ tx \in [Users -> [TxTypes -> Nat]]
    /\ members \in [RowIds -> Row]
    /\ granted \in [Users -> SUBSET UNION {Features[t] : t \in Tiers}]
    /\ stock \in [Products -> Int] /\ cart \in [Users -> [Products -> Nat]]
    /\ orders \in [Users -> Nat] /\ items \in [Products -> Nat]
    /\ rq \in [Requests -> Request]
    /\ acked \subseteq Events /\ passed \subseteq Events /\ wallets \subseteq Users
    /\ made \in 0 .. MaxRequests /\ deaths \in 0 .. MaxDeaths
    /\ raced \subseteq Users \X {"write", "debit"} /\ floored \subseteq Users /\ crossed \subseteq Users
    /\ late \subseteq Subs \cup {NoRow} /\ begun \subseteq Events

Quiet == deaths = 0 /\ \A r \in Requests : rq[r] = Idle
TxSum(u) == tx[u]["deposit"] + tx[u]["credit"] - tx[u]["purchase"] - tx[u]["shop"] - tx[u]["refund"]

\* When nothing is in flight and no request died, the balance is the sum of
\* the wallet's transactions, unless a deposit or a subscription wrote a
\* balance computed from an outdated one, or a refund was cut off at zero:
\* these are the only two ways to lose money (wallet.ts:94, stripeWebhook.ts:162).
BalanceIsSumOfTxs ==
    Quiet => \A u \in Users : <<u, "write">> \in raced \/ u \in floored \/ balance[u] = TxSum(u)

\* A balance is negative only if a checkout debited a balance that had changed
\* since it was tested (shop.ts:182-193), whatever dies or is delivered twice.
OverdraftNeedsRace == \A u \in Users : balance[u] < 0 => <<u, "debit">> \in raced

\* The wallet: balances and transactions agree, short of the races named.
MoneyAddsUp == TypeOK /\ BalanceIsSumOfTxs /\ OverdraftNeedsRace

PaidRows(u) == {i \in 1 .. MaxRequests : members[i] # NoRow /\ members[i].user = u}
PricesPaid(u) == SumOf([i \in PaidRows(u) |-> TierPrice[members[i].tier]], PaidRows(u))
\* Nothing is handed out before it is paid: the orders of a user never exceed
\* the debits of the shop, and the memberships bought with the wallet never
\* exceed its purchases, wherever requests die; and when none died and nothing is
\* in flight, what was paid was handed out (shop.ts:190-219, membership.ts:94-121).
PaidBeforeGoods ==
    \A u \in Users :
       /\ orders[u] <= tx[u]["shop"] /\ PricesPaid(u) <= tx[u]["purchase"]
       /\ Quiet => orders[u] = tx[u]["shop"] /\ PricesPaid(u) = tx[u]["purchase"]

\* No item is sold that was not taken from the stock, wherever requests die;
\* and when none died and nothing is in flight, every item is in stock or in an
\* order, however checkouts overlapped (shop.ts:207-228).
StockIsAccounted == \A p \in Products : /\ stock[p] + items[p] <= Stock0[p]
                                        /\ Quiet => stock[p] + items[p] = Stock0[p]

\* What is handed out was paid for and was taken from the stock.
GoodsAreAccounted == PaidBeforeGoods /\ StockIsAccounted

\* A user has at most one active membership, unless two requests activated
\* one at the same time: each deactivates the rows there are before it inserts
\* its own (membership.ts:88, stripeWebhook.ts:51).
OneActiveMembership == \A u \in Users \ crossed : Cardinality(ActiveRows(u)) <= 1

\* A top-up answered with 200 is in the wallet's transactions, unless it found no
\* customer, no user or no wallet, when 200 is all that becomes of it: a handler
\* that dies half-way is not acknowledged, and Stripe delivers the event again
\* (stripeWebhook.ts:33-41, 94-97, 209-217).
AckedTopUps(u) == {e \in acked \ passed : e.kind = "topup" /\ e.user = u}
AckMeansApplied == \A u \in Users : SumOf([e \in Events |-> e.amount], AckedTopUps(u)) <= tx[u]["credit"]

\* A subscription whose cancellation was applied and answered is inactive, unless Stripe
\* sent a later event about it, and provided its events were served one after
\* the other in the order Stripe sent them (stripeWebhook.ts:129-150); events
\* that cross bring it back.
Newest(e) == \A d \in begun : d.sub = e.sub /\ d # e => d.seq < e.seq
CancelledStaysCancelled ==
    \A e \in acked \ passed : e.kind = "deactivate" /\ Newest(e) /\ e.sub \notin late => members[e.sub] = NoRow \/ ~members[e.sub].active

\* Memberships: one at a time, and none after its cancellation.
MembershipsHold == OneActiveMembership /\ CancelledStaysCancelled

=============================================================================
