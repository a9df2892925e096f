----------------------------- MODULE MCCommerce -----------------------------
(* Values for the constants of Commerce that a .cfg cannot write. *)
EXTENDS Commerce, TLC

CONSTANTS u1, r1, r2, hat, sub1, none

Requests2 == Permutations({r1, r2})
OneEach == hat :> 1
Prices == [t \in {"basic", "pro"} |-> IF t = "pro" THEN 1 ELSE 0]
TierFeatures == [t \in {"basic", "pro"} |-> IF t = "pro" THEN {"hd"} ELSE {}]

Event(kind, n, sub, tier, seq) == [kind |-> kind, user |-> u1, amount |-> n, sub |-> sub, tier |-> tier, seq |-> seq]
PaymentsAndSubscription == {Event("topup", 1, none, "basic", 1), Event("refund", 2, none, "basic", 2),
                            Event("activate", 0, sub1, "pro", 3), Event("deactivate", 0, sub1, "pro", 4)}
=============================================================================
