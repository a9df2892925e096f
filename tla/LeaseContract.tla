----------------------------- MODULE LeaseContract -----------------------------
(***************************************************************************)
(* What the NodeSliceLease interface of hdv-foundation/nodes/lease.ts      *)
(* promises: each key has at most one owner, a key is granted only while   *)
(* it is free, each grant carries a higher fencing token than the last,    *)
(* and only its owner or the passing of time takes a key away.             *)
(***************************************************************************)
EXTENDS Naturals

CONSTANTS
  Keys,     \* node-slice keys
  Holders,  \* worker ids
  Free      \* the owner of a key nobody holds, no worker's id

VARIABLES
  owner,    \* who holds each key
  fence     \* the fencing token of its last grant

vars == <<owner, fence>>

Init ==
  /\ owner = [k \in Keys |-> Free]
  /\ fence = [k \in Keys |-> 0]

Grant(k, h) ==
  /\ owner[k] = Free
  /\ owner' = [owner EXCEPT ![k] = h]
  /\ fence' = [fence EXCEPT ![k] = @ + 1]

\* Its owner gives one key up.
GiveUp(k, h) ==
  /\ owner[k] = h
  /\ owner' = [owner EXCEPT ![k] = Free]
  /\ UNCHANGED fence

\* Time passes: the leases of any keys lapse.
Lapse(S) ==
  /\ owner' = [k \in Keys |-> IF k \in S THEN Free ELSE owner[k]]
  /\ UNCHANGED fence

Next ==
  \/ \E k \in Keys, h \in Holders : Grant(k, h) \/ GiveUp(k, h)
  \/ \E S \in SUBSET Keys : Lapse(S)

Spec == Init /\ [][Next]_vars
=============================================================================
