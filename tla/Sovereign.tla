----------------------------- MODULE Sovereign -----------------------------
(* The Holloway layer (hdv-foundation/holloway): the Acting Prime and the Former
   Primes, directives and their countermands, succession, override tokens, and
   the Designated Audit Ledger that must tell all of it. *)
EXTENDS Naturals, Sequences, FiniteSets

CONSTANTS Primes, First, MaxRecords  \* principals, the first Acting Prime, bound on events

ASSUME SovereignAssumption == First \in Primes

VARIABLES
  acting, formers,
  directives, \* in order of issue: [by, anomalous, critical, counter]
  records,    \* the Designated Audit Ledger: [kind, actor, about]
  happened    \* what the sovereigns have done, in order (history)

sovereignVars == <<acting, formers, directives, records, happened>>

Standing == "nobody"  \* a directive nobody has countermanded
Record(kind, actor, about) == [kind |-> kind, actor |-> actor, about |-> about]
Tell(told) == records' = records \o told
Did(act, by, about) == Len(happened) < MaxRecords /\ happened' = Append(happened, [act |-> act, by |-> by, about |-> about])

issueDirective(anomalous, critical) ==
  LET n == Len(directives) + 1 IN
  /\ Did("issue", acting, n)
  /\ directives' = Append(directives, [by |-> acting, anomalous |-> anomalous, critical |-> critical, counter |-> Standing])
  /\ Tell((IF critical THEN <<Record("CRITICAL_OOB_DECISION", acting, n)>> ELSE <<>>)
          \o IF anomalous THEN <<Record("ANOMALOUS_COMMAND", acting, n)>> ELSE <<>>)
  /\ UNCHANGED <<acting, formers>>

(* The sole check: a registered Former Prime; a second countermand changes nothing. *)
countermand(f, n) ==
  /\ f \in formers /\ directives[n].counter = Standing /\ Did("countermand", f, n)
  /\ directives' = [directives EXCEPT ![n].counter = f] /\ Tell(<<Record("OVERRIDE", f, n)>>)
  /\ UNCHANGED <<acting, formers>>

(* The outgoing Prime becomes a Former Prime; the successor is not taken out. *)
succeed(s) ==
  /\ Did("succeed", s, 0) /\ formers' = formers \cup {acting} /\ acting' = s
  /\ Tell(<<Record("CRITICAL_OOB_DECISION", s, 0)>>) /\ UNCHANGED directives

(* A token carries the authority of the day it was minted; it must be live when
   it is applied. *)
Tokens == Primes \X {"ACTING_PRIME", "FORMER_PRIME"}
Live_Anyone(t) == TRUE
Live(t) == IF t[2] = "ACTING_PRIME" THEN t[1] = acting ELSE t[1] \in formers
applyOverride(t) ==
  /\ Live(t) /\ Did(t[2], t[1], 0) /\ Tell(<<Record("OVERRIDE", t[1], 0)>>)
  /\ UNCHANGED <<acting, formers, directives>>

SovereignInit ==
  /\ acting = First /\ \E f \in SUBSET (Primes \ {First}) : formers = f
  /\ directives = <<>> /\ records = <<>> /\ happened = <<>>

SovereignNext ==
  \/ \E anomalous, critical \in BOOLEAN : issueDirective(anomalous, critical)
  \/ \E f \in Primes, n \in DOMAIN directives : countermand(f, n)
  \/ \E s \in Primes : succeed(s)
SovereignSpec == SovereignInit /\ [][SovereignNext \/ \E t \in Tokens : applyOverride(t)]_sovereignVars

-----------------------------------------------------------------------------
SovereignTypeOK ==
  /\ acting \in Primes /\ formers \subseteq Primes
  /\ \A n \in DOMAIN directives : directives[n].by \in Primes /\ directives[n].counter \in formers \cup {Standing}

(* The ledger is complete and says nothing twice: each countermand, override and
   succession has one record, each directive as many as its flags, in the order
   in which they happened. *)
Told(h) ==
  CASE h.act = "issue" -> (IF directives[h.about].critical THEN <<Record("CRITICAL_OOB_DECISION", h.by, h.about)>> ELSE <<>>)
                          \o IF directives[h.about].anomalous THEN <<Record("ANOMALOUS_COMMAND", h.by, h.about)>> ELSE <<>>
    [] h.act = "succeed" -> <<Record("CRITICAL_OOB_DECISION", h.by, h.about)>>
    [] OTHER -> <<Record("OVERRIDE", h.by, h.about)>>
ToldBefore(i) == Cardinality({o \in (DOMAIN happened) \X {1, 2} : o[1] < i /\ o[2] \in DOMAIN Told(happened[o[1]])})
LedgerTellsAll ==
  /\ Len(records) = ToldBefore(Len(happened) + 1)
  /\ \A i \in DOMAIN happened : \A n \in DOMAIN Told(happened[i]) : records[ToldBefore(i) + n] = Told(happened[i])[n]

(* Who once held command keeps the veto for ever, and what was countermanded
   stays so, by the same hand. *)
VetoIsForLife == \A i \in DOMAIN happened : happened[i].act = "issue" => happened[i].by \in formers \cup {acting}
CountermandIsFinal ==  \* of a step
  \A n \in DOMAIN directives : directives[n].counter # Standing => directives'[n].counter = directives[n].counter

(* An override's authority is of its own time: an Acting Prime's token is worth
   nothing after the succession. *)
LastPrime(p, i) ==  \* p held command when the i-th act was done
  LET successions == {j \in DOMAIN happened : j < i /\ happened[j].act = "succeed"} IN
  \/ successions = {} /\ p = First
  \/ \E j \in successions : happened[j].by = p /\ \A k \in successions : k <= j
OverridesWereLive == \A i \in DOMAIN happened : happened[i].act = "ACTING_PRIME" => LastPrime(happened[i].by, i)

\* Every act of the sovereign layer is told, and was its actor's to do.
CommandIsTold ==
  /\ SovereignTypeOK
  /\ LedgerTellsAll
  /\ VetoIsForLife
  /\ OverridesWereLive
=============================================================================
