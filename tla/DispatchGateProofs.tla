-------------------------- MODULE DispatchGateProofs --------------------------
(***************************************************************************)
(* The gate, its freeze and its two logs, for any packets, any weights and *)
(* any number of dispatches; the sovereigns above it, for any acts; and    *)
(* the front door with its billing, for any requests.                      *)
(***************************************************************************)
EXTENDS DispatchGate, Sovereign, Gateway, FiniteSetTheorems, TLAPS

Frame == [id : Nat, packet : GatePackets, token : BOOLEAN, sent : BOOLEAN]
LedgerRow == [id : Nat, status : {"BLOCKED", "FAILED", "SUCCESS"}]
AuditRecord == [id : Nat, outcome : {"BLOCKED", "ALLOWED"}]

TypeInv ==
    /\ dispatched \in 0..MaxDispatches
    /\ frames \in Seq(Frame) /\ ledger \in Seq(LedgerRow) /\ audit \in Seq(AuditRecord)
    /\ frozen \in BOOLEAN /\ cause \in 0..dispatched
    /\ bucket \in [Roles -> Nat] /\ recent \in [Roles -> Nat] /\ reputation \in [Roles -> 0..100]

\* A handler that runs on top of another one is what that one sent: APEX forwards to
\* DREAM or VISION, and these report to HOPE, so that a stack has at most three.
Above(below, above) ==
    \/ below = "APEX" /\ above \in {"DREAM", "VISION"}
    \/ below \in {"DREAM", "VISION"} /\ above = "HOPE"
StackInv ==
    /\ \A i, j \in DOMAIN frames : frames[i].id = frames[j].id => i = j
    /\ \A i \in DOMAIN frames : frames[i].id \in 1..dispatched
    /\ \A i \in 1..(Len(frames) - 1) : Above(frames[i].packet.dst, frames[i + 1].packet.dst)

\* A packet that was dispatched has its row or its handler, never both.
LedgerInv ==
    /\ \A i, j \in DOMAIN ledger : ledger[i].id = ledger[j].id => i = j
    /\ \A i \in DOMAIN ledger : ledger[i].id \in 1..dispatched /\ ledger[i].id \notin Open
    /\ \A id \in 1..dispatched : id \in Open \/ id \in Ids(ledger)

\* The audit log has one record at most of a packet, and the ledger agrees with it.
AuditInv ==
    /\ \A i, j \in DOMAIN audit : audit[i].id = audit[j].id => i = j
    /\ \A i \in DOMAIN audit : audit[i].id \in 1..dispatched
    /\ \A i \in DOMAIN ledger, j \in DOMAIN audit : ledger[i].id = audit[j].id =>
          (ledger[i].status = "BLOCKED" <=> audit[j].outcome = "BLOCKED")
    /\ \A id \in Open : \E j \in DOMAIN audit : audit[j].id = id /\ audit[j].outcome = "ALLOWED"
    /\ \A i \in DOMAIN ledger : ledger[i].status # "BLOCKED" => ledger[i].id \in Ids(audit)

\* A packet in quarantine was blocked, and its row says so.
QuarantineInv ==
    /\ \A id \in quarantine : /\ id \in 1..dispatched /\ id \notin Open
                              /\ \E j \in DOMAIN audit : audit[j].id = id /\ audit[j].outcome = "BLOCKED"
    /\ frozen /\ cause # SOVEREIGN => cause \in quarantine

GateInv == TypeInv /\ StackInv /\ OnlyApexCommands /\ LedgerInv /\ AuditInv /\ QuarantineInv

LEMMA GateInitInv == GateInit => GateInv
<1> SUFFICES ASSUME GateInit PROVE GateInv
  OBVIOUS
<1> USE GateAssumption DEF GateInit, SOVEREIGN
<1>0. bucket \in [Roles -> Nat] /\ recent \in [Roles -> Nat] /\ reputation \in [Roles -> 0..100]
  OBVIOUS
<1>1. TypeInv
  <2>0. frozen \in BOOLEAN
    OBVIOUS
  <2>1. dispatched \in 0..MaxDispatches /\ cause \in 0..dispatched
    OBVIOUS
  <2>2. frames \in Seq(Frame) /\ ledger \in Seq(LedgerRow) /\ audit \in Seq(AuditRecord)
    OBVIOUS
  <2> QED BY <1>0, <2>0, <2>1, <2>2 DEF TypeInv
<1>2. StackInv /\ OnlyApexCommands /\ LedgerInv /\ AuditInv /\ QuarantineInv
  BY DEF StackInv, OnlyApexCommands, LedgerInv, AuditInv, QuarantineInv, Open
<1> QED BY <1>1, <1>2 DEF GateInv

-----------------------------------------------------------------------------
(* Sequences.                                                              *)

LEMMA AppendIs ==
    ASSUME NEW S, NEW s \in Seq(S), NEW e \in S
    PROVE  /\ Append(s, e) \in Seq(S) /\ Len(Append(s, e)) = Len(s) + 1
           /\ DOMAIN s = 1..Len(s) /\ DOMAIN Append(s, e) = 1..(Len(s) + 1)
           /\ Append(s, e)[Len(s) + 1] = e
           /\ \A i \in 1..Len(s) : Append(s, e)[i] = s[i]
OBVIOUS

LEMMA FrontIs ==
    ASSUME NEW S, NEW s \in Seq(S), s # <<>>
    PROVE  /\ Front(s) \in Seq(S) /\ Len(s) \in Nat /\ Len(s) > 0 /\ Len(Front(s)) = Len(s) - 1
           /\ DOMAIN Front(s) = 1..(Len(s) - 1) /\ DOMAIN s = 1..Len(s)
           /\ Last(s) = s[Len(s)] /\ Last(s) \in S
           /\ \A i \in 1..(Len(s) - 1) : Front(s)[i] = s[i]
<1>1. Len(s) \in Nat /\ DOMAIN s = 1..Len(s) /\ Len(s) # 0
  OBVIOUS
<1>2. Last(s) = s[Len(s)] /\ Last(s) \in S
  BY <1>1 DEF Last
<1>3. Front(s) = SubSeq(s, 1, Len(s) - 1)
  BY DEF Front
<1>4. Front(s) = [i \in 1..(Len(s) - 1) |-> s[i]]
  BY <1>1, <1>3
<1>5. \A i \in 1..(Len(s) - 1) : s[i] \in S
  BY <1>1
<1>6. Front(s) \in Seq(S) /\ Len(Front(s)) = Len(s) - 1
  BY <1>1, <1>3, <1>4, <1>5
<1> QED BY <1>1, <1>2, <1>4, <1>6

\* A stack of the same handlers.
Alike(under) ==
    /\ under \in Seq(Frame) /\ Len(under) = Len(frames) /\ DOMAIN under = DOMAIN frames
    /\ \A i \in DOMAIN frames : under[i].id = frames[i].id /\ under[i].packet = frames[i].packet

LEMMA SentAlike ==
    ASSUME TypeInv, frames # <<>> PROVE Alike(Sent) /\ Sent # <<>>
<1> DEFINE top == [Top EXCEPT !.sent = TRUE]
<1>1. frames \in Seq(Frame)
  BY DEF TypeInv
<1>2. Top = frames[Len(frames)] /\ Top \in Frame /\ Front(frames) \in Seq(Frame)
      /\ Len(frames) \in Nat /\ Len(frames) > 0
      /\ Len(Front(frames)) = Len(frames) - 1 /\ DOMAIN frames = 1..Len(frames)
      /\ \A i \in 1..(Len(frames) - 1) : Front(frames)[i] = frames[i]
  BY <1>1, FrontIs DEF Top
<1>3. top \in Frame /\ top.id = Top.id /\ top.packet = Top.packet
  BY <1>2 DEF Frame
<1> HIDE DEF top
<1> DEFINE under == Append(Front(frames), top)
<1>4. /\ under \in Seq(Frame) /\ Len(under) = Len(frames) /\ DOMAIN under = 1..Len(frames)
      /\ under[Len(frames)] = top
      /\ \A i \in 1..(Len(frames) - 1) : under[i] = frames[i]
  BY <1>2, <1>3, AppendIs
<1>5. Sent = under
  BY DEF Sent, top
<1> HIDE DEF under
<1>6. \A i \in DOMAIN frames : under[i].id = frames[i].id /\ under[i].packet = frames[i].packet
  BY <1>2, <1>3, <1>4
<1>7. Alike(under) /\ under # <<>>
  BY <1>2, <1>4, <1>6 DEF Alike
<1> QED BY <1>5, <1>7

\* What a log is after one more record.
LEMMA Grows ==
    ASSUME NEW S, NEW log \in Seq(S), NEW row \in S, NEW longer, longer = Append(log, row)
    PROVE  /\ longer \in Seq(S)
           /\ \E last \in DOMAIN longer :
                 last \notin DOMAIN log /\ DOMAIN longer = DOMAIN log \cup {last} /\ longer[last] = row
           /\ \A i \in DOMAIN log : longer[i] = log[i]
<1>1. /\ longer \in Seq(S) /\ DOMAIN log = 1..Len(log) /\ DOMAIN longer = 1..(Len(log) + 1)
      /\ longer[Len(log) + 1] = row /\ \A i \in 1..Len(log) : longer[i] = log[i]
  BY AppendIs
<1>2. Len(log) \in Nat
  OBVIOUS
<1>3. /\ Len(log) + 1 \in DOMAIN longer /\ Len(log) + 1 \notin DOMAIN log
      /\ DOMAIN longer = DOMAIN log \cup {Len(log) + 1}
  BY <1>1, <1>2
<1> QED BY <1>1, <1>3

-----------------------------------------------------------------------------
(* What becomes of a dispatch.                                             *)

\* The counters of a source stay what they are.
CountersType == bucket \in [Roles -> Nat] /\ recent \in [Roles -> Nat] /\ reputation \in [Roles -> 0..100]

LEMMA SameStack ==
    ASSUME GateInv, Alike(frames'), dispatched' = dispatched + 1
    PROVE  Open' = Open /\ StackInv' /\ OnlyApexCommands'
<1>1. DOMAIN frames' = DOMAIN frames /\ Len(frames') = Len(frames)
      /\ \A i \in DOMAIN frames : frames'[i].id = frames[i].id /\ frames'[i].packet = frames[i].packet
  BY DEF Alike
<1>2. Open' = Open /\ OnlyApexCommands'
  BY <1>1 DEF GateInv, Open, OnlyApexCommands
<1>3. frames \in Seq(Frame) /\ dispatched \in Nat
  BY DEF GateInv, TypeInv
<1>4. \A i \in 1..(Len(frames) - 1) : i \in DOMAIN frames /\ i + 1 \in DOMAIN frames
  BY <1>3
<1>5. \A i, j \in DOMAIN frames' : frames'[i].id = frames'[j].id => i = j
  BY <1>1 DEF GateInv, StackInv
<1>6. \A i \in DOMAIN frames' : frames'[i].id \in 1..dispatched'
  BY <1>1, <1>3 DEF GateInv, StackInv
<1>7. \A i \in 1..(Len(frames') - 1) : Above(frames'[i].packet.dst, frames'[i + 1].packet.dst)
  BY <1>1, <1>4 DEF GateInv, StackInv
<1> QED BY <1>2, <1>5, <1>6, <1>7 DEF StackInv, Above

\* A row for a packet that had none.
LEMMA RowAdded ==
    ASSUME TypeInv, LedgerInv, NEW id \in 1..dispatched', id \notin Ids(ledger),
           NEW row \in LedgerRow, row.id = id, ledger' = Append(ledger, row),
           \A k \in 1..dispatched : k \in 1..dispatched',
           \A k \in 1..dispatched' : k \in Open' <=> k \notin Ids(ledger) \cup {id}
    PROVE  /\ ledger' \in Seq(LedgerRow) /\ LedgerInv' /\ Ids(ledger)' = Ids(ledger) \cup {id}
           /\ \A i \in DOMAIN ledger' :
                 ledger'[i] = row \/ (i \in DOMAIN ledger /\ ledger'[i] = ledger[i])
<1>0. ledger \in Seq(LedgerRow)
  BY DEF TypeInv
<1>1. /\ ledger' \in Seq(LedgerRow)
      /\ \E last \in DOMAIN ledger' :
            last \notin DOMAIN ledger /\ DOMAIN ledger' = DOMAIN ledger \cup {last} /\ ledger'[last] = row
      /\ \A i \in DOMAIN ledger : ledger'[i] = ledger[i]
  BY <1>0, Grows
<1>2. PICK last \in DOMAIN ledger' :
         last \notin DOMAIN ledger /\ DOMAIN ledger' = DOMAIN ledger \cup {last} /\ ledger'[last] = row
  BY <1>1
<1>3. \A i \in DOMAIN ledger : ledger[i].id # id
  BY DEF Ids
<1>4. Ids(ledger)' = Ids(ledger) \cup {id}
  <2>1. \A k : k \in Ids(ledger)' <=> \E i \in DOMAIN ledger' : ledger'[i].id = k
    BY DEF Ids
  <2>2. \A k : k \in Ids(ledger) <=> \E i \in DOMAIN ledger : ledger[i].id = k
    BY DEF Ids
  <2>3. \A k : k \in Ids(ledger)' <=> k \in Ids(ledger) \/ k = id
    BY <1>1, <1>2, <2>1, <2>2
  <2> QED BY <2>3
<1>5. \A i, j \in DOMAIN ledger' : ledger'[i].id = ledger'[j].id => i = j
  BY <1>1, <1>2, <1>3 DEF LedgerInv
<1>6. \A i \in DOMAIN ledger' : ledger'[i].id \in 1..dispatched' /\ ledger'[i].id \notin Open'
  <2>1. \A i \in DOMAIN ledger' : ledger'[i].id \in 1..dispatched'
    BY <1>1, <1>2 DEF LedgerInv
  <2>2. \A i \in DOMAIN ledger' : ledger'[i].id \in Ids(ledger)'
    BY DEF Ids
  <2> QED BY <1>4, <2>1, <2>2
<1>7. \A k \in 1..dispatched' : k \in Open' \/ k \in Ids(ledger)'
  BY <1>4
<1> QED BY <1>1, <1>2, <1>4, <1>5, <1>6, <1>7 DEF LedgerInv

\* A record for a packet that had none.
LEMMA RecordAdded ==
    ASSUME TypeInv, AuditInv, NEW id \in 1..dispatched', id \notin Ids(audit),
           NEW record \in AuditRecord, record.id = id, audit' = Append(audit, record),
           \A k \in 1..dispatched : k \in 1..dispatched'
    PROVE  /\ audit' \in Seq(AuditRecord) /\ Ids(audit)' = Ids(audit) \cup {id}
           /\ \A i, j \in DOMAIN audit' : audit'[i].id = audit'[j].id => i = j
           /\ \A i \in DOMAIN audit' : audit'[i].id \in 1..dispatched'
           /\ \A i \in DOMAIN audit' :
                 audit'[i] = record \/ (i \in DOMAIN audit /\ audit'[i] = audit[i])
           /\ \A i \in DOMAIN audit : i \in DOMAIN audit' /\ audit'[i] = audit[i]
           /\ \E i \in DOMAIN audit' : audit'[i] = record
<1>0. audit \in Seq(AuditRecord)
  BY DEF TypeInv
<1>1. /\ audit' \in Seq(AuditRecord)
      /\ \E last \in DOMAIN audit' :
            last \notin DOMAIN audit /\ DOMAIN audit' = DOMAIN audit \cup {last} /\ audit'[last] = record
      /\ \A i \in DOMAIN audit : audit'[i] = audit[i]
  BY <1>0, Grows
<1>2. PICK last \in DOMAIN audit' :
         last \notin DOMAIN audit /\ DOMAIN audit' = DOMAIN audit \cup {last} /\ audit'[last] = record
  BY <1>1
<1>3. \A i \in DOMAIN audit : audit[i].id # id
  BY DEF Ids
<1>4. Ids(audit)' = Ids(audit) \cup {id}
  <2>1. \A k : k \in Ids(audit)' <=> \E i \in DOMAIN audit' : audit'[i].id = k
    BY DEF Ids
  <2>2. \A k : k \in Ids(audit) <=> \E i \in DOMAIN audit : audit[i].id = k
    BY DEF Ids
  <2>3. \A k : k \in Ids(audit)' <=> k \in Ids(audit) \/ k = id
    BY <1>1, <1>2, <2>1, <2>2
  <2> QED BY <2>3
<1>5. \A i, j \in DOMAIN audit' : audit'[i].id = audit'[j].id => i = j
  BY <1>1, <1>2, <1>3 DEF AuditInv
<1>6. \A i \in DOMAIN audit' : audit'[i].id \in 1..dispatched'
  BY <1>1, <1>2 DEF AuditInv
<1> QED BY <1>1, <1>2, <1>4, <1>5, <1>6

\* The packet's number is new.
LEMMA NumberIsNew ==
    ASSUME GateInv, dispatched' = dispatched + 1
    PROVE  /\ dispatched \in Nat /\ dispatched + 1 \in 1..dispatched' /\ dispatched + 1 # SOVEREIGN
           /\ \A k : k \in 1..dispatched' <=> k \in 1..dispatched \/ k = dispatched + 1
           /\ dispatched + 1 \notin Open /\ dispatched + 1 \notin Ids(ledger)
           /\ dispatched + 1 \notin Ids(audit) /\ dispatched + 1 \notin quarantine
<1>1. dispatched \in Nat
  BY GateAssumption DEF GateInv, TypeInv
<1>2. dispatched + 1 \notin 1..dispatched
  BY <1>1
<1>3. dispatched + 1 \notin Open /\ dispatched + 1 \notin Ids(ledger)
      /\ dispatched + 1 \notin Ids(audit) /\ dispatched + 1 \notin quarantine
  BY <1>2 DEF GateInv, StackInv, LedgerInv, AuditInv, QuarantineInv, Open, Ids
<1> QED BY <1>1, <1>3 DEF SOVEREIGN

\* Refused before Knoll is asked: a row and nothing else.
LEMMA RefusedKept ==
    ASSUME GateInv, dispatched < MaxDispatches, dispatched' = dispatched + 1, Alike(frames'), CountersType',
           UNCHANGED <<audit, frozen, cause, quarantine>>,
           NEW row \in LedgerRow, row.id = dispatched + 1, row.status = "BLOCKED", ledger' = Append(ledger, row)
    PROVE  GateInv'
<1> DEFINE n == dispatched + 1
<1>1. /\ dispatched \in Nat /\ n \in 1..dispatched'
      /\ \A k : k \in 1..dispatched' <=> k \in 1..dispatched \/ k = n
      /\ n \notin Open /\ n \notin Ids(ledger) /\ n \notin Ids(audit) /\ n \notin quarantine
  BY NumberIsNew
<1> HIDE DEF n
<1>2. Open' = Open /\ StackInv' /\ OnlyApexCommands'
  BY SameStack
<1>3. \A k \in 1..dispatched : k \in Open <=> k \notin Ids(ledger)
  BY DEF GateInv, LedgerInv, Ids
<1>4. row.id = n
  BY DEF n
<1>5. /\ ledger' \in Seq(LedgerRow) /\ LedgerInv'
      /\ \A i \in DOMAIN ledger' : ledger'[i] = row \/ (i \in DOMAIN ledger /\ ledger'[i] = ledger[i])
  BY <1>1, <1>2, <1>3, <1>4, RowAdded DEF GateInv
<1>6. AuditInv'
  <2>1. /\ \A i, j \in DOMAIN audit : audit[i].id = audit[j].id => i = j
        /\ \A i \in DOMAIN audit : audit[i].id \in 1..dispatched'
        /\ \A id \in Open : \E j \in DOMAIN audit : audit[j].id = id /\ audit[j].outcome = "ALLOWED"
    BY <1>1 DEF GateInv, AuditInv
  <2>2. \A j \in DOMAIN audit : audit[j].id # n
    BY <1>1 DEF Ids
  <2>3. \A i \in DOMAIN ledger', j \in DOMAIN audit : ledger'[i].id = audit[j].id =>
           (ledger'[i].status = "BLOCKED" <=> audit[j].outcome = "BLOCKED")
    BY <1>4, <1>5, <2>2 DEF GateInv, AuditInv
  <2>4. \A i \in DOMAIN ledger' : ledger'[i].status # "BLOCKED" => ledger'[i].id \in Ids(audit)
    BY <1>5 DEF GateInv, AuditInv
  <2> QED BY <1>2, <2>1, <2>3, <2>4 DEF AuditInv, Ids
<1>7. QuarantineInv'
  BY <1>1, <1>2 DEF GateInv, QuarantineInv
<1>8. TypeInv'
  <2>1. frozen' \in BOOLEAN
    BY DEF GateInv, TypeInv
  <2>2. dispatched' \in 0..MaxDispatches /\ cause' \in 0..dispatched'
    BY GateAssumption DEF GateInv, TypeInv
  <2> QED BY <1>5, <2>1, <2>2 DEF GateInv, TypeInv, CountersType, Alike
<1> QED BY <1>2, <1>5, <1>6, <1>7, <1>8 DEF GateInv

\* Blocked by Knoll, or allowed but without a handler: a row and a record that agree;
\* and the packet may have begun, or joined, a freeze.
LEMMA EndedKept ==
    ASSUME GateInv, dispatched < MaxDispatches, dispatched' = dispatched + 1, Alike(frames'), CountersType',
           NEW row \in LedgerRow, row.id = dispatched + 1, ledger' = Append(ledger, row),
           NEW record \in AuditRecord, record.id = dispatched + 1, audit' = Append(audit, record),
           row.status = "BLOCKED" <=> record.outcome = "BLOCKED",
           \/ UNCHANGED <<frozen, cause, quarantine>>
           \/ /\ record.outcome = "BLOCKED" /\ quarantine' = quarantine \cup {dispatched + 1}
              /\ triggerFreeze(dispatched + 1)
    PROVE  GateInv'
<1> DEFINE n == dispatched + 1
<1>1. /\ dispatched \in Nat /\ n \in 1..dispatched' /\ n # SOVEREIGN
      /\ \A k : k \in 1..dispatched' <=> k \in 1..dispatched \/ k = n
      /\ n \notin Open /\ n \notin Ids(ledger) /\ n \notin Ids(audit) /\ n \notin quarantine
  BY NumberIsNew
<1>f. \/ UNCHANGED <<frozen, cause, quarantine>>
      \/ record.outcome = "BLOCKED" /\ quarantine' = quarantine \cup {n} /\ triggerFreeze(n)
  OBVIOUS
<1>c. cause' \in 0..dispatched'
  BY DEF GateInv, TypeInv, triggerFreeze
<1>d. dispatched' \in 0..MaxDispatches
  BY GateAssumption DEF GateInv, TypeInv
<1>4. row.id = n /\ record.id = n
  OBVIOUS
<1> HIDE DEF n
<1>2. Open' = Open /\ StackInv' /\ OnlyApexCommands'
  BY SameStack
<1>3. \A k \in 1..dispatched : k \in Open <=> k \notin Ids(ledger)
  BY DEF GateInv, LedgerInv, Ids
<1>5. /\ ledger' \in Seq(LedgerRow) /\ LedgerInv'
      /\ \A i \in DOMAIN ledger' : ledger'[i] = row \/ (i \in DOMAIN ledger /\ ledger'[i] = ledger[i])
  BY <1>1, <1>2, <1>3, <1>4, RowAdded DEF GateInv
<1>6. /\ audit' \in Seq(AuditRecord) /\ Ids(audit)' = Ids(audit) \cup {n}
      /\ \A i, j \in DOMAIN audit' : audit'[i].id = audit'[j].id => i = j
      /\ \A i \in DOMAIN audit' : audit'[i].id \in 1..dispatched'
      /\ \A i \in DOMAIN audit' : audit'[i] = record \/ (i \in DOMAIN audit /\ audit'[i] = audit[i])
      /\ \A i \in DOMAIN audit : i \in DOMAIN audit' /\ audit'[i] = audit[i]
      /\ \E i \in DOMAIN audit' : audit'[i] = record
  BY <1>1, <1>4, RecordAdded DEF GateInv
<1>7. AuditInv'
  <2>1. \A id \in Open' : \E j \in DOMAIN audit' : audit'[j].id = id /\ audit'[j].outcome = "ALLOWED"
    BY <1>2, <1>6 DEF GateInv, AuditInv
  <2>2. (\A j \in DOMAIN audit : audit[j].id # n) /\ (\A i \in DOMAIN ledger : ledger[i].id # n)
    BY <1>1 DEF Ids
  <2>3. \A i \in DOMAIN ledger', j \in DOMAIN audit' : ledger'[i].id = audit'[j].id =>
           (ledger'[i].status = "BLOCKED" <=> audit'[j].outcome = "BLOCKED")
    BY <1>4, <1>5, <1>6, <2>2 DEF GateInv, AuditInv
  <2>4. \A i \in DOMAIN ledger' : ledger'[i].status # "BLOCKED" => ledger'[i].id \in Ids(audit)'
    BY <1>4, <1>5, <1>6 DEF GateInv, AuditInv
  <2> QED BY <1>6, <2>1, <2>3, <2>4 DEF AuditInv
<1>8. QuarantineInv'
  <2>1. \A id \in quarantine : /\ id \in 1..dispatched' /\ id \notin Open'
                               /\ \E j \in DOMAIN audit' : audit'[j].id = id /\ audit'[j].outcome = "BLOCKED"
    BY <1>1, <1>2, <1>6 DEF GateInv, QuarantineInv
  <2>2. CASE UNCHANGED <<frozen, cause, quarantine>>
    BY <2>1, <2>2 DEF GateInv, QuarantineInv
  <2>3. CASE record.outcome = "BLOCKED" /\ quarantine' = quarantine \cup {n} /\ triggerFreeze(n)
    <3>1. \E j \in DOMAIN audit' : audit'[j].id = n /\ audit'[j].outcome = "BLOCKED"
      BY <1>4, <1>6, <2>3
    <3>2. cause' # SOVEREIGN => cause' \in quarantine'
      BY <2>3 DEF GateInv, QuarantineInv, triggerFreeze
    <3> QED BY <1>1, <1>2, <2>1, <2>3, <3>1, <3>2 DEF QuarantineInv
  <2> QED BY <1>f, <2>2, <2>3
<1>9. TypeInv'
  <2>1. frozen' \in BOOLEAN
    BY <1>f DEF GateInv, TypeInv, triggerFreeze
  <2> QED BY <1>5, <1>6, <1>c, <1>d, <2>1 DEF TypeInv, CountersType, Alike
<1> QED BY <1>2, <1>5, <1>7, <1>8, <1>9 DEF GateInv

Pushed(under, frame) == frames' = Append(under, frame)

\* A handler starts on top of the one that sent its packet.
LEMMA StartedKept ==
    ASSUME GateInv, dispatched < MaxDispatches, dispatched' = dispatched + 1, CountersType',
           NEW under, Alike(under), NEW frame \in Frame, frame.id = dispatched + 1, Pushed(under, frame),
           frames # <<>> => Above(Top.packet.dst, frame.packet.dst),
           frame.packet.dst \in {"DREAM", "VISION"} =>
              frame.packet.src = "APEX" /\ frame.packet.duty \in {"none", OWN[frame.packet.dst]},
           NEW record \in AuditRecord, record.id = dispatched + 1, record.outcome = "ALLOWED",
           audit' = Append(audit, record), UNCHANGED <<ledger, frozen, cause, quarantine>>
    PROVE  GateInv'
<1> DEFINE n == dispatched + 1
<1>1. /\ dispatched \in Nat /\ n \in 1..dispatched'
      /\ \A k : k \in 1..dispatched' <=> k \in 1..dispatched \/ k = n
      /\ n \notin Open /\ n \notin Ids(ledger) /\ n \notin Ids(audit) /\ n \notin quarantine
  BY NumberIsNew
<1>c. cause' \in 0..dispatched' /\ dispatched' \in 0..MaxDispatches
  BY GateAssumption DEF GateInv, TypeInv
<1>4. frame.id = n /\ record.id = n
  OBVIOUS
<1> HIDE DEF n
<1>2. /\ frames \in Seq(Frame) /\ under \in Seq(Frame) /\ Len(under) = Len(frames) /\ DOMAIN under = DOMAIN frames
      /\ \A i \in DOMAIN frames : under[i].id = frames[i].id /\ under[i].packet = frames[i].packet
  BY DEF GateInv, TypeInv, Alike
<1> DEFINE last == Len(frames) + 1
<1>3. /\ frames' \in Seq(Frame) /\ DOMAIN frames = 1..Len(frames) /\ DOMAIN frames' = 1..last
      /\ Len(frames) \in Nat /\ Len(frames') = last /\ frames'[last] = frame
      /\ \A i \in 1..Len(frames) : frames'[i] = under[i]
  BY <1>2, AppendIs DEF Pushed
<1>5. /\ DOMAIN frames' = DOMAIN frames \cup {last} /\ last \notin DOMAIN frames /\ frames'[last] = frame
      /\ \A i \in DOMAIN frames : frames'[i].id = frames[i].id /\ frames'[i].packet = frames[i].packet
  BY <1>2, <1>3
<1>6. \A id : id \in Open' <=> id \in Open \/ id = n
  <2>1. \A id : id \in Open' <=> \E i \in DOMAIN frames' : frames'[i].id = id
    BY DEF Open
  <2>2. \A id : id \in Open <=> \E i \in DOMAIN frames : frames[i].id = id
    BY DEF Open
  <2> HIDE DEF last
  <2> QED BY <1>4, <1>5, <2>1, <2>2
<1>7. StackInv'
  <2>1. \A i \in 1..(last - 1) : Above(frames'[i].packet.dst, frames'[i + 1].packet.dst)
    <3> SUFFICES ASSUME NEW i \in 1..(last - 1) PROVE Above(frames'[i].packet.dst, frames'[i + 1].packet.dst)
      OBVIOUS
    <3>1. CASE i = last - 1
      <4>1. Top = frames[i] /\ frames # <<>> /\ i + 1 = last /\ i \in DOMAIN frames
        BY <1>2, <1>3, <3>1 DEF Top, Last
      <4> QED BY <1>3, <1>5, <4>1
    <3>2. CASE i # last - 1
      <4>1. PICK height \in Nat : height = Len(frames) /\ DOMAIN frames = 1..height
        BY <1>3
      <4>2. i \in 1..height /\ i # height
        BY <3>2, <4>1
      <4>3. i \in 1..(height - 1) /\ i \in 1..height /\ i + 1 \in 1..height
        BY <4>2
      <4> QED BY <1>5, <4>1, <4>3 DEF GateInv, StackInv
    <3> QED BY <3>1, <3>2
  <2> HIDE DEF last
  <2>2. \A i \in DOMAIN frames : frames[i].id # n
    BY <1>1 DEF Open
  <2>3. \A i, j \in DOMAIN frames' : frames'[i].id = frames'[j].id => i = j
    BY <1>4, <1>5, <2>2 DEF GateInv, StackInv
  <2>4. \A i \in DOMAIN frames' : frames'[i].id \in 1..dispatched'
    <3>1. \A i \in DOMAIN frames : frames[i].id \in 1..dispatched'
      BY <1>1 DEF GateInv, StackInv
    <3> QED BY <1>1, <1>4, <1>5, <3>1
  <2> QED BY <1>3, <2>1, <2>3, <2>4 DEF StackInv, Above
<1> HIDE DEF last
<1>8. OnlyApexCommands'
  BY <1>3, <1>5 DEF GateInv, OnlyApexCommands
<1>9. LedgerInv'
  <2>1. \A i \in DOMAIN ledger : ledger[i].id # n
    BY <1>1 DEF Ids
  <2>2. /\ \A i, j \in DOMAIN ledger : ledger[i].id = ledger[j].id => i = j
        /\ \A i \in DOMAIN ledger : ledger[i].id \in 1..dispatched' /\ ledger[i].id \notin Open'
    BY <1>1, <1>6, <2>1 DEF GateInv, LedgerInv
  <2>3. \A id \in 1..dispatched' : id \in Open' \/ id \in Ids(ledger)
    BY <1>1, <1>6 DEF GateInv, LedgerInv
  <2> QED BY <2>2, <2>3 DEF LedgerInv, Ids
<1>10. /\ audit' \in Seq(AuditRecord) /\ Ids(audit)' = Ids(audit) \cup {n}
       /\ \A i, j \in DOMAIN audit' : audit'[i].id = audit'[j].id => i = j
       /\ \A i \in DOMAIN audit' : audit'[i].id \in 1..dispatched'
       /\ \A i \in DOMAIN audit' : audit'[i] = record \/ (i \in DOMAIN audit /\ audit'[i] = audit[i])
       /\ \A i \in DOMAIN audit : i \in DOMAIN audit' /\ audit'[i] = audit[i]
       /\ \E i \in DOMAIN audit' : audit'[i] = record
  BY <1>1, <1>4, RecordAdded DEF GateInv
<1>11. AuditInv'
  <2>1. \A id \in Open' : \E j \in DOMAIN audit' : audit'[j].id = id /\ audit'[j].outcome = "ALLOWED"
    BY <1>4, <1>6, <1>10 DEF GateInv, AuditInv
  <2>2. \A i \in DOMAIN ledger : ledger[i].id # n
    BY <1>1 DEF Ids
  <2>3. \A i \in DOMAIN ledger, j \in DOMAIN audit' : ledger[i].id = audit'[j].id =>
           (ledger[i].status = "BLOCKED" <=> audit'[j].outcome = "BLOCKED")
    BY <1>4, <1>10, <2>2 DEF GateInv, AuditInv
  <2>4. \A i \in DOMAIN ledger : ledger[i].status # "BLOCKED" => ledger[i].id \in Ids(audit)'
    BY <1>10 DEF GateInv, AuditInv
  <2> QED BY <1>10, <2>1, <2>3, <2>4 DEF AuditInv
<1>12. QuarantineInv'
  <2>1. \A id \in quarantine : id \in 1..dispatched' /\ id \notin Open'
    BY <1>1, <1>6 DEF GateInv, QuarantineInv
  <2>2. \A id \in quarantine : \E j \in DOMAIN audit' : audit'[j].id = id /\ audit'[j].outcome = "BLOCKED"
    BY <1>10 DEF GateInv, QuarantineInv
  <2>3. frozen' /\ cause' # SOVEREIGN => cause' \in quarantine
    BY DEF GateInv, QuarantineInv
  <2> QED BY <2>1, <2>2, <2>3 DEF QuarantineInv
<1>13. TypeInv'
  <2>1. frozen' \in BOOLEAN
    BY DEF GateInv, TypeInv
  <2>2. ledger' \in Seq(LedgerRow)
    BY DEF GateInv, TypeInv
  <2> QED BY <1>3, <1>10, <1>c, <2>1, <2>2 DEF TypeInv, CountersType
<1> QED BY <1>7, <1>8, <1>9, <1>11, <1>12, <1>13 DEF GateInv

\* The handler on top ends: its packet gets the row it had not.
LEMMA SettledKept ==
    ASSUME GateInv, frames # <<>>, NEW status \in {"SUCCESS", "FAILED"}, Settle(status) PROVE GateInv'
<1>1. PICK top \in Frame : top = Top
  BY FrontIs DEF GateInv, TypeInv, Top
<1> DEFINE row == [id |-> top.id, status |-> status]
<1>2. ledger' = Append(ledger, row)
  BY <1>1 DEF Settle
<1>3. row \in LedgerRow /\ row.id = top.id /\ row.status # "BLOCKED"
  BY DEF LedgerRow, Frame
<1> HIDE DEF row
<1>4. UNCHANGED <<dispatched, audit, frozen, cause, quarantine, bucket, recent, reputation>>
      /\ frames' = Front(frames)
  BY DEF Settle
<1>0. frames \in Seq(Frame)
  BY DEF GateInv, TypeInv
<1>a. PICK height \in Nat \ {0} : height = Len(frames)
  BY <1>0
<1>5. /\ height = Len(frames) /\ DOMAIN frames = 1..height /\ top = frames[height]
      /\ frames' \in Seq(Frame) /\ DOMAIN frames' = 1..(height - 1) /\ Len(frames') = height - 1
      /\ \A i \in 1..(height - 1) : frames'[i] = frames[i]
  <2>1. DOMAIN frames = 1..height
    BY <1>0, <1>a
  <2>2. /\ frames' \in Seq(Frame) /\ Len(frames') = height - 1
        /\ \A i \in 1..(height - 1) : frames'[i] = frames[i]
    BY <1>0, <1>a, <1>4, FrontIs
  <2>3. DOMAIN frames' = 1..(height - 1)
    BY <2>2
  <2>4. top = frames[height]
    BY <1>1, <1>a DEF Top, Last
  <2> QED BY <1>a, <2>1, <2>2, <2>3, <2>4
<1>6. \A i : i \in DOMAIN frames <=> i \in DOMAIN frames' \/ i = height
  BY <1>5
<1>7. height \notin DOMAIN frames' /\ \A i \in DOMAIN frames' : frames'[i] = frames[i]
  BY <1>5
<1>8. \A i \in DOMAIN frames' : frames'[i].id # top.id
  BY <1>5, <1>6, <1>7 DEF GateInv, StackInv
<1>9. \A id : id \in Open' <=> id \in Open /\ id # top.id
  <2>1. \A id : id \in Open' <=> \E i \in DOMAIN frames' : frames'[i].id = id
    BY DEF Open
  <2>2. \A id : id \in Open <=> \E i \in DOMAIN frames : frames[i].id = id
    BY DEF Open
  <2>3. top = frames[height]
    BY <1>5
  <2> QED BY <1>6, <1>7, <1>8, <2>1, <2>2, <2>3
<1>10. top.id \in Open /\ top.id \in 1..dispatched
  BY <1>5, <1>6 DEF Open, GateInv, StackInv
<1>11. top.id \notin Ids(ledger)
  BY <1>10 DEF GateInv, LedgerInv, Ids
<1>12. \A k \in 1..dispatched : k \in Open' <=> k \notin Ids(ledger) \cup {top.id}
  BY <1>9 DEF GateInv, LedgerInv, Ids
<1>13. /\ ledger' \in Seq(LedgerRow) /\ LedgerInv'
       /\ \A i \in DOMAIN ledger' : ledger'[i] = row \/ (i \in DOMAIN ledger /\ ledger'[i] = ledger[i])
  BY <1>2, <1>3, <1>4, <1>10, <1>11, <1>12, RowAdded DEF GateInv
<1>14. AuditInv'
  <2>1. \A j \in DOMAIN audit : audit[j].id = top.id => audit[j].outcome = "ALLOWED"
    BY <1>10 DEF GateInv, AuditInv
  <2>2. top.id \in Ids(audit)
    BY <1>10 DEF GateInv, AuditInv, Ids
  <2>3. \A i \in DOMAIN ledger', j \in DOMAIN audit : ledger'[i].id = audit[j].id =>
           (ledger'[i].status = "BLOCKED" <=> audit[j].outcome = "BLOCKED")
    BY <1>3, <1>13, <2>1 DEF GateInv, AuditInv
  <2>4. \A i \in DOMAIN ledger' : ledger'[i].status # "BLOCKED" => ledger'[i].id \in Ids(audit)
    BY <1>3, <1>13, <2>2 DEF GateInv, AuditInv
  <2>5. \A id \in Open' : \E j \in DOMAIN audit : audit[j].id = id /\ audit[j].outcome = "ALLOWED"
    BY <1>9 DEF GateInv, AuditInv
  <2>6. /\ \A i, j \in DOMAIN audit : audit[i].id = audit[j].id => i = j
        /\ \A i \in DOMAIN audit : audit[i].id \in 1..dispatched
    BY DEF GateInv, AuditInv
  <2> QED BY <1>4, <2>3, <2>4, <2>5, <2>6 DEF AuditInv, Ids
<1>15. QuarantineInv'
  BY <1>4, <1>9 DEF GateInv, QuarantineInv
<1>16. StackInv'
  <2>1. /\ \A i, j \in DOMAIN frames' : frames'[i].id = frames'[j].id => i = j
        /\ \A i \in DOMAIN frames' : frames'[i].id \in 1..dispatched
    BY <1>6, <1>7 DEF GateInv, StackInv
  <2>2. \A i \in 1..(height - 2) : Above(frames'[i].packet.dst, frames'[i + 1].packet.dst)
    <3> SUFFICES ASSUME NEW i \in 1..(height - 2) PROVE Above(frames'[i].packet.dst, frames'[i + 1].packet.dst)
      OBVIOUS
    <3>1. i \in 1..(height - 1) /\ i + 1 \in 1..(height - 1)
      OBVIOUS
    <3> QED BY <1>5, <3>1 DEF GateInv, StackInv
  <2>3. Len(frames') - 1 = height - 2
    BY <1>5
  <2> QED BY <1>4, <2>1, <2>2, <2>3 DEF StackInv, Above
<1>17. OnlyApexCommands'
  BY <1>6, <1>7 DEF GateInv, OnlyApexCommands
<1>18. TypeInv'
  <2>1. frozen' \in BOOLEAN
    BY <1>4 DEF GateInv, TypeInv
  <2> QED BY <1>4, <1>5, <1>13, <2>1 DEF GateInv, TypeInv
<1> QED BY <1>13, <1>14, <1>15, <1>16, <1>17, <1>18 DEF GateInv

-----------------------------------------------------------------------------
(* The steps.                                                              *)

LEMMA CountersStay ==
    ASSUME GateInv, NEW p \in GatePackets,
           UNCHANGED bucket \/ Counted(p), UNCHANGED <<recent, reputation>> \/ Scored(p)
    PROVE  CountersType'
<1>1. p.src \in Roles
  BY DEF GatePackets
<1>2. CountersType
  BY DEF GateInv, TypeInv, CountersType
<1>3. bucket' \in [Roles -> Nat]
  BY <1>1, <1>2 DEF Counted, CountersType
<1>4. CASE UNCHANGED <<recent, reputation>>
  BY <1>2, <1>3, <1>4 DEF CountersType
<1>5. CASE Scored(p)
  <2>1. feedback(p) \in 0..100
    BY <1>1, <1>2 DEF feedback, Within, CountersType
  <2>2. recent' \in [Roles -> Nat]
    BY <1>1, <1>2, <1>5 DEF Scored, CountersType
  <2>3. reputation' \in [Roles -> 0..100]
    BY <1>1, <1>2, <1>5, <2>1 DEF Scored, CountersType
  <2> QED BY <1>3, <2>2, <2>3 DEF CountersType
<1> QED BY <1>4, <1>5

\* Five laws together: DREAM and VISION hear APEX alone.
LEMMA LawfulCommands ==
    ASSUME NEW p \in GatePackets, Lawful(p), p.dst \in {"DREAM", "VISION"}
    PROVE  p.src = "APEX" /\ p.duty \in {"none", OWN[p.dst]}
BY DEF Lawful, lawValidEndpoints, lawNoDirectDreamVision, lawNoKnollForgery, lawHopeCannotCommand,
       lawPrimaryTriadDuty, Roles, Triad

LEMMA DispatchKept ==
    ASSUME GateInv, NEW p \in GatePackets, NEW token \in BOOLEAN, NEW under, Alike(under),
           frames # <<>> => Above(Top.packet.dst, p.dst), dispatch(p, token, under)
    PROVE  GateInv'
<1>1. dispatched < MaxDispatches /\ dispatched' = dispatched + 1 /\ dispatched + 1 \in Nat
  BY NumberIsNew DEF dispatch
<1> DEFINE blockedRow == [id |-> dispatched + 1, status |-> "BLOCKED"]
           blockedRecord == [id |-> dispatched + 1, outcome |-> "BLOCKED"]
           allowedRecord == [id |-> dispatched + 1, outcome |-> "ALLOWED"]
           failedRow == [id |-> dispatched + 1, status |-> "FAILED"]
<1>2. /\ blockedRow \in LedgerRow /\ blockedRow.id = dispatched + 1 /\ blockedRow.status = "BLOCKED"
      /\ failedRow \in LedgerRow /\ failedRow.id = dispatched + 1 /\ failedRow.status = "FAILED"
  BY <1>1 DEF LedgerRow
<1>3. /\ blockedRecord \in AuditRecord /\ blockedRecord.id = dispatched + 1 /\ blockedRecord.outcome = "BLOCKED"
      /\ allowedRecord \in AuditRecord /\ allowedRecord.id = dispatched + 1 /\ allowedRecord.outcome = "ALLOWED"
  BY <1>1 DEF AuditRecord
<1>4. /\ Row("BLOCKED") = Append(ledger, blockedRow) /\ Row("FAILED") = Append(ledger, failedRow)
      /\ Audited("BLOCKED") = Append(audit, blockedRecord) /\ Audited("ALLOWED") = Append(audit, allowedRecord)
  BY DEF Row, Audited
<1> HIDE DEF blockedRow, failedRow, blockedRecord, allowedRecord
<1>5. CASE Refused(p, token, under)
  <2>1. CountersType' /\ Alike(frames')
    BY <1>5, CountersStay DEF Refused
  <2> QED BY <1>1, <1>2, <1>4, <1>5, <2>1, RefusedKept DEF Refused, Calm
<1>6. CASE Tampered(p, token, under)
  <2>1. CountersType' /\ Alike(frames')
    BY <1>6, CountersStay DEF Tampered
  <2> QED BY <1>1, <1>2, <1>3, <1>4, <1>6, <2>1, EndedKept DEF Tampered, Calm
<1>7. CASE Denied(p, token, under)
  <2>1. CountersType' /\ Alike(frames')
    BY <1>7, CountersStay DEF Denied
  <2> QED BY <1>1, <1>2, <1>3, <1>4, <1>7, <2>1, EndedKept DEF Denied, Calm
<1>8. CASE Anomaly(p, token, under)
  <2>1. CountersType' /\ Alike(frames')
    BY <1>8, CountersStay DEF Anomaly
  <2> QED BY <1>1, <1>2, <1>3, <1>4, <1>8, <2>1, EndedKept DEF Anomaly
<1>9. CASE Delivered(p, token, under)
  <2>1. CountersType'
    BY <1>9, CountersStay DEF Delivered
  <2>2. audit' = Append(audit, allowedRecord) /\ Lawful(p) /\ UNCHANGED <<frozen, cause, quarantine>>
    BY <1>4, <1>9 DEF Delivered, Passes, Calm
  <2>3. CASE p.dst \in Wired
    <3> DEFINE frame == [id |-> dispatched + 1, packet |-> p, token |-> token, sent |-> FALSE]
    <3>1. frame \in Frame
      BY <1>1 DEF Frame
    <3>2. frame.id = dispatched + 1 /\ frame.packet = p
      OBVIOUS
    <3>3. Pushed(under, frame) /\ UNCHANGED ledger
      BY <1>9, <2>3 DEF Delivered, Pushed
    <3> HIDE DEF frame
    <3> QED BY <1>1, <1>3, <2>1, <2>2, <3>1, <3>2, <3>3, LawfulCommands, StartedKept
  <2>4. CASE p.dst \notin Wired
    <3>1. Alike(frames') /\ ledger' = Append(ledger, failedRow)
      BY <1>4, <1>9, <2>4 DEF Delivered
    <3> QED BY <1>1, <1>2, <1>3, <2>1, <2>2, <3>1, EndedKept
  <2> QED BY <2>3, <2>4
<1> QED BY <1>5, <1>6, <1>7, <1>8, <1>9 DEF dispatch

LEMMA SubmitStep ==
    ASSUME GateInv, NEW p \in Inputs, NEW token \in BOOLEAN, Submit(p, token) PROVE GateInv'
<1>1. Alike(frames) /\ p \in GatePackets
  BY GateAssumption DEF Alike, GateInv, TypeInv
<1> QED BY <1>1, DispatchKept DEF Submit

LEMMA SendStep ==
    ASSUME GateInv, sendViaApex PROVE GateInv'
<1>1. frames # <<>> /\ Owes /\ Alike(Sent)
  BY SentAlike DEF sendViaApex, GateInv
<1>2. PICK top \in Frame : top = Top
  BY <1>1, FrontIs DEF GateInv, TypeInv, Top
<1>3. PICK q \in GatePackets : q = top.packet
  BY DEF Frame
<1>4. CASE q.dst = "APEX"
  <2>1. PICK p : p = forward
    OBVIOUS
  <2>2. p = [q EXCEPT !.src = "APEX", !.dst = q.suggested] /\ q.suggested \in {"DREAM", "VISION"}
    BY <1>1, <1>2, <1>3, <1>4, <2>1 DEF forward, Owes
  <2>3. p \in GatePackets /\ p.dst = q.suggested
    BY <2>2 DEF GatePackets, Roles, Triad
  <2>4. Above(Top.packet.dst, p.dst) /\ dispatch(p, FALSE, Sent)
    BY <1>2, <1>3, <1>4, <2>1, <2>2, <2>3 DEF Above, sendViaApex
  <2> QED BY <1>1, <2>3, <2>4, DispatchKept
<1>5. CASE q.dst # "APEX"
  <2>1. PICK content \in Results : dispatch(report(content), FALSE, Sent)
    BY <1>2, <1>3, <1>5 DEF sendViaApex
  <2>2. PICK p : p = report(content)
    OBVIOUS
  <2>3. p = [src |-> q.dst, dst |-> "HOPE", suggested |-> "none", shape |-> "ok", content |-> content, duty |-> "none"]
    BY <1>2, <1>3, <2>2 DEF report
  <2>4. p \in GatePackets /\ p.dst = "HOPE"
    BY <2>3, GateAssumption DEF GatePackets, Roles, Triad
  <2>5. Above(Top.packet.dst, p.dst)
    BY <1>1, <1>2, <1>3, <1>5, <2>4 DEF Above, Owes
  <2> QED BY <1>1, <2>1, <2>2, <2>4, <2>5, DispatchKept
<1> QED BY <1>4, <1>5

\* Nothing but the counters, or the freeze, changes.
LEMMA LogsStay ==
    ASSUME GateInv, UNCHANGED <<frames, dispatched, ledger, audit, quarantine>>
    PROVE  StackInv' /\ OnlyApexCommands' /\ LedgerInv' /\ AuditInv'
BY DEF GateInv, StackInv, OnlyApexCommands, LedgerInv, AuditInv, Open, Ids

LEMMA PauseStep ==
    ASSUME GateInv, NEW s \in Roles, Pause(s) PROVE GateInv'
<1>1. StackInv' /\ OnlyApexCommands' /\ LedgerInv' /\ AuditInv'
  BY LogsStay DEF Pause
<1>2. QuarantineInv'
  BY DEF Pause, GateInv, QuarantineInv, Open
<1>3. frozen' \in BOOLEAN
  BY DEF Pause, GateInv, TypeInv
<1>4. TypeInv'
  BY <1>3 DEF Pause, GateInv, TypeInv
<1> QED BY <1>1, <1>2, <1>4 DEF GateInv

LEMMA SetFreezeStep ==
    ASSUME GateInv, NEW on \in BOOLEAN, SetFreeze(on) PROVE GateInv'
<1>1. StackInv' /\ OnlyApexCommands' /\ LedgerInv' /\ AuditInv'
  BY LogsStay DEF SetFreeze
<1>2. UNCHANGED <<frames, dispatched, ledger, audit, quarantine, bucket, recent, reputation>>
  BY DEF SetFreeze
<1>3. CASE on
  <2>1. frozen' = TRUE /\ cause' = IF frozen THEN cause ELSE SOVEREIGN
    BY <1>3 DEF SetFreeze, triggerFreeze
  <2>2. QuarantineInv'
    BY <1>2, <2>1 DEF GateInv, QuarantineInv, Open
  <2>3. frozen' \in BOOLEAN
    BY <2>1
  <2>4. TypeInv'
    BY <1>2, <2>1, <2>3, GateAssumption DEF GateInv, TypeInv, SOVEREIGN
  <2> QED BY <1>1, <2>2, <2>4 DEF GateInv
<1>4. CASE ~on
  <2>1. frozen' = FALSE /\ cause' = SOVEREIGN
    BY <1>4 DEF SetFreeze
  <2>2. QuarantineInv'
    BY <1>2, <2>1 DEF GateInv, QuarantineInv, Open
  <2>3. frozen' \in BOOLEAN
    BY <2>1
  <2>4. TypeInv'
    BY <1>2, <2>1, <2>3, GateAssumption DEF GateInv, TypeInv, SOVEREIGN
  <2> QED BY <1>1, <2>2, <2>4 DEF GateInv
<1> QED BY <1>3, <1>4

GateMoves == GateNext \/ \E on \in BOOLEAN : SetFreeze(on)

LEMMA GateStepInv == GateInv /\ [GateMoves]_gateVars => GateInv'
<1> SUFFICES ASSUME GateInv, [GateMoves]_gateVars PROVE GateInv'
  OBVIOUS
<1>1. ASSUME NEW p \in Inputs, NEW token \in BOOLEAN, Submit(p, token) PROVE GateInv'
  BY <1>1, SubmitStep
<1>2. CASE sendViaApex
  BY <1>2, SendStep
<1>3. CASE HandlerReturns
  BY <1>3, SettledKept DEF HandlerReturns
<1>4. CASE HandlerThrows
  BY <1>4, SettledKept DEF HandlerThrows
<1>5. ASSUME NEW s \in Roles, Pause(s) PROVE GateInv'
  BY <1>5, PauseStep
<1>6. ASSUME NEW on \in BOOLEAN, SetFreeze(on) PROVE GateInv'
  BY <1>6, SetFreezeStep
<1>7. CASE UNCHANGED gateVars
  <2>1. UNCHANGED <<frames, dispatched, ledger, audit, frozen, cause, quarantine, bucket, recent, reputation>>
    BY <1>7 DEF gateVars
  <2>2. StackInv' /\ OnlyApexCommands' /\ LedgerInv' /\ AuditInv'
    BY <2>1, LogsStay
  <2>3. QuarantineInv'
    BY <2>1 DEF GateInv, QuarantineInv, Open
  <2>4. TypeInv'
    BY <2>1 DEF GateInv, TypeInv
  <2> QED BY <2>2, <2>3, <2>4 DEF GateInv
<1> QED BY <1>1, <1>2, <1>3, <1>4, <1>5, <1>6, <1>7 DEF GateMoves, GateNext

LEMMA GateInvHolds == GateSpec => []GateInv
BY GateInitInv, GateStepInv, PTL DEF GateSpec, GateMoves

\* A stack of handlers has APEX's, one that it forwards to, and HOPE's at most.
LEMMA StackIsLow == ASSUME GateInv PROVE Len(frames) <= 3
<1> SUFFICES ASSUME ~(Len(frames) <= 3) PROVE FALSE
  OBVIOUS
<1>1. Len(frames) \in Nat
  BY DEF GateInv, TypeInv
<1>2. 1 \in 1..(Len(frames) - 1) /\ 2 \in 1..(Len(frames) - 1) /\ 3 \in 1..(Len(frames) - 1)
  BY <1>1
<1>3. /\ Above(frames[1].packet.dst, frames[1 + 1].packet.dst)
      /\ Above(frames[2].packet.dst, frames[2 + 1].packet.dst)
      /\ Above(frames[3].packet.dst, frames[3 + 1].packet.dst)
  BY <1>2 DEF GateInv, StackInv
<1>4. 1 + 1 = 2 /\ 2 + 1 = 3
  OBVIOUS
<1> QED BY <1>3, <1>4 DEF Above

\* Through gatedDispatch and the handlers that dispatch again, throw or find the
\* system frozen: every packet ends with one row that agrees with its audit record,
\* DREAM and VISION hear APEX alone, and what raised an anomaly neither ran nor
\* paid (gateway, apex and knoll of hdv-foundation).
THEOREM GateIsKept == GateSpec => []GateHolds
<1>1. GateInv => GateTypeOK
  <2> SUFFICES ASSUME GateInv PROVE GateTypeOK
    OBVIOUS
  <2>1. Ids(ledger) \cup Ids(audit) \cup Open \cup quarantine \subseteq 1..dispatched
    BY DEF GateInv, StackInv, LedgerInv, AuditInv, QuarantineInv, Ids, Open
  <2>2. \A s \in Roles : bucket[s] \in Nat /\ recent[s] \in Nat /\ reputation[s] \in 0..100
    BY DEF GateInv, TypeInv
  <2>3. dispatched \in 0..MaxDispatches /\ cause \in 0..dispatched
    BY DEF GateInv, TypeInv
  <2> QED BY <2>1, <2>2, <2>3, StackIsLow DEF GateTypeOK
<1>2. GateInv => OneRowEach
  BY DEF GateInv, LedgerInv, OneRowEach, Entries, Ids
<1>3. GateInv => LedgerMatchesAudit
  <2> SUFFICES ASSUME GateInv, NEW id \in 1..dispatched
               PROVE  /\ \A i, j \in Entries(audit, id) : i = j
                      /\ \A i \in Entries(ledger, id), j \in Entries(audit, id) :
                            ledger[i].status = "BLOCKED" <=> audit[j].outcome = "BLOCKED"
                      /\ id \in Open => \E j \in Entries(audit, id) : audit[j].outcome = "ALLOWED"
                      /\ (\E i \in Entries(ledger, id) : ledger[i].status # "BLOCKED") => id \in Ids(audit)
    BY DEF LedgerMatchesAudit
  <2> QED BY DEF GateInv, AuditInv, Entries
<1>4. GateInv => FreezeHasCause
  BY DEF GateInv, QuarantineInv, FreezeHasCause, Entries
<1>5. GateInv => AnomalyNeverRuns
  BY DEF GateInv, QuarantineInv, AuditInv, AnomalyNeverRuns, Entries
<1> QED BY <1>1, <1>2, <1>3, <1>4, <1>5, GateInvHolds, PTL DEF GateHolds, GateInv

\* While Knoll has the system frozen no handler starts without an override token,
\* also not one that a handler under way asks for (gatedDispatch, freeze controller).
THEOREM FrozenIsStill == GateSpec => StillWhileFrozen
<1> DEFINE Still == frozen /\ Len(frames') > Len(frames) => Last(frames').token
<1>1. ASSUME GateInv, NEW p, NEW token \in BOOLEAN, NEW under, Alike(under),
             dispatch(p, token, under), frozen, Len(frames') > Len(frames)
      PROVE  Last(frames').token
  <2>1. Len(under) = Len(frames) /\ under \in Seq(Frame) /\ Len(frames) \in Nat
    BY <1>1 DEF Alike, GateInv, TypeInv
  <2>2. CASE frames' = under
    BY <1>1, <2>1, <2>2
  <2>3. CASE token /\ frames' = Append(under, [id |-> dispatched + 1, packet |-> p, token |-> token, sent |-> FALSE])
    BY <2>1, <2>3 DEF Last
  <2> QED BY <1>1, <2>2, <2>3 DEF dispatch, Refused, Tampered, Denied, Anomaly, Delivered, Passes, Closed
<1>2. GateInv /\ [GateMoves]_gateVars => [Still]_gateVars
  <2> SUFFICES ASSUME GateInv, GateMoves, frozen, Len(frames') > Len(frames) PROVE Last(frames').token
    BY DEF gateVars
  <2>0. Len(frames) \in Nat
    BY DEF GateInv, TypeInv
  <2>1. ASSUME NEW p \in Inputs, NEW token \in BOOLEAN, Submit(p, token) PROVE Last(frames').token
    BY <1>1, <2>1 DEF Submit, Alike, GateInv, TypeInv
  <2>2. CASE sendViaApex
    <3>1. Alike(Sent)
      BY <2>2, SentAlike DEF sendViaApex, GateInv
    <3>2. PICK p : dispatch(p, FALSE, Sent)
      BY <2>2 DEF sendViaApex
    <3> QED BY <1>1, <3>1, <3>2
  <2>3. ASSUME frames # <<>>, frames' = Front(frames) PROVE Last(frames').token
    <3>1. frames \in Seq(Frame)
      BY DEF GateInv, TypeInv
    <3>2. Len(frames') = Len(frames) - 1
      BY <2>3, <3>1, FrontIs
    <3> QED BY <2>0, <3>2
  <2>4. CASE UNCHANGED frames
    BY <2>0, <2>4
  <2> QED BY <2>1, <2>2, <2>3, <2>4 DEF GateMoves, GateNext, HandlerReturns, HandlerThrows, Settle, Pause, SetFreeze
<1> QED BY <1>2, GateInvHolds, PTL DEF GateSpec, GateMoves, StillWhileFrozen

\* A freeze that goes on keeps the cause it began with, though another anomaly or
\* the Holloway override comes upon it (triggerFreeze).
THEOREM CauseIsKept == GateSpec => [][FirstCauseStays]_gateVars
<1>1. ASSUME NEW p, NEW token, NEW under, dispatch(p, token, under) PROVE FirstCauseStays
  BY <1>1 DEF dispatch, Refused, Tampered, Denied, Anomaly, Delivered, Calm, triggerFreeze, FirstCauseStays
<1>2. GateMoves => FirstCauseStays
  <2> SUFFICES ASSUME GateMoves PROVE FirstCauseStays
    OBVIOUS
  <2>1. ASSUME NEW p \in Inputs, NEW token \in BOOLEAN, Submit(p, token) PROVE FirstCauseStays
    BY <1>1, <2>1 DEF Submit
  <2>2. CASE sendViaApex
    BY <1>1, <2>2 DEF sendViaApex
  <2>3. CASE UNCHANGED <<frozen, cause>>
    BY <2>3 DEF FirstCauseStays
  <2>4. ASSUME NEW on \in BOOLEAN, SetFreeze(on) PROVE FirstCauseStays
    BY <2>4 DEF SetFreeze, triggerFreeze, FirstCauseStays
  <2> QED BY <2>1, <2>2, <2>3, <2>4 DEF GateMoves, GateNext, HandlerReturns, HandlerThrows, Settle, Pause
<1> QED BY <1>2, PTL DEF GateSpec, GateMoves

-----------------------------------------------------------------------------
(* The sovereigns, for any principals and any acts of theirs.              *)

\* What the sovereigns are, write and do.
Directive == [by : Primes, anomalous : BOOLEAN, critical : BOOLEAN, counter : Primes \cup {Standing}]
Act == [act : {"issue", "countermand", "succeed", "ACTING_PRIME", "FORMER_PRIME"}, by : Primes, about : Nat]
Entry == [kind : {"CRITICAL_OOB_DECISION", "ANOMALOUS_COMMAND", "OVERRIDE"}, actor : Primes, about : Nat]
Meant(h) == h.act = "issue" => h.about \in DOMAIN directives  \* it has its directive

SovereignTypes ==
    /\ acting \in Primes /\ formers \subseteq Primes
    /\ directives \in Seq(Directive) /\ records \in Seq(Entry) /\ happened \in Seq(Act)
    /\ \A i \in DOMAIN happened : Meant(happened[i])

\* The acts alone tell who is in command.
ActingIsLast == LastPrime(acting, Len(happened) + 1)

\* What an act told stands where the acts before it say.
TellingsInside == \A i \in DOMAIN happened : \A n \in DOMAIN Told(happened[i]) : ToldBefore(i) + n \in DOMAIN records

SovereignInv == SovereignTypes /\ CommandIsTold /\ TellingsInside /\ ActingIsLast

\* A directive keeps what its records say of it.
DirectivesKept ==
    \A n \in DOMAIN directives :
        /\ n \in DOMAIN directives'
        /\ directives'[n].critical = directives[n].critical /\ directives'[n].anomalous = directives[n].anomalous

LEMMA TwoIs ==
    ASSUME NEW S, NEW a \in S, NEW b \in S
    PROVE  <<a>> \o <<b>> = Append(<<a>>, b)
<1>1. <<a>> \in Seq(S) /\ <<b>> \in Seq(S) /\ Len(<<a>>) = 1 /\ Len(<<b>>) = 1 /\ <<a>>[1] = a /\ <<b>>[1] = b
  OBVIOUS
<1> QED BY <1>1

LEMMA JoinIs ==
    ASSUME NEW S, NEW s \in Seq(S), NEW t \in Seq(S)
    PROVE  /\ Len(s \o t) = Len(s) + Len(t) /\ DOMAIN (s \o t) = 1..(Len(s) + Len(t))
           /\ DOMAIN s = 1..Len(s) /\ DOMAIN t = 1..Len(t) /\ Len(s) \in Nat /\ Len(t) \in Nat
           /\ \A n \in 1..Len(s) : (s \o t)[n] = s[n]
           /\ \A n \in 1..Len(t) : (s \o t)[Len(s) + n] = t[n]
<1>1. s \o t \in Seq(S) /\ Len(s \o t) = Len(s) + Len(t)
  OBVIOUS
<1>2. Len(s) \in Nat /\ Len(t) \in Nat /\ DOMAIN s = 1..Len(s) /\ DOMAIN t = 1..Len(t)
  OBVIOUS
<1>3. ASSUME NEW n \in 1..Len(s) PROVE (s \o t)[n] = s[n]
  BY <1>2, <1>3
<1>4. ASSUME NEW n \in 1..Len(t) PROVE (s \o t)[Len(s) + n] = t[n]
  BY <1>2, <1>4
<1> QED BY <1>1, <1>2, <1>3, <1>4

TwoAtMost(s) ==
    /\ s \in Seq(Entry)
    /\ \/ Len(s) = 0 /\ DOMAIN s = {}
       \/ Len(s) = 1 /\ DOMAIN s = {1}
       \/ Len(s) = 2 /\ DOMAIN s = {1, 2}

\* An act tells two records at most.
LEMMA ToldIs == \A h \in Act : TwoAtMost(Told(h))
<1> SUFFICES ASSUME NEW h \in Act PROVE TwoAtMost(Told(h))
  OBVIOUS
<1>1. h.by \in Primes /\ h.about \in Nat
  BY DEF Act
<1> DEFINE crit == Record("CRITICAL_OOB_DECISION", h.by, h.about)
           anom == Record("ANOMALOUS_COMMAND", h.by, h.about)
           over == Record("OVERRIDE", h.by, h.about)
<1>2. crit \in Entry /\ anom \in Entry /\ over \in Entry
  BY <1>1 DEF Record, Entry
<1>3. \A s : s \in Seq(Entry) => s \o <<>> = s /\ <<>> \o s = s
  OBVIOUS
<1>4. \A a, b \in Entry : <<a>> \o <<b>> = Append(<<a>>, b)
  BY TwoIs
<1>5. Told(h) \in {<<>>, <<crit>>, <<anom>>, Append(<<crit>>, anom), <<over>>}
  <2> HIDE DEF crit, anom, over
  <2>1. CASE h.act = "issue"
    <3>1. Told(h) = (IF directives[h.about].critical THEN <<crit>> ELSE <<>>)
                    \o IF directives[h.about].anomalous THEN <<anom>> ELSE <<>>
      BY <2>1 DEF Told, crit, anom
    <3>2. CASE directives[h.about].critical
      <4>1. CASE directives[h.about].anomalous
        <5>1. Told(h) = <<crit>> \o <<anom>>
          BY <3>1, <3>2, <4>1
        <5> QED BY <1>2, <1>4, <5>1
      <4>2. CASE ~directives[h.about].anomalous
        <5>1. Told(h) = <<crit>> \o <<>> /\ <<crit>> \in Seq(Entry)
          BY <1>2, <3>1, <3>2, <4>2
        <5> QED BY <1>3, <5>1
      <4> QED BY <4>1, <4>2
    <3>3. CASE ~directives[h.about].critical
      <4>1. CASE directives[h.about].anomalous
        <5>1. Told(h) = <<>> \o <<anom>> /\ <<anom>> \in Seq(Entry)
          BY <1>2, <3>1, <3>3, <4>1
        <5> QED BY <1>3, <5>1
      <4>2. CASE ~directives[h.about].anomalous
        <5>1. Told(h) = <<>> \o <<>> /\ <<>> \in Seq(Entry)
          BY <3>1, <3>3, <4>2
        <5> QED BY <1>3, <5>1
      <4> QED BY <4>1, <4>2
    <3> QED BY <3>2, <3>3
  <2>2. CASE h.act = "succeed"
    BY <2>2 DEF Told, crit
  <2>3. CASE h.act \notin {"issue", "succeed"}
    BY <2>3 DEF Told, over
  <2> QED BY <2>1, <2>2, <2>3
<1> HIDE DEF crit, anom, over
<1>6. \A a, b \in Entry : /\ <<>> \in Seq(Entry) /\ <<a>> \in Seq(Entry) /\ Append(<<a>>, b) \in Seq(Entry)
                          /\ Len(<<>>) = 0 /\ Len(<<a>>) = 1 /\ Len(Append(<<a>>, b)) = 2
                          /\ DOMAIN <<>> = {} /\ DOMAIN <<a>> = {1} /\ DOMAIN Append(<<a>>, b) = {1, 2}
  OBVIOUS
<1> QED BY <1>2, <1>5, <1>6 DEF TwoAtMost

LEMMA ToldIsNext == (\A h \in Act : TwoAtMost(Told(h)))'
BY ToldIs, PTL

LEMMA ToldKept ==
    ASSUME SovereignTypes, DirectivesKept, NEW h \in Act, Meant(h)
    PROVE  Told(h)' = Told(h)
BY DEF SovereignTypes, DirectivesKept, Meant, Told

-----------------------------------------------------------------------------
(* The ledger after one more act.                                          *)

\* The records the acts before the i-th one told, by act and place.
Tellings(i) == {o \in (DOMAIN happened) \X {1, 2} : o[1] < i /\ o[2] \in DOMAIN Told(happened[o[1]])}

LEMMA ToldBeforeIs ==
    ASSUME SovereignTypes, NEW i \in Nat
    PROVE  IsFiniteSet(Tellings(i)) /\ ToldBefore(i) = Cardinality(Tellings(i)) /\ ToldBefore(i) \in Nat
<1>1. DOMAIN happened = 1..Len(happened) /\ Len(happened) \in Nat
  BY DEF SovereignTypes
<1>2. IsFiniteSet(1..Len(happened)) /\ IsFiniteSet({1, 2})
  <2>1. {1, 2} = 1..2
    OBVIOUS
  <2>2. \A n \in Nat : IsFiniteSet(1..n)
    BY FS_Interval
  <2> QED BY <1>1, <2>1, <2>2
<1>3. IsFiniteSet((DOMAIN happened) \X {1, 2})
  BY <1>1, <1>2, FS_Product
<1>4. Tellings(i) \in SUBSET ((DOMAIN happened) \X {1, 2})
  BY DEF Tellings
<1>5. IsFiniteSet(Tellings(i))
  BY <1>3, <1>4, FS_Subset
<1> QED BY <1>5, FS_CardinalityType DEF ToldBefore, Tellings

\* An act appended adds its own records, after all the others.
LEMMA LedgerGrows ==
    ASSUME SovereignTypes, LedgerTellsAll, TellingsInside, SovereignTypes', DirectivesKept,
           NEW h \in Act, Meant(h)', happened' = Append(happened, h),
           NEW told, told = Told(h)', records' = records \o told
    PROVE  LedgerTellsAll' /\ TellingsInside'
<1>0. PICK k \in Nat : k = Len(happened)
  BY DEF SovereignTypes
<1>1. k \in Nat /\ DOMAIN happened = 1..k /\ (DOMAIN happened)' = 1..(k + 1) /\ Len(happened') = k + 1
      /\ happened'[k + 1] = h /\ \A i \in 1..k : happened'[i] = happened[i] /\ happened[i] \in Act
  BY <1>0 DEF SovereignTypes
<1>2. \A i \in 1..k : Told(happened[i])' = Told(happened[i])
  <2> SUFFICES ASSUME NEW i \in 1..k PROVE Told(happened[i])' = Told(happened[i])
    OBVIOUS
  <2>1. PICK g : g = happened[i]
    OBVIOUS
  <2>2. g \in Act /\ Meant(g) /\ happened'[i] = g
    BY <1>1, <2>1 DEF SovereignTypes
  <2>3. Told(g)' = Told(g)
    BY <2>2, ToldKept
  <2>4. Told(happened[i])' = Told(g)'
    BY <2>2 DEF Told
  <2> QED BY <2>1, <2>3, <2>4
<1>3. Told(happened[k + 1])' = told
  BY <1>1 DEF Told
<1>4. /\ told \in Seq(Entry)
      /\ \/ Len(told) = 0 /\ DOMAIN told = {}
         \/ Len(told) = 1 /\ DOMAIN told = {1}
         \/ Len(told) = 2 /\ DOMAIN told = {1, 2}
  BY ToldIsNext DEF TwoAtMost
<1>5. \A i \in 1..(k + 1) : ToldBefore(i)' = ToldBefore(i)
  <2> SUFFICES ASSUME NEW i \in 1..(k + 1) PROVE ToldBefore(i)' = ToldBefore(i)
    OBVIOUS
  <2>1. Tellings(i)' = Tellings(i)
    <3>1. ASSUME NEW j \in 1..(k + 1), NEW n \in {1, 2}, j < i
          PROVE  n \in DOMAIN Told(happened[j])' <=> n \in DOMAIN Told(happened[j])
      BY <1>1, <1>2, <3>1
    <3> QED BY <1>1, <3>1 DEF Tellings
  <2> QED BY <2>1 DEF ToldBefore, Tellings
<1>6. ToldBefore(k + 2)' = ToldBefore(k + 1) + Len(told)
  <2>1. Tellings(k + 2)' = Tellings(k + 1) \cup {<<k + 1, n>> : n \in DOMAIN told}
    <3>1. Tellings(k + 2)' = {o \in (1..(k + 1)) \X {1, 2} : o[2] \in DOMAIN Told(happened[o[1]])'}
      BY <1>1 DEF Tellings
    <3>2. Tellings(k + 1) = {o \in (1..k) \X {1, 2} : o[2] \in DOMAIN Told(happened[o[1]])}
      BY <1>1 DEF Tellings
    <3>3. ASSUME NEW j \in 1..(k + 1), NEW n \in {1, 2}
          PROVE  <<j, n>> \in Tellings(k + 2)' <=> <<j, n>> \in Tellings(k + 1) \/ (j = k + 1 /\ n \in DOMAIN told)
      <4>1. CASE j \in 1..k
        BY <1>1, <1>2, <3>1, <3>2, <4>1
      <4>2. CASE j = k + 1
        BY <1>1, <1>3, <3>1, <3>2, <4>2
      <4> QED BY <1>1, <4>1, <4>2
    <3>4. DOMAIN told \subseteq {1, 2}
      BY <1>4
    <3>5. Tellings(k + 2)' \subseteq (1..(k + 1)) \X {1, 2} /\ Tellings(k + 1) \subseteq (1..(k + 1)) \X {1, 2}
      BY <1>1, <3>1, <3>2
    <3> DEFINE new == {<<k + 1, n>> : n \in DOMAIN told}
    <3>6. \A j, n : <<j, n>> \in new <=> j = k + 1 /\ n \in DOMAIN told
      OBVIOUS
    <3>7. new \subseteq (1..(k + 1)) \X {1, 2}
      BY <3>4
    <3> HIDE DEF new
    <3>8. ASSUME NEW o \in (1..(k + 1)) \X {1, 2}
          PROVE  o \in Tellings(k + 2)' <=> o \in Tellings(k + 1) \cup new
      <4>1. PICK j \in 1..(k + 1), n \in {1, 2} : o = <<j, n>>
        BY <3>8
      <4> QED BY <3>3, <3>6, <4>1
    <3>9. Tellings(k + 2)' = Tellings(k + 1) \cup new
      BY <3>5, <3>7, <3>8
    <3> QED BY <3>9 DEF new
  <2>2. \A n : <<k + 1, n>> \notin Tellings(k + 1)
    BY <1>1 DEF Tellings
  <2>3. /\ IsFiniteSet(Tellings(k + 1)) /\ ToldBefore(k + 1) = Cardinality(Tellings(k + 1)) /\ ToldBefore(k + 1) \in Nat
    BY <1>1, ToldBeforeIs
  <2>4. ToldBefore(k + 2)' = Cardinality(Tellings(k + 2)')
    BY DEF ToldBefore, Tellings
  <2>5. CASE Len(told) = 0 /\ DOMAIN told = {}
    <3>1. Tellings(k + 2)' = Tellings(k + 1)
      BY <2>1, <2>5
    <3> QED BY <2>3, <2>4, <2>5, <3>1
  <2>6. CASE Len(told) = 1 /\ DOMAIN told = {1}
    <3>1. Tellings(k + 2)' = Tellings(k + 1) \cup {<<k + 1, 1>>}
      BY <2>1, <2>6
    <3>2. Cardinality(Tellings(k + 2)') = Cardinality(Tellings(k + 1)) + 1
      BY <2>2, <2>3, <3>1, FS_AddElement
    <3> QED BY <2>3, <2>4, <2>6, <3>2
  <2>7. CASE Len(told) = 2 /\ DOMAIN told = {1, 2}
    <3> DEFINE S == Tellings(k + 1) \cup {<<k + 1, 1>>}
    <3>1. Tellings(k + 2)' = S \cup {<<k + 1, 2>>}
      BY <2>1, <2>7
    <3>2. IsFiniteSet(S) /\ Cardinality(S) = Cardinality(Tellings(k + 1)) + 1
      BY <2>2, <2>3, FS_AddElement
    <3>3. <<k + 1, 2>> \notin S
      BY <1>1, <2>2
    <3> HIDE DEF S
    <3>4. Cardinality(Tellings(k + 2)') = Cardinality(S) + 1
      BY <3>1, <3>2, <3>3, FS_AddElement
    <3> QED BY <2>3, <2>4, <2>7, <3>2, <3>4
  <2> QED BY <1>4, <2>5, <2>6, <2>7
<1>7. Len(records) = ToldBefore(k + 1) /\ records \in Seq(Entry)
  BY <1>0 DEF LedgerTellsAll, SovereignTypes
<1>8. /\ Len(records') = Len(records) + Len(told) /\ DOMAIN records' = 1..(Len(records) + Len(told))
      /\ \A n \in DOMAIN records : records'[n] = records[n] /\ n \in DOMAIN records'
      /\ \A n \in DOMAIN told : records'[Len(records) + n] = told[n] /\ Len(records) + n \in DOMAIN records'
  <2>1. records' = records \o told /\ records \in Seq(Entry) /\ told \in Seq(Entry)
    BY <1>4, <1>7
  <2>2. /\ Len(records \o told) = Len(records) + Len(told) /\ DOMAIN (records \o told) = 1..(Len(records) + Len(told))
        /\ DOMAIN records = 1..Len(records) /\ DOMAIN told = 1..Len(told) /\ Len(records) \in Nat /\ Len(told) \in Nat
        /\ \A n \in 1..Len(records) : (records \o told)[n] = records[n]
        /\ \A n \in 1..Len(told) : (records \o told)[Len(records) + n] = told[n]
    BY <2>1, JoinIs
  <2>3. \A n \in 1..Len(records) : n \in 1..(Len(records) + Len(told))
    BY <2>2
  <2>4. \A n \in 1..Len(told) : Len(records) + n \in 1..(Len(records) + Len(told))
    BY <2>2
  <2> QED BY <2>1, <2>2, <2>3, <2>4
<1>9. Len(records)' = ToldBefore(Len(happened) + 1)'
  <2>1. Len(records') = ToldBefore(k + 2)'
    BY <1>6, <1>7, <1>8
  <2>2. ToldBefore(Len(happened) + 1)' = ToldBefore(k + 2)'
    <3>1. Len(happened') + 1 = k + 2
      BY <1>1
    <3> QED BY <3>1 DEF ToldBefore
  <2> QED BY <2>1, <2>2
<1>10. ASSUME NEW i \in 1..(k + 1), NEW n, n \in DOMAIN Told(happened[i])'
       PROVE  ToldBefore(i)' + n \in DOMAIN records' /\ records'[ToldBefore(i)' + n] = Told(happened[i])'[n]
  <2>1. CASE i \in 1..k
    <3>1. n \in DOMAIN Told(happened[i])
      BY <1>2, <1>10, <2>1
    <3>2. ToldBefore(i) + n \in DOMAIN records /\ records[ToldBefore(i) + n] = Told(happened[i])[n]
      BY <1>1, <2>1, <3>1 DEF LedgerTellsAll, TellingsInside
    <3>3. ToldBefore(i)' = ToldBefore(i) /\ Told(happened[i])' = Told(happened[i])
      BY <1>2, <1>5, <2>1
    <3> QED BY <1>8, <3>2, <3>3
  <2>2. CASE i = k + 1
    <3>1. Told(happened[i])' = told
      BY <1>3, <2>2
    <3>2. ToldBefore(i)' = Len(records)
      BY <1>5, <1>7, <2>2
    <3> QED BY <1>8, <1>10, <3>1, <3>2
  <2>3. i \in 1..k \/ i = k + 1
    OBVIOUS
  <2> QED BY <2>1, <2>2, <2>3
<1> QED BY <1>1, <1>9, <1>10 DEF LedgerTellsAll, TellingsInside

-----------------------------------------------------------------------------
(* Who is in command.                                                      *)

LEMMA CommandPasses ==
    ASSUME SovereignTypes, NEW h \in Act, happened' = Append(happened, h), NEW k \in Nat, k = Len(happened), NEW p
    PROVE  /\ \A i \in 1..(k + 1) : LastPrime(p, i)' <=> LastPrime(p, i)
           /\ h.act # "succeed" => (LastPrime(p, k + 2)' <=> LastPrime(p, k + 1))
           /\ h.act = "succeed" /\ p = h.by => LastPrime(p, k + 2)'
<1>1. /\ DOMAIN happened = 1..k /\ (DOMAIN happened)' = 1..(k + 1)
      /\ happened'[k + 1] = h /\ \A j \in 1..k : happened'[j] = happened[j]
  BY DEF SovereignTypes
<1> DEFINE past(i) == {j \in 1..k : j < i /\ happened[j].act = "succeed"}
           now(i) == {j \in 1..(k + 1) : j < i /\ happened'[j].act = "succeed"}
<1>2. \A i : LastPrime(p, i) <=> \/ past(i) = {} /\ p = First
                                \/ \E j \in past(i) : happened[j].by = p /\ \A m \in past(i) : m <= j
  BY <1>1 DEF LastPrime
<1>3. \A i : LastPrime(p, i)' <=> \/ now(i) = {} /\ p = First
                                 \/ \E j \in now(i) : happened'[j].by = p /\ \A m \in now(i) : m <= j
  BY <1>1 DEF LastPrime
<1>4. \A i \in 1..(k + 1) : now(i) = past(i)
  BY <1>1
<1>5. past(k + 1) \subseteq 1..k
  OBVIOUS
<1>6. h.act # "succeed" => now(k + 2) = past(k + 1)
  <2> SUFFICES ASSUME h.act # "succeed" PROVE now(k + 2) = past(k + 1)
    OBVIOUS
  <2>1. ASSUME NEW j \in 1..(k + 1) PROVE j \in now(k + 2) <=> j \in past(k + 1)
    <3>1. CASE j = k + 1
      BY <1>1, <3>1
    <3>2. CASE j \in 1..k
      BY <1>1, <3>2
    <3>3. j \in 1..k \/ j = k + 1
      OBVIOUS
    <3> QED BY <3>1, <3>2, <3>3
  <2> QED BY <2>1
<1>7. h.act = "succeed" => k + 1 \in now(k + 2) /\ \A m \in now(k + 2) : m <= k + 1
  BY <1>1
<1>8. \A i \in 1..(k + 1) : past(i) \subseteq 1..k
  OBVIOUS
<1> HIDE DEF past, now
<1>9. ASSUME NEW i \in 1..(k + 1) PROVE LastPrime(p, i)' <=> LastPrime(p, i)
  <2>1. \A j \in past(i) : happened'[j].by = happened[j].by
    BY <1>1, <1>8
  <2> QED BY <1>2, <1>3, <1>4, <2>1
<1>10. ASSUME h.act # "succeed" PROVE LastPrime(p, k + 2)' <=> LastPrime(p, k + 1)
  <2>1. \A j \in past(k + 1) : happened'[j].by = happened[j].by
    BY <1>1, <1>5
  <2>2. LastPrime(p, k + 2)' <=> \/ past(k + 1) = {} /\ p = First
                                \/ \E j \in past(k + 1) : happened'[j].by = p /\ \A m \in past(k + 1) : m <= j
    BY <1>3, <1>6, <1>10
  <2>3. LastPrime(p, k + 1) <=> \/ past(k + 1) = {} /\ p = First
                               \/ \E j \in past(k + 1) : happened[j].by = p /\ \A m \in past(k + 1) : m <= j
    BY <1>2
  <2> QED BY <2>1, <2>2, <2>3
<1>11. ASSUME h.act = "succeed", p = h.by PROVE LastPrime(p, k + 2)'
  BY <1>1, <1>3, <1>7, <1>11
<1> QED BY <1>9, <1>10, <1>11

-----------------------------------------------------------------------------
(* Every act.                                                              *)

LEMMA SovereignInitInv == SovereignInit => SovereignInv
<1> SUFFICES ASSUME SovereignInit PROVE SovereignInv
  OBVIOUS
<1>1. acting = First /\ formers \subseteq Primes /\ First \in Primes
      /\ directives = <<>> /\ records = <<>> /\ happened = <<>>
  BY SovereignAssumption DEF SovereignInit
<1>2. SovereignTypes
  BY <1>1 DEF SovereignTypes
<1>3. DOMAIN happened = {} /\ DOMAIN directives = {} /\ Len(happened) = 0 /\ Len(records) = 0
  BY <1>1
<1>4. SovereignTypeOK /\ VetoIsForLife /\ OverridesWereLive /\ TellingsInside
  BY <1>1, <1>3 DEF SovereignTypeOK, VetoIsForLife, OverridesWereLive, TellingsInside
<1>5. ActingIsLast
  BY <1>1, <1>3 DEF ActingIsLast, LastPrime
<1>6. LedgerTellsAll
  <2>1. Tellings(1) = {} /\ Len(happened) + 1 = 1
    BY <1>3 DEF Tellings
  <2>2. ToldBefore(Len(happened) + 1) = 0
    BY <2>1, FS_EmptySet DEF ToldBefore, Tellings
  <2> QED BY <1>3, <2>2 DEF LedgerTellsAll
<1> QED BY <1>2, <1>4, <1>5, <1>6 DEF SovereignInv, CommandIsTold

\* What is common to the acts: each is told, and was its actor's to do.
LEMMA ActKeeps ==
    ASSUME SovereignInv, NEW h \in Act, happened' = Append(happened, h), Meant(h)', DirectivesKept,
           records' = records \o Told(h)',
           directives' \in Seq(Directive), \A n \in DOMAIN directives' : directives'[n].counter \in formers' \cup {Standing},
           acting' \in Primes, formers' \subseteq Primes, formers \subseteq formers', acting \in formers' \cup {acting'},
           h.act = "issue" => h.by = acting, h.act = "ACTING_PRIME" => h.by = acting,
           acting' = IF h.act = "succeed" THEN h.by ELSE acting
    PROVE  SovereignInv'
<1>0. SovereignTypes
  BY DEF SovereignInv
<1>1. PICK k \in Nat : k = Len(happened)
  BY <1>0 DEF SovereignTypes
<1>2. /\ DOMAIN happened = 1..k /\ happened' \in Seq(Act) /\ (DOMAIN happened)' = 1..(k + 1) /\ Len(happened') = k + 1
      /\ happened'[k + 1] = h /\ \A i \in 1..k : happened'[i] = happened[i]
  BY <1>0, <1>1 DEF SovereignTypes
<1>3. \A i \in 1..(k + 1) : i \in 1..k \/ i = k + 1
  OBVIOUS
<1>4. SovereignTypes'
  <2>1. Told(h)' \in Seq(Entry)
    BY ToldIsNext DEF TwoAtMost
  <2>2. ASSUME NEW i \in 1..(k + 1) PROVE Meant(happened[i])'
    <3>1. CASE i \in 1..k
      BY <1>0, <1>2, <3>1 DEF SovereignTypes, Meant, DirectivesKept
    <3>2. CASE i = k + 1
      BY <1>2, <3>2 DEF Meant
    <3> QED BY <1>3, <3>1, <3>2
  <2>3. records' \in Seq(Entry)
    BY <1>0, <2>1 DEF SovereignTypes
  <2> QED BY <1>2, <2>2, <2>3 DEF SovereignTypes
<1>5. SovereignTypeOK'
  <2>1. \A n \in DOMAIN directives' : directives'[n] \in Directive
    OBVIOUS
  <2> QED BY <2>1 DEF SovereignTypeOK, Directive
<1>6. LedgerTellsAll' /\ TellingsInside'
  <2>1. PICK told : told = Told(h)'
    OBVIOUS
  <2>2. LedgerTellsAll /\ TellingsInside /\ records' = records \o told
    BY <2>1 DEF SovereignInv, CommandIsTold
  <2> QED BY <1>0, <1>4, <2>1, <2>2, LedgerGrows
<1>7. VetoIsForLife'
  <2>1. VetoIsForLife
    BY DEF SovereignInv, CommandIsTold
  <2> QED BY <1>2, <1>3, <2>1 DEF VetoIsForLife
<1>8. ActingIsLast
  BY DEF SovereignInv
<1>9. \A p : /\ \A i \in 1..(k + 1) : LastPrime(p, i)' <=> LastPrime(p, i)
             /\ h.act # "succeed" => (LastPrime(p, k + 2)' <=> LastPrime(p, k + 1))
             /\ h.act = "succeed" /\ p = h.by => LastPrime(p, k + 2)'
  BY <1>0, <1>1, CommandPasses
<1>10. LastPrime(acting, k + 1)
  BY <1>1, <1>8 DEF ActingIsLast
<1>11. ActingIsLast'
  <2>1. PICK p : p = acting'
    OBVIOUS
  <2>2. LastPrime(p, k + 2)'
    <3>1. CASE h.act = "succeed"
      BY <1>9, <2>1, <3>1
    <3>2. CASE h.act # "succeed"
      BY <1>9, <1>10, <2>1, <3>2
    <3> QED BY <3>1, <3>2
  <2>3. Len(happened') + 1 = k + 2
    BY <1>2
  <2> QED BY <2>1, <2>2, <2>3 DEF ActingIsLast, LastPrime
<1>12. OverridesWereLive'
  <2> SUFFICES ASSUME NEW i \in 1..(k + 1), happened'[i].act = "ACTING_PRIME"
               PROVE  LastPrime(happened[i].by, i)'
    BY <1>2 DEF OverridesWereLive
  <2>1. PICK p : p = happened'[i].by
    OBVIOUS
  <2>2. LastPrime(p, i)
    <3>1. CASE i \in 1..k
      <4>1. OverridesWereLive
        BY DEF SovereignInv, CommandIsTold
      <4> QED BY <1>2, <2>1, <3>1, <4>1 DEF OverridesWereLive
    <3>2. CASE i = k + 1
      BY <1>2, <1>10, <2>1, <3>2
    <3> QED BY <1>3, <3>1, <3>2
  <2>3. LastPrime(p, i)'
    BY <1>9, <2>2
  <2> QED BY <2>1, <2>3 DEF LastPrime
<1> QED BY <1>4, <1>5, <1>6, <1>7, <1>11, <1>12 DEF SovereignInv, CommandIsTold

LEMMA IssueKeeps ==
    ASSUME SovereignInv, NEW anomalous \in BOOLEAN, NEW critical \in BOOLEAN, issueDirective(anomalous, critical)
    PROVE  SovereignInv'
<1>0. /\ acting \in Primes /\ formers \subseteq Primes /\ directives \in Seq(Directive)
      /\ happened \in Seq(Act) /\ acting' = acting /\ formers' = formers /\ SovereignTypeOK
  BY DEF SovereignInv, SovereignTypes, CommandIsTold, issueDirective
<1>1. PICK n \in Nat : n = Len(directives) + 1
  BY <1>0
<1>2. PICK h : h = [act |-> "issue", by |-> acting, about |-> n]
  OBVIOUS
<1>3. h \in Act /\ h.act = "issue" /\ h.by = acting /\ h.about = n /\ happened' = Append(happened, h)
  BY <1>0, <1>1, <1>2 DEF Act, issueDirective, Did
<1>4. PICK d : d = [by |-> acting, anomalous |-> anomalous, critical |-> critical, counter |-> Standing]
  OBVIOUS
<1>5. d \in Directive /\ d.anomalous = anomalous /\ d.critical = critical /\ d.counter = Standing
  BY <1>0, <1>4 DEF Directive
<1>6. directives' = Append(directives, d)
  BY <1>4 DEF issueDirective
<1>7. /\ directives' \in Seq(Directive) /\ DOMAIN directives' = 1..n /\ directives'[n] = d
      /\ DOMAIN directives = 1..(n - 1) /\ \A m \in 1..(n - 1) : directives'[m] = directives[m]
  BY <1>0, <1>1, <1>5, <1>6
<1>8. Meant(h)' /\ DirectivesKept
  BY <1>1, <1>3, <1>7 DEF Meant, DirectivesKept
<1>9. \A m \in DOMAIN directives' : directives'[m].counter \in formers' \cup {Standing}
  <2>1. \A m \in 1..n : m \in 1..(n - 1) \/ m = n
    BY <1>1
  <2> QED BY <1>0, <1>5, <1>7, <2>1 DEF SovereignTypeOK
<1>10. records' = records \o Told(h)'
  <2>1. directives'[h.about].critical = critical /\ directives'[h.about].anomalous = anomalous
    BY <1>3, <1>5, <1>7
  <2>2. Told(h)' = (IF critical THEN <<Record("CRITICAL_OOB_DECISION", acting, n)>> ELSE <<>>)
                   \o IF anomalous THEN <<Record("ANOMALOUS_COMMAND", acting, n)>> ELSE <<>>
    BY <1>3, <2>1 DEF Told, Record
  <2> QED BY <1>1, <2>2 DEF issueDirective, Tell
<1> QED BY <1>0, <1>3, <1>7, <1>8, <1>9, <1>10, ActKeeps

LEMMA CountermandKeeps ==
    ASSUME SovereignInv, NEW f \in Primes, NEW n \in DOMAIN directives, countermand(f, n)
    PROVE  SovereignInv'
<1>0. /\ acting \in Primes /\ formers \subseteq Primes /\ directives \in Seq(Directive)
      /\ happened \in Seq(Act) /\ acting' = acting /\ formers' = formers /\ SovereignTypeOK /\ f \in formers
  BY DEF SovereignInv, SovereignTypes, CommandIsTold, countermand
<1>1. n \in Nat
  BY <1>0
<1>2. PICK h : h = [act |-> "countermand", by |-> f, about |-> n]
  OBVIOUS
<1>3. h \in Act /\ h.act = "countermand" /\ h.by = f /\ h.about = n /\ happened' = Append(happened, h)
  BY <1>0, <1>1, <1>2 DEF Act, countermand, Did
<1>4. directives' = [directives EXCEPT ![n] = [directives[n] EXCEPT !.counter = f]]
  BY DEF countermand
<1>5. PICK d : d = [directives[n] EXCEPT !.counter = f]
  OBVIOUS
<1>6. d \in Directive /\ d.critical = directives[n].critical /\ d.anomalous = directives[n].anomalous /\ d.counter = f
  <2>1. directives[n] \in Directive
    BY <1>0
  <2> QED BY <1>5, <2>1 DEF Directive
<1>7. /\ directives' \in Seq(Directive) /\ DOMAIN directives' = DOMAIN directives /\ directives'[n] = d
      /\ \A m \in DOMAIN directives : m # n => directives'[m] = directives[m]
  BY <1>0, <1>4, <1>5, <1>6
<1>8. Meant(h)' /\ DirectivesKept
  BY <1>3, <1>6, <1>7 DEF Meant, DirectivesKept
<1>9. \A m \in DOMAIN directives' : directives'[m].counter \in formers' \cup {Standing}
  BY <1>0, <1>6, <1>7 DEF SovereignTypeOK
<1>10. records' = records \o Told(h)'
  <2>1. Told(h)' = <<Record("OVERRIDE", f, n)>>
    BY <1>3 DEF Told, Record
  <2> QED BY <2>1 DEF countermand, Tell
<1> QED BY <1>0, <1>3, <1>7, <1>8, <1>9, <1>10, ActKeeps

LEMMA SucceedKeeps ==
    ASSUME SovereignInv, NEW s \in Primes, succeed(s)
    PROVE  SovereignInv'
<1>0. /\ acting \in Primes /\ formers \subseteq Primes /\ directives \in Seq(Directive)
      /\ happened \in Seq(Act) /\ acting' = s /\ formers' = formers \cup {acting} /\ SovereignTypeOK
      /\ directives' = directives
  BY DEF SovereignInv, SovereignTypes, CommandIsTold, succeed
<1>1. PICK h : h = [act |-> "succeed", by |-> s, about |-> 0]
  OBVIOUS
<1>2. h \in Act /\ h.act = "succeed" /\ h.by = s /\ h.about = 0 /\ happened' = Append(happened, h)
  BY <1>0, <1>1 DEF Act, succeed, Did
<1>3. Meant(h)' /\ DirectivesKept
  BY <1>0, <1>2 DEF Meant, DirectivesKept
<1>4. \A m \in DOMAIN directives' : directives'[m].counter \in formers' \cup {Standing}
  BY <1>0 DEF SovereignTypeOK
<1>5. records' = records \o Told(h)'
  <2>1. Told(h)' = <<Record("CRITICAL_OOB_DECISION", s, 0)>>
    BY <1>2 DEF Told, Record
  <2> QED BY <2>1 DEF succeed, Tell
<1> QED BY <1>0, <1>2, <1>3, <1>4, <1>5, ActKeeps

LEMMA OverrideKeeps ==
    ASSUME SovereignInv, NEW t \in Tokens, applyOverride(t)
    PROVE  SovereignInv'
<1>0. /\ acting \in Primes /\ formers \subseteq Primes /\ directives \in Seq(Directive)
      /\ happened \in Seq(Act) /\ acting' = acting /\ formers' = formers /\ SovereignTypeOK
      /\ directives' = directives /\ Live(t)
  BY DEF SovereignInv, SovereignTypes, CommandIsTold, applyOverride
<1>1. t[1] \in Primes /\ t[2] \in {"ACTING_PRIME", "FORMER_PRIME"}
  BY DEF Tokens
<1>2. PICK h : h = [act |-> t[2], by |-> t[1], about |-> 0]
  OBVIOUS
<1>3. /\ h \in Act /\ h.act = t[2] /\ h.by = t[1] /\ h.about = 0 /\ happened' = Append(happened, h)
      /\ h.act \notin {"issue", "succeed"}
  BY <1>0, <1>1, <1>2 DEF Act, applyOverride, Did
<1>4. Meant(h)' /\ DirectivesKept
  BY <1>0, <1>3 DEF Meant, DirectivesKept
<1>5. \A m \in DOMAIN directives' : directives'[m].counter \in formers' \cup {Standing}
  BY <1>0 DEF SovereignTypeOK
<1>6. records' = records \o Told(h)'
  <2>1. Told(h)' = <<Record("OVERRIDE", t[1], 0)>>
    BY <1>3 DEF Told, Record
  <2> QED BY <2>1 DEF applyOverride, Tell
<1>7. h.act = "ACTING_PRIME" => h.by = acting
  BY <1>0, <1>3 DEF Live
<1> QED BY <1>0, <1>3, <1>4, <1>5, <1>6, <1>7, ActKeeps

LEMMA StutterKeeps == SovereignInv /\ UNCHANGED sovereignVars => SovereignInv'
<1> SUFFICES ASSUME SovereignInv, UNCHANGED sovereignVars PROVE SovereignInv'
  OBVIOUS
<1>1. acting' = acting /\ formers' = formers /\ directives' = directives /\ records' = records /\ happened' = happened
  BY DEF sovereignVars
<1>2. SovereignTypes' /\ SovereignTypeOK' /\ VetoIsForLife'
  BY <1>1 DEF SovereignInv, SovereignTypes, Meant, CommandIsTold, SovereignTypeOK, VetoIsForLife
<1>3. LedgerTellsAll' /\ TellingsInside'
  <2>1. \A h : Told(h)' = Told(h)
    BY <1>1 DEF Told
  <2>2. \A i : ToldBefore(i)' = ToldBefore(i)
    BY <1>1, <2>1 DEF ToldBefore
  <2>3. LedgerTellsAll /\ TellingsInside
    BY DEF SovereignInv, CommandIsTold
  <2>4. \A i \in DOMAIN happened : Told(happened[i])' = Told(happened[i])
    BY <1>1 DEF Told
  <2>5. Len(records') = ToldBefore(Len(happened) + 1)'
    BY <1>1, <2>1, <2>3 DEF LedgerTellsAll, ToldBefore
  <2> QED BY <1>1, <2>2, <2>3, <2>4, <2>5 DEF LedgerTellsAll, TellingsInside
<1>4. OverridesWereLive' /\ ActingIsLast'
  BY <1>1 DEF SovereignInv, CommandIsTold, OverridesWereLive, ActingIsLast, LastPrime
<1> QED BY <1>2, <1>3, <1>4 DEF SovereignInv, CommandIsTold

LEMMA SovereignInvHolds == SovereignSpec => []SovereignInv
<1>1. ASSUME SovereignInv, [SovereignNext \/ \E t \in Tokens : applyOverride(t)]_sovereignVars PROVE SovereignInv'
  <2>1. CASE \E anomalous, critical \in BOOLEAN : issueDirective(anomalous, critical)
    BY <1>1, <2>1, IssueKeeps
  <2>2. CASE \E f \in Primes, n \in DOMAIN directives : countermand(f, n)
    BY <1>1, <2>2, CountermandKeeps
  <2>3. CASE \E s \in Primes : succeed(s)
    BY <1>1, <2>3, SucceedKeeps
  <2>4. CASE \E t \in Tokens : applyOverride(t)
    BY <1>1, <2>4, OverrideKeeps
  <2>5. CASE UNCHANGED sovereignVars
    BY <1>1, <2>5, StutterKeeps
  <2> QED BY <1>1, <2>1, <2>2, <2>3, <2>4, <2>5 DEF SovereignNext
<1> QED BY <1>1, SovereignInitInv, PTL DEF SovereignSpec

(* Whatever the sovereigns do, and however often command passes: the ledger    *)
(* tells every act once and in order, who once commanded keeps the veto, and   *)
(* an Acting Prime's token was used only while its bearer was in command.      *)
THEOREM CommandIsAlwaysTold == SovereignSpec => []CommandIsTold
<1>1. SovereignInv => CommandIsTold
  BY DEF SovereignInv
<1> QED BY <1>1, SovereignInvHolds, PTL

(* A directive that was countermanded stays so, and by the same hand.          *)
THEOREM CountermandsStand == SovereignSpec => [][CountermandIsFinal]_sovereignVars
<1>1. ASSUME SovereignInv, [SovereignNext \/ \E t \in Tokens : applyOverride(t)]_sovereignVars
      PROVE  [CountermandIsFinal]_sovereignVars
  <2>0. directives \in Seq(Directive)
    BY <1>1 DEF SovereignInv, SovereignTypes
  <2>1. CASE \E anomalous, critical \in BOOLEAN : issueDirective(anomalous, critical)
    <3>1. PICK d : directives' = Append(directives, d)
      BY <2>1 DEF issueDirective
    <3> QED BY <2>0, <3>1 DEF CountermandIsFinal
  <2>2. CASE \E f \in Primes, n \in DOMAIN directives : countermand(f, n)
    BY <2>0, <2>2 DEF countermand, CountermandIsFinal
  <2>3. CASE \E s \in Primes : succeed(s)
    BY <2>3 DEF succeed, CountermandIsFinal
  <2>4. CASE \E t \in Tokens : applyOverride(t)
    BY <2>4 DEF applyOverride, CountermandIsFinal
  <2> QED BY <1>1, <2>1, <2>2, <2>3, <2>4 DEF SovereignNext
<1> QED BY <1>1, SovereignInvHolds, PTL DEF SovereignSpec
-----------------------------------------------------------------------------
(* The front door, for any limits, windows, plans and requests.            *)

\* What was let pass, at the times p, falls into windows: w says when the window of
\* each began.  While a bucket counts towards resetAt r, at most `count` passed in its
\* window and the others in windows over by then; with none open, all are over now.
Windowed(p, w, limit) ==
    /\ w \in [1..Len(p) -> Int]
    /\ \A i \in 1..Len(p) : w[i] <= p[i] /\ p[i] <= w[i] + Window
    /\ \A i \in 1..Len(p) : i + limit <= Len(p) => w[i] + Window <= w[i + limit]
OpenUntil(p, w, r, count) ==
    /\ \A i \in 1..Len(p) : w[i] + Window <= r
    /\ \A i \in 1..Len(p) : i + count <= Len(p) => w[i] + Window <= r - Window
Room(p, w, limit, start) == \A i \in 1..Len(p) : i + limit <= Len(p) + 1 => w[i] + Window <= start
OverBy(p, w, now) == \A i \in 1..Len(p) : w[i] + Window <= now

LEMMA Consts ==
    /\ Window \in Nat /\ SweepAbove \in Nat /\ SessionTtl \in Nat /\ MaxOccurrences \in Nat
    /\ MaxHits \in Nat /\ MaxCheckouts \in Nat /\ MaxClock \in Nat
BY GatewayAssumption

LEMMA AppendTime ==
    ASSUME NEW p \in Seq(Nat), NEW now \in Nat
    PROVE  /\ Append(p, now) \in Seq(Nat) /\ Len(Append(p, now)) = Len(p) + 1 /\ Len(p) \in Nat
           /\ DOMAIN p = 1..Len(p) /\ DOMAIN Append(p, now) = 1..(Len(p) + 1)
           /\ Append(p, now)[Len(p) + 1] = now /\ \A i \in 1..Len(p) : Append(p, now)[i] = p[i] /\ p[i] \in Nat
OBVIOUS

\* One more in the window that began at `start`, if all that passed `limit` before it
\* passed in a window over by then.
LEMMA WindowedGrows ==
    ASSUME NEW p \in Seq(Nat), NEW w, NEW limit \in Nat \ {0}, Windowed(p, w, limit),
           NEW now \in Nat, NEW start \in Int, start <= now, now <= start + Window,
           Room(p, w, limit, start)
    PROVE  \E v \in [1..Len(Append(p, now)) -> Int] :
             /\ Windowed(Append(p, now), v, limit)
             /\ v[Len(p) + 1] = start /\ \A i \in 1..Len(p) : v[i] = w[i]
<1> DEFINE n == Len(p)
           v == [i \in 1..(n + 1) |-> IF i = n + 1 THEN start ELSE w[i]]
           q == Append(p, now)
<1>1. n \in Nat /\ Len(q) = n + 1 /\ q[n + 1] = now /\ \A i \in 1..n : q[i] = p[i] /\ p[i] \in Nat
  BY AppendTime
<1>2. w \in [1..n -> Int] /\ (\A i \in 1..n : w[i] <= p[i] /\ p[i] <= w[i] + Window)
      /\ \A i \in 1..n : i + limit <= n => w[i] + Window <= w[i + limit]
  BY DEF Windowed
<1>3. v[n + 1] = start /\ \A i \in 1..n : v[i] = w[i]
  BY <1>1
<1>4. v \in [1..(n + 1) -> Int]
  BY <1>1, <1>2
<1> HIDE DEF v, q
<1>5. \A i \in 1..(n + 1) : i \in 1..n \/ i = n + 1
  BY <1>1
<1>6. \A i \in 1..(n + 1) : v[i] <= q[i] /\ q[i] <= v[i] + Window
  BY <1>1, <1>2, <1>3, <1>5
<1>7. ASSUME NEW i \in 1..(n + 1), i + limit <= n + 1 PROVE v[i] + Window <= v[i + limit]
  <2>1. i \in 1..n
    BY <1>1, <1>7
  <2>2. CASE i + limit <= n
    <3>1. PICK j \in 1..n : j = i + limit
      BY <1>1, <2>1, <2>2
    <3>2. w[i] + Window <= w[j]
      BY <1>2, <2>1, <2>2, <3>1
    <3> QED BY <1>3, <2>1, <3>1, <3>2
  <2>3. CASE i + limit = n + 1
    BY <1>1, <1>3, <2>1, <2>3 DEF Room
  <2>4. i + limit <= n \/ i + limit = n + 1
    <3>1. \A a, b, c \in Nat : a + b <= c + 1 => a + b <= c \/ a + b = c + 1
      OBVIOUS
    <3>2. i \in Nat /\ limit \in Nat /\ n \in Nat
      BY <1>1
    <3> HIDE DEF n
    <3> QED BY <1>7, <3>1, <3>2
  <2> QED BY <2>2, <2>3, <2>4
<1>8. Windowed(q, v, limit)
  BY <1>1, <1>4, <1>6, <1>7 DEF Windowed
<1> QED BY <1>1, <1>3, <1>4, <1>8 DEF q

\* Any 2 * limit + 1 in a row are a window apart.
LEMMA WindowedIsEnough ==
    ASSUME NEW p \in Seq(Nat), NEW w, NEW limit \in Nat \ {0}, Windowed(p, w, limit),
           NEW i \in 1..Len(p), i + 2 * limit <= Len(p)
    PROVE  p[i + 2 * limit] - p[i] >= Window
<1>0. Window \in Nat /\ Len(p) \in Nat /\ DOMAIN p = 1..Len(p)
  BY Consts
<1>1. PICK j \in 1..Len(p) : j = i + limit
  BY <1>0
<1>2. PICK k \in 1..Len(p) : k = j + limit
  BY <1>0, <1>1
<1>3. k = i + 2 * limit
  BY <1>1, <1>2
<1>4. w[i] \in Int /\ w[j] \in Int /\ w[k] \in Int /\ p[i] \in Nat /\ p[k] \in Nat
  <2>1. \A x \in 1..Len(p) : p[x] \in Nat
    BY <1>0
  <2>2. \A x \in 1..Len(p) : w[x] \in Int
    BY DEF Windowed
  <2> QED BY <2>1, <2>2
<1>5. w[i] + Window <= w[j] /\ w[j] + Window <= w[k]
  BY <1>0, <1>1, <1>2 DEF Windowed
<1>6. p[i] <= w[i] + Window /\ w[k] <= p[k]
  BY DEF Windowed
<1>7. p[k] - p[i] >= Window
  <2>1. \A a, b, c, d, e, f \in Int : a + f <= b /\ b + f <= c /\ d <= a + f /\ c <= e => e - d >= f
    OBVIOUS
  <2>2. p[i] \in Int /\ p[k] \in Int /\ Window \in Int
    BY <1>0, <1>4
  <2> QED BY <1>4, <1>5, <1>6, <2>1, <2>2
<1> QED BY <1>3, <1>7

-----------------------------------------------------------------------------
(* One limiter and one key.                                                *)

\* A key with an open bucket is in its window; one without has every window behind it.
InWindow(p, limit, r, count) == \E w \in [1..Len(p) -> Int] : Windowed(p, w, limit) /\ OpenUntil(p, w, r, count)
Clear(p, limit, now) == \E w \in [1..Len(p) -> Int] : Windowed(p, w, limit) /\ OverBy(p, w, now)

LEMMA ClearAtFirst ==
    ASSUME NEW limit, NEW now PROVE Clear(<<>>, limit, now)
<1>1. PICK w : w = [i \in 1..0 |-> 0]
  OBVIOUS
<1>2. 1..Len(<<>>) = {} /\ w \in [1..Len(<<>>) -> Int]
  BY <1>1
<1> QED BY <1>2 DEF Clear, Windowed, OverBy

\* Time goes by: what is over stays over, and a window ends.
LEMMA ClearStays ==
    ASSUME NEW p \in Seq(Nat), NEW limit, NEW now \in Nat, Clear(p, limit, now)
    PROVE  Clear(p, limit, now + 1)
<1>1. PICK w \in [1..Len(p) -> Int] : Windowed(p, w, limit) /\ OverBy(p, w, now)
  BY DEF Clear
<1>2. OverBy(p, w, now + 1)
  BY <1>1, Consts DEF OverBy
<1> QED BY <1>1, <1>2 DEF Clear

LEMMA WindowEnds ==
    ASSUME NEW p \in Seq(Nat), NEW limit, NEW r \in Nat, NEW count \in Nat, NEW now \in Nat,
           InWindow(p, limit, r, count), r <= now
    PROVE  Clear(p, limit, now)
<1>1. PICK w \in [1..Len(p) -> Int] : Windowed(p, w, limit) /\ OpenUntil(p, w, r, count)
  BY DEF InWindow
<1>2. OverBy(p, w, now)
  <2>1. \A i \in 1..Len(p) : w[i] \in Int /\ w[i] + Window <= r
    BY <1>1 DEF OpenUntil
  <2> QED BY <2>1, Consts DEF OverBy
<1> QED BY <1>1, <1>2 DEF Clear

\* A hit in an open window; one more than the limit is refused, and counts.
LEMMA HitInWindow ==
    ASSUME NEW p \in Seq(Nat), NEW limit \in Nat \ {0}, NEW r \in Nat, NEW count \in Nat \ {0}, NEW now \in Nat,
           now < r, r <= now + Window, InWindow(p, limit, r, count)
    PROVE  /\ count + 1 <= limit => InWindow(Append(p, now), limit, r, count + 1)
           /\ InWindow(p, limit, r, count + 1)
<1>1. PICK w \in [1..Len(p) -> Int] : Windowed(p, w, limit) /\ OpenUntil(p, w, r, count)
  BY DEF InWindow
<1>2. \A i \in 1..Len(p) : w[i] \in Int
  OBVIOUS
<1>3. Len(p) \in Nat /\ Window \in Nat /\ Len(Append(p, now)) = Len(p) + 1
  BY Consts, AppendTime
<1>4. OpenUntil(p, w, r, count + 1)
  BY <1>1, <1>2, <1>3 DEF OpenUntil
<1>5. InWindow(p, limit, r, count + 1)
  BY <1>1, <1>4 DEF InWindow
<1>6. ASSUME count + 1 <= limit PROVE InWindow(Append(p, now), limit, r, count + 1)
  <2>0. PICK start \in Int : start = r - Window
    BY <1>3
  <2>1. start <= now /\ now <= start + Window
    BY <1>3, <2>0
  <2>2. Room(p, w, limit, start)
    BY <1>1, <1>2, <1>3, <1>6, <2>0 DEF OpenUntil, Room
  <2>3. PICK v \in [1..Len(Append(p, now)) -> Int] :
          Windowed(Append(p, now), v, limit) /\ v[Len(p) + 1] = start /\ \A i \in 1..Len(p) : v[i] = w[i]
    <3>1. Windowed(p, w, limit)
      BY <1>1
    <3> QED BY ONLY <2>1, <2>2, <3>1, p \in Seq(Nat), limit \in Nat \ {0}, now \in Nat, start \in Int, WindowedGrows
  <2>4. \A i \in 1..(Len(p) + 1) : i \in 1..Len(p) \/ i = Len(p) + 1
    BY <1>3
  <2>5. \A i \in 1..(Len(p) + 1) : v[i] + Window <= r
    BY <1>1, <1>3, <2>0, <2>3, <2>4 DEF OpenUntil
  <2>6. \A i \in 1..(Len(p) + 1) : i + (count + 1) <= Len(p) + 1 => v[i] + Window <= r - Window
    <3> SUFFICES ASSUME NEW i \in 1..(Len(p) + 1), i + (count + 1) <= Len(p) + 1 PROVE v[i] + Window <= r - Window
      OBVIOUS
    <3>1. i \in 1..Len(p) /\ i + count <= Len(p)
      BY <1>3
    <3> QED BY <1>1, <2>3, <3>1 DEF OpenUntil
  <2>7. OpenUntil(Append(p, now), v, r, count + 1)
    BY <1>3, <2>5, <2>6 DEF OpenUntil
  <2> QED BY <2>3, <2>7 DEF InWindow
<1> QED BY <1>5, <1>6

\* A hit that opens a window, which is over at once if windows have no length.
LEMMA HitOpens ==
    ASSUME NEW p \in Seq(Nat), NEW limit \in Nat \ {0}, NEW now \in Nat, Clear(p, limit, now)
    PROVE  /\ InWindow(Append(p, now), limit, now + Window, 1)
           /\ Window = 0 => Clear(Append(p, now), limit, now)
<1>1. PICK w \in [1..Len(p) -> Int] : Windowed(p, w, limit) /\ OverBy(p, w, now)
  BY DEF Clear
<1>2. \A i \in 1..Len(p) : w[i] \in Int
  OBVIOUS
<1>3. Len(p) \in Nat /\ Window \in Nat /\ Len(Append(p, now)) = Len(p) + 1
  BY Consts, AppendTime
<1>4. PICK v \in [1..Len(Append(p, now)) -> Int] :
        Windowed(Append(p, now), v, limit) /\ v[Len(p) + 1] = now /\ \A i \in 1..Len(p) : v[i] = w[i]
  <2>0. PICK start \in Int : start = now
    OBVIOUS
  <2>1. start <= now /\ now <= start + Window
    BY <1>3, <2>0
  <2>2. Room(p, w, limit, start)
    BY <1>1, <2>0 DEF OverBy, Room
  <2>3. \E v \in [1..Len(Append(p, now)) -> Int] :
          Windowed(Append(p, now), v, limit) /\ v[Len(p) + 1] = start /\ \A i \in 1..Len(p) : v[i] = w[i]
    BY ONLY <1>1, <2>1, <2>2, p \in Seq(Nat), limit \in Nat \ {0}, now \in Nat, start \in Int, WindowedGrows
  <2> QED BY <2>0, <2>3
<1>5. \A i \in 1..(Len(p) + 1) : i \in 1..Len(p) \/ i = Len(p) + 1
  BY <1>3
<1>6. \A i \in 1..(Len(p) + 1) : v[i] + Window <= now + Window /\ (i # Len(p) + 1 => v[i] + Window <= now)
  BY <1>1, <1>2, <1>3, <1>4, <1>5 DEF OverBy
<1>7. OpenUntil(Append(p, now), v, now + Window, 1)
  BY <1>3, <1>6 DEF OpenUntil
<1>8. Window = 0 => OverBy(Append(p, now), v, now)
  BY <1>3, <1>6 DEF OverBy
<1> QED BY <1>4, <1>7, <1>8 DEF InWindow, Clear

-----------------------------------------------------------------------------
(* The limiters.                                                           *)

Keys == Ips \cup GateTenants

BucketOK(b, most, now) ==
    b.count \in Nat \ {0} /\ b.count <= most /\ b.resetAt \in Nat /\ Window <= b.resetAt /\ b.resetAt <= now + Window

GuardTypes ==
    /\ clock \in 0..MaxClock /\ hits \in 0..MaxHits
    /\ DOMAIN buckets = Limiters
    /\ \A l \in Limiters : \A k \in DOMAIN buckets[l] : k \in Keys /\ BucketOK(buckets[l][k], hits, clock)
    /\ passed \in [Limiters -> [Keys -> Seq(Nat)]]

KeyHolds(l, k) ==
    /\ Counting(l, k) => InWindow(passed[l][k], Limits[l], buckets[l][k].resetAt, buckets[l][k].count)
    /\ ~Counting(l, k) => Clear(passed[l][k], Limits[l], clock)

GuardInv == GuardTypes /\ \A l \in Limiters, k \in Keys : KeyHolds(l, k)

LEMMA GuardInitInv == GatewayInit => GuardInv
<1> SUFFICES ASSUME GatewayInit PROVE GuardInv
  OBVIOUS
<1>1. clock = 0 /\ hits = 0 /\ buckets = [l \in Limiters |-> << >>] /\ passed = [l \in Limiters |-> [k \in Keys |-> <<>>]]
  BY DEF GatewayInit, Keys
<1>2. GuardTypes
  <2>1. \A l \in Limiters : DOMAIN buckets[l] = {}
    BY <1>1
  <2>2. passed \in [Limiters -> [Keys -> Seq(Nat)]]
    BY <1>1
  <2> QED BY <1>1, <2>1, <2>2, Consts DEF GuardTypes
<1>3. ASSUME NEW l \in Limiters, NEW k \in Keys PROVE KeyHolds(l, k)
  <2>1. ~Counting(l, k) /\ passed[l][k] = <<>>
    BY <1>1 DEF Counting
  <2> QED BY <2>1, ClearAtFirst DEF KeyHolds
<1> QED BY <1>2, <1>3 DEF GuardInv

LEMMA LimitIs == \A l \in Limiters : Limits[l] \in Nat \ {0}
BY GatewayAssumption DEF Limiters

LEMMA GuardTick == GuardInv /\ Tick => GuardInv'
<1> SUFFICES ASSUME GuardInv, Tick PROVE GuardInv'
  OBVIOUS
<1>1. clock' = clock + 1 /\ clock < MaxClock /\ buckets' = buckets /\ passed' = passed /\ hits' = hits /\ GuardTypes
  BY DEF Tick, guardVars, GuardInv
<1>2. clock \in Nat /\ MaxClock \in Nat /\ Window \in Nat
  BY <1>1, Consts DEF GuardTypes
<1>3. GuardTypes'
  <2>1. ASSUME NEW l \in Limiters, NEW k \in DOMAIN buckets[l]
        PROVE  k \in Keys /\ BucketOK(buckets[l][k], hits', clock')
    BY <1>1, <1>2 DEF GuardTypes, BucketOK
  <2> QED BY <1>1, <1>2, <2>1 DEF GuardTypes
<1>4. ASSUME NEW l \in Limiters, NEW k \in Keys PROVE KeyHolds(l, k)'
  <2>1. passed[l][k] \in Seq(Nat) /\ KeyHolds(l, k)
    BY <1>1 DEF GuardTypes, GuardInv
  <2>2. CASE ~Counting(l, k)
    <3>1. ~Counting(l, k)'
      BY <1>1, <1>2, <2>2 DEF Counting, GuardTypes, BucketOK
    <3> QED BY <1>1, <1>2, <2>1, <2>2, <3>1, ClearStays DEF KeyHolds
  <2>3. CASE Counting(l, k)
    <3>1. PICK x : x = buckets[l][k].resetAt
      OBVIOUS
    <3>2. PICK c : c = buckets[l][k].count
      OBVIOUS
    <3>3. x \in Nat /\ c \in Nat /\ clock < x /\ k \in DOMAIN buckets[l]
      BY <1>1, <2>3, <3>1, <3>2 DEF GuardTypes, BucketOK, Counting
    <3>4. Counting(l, k)' <=> clock + 1 < x
      BY <1>1, <3>1, <3>3 DEF Counting
    <3>5. InWindow(passed[l][k], Limits[l], x, c)
      BY <2>1, <2>3, <3>1, <3>2 DEF KeyHolds
    <3>6. CASE clock + 1 < x
      BY <1>1, <3>1, <3>2, <3>4, <3>5, <3>6 DEF KeyHolds
    <3>7. CASE ~(clock + 1 < x)
      <4>1. x <= clock + 1 /\ clock + 1 \in Nat
        BY <1>2, <3>3, <3>7
      <4>2. Clear(passed[l][k], Limits[l], clock + 1)
        BY <2>1, <3>3, <3>5, <4>1, WindowEnds
      <4> QED BY <1>1, <3>4, <3>7, <4>2 DEF KeyHolds
    <3> QED BY <3>6, <3>7
  <2> QED BY <2>2, <2>3
<1> QED BY <1>3, <1>4 DEF GuardInv

\* A sweep drops no bucket that is open.
LEMMA SweepKeeps ==
    ASSUME NEW b
    PROVE  /\ \A j \in DOMAIN Sweep(b) : j \in DOMAIN b /\ Sweep(b)[j] = b[j]
           /\ \A j \in DOMAIN b : clock < b[j].resetAt => j \in DOMAIN Sweep(b) /\ Sweep(b)[j] = b[j]
BY DEF Sweep

\* What a hit leaves of the buckets of its limiter.
LEMMA HitIs ==
    ASSUME GuardTypes, NEW l \in Limiters, NEW key \in Keys
    PROVE  LET was == buckets[l]
               end == IF Counting(l, key) THEN was[key].resetAt ELSE clock + Window
           IN /\ \A j \in DOMAIN hit(l, key) : j # key => j \in DOMAIN was /\ hit(l, key)[j] = was[j]
              /\ \A j \in DOMAIN was : j # key /\ clock < was[j].resetAt =>
                    j \in DOMAIN hit(l, key) /\ hit(l, key)[j] = was[j]
              /\ key \in DOMAIN hit(l, key) => hit(l, key)[key] = [count |-> Count(l, key), resetAt |-> end]
              /\ clock < end => key \in DOMAIN hit(l, key)
<1> DEFINE was == buckets[l]
           end == IF Counting(l, key) THEN was[key].resetAt ELSE clock + Window
           fresh == [count |-> Count(l, key), resetAt |-> end]
           b == [j \in DOMAIN was \cup {key} |-> IF j = key THEN fresh ELSE was[j]]
<1>1. hit(l, key) = Sweep(b)
  BY DEF hit
<1>2. DOMAIN b = DOMAIN was \cup {key} /\ b[key] = fresh /\ \A j \in DOMAIN was : j # key => b[j] = was[j]
  OBVIOUS
<1>3. fresh.resetAt = end
  OBVIOUS
<1> HIDE DEF was, end, fresh, b
<1>4. /\ \A j \in DOMAIN Sweep(b) : j \in DOMAIN b /\ Sweep(b)[j] = b[j]
      /\ \A j \in DOMAIN b : clock < b[j].resetAt => j \in DOMAIN Sweep(b) /\ Sweep(b)[j] = b[j]
  BY SweepKeeps
<1>5. /\ \A j \in DOMAIN hit(l, key) : j # key => j \in DOMAIN was /\ hit(l, key)[j] = was[j]
      /\ \A j \in DOMAIN was : j # key /\ clock < was[j].resetAt => j \in DOMAIN hit(l, key) /\ hit(l, key)[j] = was[j]
      /\ key \in DOMAIN hit(l, key) => hit(l, key)[key] = fresh
      /\ clock < end => key \in DOMAIN hit(l, key)
  BY <1>1, <1>2, <1>3, <1>4
<1> QED BY <1>5 DEF was, end, fresh

LEMMA GuardKeeps ==
    ASSUME GuardInv, NEW r \in GateRequests, guard(r)
    PROVE  GuardInv'
<1>1. /\ clock' = clock /\ hits' = hits + 1 /\ hits < MaxHits /\ GuardTypes
      /\ buckets' = [l \in Limiters |-> IF l \in Reached(r) THEN hit(l, Key(r, l)) ELSE buckets[l]]
      /\ passed' = [l \in Limiters |-> [k \in Keys |->
                      IF l \in Reached(r) /\ k = Key(r, l) /\ Allowed(r, l) THEN Append(passed[l][k], clock) ELSE passed[l][k]]]
  BY DEF guard, GuardInv, Keys
<1>2. clock \in Nat /\ hits \in Nat /\ MaxHits \in Nat /\ Window \in Nat
  BY <1>1, Consts DEF GuardTypes
<1>3. \A l \in Limiters : Key(r, l) \in Keys
  BY GatewayAssumption DEF Key, Keys
<1>4. \A b : BucketOK(b, hits, clock) => BucketOK(b, hits', clock')
  BY <1>1, <1>2 DEF BucketOK
<1>5. ASSUME NEW l \in Limiters, l \in Reached(r), NEW key \in Keys, key = Key(r, l)
      PROVE  /\ \A k \in DOMAIN buckets'[l] : k \in Keys /\ BucketOK(buckets'[l][k], hits', clock')
             /\ \A k \in Keys : KeyHolds(l, k)'
  <2> DEFINE was == buckets[l]
             now == buckets'[l]
             end == IF Counting(l, key) THEN was[key].resetAt ELSE clock + Window
             count == Count(l, key)
  <2>1. now = hit(l, key)
    BY <1>1, <1>5
  <2>2. /\ \A j \in DOMAIN now : j # key => j \in DOMAIN was /\ now[j] = was[j]
        /\ \A j \in DOMAIN was : j # key /\ clock < was[j].resetAt => j \in DOMAIN now /\ now[j] = was[j]
        /\ key \in DOMAIN now => now[key] = [count |-> count, resetAt |-> end]
        /\ clock < end => key \in DOMAIN now
    BY <1>1, <2>1, HitIs
  <2>3. \A k \in DOMAIN was : k \in Keys /\ BucketOK(was[k], hits, clock)
    BY <1>1 DEF GuardTypes
  <2>4. /\ count \in Nat \ {0} /\ count <= hits + 1 /\ end \in Nat /\ Window <= end /\ end <= clock + Window
        /\ Counting(l, key) => count = was[key].count + 1 /\ clock < end /\ end = was[key].resetAt
        /\ ~Counting(l, key) => count = 1 /\ end = clock + Window
    <3>1. CASE Counting(l, key)
      <4>1. BucketOK(was[key], hits, clock) /\ clock < was[key].resetAt
        BY <2>3, <3>1 DEF Counting
      <4> QED BY <1>2, <3>1, <4>1 DEF BucketOK, Count
    <3>2. CASE ~Counting(l, key)
      BY <1>2, <3>2 DEF Count
    <3> QED BY <3>1, <3>2
  <2>5. PICK e : e = end
    OBVIOUS
  <2>6. PICK c : c = count
    OBVIOUS
  <2> HIDE DEF end, count
  <2>7. ASSUME NEW k \in DOMAIN now PROVE k \in Keys /\ BucketOK(now[k], hits', clock')
    <3>1. CASE k = key
      <4>1. now[k].count = c /\ now[k].resetAt = e
        BY <2>2, <2>5, <2>6, <3>1
      <4> QED BY <1>1, <1>2, <2>4, <2>5, <2>6, <3>1, <4>1 DEF BucketOK
    <3>2. CASE k # key
      BY <1>4, <2>2, <2>3, <3>2
    <3> QED BY <3>1, <3>2
  <2>8. ASSUME NEW k \in Keys, k # key PROVE KeyHolds(l, k)'
    <3>1. passed'[l][k] = passed[l][k] /\ KeyHolds(l, k)
      BY <1>1, <1>5, <2>8 DEF GuardInv
    <3>2. Counting(l, k)' <=> Counting(l, k)
      BY <1>1, <2>2, <2>8 DEF Counting
    <3>3. Counting(l, k) => now[k] = was[k]
      BY <2>2, <2>8 DEF Counting
    <3> QED BY <1>1, <3>1, <3>2, <3>3 DEF KeyHolds
  <2>9. KeyHolds(l, key)'
    <3>1. /\ passed[l][key] \in Seq(Nat) /\ KeyHolds(l, key) /\ Limits[l] \in Nat \ {0}
          /\ passed'[l][key] = IF c <= Limits[l] THEN Append(passed[l][key], clock) ELSE passed[l][key]
      BY <1>1, <1>5, <2>6, LimitIs DEF GuardInv, GuardTypes, Allowed, count
    <3>2. Counting(l, key)' <=> clock < e
      BY <1>1, <2>2, <2>5 DEF Counting
    <3>3. clock < e => now[key].count = c /\ now[key].resetAt = e
      BY <2>2, <2>5, <2>6
    <3>4. CASE Counting(l, key)
      <4>1. PICK d : d = was[key].count
        OBVIOUS
      <4>2. d \in Nat \ {0} /\ c = d + 1 /\ clock < e /\ e \in Nat /\ e <= clock + Window
        BY <2>3, <2>4, <2>5, <2>6, <3>4, <4>1 DEF BucketOK, Counting
      <4>3. InWindow(passed[l][key], Limits[l], e, d)
        BY <2>4, <2>5, <3>1, <3>4, <4>1 DEF KeyHolds
      <4>4. InWindow(passed'[l][key], Limits[l], e, c)
        <5>1. /\ d + 1 <= Limits[l] => InWindow(Append(passed[l][key], clock), Limits[l], e, d + 1)
              /\ InWindow(passed[l][key], Limits[l], e, d + 1)
          BY <1>2, <3>1, <4>2, <4>3, HitInWindow
        <5> QED BY <3>1, <4>2, <5>1
      <4> QED BY <3>2, <3>3, <4>2, <4>4 DEF KeyHolds
    <3>5. CASE ~Counting(l, key)
      <4>1. c = 1 /\ e = clock + Window
        BY <2>4, <2>5, <2>6, <3>5
      <4>2. passed'[l][key] = Append(passed[l][key], clock)
        <5>1. 1 <= Limits[l]
          BY <3>1
        <5> QED BY <3>1, <4>1, <5>1
      <4>3. Clear(passed[l][key], Limits[l], clock)
        BY <3>1, <3>5 DEF KeyHolds
      <4>4. /\ InWindow(Append(passed[l][key], clock), Limits[l], clock + Window, 1)
            /\ Window = 0 => Clear(Append(passed[l][key], clock), Limits[l], clock)
        BY <1>2, <3>1, <4>3, HitOpens
      <4>5. ~(clock < e) => Window = 0
        BY <1>2, <4>1
      <4> QED BY <1>1, <3>2, <3>3, <4>1, <4>2, <4>4, <4>5 DEF KeyHolds
    <3> QED BY <3>4, <3>5
  <2> QED BY <2>7, <2>8, <2>9
<1>6. ASSUME NEW l \in Limiters, l \notin Reached(r)
      PROVE  /\ \A k \in DOMAIN buckets'[l] : k \in Keys /\ BucketOK(buckets'[l][k], hits', clock')
             /\ \A k \in Keys : KeyHolds(l, k)'
  <2>1. buckets'[l] = buckets[l] /\ \A k \in Keys : passed'[l][k] = passed[l][k]
    BY <1>1, <1>6
  <2>2. \A k \in DOMAIN buckets'[l] : k \in Keys /\ BucketOK(buckets'[l][k], hits', clock')
    BY <1>1, <1>4, <2>1 DEF GuardTypes
  <2>3. ASSUME NEW k \in Keys PROVE KeyHolds(l, k)'
    <3>1. KeyHolds(l, k)
      BY DEF GuardInv
    <3> QED BY <1>1, <2>1, <3>1 DEF KeyHolds, Counting
  <2> QED BY <2>2, <2>3
<1>7. GuardTypes'
  <2>1. passed' \in [Limiters -> [Keys -> Seq(Nat)]]
    BY <1>1, <1>2 DEF GuardTypes
  <2>2. \A l \in Limiters : \A k \in DOMAIN buckets'[l] : k \in Keys /\ BucketOK(buckets'[l][k], hits', clock')
    BY <1>3, <1>5, <1>6
  <2> QED BY <1>1, <1>2, <2>1, <2>2 DEF GuardTypes
<1>8. \A l \in Limiters : \A k \in Keys : KeyHolds(l, k)'
  BY <1>3, <1>5, <1>6
<1> QED BY <1>7, <1>8 DEF GuardInv

LEMMA GuardInvIsEnough == GuardInv => TwiceTheLimit
<1> SUFFICES ASSUME GuardInv, NEW l \in Limiters, NEW k \in Keys, NEW i \in DOMAIN passed[l][k],
                    i + 2 * Limits[l] \in DOMAIN passed[l][k]
             PROVE  passed[l][k][i + 2 * Limits[l]] - passed[l][k][i] >= Window
  BY DEF TwiceTheLimit, Keys
<1>1. PICK p \in Seq(Nat) : p = passed[l][k]
  BY DEF GuardInv, GuardTypes
<1>2. PICK limit \in Nat \ {0} : limit = Limits[l]
  BY LimitIs
<1>3. KeyHolds(l, k)
  BY DEF GuardInv
<1>4. PICK w : Windowed(p, w, limit)
  BY <1>1, <1>2, <1>3 DEF KeyHolds, InWindow, Clear
<1>5. i \in 1..Len(p) /\ i + 2 * limit <= Len(p)
  <2>1. DOMAIN p = 1..Len(p)
    BY <1>1
  <2>2. i + 2 * limit \in 1..Len(p)
    BY <1>1, <1>2, <2>1
  <2> QED BY <1>1, <2>1, <2>2
<1>6. p[i + 2 * limit] - p[i] >= Window
  BY <1>4, <1>5, WindowedIsEnough
<1> QED BY <1>1, <1>2, <1>6

-----------------------------------------------------------------------------
(* Billing.                                                                *)

Tiers == DOMAIN Plans
Caps == Nat \cup {Unset}
Logs == 0..MaxOccurrences
Money == [tier : Tiers, cap : Caps, spent : Nat, accepted : Nat, rejected : Nat, log : Logs]
Meter == [metered : Nat, skipped : Nat, estimated : Nat, fallback : Nat, rejected : Nat, attributed : Nat]
Books == [a : Money, m : Meter, fees : Nat]
Session == [tenant : GateTenants, tier : DOMAIN Plans, status : {"open", "complete", "expired"}, paid : BOOLEAN, expiresAt : Nat]

\* The cap in force is never above the highest there was.
Covers(high, a) == high = Unlimited \/ (hardCapUsd(a) \in Nat /\ hardCapUsd(a) <= high)

\* The books of the tenant that is billed.
Balanced(b, high) ==
    /\ b.m.metered = b.m.estimated + b.m.fallback /\ b.m.metered = b.a.accepted + b.a.rejected
    /\ b.m.rejected = b.a.rejected /\ b.m.attributed = b.a.spent
    /\ Covers(high, b.a) /\ UnderCap(b.a.spent - b.fees, high)

LEMMA PlansAre ==
    \A tier \in DOMAIN Plans : /\ Plans[tier].included \in Nat /\ Plans[tier].cap \in Nat \cup {Unlimited}
                               /\ Plans[tier].fee \in Nat /\ tier # Unset
BY GatewayAssumption

LEMMA NamesDiffer == Unlimited # Unset /\ Unlimited \notin Nat /\ Unset \notin Nat /\ Demo \in GateTenants
BY GatewayAssumption

LEMMA CapIs == \A a \in Money : hardCapUsd(a) \in Nat \cup {Unlimited}
BY PlansAre DEF Money, Caps, Tiers, hardCapUsd

LEMMA RecordedIs ==
    ASSUME NEW a \in Money, NEW ok \in BOOLEAN, NEW cost \in Nat
    PROVE  /\ Recorded(a, ok, cost) \in Money
           /\ Recorded(a, ok, cost).tier = a.tier /\ Recorded(a, ok, cost).cap = a.cap
           /\ ok => /\ Recorded(a, ok, cost).accepted = a.accepted + 1 /\ Recorded(a, ok, cost).rejected = a.rejected
                    /\ Recorded(a, ok, cost).spent = a.spent + cost
           /\ ~ok => /\ Recorded(a, ok, cost).accepted = a.accepted /\ Recorded(a, ok, cost).rejected = a.rejected + 1
                     /\ Recorded(a, ok, cost).spent = a.spent
<1>1. MaxOccurrences \in Nat
  BY Consts
<1>2. a.log \in 0..MaxOccurrences /\ a.spent \in Nat /\ a.accepted \in Nat /\ a.rejected \in Nat
  BY DEF Money, Logs
<1>3. (IF a.log < MaxOccurrences THEN a.log + 1 ELSE a.log) \in Logs
  BY <1>1, <1>2 DEF Logs
<1>4. PICK g \in Logs : g = IF a.log < MaxOccurrences THEN a.log + 1 ELSE a.log
  BY <1>3
<1>5. PICK n : n = Recorded(a, ok, cost)
  OBVIOUS
<1>6. CASE ok
  <2>1. PICK x \in Nat, z \in Nat : x = a.accepted + 1 /\ z = a.spent + cost
    BY <1>2
  <2>2. n = [a EXCEPT !.log = g, !.accepted = x, !.rejected = a.rejected, !.spent = z]
    BY <1>4, <1>5, <1>6, <2>1 DEF Recorded
  <2>3. n \in Money /\ n.tier = a.tier /\ n.cap = a.cap /\ n.accepted = x /\ n.rejected = a.rejected /\ n.spent = z
    BY ONLY <1>2, <2>2, a \in Money, g \in Logs, x \in Nat, z \in Nat DEF Money
  <2> QED BY <1>5, <1>6, <2>1, <2>3
<1>7. CASE ~ok
  <2>1. PICK y \in Nat : y = a.rejected + 1
    BY <1>2
  <2>2. n = [a EXCEPT !.log = g, !.accepted = a.accepted, !.rejected = y, !.spent = a.spent]
    BY <1>4, <1>5, <1>7, <2>1 DEF Recorded
  <2>3. n \in Money /\ n.tier = a.tier /\ n.cap = a.cap /\ n.accepted = a.accepted /\ n.rejected = y /\ n.spent = a.spent
    BY ONLY <1>2, <2>2, a \in Money, g \in Logs, y \in Nat DEF Money
  <2> QED BY <1>5, <1>7, <2>1, <2>3
<1> QED BY <1>6, <1>7

\* One dispatch observed keeps the books; what is accepted stays under the cap in force.
LEMMA ObserveKeeps ==
    ASSUME NEW b \in Books, NEW high \in Nat \cup {Unlimited}, Balanced(b, high), NEW e
    PROVE  /\ observe(b, e) \in Books /\ Balanced(observe(b, e), high)
           /\ observe(b, e).a.tier = b.a.tier /\ observe(b, e).a.cap = b.a.cap
<1>1. b.a \in Money /\ b.m \in Meter /\ b.fees \in Nat /\ b.a.tier \in DOMAIN Plans /\ b.a.spent \in Nat
  BY DEF Books, Money, Tiers
<1>2. CASE e.status # "SUCCESS"
  <2>1. observe(b, e) = [b EXCEPT !.m.skipped = @ + 1]
    BY <1>2 DEF observe
  <2>2. observe(b, e) \in Books /\ observe(b, e).a = b.a /\ observe(b, e).fees = b.fees
        /\ observe(b, e).m = [b.m EXCEPT !.skipped = @ + 1]
    BY <1>1, <2>1 DEF Books, Meter
  <2>3. /\ observe(b, e).m.metered = b.m.metered /\ observe(b, e).m.estimated = b.m.estimated
        /\ observe(b, e).m.fallback = b.m.fallback /\ observe(b, e).m.rejected = b.m.rejected
        /\ observe(b, e).m.attributed = b.m.attributed
    BY <1>1, <2>2 DEF Meter
  <2> QED BY <2>2, <2>3 DEF Balanced
<1>3. CASE e.status = "SUCCESS"
  <2> DEFINE c == consume(b.a, e)
             fee == Plans[b.a.tier].fee
             byok == Plans[b.a.tier].byok
             cost == IF byok THEN fee ELSE estimate(b.a, e)
             ok == byok \/ Accepts(b.a, estimate(b.a, e))
             m == [b.m EXCEPT !.metered = @ + 1, !.estimated = IF e.ephemeral THEN @ + 1 ELSE @,
                              !.fallback = IF e.ephemeral THEN @ ELSE @ + 1,
                              !.rejected = IF c.ok THEN @ ELSE @ + 1,
                              !.attributed = IF c.ok THEN @ + c.cost ELSE @]
             fees2 == b.fees + IF byok THEN c.cost ELSE 0
  <2>1. c.cost = cost /\ c.ok = (IF byok THEN TRUE ELSE Accepts(b.a, estimate(b.a, e)))
        /\ c.a = Recorded(b.a, IF byok THEN TRUE ELSE Accepts(b.a, estimate(b.a, e)), cost)
    BY DEF consume
  <2>2. fee \in Nat /\ estimate(b.a, e) \in Nat /\ cost \in Nat
    BY <1>1, PlansAre DEF estimate
  <2>3. Accepts(b.a, estimate(b.a, e)) \in BOOLEAN
    BY DEF Accepts, UnderCap
  <2>4. PICK yes \in BOOLEAN : yes = (IF byok THEN TRUE ELSE Accepts(b.a, estimate(b.a, e)))
    BY <2>3
  <2>5. c.ok = yes /\ c.a = Recorded(b.a, yes, cost) /\ (byok => yes) /\ (~byok /\ yes => Accepts(b.a, cost))
    BY <2>1, <2>4
  <2>6. observe(b, e) = [a |-> c.a, m |-> m, fees |-> fees2]
    BY <1>3 DEF observe
  <2>7. PICK x \in Nat : x = cost
    BY <2>2
  <2>8. PICK n : n = c.a
    OBVIOUS
  <2>9. /\ n \in Money /\ n.tier = b.a.tier /\ n.cap = b.a.cap
        /\ yes => n.accepted = b.a.accepted + 1 /\ n.rejected = b.a.rejected /\ n.spent = b.a.spent + x
        /\ ~yes => n.accepted = b.a.accepted /\ n.rejected = b.a.rejected + 1 /\ n.spent = b.a.spent
    <3>1. n = Recorded(b.a, yes, x)
      BY <2>5, <2>7, <2>8
    <3> QED BY ONLY <1>1, <3>1, yes \in BOOLEAN, x \in Nat, RecordedIs
  <2>10. PICK k \in Meter : /\ k = m /\ k.metered = b.m.metered + 1
                            /\ k.estimated + k.fallback = b.m.estimated + b.m.fallback + 1
                            /\ yes => k.rejected = b.m.rejected /\ k.attributed = b.m.attributed + x
                            /\ ~yes => k.rejected = b.m.rejected + 1 /\ k.attributed = b.m.attributed
    <3>1. b.m.metered \in Nat /\ b.m.estimated \in Nat /\ b.m.fallback \in Nat /\ b.m.rejected \in Nat /\ b.m.attributed \in Nat
      BY <1>1 DEF Meter
    <3>2. PICK p \in Nat, q \in Nat : /\ p = (IF e.ephemeral THEN b.m.estimated + 1 ELSE b.m.estimated)
                                      /\ q = (IF e.ephemeral THEN b.m.fallback ELSE b.m.fallback + 1)
                                      /\ p + q = b.m.estimated + b.m.fallback + 1
      <4>1. CASE e.ephemeral
        BY <3>1, <4>1
      <4>2. CASE ~e.ephemeral
        BY <3>1, <4>2
      <4> QED BY <4>1, <4>2
    <3>3. PICK t \in Nat, s \in Nat, u \in Nat : /\ t = b.m.metered + 1
                                                /\ s = (IF yes THEN b.m.rejected ELSE b.m.rejected + 1)
                                                /\ u = (IF yes THEN b.m.attributed + x ELSE b.m.attributed)
      <4>1. CASE yes
        BY <3>1, <4>1
      <4>2. CASE ~yes
        BY <3>1, <4>2
      <4> QED BY <4>1, <4>2
    <3>4. PICK j : j = [b.m EXCEPT !.metered = t, !.estimated = p, !.fallback = q, !.rejected = s, !.attributed = u]
      OBVIOUS
    <3>5. j = m
      <4>1. s = (IF c.ok THEN b.m.rejected ELSE b.m.rejected + 1)
        BY <2>5, <3>3
      <4>2. u = (IF c.ok THEN b.m.attributed + c.cost ELSE b.m.attributed)
        BY <2>1, <2>5, <2>7, <3>3
      <4> HIDE DEF c
      <4> QED BY <3>2, <3>3, <3>4, <4>1, <4>2
    <3> HIDE DEF m
    <3>6. j \in Meter /\ j.metered = t /\ j.estimated = p /\ j.fallback = q /\ j.rejected = s /\ j.attributed = u
      BY <1>1, <3>4 DEF Meter
    <3>7. /\ yes => j.rejected = b.m.rejected /\ j.attributed = b.m.attributed + x
          /\ ~yes => j.rejected = b.m.rejected + 1 /\ j.attributed = b.m.attributed
      BY <3>3, <3>6
    <3>8. j.metered = b.m.metered + 1 /\ j.estimated + j.fallback = b.m.estimated + b.m.fallback + 1
      BY <3>2, <3>3, <3>6
    <3> QED BY <3>5, <3>6, <3>7, <3>8
  <2>11. PICK f \in Nat : f = fees2 /\ f = b.fees + IF byok THEN x ELSE 0
    BY <1>1, <2>1, <2>7
  <2>12. observe(b, e).a = n /\ observe(b, e).m = k /\ observe(b, e).fees = f /\ observe(b, e) \in Books
    BY <2>6, <2>8, <2>9, <2>10, <2>11 DEF Books
  <2>13. /\ k.metered = k.estimated + k.fallback /\ k.metered = n.accepted + n.rejected
         /\ k.rejected = n.rejected /\ k.attributed = n.spent
    <3>1. /\ b.a.accepted \in Nat /\ b.a.rejected \in Nat /\ b.a.spent \in Nat
          /\ b.m.metered = b.m.estimated + b.m.fallback /\ b.m.metered = b.a.accepted + b.a.rejected
          /\ b.m.rejected = b.a.rejected /\ b.m.attributed = b.a.spent
      BY <1>1 DEF Money, Balanced
    <3>2. k.metered = k.estimated + k.fallback
      BY <2>10, <3>1
    <3>3. CASE yes
      BY <2>9, <2>10, <3>1, <3>2, <3>3
    <3>4. CASE ~yes
      BY <2>9, <2>10, <3>1, <3>2, <3>4
    <3> QED BY <3>3, <3>4
  <2>14. Covers(high, n)
    BY <2>9 DEF Covers, hardCapUsd, Balanced
  <2>15. UnderCap(n.spent - f, high)
    <3>1. b.fees \in Nat /\ b.a.spent \in Nat /\ UnderCap(b.a.spent - b.fees, high) /\ Covers(high, b.a)
      BY <1>1 DEF Balanced
    <3>2. CASE high = Unlimited
      BY <3>2 DEF UnderCap
    <3>3. CASE high \in Nat /\ high # Unlimited
      <4>1. b.a.spent - b.fees <= high /\ hardCapUsd(b.a) \in Nat /\ hardCapUsd(b.a) <= high
        BY <3>1, <3>3 DEF UnderCap, Covers
      <4>2. CASE byok
        BY <2>5, <2>9, <2>11, <3>1, <4>1, <4>2 DEF UnderCap
      <4>3. CASE ~byok /\ yes
        <5>1. b.a.spent + x <= hardCapUsd(b.a)
          BY <2>5, <2>7, <4>1, <4>3, NamesDiffer DEF Accepts, UnderCap
        <5> QED BY <2>9, <2>11, <3>1, <3>3, <4>1, <4>3, <5>1 DEF UnderCap
      <4>4. CASE ~byok /\ ~yes
        BY <2>9, <2>11, <3>1, <4>1, <4>4 DEF UnderCap
      <4> QED BY <4>2, <4>3, <4>4
    <3> QED BY <3>2, <3>3
  <2> QED BY <2>9, <2>12, <2>13, <2>14, <2>15 DEF Balanced
<1> QED BY <1>2, <1>3

\* A tier is there with a cause: the default, a grant of the operator, or a payment.
Given(t, tier, grants, sessions) ==
    \/ tier = DefaultTier(t) \/ <<t, tier>> \in grants
    \/ \E i \in DOMAIN sessions : sessions[i].tenant = t /\ sessions[i].tier = tier /\ sessions[i].paid
BillTypes ==
    /\ acct \in [GateTenants -> Money] /\ meter \in Meter /\ fees \in Nat
    /\ highest \in [GateTenants -> Nat \cup {Unlimited}]
Spending == \A t \in GateTenants : Covers(highest[t], acct[t]) /\ (t # Demo => acct[t].spent = 0)
DemoBooks == Balanced([a |-> acct[Demo], m |-> meter, fees |-> fees], highest[Demo])
SessionsAre == checkouts \in Seq(Session)
TiersGiven == \A t \in GateTenants : Given(t, acct[t].tier, granted, checkouts)
BillInv == BillTypes /\ Spending /\ DemoBooks /\ SessionsAre /\ TiersGiven

LEMMA BillInit == GatewayInit => BillInv
<1> SUFFICES ASSUME GatewayInit PROVE BillInv
  OBVIOUS
<1>1. /\ acct = [t \in GateTenants |-> Account(DefaultTier(t))] /\ checkouts = <<>> /\ fees = 0 /\ granted = {}
      /\ meter = [metered |-> 0, skipped |-> 0, estimated |-> 0, fallback |-> 0, rejected |-> 0, attributed |-> 0]
      /\ highest = [t \in GateTenants |-> Plans[DefaultTier(t)].cap]
  BY DEF GatewayInit
<1>2. \A t \in GateTenants : DefaultTier(t) \in DOMAIN Plans
  BY GatewayAssumption DEF DefaultTier
<1>3. \A t \in GateTenants : Plans[DefaultTier(t)].cap \in Nat \cup {Unlimited}
  BY <1>2, PlansAre
<1>4. ASSUME NEW t \in GateTenants
      PROVE  /\ acct[t] \in Money /\ acct[t].tier = DefaultTier(t) /\ acct[t].cap = Unset
             /\ acct[t].spent = 0 /\ acct[t].accepted = 0 /\ acct[t].rejected = 0
  <2>1. acct[t] = [tier |-> DefaultTier(t), cap |-> Unset, spent |-> 0, accepted |-> 0, rejected |-> 0, log |-> 0]
    BY <1>1 DEF Account
  <2>2. 0 \in Logs /\ DefaultTier(t) \in Tiers
    BY <1>2, Consts DEF Logs, Tiers
  <2> QED BY <2>1, <2>2 DEF Money, Caps
<1>5. BillTypes
  <2>1. acct \in [GateTenants -> Money]
    BY <1>1, <1>4
  <2> QED BY <1>1, <1>3, <2>1 DEF BillTypes, Meter
<1>6. ASSUME NEW t \in GateTenants PROVE Covers(highest[t], acct[t]) /\ acct[t].spent = 0
  <2>1. highest[t] = hardCapUsd(acct[t])
    BY <1>1, <1>4 DEF hardCapUsd
  <2> QED BY <1>1, <1>3, <1>4, <2>1 DEF Covers
<1>7. DemoBooks
  <2>1. acct[Demo].spent - fees = 0 /\ highest[Demo] \in Nat \cup {Unlimited}
    BY <1>1, <1>3, <1>6, NamesDiffer
  <2>2. UnderCap(acct[Demo].spent - fees, highest[Demo])
    BY <2>1 DEF UnderCap
  <2> QED BY <1>1, <1>4, <1>6, <2>2, NamesDiffer DEF DemoBooks, Balanced
<1> QED BY <1>1, <1>4, <1>5, <1>6, <1>7 DEF BillInv, Spending, SessionsAre, TiersGiven, Given

\* A cause stays: grants are not taken back, and a paid session stays paid.
LEMMA GivenStays ==
    ASSUME NEW t, NEW tier, NEW grants, NEW grants2, NEW sessions, NEW sessions2, Given(t, tier, grants, sessions),
           grants \subseteq grants2,
           \A i \in DOMAIN sessions : /\ i \in DOMAIN sessions2 /\ sessions2[i].tenant = sessions[i].tenant
                                      /\ sessions2[i].tier = sessions[i].tier /\ (sessions[i].paid => sessions2[i].paid)
    PROVE  Given(t, tier, grants2, sessions2)
BY DEF Given

\* What a request does to the account it changes: the spending stays, the tier is the
\* one asked for, and the highest cap covers the new one.
LEMMA SetAllowanceIs ==
    ASSUME NEW a \in Money, NEW tier \in Tiers \cup {Unset}, NEW cap \in {0, Unset}, NEW high \in Nat \cup {Unlimited},
           NEW n, n = setAllowance(a, tier, cap), NEW top, top = Higher(high, hardCapUsd(n))
    PROVE  /\ n \in Money /\ n.spent = a.spent /\ n.accepted = a.accepted /\ n.rejected = a.rejected
           /\ n.tier = (IF tier = Unset THEN a.tier ELSE tier)
           /\ top \in Nat \cup {Unlimited} /\ Covers(top, n)
           /\ \A x \in Int : UnderCap(x, high) => UnderCap(x, top)
<1>2. PICK u \in Tiers : u = IF tier = Unset THEN a.tier ELSE tier
  BY DEF Money
<1>3. PICK c \in Caps : c = IF cap # Unset THEN cap ELSE IF tier # Unset THEN Unset ELSE a.cap
  BY DEF Money, Caps
<1>4. n = [a EXCEPT !.tier = u, !.cap = c]
  BY <1>2, <1>3 DEF setAllowance
<1>5. n \in Money /\ n.spent = a.spent /\ n.accepted = a.accepted /\ n.rejected = a.rejected /\ n.tier = u
  BY <1>4 DEF Money
<1>6. PICK limit \in Nat \cup {Unlimited} : limit = hardCapUsd(n)
  BY <1>5, CapIs
<1>7. top = Higher(high, limit)
  BY <1>6
<1>8. /\ top \in Nat \cup {Unlimited} /\ (top = Unlimited \/ (limit \in Nat /\ limit <= top))
      /\ \A x \in Int : UnderCap(x, high) => UnderCap(x, top)
  <2>1. CASE high = Unlimited \/ limit = Unlimited
    <3>1. top = Unlimited
      BY <1>7, <2>1 DEF Higher
    <3> QED BY <3>1 DEF UnderCap
  <2>2. CASE high # Unlimited /\ limit # Unlimited
    <3>1. high \in Nat /\ limit \in Nat /\ top = IF limit > high THEN limit ELSE high
      BY <1>7, <2>2 DEF Higher
    <3> QED BY <2>2, <3>1 DEF UnderCap
  <2> QED BY <2>1, <2>2
<1>9. Covers(top, n)
  BY <1>6, <1>8 DEF Covers
<1> QED BY <1>2, <1>5, <1>8, <1>9

LEMMA AdjustKeeps ==
    ASSUME BillInv, NEW t \in GateTenants, NEW tier \in Tiers \cup {Unset}, NEW cap \in {0, Unset}, Adjust(t, tier, cap)
    PROVE  /\ BillTypes' /\ Spending' /\ DemoBooks'
           /\ \A u \in GateTenants : acct'[u].tier = IF u = t /\ tier # Unset THEN tier ELSE acct[u].tier
<1>1. acct \in [GateTenants -> Money] /\ meter \in Meter /\ fees \in Nat /\ highest \in [GateTenants -> Nat \cup {Unlimited}]
  BY DEF BillInv, BillTypes
<1>2. PICK n : n = setAllowance(acct[t], tier, cap)
  OBVIOUS
<1>3. PICK top : top = Higher(highest[t], hardCapUsd(n))
  OBVIOUS
<1>4. /\ n \in Money /\ n.spent = acct[t].spent /\ n.accepted = acct[t].accepted /\ n.rejected = acct[t].rejected
      /\ n.tier = (IF tier = Unset THEN acct[t].tier ELSE tier)
      /\ top \in Nat \cup {Unlimited} /\ Covers(top, n) /\ \A x \in Int : UnderCap(x, highest[t]) => UnderCap(x, top)
  <2>1. acct[t] \in Money /\ highest[t] \in Nat \cup {Unlimited}
    BY <1>1
  <2>2. PICK a \in Money : a = acct[t]
    BY <2>1
  <2>3. PICK high \in Nat \cup {Unlimited} : high = highest[t]
    BY <2>1
  <2>4. n = setAllowance(a, tier, cap) /\ top = Higher(high, hardCapUsd(n))
    BY <1>2, <1>3, <2>2, <2>3
  <2>5. /\ n \in Money /\ n.spent = a.spent /\ n.accepted = a.accepted /\ n.rejected = a.rejected
        /\ n.tier = (IF tier = Unset THEN a.tier ELSE tier)
        /\ top \in Nat \cup {Unlimited} /\ Covers(top, n) /\ \A x \in Int : UnderCap(x, high) => UnderCap(x, top)
    BY ONLY <2>4, a \in Money, tier \in Tiers \cup {Unset}, cap \in {0, Unset}, high \in Nat \cup {Unlimited}, SetAllowanceIs
  <2> QED BY <2>2, <2>3, <2>5
<1>5. acct' = [acct EXCEPT ![t] = n] /\ highest' = [highest EXCEPT ![t] = top] /\ meter' = meter /\ fees' = fees
  BY <1>2, <1>3 DEF Adjust
<1>6. BillTypes'
  BY <1>1, <1>4, <1>5 DEF BillTypes
<1>7. \A u \in GateTenants : IF u = t THEN acct'[u] = n /\ highest'[u] = top ELSE acct'[u] = acct[u] /\ highest'[u] = highest[u]
  BY <1>1, <1>5
<1>8. Spending'
  <2> SUFFICES ASSUME NEW u \in GateTenants PROVE Covers(highest'[u], acct'[u]) /\ (u # Demo => acct'[u].spent = 0)
    BY DEF Spending
  <2>1. Covers(highest[u], acct[u]) /\ (u # Demo => acct[u].spent = 0)
    BY DEF BillInv, Spending
  <2> QED BY <1>4, <1>7, <2>1
<1>9. DemoBooks'
  <2>1. Demo \in GateTenants
    BY NamesDiffer
  <2>2. PICK a, h : a = acct'[Demo] /\ h = highest'[Demo]
    OBVIOUS
  <2>3. /\ a.spent = acct[Demo].spent /\ a.accepted = acct[Demo].accepted /\ a.rejected = acct[Demo].rejected
        /\ \A x \in Int : UnderCap(x, highest[Demo]) => UnderCap(x, h)
    BY <1>4, <1>7, <2>1, <2>2
  <2>4. Covers(h, a)
    BY <1>8, <2>1, <2>2 DEF Spending
  <2>5. acct[Demo].spent - fees \in Int
    BY <1>1, <2>1 DEF Money
  <2>6. Balanced([a |-> acct[Demo], m |-> meter, fees |-> fees], highest[Demo])
    BY DEF BillInv, DemoBooks
  <2>7. Balanced([a |-> a, m |-> meter, fees |-> fees], h)
    BY <2>3, <2>4, <2>5, <2>6 DEF Balanced
  <2> QED BY <1>5, <2>2, <2>7 DEF DemoBooks
<1>10. \A u \in GateTenants : acct'[u].tier = IF u = t /\ tier # Unset THEN tier ELSE acct[u].tier
  BY <1>4, <1>7
<1> QED BY <1>6, <1>8, <1>9, <1>10

\* The books over all the dispatches of a request.
LEMMA ObserveNthKeeps ==
    ASSUME NEW b \in Books, NEW high \in Nat \cup {Unlimited}, Balanced(b, high), NEW es, NEW n,
           NEW c, c = observeNth(b, es, n)
    PROVE  c \in Books /\ Balanced(c, high) /\ c.a.tier = b.a.tier /\ c.a.cap = b.a.cap
<1>1. CASE n <= Len(es)
  <2>1. c = observe(b, es[n])
    BY <1>1 DEF observeNth
  <2> QED BY <2>1, ObserveKeeps
<1>2. CASE ~(n <= Len(es))
  BY <1>2 DEF observeNth
<1> QED BY <1>1, <1>2

LEMMA BillDispatched ==
    ASSUME BillInv, NEW r \in GateRequests, Dispatched(r)
    PROVE  BillInv'
<1>1. /\ acct \in [GateTenants -> Money] /\ meter \in Meter /\ fees \in Nat
      /\ highest \in [GateTenants -> Nat \cup {Unlimited}] /\ Demo \in GateTenants
  BY NamesDiffer DEF BillInv, BillTypes
<1>2. PICK b0 \in Books : b0 = [a |-> acct[Demo], m |-> meter, fees |-> fees]
  BY <1>1 DEF Books
<1>3. PICK high \in Nat \cup {Unlimited} : high = highest[Demo]
  BY <1>1
<1>4. Balanced(b0, high)
  BY <1>2, <1>3 DEF BillInv, DemoBooks
<1>5. PICK es \in EventSeqs :
        LET b == observeAll(b0, es) IN acct' = [acct EXCEPT ![Demo] = b.a] /\ meter' = b.m /\ fees' = b.fees
  BY <1>2 DEF Dispatched
<1>6. PICK b1 : b1 = observeNth(b0, es, 1)
  OBVIOUS
<1>7. PICK b2 : b2 = observeNth(b1, es, 2)
  OBVIOUS
<1>8. PICK b3 : b3 = observeNth(b2, es, 3)
  OBVIOUS
<1>9. b1 \in Books /\ Balanced(b1, high) /\ b1.a.tier = b0.a.tier
  BY ONLY <1>4, <1>6, b0 \in Books, high \in Nat \cup {Unlimited}, ObserveNthKeeps
<1>10. b2 \in Books /\ Balanced(b2, high) /\ b2.a.tier = b1.a.tier
  BY ONLY <1>7, <1>9, high \in Nat \cup {Unlimited}, ObserveNthKeeps
<1>11. b3 \in Books /\ Balanced(b3, high) /\ b3.a.tier = b2.a.tier
  BY ONLY <1>8, <1>10, high \in Nat \cup {Unlimited}, ObserveNthKeeps
<1>12. acct' = [acct EXCEPT ![Demo] = b3.a] /\ meter' = b3.m /\ fees' = b3.fees
  <2>1. observeAll(b0, es) = b3
    BY <1>6, <1>7, <1>8 DEF observeAll
  <2> QED BY <1>5, <2>1
<1>13. highest' = highest /\ granted' = granted /\ checkouts' = checkouts
  BY DEF Dispatched
<1>14. b3.a \in Money /\ b3.m \in Meter /\ b3.fees \in Nat /\ b3.a.tier = acct[Demo].tier
       /\ b3 = [a |-> b3.a, m |-> b3.m, fees |-> b3.fees]
  BY <1>2, <1>9, <1>10, <1>11 DEF Books
<1>15. \A t \in GateTenants : acct'[t] = IF t = Demo THEN b3.a ELSE acct[t]
  BY <1>1, <1>12
<1>16. BillTypes'
  BY <1>1, <1>12, <1>13, <1>14 DEF BillTypes
<1>17. Spending'
  <2> SUFFICES ASSUME NEW t \in GateTenants PROVE Covers(highest'[t], acct'[t]) /\ (t # Demo => acct'[t].spent = 0)
    BY DEF Spending
  <2>1. Covers(highest[t], acct[t]) /\ (t # Demo => acct[t].spent = 0)
    BY DEF BillInv, Spending
  <2>2. Covers(high, b3.a)
    BY <1>11 DEF Balanced
  <2> QED BY <1>3, <1>13, <1>15, <2>1, <2>2
<1>18. DemoBooks'
  BY <1>1, <1>3, <1>11, <1>12, <1>13, <1>14, <1>15 DEF DemoBooks
<1>19. TiersGiven'
  BY <1>13, <1>14, <1>15 DEF BillInv, TiersGiven
<1> QED BY <1>13, <1>16, <1>17, <1>18, <1>19 DEF BillInv, SessionsAre

LEMMA BillAllowance ==
    ASSUME BillInv, NEW r \in GateRequests, handleBillingAllowance(r)
    PROVE  BillInv'
<1>1. PICK tier \in Tiers \cup {Unset}, cap \in {0, Unset} :
        Adjust(r.tenant, tier, cap) /\ granted' = IF tier = Unset THEN granted ELSE granted \cup {<<r.tenant, tier>>}
  BY DEF handleBillingAllowance, Tiers
<1>2. checkouts' = checkouts /\ r.tenant \in GateTenants
  BY GatewayAssumption DEF handleBillingAllowance
<1>3. /\ BillTypes' /\ Spending' /\ DemoBooks'
      /\ \A u \in GateTenants : acct'[u].tier = IF u = r.tenant /\ tier # Unset THEN tier ELSE acct[u].tier
  BY <1>1, <1>2, AdjustKeeps
<1>4. ASSUME NEW u \in GateTenants PROVE Given(u, acct'[u].tier, granted', checkouts')
  <2>1. CASE u = r.tenant /\ tier # Unset
    BY <1>1, <1>3, <2>1 DEF Given
  <2>2. CASE ~(u = r.tenant /\ tier # Unset)
    <3>1. Given(u, acct[u].tier, granted, checkouts) /\ granted \subseteq granted'
      BY <1>1 DEF BillInv, TiersGiven
    <3> QED BY <1>2, <1>3, <2>2, <3>1 DEF Given
  <2> QED BY <2>1, <2>2
<1> QED BY <1>2, <1>3, <1>4 DEF BillInv, SessionsAre, TiersGiven

LEMMA BillCheckout ==
    ASSUME BillInv, GuardTypes, NEW r \in GateRequests, handleBillingCheckout(r)
    PROVE  BillInv'
<1>1. PICK tier \in Tiers :
        checkouts' = Append(checkouts, [tenant |-> r.tenant, tier |-> tier, status |-> "open",
                                        paid |-> FALSE, expiresAt |-> clock + SessionTtl])
  BY DEF handleBillingCheckout, Tiers
<1>2. UNCHANGED billVars /\ r.tenant \in GateTenants /\ checkouts \in Seq(Session)
  BY GatewayAssumption DEF handleBillingCheckout, BillInv, SessionsAre
<1>3. PICK s \in Session : checkouts' = Append(checkouts, s)
  <2>1. clock + SessionTtl \in Nat
    BY Consts DEF GuardTypes
  <2> QED BY <1>1, <1>2, <2>1 DEF Session, Tiers
<1>4. checkouts' \in Seq(Session) /\ \A i \in DOMAIN checkouts : i \in DOMAIN checkouts' /\ checkouts'[i] = checkouts[i]
  BY <1>2, <1>3
<1>5. ASSUME NEW u \in GateTenants PROVE Given(u, acct[u].tier, granted, checkouts')
  BY <1>4 DEF Given, BillInv, TiersGiven
<1> QED BY <1>2, <1>4, <1>5 DEF BillInv, BillTypes, Spending, DemoBooks, SessionsAre, TiersGiven, billVars

LEMMA BillSettle ==
    ASSUME BillInv, NEW r \in GateRequests, handleBillingCheckoutSettle(r)
    PROVE  BillInv'
<1>1. checkouts \in Seq(Session)
  BY DEF BillInv, SessionsAre
<1>2. PICK i \in DOMAIN checkouts :
        /\ checkouts' = [checkouts EXCEPT ![i] = markSessionPaid(@)]
        /\ IF markSessionPaid(checkouts[i]).status = "complete"
           THEN Adjust(checkouts[i].tenant, checkouts[i].tier, Unset) /\ UNCHANGED granted
           ELSE UNCHANGED billVars
  BY DEF handleBillingCheckoutSettle
<1>3. PICK s \in Session : s = checkouts[i]
  BY <1>1
<1>4. PICK z : z = markSessionPaid(s)
  OBVIOUS
<1>5. /\ z \in Session /\ z.tenant = s.tenant /\ z.tier = s.tier /\ (s.paid => z.paid) /\ (z.status = "complete" => z.paid)
  <2>1. CASE clock >= s.expiresAt
    BY <1>4, <2>1 DEF markSessionPaid, Session
  <2>2. CASE ~(clock >= s.expiresAt)
    BY <1>4, <2>2 DEF markSessionPaid, Session
  <2> QED BY <2>1, <2>2
<1>6. /\ checkouts' \in Seq(Session) /\ DOMAIN checkouts' = DOMAIN checkouts /\ checkouts'[i] = z
      /\ \A j \in DOMAIN checkouts : j # i => checkouts'[j] = checkouts[j]
  BY <1>1, <1>2, <1>3, <1>4, <1>5
<1>7. \A j \in DOMAIN checkouts : /\ j \in DOMAIN checkouts' /\ checkouts'[j].tenant = checkouts[j].tenant
                                  /\ checkouts'[j].tier = checkouts[j].tier /\ (checkouts[j].paid => checkouts'[j].paid)
  BY <1>3, <1>5, <1>6
<1>8. \A u \in GateTenants : Given(u, acct[u].tier, granted, checkouts')
  BY <1>7, GivenStays DEF BillInv, TiersGiven
<1>9. CASE z.status = "complete"
  <2>1. Adjust(s.tenant, s.tier, Unset) /\ granted' = granted
    BY <1>2, <1>3, <1>4, <1>9
  <2>2. s.tenant \in GateTenants /\ s.tier \in Tiers /\ s.tier # Unset
    BY PlansAre DEF Session, Tiers
  <2>3. /\ BillTypes' /\ Spending' /\ DemoBooks'
        /\ \A u \in GateTenants : acct'[u].tier = IF u = s.tenant /\ s.tier # Unset THEN s.tier ELSE acct[u].tier
    BY <2>1, <2>2, AdjustKeeps
  <2>4. ASSUME NEW u \in GateTenants PROVE Given(u, acct'[u].tier, granted', checkouts')
    <3>1. CASE u = s.tenant
      <4>1. acct'[u].tier = s.tier
        BY <2>2, <2>3, <3>1
      <4>2. i \in DOMAIN checkouts' /\ checkouts'[i].tenant = u /\ checkouts'[i].tier = s.tier /\ checkouts'[i].paid
        BY <1>5, <1>6, <1>9, <3>1
      <4> QED BY <4>1, <4>2 DEF Given
    <3>2. CASE u # s.tenant
      BY <1>8, <2>1, <2>3, <3>2
    <3> QED BY <3>1, <3>2
  <2> QED BY <1>6, <2>3, <2>4 DEF BillInv, SessionsAre, TiersGiven
<1>10. CASE z.status # "complete"
  <2>1. UNCHANGED billVars
    BY <1>2, <1>3, <1>4, <1>10
  <2> QED BY <1>6, <1>8, <2>1 DEF BillInv, BillTypes, Spending, DemoBooks, SessionsAre, TiersGiven, billVars
<1> QED BY <1>9, <1>10

LEMMA BillStays ==
    ASSUME BillInv, UNCHANGED <<billVars, checkouts>>
    PROVE  BillInv'
BY DEF BillInv, BillTypes, Spending, DemoBooks, SessionsAre, TiersGiven, billVars

-----------------------------------------------------------------------------
GatewayInv == GuardInv /\ BillInv

LEMMA GatewayStep == GatewayInv /\ [GatewayNext]_gatewayVars => GatewayInv'
<1> SUFFICES ASSUME GatewayInv, [GatewayNext]_gatewayVars PROVE GatewayInv'
  OBVIOUS
<1> USE DEF GatewayInv
<1>1. CASE Tick
  BY <1>1, GuardTick, BillStays DEF Tick
<1>2. ASSUME NEW r \in GateRequests, Pass(r) PROVE GatewayInv'
  BY <1>2, GuardKeeps, BillStays DEF Pass
<1>3. ASSUME NEW r \in GateRequests, Dispatched(r) PROVE GatewayInv'
  BY <1>3, GuardKeeps, BillDispatched DEF Dispatched
<1>4. ASSUME NEW r \in GateRequests, handleBillingAllowance(r) PROVE GatewayInv'
  BY <1>4, GuardKeeps, BillAllowance DEF handleBillingAllowance
<1>5. ASSUME NEW r \in GateRequests, handleBillingCheckout(r) PROVE GatewayInv'
  BY <1>5, GuardKeeps, BillCheckout DEF handleBillingCheckout, GuardInv
<1>6. ASSUME NEW r \in GateRequests, handleBillingCheckoutSettle(r) PROVE GatewayInv'
  BY <1>6, GuardKeeps, BillSettle DEF handleBillingCheckoutSettle
<1>7. CASE UNCHANGED gatewayVars
  <2>1. UNCHANGED <<billVars, checkouts>> /\ UNCHANGED <<clock, guardVars>>
    BY <1>7 DEF gatewayVars
  <2>2. GuardInv'
    BY <2>1 DEF GuardInv, GuardTypes, KeyHolds, Counting, guardVars
  <2> QED BY <2>1, <2>2, BillStays
<1> QED BY <1>1, <1>2, <1>3, <1>4, <1>5, <1>6, <1>7 DEF GatewayNext

LEMMA GatewayInvIsEnough == GatewayInv => LimitsHold
<1> SUFFICES ASSUME GuardInv, BillInv PROVE LimitsHold
  BY DEF GatewayInv
<1>1. /\ acct \in [GateTenants -> Money] /\ meter \in Meter /\ fees \in Nat
      /\ highest \in [GateTenants -> Nat \cup {Unlimited}] /\ Demo \in GateTenants
  BY NamesDiffer DEF BillInv, BillTypes
<1>2. GatewayTypeOK
  <2>1. clock \in 0..MaxClock /\ hits \in 0..MaxHits
    BY DEF GuardInv, GuardTypes
  <2>2. ASSUME NEW l \in Limiters, NEW k \in DOMAIN buckets[l]
        PROVE  k \in Keys /\ buckets[l][k].count \in 1..MaxHits /\ buckets[l][k].resetAt \in Window..(MaxClock + Window)
    <3>1. k \in Keys /\ BucketOK(buckets[l][k], hits, clock)
      BY DEF GuardInv, GuardTypes
    <3> QED BY <2>1, <3>1, Consts DEF BucketOK
  <2>3. \A t \in GateTenants : acct[t].tier \in DOMAIN Plans /\ acct[t].log <= MaxOccurrences
    BY <1>1, Consts DEF Money, Tiers, Logs
  <2>4. \A i \in DOMAIN checkouts : checkouts[i].status \in {"open", "complete", "expired"}
    <3>1. checkouts \in Seq(Session)
      BY DEF BillInv, SessionsAre
    <3>2. \A i \in DOMAIN checkouts : checkouts[i] \in Session
      BY <3>1
    <3> QED BY <3>2 DEF Session
  <2> QED BY <2>1, <2>2, <2>3, <2>4 DEF GatewayTypeOK, Keys
<1>3. TwiceTheLimit
  BY GuardInvIsEnough
<1>4. SpendUnderACap
  <2> SUFFICES ASSUME NEW t \in GateTenants
               PROVE  UnderCap(acct[t].spent - (IF t = Demo THEN fees ELSE 0), highest[t])
    BY DEF SpendUnderACap
  <2>1. CASE t = Demo
    BY <2>1 DEF BillInv, DemoBooks, Balanced
  <2>2. CASE t # Demo
    <3>1. acct[t].spent - (IF t = Demo THEN fees ELSE 0) = 0 /\ highest[t] \in Nat \cup {Unlimited}
      BY <1>1, <2>2 DEF BillInv, Spending
    <3> QED BY <3>1 DEF UnderCap
  <2> QED BY <2>1, <2>2
<1>5. BooksAgree
  BY DEF BillInv, DemoBooks, Balanced, BooksAgree
<1>6. TierWasGiven
  BY DEF BillInv, TiersGiven, Given, TierWasGiven
<1> QED BY <1>2, <1>3, <1>4, <1>5, <1>6 DEF LimitsHold

\* Whatever requests come, and when: no key gets more than twice a limiter's limit
\* into one of its windows, no tenant spends more than the largest cap it had, the
\* meter's books are those of the account it bills, and no tier is there without a
\* cause (gateway/middleware.ts and billing/, and the observer of apex/router.ts).
THEOREM LimitsAreKept == GatewaySpec => []LimitsHold
<1>1. GatewayInit => GatewayInv
  BY GuardInitInv, BillInit DEF GatewayInv
<1> QED BY <1>1, GatewayStep, GatewayInvIsEnough, PTL DEF GatewaySpec
=============================================================================
