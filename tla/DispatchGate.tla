---------------------------- MODULE DispatchGate ----------------------------
(* Apex and Knoll of hdv-foundation as the gateway wires them: every packet goes
   through gatedDispatch, Knoll's intercept decides, its scorer may freeze the
   system, and the handlers of APEX, DREAM and VISION dispatch again from within.
   One thread: the handlers under way form a stack, whose top moves. *)
EXTENDS Integers, Sequences, FiniteSets, SequencesExt

CONSTANTS
  Inputs,        \* packets that callers dispatch
  Results,       \* contents of what DREAM and VISION send back
  Weight,        \* Weight[c]: what content c adds to the anomaly score
  Wired,         \* roles with a handler
  MaxDispatches, \* bound on dispatches, nested ones included
  RateLimit      \* packets per source and window

VARIABLES
  frames,     \* handlers under way: [id, packet, sent], the innermost last
  dispatched, \* dispatches so far; they number the packets
  ledger,     \* rows of the billing ledger: [id, status]
  audit,      \* records of the security audit log: [id, outcome]
  frozen, cause, quarantine, \* SystemFreezeController; cause is a packet's id
  bucket, recent, reputation \* of each source: rate bucket, scorer's window, reputation in hundredths

Triad == {"HOPE", "VISION", "DREAM"}
Roles == Triad \cup {"APEX", "KNOLL"}
GatePackets ==
  [src : Roles, dst : Roles, suggested : Roles \cup {"none"}, shape : {"ok", "altered", "broken"},
   content : DOMAIN Weight, duty : {"none", "GOVERNANCE", "EXECUTION", "CREATION"}]
ASSUME GateAssumption ==
  /\ Inputs \subseteq GatePackets /\ Results \subseteq DOMAIN Weight
  /\ MaxDispatches \in Nat

gateVars == <<frames, dispatched, ledger, audit, frozen, cause, quarantine, bucket, recent, reputation>>

SOVEREIGN == 0  \* the cause of a freeze that is no packet's

-----------------------------------------------------------------------------
(* The laws, and the score in ten-thousandths. *)

OWN == [HOPE |-> "GOVERNANCE", VISION |-> "EXECUTION", DREAM |-> "CREATION"]

lawNoDirectDreamVision(p) == {p.src, p.dst} # {"DREAM", "VISION"}
lawValidEndpoints(p) == p.src \in Roles /\ p.dst \in Roles /\ p.src # p.dst
lawNoKnollForgery(p) == p.src # "KNOLL"
lawHopeCannotCommand(p) == p.src = "HOPE" => p.dst \notin {"VISION", "DREAM"}
lawNoMaliciousIntent(p) == p.content # "malicious"
lawPrimaryTriadDuty(p) == p.dst \in Triad => p.duty \in {"none", OWN[p.dst]}
Lawful(p) == /\ lawValidEndpoints(p) /\ lawNoDirectDreamVision(p) /\ lawNoKnollForgery(p)
             /\ lawHopeCannotCommand(p) /\ lawNoMaliciousIntent(p) /\ lawPrimaryTriadDuty(p)

endpointRisk(p) ==
  CASE <<p.src, p.dst>> = <<"APEX", "VISION">> -> 900
    [] <<p.src, p.dst>> \in {<<"APEX", "DREAM">>, <<"VISION", "HOPE">>, <<"VISION", "APEX">>} -> 300
    [] <<p.src, p.dst>> \in {<<"APEX", "HOPE">>, <<"HOPE", "APEX">>} -> 150
    [] <<p.src, p.dst>> \in {<<"DREAM", "HOPE">>, <<"DREAM", "APEX">>} -> 225
    [] OTHER -> 375
Within(low, n, high) == IF n < low THEN low ELSE IF n > high THEN high ELSE n
score(p) == Weight[p.content] + endpointRisk(p) + 50 * Within(0, recent[p.src] + 1, 20) + 10 * reputation[p.src]
isAnomalous(p) == score(p) >= 3400
feedback(p) == Within(0, reputation[p.src] + (IF isAnomalous(p) THEN 25 ELSE IF score(p) >= 2000 THEN 5 ELSE -2), 100)

checkRate(s) == bucket[s] < RateLimit

-----------------------------------------------------------------------------
(* gatedDispatch, up to the handler: one of these happens to a packet.  `under`
   is the stack the handler would run on. *)

Row(status) == Append(ledger, [id |-> dispatched + 1, status |-> status])
Audited(outcome) == Append(audit, [id |-> dispatched + 1, outcome |-> outcome])
Scored(p) == recent' = [recent EXCEPT ![p.src] = @ + 1] /\ reputation' = [reputation EXCEPT ![p.src] = feedback(p)]
Counted(p) == bucket' = [bucket EXCEPT ![p.src] = @ + 1]
Calm == UNCHANGED <<frozen, cause, quarantine>>
Closed_Quarantine(p, token) == frozen /\ dispatched + 1 \in quarantine
Closed(p, token) == frozen /\ ~token

(* Refused before Knoll is asked: no audit record. *)
Refused(p, token, under) ==
  /\ p.shape = "broken" \/ Closed(p, token)
  /\ ledger' = Row("BLOCKED") /\ frames' = under
  /\ UNCHANGED <<audit, bucket, recent, reputation>> /\ Calm

Tampered(p, token, under) ==
  /\ p.shape = "altered" /\ ~Closed(p, token)
  /\ ledger' = Row("BLOCKED") /\ audit' = Audited("BLOCKED") /\ frames' = under
  /\ UNCHANGED <<bucket, recent, reputation>> /\ Calm

(* Over the rate, or against a law: counted, not scored. *)
Denied(p, token, under) ==
  /\ p.shape = "ok" /\ ~Closed(p, token) /\ (checkRate(p.src) => ~Lawful(p))
  /\ ledger' = Row("BLOCKED") /\ audit' = Audited("BLOCKED") /\ frames' = under /\ Counted(p)
  /\ UNCHANGED <<recent, reputation>> /\ Calm

Passes(p, token) == p.shape = "ok" /\ ~Closed(p, token) /\ checkRate(p.src) /\ Lawful(p)

triggerFreeze_LastWins(id) == frozen' = TRUE /\ cause' = id
triggerFreeze(id) == frozen' = TRUE /\ cause' = IF frozen THEN cause ELSE id
Anomaly(p, token, under) ==
  /\ Passes(p, token) /\ isAnomalous(p)
  /\ triggerFreeze(dispatched + 1) /\ quarantine' = quarantine \cup {dispatched + 1}
  /\ ledger' = Row("BLOCKED") /\ audit' = Audited("BLOCKED") /\ frames' = under /\ Counted(p) /\ Scored(p)

Delivered(p, token, under) ==
  /\ Passes(p, token) /\ ~isAnomalous(p)
  /\ audit' = Audited("ALLOWED") /\ Counted(p) /\ Scored(p) /\ Calm
  /\ IF p.dst \in Wired
     THEN frames' = Append(under, [id |-> dispatched + 1, packet |-> p, token |-> token, sent |-> FALSE]) /\ UNCHANGED ledger
     ELSE frames' = under /\ ledger' = Row("FAILED")

dispatch(p, token, under) ==
  /\ dispatched < MaxDispatches /\ dispatched' = dispatched + 1
  /\ \/ Refused(p, token, under) \/ Tampered(p, token, under) \/ Denied(p, token, under)
     \/ Anomaly(p, token, under) \/ Delivered(p, token, under)

-----------------------------------------------------------------------------
(* Callers: with no handler under way, with or without an override token. *)
Submit(p, token) == frames = <<>> /\ dispatch(p, token, frames)

Top == Last(frames)
Sent == Append(Front(frames), [Top EXCEPT !.sent = TRUE])
(* What the handler on top sends through Apex, without any token. *)
forward == [Top.packet EXCEPT !.src = "APEX", !.dst = Top.packet.suggested]
report(content) ==
  [src |-> Top.packet.dst, dst |-> "HOPE", suggested |-> "none", shape |-> "ok", content |-> content, duty |-> "none"]
Owes == /\ ~Top.sent
        /\ \/ Top.packet.dst = "APEX" /\ Top.packet.suggested \in {"DREAM", "VISION"}
           \/ Top.packet.dst \in {"DREAM", "VISION"}

sendViaApex ==
  /\ frames # <<>> /\ Owes
  /\ IF Top.packet.dst = "APEX" THEN dispatch(forward, FALSE, Sent)
     ELSE \E content \in Results : dispatch(report(content), FALSE, Sent)

(* The handler ends; what became of the packet it sent makes no difference. *)
Settle(status) ==
  /\ ledger' = Append(ledger, [id |-> Top.id, status |-> status]) /\ frames' = Front(frames)
  /\ UNCHANGED <<dispatched, audit, frozen, cause, quarantine, bucket, recent, reputation>>
HandlerReturns == frames # <<>> /\ ~Owes /\ Settle("SUCCESS")
HandlerThrows_Escapes == /\ frames # <<>> /\ Top.packet.dst \in {"DREAM", "VISION"} /\ frames' = Front(frames)
                         /\ UNCHANGED <<dispatched, ledger, audit, frozen, cause, quarantine, bucket, recent, reputation>>
HandlerThrows == frames # <<>> /\ Top.packet.dst \in {"DREAM", "VISION"} /\ Settle("FAILED")

(* A pause as long as the rate windows. *)
Pause(s) ==
  /\ frames = <<>> /\ bucket' = [bucket EXCEPT ![s] = 0] /\ recent' = [recent EXCEPT ![s] = 0]
  /\ UNCHANGED <<frames, dispatched, ledger, audit, frozen, cause, quarantine, reputation>>

(* The verified override of the Holloway layer, between two dispatches. *)
SetFreeze(on) ==
  /\ frames = <<>>
  /\ IF on THEN triggerFreeze(SOVEREIGN) ELSE frozen' = FALSE /\ cause' = SOVEREIGN
  /\ UNCHANGED <<frames, dispatched, ledger, audit, quarantine, bucket, recent, reputation>>

GateInit ==
  /\ frames = <<>> /\ dispatched = 0 /\ ledger = <<>> /\ audit = <<>>
  /\ frozen = FALSE /\ cause = SOVEREIGN /\ quarantine = {}
  /\ bucket = [s \in Roles |-> 0] /\ recent = bucket /\ reputation = bucket

GateNext ==
  \/ \E p \in Inputs, token \in BOOLEAN : Submit(p, token)
  \/ sendViaApex \/ HandlerReturns \/ HandlerThrows
  \/ \E s \in Roles : bucket[s] > 0 /\ Pause(s)

GateSpec == GateInit /\ [][GateNext \/ \E on \in BOOLEAN : SetFreeze(on)]_gateVars

-----------------------------------------------------------------------------
Ids(log) == {log[i].id : i \in DOMAIN log}
Entries(log, id) == {i \in DOMAIN log : log[i].id = id}
Open == {frames[i].id : i \in DOMAIN frames}

GateTypeOK ==
  /\ Len(frames) <= 3 /\ dispatched \in 0..MaxDispatches
  /\ Ids(ledger) \cup Ids(audit) \cup Open \cup quarantine \subseteq 1..dispatched
  /\ cause \in 0..dispatched
  /\ \A s \in Roles : bucket[s] \in Nat /\ recent[s] \in Nat /\ reputation[s] \in 0..100

(* Every dispatch ends with exactly one row, also when its handler throws or a
   dispatch nested in it is refused, and has none while its handler runs. *)
OneRowEach ==
  \A id \in 1..dispatched : IF id \in Open THEN Entries(ledger, id) = {}
                           ELSE \E i \in DOMAIN ledger : Entries(ledger, id) = {i}

(* The ledger and the audit log tell one story: a handler runs only for a packet
   whose one record is ALLOWED; a packet with a BLOCKED record has a BLOCKED row;
   only what was refused before Knoll has a row and no record. *)
LedgerMatchesAudit ==
  \A id \in 1..dispatched :
    /\ \A i, j \in Entries(audit, id) : i = j
    /\ \A i \in Entries(ledger, id), j \in Entries(audit, id) :
         ledger[i].status = "BLOCKED" <=> audit[j].outcome = "BLOCKED"
    /\ id \in Open => \E j \in Entries(audit, id) : audit[j].outcome = "ALLOWED"
    /\ (\E i \in Entries(ledger, id) : ledger[i].status # "BLOCKED") => id \in Ids(audit)

(* While the system is frozen no handler starts without an override token, also
   not one that a handler under way asks for: the freeze may begin in the middle
   of a chain. *)
StillWhileFrozen == [][frozen /\ Len(frames') > Len(frames) => Last(frames').token]_gateVars

(* DREAM and VISION are given packets of APEX and of nobody else, and HOPE none
   of its own, whatever callers submit and handlers send: five laws together. *)
OnlyApexCommands ==
  \A i \in DOMAIN frames : LET p == frames[i].packet IN
    p.dst \in {"DREAM", "VISION"} => p.src = "APEX" /\ p.duty \in {"none", OWN[p.dst]}

(* A freeze points at the packet that began it: quarantined, blocked, and not
   replaced by a later anomaly until the freeze is lifted. *)
FreezeHasCause ==
  frozen /\ cause # SOVEREIGN => cause \in quarantine /\ \E j \in Entries(audit, cause) : audit[j].outcome = "BLOCKED"
FirstCauseStays == frozen /\ frozen' => cause' = cause  \* of a step

(* A packet that raised an anomaly never reaches a handler and never pays. *)
AnomalyNeverRuns ==
  \A id \in quarantine : id \notin Open /\ \A i \in Entries(ledger, id) : ledger[i].status = "BLOCKED"

\* The gate and its two logs, through handlers that dispatch again, throw, or find
\* the system frozen.
GateHolds ==
  /\ GateTypeOK
  /\ OneRowEach
  /\ LedgerMatchesAudit
  /\ OnlyApexCommands
  /\ FreezeHasCause
  /\ AnomalyNeverRuns
=============================================================================
