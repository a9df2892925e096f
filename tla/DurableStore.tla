---------------------------- MODULE DurableStore ----------------------------
(* The Prisma repositories of hdv-foundation/persistence: projections in memory
   answer every read, one serialised queue mirrors every write to Postgres, and
   a restart loads the projections again (hydrate).  With them the callers that
   decide on what they read: the ledger of Apex with its counted row ids,
   AuthService, the creator personas, the companion's memory.

   Every call of a repository is synchronous and one step; the queue and the
   process's end run between any two of them. *)
EXTENDS Naturals, Sequences, FiniteSets, SequencesExt, FiniteSetsExt

CONSTANTS
  Emails, Packets, PersonaIds, Creators, Companions, \* what callers choose
  NoValue,      \* a column without a unique constraint
  Calls,        \* bound on repository calls
  Crashes,      \* bound on process ends, orderly or not
  Faults        \* bound on database errors

ASSUME StoreAssumption ==
  /\ Calls \in Nat /\ Crashes \in Nat /\ Faults \in Nat
  /\ NoValue \notin Emails \cup Packets \cup PersonaIds

VARIABLES
  rows,      \* rows[t]: the projection of table t, a set of rows
  db,        \* db[t]: table t in Postgres
  writes,    \* WriteQueue.queue: writes not yet run, in order
  phase,     \* "down", "up" or "closing"
  ledgerSeq, \* InMemoryLedger.seq
  calls, ends, faults, \* how much of each bound is used; calls also numbers fresh ids
  failed,    \* tables whose write an error has dropped since the last boot
  lost,      \* keys of deletes that never reached Postgres (history)
  loggedOut  \* session tokens deleted by logout (history)

storeVars == <<rows, db, writes, phase, ledgerSeq, calls, ends, faults, failed, lost, loggedOut>>

Tables == {"requestLog", "nodeIdentity", "securityAudit", "intentDocument", "user", "session",
           "companionMemory", "creatorProfile", "creatorPersona", "likenessUsageEvent"}
StoreRow(key, unique, value) == [key |-> key, unique |-> unique, value |-> value]
RowKeys(table) == {r.key : r \in table}

-----------------------------------------------------------------------------
(* What a write does to a table. *)

Without(table, key) == {r \in table : r.key # key}
Effect(table, w) == IF w.op = "delete" THEN Without(table, w.row.key)
                    ELSE Without(table, w.row.key) \cup {w.row}
Clashes(table, row) == \E r \in table : r.unique = row.unique /\ r.unique # NoValue

(* Postgres refuses a second row with the primary key or the unique column. *)
Refused(w) == \/ w.op = "create" /\ (w.row.key \in RowKeys(db[w.table]) \/ Clashes(db[w.table], w.row))
              \/ w.op = "upsert" /\ Clashes(Without(db[w.table], w.row.key), w.row)

Write(op, t, row) == [op |-> op, table |-> t, row |-> row]
Enqueue(ws) == writes' = writes \o ws

(* One call of a repository: it changes the projection and queues its writes. *)
Call == phase = "up" /\ calls < Calls /\ calls' = calls + 1
Kept == UNCHANGED <<db, phase, ends, faults, failed, lost>>
Mirror(op, t, row) ==
  /\ Call
  /\ rows' = [rows EXCEPT ![t] = Effect(@, Write(op, t, row))]
  /\ Enqueue(<<Write(op, t, row)>>)
  /\ Kept
(* An append pushes without looking for the key. *)
Push(t, row) ==
  /\ Call
  /\ rows' = [rows EXCEPT ![t] = @ \cup {row}]
  /\ Enqueue(<<Write("create", t, row)>>)
  /\ Kept

Fresh == <<"id", calls>>
Same == UNCHANGED <<ledgerSeq, loggedOut>>

-----------------------------------------------------------------------------
(* The callers. *)

LogRequest(p) ==
  /\ Push("requestLog", StoreRow(<<"led", ledgerSeq + 1>>, p, NoValue))
  /\ ledgerSeq' = ledgerSeq + 1 /\ UNCHANGED loggedOut

RecordAudit == Push("securityAudit", StoreRow(Fresh, NoValue, NoValue)) /\ Same

UpsertNode(n) == Mirror("upsert", "nodeIdentity", StoreRow(n, NoValue, Fresh)) /\ Same
SaveIntent == Mirror("upsert", "intentDocument", StoreRow(Fresh, NoValue, NoValue)) /\ Same

UserOf(e) == {u \in rows["user"] : u.unique = e}

Signup_SessionFirst(e) ==
  /\ Call /\ UserOf(e) = {}
  /\ LET user == StoreRow(Fresh, e, NoValue)
         session == StoreRow(Fresh, NoValue, Fresh) IN
     /\ rows' = [rows EXCEPT !["user"] = @ \cup {user}, !["session"] = @ \cup {session}]
     /\ Enqueue(<<Write("create", "session", session), Write("create", "user", user)>>)
  /\ Kept /\ Same

(* signup: refused for a known address, else a user and a session. *)
Signup(e) ==
  /\ Call /\ UserOf(e) = {}
  /\ LET user == StoreRow(Fresh, e, NoValue)
         session == StoreRow(Fresh, NoValue, Fresh) IN
     /\ rows' = [rows EXCEPT !["user"] = @ \cup {user}, !["session"] = @ \cup {session}]
     /\ Enqueue(<<Write("create", "user", user), Write("create", "session", session)>>)
  /\ Kept /\ Same

Login(e) == \E u \in UserOf(e) : Mirror("create", "session", StoreRow(Fresh, NoValue, u.key)) /\ Same

(* logout, and the lazy reaping of an expired session. *)
Logout(s) == /\ Mirror("delete", "session", s)
             /\ loggedOut' = loggedOut \cup {s.key} /\ UNCHANGED ledgerSeq

Remember(c) == Mirror("upsert", "companionMemory", StoreRow(c, NoValue, Fresh)) /\ Same
SaveProfile(c) == Mirror("upsert", "creatorProfile", StoreRow(c, NoValue, Fresh)) /\ Same

OwnerRow(p) == {r \in rows["creatorPersona"] : r.unique = p}
ClaimedByOther(c, p) == \E r \in OwnerRow(p) : r.value # c

(* A persona id belongs to the creator who submitted it first; others get 409. *)
SubmitPersona(c, p) ==
  /\ ~ClaimedByOther(c, p)
  /\ LET key == IF OwnerRow(p) = {} THEN Fresh ELSE (CHOOSE r \in OwnerRow(p) : TRUE).key IN
     Mirror("upsert", "creatorPersona", StoreRow(key, p, c)) /\ Same

AccrueUsage(p) == OwnerRow(p) # {} /\ Push("likenessUsageEvent", StoreRow(Fresh, NoValue, p)) /\ Same

-----------------------------------------------------------------------------
(* The queue: one write after the other; an error is captured, not retried. *)

Head1 == Head(writes)
Dropped(w) == IF w.op = "delete" THEN {w.row.key} ELSE {}

RunWrite ==
  /\ writes # <<>> /\ phase # "down"
  /\ writes' = Tail(writes)
  /\ IF Refused(Head1)
     THEN failed' = failed \cup {Head1.table} /\ UNCHANGED db
     ELSE db' = [db EXCEPT ![Head1.table] = Effect(@, Head1)] /\ UNCHANGED failed
  /\ UNCHANGED <<rows, phase, ledgerSeq, calls, ends, faults, lost, loggedOut>>

WriteFails ==
  /\ writes # <<>> /\ phase # "down" /\ faults < Faults
  /\ writes' = Tail(writes) /\ failed' = failed \cup {Head1.table}
  /\ faults' = faults + 1 /\ lost' = lost \cup Dropped(Head1)
  /\ UNCHANGED <<rows, db, phase, ledgerSeq, calls, ends, loggedOut>>

(* SIGTERM: no more requests, then flush, then exit. *)
Shutdown == phase = "up" /\ phase' = "closing"
            /\ UNCHANGED <<rows, db, writes, ledgerSeq, calls, ends, faults, failed, lost, loggedOut>>

Down == phase' = "down" /\ ends' = ends + 1
Exit == /\ phase = "closing" /\ writes = <<>> /\ Down
        /\ UNCHANGED <<rows, db, writes, ledgerSeq, calls, faults, failed, lost, loggedOut>>
Crash ==
  /\ phase # "down" /\ ends < Crashes /\ Down /\ writes' = <<>>
  /\ lost' = lost \cup UNION {Dropped(writes[i]) : i \in DOMAIN writes}
  /\ UNCHANGED <<rows, db, ledgerSeq, calls, faults, failed, loggedOut>>

(* hydrate(), then a new ledger that counts from zero. *)
Boot == /\ phase = "down" /\ ends < Crashes
        /\ rows' = db /\ phase' = "up" /\ ledgerSeq' = 0 /\ failed' = {}
        /\ UNCHANGED <<db, writes, calls, ends, faults, lost, loggedOut>>

StoreInit ==
  /\ rows = [t \in Tables |-> {}] /\ db = rows /\ writes = <<>> /\ phase = "up"
  /\ ledgerSeq = 0 /\ calls = 0 /\ ends = 0 /\ faults = 0
  /\ failed = {} /\ lost = {} /\ loggedOut = {}

StoreNext ==
  \/ \E p \in Packets : LogRequest(p)
  \/ RecordAudit
  \/ \E c \in Companions : Remember(c) \/ UpsertNode(c)
  \/ SaveIntent
  \/ \E e \in Emails : Signup(e) \/ Login(e)
  \/ \E s \in rows["session"] : Logout(s)
  \/ \E c \in Creators : SaveProfile(c) \/ \E p \in PersonaIds : SubmitPersona(c, p)
  \/ \E p \in PersonaIds : AccrueUsage(p)
  \/ RunWrite \/ WriteFails \/ Shutdown \/ Exit \/ Crash \/ Boot
StoreSpec == StoreInit /\ [][StoreNext]_storeVars

-----------------------------------------------------------------------------
StoreTypeOK ==
  /\ DOMAIN rows = Tables /\ DOMAIN db = Tables
  /\ \A t \in Tables : \A r \in rows[t] \cup db[t] : DOMAIN r = {"key", "unique", "value"}
  /\ \A i \in DOMAIN writes : writes[i].op \in {"create", "upsert", "delete"} /\ writes[i].table \in Tables
  /\ phase \in {"down", "up", "closing"} /\ failed \subseteq Tables
  /\ ledgerSeq \in 0..Calls /\ calls \in 0..Calls /\ faults \in 0..Faults
  /\ phase = "down" => writes = <<>>

(* What the projection shows of a table and Postgres does not yet hold is
   exactly what waits in the queue, unless an error has dropped a write of that
   table: reads served from memory are never further from the database than the
   queue is long (the write-through of prisma_repos.ts).  A row is there after the
   queue if it is in the table or written, and no later write is about its key. *)
LeftAlone(ws, t, key, i) == \A j \in DOMAIN ws : j > i /\ ws[j].table = t => ws[j].row.key # key
Replayed(t, table, ws) ==
  {r \in table : LeftAlone(ws, t, r.key, 0)}
  \cup {ws[i].row : i \in {j \in DOMAIN ws : /\ ws[j].table = t /\ ws[j].op # "delete"
                                             /\ LeftAlone(ws, t, ws[j].row.key, j)}}
After(t) == Replayed(t, db[t], writes)
QueueClosesTheGap == phase # "down" => \A t \in Tables \ failed : t = "requestLog" \/ After(t) = rows[t]

(* As long as no database error was met, a session in Postgres belongs to a
   user in Postgres, wherever a crash cut the two writes of a sign-up: the queue
   is first in, first out. *)
SessionsHaveUsers == faults = 0 => \A s \in db["session"] : s.value \in RowKeys(db["user"])

(* A logged-out token is accepted again only after its delete was lost to a
   crash or an error: no order of queue, restart and hydrate revives it else. *)
RevivedOnlyByLoss ==
  phase # "down" => \A s \in rows["session"] : s.key \in loggedOut => s.key \in lost

(* No address has two accounts and no persona id two creators, in memory and in
   Postgres, across restarts that lose writes: both are tested on the
   projection alone. *)
OneHolder(table) == \A r, s \in table : r.unique = s.unique => r = s
NoDoubleClaims == \A t \in {"user", "creatorPersona"} : OneHolder(rows[t]) /\ OneHolder(db[t])

\* What the write-behind store keeps, through crashes, restarts and lost writes.
StoreSurvives ==
  /\ StoreTypeOK
  /\ QueueClosesTheGap
  /\ SessionsHaveUsers
  /\ RevivedOnlyByLoss
  /\ NoDoubleClaims

=============================================================================
