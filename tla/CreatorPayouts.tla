--------------------------- MODULE CreatorPayouts ---------------------------
(* hdv-foundation/creator with the live provider of payout_stripe_live.ts: one
   creator's profile row, the requests that apply, ask for verification and ask
   for payouts, Stripe's own sessions and accounts, and its webhook.  A request
   may stop at each await, and any call of Stripe may fail; events may be
   delivered late, in any order and more than once. *)
EXTENDS Naturals, FiniteSets

CONSTANTS
  PayRequests,   \* requests for a verification or a payout
  MaxSessions,   \* bound on verification sessions
  MaxAccounts,   \* bound on Connect accounts
  None           \* an absent column, id or row

Caches == {"pending", "verified", "unverified"}
ProfileRow == [account : Nat \cup {None}, session : Nat \cup {None}, cache : Caches \cup {None}]

ASSUME PayAssumption ==
  /\ MaxSessions \in Nat /\ MaxAccounts \in Nat
  /\ None \notin Nat \cup Caches /\ None \notin ProfileRow

VARIABLES
  profile,   \* the CreatorProfile row, or None
  sessions,  \* Stripe Identity: status of each session made
  accounts,  \* Stripe Connect: payouts_enabled of each account made
  mail,      \* webhook events Stripe may deliver, again and again
  request,   \* the requests
  transfers, \* the sessions on which money was moved
  excused    \* a second account may exist (history)

payVars == <<profile, sessions, accounts, mail, request, transfers, excused>>

Nothing == [account |-> None, session |-> None, cache |-> None]
OnFile == IF profile = None THEN Nothing ELSE profile
Else(new, old) == IF new = None THEN old ELSE new
\* Of the row it read a request keeps what it will use: the cache, or the two ids.
NoRequest == [at |-> "idle", cache |-> None, account |-> None, session |-> None]
At(r, pc) == request' = [request EXCEPT ![r].at = pc]
Answered(r) == request' = [request EXCEPT ![r] = NoRequest]
Verifying == {r \in PayRequests : request[r].at \in {"account", "session", "link"}}

(* persistProfile: what the caller read before, with its own columns over it. *)
persistProfile(read, account, session, cache) ==
  profile' = [account |-> Else(account, read.account), session |-> Else(session, read.session),
              cache |-> Else(cache, read.cache)]

(* POST /v1/creator/apply writes a whole record, of which these columns are not
   part. *)
handleCreatorApply ==
  /\ profile' = Nothing
  /\ excused' = (excused \/ OnFile.account # None \/ Verifying # {})
  /\ UNCHANGED <<sessions, accounts, mail, request, transfers>>

requestVerification(r) ==
  /\ request[r].at = "idle"
  /\ request' = [request EXCEPT ![r] = [at |-> IF OnFile.account = None THEN "account" ELSE "session",
                                        cache |-> OnFile.cache, account |-> OnFile.account, session |-> None]]
  /\ excused' = (excused \/ Verifying # {})
  /\ UNCHANGED <<profile, sessions, accounts, mail, transfers>>

NewId(table) == Cardinality(DOMAIN table) + 1
Made(table, value) == [i \in DOMAIN table \cup {NewId(table)} |-> IF i = NewId(table) THEN value ELSE table[i]]

CreateAccount(r) ==
  /\ request[r].at = "account" /\ NewId(accounts) <= MaxAccounts
  /\ accounts' = Made(accounts, FALSE)
  /\ request' = [request EXCEPT ![r].account = NewId(accounts), ![r].at = "session"]
  /\ UNCHANGED <<profile, sessions, mail, transfers, excused>>

CreateSession(r) ==
  /\ request[r].at = "session" /\ NewId(sessions) <= MaxSessions
  /\ sessions' = Made(sessions, "requires_input")
  /\ request' = [request EXCEPT ![r].session = NewId(sessions), ![r].at = "link"]
  /\ UNCHANGED <<profile, accounts, mail, transfers, excused>>

(* accountLinks.create has answered: the profile is written from the old read. *)
Persist(r) ==
  /\ request[r].at = "link"
  /\ persistProfile(Nothing, request[r].account, request[r].session, Else(request[r].cache, "pending"))
  /\ Answered(r)
  /\ UNCHANGED <<sessions, accounts, mail, transfers, excused>>

(* requestPayout: ids from the profile, both rechecked live, then a transfer. *)
requestPayout(r) ==
  /\ request[r].at = "idle" /\ OnFile.account # None /\ OnFile.session # None
  /\ request' = [request EXCEPT ![r] = [at |-> "recheck", cache |-> None,
                                        account |-> OnFile.account, session |-> OnFile.session]]
  /\ UNCHANGED <<profile, sessions, accounts, mail, transfers, excused>>

Cleared_ByCache(r) == OnFile.cache = "verified" /\ accounts[request[r].account]
Cleared(r) == sessions[request[r].session] = "verified" /\ accounts[request[r].account]
Recheck(r) ==
  /\ request[r].at = "recheck" /\ IF Cleared(r) THEN At(r, "transfer") ELSE Answered(r)
  /\ UNCHANGED <<profile, sessions, accounts, mail, transfers, excused>>
Transfer(r) ==
  /\ request[r].at = "transfer" /\ Answered(r)
  /\ transfers' = transfers \cup {request[r].session}
  /\ UNCHANGED <<profile, sessions, accounts, mail, excused>>

StripeFails(r) ==
  /\ request[r].at \in {"account", "session", "link", "recheck", "transfer"} /\ Answered(r)
  /\ excused' = (excused \/ r \in Verifying)
  /\ UNCHANGED <<profile, sessions, accounts, mail, transfers>>

(* Stripe's side: a failed attempt leaves a session as it was and is reported too. *)
SessionMoves(s, status) ==
  /\ sessions[s] = "requires_input"
  /\ sessions' = [sessions EXCEPT ![s] = status]
  /\ mail' = mail \cup {status}
  /\ UNCHANGED <<profile, accounts, request, transfers, excused>>
AccountMoves(a) ==
  /\ accounts' = [accounts EXCEPT ![a] = ~@]
  /\ UNCHANGED <<profile, sessions, mail, request, transfers, excused>>

CacheOf(status) == CASE status = "verified" -> "verified"
                     [] status = "requires_input" -> "pending"
                     [] status = "canceled" -> "unverified"

(* handleStripeWebhook; account.updated and other events change nothing. *)
handleStripeWebhook(status) ==
  /\ status \in mail /\ persistProfile(OnFile, None, None, CacheOf(status))
  /\ UNCHANGED <<sessions, accounts, mail, request, transfers, excused>>

PayInit ==
  /\ profile = None /\ sessions = <<>> /\ accounts = <<>> /\ mail = {}
  /\ request = [r \in PayRequests |-> NoRequest] /\ transfers = {} /\ excused = FALSE

PayNext ==
  \/ handleCreatorApply
  \/ \E r \in PayRequests : \/ requestVerification(r) \/ CreateAccount(r) \/ CreateSession(r) \/ Persist(r)
                            \/ requestPayout(r) \/ Recheck(r) \/ Transfer(r) \/ StripeFails(r)
  \/ \E s \in DOMAIN sessions, status \in {"requires_input", "verified", "canceled"} : SessionMoves(s, status)
  \/ \E a \in DOMAIN accounts : AccountMoves(a)
  \/ \E status \in mail : handleStripeWebhook(status)
PaySpec == PayInit /\ [][PayNext]_payVars

-----------------------------------------------------------------------------
PayTypeOK ==
  /\ profile = None \/ DOMAIN profile = {"account", "session", "cache"}
  /\ DOMAIN sessions \subseteq 1..MaxSessions /\ DOMAIN accounts \subseteq 1..MaxAccounts
  /\ OnFile.account \in DOMAIN accounts \cup {None} /\ OnFile.session \in DOMAIN sessions \cup {None}
  /\ OnFile.cache \in Caches \cup {None}

(* Money moves only for a session that Stripe itself calls verified, whatever
   the cache, late events or a second verification have made of the row since. *)
TransfersAreVerified == \A s \in transfers : sessions[s] = "verified"

(* The display says verified only if Stripe verified some session of the creator. *)
DisplayIsEarned == OnFile.cache = "verified" => \E s \in DOMAIN sessions : sessions[s] = "verified"

(* A second Connect account exists only after two verifications overlapped, one
   of them failed half-way, or the creator applied again. *)
OneAccount == Cardinality(DOMAIN accounts) <= 1 \/ excused

\* Payouts and the row they are shown by, whatever Stripe fails, delays, repeats.
PayoutsAreEarned ==
  /\ PayTypeOK
  /\ TransfersAreVerified
  /\ DisplayIsEarned
  /\ OneAccount

=============================================================================
