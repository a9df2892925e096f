------------------------------- MODULE Accounts -------------------------------
(***************************************************************************)
(* Who a request of the API acts for. A request passes the API-key check   *)
(* and the check of its bearer token, each of which reads the database,    *)
(* and then its handler reads and writes: keys and tokens may be revoked,  *)
(* and another request may provision the same tenant, in between.          *)
(***************************************************************************)
EXTENDS Naturals, FiniteSets

CONSTANTS
    Emails, UserIds,     \* a user's id is given out once
    Keys, Tokens,      \* API keys (x-api-key) and API tokens (Bearer hdv_...)
    Subs,              \* users of Supabase, told by their sessions (Bearer, of another secret)
    Tenants,           \* fresh tenant ids
    Registered, Email0, \* the users there are at first, and their emails
    MaxSent,          \* bound: requests, numbered as they come
    NoOne

\* Ids, keys and tokens are of three tables; the email column is unique.
Account == [email : Emails, tenant : Tenants \cup {NoOne}]
ASSUME AccountsAssumption ==
    /\ MaxSent \in Nat
    /\ Registered \subseteq UserIds
    /\ \A u \in Registered : Email0[u] \in Emails
    /\ \A u, v \in Registered : Email0[u] = Email0[v] => u = v
    /\ Keys \cap Tokens = {} /\ UserIds \cap (Keys \cup Tokens) = {}
    /\ Subs \cap (UserIds \cup Keys \cup Tokens) = {}
    /\ NoOne \notin UserIds \cup Keys \cup Tokens \cup Subs \cup Account

VARIABLES
    users,      \* User rows: email and tenantId
    keys,       \* ApiKey rows: the owner
    tokens,     \* ApiToken rows: the owner
    gone,       \* credentials revoked (the key's flag, the token's row deleted) or expired
    request,    \* each call: where it is and whom it acts for
    opened      \* the calls that reached their handler, and for whom

accountVars == <<users, keys, tokens, gone, request, opened>>

Calls == 1..MaxSent
Routes == {"provision", "createKey", "revokeKey", "createToken", "revokeToken", "endpoints"}
\* The routers mounted without verifyToken that still ask who is calling.
OpenRoutes == {"endpoints"}

NotYet == [stage |-> "unsent"]
Over == [stage |-> "over"]
At(c, stage) == request[c].stage = stage
End(c) == request' = [request EXCEPT ![c] = Over]
Live == {u \in UserIds : users[u] # NoOne}
FreshTenants == Tenants \ {users[u].tenant : u \in Live}
NextCall(c) == At(c, "unsent") /\ \A d \in Calls : d < c => ~At(d, "unsent")

AccountInit ==
    \* Accounts older than the tenant column have no tenant.
    /\ users = [u \in UserIds |-> IF u \in Registered
                                 THEN [email |-> Email0[u], tenant |-> NoOne] ELSE NoOne]
    /\ keys = [k \in Keys |-> NoOne]
    /\ tokens = [t \in Tokens |-> NoOne]
    /\ gone = {}
    /\ request = [c \in Calls |-> NotYet]
    /\ opened = {}

-----------------------------------------------------------------------------
(* Registration reads the email, hashes for a while, and creates the row;  *)
(* the column is unique, so the second of two fails.                       *)

Register(c, e) ==
    /\ NextCall(c)
    /\ \A u \in Live : users[u].email # e  \* else 409
    /\ request' = [request EXCEPT ![c] = [stage |-> "register", email |-> e]]
    /\ UNCHANGED <<users, keys, tokens, gone, opened>>

EmailTaken(e) == \E u \in Live : users[u].email = e

CreateUser(c) ==
    /\ At(c, "register")
    /\ IF EmailTaken(request[c].email) THEN UNCHANGED users
       ELSE \E u \in UserIds \ Live, tenant \in FreshTenants :
                users' = [users EXCEPT ![u] = [email |-> request[c].email, tenant |-> tenant]]
    /\ End(c)
    /\ UNCHANGED <<keys, tokens, gone, opened>>

-----------------------------------------------------------------------------
(* The chain of checks.                                                    *)

\* A call carries an API key, a bearer token (a session is its user's id), or both.
Present(c, key, bearer, route, arg) ==
    /\ NextCall(c)
    /\ request' = [request EXCEPT ![c] =
           [stage |-> "key", key |-> key, bearer |-> bearer, route |-> route, arg |-> arg,
            who |-> NoOne, by |-> NoOne, gone |-> gone, rivals |-> {}]]
    /\ UNCHANGED <<users, keys, tokens, gone, opened>>

KeyHolds_Revoked(k) == keys[k] # NoOne
KeyHolds(k) == keys[k] # NoOne /\ k \notin gone

\* supabaseAuth, next and at once: a session of Supabase's names the caller, whoever
\* the key named; it falls through otherwise.
supabaseAuth(q) == IF q.bearer \in Subs THEN [q EXCEPT !.who = q.bearer, !.by = q.bearer] ELSE q

\* apiKeyAuth: no key falls through; a key that does not hold ends the request.
apiKeyAuth(c) ==
    LET q == [request[c] EXCEPT !.stage = "bearer"] IN
    /\ At(c, "key")
    /\ IF q.key = NoOne THEN request' = [request EXCEPT ![c] = supabaseAuth(q)]
       ELSE IF KeyHolds(q.key)
       THEN request' = [request EXCEPT ![c] = supabaseAuth([q EXCEPT !.who = keys[q.key], !.by = q.key])]
       ELSE End(c)
    /\ UNCHANGED <<users, keys, tokens, gone, opened>>

\* verifyToken: on a protected route the bearer token decides alone.
Bearer(c) ==
    LET b == request[c].bearer IN
    IF b \in Live THEN b
    ELSE IF b \in Tokens /\ tokens[b] # NoOne /\ b \notin gone THEN tokens[b] ELSE NoOne

Admit(c, who, by) ==
    /\ request' = [request EXCEPT ![c].stage = "handler", ![c].who = who, ![c].by = by]
    /\ opened' = opened \cup {[who |-> who, by |-> by, gone |-> request[c].gone]}

verifyToken(c) ==
    /\ At(c, "bearer")
    /\ LET q == request[c] IN
       IF q.route \in OpenRoutes
       THEN IF q.who = NoOne THEN End(c) /\ UNCHANGED opened ELSE Admit(c, q.who, q.by)
       ELSE IF Bearer(c) = NoOne THEN End(c) /\ UNCHANGED opened
       ELSE Admit(c, Bearer(c), q.bearer)
    /\ UNCHANGED <<users, keys, tokens, gone>>

-----------------------------------------------------------------------------
(* The handlers.                                                           *)

Handles(c, route) == At(c, "handler") /\ request[c].route = route

createKey(c) ==
    /\ Handles(c, "createKey")
    /\ \E k \in Keys : /\ keys[k] = NoOne
                       /\ keys' = [keys EXCEPT ![k] = request[c].who]
    /\ End(c)
    /\ UNCHANGED <<users, tokens, gone, opened>>

\* One statement, and only for the caller's own key.
revokeKey(c) ==
    LET k == request[c].arg IN
    /\ Handles(c, "revokeKey")
    /\ gone' = IF keys[k] = request[c].who THEN gone \cup {k} ELSE gone
    /\ End(c)
    /\ UNCHANGED <<users, keys, tokens, opened>>

Expire(k) ==
    /\ keys[k] # NoOne /\ k \notin gone
    /\ gone' = gone \cup {k}
    /\ UNCHANGED <<users, keys, tokens, request, opened>>

createToken(c) ==
    /\ Handles(c, "createToken")
    /\ \E t \in Tokens : /\ tokens[t] = NoOne
                         /\ tokens' = [tokens EXCEPT ![t] = request[c].who]
    /\ End(c)
    /\ UNCHANGED <<users, keys, gone, opened>>

\* Find the caller's token, then delete the row.
revokeToken(c) ==
    LET t == request[c].arg IN
    /\ Handles(c, "revokeToken")
    /\ IF tokens[t] = request[c].who /\ t \notin gone
       THEN request' = [request EXCEPT ![c].stage = "write"]
       ELSE End(c)
    /\ UNCHANGED <<users, keys, tokens, gone, opened>>

deleteToken(c) ==
    LET t == request[c].arg IN
    /\ At(c, "write") /\ request[c].route = "revokeToken"
    /\ gone' = gone \cup {t}
    /\ End(c)
    /\ UNCHANGED <<users, keys, tokens, opened>>

\* Provision answers the tenant it finds. Finding none, it writes one of its own;
\* the calls that are between the two at the same time are each other's rivals.
Between(u) == {d \in Calls : /\ At(d, "write") /\ request[d].route = "provision"
                             /\ request[d].who = u}

Queue(c, u) ==
    request' = [d \in Calls |->
        IF d = c THEN [request[c] EXCEPT !.stage = "write", !.rivals = Between(u)]
        ELSE IF d \in Between(u) THEN [request[d] EXCEPT !.rivals = @ \cup {c}]
        ELSE request[d]]

\* Whatever it finds, it writes.
provision_Always(c) ==
    LET u == request[c].who IN
    /\ Handles(c, "provision")
    /\ Queue(c, u)
    /\ UNCHANGED <<users, keys, tokens, gone, opened>>

provision(c) ==
    LET u == request[c].who IN
    /\ Handles(c, "provision")
    /\ IF users[u].tenant # NoOne
       THEN End(c)
       ELSE Queue(c, u)
    /\ UNCHANGED <<users, keys, tokens, gone, opened>>

writeTenant(c) ==
    LET u == request[c].who IN
    /\ At(c, "write") /\ request[c].route = "provision"
    /\ \E tenant \in FreshTenants : users' = [users EXCEPT ![u].tenant = tenant]
    /\ End(c)
    /\ UNCHANGED <<keys, tokens, gone, opened>>

\* What the open routes do is not modelled: they end.
endpoints(c) ==
    /\ Handles(c, "endpoints")
    /\ End(c)
    /\ UNCHANGED <<users, keys, tokens, gone, opened>>

-----------------------------------------------------------------------------
AccountStep ==
    \E c \in Calls :
        \/ \E e \in Emails : Register(c, e)
        \/ CreateUser(c)
        \/ \E key \in {k \in Keys : keys[k] # NoOne} \cup {NoOne},
              bearer \in Live \cup Subs \cup {t \in Tokens : tokens[t] # NoOne} \cup {NoOne},
              route \in Routes :
              \E arg \in IF route = "revokeKey" THEN Keys
                         ELSE IF route = "revokeToken" THEN Tokens ELSE {NoOne} :
                  Present(c, key, bearer, route, arg)
        \/ apiKeyAuth(c) \/ verifyToken(c)
        \/ createKey(c) \/ revokeKey(c) \/ createToken(c) \/ revokeToken(c) \/ deleteToken(c)
        \/ provision(c) \/ writeTenant(c) \/ endpoints(c)
        \/ \E k \in Keys : Expire(k)

AccountSpec == AccountInit /\ [][AccountStep]_accountVars

-----------------------------------------------------------------------------
AccountTypeOK ==
    /\ users \in [UserIds -> Account \cup {NoOne}]
    /\ keys \in [Keys -> UserIds \cup {NoOne}]
    /\ tokens \in [Tokens -> UserIds \cup {NoOne}]
    /\ gone \subseteq Keys \cup Tokens

\* Two registrations of one email that both found it free make one account.
OneAccountPerEmail ==
    \A u, v \in Live : users[u].email = users[v].email => u = v

\* A request acts for the owner of a credential it carried, and never on one that
\* was revoked or expired before it was sent, whatever was revoked on its way.
ActsForLiveCredential ==
    \A o \in opened :
        /\ o.by \notin o.gone
        /\ o.who = IF o.by \in Keys THEN keys[o.by]
                   ELSE IF o.by \in Tokens THEN tokens[o.by] ELSE o.by

\* Who a request acts for, whatever is revoked or registered on its way.
CallsAreLive == AccountTypeOK /\ OneAccountPerEmail /\ ActsForLiveCredential

\* A tenant once written is replaced only by calls of the same user that overlapped.
TenantMovesOnlyInARace ==
    [][\A u \in Live :
        users[u].tenant # NoOne /\ users'[u].tenant # users[u].tenant =>
            \E c \in Calls : At(c, "write") /\ request[c].who = u /\ request[c].rivals # {}
      ]_accountVars

\* A key that held when it was checked opens the route it was sent to.
LiveKeyOpens ==
    [][\A c \in Calls : At(c, "bearer") /\ request[c].by \in Keys => request'[c].stage # "over"
      ]_accountVars
=============================================================================
