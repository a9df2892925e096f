--------------------------- MODULE WorkspaceProofs ---------------------------
(***************************************************************************)
(* Whom a request acts for, and when a tenant moves, for any number of     *)
(* requests, users, keys and tokens; what the editor's history stands at,  *)
(* for any contents, limit and number of changes; what a page shows of its *)
(* run, for any runs and any order in which events and answers reach it.   *)
(***************************************************************************)
EXTENDS Accounts, EditorHistory, LiveCanvas, FiniteSetTheorems, SequenceTheorems, TLAPS

\* A request in the chain of checks, and what a call may be at.
InChain == [stage : {"key", "bearer", "handler", "write"}, key : Keys \cup {NoOne},
            bearer : UserIds \cup Subs \cup Tokens \cup {NoOne}, route : Routes,
            arg : Keys \cup Tokens \cup {NoOne}, who : UserIds \cup Subs \cup {NoOne},
            by : UserIds \cup Subs \cup Keys \cup Tokens \cup {NoOne},
            gone : SUBSET (Keys \cup Tokens), rivals : SUBSET Calls]
Registering == [stage : {"register"}, email : Emails]
CallState == InChain \cup Registering \cup {NotYet, Over}

TypeInv ==
    /\ AccountTypeOK
    /\ request \in [Calls -> CallState]

\* A key or a token that was given out belongs to an account.
OwnersInv ==
    /\ \A k \in Keys : keys[k] # NoOne => keys[k] \in Live
    /\ \A t \in Tokens : tokens[t] # NoOne => tokens[t] \in Live

\* by is a credential of who.
Vouches(by, who) ==
    who = IF by \in Keys THEN keys[by] ELSE IF by \in Tokens THEN tokens[by] ELSE by

\* What a request carries along the chain.
Carried(q) ==
    /\ q.gone \subseteq gone
    /\ q.route = "revokeKey" => q.arg \in Keys
    /\ q.route = "revokeToken" => q.arg \in Tokens
    /\ q.stage = "key" => q.who = NoOne
    /\ q.stage = "bearer" /\ q.who # NoOne =>
          q.who \in Live \cup Subs /\ q.by \notin q.gone /\ Vouches(q.by, q.who)
    /\ q.stage \in {"handler", "write"} /\ q.route \notin OpenRoutes => q.who \in Live
CallInv == \A c \in Calls : request[c] \in InChain => Carried(request[c])

OpenedInv == \A o \in opened : o.who \in UserIds \cup Subs /\ o.by \notin o.gone /\ Vouches(o.by, o.who)

\* The calls that are between the read and the write of one user's tenant know of
\* each other; and a tenant that was written meanwhile had a writer that was there.
Provisioning(c) == At(c, "write") /\ request[c].route = "provision"
RaceInv ==
    /\ \A c, d \in Calls : c # d /\ Provisioning(c) /\ Provisioning(d)
                           /\ request[c].who = request[d].who => d \in request[c].rivals
    /\ \A c \in Calls : Provisioning(c) /\ users[request[c].who].tenant # NoOne
                         => request[c].rivals # {}

AccountInv == TypeInv /\ OwnersInv /\ OneAccountPerEmail /\ CallInv /\ OpenedInv /\ RaceInv

LEMMA AccountInitInv == AccountInit => AccountInv
<1> SUFFICES ASSUME AccountInit PROVE AccountInv
  OBVIOUS
<1> USE DEF AccountInit
<1>1. \A u \in UserIds : users[u] \in Account \cup {NoOne}
  BY AccountsAssumption DEF Account
<1>2. TypeInv
  BY <1>1 DEF TypeInv, AccountTypeOK, CallState
<1>3. \A c \in Calls : request[c].stage = "unsent"
  BY DEF NotYet
<1>4. OwnersInv /\ OpenedInv
  BY DEF OwnersInv, OpenedInv
<1>5. CallInv /\ RaceInv
  BY <1>3 DEF CallInv, RaceInv, InChain, Provisioning, At
<1>6. Live \subseteq Registered /\ \A u \in Live : users[u].email = Email0[u]
  BY AccountsAssumption DEF Live
<1>7. OneAccountPerEmail
  BY <1>6, AccountsAssumption DEF OneAccountPerEmail
<1> QED BY <1>2, <1>4, <1>5, <1>7 DEF AccountInv

-----------------------------------------------------------------------------
(* What no step undoes.                                                    *)

Stays ==
    /\ \A k \in Keys : keys[k] # NoOne => keys'[k] = keys[k]
    /\ \A t \in Tokens : tokens[t] # NoOne => tokens'[t] = tokens[t]
    /\ gone \subseteq gone'
    /\ Live \subseteq Live'

\* A call on its way to write a tenant.
Writes(q) == q \in InChain /\ q.stage = "write" /\ q.route = "provision"

LEMMA WritesAre ==
    ASSUME TypeInv, NEW c \in Calls PROVE Provisioning(c) <=> Writes(request[c])
<1>1. request[c] \in CallState
  BY DEF TypeInv
<1> QED BY <1>1 DEF Provisioning, Writes, At, CallState, Registering, NotYet, Over

LEMMA CarriedStays ==
    ASSUME Stays, NEW q \in InChain, Carried(q) PROVE Carried(q)'
BY AccountsAssumption DEF Stays, InChain, Carried, Vouches

LEMMA OpenedStays ==
    ASSUME Stays, OpenedInv, UNCHANGED opened PROVE OpenedInv'
<1> SUFFICES ASSUME NEW o \in opened
             PROVE  o.who \in UserIds \cup Subs /\ o.by \notin o.gone /\ Vouches(o.by, o.who)'
  BY DEF OpenedInv
<1>1. o.who \in UserIds \cup Subs /\ o.who # NoOne /\ o.by \notin o.gone /\ Vouches(o.by, o.who)
  BY AccountsAssumption DEF OpenedInv
<1> QED BY <1>1 DEF Stays, Vouches

\* One call moves, to a stage other than the write of a tenant, and no tenant of an
\* account that is there moves.
LEMMA CallMoves ==
    ASSUME AccountInv, Stays, NEW c \in Calls, NEW q \in CallState,
           request' = [request EXCEPT ![c] = q],
           q \in InChain => Carried(q)', ~Writes(q), \A u \in Live : users'[u] = users[u]
    PROVE  request' \in [Calls -> CallState] /\ CallInv' /\ RaceInv'
<1>1. request' \in [Calls -> CallState] /\ request'[c] = q /\ \A d \in Calls : d # c => request'[d] = request[d]
  BY DEF AccountInv, TypeInv
<1>2. CallInv'
  BY <1>1, CarriedStays DEF AccountInv, CallInv
<1>3. ~Provisioning(c)'
  BY <1>1 DEF Provisioning, Writes, At, CallState, Registering, NotYet, Over
<1>4. ASSUME NEW d \in Calls, Provisioning(d)'
      PROVE  d # c /\ request'[d] = request[d] /\ Provisioning(d) /\ request[d].who \in Live
  <2>1. d # c
    BY <1>3, <1>4
  <2>2. request'[d] = request[d] /\ Provisioning(d)
    BY <1>1, <1>4, <2>1 DEF Provisioning, At
  <2>3. request[d] \in InChain /\ request[d].stage = "write"
    BY <2>2, WritesAre DEF AccountInv, Writes
  <2>4. request[d].route \notin OpenRoutes
    BY <2>2 DEF Provisioning, OpenRoutes
  <2> QED BY <2>1, <2>2, <2>3, <2>4 DEF AccountInv, CallInv, Carried
<1>5. RaceInv'
  BY <1>4 DEF AccountInv, RaceInv
<1> QED BY <1>1, <1>2, <1>5

\* Only the call moves.
LEMMA OnlyCallMoves ==
    ASSUME AccountInv, UNCHANGED <<users, keys, tokens, gone>>, NEW c \in Calls, NEW q \in CallState,
           request' = [request EXCEPT ![c] = q], q \in InChain => Carried(q), ~Writes(q), OpenedInv'
    PROVE  AccountInv'
<1>1. Stays
  BY DEF Stays, Live
<1>2. q \in InChain => Carried(q)'
  BY <1>1, CarriedStays
<1>3. request' \in [Calls -> CallState] /\ CallInv' /\ RaceInv'
  BY <1>1, <1>2, CallMoves DEF Live
<1>4. TypeInv' /\ OwnersInv' /\ OneAccountPerEmail'
  BY <1>3 DEF AccountInv, TypeInv, AccountTypeOK, OwnersInv, OneAccountPerEmail, Live
<1> QED BY <1>3, <1>4 DEF AccountInv

LEMMA EndIs == Over \in CallState /\ Over \notin InChain /\ ~Writes(Over)
BY DEF Over, CallState, InChain, Writes

LEMMA EndKept ==
    ASSUME AccountInv, UNCHANGED <<users, keys, tokens, gone, opened>>, NEW c \in Calls, End(c)
    PROVE  AccountInv'
<1>1. OpenedInv'
  BY DEF AccountInv, OpenedInv, Vouches
<1> QED BY <1>1, EndIs, OnlyCallMoves DEF End

\* A request at one of the stages of the chain is what it carries.
LEMMA AtStage ==
    ASSUME AccountInv, NEW c \in Calls, request[c].stage \in {"key", "bearer", "handler", "write"}
    PROVE  request[c] \in InChain /\ Carried(request[c])
<1>1. request[c] \in CallState
  BY DEF AccountInv, TypeInv
<1>2. request[c] \in InChain
  BY <1>1 DEF CallState, Registering, NotYet, Over
<1> QED BY <1>2 DEF AccountInv, CallInv

-----------------------------------------------------------------------------
(* Registration.                                                           *)

LEMMA RegisterStep ==
    ASSUME AccountInv, NEW c \in Calls, NEW e \in Emails, Register(c, e) PROVE AccountInv'
<1> DEFINE q == [stage |-> "register", email |-> e]
<1>1. request' = [request EXCEPT ![c] = q] /\ UNCHANGED <<users, keys, tokens, gone, opened>>
  BY DEF Register
<1>2. q \in CallState /\ q \notin InChain /\ ~Writes(q)
  BY DEF CallState, Registering, InChain, Writes
<1>3. OpenedInv'
  BY <1>1 DEF AccountInv, OpenedInv, Vouches
<1> QED BY <1>1, <1>2, <1>3, OnlyCallMoves

\* The column is unique: what the read found free may be taken by now.
LEMMA CreateUserStep ==
    ASSUME AccountInv, NEW c \in Calls, CreateUser(c) PROVE AccountInv'
<1>1. request[c] \in Registering
  BY DEF AccountInv, TypeInv, CreateUser, At, CallState, InChain, NotYet, Over
<1>2. CASE EmailTaken(request[c].email)
  BY <1>2, EndKept DEF CreateUser
<1>3. CASE ~EmailTaken(request[c].email)
  <2>1. PICK u \in UserIds \ Live, tenant \in FreshTenants :
           users' = [users EXCEPT ![u] = [email |-> request[c].email, tenant |-> tenant]]
    BY <1>3 DEF CreateUser
  <2>2. PICK e \in Emails : e = request[c].email
    BY <1>1 DEF Registering
  <2> DEFINE row == [email |-> e, tenant |-> tenant]
  <2>3. row \in Account /\ row # NoOne /\ row.email = e
    BY AccountsAssumption DEF Account, FreshTenants
  <2>4. users' = [users EXCEPT ![u] = row]
    BY <2>1, <2>2
  <2> HIDE DEF row
  <2>5. users' \in [UserIds -> Account \cup {NoOne}] /\ users'[u] = row
        /\ \A v \in UserIds : v # u => users'[v] = users[v]
    BY <2>3, <2>4 DEF AccountInv, TypeInv, AccountTypeOK
  <2>6. UNCHANGED <<keys, tokens, gone, opened>> /\ request' = [request EXCEPT ![c] = Over]
    BY DEF CreateUser, End
  <2>7. Live' = Live \cup {u} /\ \A v \in Live : users'[v] = users[v]
    BY <2>3, <2>5 DEF Live
  <2>8. Stays
    BY <2>6, <2>7 DEF Stays
  <2>9. request' \in [Calls -> CallState] /\ CallInv' /\ RaceInv'
    BY <2>6, <2>7, <2>8, EndIs, CallMoves
  <2>10. OneAccountPerEmail'
    <3>1. \A v \in Live : users'[v].email # e
      BY <1>3, <2>2, <2>7 DEF EmailTaken
    <3> QED BY <2>3, <2>5, <2>7, <3>1 DEF AccountInv, OneAccountPerEmail
  <2>11. TypeInv' /\ OwnersInv'
    BY <2>5, <2>6, <2>7, <2>9 DEF AccountInv, TypeInv, AccountTypeOK, OwnersInv
  <2> QED BY <2>6, <2>8, <2>9, <2>10, <2>11, OpenedStays DEF AccountInv
<1> QED BY <1>2, <1>3

-----------------------------------------------------------------------------
(* The chain of checks.                                                    *)

LEMMA PresentStep ==
    ASSUME AccountInv, NEW c \in Calls, NEW key \in Keys \cup {NoOne},
           NEW bearer \in Live \cup Subs \cup Tokens \cup {NoOne}, NEW route \in Routes, NEW arg,
           arg \in IF route = "revokeKey" THEN Keys ELSE IF route = "revokeToken" THEN Tokens ELSE {NoOne},
           Present(c, key, bearer, route, arg)
    PROVE  AccountInv'
<1> DEFINE q == [stage |-> "key", key |-> key, bearer |-> bearer, route |-> route, arg |-> arg,
                 who |-> NoOne, by |-> NoOne, gone |-> gone, rivals |-> {}]
<1>1. request' = [request EXCEPT ![c] = q] /\ UNCHANGED <<users, keys, tokens, gone, opened>>
  BY DEF Present
<1>2. arg \in Keys \cup Tokens \cup {NoOne} /\ bearer \in UserIds \cup Subs \cup Tokens \cup {NoOne}
      /\ gone \in SUBSET (Keys \cup Tokens)
  BY DEF AccountInv, TypeInv, AccountTypeOK, Live
<1>3. q \in InChain /\ q \in CallState
  BY <1>2 DEF InChain, CallState
<1>4. Carried(q) /\ ~Writes(q)
  BY DEF Carried, Writes
<1>5. OpenedInv'
  BY <1>1 DEF AccountInv, OpenedInv, Vouches
<1> HIDE DEF q
<1> QED BY <1>1, <1>3, <1>4, <1>5, OnlyCallMoves

\* What a request carries to the next check, where Supabase's session speaks last.
LEMMA SupabaseNames ==
    ASSUME AccountInv, NEW q \in InChain, q.stage = "bearer", Carried(q)
    PROVE  /\ supabaseAuth(q) \in InChain /\ Carried(supabaseAuth(q)) /\ ~Writes(supabaseAuth(q))
<1>1. CASE q.bearer \notin Subs
  BY <1>1 DEF supabaseAuth, Writes
<1>2. CASE q.bearer \in Subs
  <2> DEFINE n == [q EXCEPT !.who = q.bearer, !.by = q.bearer]
  <2>1. /\ n \in InChain /\ n.stage = "bearer" /\ n.gone = q.gone /\ n.route = q.route /\ n.arg = q.arg
        /\ n.who = q.bearer /\ n.by = q.bearer
    BY <1>2 DEF InChain
  <2>2. supabaseAuth(q) = n
    BY <1>2 DEF supabaseAuth
  <2> HIDE DEF n
  <2>3. q.bearer \notin q.gone /\ q.bearer \notin Keys /\ q.bearer \notin Tokens
    BY <1>2, AccountsAssumption DEF Carried, AccountInv, TypeInv, AccountTypeOK
  <2>4. Carried(n) /\ ~Writes(n)
    BY <1>2, <2>1, <2>3 DEF Carried, Vouches, Writes
  <2> QED BY <2>1, <2>2, <2>4
<1> QED BY <1>1, <1>2

\* A key that holds names its owner.
LEMMA ApiKeyAuthStep ==
    ASSUME AccountInv, NEW c \in Calls, apiKeyAuth(c) PROVE AccountInv'
<1>1. request[c].stage = "key" /\ request[c] \in InChain /\ Carried(request[c])
  BY AtStage DEF apiKeyAuth, At
<1>2. UNCHANGED <<users, keys, tokens, gone, opened>>
  BY DEF apiKeyAuth
<1>3. OpenedInv'
  BY <1>2 DEF AccountInv, OpenedInv, Vouches
<1>4. PICK p \in InChain : p = request[c]
  BY <1>1
<1>5. PICK k \in Keys \cup {NoOne} : k = p.key
  BY DEF InChain
<1> DEFINE q == [p EXCEPT !.stage = "bearer"]
<1>q. q \in InChain /\ q.stage = "bearer" /\ q.gone = p.gone /\ q.route = p.route
      /\ q.arg = p.arg /\ q.who = p.who /\ q.by = p.by /\ q.key = k
  BY <1>5 DEF InChain
<1>a. /\ k = NoOne => request' = [request EXCEPT ![c] = supabaseAuth(q)]
      /\ k # NoOne /\ KeyHolds(k) =>
            request' = [request EXCEPT ![c] = supabaseAuth([q EXCEPT !.who = keys[k], !.by = k])]
      /\ k # NoOne /\ ~KeyHolds(k) => End(c)
  BY <1>4, <1>5, <1>q DEF apiKeyAuth
<1> HIDE DEF q
<1>6. CASE k = NoOne
  <2>1. Carried(q)
    BY <1>1, <1>4, <1>q DEF Carried
  <2>2. PICK n : n = supabaseAuth(q)
    OBVIOUS
  <2>3. n \in InChain /\ Carried(n) /\ ~Writes(n)
    BY <1>q, <2>1, <2>2, SupabaseNames
  <2>4. request' = [request EXCEPT ![c] = n]
    BY <1>6, <1>a, <2>2
  <2> QED BY <1>2, <1>3, <2>3, <2>4, OnlyCallMoves DEF CallState
<1>7. CASE k # NoOne /\ KeyHolds(k)
  <2> DEFINE m == [q EXCEPT !.who = keys[k], !.by = k]
  <2>1. k \in Keys /\ k \notin gone /\ keys[k] # NoOne /\ keys[k] \in Live /\ keys[k] \in UserIds
    BY <1>7 DEF KeyHolds, AccountInv, OwnersInv, Live
  <2>2. m \in InChain /\ m.stage = "bearer" /\ m.gone = p.gone /\ m.route = p.route
        /\ m.arg = p.arg /\ m.who = keys[k] /\ m.by = k
    BY <1>q, <2>1 DEF InChain
  <2>3. PICK n : n = supabaseAuth(m)
    OBVIOUS
  <2>4. request' = [request EXCEPT ![c] = n]
    BY <1>7, <1>a, <2>3
  <2> HIDE DEF m
  <2>5. Carried(m)
    BY <1>1, <1>4, <2>1, <2>2 DEF Carried, Vouches
  <2>6. n \in InChain /\ Carried(n) /\ ~Writes(n)
    BY <2>2, <2>3, <2>5, SupabaseNames
  <2> QED BY <1>2, <1>3, <2>4, <2>6, OnlyCallMoves DEF CallState
<1>8. CASE k # NoOne /\ ~KeyHolds(k)
  <2>1. End(c)
    BY <1>8, <1>a
  <2> QED BY <1>2, <2>1, EndKept
<1> QED BY <1>6, <1>7, <1>8

\* A request is admitted for the owner of what it carried.
LEMMA AdmitKept ==
    ASSUME AccountInv, NEW c \in Calls, NEW p \in InChain, p = request[c], Carried(p), p.stage = "bearer",
           NEW who \in Live \cup Subs, NEW by \in UserIds \cup Subs \cup Keys \cup Tokens, by \notin p.gone,
           Vouches(by, who), p.route \notin OpenRoutes => who \in Live,
           Admit(c, who, by), UNCHANGED <<users, keys, tokens, gone>>
    PROVE  AccountInv'
<1> DEFINE q == [p EXCEPT !.stage = "handler", !.who = who, !.by = by]
           o == [who |-> who, by |-> by, gone |-> p.gone]
<1>1. request' = [request EXCEPT ![c] = q]
  BY DEF Admit, AccountInv, TypeInv
<1>2. q \in InChain /\ q.stage = "handler" /\ q.gone = p.gone /\ q.route = p.route /\ q.arg = p.arg
      /\ q.who = who /\ q.by = by
  BY DEF InChain, Live
<1>3. opened' = opened \cup {o}
  BY DEF Admit
<1>4. o.who \in UserIds \cup Subs /\ o.by \notin o.gone /\ Vouches(o.by, o.who)
  BY DEF Live
<1> HIDE DEF q, o
<1>5. Carried(q) /\ ~Writes(q)
  BY <1>2 DEF Carried, Writes
<1>6. OpenedInv'
  BY <1>3, <1>4 DEF AccountInv, OpenedInv, Vouches
<1> QED BY <1>1, <1>2, <1>5, <1>6, OnlyCallMoves DEF CallState

\* A session or a token that holds names its owner.
LEMMA BearerHolds ==
    ASSUME AccountInv, NEW c \in Calls, request[c] \in InChain, Carried(request[c]), Bearer(c) # NoOne
    PROVE  /\ Bearer(c) \in Live /\ request[c].bearer \in UserIds \cup Tokens
           /\ request[c].bearer \notin request[c].gone /\ Vouches(request[c].bearer, Bearer(c))
<1> DEFINE b == request[c].bearer
<1>1. b \in UserIds \cup Subs \cup Tokens \cup {NoOne} /\ request[c].gone \subseteq gone
      /\ gone \subseteq Keys \cup Tokens
  BY DEF InChain, Carried, AccountInv, TypeInv, AccountTypeOK
<1>2. CASE b \in Live
  <2>1. Bearer(c) = b /\ b \in UserIds
    BY <1>2 DEF Bearer, Live
  <2> HIDE DEF b
  <2>2. b \notin Keys /\ b \notin Tokens
    BY <2>1, AccountsAssumption
  <2> QED BY <1>1, <1>2, <2>1, <2>2 DEF Vouches, b
<1>3. CASE b \notin Live
  <2>1. b \in Tokens /\ tokens[b] # NoOne /\ b \notin gone /\ Bearer(c) = tokens[b]
    BY <1>3 DEF Bearer
  <2> HIDE DEF b
  <2>2. b \notin Keys /\ tokens[b] \in Live
    BY <2>1, AccountsAssumption DEF AccountInv, OwnersInv
  <2> QED BY <1>1, <2>1, <2>2 DEF Vouches, b
<1> QED BY <1>2, <1>3

LEMMA VerifyTokenStep ==
    ASSUME AccountInv, NEW c \in Calls, verifyToken(c) PROVE AccountInv'
<1>1. request[c].stage = "bearer" /\ request[c] \in InChain /\ Carried(request[c])
  BY AtStage DEF verifyToken, At
<1>2. PICK p \in InChain : p = request[c]
  BY <1>1
<1>3. UNCHANGED <<users, keys, tokens, gone>>
  BY DEF verifyToken
<1>4. CASE End(c) /\ UNCHANGED opened
  BY <1>3, <1>4, EndKept
<1>5. CASE p.route \in OpenRoutes /\ p.who # NoOne /\ Admit(c, p.who, p.by)
  <2>1. p.who \in Live \cup Subs /\ p.by \notin p.gone /\ Vouches(p.by, p.who)
    BY <1>1, <1>2, <1>5 DEF Carried
  <2>2. p.by \in UserIds \cup Subs \cup Keys \cup Tokens
    BY <1>5, <2>1, AccountsAssumption DEF InChain, Vouches, Live
  <2>3. PICK who \in Live \cup Subs, by \in UserIds \cup Subs \cup Keys \cup Tokens : who = p.who /\ by = p.by
    BY <2>1, <2>2
  <2> QED BY <1>1, <1>2, <1>3, <1>5, <2>1, <2>3, AdmitKept
<1>6. CASE p.route \notin OpenRoutes /\ Bearer(c) # NoOne /\ Admit(c, Bearer(c), p.bearer)
  <2>1. /\ Bearer(c) \in Live /\ p.bearer \in UserIds \cup Tokens
        /\ p.bearer \notin p.gone /\ Vouches(p.bearer, Bearer(c))
    BY <1>1, <1>2, <1>6, BearerHolds
  <2>2. PICK who \in Live, by \in UserIds \cup Subs \cup Keys \cup Tokens : who = Bearer(c) /\ by = p.bearer
    BY <2>1
  <2> QED BY <1>1, <1>2, <1>3, <1>6, <2>1, <2>2, AdmitKept
<1> QED BY <1>2, <1>4, <1>5, <1>6 DEF verifyToken

-----------------------------------------------------------------------------
(* The handlers.                                                           *)

\* A call ends having written the keys, the tokens or what is gone.
LEMMA EndsWriting ==
    ASSUME AccountInv, NEW c \in Calls, End(c), UNCHANGED <<users, opened>>, Stays, OwnersInv',
           keys' \in [Keys -> UserIds \cup {NoOne}], tokens' \in [Tokens -> UserIds \cup {NoOne}],
           gone' \subseteq Keys \cup Tokens
    PROVE  AccountInv'
<1>1. request' \in [Calls -> CallState] /\ CallInv' /\ RaceInv'
  BY EndIs, CallMoves DEF End, Live
<1>2. OpenedInv'
  BY OpenedStays DEF AccountInv
<1>3. TypeInv' /\ OneAccountPerEmail'
  BY <1>1 DEF AccountInv, TypeInv, AccountTypeOK, OneAccountPerEmail, Live
<1> QED BY <1>1, <1>2, <1>3 DEF AccountInv

LEMMA HandlerIs ==
    ASSUME AccountInv, NEW c \in Calls, request[c].stage \in {"handler", "write"}
    PROVE  /\ request[c] \in InChain /\ Carried(request[c])
           /\ request[c].route \notin OpenRoutes =>
                 request[c].who \in Live /\ request[c].who \in UserIds
<1>1. request[c] \in InChain /\ Carried(request[c])
  BY AtStage
<1> QED BY <1>1 DEF Carried, Live

LEMMA CreateKeyStep ==
    ASSUME AccountInv, NEW c \in Calls, createKey(c) PROVE AccountInv'
<1>1. request[c].who \in Live /\ request[c].who \in UserIds
  BY HandlerIs DEF createKey, Handles, At, OpenRoutes
<1>2. PICK k \in Keys : keys[k] = NoOne /\ keys' = [keys EXCEPT ![k] = request[c].who]
  BY DEF createKey
<1>3. End(c) /\ UNCHANGED <<users, tokens, gone, opened>>
  BY DEF createKey
<1>4. keys' \in [Keys -> UserIds \cup {NoOne}]
  BY <1>1, <1>2 DEF AccountInv, TypeInv, AccountTypeOK
<1>5. Stays /\ OwnersInv'
  BY <1>1, <1>2, <1>3 DEF Stays, OwnersInv, Live, AccountInv, TypeInv, AccountTypeOK
<1> QED BY <1>3, <1>4, <1>5, EndsWriting DEF AccountInv, TypeInv, AccountTypeOK

LEMMA CreateTokenStep ==
    ASSUME AccountInv, NEW c \in Calls, createToken(c) PROVE AccountInv'
<1>1. request[c].who \in Live /\ request[c].who \in UserIds
  BY HandlerIs DEF createToken, Handles, At, OpenRoutes
<1>2. PICK t \in Tokens : tokens[t] = NoOne /\ tokens' = [tokens EXCEPT ![t] = request[c].who]
  BY DEF createToken
<1>3. End(c) /\ UNCHANGED <<users, keys, gone, opened>>
  BY DEF createToken
<1>4. tokens' \in [Tokens -> UserIds \cup {NoOne}]
  BY <1>1, <1>2 DEF AccountInv, TypeInv, AccountTypeOK
<1>5. Stays /\ OwnersInv'
  BY <1>1, <1>2, <1>3 DEF Stays, OwnersInv, Live, AccountInv, TypeInv, AccountTypeOK
<1> QED BY <1>3, <1>4, <1>5, EndsWriting DEF AccountInv, TypeInv, AccountTypeOK

\* A key or token that goes takes nothing else with it.
LEMMA RevokedStays ==
    ASSUME AccountInv, UNCHANGED <<users, keys, tokens>>, gone \subseteq gone'
    PROVE  Stays /\ OwnersInv'
BY DEF Stays, Live, AccountInv, OwnersInv

LEMMA RevokeKeyStep ==
    ASSUME AccountInv, NEW c \in Calls, revokeKey(c) PROVE AccountInv'
<1>1. request[c].arg \in Keys
  BY HandlerIs DEF revokeKey, Handles, At, Carried
<1>2. End(c) /\ UNCHANGED <<users, keys, tokens, opened>>
  BY DEF revokeKey
<1>3. gone \subseteq gone' /\ gone' \subseteq gone \cup {request[c].arg}
  BY DEF revokeKey
<1>4. gone' \subseteq Keys \cup Tokens
  BY <1>1, <1>3 DEF AccountInv, TypeInv, AccountTypeOK
<1> QED BY <1>2, <1>3, <1>4, RevokedStays, EndsWriting DEF AccountInv, TypeInv, AccountTypeOK

LEMMA ExpireStep ==
    ASSUME AccountInv, NEW k \in Keys, Expire(k) PROVE AccountInv'
<1>1. gone' = gone \cup {k} /\ UNCHANGED <<users, keys, tokens, request, opened>>
  BY DEF Expire
<1>2. Stays /\ OwnersInv'
  BY <1>1, RevokedStays
<1>3. TypeInv' /\ OneAccountPerEmail'
  BY <1>1 DEF AccountInv, TypeInv, AccountTypeOK, OneAccountPerEmail, Live
<1>4. OpenedInv'
  BY <1>1, <1>2, OpenedStays DEF AccountInv
<1>5. CallInv'
  BY <1>1, <1>2, CarriedStays DEF AccountInv, CallInv
<1>6. RaceInv'
  BY <1>1 DEF AccountInv, RaceInv, Provisioning, At
<1> QED BY <1>2, <1>3, <1>4, <1>5, <1>6 DEF AccountInv

LEMMA RevokeTokenStep ==
    ASSUME AccountInv, NEW c \in Calls, revokeToken(c) PROVE AccountInv'
<1>1. request[c] \in InChain /\ Carried(request[c]) /\ request[c].who \in Live
      /\ request[c].route = "revokeToken"
  BY HandlerIs DEF revokeToken, Handles, At, OpenRoutes
<1>2. UNCHANGED <<users, keys, tokens, gone, opened>>
  BY DEF revokeToken
<1>3. CASE End(c)
  BY <1>2, <1>3, EndKept
<1>4. CASE request' = [request EXCEPT ![c].stage = "write"]
  <2>1. PICK p \in InChain : p = request[c]
    BY <1>1
  <2> DEFINE q == [p EXCEPT !.stage = "write"]
  <2>2. request' = [request EXCEPT ![c] = q]
    BY <1>4, <2>1 DEF AccountInv, TypeInv
  <2>3. q \in InChain /\ q.stage = "write" /\ q.gone = p.gone /\ q.route = p.route
        /\ q.arg = p.arg /\ q.who = p.who /\ q.by = p.by
    BY DEF InChain
  <2> HIDE DEF q
  <2>4. Carried(q) /\ ~Writes(q)
    BY <1>1, <2>1, <2>3 DEF Carried, Writes
  <2>5. OpenedInv'
    BY <1>2 DEF AccountInv, OpenedInv, Vouches
  <2> QED BY <1>2, <2>2, <2>3, <2>4, <2>5, OnlyCallMoves DEF CallState
<1> QED BY <1>3, <1>4 DEF revokeToken

LEMMA DeleteTokenStep ==
    ASSUME AccountInv, NEW c \in Calls, deleteToken(c) PROVE AccountInv'
<1>1. request[c].arg \in Tokens
  BY HandlerIs DEF deleteToken, At, Carried
<1>2. End(c) /\ UNCHANGED <<users, keys, tokens, opened>> /\ gone' = gone \cup {request[c].arg}
  BY DEF deleteToken
<1>3. gone \subseteq gone' /\ gone' \subseteq Keys \cup Tokens
  BY <1>1, <1>2 DEF AccountInv, TypeInv, AccountTypeOK
<1> QED BY <1>2, <1>3, RevokedStays, EndsWriting DEF AccountInv, TypeInv, AccountTypeOK

LEMMA EndpointsStep ==
    ASSUME AccountInv, NEW c \in Calls, endpoints(c) PROVE AccountInv'
BY EndKept DEF endpoints

-----------------------------------------------------------------------------
(* The tenant.                                                             *)

\* A call that finds no tenant joins those that are between the read and the write.
LEMMA ProvisionStep ==
    ASSUME AccountInv, NEW c \in Calls, provision(c) PROVE AccountInv'
<1>1. /\ request[c] \in InChain /\ Carried(request[c]) /\ request[c].who \in Live
      /\ request[c].route = "provision" /\ request[c].stage = "handler"
      /\ UNCHANGED <<users, keys, tokens, gone, opened>>
  BY HandlerIs DEF provision, Handles, At, OpenRoutes
<1>2. CASE users[request[c].who].tenant # NoOne
  BY <1>1, <1>2, EndKept DEF provision
<1>3. CASE users[request[c].who].tenant = NoOne
  <2>1. PICK u \in Live : u = request[c].who
    BY <1>1
  <2>2. Queue(c, u)
    BY <1>3, <2>1 DEF provision
  <2>3. \A d \in Between(u) : d \in Calls /\ d # c /\ Provisioning(d) /\ request[d] \in InChain
    BY <1>1, WritesAre DEF Between, Provisioning, At, AccountInv, Writes
  <2> DEFINE mine == [request[c] EXCEPT !.stage = "write", !.rivals = Between(u)]
  <2>4. /\ mine \in InChain /\ mine.stage = "write" /\ mine.rivals = Between(u)
        /\ mine.route = "provision" /\ mine.who = u /\ mine.gone = request[c].gone
    BY <1>1, <2>1, <2>3 DEF InChain
  <2>5. request'[c] = mine
    BY <2>2 DEF Queue
  <2>6. \A d \in Between(u) : /\ request'[d] \in InChain /\ request'[d].stage = request[d].stage
                               /\ request'[d].rivals = request[d].rivals \cup {c}
                               /\ request'[d].route = request[d].route /\ request'[d].who = request[d].who
                               /\ request'[d].gone = request[d].gone
    <3> SUFFICES ASSUME NEW d \in Between(u)
                 PROVE  /\ request'[d] \in InChain /\ request'[d].stage = request[d].stage
                        /\ request'[d].rivals = request[d].rivals \cup {c}
                        /\ request'[d].route = request[d].route /\ request'[d].who = request[d].who
                        /\ request'[d].gone = request[d].gone
      OBVIOUS
    <3>1. PICK p \in InChain : p = request[d]
      BY <2>3
    <3>2. request'[d] = [p EXCEPT !.rivals = p.rivals \cup {c}]
      BY <2>2, <2>3, <3>1 DEF Queue
    <3> QED BY <3>1, <3>2 DEF InChain
  <2>7. \A d \in Calls : d # c /\ d \notin Between(u) => request'[d] = request[d]
    BY <2>2 DEF Queue
  <2> HIDE DEF mine
  <2>8. request' \in [Calls -> CallState]
    <3>1. \A d \in Calls : request'[d] \in CallState
      BY <2>4, <2>5, <2>6, <2>7 DEF CallState, AccountInv, TypeInv
    <3> QED BY <2>2, <3>1 DEF Queue
  <2>9. TypeInv' /\ OwnersInv' /\ OneAccountPerEmail' /\ OpenedInv'
    BY <1>1, <2>8 DEF AccountInv, TypeInv, AccountTypeOK, OwnersInv, OneAccountPerEmail, OpenedInv, Live, Vouches
  <2>10. CallInv'
    <3> SUFFICES ASSUME NEW d \in Calls, request'[d] \in InChain PROVE Carried(request[d])'
      BY DEF CallInv
    <3>1. CASE d = c
      BY <1>1, <2>1, <2>4, <2>5, <3>1 DEF Carried, Live
    <3>2. CASE d \in Between(u)
      BY <1>1, <2>3, <2>6, <3>2 DEF Provisioning, At, AccountInv, CallInv, Carried, Live
    <3>3. CASE d # c /\ d \notin Between(u)
      BY <1>1, <2>7, <3>3 DEF AccountInv, CallInv, Carried, Live, Vouches
    <3> QED BY <3>1, <3>2, <3>3
  <2>11. \A d \in Calls : Provisioning(d)' =>
            \/ d = c
            \/ /\ d # c /\ Provisioning(d) /\ request'[d].who = request[d].who
               /\ request[d].rivals \subseteq request'[d].rivals
               /\ request[d].who = u => d \in Between(u) /\ c \in request'[d].rivals
    BY <2>3, <2>6, <2>7 DEF Provisioning, At, Between
  <2>12. RaceInv'
    <3>1. ASSUME NEW d \in Calls, NEW e \in Calls, d # e, Provisioning(d)', Provisioning(e)',
                 request'[d].who = request'[e].who
          PROVE  e \in request'[d].rivals
      <4>1. CASE d = c
        BY <2>4, <2>5, <2>11, <3>1, <4>1
      <4>2. CASE e = c
        BY <2>4, <2>5, <2>11, <3>1, <4>2
      <4>3. CASE d # c /\ e # c
        BY <2>11, <3>1, <4>3 DEF AccountInv, RaceInv
      <4> QED BY <4>1, <4>2, <4>3
    <3>2. ASSUME NEW d \in Calls, Provisioning(d)', users'[request'[d].who].tenant # NoOne
          PROVE  request'[d].rivals # {}
      <4>1. d # c
        BY <1>1, <1>3, <2>1, <2>4, <2>5, <3>2
      <4> QED BY <1>1, <2>11, <3>2, <4>1 DEF AccountInv, RaceInv
    <3> QED BY <3>1, <3>2 DEF RaceInv
  <2> QED BY <2>9, <2>10, <2>12 DEF AccountInv
<1> QED BY <1>2, <1>3

\* Whoever is left between read and write when a tenant is written knows the writer.
LEMMA WriteTenantStep ==
    ASSUME AccountInv, NEW c \in Calls, writeTenant(c) PROVE AccountInv'
<1>1. /\ request[c] \in InChain /\ request[c].who \in Live /\ Provisioning(c)
      /\ End(c) /\ UNCHANGED <<keys, tokens, gone, opened>>
  BY HandlerIs DEF writeTenant, Provisioning, At, OpenRoutes
<1>2. PICK u \in Live : u = request[c].who
  BY <1>1
<1>3. PICK tenant \in FreshTenants : users' = [users EXCEPT ![u].tenant = tenant]
  BY <1>2 DEF writeTenant
<1>4. PICK row \in Account : row = users[u]
  BY DEF Live, AccountInv, TypeInv, AccountTypeOK
<1> DEFINE new == [row EXCEPT !.tenant = tenant]
<1>5. new \in Account /\ new.email = row.email /\ new # NoOne
  BY AccountsAssumption DEF Account, FreshTenants
<1>6. users' = [users EXCEPT ![u] = new]
  BY <1>3, <1>4
<1> HIDE DEF new
<1>7. /\ users' \in [UserIds -> Account \cup {NoOne}] /\ users'[u] = new
      /\ \A v \in UserIds : v # u => users'[v] = users[v]
  BY <1>5, <1>6 DEF Live, AccountInv, TypeInv, AccountTypeOK
<1>8. Live' = Live /\ \A v \in Live : users'[v].email = users[v].email
  BY <1>4, <1>5, <1>7 DEF Live
<1>9. Stays
  BY <1>1, <1>8 DEF Stays
<1>10. request' \in [Calls -> CallState] /\ request'[c] = Over
       /\ \A d \in Calls : d # c => request'[d] = request[d]
  BY <1>1, EndIs DEF End, AccountInv, TypeInv
<1>11. CallInv'
  BY <1>9, <1>10, EndIs, CarriedStays DEF AccountInv, CallInv
<1>12. \A d \in Calls : Provisioning(d)' =>
          d # c /\ request'[d] = request[d] /\ Provisioning(d) /\ request[d].who \in Live
  <2> SUFFICES ASSUME NEW d \in Calls, Provisioning(d)'
               PROVE  d # c /\ request'[d] = request[d] /\ Provisioning(d) /\ request[d].who \in Live
    OBVIOUS
  <2>1. d # c /\ request'[d] = request[d] /\ Provisioning(d)
    BY <1>10 DEF Provisioning, At, Over
  <2> QED BY <2>1, HandlerIs DEF Provisioning, At, OpenRoutes
<1>13. RaceInv'
  <2>1. ASSUME NEW d \in Calls, Provisioning(d)', users'[request'[d].who].tenant # NoOne
        PROVE  request'[d].rivals # {}
    <3>1. CASE request[d].who = u
      BY <1>1, <1>2, <1>12, <2>1, <3>1 DEF AccountInv, RaceInv
    <3>2. CASE request[d].who # u
      BY <1>7, <1>12, <2>1, <3>2 DEF AccountInv, RaceInv, Live
    <3> QED BY <3>1, <3>2
  <2> QED BY <1>12, <2>1 DEF AccountInv, RaceInv
<1>14. TypeInv' /\ OwnersInv' /\ OneAccountPerEmail'
  BY <1>1, <1>7, <1>8, <1>10 DEF AccountInv, TypeInv, AccountTypeOK, OwnersInv, OneAccountPerEmail
<1> QED BY <1>1, <1>9, <1>11, <1>13, <1>14, OpenedStays DEF AccountInv

-----------------------------------------------------------------------------
LEMMA AccountStepInv == AccountInv /\ [AccountStep]_accountVars => AccountInv'
<1> SUFFICES ASSUME AccountInv, [AccountStep]_accountVars PROVE AccountInv'
  OBVIOUS
<1>1. CASE AccountStep
  <2>1. ASSUME NEW c \in Calls, NEW e \in Emails, Register(c, e) PROVE AccountInv'
    BY <2>1, RegisterStep
  <2>2. ASSUME NEW c \in Calls, NEW key \in {k \in Keys : keys[k] # NoOne} \cup {NoOne},
               NEW bearer \in Live \cup Subs \cup {t \in Tokens : tokens[t] # NoOne} \cup {NoOne},
               NEW route \in Routes,
               NEW arg \in IF route = "revokeKey" THEN Keys
                           ELSE IF route = "revokeToken" THEN Tokens ELSE {NoOne},
               Present(c, key, bearer, route, arg)
        PROVE  AccountInv'
    BY <2>2, PresentStep
  <2>3. ASSUME NEW c \in Calls, CreateUser(c) \/ apiKeyAuth(c) \/ verifyToken(c) PROVE AccountInv'
    BY <2>3, CreateUserStep, ApiKeyAuthStep, VerifyTokenStep
  <2>4. ASSUME NEW c \in Calls, createKey(c) \/ revokeKey(c) \/ createToken(c) \/ revokeToken(c)
               \/ deleteToken(c)
        PROVE  AccountInv'
    BY <2>4, CreateKeyStep, RevokeKeyStep, CreateTokenStep, RevokeTokenStep, DeleteTokenStep
  <2>5. ASSUME NEW c \in Calls, provision(c) \/ writeTenant(c) \/ endpoints(c) PROVE AccountInv'
    BY <2>5, ProvisionStep, WriteTenantStep, EndpointsStep
  <2>6. ASSUME NEW k \in Keys, Expire(k) PROVE AccountInv'
    BY <2>6, ExpireStep
  <2> QED BY <1>1, <2>1, <2>2, <2>3, <2>4, <2>5, <2>6 DEF AccountStep
<1>2. CASE UNCHANGED accountVars
  <2>1. UNCHANGED <<users, keys, tokens, gone, request, opened>>
    BY <1>2 DEF accountVars
  <2>2. TypeInv' /\ OwnersInv' /\ OneAccountPerEmail' /\ OpenedInv'
    BY <2>1 DEF AccountInv, TypeInv, AccountTypeOK, OwnersInv, OneAccountPerEmail, OpenedInv, Live, Vouches
  <2>3. CallInv' /\ RaceInv'
    BY <2>1 DEF AccountInv, CallInv, RaceInv, Carried, Vouches, Provisioning, At, Live
  <2> QED BY <2>2, <2>3 DEF AccountInv
<1> QED BY <1>1, <1>2

LEMMA AccountInvHolds == AccountSpec => []AccountInv
BY AccountInitInv, AccountStepInv, PTL DEF AccountSpec

\* Through apiKeyAuth and verifyToken, each of which reads the database while keys
\* and tokens are revoked, a request reaches its handler only for the owner of a
\* credential that it carried and that was live when it was sent; and registrations
\* that race for an email make one account (apiKeyAuth.ts, auth.ts).
THEOREM CallsActForTheirOwner == AccountSpec => []CallsAreLive
<1>1. AccountInv => CallsAreLive
  BY DEF AccountInv, TypeInv, OpenedInv, Vouches, CallsAreLive, ActsForLiveCredential
<1> QED BY <1>1, AccountInvHolds, PTL

\* Provisioning reads the tenant, then writes one: a tenant that was written is
\* replaced only when calls of that user overlapped (provision in auth.ts).
THEOREM TenantsMoveInARace == AccountSpec => TenantMovesOnlyInARace
<1> DEFINE Moves == \A u \in Live :
        users[u].tenant # NoOne /\ users'[u].tenant # users[u].tenant =>
            \E c \in Calls : At(c, "write") /\ request[c].who = u /\ request[c].rivals # {}
<1>1. AccountInv /\ [AccountStep]_accountVars => [Moves]_accountVars
  <2> SUFFICES ASSUME AccountInv, AccountStep, NEW u \in Live, users[u].tenant # NoOne,
                      users'[u].tenant # users[u].tenant
               PROVE  \E c \in Calls : At(c, "write") /\ request[c].who = u /\ request[c].rivals # {}
    BY DEF accountVars
  <2>1. \A c \in Calls : ~CreateUser(c)
    <3> SUFFICES ASSUME NEW c \in Calls, CreateUser(c) PROVE FALSE
      OBVIOUS
    <3>1. users'[u] = users[u]
      BY DEF CreateUser, Live, AccountInv, TypeInv, AccountTypeOK
    <3> QED BY <3>1
  <2>2. PICK c \in Calls : writeTenant(c)
    BY <2>1 DEF AccountStep, Register, Present, apiKeyAuth, verifyToken, createKey, revokeKey,
                createToken, revokeToken, deleteToken, provision, endpoints, Expire
  <2>3. PICK v \in Live : v = request[c].who
    BY <2>2, HandlerIs DEF writeTenant, At, OpenRoutes
  <2>4. \E tenant \in FreshTenants : users' = [users EXCEPT ![v].tenant = tenant]
    BY <2>2, <2>3 DEF writeTenant
  <2>5. u = v
    BY <2>4 DEF Live, AccountInv, TypeInv, AccountTypeOK
  <2> QED BY <2>2, <2>3, <2>5 DEF writeTenant, Provisioning, At, AccountInv, RaceInv
<1> QED BY <1>1, AccountInvHolds, PTL DEF AccountSpec, TenantMovesOnlyInARace
-----------------------------------------------------------------------------
(* The editor's history. *)

\* The arrays made so far have ids below the next one's.
HistoryInv ==
    /\ HistoryTypeOK
    /\ HistoryAtCanvas
    /\ prevNodes = canvas /\ canvas.id <= made
    /\ \A i \in DOMAIN history : history[i].id <= made

\* pushHistory ends with what was pushed, keeps to the limit, and makes nothing up.
LEMMA Pushed ==
  ASSUME NEW h \in Seq(Canvases), NEW i \in 1..Len(h), NEW c \in Canvases, Len(h) <= HistoryMax
  PROVE  /\ pushHistory(h, i, c) \in Seq(Canvases)
         /\ Len(pushHistory(h, i, c)) \in 1..HistoryMax
         /\ pushHistory(h, i, c)[Len(pushHistory(h, i, c))] = c
         /\ \A j \in DOMAIN pushHistory(h, i, c) :
              pushHistory(h, i, c)[j] = c \/ \E k \in DOMAIN h : pushHistory(h, i, c)[j] = h[k]
<1> DEFINE kept == SubSeq(h, 1, i)
           stack == Append(kept, c)
           over == IF Len(stack) > HistoryMax THEN Len(stack) - HistoryMax ELSE 0
           result == SubSeq(stack, over + 1, Len(stack))
<1>1. i \in Nat /\ 1 <= i /\ i <= Len(h) /\ Len(h) \in Nat /\ HistoryMax \in Nat /\ HistoryMax >= 1
  BY HistoryAssumption
<1>2. kept \in Seq(Canvases) /\ Len(kept) = i /\ \A j \in 1..i : kept[j] = h[j]
  BY <1>1
<1>3. /\ stack \in Seq(Canvases) /\ Len(stack) = i + 1 /\ stack[i + 1] = c
      /\ \A j \in 1..i : stack[j] = h[j]
  BY <1>2
<1>4. over \in Nat /\ over <= 1 /\ over <= i /\ i + 1 - over <= HistoryMax
  BY <1>1, <1>3
<1>5. /\ result \in Seq(Canvases) /\ Len(result) = i + 1 - over
      /\ \A j \in 1..(i + 1 - over) : result[j] = stack[over + j]
  <2> HIDE DEF stack, over
  <2>1. /\ over + 1 \in Int /\ i + 1 \in Int /\ Len(stack) = i + 1
        /\ \A j \in (over + 1)..(i + 1) : stack[j] \in Canvases
    BY <1>1, <1>3, <1>4
  <2>2. /\ SubSeq(stack, over + 1, i + 1) \in Seq(Canvases)
        /\ Len(SubSeq(stack, over + 1, i + 1)) = IF over + 1 <= i + 1 THEN i + 1 - (over + 1) + 1 ELSE 0
        /\ \A j \in 1..(i + 1 - (over + 1) + 1) :
             SubSeq(stack, over + 1, i + 1)[j] = stack[over + 1 + j - 1]
    BY <2>1, SubSeqProperties
  <2>3. result = SubSeq(stack, over + 1, i + 1)
    BY <2>1
  <2> HIDE DEF result
  <2>4. result \in Seq(Canvases) /\ Len(result) = i + 1 - over
    BY <1>1, <1>4, <2>2, <2>3
  <2>5. ASSUME NEW j \in 1..(i + 1 - over) PROVE result[j] = stack[over + j]
    <3>1. j \in 1..(i + 1 - (over + 1) + 1) /\ over + 1 + j - 1 = over + j
      BY <1>1, <1>4
    <3> QED BY <2>2, <2>3, <3>1
  <2> QED BY <2>4, <2>5, Zenon
<1>6. pushHistory(h, i, c) = result
  BY DEF pushHistory
<1> HIDE DEF kept, stack, over, result
<1>7. i + 1 - over \in 1..HistoryMax /\ result[i + 1 - over] = c
  <2>1. i + 1 - over \in 1..HistoryMax
    BY <1>1, <1>4
  <2>2. i + 1 - over \in 1..(i + 1 - over) /\ over + (i + 1 - over) = i + 1
    BY <1>1, <1>4
  <2>3. result[i + 1 - over] = stack[over + (i + 1 - over)]
    BY <1>5, <2>2, Zenon
  <2> QED BY <1>3, <2>1, <2>2, <2>3, Zenon
<1>8. ASSUME NEW j \in DOMAIN result PROVE result[j] = c \/ \E k \in DOMAIN h : result[j] = h[k]
  <2>1. j \in 1..(i + 1 - over) /\ j \in Nat /\ result[j] = stack[over + j]
    BY <1>4, <1>5
  <2>2. CASE over + j = i + 1
    BY <1>3, <2>1, <2>2
  <2>3. CASE over + j # i + 1
    <3>1. over + j \in 1..i /\ over + j \in DOMAIN h
      BY <1>1, <1>4, <2>1, <2>3
    <3> QED BY <1>3, <2>1, <3>1
  <2> QED BY <2>2, <2>3
<1> QED BY <1>5, <1>6, <1>7, <1>8

\* A render leaves the history at what it shows, if the history stood there or the
\* arrays are other than the last ones.
LEMMA RenderedInv ==
  ASSUME NEW h \in Seq(Canvases), NEW i \in 1..Len(h), NEW c \in Canvases, Len(h) <= HistoryMax,
         Rendered(c, h, i), h[i] = c \/ c # prevNodes, made' \in 0..MaxChanges,
         c.id <= made', \A j \in DOMAIN h : h[j].id <= made'
  PROVE  HistoryInv'
<1>1. CASE c # prevNodes
  <2>1. history' = pushHistory(h, i, c) /\ historyIdx' = Len(history') /\ canvas' = c /\ prevNodes' = c
    BY <1>1 DEF Rendered
  <2>2. history' \in Seq(Canvases) /\ Len(history') \in 1..HistoryMax /\ history'[Len(history')] = c
    BY <2>1, Pushed
  <2>3. \A j \in DOMAIN history' : history'[j] = c \/ \E k \in DOMAIN h : history'[j] = h[k]
    BY <2>1, Pushed
  <2>4. \A j \in DOMAIN history' : history'[j].id <= made'
    BY <2>3
  <2>5. Len(history') <= HistoryMax /\ historyIdx' \in 1..Len(history')
    BY <2>1, <2>2, HistoryAssumption
  <2> QED BY <2>1, <2>2, <2>4, <2>5 DEF HistoryInv, HistoryTypeOK, HistoryAtCanvas
<1>2. CASE c = prevNodes
  <2>1. history' = h /\ historyIdx' = i /\ canvas' = c /\ prevNodes' = c
    BY <1>2 DEF Rendered
  <2> QED BY <1>2, <2>1 DEF HistoryInv, HistoryTypeOK, HistoryAtCanvas
<1> QED BY <1>1, <1>2

LEMMA HistoryStepInv == HistoryInv /\ [HistoryStep]_historyVars => HistoryInv'
<1> SUFFICES ASSUME HistoryInv, [HistoryStep]_historyVars PROVE HistoryInv'
  OBVIOUS
<1>0. /\ history \in Seq(Canvases) /\ historyIdx \in 1..Len(history) /\ Len(history) <= HistoryMax
      /\ made \in 0..MaxChanges /\ made \in Nat /\ MaxChanges \in Nat
      /\ prevNodes = canvas /\ history[historyIdx] = canvas /\ canvas.id <= made /\ canvas.id \in Nat
      /\ \A j \in DOMAIN history : history[j] \in Canvases /\ history[j].id <= made /\ history[j].id \in Nat
  <2>1. history \in Seq(Canvases) /\ canvas \in Canvases
    BY DEF HistoryInv, HistoryTypeOK
  <2>2. \A j \in DOMAIN history : history[j] \in Canvases
    BY <2>1
  <2> QED BY <2>1, <2>2, HistoryAssumption DEF HistoryInv, HistoryTypeOK, HistoryAtCanvas, Canvases
<1>1. ASSUME NEW shows \in Contents, Change(shows) PROVE HistoryInv'
  <2> DEFINE c == [id |-> made + 1, shows |-> shows]
  <2>1. Rendered(c, history, historyIdx) /\ made' = made + 1 /\ made < MaxChanges
    BY <1>1 DEF Change
  <2>2. c \in Canvases /\ c.id = made + 1 /\ made' \in 0..MaxChanges
    BY <1>0, <2>1 DEF Canvases
  <2>3. c # prevNodes
    BY <1>0, <2>2
  <2>4. \A j \in DOMAIN history : history[j].id <= made'
    BY <1>0, <2>1
  <2>5. c.id <= made'
    BY <1>0, <2>1
  <2> HIDE DEF c
  <2> QED BY <1>0, <2>1, <2>2, <2>3, <2>4, <2>5, RenderedInv
<1>2. ASSUME NEW shows \in Contents, importGeneratedWorkflow(shows) PROVE HistoryInv'
  <2> DEFINE b == [id |-> made + 1, shows |-> shows]
             c == [id |-> made + 2, shows |-> shows]
             pushed == pushHistory(history, historyIdx, b)
  <2>1. Rendered(c, pushed, Len(pushed)) /\ made' = made + 2 /\ made + 1 < MaxChanges
    BY <1>2 DEF importGeneratedWorkflow
  <2>2. b \in Canvases /\ c \in Canvases /\ b.id = made + 1 /\ c.id = made + 2 /\ made' \in 0..MaxChanges
    BY <1>0, <2>1 DEF Canvases
  <2>3. c # prevNodes
    BY <1>0, <2>2
  <2> HIDE DEF b, c
  <2>4. /\ pushed \in Seq(Canvases) /\ Len(pushed) \in 1..HistoryMax
        /\ \A j \in DOMAIN pushed : pushed[j] = b \/ \E k \in DOMAIN history : pushed[j] = history[k]
    BY <1>0, <2>2, Pushed
  <2>5. Len(pushed) \in 1..Len(pushed) /\ Len(pushed) <= HistoryMax
    BY <2>4, HistoryAssumption
  <2>6. \A j \in DOMAIN pushed : pushed[j].id <= made'
    BY <1>0, <2>1, <2>2, <2>4
  <2>7. c.id <= made'
    BY <1>0, <2>1, <2>2
  <2> HIDE DEF pushed
  <2> QED BY <2>1, <2>2, <2>3, <2>4, <2>5, <2>6, <2>7, RenderedInv
<1>3. CASE undo
  <2>1. Rendered(history[historyIdx - 1], history, historyIdx - 1) /\ made' = made
        /\ historyIdx - 1 \in 1..Len(history)
    BY <1>0, <1>3 DEF undo
  <2>2. history[historyIdx - 1] \in Canvases /\ history[historyIdx - 1].id <= made
    BY <1>0, <2>1
  <2> QED BY <1>0, <2>1, <2>2, RenderedInv
<1>4. CASE redo
  <2>1. Rendered(history[historyIdx + 1], history, historyIdx + 1) /\ made' = made
        /\ historyIdx + 1 \in 1..Len(history)
    BY <1>0, <1>4 DEF redo
  <2>2. history[historyIdx + 1] \in Canvases /\ history[historyIdx + 1].id <= made
    BY <1>0, <2>1
  <2> QED BY <1>0, <2>1, <2>2, RenderedInv
<1>5. CASE UNCHANGED historyVars
  BY <1>5 DEF historyVars, HistoryInv, HistoryTypeOK, HistoryAtCanvas
<1> QED BY <1>1, <1>2, <1>3, <1>4, <1>5 DEF HistoryStep

\* However changes, imports, undo and redo follow each other, and whatever fell off
\* the end of the history, it stands at the canvas on show (pushHistory and the
\* effect of Editor.tsx).
THEOREM UndoIsOfWhatIsSeen == HistorySpec => []UndoStartsHere
<1>1. HistoryInit => HistoryInv
  BY HistoryAssumption DEF HistoryInit, HistoryInv, HistoryTypeOK, HistoryAtCanvas, NoCanvas, Canvases
<1>2. HistoryInv => UndoStartsHere
  BY DEF HistoryInv, UndoStartsHere
<1> QED BY <1>1, <1>2, HistoryStepInv, PTL DEF HistorySpec

(***************************************************************************)
(* The page and its run.                                                   *)
(***************************************************************************)
\* An event of a channel.
TeleEvent == [type : NodeEvents \cup {"failed"}, run : PageRuns]
StreamEvent == [type : NodeEvents \cup {"start", "failed"}, run : PageRuns]
Step == NodeEvents \cup {"begin", "done", "fails", "start", "failed"}

CanvasTypes ==
  /\ status \in [PageRuns -> {Nothing, "PENDING", "RUNNING", "SUCCESS", "FAILED"}]
  /\ todo \in [PageRuns -> Seq(Step)]
  /\ truth \in [PageRuns -> NodeStatuses \cup {Nothing}]
  /\ tele \in Seq(TeleEvent) /\ stream \in Seq(StreamEvent)
  /\ joined \subseteq PageRuns /\ polls \subseteq PageRuns
  /\ cancelled \subseteq PageRuns /\ reopened \subseteq PageRuns
  /\ stage \in [PageRuns -> {"unused", "posted", "created", "answered", "refused"}]
  /\ page \in [executing : BOOLEAN, run : PageRuns \cup {NoRun}, fromTele : NodeStatuses \cup {Nothing},
               fromStream : NodeStatuses \cup {Nothing}, joining : SUBSET PageRuns]
  /\ clean \in BOOLEAN

NoEvents(r) ==
  /\ \A i \in DOMAIN tele : tele[i].run # r
  /\ \A i \in DOMAIN stream : stream[i].run # r

\* What the page knows of a run before its answer, and the worker before its row.
Known(r) ==
  stage[r] # "answered" => page.run # r /\ r \notin joined /\ r \notin page.joining /\ r \notin polls /\ r \notin cancelled
Made(r) == stage[r] \in {"unused", "posted"} => todo[r] = <<>> /\ truth[r] = Nothing /\ NoEvents(r)

\* Requests follow each other, and while one is under way the page has no run.
Waiting == {"posted", "created"}
InTurn ==
  /\ \A r, s \in PageRuns : s < r /\ stage[r] # "unused" => stage[s] \in {"answered", "refused"}
  /\ page.run # NoRun => \A r \in PageRuns : stage[r] \notin Waiting

\* How the steps left of a run agree with its row, its node and its last event.
Left(r) ==
  /\ \A i \in DOMAIN todo[r] : todo[r][i] = "begin" => i = 1 /\ status[r] \in {"PENDING", "FAILED"}
  /\ \A i \in DOMAIN todo[r] : todo[r][i] = "start" => truth[r] = Nothing /\ i <= 2 /\ (i = 2 => todo[r][1] = "begin")
  /\ \A j \in DOMAIN todo[r] : todo[r][j] = "failed" =>
       \/ \E i \in DOMAIN todo[r] : i < j /\ todo[r][i] = "fails"
       \/ RunOver(status[r]) /\ \A i \in DOMAIN todo[r] : todo[r][i] # "begin"
  /\ \A i \in DOMAIN tele : tele[i].type = "failed" /\ tele[i].run = r =>
       RunOver(status[r]) /\ \A j \in DOMAIN todo[r] : todo[r][j] # "begin"
  /\ r \in cancelled => RunOver(status[r]) \/ r \in reopened

\* The run the page is at, as long as nothing disturbs it: the others are over and
\* have nothing on its way, and the queues end with how its node fared.
Current(r) == page.run = r \/ stage[r] \in Waiting
Quiet(s) == todo[s] = <<>> /\ s \notin polls /\ s \notin cancelled /\ NoEvents(s)
EndsWith(q, st) ==
  \E i \in DOMAIN q : q[i].type \in NodeEvents /\ StatusOf[q[i].type] = st
                      /\ \A j \in DOMAIN q : j > i => q[j].type = "failed"
SaysNoMore(q) == \A i \in DOMAIN q : q[i].type = "failed"
Undisturbed(r) ==
  /\ \A s \in PageRuns : s # r => Quiet(s)
  /\ stage[r] \in Waiting => page.executing
  /\ page.run = r /\ ~page.executing => RunOver(status[r]) \/ r \in reopened
  /\ r \notin joined => page.fromTele = Nothing
  /\ truth[r] # Nothing =>
       /\ EndsWith(stream, truth[r]) \/ (SaysNoMore(stream) /\ page.fromStream = truth[r])
       /\ EndsWith(tele, truth[r]) \/ (SaysNoMore(tele) /\ page.fromTele \in {Nothing, truth[r]})

CanvasInv ==
  /\ CanvasTypes
  /\ \A r \in PageRuns : Known(r) /\ Made(r) /\ Left(r)
  /\ InTurn
  /\ RunningIsPolled
  /\ \A r \in PageRuns : clean /\ Current(r) => Undisturbed(r)

-----------------------------------------------------------------------------
LEMMA StatusFacts ==
  /\ NodeEvents = {"started", "finished", "error", "skipped"}
  /\ \A t \in NodeEvents : StatusOf[t] \in NodeStatuses /\ StatusOf[t] # Nothing
  /\ Nothing \notin NodeStatuses
BY DEF NodeEvents, StatusOf, NodeStatuses, Nothing

\* The order of a processor's steps: it begins, it starts, and it fails the row
\* before it says so.
InOrder(q) ==
  /\ \A i \in DOMAIN q : q[i] = "begin" => i = 1
  /\ \A i \in DOMAIN q : q[i] = "start" => i <= 2 /\ (i = 2 => q[1] = "begin")
  /\ \A j \in DOMAIN q : q[j] = "failed" => \E i \in DOMAIN q : i < j /\ q[i] = "fails"

LEMMA ScriptFacts == \A o \in DOMAIN Scripts : Scripts[o] \in Seq(Step) /\ InOrder(Scripts[o])
<1> SUFFICES ASSUME NEW o \in DOMAIN Scripts PROVE Scripts[o] \in Seq(Step) /\ InOrder(Scripts[o])
  OBVIOUS
<1>0. o \in {"success", "failure", "branch", "full", "timedOut"}
  BY DEF Scripts
<1> USE StatusFacts DEF Step
<1>1. CASE o = "success"
  <2>1. Scripts[o] = <<"begin", "start", "started", "finished", "done">>
    BY <1>1 DEF Scripts
  <2> QED BY <2>1 DEF InOrder
<1>2. CASE o = "failure"
  <2>1. Scripts[o] = <<"begin", "start", "started", "error", "fails", "failed">>
    BY <1>2 DEF Scripts
  <2> QED BY <2>1 DEF InOrder
<1>3. CASE o = "branch"
  <2>1. Scripts[o] = <<"begin", "start", "skipped", "done">>
    BY <1>3 DEF Scripts
  <2> QED BY <2>1 DEF InOrder
<1>4. CASE o = "full"
  <2>1. Scripts[o] = <<"begin", "start", "fails", "failed">>
    BY <1>4 DEF Scripts
  <2> QED BY <2>1 DEF InOrder
<1>5. CASE o = "timedOut"
  <2>1. Scripts[o] = <<"begin", "start", "started", "fails", "failed", "finished">>
    BY <1>5 DEF Scripts
  <2> QED BY <2>1 DEF InOrder
<1> QED BY <1>0, <1>1, <1>2, <1>3, <1>4, <1>5

\* What a queue is after its head was taken, and after an event was added.
LEMMA TailFacts ==
  ASSUME NEW S, NEW q \in Seq(S), q # <<>>
  PROVE  /\ Tail(q) \in Seq(S) /\ Head(q) = q[1] /\ 1 \in DOMAIN q /\ Head(q) \in S
         /\ \A i \in DOMAIN Tail(q) : i + 1 \in DOMAIN q /\ Tail(q)[i] = q[i + 1] /\ i \in Nat /\ i >= 1
         /\ \A i \in DOMAIN q : i \in Nat /\ i >= 1
         /\ \A i \in DOMAIN q : i # 1 => i - 1 \in DOMAIN Tail(q) /\ Tail(q)[i - 1] = q[i]
<1>1. Len(q) \in Nat /\ Len(q) >= 1 /\ DOMAIN q = 1..Len(q) /\ \A i \in 1..Len(q) : q[i] \in S
  OBVIOUS
<1>2. Tail(q) \in Seq(S) /\ Len(Tail(q)) = Len(q) - 1 /\ Head(q) = q[1]
      /\ \A i \in 1..(Len(q) - 1) : Tail(q)[i] = q[i + 1]
  BY <1>1
<1>3. DOMAIN Tail(q) = 1..(Len(q) - 1)
  BY <1>1, <1>2
<1>4. ASSUME NEW i \in DOMAIN q, i # 1 PROVE i - 1 \in DOMAIN Tail(q) /\ Tail(q)[i - 1] = q[i]
  <2>1. i - 1 \in 1..(Len(q) - 1) /\ (i - 1) + 1 = i
    BY <1>1, <1>4
  <2> QED BY <1>2, <1>3, <2>1
<1> QED BY <1>1, <1>2, <1>3, <1>4

LEMMA AppendFacts ==
  ASSUME NEW S, NEW q \in Seq(S), NEW e \in S
  PROVE  /\ Append(q, e) \in Seq(S) /\ Len(q) \in Nat
         /\ DOMAIN Append(q, e) = 1..(Len(q) + 1) /\ DOMAIN q = 1..Len(q)
         /\ \A i \in DOMAIN q : i \in DOMAIN Append(q, e) /\ Append(q, e)[i] = q[i]
         /\ Append(q, e)[Len(q) + 1] = e
         /\ \A i \in DOMAIN Append(q, e) : i \in DOMAIN q \/ (i = Len(q) + 1 /\ Append(q, e)[i] = e)
OBVIOUS

LEMMA AppendTells ==
  ASSUME NEW S, NEW q \in Seq(S), NEW e \in S
  PROVE  /\ e.type \in NodeEvents => EndsWith(Append(q, e), StatusOf[e.type])
         /\ e.type = "failed" => \A st : EndsWith(q, st) => EndsWith(Append(q, e), st)
         /\ e.type = "failed" /\ SaysNoMore(q) => SaysNoMore(Append(q, e))
<1> DEFINE a == Append(q, e)
<1>1. /\ Len(q) \in Nat /\ DOMAIN a = 1..(Len(q) + 1) /\ DOMAIN q = 1..Len(q)
      /\ \A i \in DOMAIN q : i \in DOMAIN a /\ a[i] = q[i]
      /\ a[Len(q) + 1] = e
      /\ \A i \in DOMAIN a : i \in DOMAIN q \/ (i = Len(q) + 1 /\ a[i] = e)
  BY AppendFacts
<1> HIDE DEF a
<1>2. ASSUME e.type \in NodeEvents PROVE EndsWith(a, StatusOf[e.type])
  <2>1. Len(q) + 1 \in DOMAIN a /\ \A j \in DOMAIN a : ~ (j > Len(q) + 1)
    BY <1>1
  <2> QED BY <1>1, <1>2, <2>1 DEF EndsWith
<1>3. ASSUME e.type = "failed", NEW st, EndsWith(q, st) PROVE EndsWith(a, st)
  <2>1. PICK i \in DOMAIN q : q[i].type \in NodeEvents /\ StatusOf[q[i].type] = st
                              /\ \A j \in DOMAIN q : j > i => q[j].type = "failed"
    BY <1>3 DEF EndsWith
  <2>2. i \in DOMAIN a /\ a[i] = q[i] /\ \A j \in DOMAIN a : j > i => a[j].type = "failed"
    BY <1>1, <1>3, <2>1
  <2> QED BY <2>1, <2>2 DEF EndsWith
<1>4. e.type = "failed" /\ SaysNoMore(q) => SaysNoMore(a)
  BY <1>1 DEF SaysNoMore
<1> QED BY <1>2, <1>3, <1>4 DEF a

LEMMA TailTells ==
  ASSUME NEW S, NEW q \in Seq(S), q # <<>>
  PROVE  /\ \A st : EndsWith(q, st) =>
              \/ EndsWith(Tail(q), st)
              \/ SaysNoMore(Tail(q)) /\ Head(q).type \in NodeEvents /\ StatusOf[Head(q).type] = st
         /\ SaysNoMore(q) => SaysNoMore(Tail(q)) /\ Head(q).type = "failed"
<1> DEFINE t == Tail(q)
<1>1. /\ Head(q) = q[1] /\ 1 \in DOMAIN q
      /\ \A i \in DOMAIN t : i + 1 \in DOMAIN q /\ t[i] = q[i + 1] /\ i \in Nat /\ i >= 1
      /\ \A i \in DOMAIN q : i \in Nat /\ i >= 1
      /\ \A i \in DOMAIN q : i # 1 => i - 1 \in DOMAIN t /\ t[i - 1] = q[i]
  BY TailFacts
<1> HIDE DEF t
<1>2. ASSUME NEW st, EndsWith(q, st)
      PROVE  EndsWith(t, st) \/ (SaysNoMore(t) /\ Head(q).type \in NodeEvents /\ StatusOf[Head(q).type] = st)
  <2>1. PICK i \in DOMAIN q : q[i].type \in NodeEvents /\ StatusOf[q[i].type] = st
                              /\ \A j \in DOMAIN q : j > i => q[j].type = "failed"
    BY <1>2 DEF EndsWith
  <2>2. CASE i = 1
    <3>1. ASSUME NEW j \in DOMAIN t PROVE t[j].type = "failed"
      <4>1. j + 1 \in DOMAIN q /\ t[j] = q[j + 1] /\ j + 1 > i
        BY <1>1, <2>2
      <4> QED BY <2>1, <4>1
    <3> QED BY <1>1, <2>1, <2>2, <3>1 DEF SaysNoMore
  <2>3. CASE i # 1
    <3>1. i - 1 \in DOMAIN t /\ t[i - 1] = q[i]
      BY <1>1, <2>3
    <3>2. ASSUME NEW j \in DOMAIN t, j > i - 1 PROVE t[j].type = "failed"
      <4>1. j + 1 \in DOMAIN q /\ t[j] = q[j + 1] /\ j + 1 > i
        BY <1>1, <3>2
      <4> QED BY <2>1, <4>1
    <3> QED BY <2>1, <3>1, <3>2 DEF EndsWith
  <2> QED BY <2>2, <2>3
<1>3. SaysNoMore(q) => SaysNoMore(t) /\ Head(q).type = "failed"
  BY <1>1 DEF SaysNoMore
<1> QED BY <1>2, <1>3 DEF t

-----------------------------------------------------------------------------
\* What is in a queue was in another.
Within(q, p) == \A i \in DOMAIN q : \E j \in DOMAIN p : q[i] = p[j]

LEMMA TailWithin == \A S : \A q \in Seq(S) : q # <<>> => Within(Tail(q), q)
<1> SUFFICES ASSUME NEW S, NEW q \in Seq(S), q # <<>>, NEW i \in DOMAIN Tail(q)
             PROVE  \E j \in DOMAIN q : Tail(q)[i] = q[j]
  BY DEF Within
<1> QED BY TailFacts

LEMMA Empties == \A q, p : Within(q, q) /\ (q = <<>> => Within(q, p))
BY DEF Within

LEMMA LeftApart ==
  ASSUME NEW r \in PageRuns, Left(r), todo'[r] = todo[r], status'[r] = status[r], truth'[r] = truth[r],
         \A i \in DOMAIN tele' : tele'[i].run = r => \E j \in DOMAIN tele : tele'[i] = tele[j],
         r \in cancelled' => r \in cancelled, r \in reopened => r \in reopened'
  PROVE  Left(r)'
<1>1. \A i \in DOMAIN tele' : tele'[i].type = "failed" /\ tele'[i].run = r =>
        RunOver(status[r]) /\ \A j \in DOMAIN todo[r] : todo[r][j] # "begin"
  BY DEF Left
<1> QED BY <1>1 DEF Left, RunOver

LEMMA LeftStill ==
  ASSUME NEW r \in PageRuns, Left(r), todo'[r] = todo[r], status'[r] = status[r], truth'[r] = truth[r],
         Within(tele', tele), r \in cancelled' => r \in cancelled, r \in reopened => r \in reopened'
  PROVE  Left(r)'
BY LeftApart DEF Within

LEMMA NoEventsStill ==
  ASSUME NEW r, NoEvents(r), Within(tele', tele), Within(stream', stream)
  PROVE  NoEvents(r)'
BY DEF NoEvents, Within

LEMMA QuietStill ==
  ASSUME NEW r \in PageRuns, Quiet(r), todo'[r] = todo[r], r \in polls' => r \in polls, r \in cancelled' => r \in cancelled,
         Within(tele', tele), Within(stream', stream)
  PROVE  Quiet(r)'
BY NoEventsStill DEF Quiet

\* A step of the page or of its channels.
LEMMA Calm ==
  ASSUME CanvasInv, UNCHANGED <<todo, status, truth, reopened>>, Within(tele', tele), Within(stream', stream),
         cancelled' \subseteq cancelled,
         \A r \in PageRuns : stage'[r] \in {"unused", "posted"} => stage[r] \in {"unused", "posted"}
  PROVE  \A r \in PageRuns : Made(r)' /\ Left(r)'
<1> SUFFICES ASSUME NEW r \in PageRuns PROVE Made(r)' /\ Left(r)'
  OBVIOUS
<1>1. Made(r) /\ Left(r)
  BY DEF CanvasInv
<1>2. Left(r)'
  BY <1>1, LeftStill
<1>3. Made(r)'
  BY <1>1, NoEventsStill DEF Made
<1> QED BY <1>2, <1>3

\* The page is at one run at most.
LEMMA OneCurrent ==
  ASSUME CanvasTypes, InTurn, NEW r \in PageRuns, NEW s \in PageRuns, Current(r), Current(s)
  PROVE  r = s
<1>1. r \in Nat /\ s \in Nat /\ NoRun \notin PageRuns
  BY CanvasAssumption
<1>2. CASE page.run = r \/ page.run = s
  BY <1>1, <1>2 DEF InTurn, Current
<1>3. CASE stage[r] \in Waiting /\ stage[s] \in Waiting
  <2>1. ~ (r < s) /\ ~ (s < r)
    BY <1>3 DEF InTurn, Waiting
  <2> QED BY <1>1, <2>1
<1> QED BY <1>2, <1>3 DEF Current

-----------------------------------------------------------------------------
LEMMA PressInv ==
  ASSUME CanvasInv, NEW w \in PageRuns, PressExecute(w)
  PROVE  CanvasInv'
<1>0. CanvasTypes /\ InTurn /\ \A r \in PageRuns : Known(r) /\ Made(r) /\ Left(r)
  BY DEF CanvasInv
<1>1. /\ stage[w] = "unused" /\ stage' = [stage EXCEPT ![w] = "posted"] /\ page' = Cleared(page)
      /\ \A s \in PageRuns : s < w => stage[s] \in {"answered", "refused"}
      /\ clean' = CanvasAtRest
      /\ UNCHANGED <<status, todo, truth, tele, stream, joined, polls, cancelled, reopened>>
  BY DEF PressExecute
<1>2. /\ page' \in [executing : BOOLEAN, run : PageRuns \cup {NoRun}, fromTele : NodeStatuses \cup {Nothing},
                     fromStream : NodeStatuses \cup {Nothing}, joining : SUBSET PageRuns]
      /\ page'.executing = TRUE /\ page'.run = NoRun /\ page'.fromTele = Nothing /\ page'.joining = page.joining
  BY <1>0, <1>1 DEF CanvasTypes, Cleared
<1>3. stage'[w] = "posted" /\ \A r \in PageRuns : r # w => stage'[r] = stage[r]
  BY <1>0, <1>1 DEF CanvasTypes
<1>4. CanvasTypes'
  BY <1>0, <1>1, <1>2 DEF CanvasTypes, CanvasAtRest
<1>5. \A r \in PageRuns : Made(r)' /\ Left(r)'
  BY <1>1, <1>3, Calm, Empties
<1>6. \A r \in PageRuns : Known(r)'
  <2>1. NoRun \notin PageRuns
    BY CanvasAssumption
  <2> QED BY <1>0, <1>1, <1>2, <1>3, <2>1 DEF Known
<1>7. InTurn'
  <2>1. ASSUME NEW r \in PageRuns, NEW s \in PageRuns, s < r, stage'[r] # "unused"
        PROVE  stage'[s] \in {"answered", "refused"}
    <3>1. s # w
      BY <1>0, <1>1, <1>3, <2>1 DEF InTurn
    <3> QED BY <1>0, <1>1, <1>3, <2>1, <3>1 DEF InTurn
  <2> QED BY <1>2, <2>1 DEF InTurn
<1>8. RunningIsPolled'
  BY <1>2, CanvasAssumption DEF RunningIsPolled
<1>9. ASSUME NEW r \in PageRuns, clean', Current(r)' PROVE Undisturbed(r)'
  <2>1. page'.run # r
    BY <1>2, CanvasAssumption
  <2>2. r = w
    <3>1. stage'[r] \in Waiting /\ (r # w => stage[r] \in Waiting /\ ~ (r < w))
      BY <1>1, <1>3, <1>9, <2>1 DEF Current, Waiting
    <3>2. ~ (w < r /\ stage[r] # "unused")
      BY <1>0, <1>1 DEF InTurn
    <3>3. r \in Nat /\ w \in Nat
      BY CanvasAssumption
    <3> QED BY <3>1, <3>2, <3>3 DEF Waiting
  <2>3. tele = <<>> /\ stream = <<>> /\ \A s \in PageRuns : todo[s] = <<>> /\ s \notin polls /\ s \notin cancelled
    <3>1. tele = <<>> /\ stream = <<>> /\ \A s \in PageRuns : LeftOf(s) = 0
      BY <1>1, <1>9 DEF CanvasAtRest
    <3>2. ASSUME NEW s \in PageRuns PROVE todo[s] = <<>> /\ s \notin (polls \cup cancelled)
      <4> DEFINE here == {s} \cap (polls \cup cancelled)
      <4>1. IsFiniteSet({s}) /\ here \in SUBSET {s}
        BY FS_Singleton
      <4>2. IsFiniteSet(here) /\ Cardinality(here) \in Nat /\ (Cardinality(here) = 0 <=> here = {})
        BY <4>1, FS_Subset, FS_CardinalityType, FS_EmptySet
      <4>3. todo[s] \in Seq(Step) /\ Len(todo[s]) \in Nat
        BY <1>0 DEF CanvasTypes
      <4>4. Len(todo[s]) + Cardinality(here) = 0
        BY <3>1 DEF LeftOf
      <4> HIDE DEF here
      <4>5. Len(todo[s]) = 0 /\ Cardinality(here) = 0
        BY <4>2, <4>3, <4>4
      <4> QED BY <4>2, <4>3, <4>5 DEF here
    <3> QED BY <3>1, <3>2
  <2>4. \A s \in PageRuns : Quiet(s)'
    BY <1>1, <2>3 DEF Quiet, NoEvents
  <2>5. truth'[r] = Nothing
    BY <1>0, <1>1, <2>2 DEF Made
  <2> QED BY <1>2, <2>1, <2>4, <2>5 DEF Undisturbed
<1> QED BY <1>4, <1>5, <1>6, <1>7, <1>8, <1>9 DEF CanvasInv

\* The row and the job of a run appear; nothing else knows of it.
LEMMA CreatedInv ==
  ASSUME CanvasInv, NEW w \in PageRuns, RunCreated(w)
  PROVE  CanvasInv'
<1>0. CanvasTypes /\ InTurn /\ RunningIsPolled /\ \A r \in PageRuns : Known(r) /\ Made(r) /\ Left(r)
  BY DEF CanvasInv
<1>1. PICK o \in Outcomes[w] :
      /\ stage[w] = "posted" /\ stage' = [stage EXCEPT ![w] = "created"]
      /\ status' = [status EXCEPT ![w] = "PENDING"] /\ todo' = [todo EXCEPT ![w] = Scripts[o]]
      /\ UNCHANGED <<truth, tele, stream, joined, page, polls, cancelled, clean, reopened>>
  BY DEF RunCreated
<1>2. Scripts[o] \in Seq(Step) /\ InOrder(Scripts[o])
  BY <1>1, CanvasAssumption, ScriptFacts
<1>3. /\ stage'[w] = "created" /\ todo'[w] = Scripts[o] /\ status'[w] = "PENDING"
      /\ \A r \in PageRuns : r # w => stage'[r] = stage[r] /\ todo'[r] = todo[r] /\ status'[r] = status[r]
  BY <1>0, <1>1 DEF CanvasTypes
<1>4. CanvasTypes'
  BY <1>0, <1>1, <1>2 DEF CanvasTypes
<1>5. Known(w) /\ Made(w) /\ NoEvents(w) /\ truth[w] = Nothing /\ w \notin cancelled
  BY <1>0, <1>1 DEF Known, Made
<1>6. Within(tele', tele) /\ Within(stream', stream)
  BY <1>1, Empties
<1>7. ASSUME NEW r \in PageRuns PROVE Known(r)' /\ Made(r)' /\ Left(r)'
  <2>1. CASE r = w
    <3>1. Left(w)'
      <4>1. /\ \A i \in DOMAIN todo'[w] : todo'[w][i] = "begin" => i = 1
            /\ \A i \in DOMAIN todo'[w] : todo'[w][i] = "start" => i <= 2 /\ (i = 2 => todo'[w][1] = "begin")
            /\ \A j \in DOMAIN todo'[w] : todo'[w][j] = "failed" => \E i \in DOMAIN todo'[w] : i < j /\ todo'[w][i] = "fails"
        BY <1>2, <1>3 DEF InOrder
      <4> QED BY <1>1, <1>3, <1>5, <4>1 DEF Left, NoEvents
    <3> QED BY <1>1, <1>3, <1>5, <2>1, <3>1 DEF Known, Made
  <2>2. CASE r # w
    <3>1. Left(r)'
      BY <1>0, <1>1, <1>3, <1>6, <2>2, LeftStill
    <3> QED BY <1>0, <1>1, <1>3, <2>2, <3>1 DEF Known, Made, NoEvents
  <2> QED BY <2>1, <2>2
<1>8. InTurn'
  <2>1. \A r \in PageRuns : stage'[r] # "unused" <=> stage[r] # "unused"
    BY <1>1, <1>3
  <2>2. \A r \in PageRuns : stage[r] \in {"answered", "refused"} => stage'[r] = stage[r]
    BY <1>1, <1>3
  <2>3. \A r \in PageRuns : stage'[r] \in Waiting => stage[r] \in Waiting
    BY <1>1, <1>3 DEF Waiting
  <2> QED BY <1>0, <1>1, <2>1, <2>2, <2>3 DEF InTurn
<1>9. RunningIsPolled'
  BY <1>0, <1>1 DEF RunningIsPolled
<1>10. ASSUME NEW r \in PageRuns, clean', Current(r)' PROVE Undisturbed(r)'
  <2>1. Current(r) /\ Current(w)
    BY <1>1, <1>3, <1>10 DEF Current, Waiting
  <2>2. r = w /\ Undisturbed(w)
    BY <1>0, <1>1, <1>10, <2>1, OneCurrent DEF CanvasInv
  <2>3. \A s \in PageRuns : s # w => Quiet(s)'
    BY <1>1, <1>3, <1>6, <2>2, QuietStill DEF Undisturbed
  <2>4. page.run # w
    BY <1>1, <1>5 DEF Known
  <2> QED BY <1>1, <1>3, <1>5, <2>2, <2>3, <2>4 DEF Undisturbed, Waiting
<1> QED BY <1>4, <1>7, <1>8, <1>9, <1>10 DEF CanvasInv

LEMMA RefusedInv ==
  ASSUME CanvasInv, NEW w \in PageRuns, ExecuteRefused(w)
  PROVE  CanvasInv'
<1>0. CanvasTypes /\ InTurn /\ RunningIsPolled /\ \A r \in PageRuns : Known(r) /\ Made(r) /\ Left(r)
  BY DEF CanvasInv
<1>1. /\ stage[w] \in Waiting /\ stage' = [stage EXCEPT ![w] = "refused"]
      /\ UNCHANGED <<status, todo, truth, tele, stream, joined, page, polls, cancelled, clean, reopened>>
  BY DEF ExecuteRefused, Waiting
<1>2. stage'[w] = "refused" /\ \A r \in PageRuns : r # w => stage'[r] = stage[r]
  BY <1>0, <1>1 DEF CanvasTypes
<1>3. CanvasTypes'
  BY <1>0, <1>1 DEF CanvasTypes
<1>4. \A r \in PageRuns : Made(r)' /\ Left(r)'
  BY <1>1, <1>2, Calm, Empties
<1>5. \A r \in PageRuns : Known(r)'
  BY <1>0, <1>1, <1>2 DEF Known, Waiting
<1>6. InTurn'
  BY <1>0, <1>1, <1>2 DEF InTurn, Waiting
<1>7. RunningIsPolled'
  BY <1>0, <1>1 DEF RunningIsPolled
<1>8. ASSUME NEW r \in PageRuns, clean', Current(r)' PROVE Undisturbed(r)'
  <2>1. Current(r) /\ Current(w)
    BY <1>1, <1>2, <1>8 DEF Current, Waiting
  <2>2. r = w
    BY <1>0, <2>1, OneCurrent
  <2>3. page.run # w
    BY <1>0, <1>1 DEF Known, Waiting
  <2> QED BY <1>1, <1>2, <1>8, <2>2, <2>3 DEF Current, Waiting
<1> QED BY <1>3, <1>4, <1>5, <1>6, <1>7, <1>8 DEF CanvasInv

\* The page learns which run is its own.
LEMMA AnsweredInv ==
  ASSUME CanvasInv, NEW w \in PageRuns, ExecuteAnswered(w)
  PROVE  CanvasInv'
<1>0. CanvasTypes /\ InTurn /\ RunningIsPolled /\ \A r \in PageRuns : Known(r) /\ Made(r) /\ Left(r)
  BY DEF CanvasInv
<1>1. /\ stage[w] = "created" /\ stage' = [stage EXCEPT ![w] = "answered"]
      /\ page' = [page EXCEPT !.run = w, !.joining = @ \cup {w}] /\ polls' = polls \cup {w}
      /\ UNCHANGED <<status, todo, truth, tele, stream, joined, cancelled, clean, reopened>>
  BY DEF ExecuteAnswered
<1>2. stage'[w] = "answered" /\ \A r \in PageRuns : r # w => stage'[r] = stage[r]
  BY <1>0, <1>1 DEF CanvasTypes
<1>3. /\ page' \in [executing : BOOLEAN, run : PageRuns \cup {NoRun}, fromTele : NodeStatuses \cup {Nothing},
                     fromStream : NodeStatuses \cup {Nothing}, joining : SUBSET PageRuns]
      /\ page'.executing = page.executing /\ page'.run = w /\ page'.fromTele = page.fromTele
      /\ page'.fromStream = page.fromStream /\ page'.joining = page.joining \cup {w}
  BY <1>0, <1>1 DEF CanvasTypes
<1>4. CanvasTypes'
  BY <1>0, <1>1, <1>3 DEF CanvasTypes
<1>5. \A r \in PageRuns : Made(r)' /\ Left(r)'
  BY <1>1, <1>2, Calm, Empties
<1>6. \A r \in PageRuns : Known(r)'
  BY <1>0, <1>1, <1>2, <1>3 DEF Known
<1>7. InTurn'
  <2>1. \A r \in PageRuns : stage[r] \in Waiting => r = w
    BY <1>0, <1>1, OneCurrent DEF Current, Waiting
  <2>2. \A r \in PageRuns : stage'[r] \notin Waiting
    BY <1>2, <2>1 DEF Waiting
  <2>3. \A r \in PageRuns : stage[r] \in {"answered", "refused"} => stage'[r] \in {"answered", "refused"}
    BY <1>1, <1>2
  <2>4. \A r \in PageRuns : stage'[r] # "unused" => stage[r] # "unused"
    BY <1>1, <1>2
  <2> QED BY <1>0, <2>2, <2>3, <2>4 DEF InTurn
<1>8. RunningIsPolled'
  BY <1>1, <1>3 DEF RunningIsPolled
<1>9. ASSUME NEW r \in PageRuns, clean', Current(r)' PROVE Undisturbed(r)'
  <2>1. (Current(w) /\ Current(r)) \/ r = w
    BY <1>1, <1>2, <1>3, <1>9 DEF Current, Waiting
  <2>2. r = w
    BY <1>0, <2>1, OneCurrent
  <2>3. Undisturbed(w)
    BY <1>1, <1>9 DEF CanvasInv, Current, Waiting
  <2>4. \A s \in PageRuns : s # w => Quiet(s)'
    BY <1>1, <2>3 DEF Undisturbed, Quiet, NoEvents
  <2>5. page'.executing
    BY <1>1, <1>3, <2>3 DEF Undisturbed, Waiting
  <2> QED BY <1>1, <1>2, <1>3, <2>2, <2>3, <2>4, <2>5 DEF Undisturbed, Waiting
<1> QED BY <1>4, <1>5, <1>6, <1>7, <1>8, <1>9 DEF CanvasInv

LEMMA JoinInv ==
  ASSUME CanvasInv, NEW w \in PageRuns, JoinExecution(w)
  PROVE  CanvasInv'
<1>0. CanvasTypes /\ InTurn /\ RunningIsPolled /\ \A r \in PageRuns : Known(r) /\ Made(r) /\ Left(r)
  BY DEF CanvasInv
<1>1. /\ w \in page.joining /\ joined' = joined \cup {w} /\ page' = [page EXCEPT !.joining = @ \ {w}]
      /\ UNCHANGED <<status, todo, truth, tele, stream, stage, polls, cancelled, clean, reopened>>
  BY DEF JoinExecution
<1>2. /\ page' \in [executing : BOOLEAN, run : PageRuns \cup {NoRun}, fromTele : NodeStatuses \cup {Nothing},
                     fromStream : NodeStatuses \cup {Nothing}, joining : SUBSET PageRuns]
      /\ page'.executing = page.executing /\ page'.run = page.run /\ page'.fromTele = page.fromTele
      /\ page'.fromStream = page.fromStream /\ page'.joining = page.joining \ {w}
  BY <1>0, <1>1 DEF CanvasTypes
<1>3. CanvasTypes'
  BY <1>0, <1>1, <1>2 DEF CanvasTypes
<1>4. \A r \in PageRuns : Made(r)' /\ Left(r)'
  BY <1>1, Calm, Empties
<1>5. \A r \in PageRuns : Known(r)'
  BY <1>0, <1>1, <1>2 DEF Known
<1>6. InTurn' /\ RunningIsPolled'
  BY <1>0, <1>1, <1>2 DEF InTurn, RunningIsPolled
<1>7. ASSUME NEW r \in PageRuns, clean', Current(r)' PROVE Undisturbed(r)'
  <2>1. Undisturbed(r)
    BY <1>1, <1>2, <1>7 DEF CanvasInv, Current
  <2>2. \A s \in PageRuns : s # r => Quiet(s)'
    BY <1>1, <2>1 DEF Undisturbed, Quiet, NoEvents
  <2> QED BY <1>1, <1>2, <2>1, <2>2 DEF Undisturbed
<1> QED BY <1>3, <1>4, <1>5, <1>6, <1>7 DEF CanvasInv

-----------------------------------------------------------------------------
\* A run is over where the page is told so, or will be begun although it is.
Ended(r) == RunOver(status[r]) \/ r \in reopened

\* An answer that ends the execution on the page, and is of the page's own run if
\* the page was undisturbed.
LEMMA EndedInv ==
  ASSUME CanvasInv, NEW w \in PageRuns, w \in polls \/ w \in cancelled, Ended(w),
         page' = [page EXCEPT !.executing = FALSE],
         polls' \subseteq polls, polls \ {w} \subseteq polls', cancelled' \subseteq cancelled,
         UNCHANGED <<status, todo, truth, tele, stream, joined, stage, clean, reopened>>
  PROVE  CanvasInv'
<1>0. CanvasTypes /\ InTurn /\ RunningIsPolled /\ \A r \in PageRuns : Known(r) /\ Made(r) /\ Left(r)
  BY DEF CanvasInv
<1>1. /\ page' \in [executing : BOOLEAN, run : PageRuns \cup {NoRun}, fromTele : NodeStatuses \cup {Nothing},
                     fromStream : NodeStatuses \cup {Nothing}, joining : SUBSET PageRuns]
      /\ page'.executing = FALSE /\ page'.run = page.run /\ page'.fromTele = page.fromTele
      /\ page'.fromStream = page.fromStream /\ page'.joining = page.joining
  BY <1>0 DEF CanvasTypes
<1>2. CanvasTypes'
  BY <1>0, <1>1 DEF CanvasTypes
<1>3. \A r \in PageRuns : Made(r)' /\ Left(r)'
  BY Calm, Empties
<1>4. \A r \in PageRuns : Known(r)'
  BY <1>0, <1>1 DEF Known
<1>5. InTurn' /\ RunningIsPolled'
  BY <1>0, <1>1 DEF InTurn, RunningIsPolled
<1>6. ASSUME NEW r \in PageRuns, clean', Current(r)' PROVE Undisturbed(r)'
  <2>1. Undisturbed(r)
    BY <1>1, <1>6 DEF CanvasInv, Current
  <2>2. \A s \in PageRuns : s # r => Quiet(s)'
    BY <2>1 DEF Undisturbed, Quiet, NoEvents
  <2>3. r = w
    BY <2>1 DEF Undisturbed, Quiet
  <2>4. stage[r] = "answered"
    BY <1>0, <2>3 DEF Known
  <2> QED BY <1>1, <2>1, <2>2, <2>3, <2>4 DEF Undisturbed, Ended, RunOver, Waiting
<1> QED BY <1>2, <1>3, <1>4, <1>5, <1>6 DEF CanvasInv

LEMMA PollInv ==
  ASSUME CanvasInv, NEW w \in PageRuns, Poll(w)
  PROVE  CanvasInv'
BY EndedInv DEF Poll, Ended

LEMMA CancelAnswerInv ==
  ASSUME CanvasInv, NEW w \in PageRuns, CancelAnswer(w)
  PROVE  CanvasInv'
<1>1. Left(w)
  BY DEF CanvasInv
<1> QED BY <1>1, EndedInv DEF CancelAnswer, Ended, Left

LEMMA CancelInv ==
  ASSUME CanvasInv, NEW w \in PageRuns, CancelExecution(w)
  PROVE  CanvasInv'
<1>0. CanvasTypes /\ InTurn /\ RunningIsPolled /\ \A r \in PageRuns : Known(r) /\ Made(r) /\ Left(r)
  BY DEF CanvasInv
<1>1. /\ status' = [status EXCEPT ![w] = "FAILED"]
      /\ cancelled' = IF page.run = w THEN cancelled \cup {w} ELSE cancelled
      /\ UNCHANGED <<todo, truth, tele, stream, joined, stage, page, polls, clean, reopened>>
  BY DEF CancelExecution
<1>2. status'[w] = "FAILED" /\ \A r \in PageRuns : r # w => status'[r] = status[r]
  BY <1>0, <1>1 DEF CanvasTypes
<1>3. CanvasTypes'
  BY <1>0, <1>1 DEF CanvasTypes
<1>4. Within(tele', tele) /\ Within(stream', stream)
  BY <1>1, Empties
<1>5. ASSUME NEW r \in PageRuns PROVE Known(r)' /\ Made(r)' /\ Left(r)'
  <2>1. Known(r)'
    BY <1>0, <1>1 DEF Known
  <2>2. Made(r)'
    BY <1>0, <1>1 DEF Made, NoEvents
  <2>3. CASE r = w
    BY <1>0, <1>1, <1>2, <2>1, <2>2, <2>3 DEF Left, RunOver, Unfinished
  <2>4. CASE r # w
    <3>1. Left(r)'
      BY <1>0, <1>1, <1>2, <1>4, <2>4, LeftStill
    <3> QED BY <2>1, <2>2, <3>1
  <2> QED BY <2>3, <2>4
<1>6. InTurn' /\ RunningIsPolled'
  BY <1>0, <1>1 DEF InTurn, RunningIsPolled
<1>7. ASSUME NEW r \in PageRuns, clean', Current(r)' PROVE Undisturbed(r)'
  <2>1. Undisturbed(r) /\ Current(r)
    BY <1>1, <1>7 DEF CanvasInv, Current
  <2>2. \A s \in PageRuns : s # r => s \notin cancelled'
    <3>1. page.run = w => r = w
      BY <1>0, <2>1, OneCurrent DEF Current
    <3> QED BY <1>1, <2>1, <3>1 DEF Undisturbed, Quiet
  <2>3. \A s \in PageRuns : s # r => Quiet(s)'
    BY <1>1, <2>1, <2>2 DEF Undisturbed, Quiet, NoEvents
  <2>4. RunOver(status[r]) => RunOver(status'[r])
    BY <1>2 DEF RunOver, Unfinished
  <2> QED BY <1>1, <2>1, <2>3, <2>4 DEF Undisturbed, RunOver
<1> QED BY <1>3, <1>5, <1>6, <1>7 DEF CanvasInv

\* What disturbs the page.
LEMMA DisturbedInv ==
  ASSUME CanvasInv, ForeignUpdate \/ Disconnect \/ LogsShown
  PROVE  CanvasInv'
<1>0. CanvasTypes /\ InTurn /\ RunningIsPolled /\ \A r \in PageRuns : Known(r) /\ Made(r) /\ Left(r)
  BY DEF CanvasInv
<1>1. /\ clean' = FALSE /\ joined' \subseteq joined /\ Within(tele', tele) /\ Within(stream', stream)
      /\ tele' \in {tele, <<>>} /\ stream' \in {stream, <<>>}
      /\ UNCHANGED <<status, todo, truth, stage, polls, cancelled, reopened>>
  BY Empties DEF ForeignUpdate, Disconnect, LogsShown
<1>2. /\ page' \in [executing : BOOLEAN, run : PageRuns \cup {NoRun}, fromTele : NodeStatuses \cup {Nothing},
                     fromStream : NodeStatuses \cup {Nothing}, joining : SUBSET PageRuns]
      /\ page'.executing = page.executing /\ page'.run = page.run /\ page'.joining = page.joining
  <2>1. CASE ForeignUpdate
    <3>1. PICK type \in {"start", "started"} : page' = Updated(type)
      BY <2>1 DEF ForeignUpdate
    <3>2. page' = [page EXCEPT !.fromStream = Nothing] \/ page' = [page EXCEPT !.fromStream = "running"]
      BY <3>1 DEF Updated, StatusOf
    <3> QED BY <1>0, <3>2 DEF CanvasTypes, NodeStatuses
  <2>2. CASE Disconnect
    BY <1>0, <2>2 DEF CanvasTypes, Disconnect
  <2>3. CASE LogsShown
    <3>1. PICK s \in Earlier : page' = [page EXCEPT !.fromTele = s]
      BY <2>3 DEF LogsShown
    <3>2. s \in NodeStatuses
      BY CanvasAssumption
    <3> QED BY <1>0, <3>1, <3>2 DEF CanvasTypes
  <2> QED BY <2>1, <2>2, <2>3
<1>3. CanvasTypes'
  <2>1. tele' \in Seq(TeleEvent) /\ stream' \in Seq(StreamEvent)
    <3>1. tele \in Seq(TeleEvent) /\ stream \in Seq(StreamEvent)
      BY <1>0 DEF CanvasTypes
    <3>2. <<>> \in Seq(TeleEvent) /\ <<>> \in Seq(StreamEvent)
      OBVIOUS
    <3> QED BY <1>1, <3>1, <3>2
  <2>2. joined' \subseteq PageRuns /\ clean' \in BOOLEAN
    BY <1>0, <1>1 DEF CanvasTypes
  <2> QED BY <1>0, <1>1, <1>2, <2>1, <2>2 DEF CanvasTypes
<1>4. \A r \in PageRuns : Made(r)' /\ Left(r)'
  BY <1>1, Calm
<1>5. \A r \in PageRuns : Known(r)'
  BY <1>0, <1>1, <1>2 DEF Known
<1>6. InTurn' /\ RunningIsPolled'
  BY <1>0, <1>1, <1>2 DEF InTurn, RunningIsPolled
<1> QED BY <1>1, <1>3, <1>4, <1>5, <1>6 DEF CanvasInv

-----------------------------------------------------------------------------
LEMMA TelemetryInv ==
  ASSUME CanvasInv, Telemetry
  PROVE  CanvasInv'
<1>0. CanvasTypes /\ InTurn /\ RunningIsPolled /\ \A r \in PageRuns : Known(r) /\ Made(r) /\ Left(r)
  BY DEF CanvasInv
<1> DEFINE event == Head(tele)
<1>1. /\ tele \in Seq(TeleEvent) /\ tele # <<>> /\ tele' = Tail(tele) /\ event = tele[1] /\ 1 \in DOMAIN tele
      /\ event \in TeleEvent /\ tele' \in Seq(TeleEvent)
      /\ UNCHANGED <<status, todo, truth, stream, joined, stage, polls, cancelled, clean, reopened>>
  BY <1>0, TailFacts DEF Telemetry, CanvasTypes
<1>2. \/ event.run \notin joined /\ page' = page
      \/ event.run \in joined /\ event.type = "failed" /\ page' = [page EXCEPT !.executing = FALSE]
      \/ event.run \in joined /\ event.type \in NodeEvents /\ page' = [page EXCEPT !.fromTele = StatusOf[event.type]]
  BY <1>1, StatusFacts DEF Telemetry, TeleEvent
<1> HIDE DEF event
<1>3. /\ page' \in [executing : BOOLEAN, run : PageRuns \cup {NoRun}, fromTele : NodeStatuses \cup {Nothing},
                     fromStream : NodeStatuses \cup {Nothing}, joining : SUBSET PageRuns]
      /\ page'.run = page.run /\ page'.fromStream = page.fromStream /\ page'.joining = page.joining
      /\ page'.executing => page.executing
      /\ page'.executing # page.executing => event.run \in joined /\ event.type = "failed"
      /\ page'.fromTele = IF event.run \in joined /\ event.type # "failed" THEN StatusOf[event.type] ELSE page.fromTele
  <2>1. "failed" \notin NodeEvents
    BY StatusFacts
  <2> QED BY <1>0, <1>2, <2>1, StatusFacts DEF CanvasTypes
<1>4. CanvasTypes'
  BY <1>0, <1>1, <1>3 DEF CanvasTypes
<1>5. Within(tele', tele) /\ Within(stream', stream)
  BY <1>1, TailWithin, Empties
<1>6. \A r \in PageRuns : Made(r)' /\ Left(r)'
  BY <1>1, <1>5, Calm
<1>7. \A r \in PageRuns : Known(r)'
  BY <1>0, <1>1, <1>3 DEF Known
<1>8. InTurn' /\ RunningIsPolled'
  BY <1>0, <1>1, <1>3 DEF InTurn, RunningIsPolled
<1>9. ASSUME NEW r \in PageRuns, clean', Current(r)' PROVE Undisturbed(r)'
  <2>1. Undisturbed(r)
    BY <1>1, <1>3, <1>9 DEF CanvasInv, Current
  <2>2. \A s \in PageRuns : s # r => Quiet(s)'
    BY <1>1, <1>5, <2>1, QuietStill DEF Undisturbed
  <2>3. event.run = r
    <3>1. event.run \in PageRuns
      BY <1>1 DEF TeleEvent
    <3> QED BY <1>1, <2>1, <3>1 DEF Undisturbed, Quiet, NoEvents
  <2>4. stage[r] \in Waiting => r \notin joined
    BY <1>0 DEF Known, Waiting
  <2>5. event.type = "failed" => RunOver(status[r])
    BY <1>0, <1>1, <2>3 DEF Left
  <2>6. /\ stage[r] \in Waiting => page'.executing
        /\ page.run = r /\ ~page'.executing => RunOver(status[r]) \/ r \in reopened
        /\ r \notin joined => page'.fromTele = Nothing
    BY <1>3, <2>1, <2>3, <2>4, <2>5 DEF Undisturbed
  <2>7. ASSUME truth[r] # Nothing
        PROVE  EndsWith(tele', truth[r]) \/ (SaysNoMore(tele') /\ page'.fromTele \in {Nothing, truth[r]})
    <3>1. CASE EndsWith(tele, truth[r])
      <4>1. \/ EndsWith(tele', truth[r])
            \/ SaysNoMore(tele') /\ event.type \in NodeEvents /\ StatusOf[event.type] = truth[r]
        BY <1>1, <3>1, TailTells DEF event
      <4> QED BY <1>3, <2>1, <2>3, <4>1, StatusFacts DEF Undisturbed
    <3>2. CASE SaysNoMore(tele) /\ page.fromTele \in {Nothing, truth[r]}
      <4>1. SaysNoMore(tele') /\ event.type = "failed"
        BY <1>1, <3>2, TailTells DEF event
      <4> QED BY <1>3, <3>2, <4>1
    <3> QED BY <2>1, <2>7, <3>1, <3>2 DEF Undisturbed
  <2>8. truth[r] # Nothing => EndsWith(stream, truth[r]) \/ (SaysNoMore(stream) /\ page'.fromStream = truth[r])
    BY <1>3, <2>1 DEF Undisturbed
  <2> QED BY <1>1, <1>3, <2>2, <2>6, <2>7, <2>8 DEF Undisturbed, RunOver, EndsWith, SaysNoMore
<1> QED BY <1>4, <1>6, <1>7, <1>8, <1>9 DEF CanvasInv

LEMMA UpdateInv ==
  ASSUME CanvasInv, ExecutionUpdate
  PROVE  CanvasInv'
<1>0. CanvasTypes /\ InTurn /\ RunningIsPolled /\ \A r \in PageRuns : Known(r) /\ Made(r) /\ Left(r)
  BY DEF CanvasInv
<1> DEFINE event == Head(stream)
<1>1. /\ stream \in Seq(StreamEvent) /\ stream # <<>> /\ stream' = Tail(stream)
      /\ event \in StreamEvent /\ stream' \in Seq(StreamEvent) /\ page' = Updated(event.type)
      /\ UNCHANGED <<status, todo, truth, tele, joined, stage, polls, cancelled, clean, reopened>>
  BY <1>0, TailFacts DEF ExecutionUpdate, CanvasTypes
<1>2. \/ event.type = "start" /\ page' = [page EXCEPT !.fromStream = Nothing]
      \/ event.type = "failed" /\ page' = page
      \/ event.type \in NodeEvents /\ page' = [page EXCEPT !.fromStream = StatusOf[event.type]]
  <2>1. event.type \in NodeEvents \cup {"start", "failed"}
    BY <1>1 DEF StreamEvent
  <2> HIDE DEF event
  <2> QED BY <1>1, <2>1, StatusFacts DEF Updated
<1> HIDE DEF event
<1>3. /\ page' \in [executing : BOOLEAN, run : PageRuns \cup {NoRun}, fromTele : NodeStatuses \cup {Nothing},
                     fromStream : NodeStatuses \cup {Nothing}, joining : SUBSET PageRuns]
      /\ page'.run = page.run /\ page'.executing = page.executing /\ page'.joining = page.joining
      /\ page'.fromTele = page.fromTele
      /\ event.type = "failed" => page'.fromStream = page.fromStream
      /\ event.type \in NodeEvents => page'.fromStream = StatusOf[event.type]
  <2>1. "failed" \notin NodeEvents /\ "start" \notin NodeEvents
    BY StatusFacts
  <2> QED BY <1>0, <1>2, <2>1, StatusFacts DEF CanvasTypes
<1>4. CanvasTypes'
  BY <1>0, <1>1, <1>3 DEF CanvasTypes
<1>5. Within(tele', tele) /\ Within(stream', stream)
  BY <1>1, TailWithin, Empties
<1>6. \A r \in PageRuns : Made(r)' /\ Left(r)'
  BY <1>1, <1>5, Calm
<1>7. \A r \in PageRuns : Known(r)'
  BY <1>0, <1>1, <1>3 DEF Known
<1>8. InTurn' /\ RunningIsPolled'
  BY <1>0, <1>1, <1>3 DEF InTurn, RunningIsPolled
<1>9. ASSUME NEW r \in PageRuns, clean', Current(r)' PROVE Undisturbed(r)'
  <2>1. Undisturbed(r)
    BY <1>1, <1>3, <1>9 DEF CanvasInv, Current
  <2>2. \A s \in PageRuns : s # r => Quiet(s)'
    BY <1>1, <1>5, <2>1, QuietStill DEF Undisturbed
  <2>3. ASSUME truth[r] # Nothing
        PROVE  EndsWith(stream', truth[r]) \/ (SaysNoMore(stream') /\ page'.fromStream = truth[r])
    <3>1. CASE EndsWith(stream, truth[r])
      <4>1. \/ EndsWith(stream', truth[r])
            \/ SaysNoMore(stream') /\ event.type \in NodeEvents /\ StatusOf[event.type] = truth[r]
        BY <1>1, <3>1, TailTells DEF event
      <4> QED BY <1>3, <4>1
    <3>2. CASE SaysNoMore(stream) /\ page.fromStream = truth[r]
      <4>1. SaysNoMore(stream') /\ event.type = "failed"
        BY <1>1, <3>2, TailTells DEF event
      <4> QED BY <1>3, <3>2, <4>1
    <3> QED BY <2>1, <2>3, <3>1, <3>2 DEF Undisturbed
  <2>4. truth[r] # Nothing => EndsWith(tele, truth[r]) \/ (SaysNoMore(tele) /\ page'.fromTele \in {Nothing, truth[r]})
    BY <1>3, <2>1 DEF Undisturbed
  <2> QED BY <1>1, <1>3, <2>1, <2>2, <2>3, <2>4 DEF Undisturbed, RunOver, EndsWith, SaysNoMore
<1> QED BY <1>4, <1>6, <1>7, <1>8, <1>9 DEF CanvasInv

-----------------------------------------------------------------------------
LEMMA WorkerInv ==
  ASSUME CanvasInv, NEW w \in PageRuns, WorkerStep(w)
  PROVE  CanvasInv'
<1>0. CanvasTypes /\ InTurn /\ RunningIsPolled /\ \A r \in PageRuns : Known(r) /\ Made(r) /\ Left(r)
  BY DEF CanvasInv
<1> DEFINE step == Head(todo[w])
           event == [type |-> step, run |-> w]
           q == todo[w]
<1>1. /\ q # <<>> /\ todo' = [todo EXCEPT ![w] = Tail(q)]
      /\ status' = IF step \in DOMAIN RowAfter THEN [status EXCEPT ![w] = RowAfter[step]] ELSE status
      /\ reopened' = IF step = "begin" /\ status[w] = "FAILED" THEN reopened \cup {w} ELSE reopened
      /\ truth' = IF step \in NodeEvents THEN [truth EXCEPT ![w] = StatusOf[step]] ELSE truth
      /\ stream' = IF step \in NodeEvents \cup {"start", "failed"} THEN Append(stream, event) ELSE stream
      /\ tele' = IF step \in NodeEvents \cup {"failed"} THEN Append(tele, event) ELSE tele
      /\ UNCHANGED <<joined, stage, page, polls, cancelled, clean>>
  BY DEF WorkerStep
<1>2. q \in Seq(Step)
  BY <1>0 DEF CanvasTypes
<1>3. /\ Tail(q) \in Seq(Step) /\ step = q[1] /\ 1 \in DOMAIN q /\ step \in Step
      /\ \A i \in DOMAIN Tail(q) : i + 1 \in DOMAIN q /\ Tail(q)[i] = q[i + 1] /\ i \in Nat /\ i >= 1
      /\ \A i \in DOMAIN q : i \in Nat /\ i >= 1
      /\ \A i \in DOMAIN q : i # 1 => i - 1 \in DOMAIN Tail(q) /\ Tail(q)[i - 1] = q[i]
  BY <1>1, <1>2, TailFacts
<1> HIDE DEF step, q
<1>4. /\ todo'[w] = Tail(q)
      /\ \A r \in PageRuns : r # w => todo'[r] = todo[r] /\ status'[r] = status[r] /\ truth'[r] = truth[r]
  BY <1>0, <1>1 DEF CanvasTypes
\* the row
<1>5. /\ step = "begin" => status'[w] = "RUNNING"
      /\ step = "done" => status'[w] = "SUCCESS"
      /\ step = "fails" => status'[w] = "FAILED"
      /\ step \notin {"begin", "done", "fails"} => status'[w] = status[w]
      /\ status' \in [PageRuns -> {Nothing, "PENDING", "RUNNING", "SUCCESS", "FAILED"}]
  <2>1. DOMAIN RowAfter = {"begin", "done", "fails"} /\ RowAfter["begin"] = "RUNNING"
        /\ RowAfter["done"] = "SUCCESS" /\ RowAfter["fails"] = "FAILED"
    BY DEF RowAfter
  <2> QED BY <1>0, <1>1, <2>1 DEF CanvasTypes
\* the node
<1>6. /\ truth'[w] = IF step \in NodeEvents THEN StatusOf[step] ELSE truth[w]
      /\ truth' \in [PageRuns -> NodeStatuses \cup {Nothing}]
  BY <1>0, <1>1, StatusFacts DEF CanvasTypes
\* the channels
<1>7. /\ step \in NodeEvents \cup {"failed"} => event \in TeleEvent /\ event \in StreamEvent
      /\ step = "start" => event \in StreamEvent
  BY DEF TeleEvent, StreamEvent
<1>8. event.run = w /\ event.type = step
  OBVIOUS
<1> HIDE DEF event
<1>9. tele \in Seq(TeleEvent) /\ stream \in Seq(StreamEvent)
  BY <1>0 DEF CanvasTypes
<1>10. /\ tele' \in Seq(TeleEvent)
       /\ \A i \in DOMAIN tele' : \/ \E j \in DOMAIN tele : tele'[i] = tele[j]
                                  \/ tele'[i] = event /\ step \in NodeEvents \cup {"failed"}
  <2>1. CASE step \in NodeEvents \cup {"failed"}
    BY <1>1, <1>7, <1>9, <2>1, AppendFacts
  <2>2. CASE step \notin NodeEvents \cup {"failed"}
    BY <1>1, <1>9, <2>2
  <2> QED BY <2>1, <2>2
<1>11. /\ stream' \in Seq(StreamEvent)
       /\ \A i \in DOMAIN stream' : (\E j \in DOMAIN stream : stream'[i] = stream[j]) \/ stream'[i] = event
  <2>1. CASE step \in NodeEvents \cup {"start", "failed"}
    <3>1. event \in StreamEvent
      BY <1>7, <2>1
    <3> QED BY <1>1, <1>9, <2>1, <3>1, AppendFacts
  <2>2. CASE step \notin NodeEvents \cup {"start", "failed"}
    BY <1>1, <1>9, <2>2
  <2> QED BY <2>1, <2>2
<1>12. CanvasTypes'
  <2>1. reopened' \subseteq PageRuns /\ todo' \in [PageRuns -> Seq(Step)]
    BY <1>0, <1>1, <1>3 DEF CanvasTypes
  <2> QED BY <1>0, <1>1, <1>5, <1>6, <1>10, <1>11, <2>1 DEF CanvasTypes
<1>13. \A r \in PageRuns : r # w /\ NoEvents(r) => NoEvents(r)'
  BY <1>8, <1>10, <1>11 DEF NoEvents
<1>14. Left(w)'
  <2>1. Left(w)
    BY <1>0
  <2>2. \A i \in DOMAIN q : q[i] = "begin" => i = 1 /\ status[w] \in {"PENDING", "FAILED"}
    BY <2>1 DEF Left, q
  <2>3. \A i \in DOMAIN q : q[i] = "start" => truth[w] = Nothing /\ i <= 2 /\ (i = 2 => q[1] = "begin")
    BY <2>1 DEF Left, q
  <2>4. \A j \in DOMAIN q : q[j] = "failed" =>
          \/ \E i \in DOMAIN q : i < j /\ q[i] = "fails"
          \/ RunOver(status[w]) /\ \A i \in DOMAIN q : q[i] # "begin"
    BY <2>1 DEF Left, q
  <2>5. \A i \in DOMAIN tele : tele[i].type = "failed" /\ tele[i].run = w =>
          RunOver(status[w]) /\ \A j \in DOMAIN q : q[j] # "begin"
    BY <2>1 DEF Left, q
  <2>6. \A i \in DOMAIN Tail(q) : Tail(q)[i] # "begin"
    BY <1>3, <2>2
  <2>7. step # "begin" /\ RunOver(status[w]) => RunOver(status'[w])
    BY <1>5 DEF RunOver, Unfinished
  <2>8. \A i \in DOMAIN Tail(q) : Tail(q)[i] = "start" => truth'[w] = Nothing /\ i <= 2 /\ (i = 2 => Tail(q)[1] = "begin")
    <3>1. SUFFICES ASSUME NEW i \in DOMAIN Tail(q), Tail(q)[i] = "start"
                   PROVE  truth'[w] = Nothing /\ i = 1
      OBVIOUS
    <3>2. i + 1 \in DOMAIN q /\ q[i + 1] = "start" /\ i \in Nat /\ i >= 1
      BY <1>3, <3>1
    <3>3. truth[w] = Nothing /\ i = 1 /\ step = "begin"
      BY <1>3, <2>3, <3>2
    <3> QED BY <1>6, <3>3, StatusFacts
  <2>9. ASSUME NEW j \in DOMAIN Tail(q), Tail(q)[j] = "failed"
        PROVE  \/ \E i \in DOMAIN Tail(q) : i < j /\ Tail(q)[i] = "fails"
               \/ RunOver(status'[w])
    <3>1. j + 1 \in DOMAIN q /\ q[j + 1] = "failed" /\ j \in Nat
      BY <1>3, <2>9
    <3>2. CASE \E i \in DOMAIN q : i < j + 1 /\ q[i] = "fails"
      <4>1. PICK i \in DOMAIN q : i < j + 1 /\ q[i] = "fails"
        BY <3>2
      <4>2. CASE i = 1
        BY <1>3, <1>5, <4>1, <4>2 DEF RunOver, Unfinished
      <4>3. CASE i # 1
        <5>1. i - 1 \in DOMAIN Tail(q) /\ Tail(q)[i - 1] = "fails" /\ i - 1 < j
          BY <1>3, <3>1, <4>1, <4>3
        <5> QED BY <5>1
      <4> QED BY <4>2, <4>3
    <3>3. CASE RunOver(status[w]) /\ \A i \in DOMAIN q : q[i] # "begin"
      BY <1>3, <2>7, <3>3
    <3> QED BY <2>4, <3>1, <3>2, <3>3
  <2>10. ASSUME NEW i \in DOMAIN tele', tele'[i].type = "failed", tele'[i].run = w
         PROVE  RunOver(status'[w])
    <3>1. CASE \E j \in DOMAIN tele : tele'[i] = tele[j]
      BY <1>3, <2>5, <2>7, <2>10, <3>1
    <3>2. CASE tele'[i] = event
      <4>1. step = "failed"
        BY <1>8, <2>10, <3>2
      <4>2. ~ \E k \in DOMAIN q : k < 1 /\ q[k] = "fails"
        BY <1>3
      <4>3. RunOver(status[w])
        BY <1>3, <2>4, <4>1, <4>2
      <4> QED BY <2>7, <4>1, <4>3
    <3> QED BY <1>10, <3>1, <3>2
  <2>11. w \in cancelled' => RunOver(status'[w]) \/ w \in reopened'
    <3>1. CASE step = "begin"
      BY <1>1, <1>3, <2>1, <2>2, <3>1 DEF Left, RunOver, Unfinished
    <3>2. CASE step # "begin"
      BY <1>1, <2>1, <2>7, <3>2 DEF Left
    <3> QED BY <3>1, <3>2
  <2>12. /\ \A i \in DOMAIN todo'[w] : todo'[w][i] # "begin"
         /\ \A i \in DOMAIN todo'[w] : todo'[w][i] = "start" =>
              truth'[w] = Nothing /\ i <= 2 /\ (i = 2 => todo'[w][1] = "begin")
         /\ \A j \in DOMAIN todo'[w] : todo'[w][j] = "failed" =>
              (\E i \in DOMAIN todo'[w] : i < j /\ todo'[w][i] = "fails") \/ RunOver(status'[w])
    BY <1>4, <2>6, <2>8, <2>9
  <2> QED BY <2>10, <2>11, <2>12 DEF Left, RunOver
<1>15. ASSUME NEW r \in PageRuns PROVE Known(r)' /\ Made(r)' /\ Left(r)'
  <2>1. Known(r)'
    BY <1>0, <1>1 DEF Known
  <2>2. Made(r)'
    <3>1. CASE r = w
      BY <1>0, <1>1, <3>1 DEF Made, q
    <3>2. CASE r # w
      BY <1>0, <1>1, <1>4, <1>13, <3>2 DEF Made
    <3> QED BY <3>1, <3>2
  <2>3. CASE r # w
    <3>1. \A i \in DOMAIN tele' : tele'[i].run = r => \E j \in DOMAIN tele : tele'[i] = tele[j]
      BY <1>8, <1>10, <2>3
    <3>2. Left(r)'
      BY <1>0, <1>1, <1>4, <2>3, <3>1, LeftApart
    <3> QED BY <2>1, <2>2, <3>2
  <2> QED BY <1>14, <2>1, <2>2, <2>3
<1>16. InTurn' /\ RunningIsPolled'
  BY <1>0, <1>1 DEF InTurn, RunningIsPolled
<1>17. ASSUME NEW r \in PageRuns, clean', Current(r)' PROVE Undisturbed(r)'
  <2>1. Undisturbed(r)
    BY <1>1, <1>17 DEF CanvasInv, Current
  <2>2. r = w
    BY <1>1, <2>1 DEF Undisturbed, Quiet, q
  <2>3. \A s \in PageRuns : s # r => Quiet(s)'
    BY <1>1, <1>4, <1>13, <2>1, <2>2 DEF Undisturbed, Quiet
  <2>4. RunOver(status[w]) \/ w \in reopened => RunOver(status'[w]) \/ w \in reopened'
    <3>1. step = "begin" => status[w] \in {"PENDING", "FAILED"}
      BY <1>0, <1>3 DEF Left, q
    <3> QED BY <1>1, <1>5, <3>1 DEF RunOver, Unfinished
  <2>5. ASSUME truth'[w] # Nothing
        PROVE  /\ EndsWith(stream', truth'[w]) \/ (SaysNoMore(stream') /\ page.fromStream = truth'[w])
               /\ EndsWith(tele', truth'[w]) \/ (SaysNoMore(tele') /\ page.fromTele \in {Nothing, truth'[w]})
    <3>1. CASE step \in NodeEvents
      <4>1. truth'[w] = StatusOf[event.type] /\ stream' = Append(stream, event) /\ tele' = Append(tele, event)
        BY <1>1, <1>6, <1>8, <3>1
      <4> QED BY <1>7, <1>8, <1>9, <3>1, <4>1, AppendTells
    <3>2. CASE step = "failed"
      <4>1. truth'[w] = truth[w] /\ stream' = Append(stream, event) /\ tele' = Append(tele, event)
        BY <1>1, <1>6, <3>2, StatusFacts
      <4>2. /\ EndsWith(stream, truth[w]) \/ (SaysNoMore(stream) /\ page.fromStream = truth[w])
            /\ EndsWith(tele, truth[w]) \/ (SaysNoMore(tele) /\ page.fromTele \in {Nothing, truth[w]})
        BY <2>1, <2>2, <2>5, <4>1 DEF Undisturbed
      <4>3. event \in StreamEvent /\ event \in TeleEvent /\ event.type = "failed"
        BY <1>7, <1>8, <3>2
      <4>4. EndsWith(stream', truth[w]) \/ (SaysNoMore(stream') /\ page.fromStream = truth[w])
        BY <1>9, <4>1, <4>2, <4>3, AppendTells
      <4>5. EndsWith(tele', truth[w]) \/ (SaysNoMore(tele') /\ page.fromTele \in {Nothing, truth[w]})
        BY <1>9, <4>1, <4>2, <4>3, AppendTells
      <4> QED BY <4>1, <4>4, <4>5
    <3>3. CASE step = "start"
      <4>1. truth[w] = Nothing
        BY <1>0, <1>3, <3>3 DEF Left, q
      <4>2. "start" \notin NodeEvents
        BY StatusFacts
      <4> QED BY <1>6, <2>5, <3>3, <4>1, <4>2
    <3>4. CASE step \notin NodeEvents \cup {"start", "failed"}
      BY <1>1, <1>6, <2>1, <2>2, <2>5, <3>4 DEF Undisturbed
    <3> QED BY <3>1, <3>2, <3>3, <3>4
  <2> QED BY <1>1, <2>1, <2>2, <2>3, <2>4, <2>5 DEF Undisturbed, RunOver, EndsWith, SaysNoMore
<1> QED BY <1>12, <1>15, <1>16, <1>17 DEF CanvasInv

-----------------------------------------------------------------------------
LEMMA CanvasInitInv == CanvasInit => CanvasInv
<1> SUFFICES ASSUME CanvasInit PROVE CanvasInv
  OBVIOUS
<1>1. page.run = NoRun /\ page.executing = FALSE /\ page.joining = {} /\ NoRun \notin PageRuns
  BY CanvasAssumption DEF CanvasInit
<1>2. CanvasTypes
  <2>1. tele \in Seq(TeleEvent) /\ stream \in Seq(StreamEvent) /\ todo \in [PageRuns -> Seq(Step)]
    BY DEF CanvasInit
  <2>2. page \in [executing : BOOLEAN, run : PageRuns \cup {NoRun}, fromTele : NodeStatuses \cup {Nothing},
                  fromStream : NodeStatuses \cup {Nothing}, joining : SUBSET PageRuns]
    BY DEF CanvasInit
  <2> QED BY <2>1, <2>2 DEF CanvasInit, CanvasTypes
<1>3. \A r \in PageRuns : Known(r) /\ Made(r) /\ Left(r) /\ ~Current(r)
  BY <1>1 DEF CanvasInit, Known, Made, Left, NoEvents, Current, Waiting
<1>4. InTurn /\ RunningIsPolled
  BY <1>1 DEF CanvasInit, InTurn, RunningIsPolled, Waiting
<1> QED BY <1>2, <1>3, <1>4 DEF CanvasInv

LEMMA CanvasStepInv == CanvasInv /\ [CanvasStep]_canvasVars => CanvasInv'
<1> SUFFICES ASSUME CanvasInv, [CanvasStep]_canvasVars PROVE CanvasInv'
  OBVIOUS
<1>1. CASE CanvasStep
  BY <1>1, WorkerInv, CancelInv, PressInv, CreatedInv, RefusedInv, AnsweredInv, JoinInv, PollInv,
     CancelAnswerInv, TelemetryInv, UpdateInv, DisturbedInv DEF CanvasStep
<1>2. CASE UNCHANGED canvasVars
  BY <1>2 DEF canvasVars, CanvasInv, CanvasTypes, Known, Made, NoEvents, Left, RunOver, InTurn, RunningIsPolled,
              Current, Undisturbed, Quiet, EndsWith, SaysNoMore
<1> QED BY <1>1, <1>2

LEMMA CanvasShows == CanvasInv => CanvasIsTrue
<1> SUFFICES ASSUME CanvasInv PROVE CanvasIsTrue
  OBVIOUS
<1>1. CanvasTypes /\ RunningIsPolled
  BY DEF CanvasInv
<1>2. LiveTypeOK
  <2>1. \A r \in PageRuns : todo[r] \in Seq(NodeEvents \cup DOMAIN RowAfter \cup {"start", "failed"})
    <3>1. DOMAIN RowAfter = {"begin", "done", "fails"}
      BY DEF RowAfter
    <3>2. Step = NodeEvents \cup DOMAIN RowAfter \cup {"start", "failed"}
      BY <3>1 DEF Step
    <3> QED BY <1>1, <3>2 DEF CanvasTypes
  <2>2. /\ \A i \in DOMAIN tele : tele[i] \in TeleEvent
        /\ \A i \in DOMAIN stream : stream[i] \in StreamEvent
    BY <1>1 DEF CanvasTypes
  <2>3. /\ page.run \in PageRuns \cup {NoRun} /\ page.executing \in BOOLEAN
        /\ {page.fromTele, page.fromStream, Shown(page)} \subseteq NodeStatuses \cup {Nothing}
        /\ page.joining \subseteq PageRuns
    BY <1>1 DEF CanvasTypes, Shown
  <2> QED BY <1>1, <2>1, <2>2, <2>3 DEF LiveTypeOK, CanvasTypes, TeleEvent, StreamEvent
<1>3. CanvasSettles
  <2> SUFFICES ASSUME NEW r \in PageRuns, clean, page.run = r, tele = <<>>, stream = <<>>, truth[r] # Nothing
               PROVE  Shown(page) = truth[r]
    BY DEF CanvasSettles
  <2>1. Undisturbed(r)
    BY DEF CanvasInv, Current
  <2> QED BY <2>1 DEF Undisturbed, EndsWith, Shown
<1>4. IdleIsHonest
  BY DEF CanvasInv, IdleIsHonest, Current, Undisturbed
<1> QED BY <1>1, <1>2, <1>3, <1>4 DEF CanvasIsTrue

\* Whatever the worker does, whichever events come before the page has joined, and
\* in whatever order polls, answers and the two channels reach it, an undisturbed
\* page shows what became of its run, and one that waits for a run still polls it
\* (the telemetry and update handlers, the poll and the cancel of Editor.tsx).
THEOREM CanvasTellsTheTruth == CanvasSpec => []CanvasIsTrue
<1> QED BY CanvasInitInv, CanvasStepInv, CanvasShows, PTL DEF CanvasSpec
=============================================================================
