------------------------------- MODULE AdminApi -------------------------------
(***************************************************************************)
(* The API's administrator: login, the check of the token that guards every *)
(* other request, logout, and the multi-signature settings that requests    *)
(* store in and read from MySQL.                                            *)
(*                                                                          *)
(* api/services/userService.go, mutiSignService.go, controllers/user-       *)
(* Controller.go, multiSignPoolController.go, middlewares/checkToken.go,    *)
(* models/multiSign.go.  Requests are served side by side; one is cut at    *)
(* each call to redis or MySQL.  The redis database is also the one that    *)
(* the task process flushes when it starts.                                 *)
(***************************************************************************)
EXTENDS Redis

CONSTANTS
  Requests,      \* requests that may be served at once
  Settings,      \* what a request may store
  Chains,
  ExpireTime,    \* ticks a token and a login state last
  MaxTokens, MaxEvents

ASSUME AdminApiAssumption ==
  /\ ExpireTime \in Nat \ {0} /\ MaxTokens \in Nat /\ MaxEvents \in Nat
  /\ Chains # {}
ASSUME AdminKeyAssumption == "admin" \in Keys

VARIABLES
  redis,
  tokens,     \* the tokens the browsers have: how long each is still valid
  multiSign,  \* the rows of multi_sign of each chain, in the order of their ids
  request,    \* the state of each request
  events,     \* calls that failed, crashes and flushes so far
  loggedIn,   \* history: ticks left to the last login, 0 after a logout
  unnoticed,    \* history: has redis failed during a login or logout?
  alone,      \* history: has no other request changed the chain since this one began?
  settled     \* history: the settings of each chain after a request that ran alone

session == <<redis, tokens, loggedIn, unnoticed>>
store == <<multiSign, alone, settled>>
vars == <<session, store, request, events>>

idle == [pc |-> "idle", token |-> 0,
         chain |-> CHOOSE c \in Chains : TRUE, body |-> {}, code |-> "none"]

Init ==
  /\ redis = emptied /\ tokens = <<>>
  /\ multiSign = [c \in Chains |-> <<>>]
  /\ request = [r \in Requests |-> idle]
  /\ events = 0 /\ loggedIn = 0 /\ unnoticed = FALSE
  /\ alone = [r \in Requests |-> FALSE]
  /\ settled = [c \in Chains |-> {}]

Event == events < MaxEvents /\ events' = events + 1
Answer(r, code) == request' = [request EXCEPT ![r] = [idle EXCEPT !.code = code]]

\* The routes that CheckToken guards; login, the lists and the price need no token.
routes == {"search", "debtTokenList", "setMultiSign", "getMultiSign", "logout"}

-----------------------------------------------------------------------------
(* Login and the token.                                                     *)

\* A right name and password: a token is made, and the login state is kept in
\* redis for as long as the token is valid.  An error of redis is ignored.
Login(r) ==
  /\ request[r].pc = "idle" /\ Len(tokens) < MaxTokens
  /\ tokens' = Append(tokens, ExpireTime)
  /\ loggedIn' = ExpireTime
  /\ Answer(r, "success")
  /\ \/ redis' = RedisSet(redis, "admin", "login_ok", ExpireTime).db /\ UNCHANGED <<events, unnoticed>>
     \/ Event /\ unnoticed' = TRUE /\ UNCHANGED redis
  /\ UNCHANGED store

LoginRefused(r) ==
  /\ request[r].pc = "idle" /\ Answer(r, "nameOrPasswordErr")
  /\ UNCHANGED <<session, store, events>>

\* A faulty check does not look whether the user has logged out.
validToken(t) == t \in DOMAIN tokens /\ tokens[t] > 0

\* CheckToken: a token that can be parsed and has not expired, and the login
\* state in redis.
CheckToken(t) ==
  LET got == RedisGet(redis, "admin")
  IN  t \in DOMAIN tokens /\ tokens[t] > 0 /\ got.ok /\ got.reply = json("login_ok")

\* A request arrives with a token and is let through or refused; an error of
\* redis refuses it too.
Arrive(r, kind, t, c, body) ==
  /\ request[r].pc = "idle"
  /\ \/ /\ CheckToken(t)
        /\ request' = [request EXCEPT ![r] =
             [pc |-> kind, token |-> t, chain |-> c, body |-> body, code |-> "none"]]
        /\ UNCHANGED events
     \/ ~CheckToken(t) /\ Answer(r, "tokenErr") /\ UNCHANGED events
     \/ CheckToken(t) /\ Event /\ Answer(r, "tokenErr")
  /\ UNCHANGED <<session, store>>

\* The login state is deleted, for every token; an error of redis is ignored.
Logout(r) ==
  /\ request[r].pc = "logout"
  /\ Answer(r, "success")
  /\ loggedIn' = 0
  /\ \/ redis' = RedisDelete(redis, "admin").db /\ UNCHANGED <<events, unnoticed>>
     \/ Event /\ unnoticed' = TRUE /\ UNCHANGED redis
  /\ UNCHANGED <<tokens, store>>

-----------------------------------------------------------------------------
(* Multi-signature settings.                                                *)

\* A change of a chain's rows by one request ends the others' being alone.
Disturb(r, c) == alone' = [q \in Requests |-> alone[q] /\ (q = r \/ request[q].chain # c)]

\* A faulty store adds the new row without deleting the chain's.
CreateOnly(r) ==
  /\ request[r].pc = "setMultiSign"
  /\ request' = [request EXCEPT ![r].pc = "create"]
  /\ alone' = [alone EXCEPT ![r] = TRUE]
  /\ UNCHANGED <<session, multiSign, settled, events>>

\* Set deletes the chain's rows...
DeleteRows(r) ==
  /\ request[r].pc = "setMultiSign"
  /\ \/ /\ multiSign' = [multiSign EXCEPT ![request[r].chain] = <<>>]
        /\ request' = [request EXCEPT ![r].pc = "create"]
        /\ alone' = [q \in Requests |-> q = r \/ (alone[q] /\ request[q].chain # request[r].chain)]
        /\ settled' = [settled EXCEPT ![request[r].chain] = {}]
        /\ UNCHANGED events
     \/ Event /\ Answer(r, "serverErr") /\ UNCHANGED store
  /\ UNCHANGED session

\* ...and creates one, in a statement, and a transaction, of its own.
CreateRow(r) ==
  LET c == request[r].chain
  IN  /\ request[r].pc = "create"
      /\ \/ /\ multiSign' = [multiSign EXCEPT ![c] = Append(@, request[r].body)]
            /\ Disturb(r, c)
            /\ settled' = [settled EXCEPT ![c] = IF alone[r] THEN {request[r].body} ELSE {}]
            /\ Answer(r, "success")
            /\ UNCHANGED events
         \/ Event /\ Answer(r, "serverErr") /\ UNCHANGED store
      /\ UNCHANGED session

SetMultiSign(r) == DeleteRows(r) \/ CreateRow(r)

\* Get answers the chain's first row, and nothing if it has none.
firstRow(c) == IF multiSign[c] = <<>> THEN {} ELSE Head(multiSign[c])

GetMultiSign(r) ==
  /\ request[r].pc = "getMultiSign"
  /\ \/ /\ request' = [request EXCEPT ![r] = [idle EXCEPT !.code = "success",
             !.chain = request[r].chain, !.body = firstRow(request[r].chain)]]
        /\ UNCHANGED events
     \/ Event /\ Answer(r, "serverErr")
  /\ UNCHANGED <<session, store>>

\* A search or a list of debt tokens, which ApiQueries follows further.
Query(r) ==
  /\ request[r].pc \in {"search", "debtTokenList"}
  /\ \/ Answer(r, "success") /\ UNCHANGED events
     \/ Event /\ Answer(r, "serverErr")
  /\ UNCHANGED <<session, store>>

-----------------------------------------------------------------------------

\* External: time passes for redis and for the tokens.
Tick ==
  /\ tokens # <<>> /\ (\E t \in DOMAIN tokens : tokens[t] > 0)
  /\ tokens' = [t \in DOMAIN tokens |-> IF tokens[t] > 0 THEN tokens[t] - 1 ELSE 0]
  /\ redis' = elapse(redis)
  /\ loggedIn' = IF loggedIn > 0 THEN loggedIn - 1 ELSE 0
  /\ UNCHANGED <<unnoticed, store, request, events>>

\* The task process starts and flushes the database.
Flush ==
  /\ Event
  /\ redis' = RedisFlushDB(redis).db
  /\ UNCHANGED <<tokens, loggedIn, unnoticed, store, request>>

\* The API process ends, with the requests it was serving.
Crash ==
  /\ Event
  /\ request' = [r \in Requests |-> idle]
  /\ UNCHANGED <<session, store>>

Serve(r) == Logout(r) \/ SetMultiSign(r) \/ GetMultiSign(r) \/ Query(r)

Next ==
  \/ \E r \in Requests :
       \/ Login(r) \/ LoginRefused(r) \/ Serve(r)
       \/ \E t \in 1..MaxTokens, c \in Chains :
            \/ \E kind \in routes \ {"setMultiSign"} : Arrive(r, kind, t, c, {})
            \/ \E body \in Settings : Arrive(r, "setMultiSign", t, c, body)
  \/ Tick \/ Flush \/ Crash

Spec == Init /\ [][Next]_vars

-----------------------------------------------------------------------------
(* Properties.                                                              *)

TypeOK ==
  /\ redis \in [Keys -> {none} \cup {entry("string", json("login_ok"), n) : n \in 1..ExpireTime}]
  /\ tokens \in Seq(0..ExpireTime) /\ Len(tokens) <= MaxTokens
  /\ multiSign \in [Chains -> Seq(Settings)]
  /\ request \in [Requests -> [pc : routes \cup {"idle", "create"},
                               token : 0..MaxTokens, chain : Chains, body : Settings \cup {{}},
                               code : {"none", "success", "tokenErr", "serverErr", "nameOrPasswordErr"}]]
  /\ events \in 0..MaxEvents
  /\ loggedIn \in 0..ExpireTime /\ unnoticed \in BOOLEAN
  /\ alone \in [Requests -> BOOLEAN] /\ settled \in [Chains -> SUBSET Settings]

admitted(r) == request[r].pc = "idle" /\ request'[r].pc \in routes

\* A request is let through only while a login lasts that no logout has
\* followed, though tokens outlive logouts and the login state is one for all
\* tokens; unless redis failed during a login or logout, which then answered
\* success all the same.
AdmittedOnlyLoggedIn ==
  [][\A r \in Requests : admitted(r) /\ ~unnoticed => loggedIn > 0]_vars

\* A SetMultiSign during which no other request changed its chain leaves
\* exactly its settings, whatever rows earlier requests that overlapped, failed
\* or crashed have left (DeleteRows, CreateRow).
SetAloneReplaces ==
  \A c \in Chains : \A s \in settled[c] :
    multiSign[c] = <<s>>
=============================================================================
