------------------------------ MODULE ApiProofs ------------------------------
(***************************************************************************)
(* The parts of the API process, for any number of requests, pools, keys    *)
(* and goroutines: the login state in redis and the settings in MySQL,      *)
(* however many calls fail and however often a process starts again; the    *)
(* locked map, in which a test and its write are one step to the others;    *)
(* the searches, page by page; the lifetimes of what redis keeps; and the   *)
(* mails of the balance monitor.                                            *)
(***************************************************************************)
EXTENDS AdminApi, ApiQueries, LockedMap, RedisStore, BackendUtils,
        SequenceTheorems, FiniteSetTheorems, TLAPS

-----------------------------------------------------------------------------
(* Sessions and the multi-signature store.                                  *)

\* What a request carries to a store of settings are settings.
CarriesSettings ==
  \A r \in Requests : request[r].pc \in {"setMultiSign", "create"} => request[r].body \in Settings

\* The login state in redis, if it is there, was written by the last login and
\* no logout has followed.
StateIsLogin ==
  ~unnoticed /\ redis["admin"] # none => redis["admin"].ttl = loggedIn

\* A request that has deleted its chain's rows and has not been disturbed
\* since finds none when it creates its own.
AloneFindsNone ==
  \A r \in Requests : alone[r] /\ request[r].pc = "create" => multiSign[request[r].chain] = <<>>

IInv == TypeOK /\ CarriesSettings /\ StateIsLogin /\ AloneFindsNone /\ SetAloneReplaces

-----------------------------------------------------------------------------
(* The lemmas.                                                              *)

\* The entries of redis.
Admins == {none} \cup {entry("string", json("login_ok"), n) : n \in 1..ExpireTime}

\* TypeOK by parts: what a login keeps, the settings, and the requests.
SessionOK ==
  /\ redis \in [Keys -> Admins]
  /\ tokens \in Seq(0..ExpireTime) /\ Len(tokens) <= MaxTokens
  /\ loggedIn \in 0..ExpireTime /\ unnoticed \in BOOLEAN

StoreOK ==
  /\ multiSign \in [Chains -> Seq(Settings)]
  /\ alone \in [Requests -> BOOLEAN] /\ settled \in [Chains -> SUBSET Settings]

RequestState == [pc : routes \cup {"idle", "create"}, token : 0..MaxTokens, chain : Chains,
                 body : Settings \cup {{}},
                 code : {"none", "success", "tokenErr", "serverErr", "nameOrPasswordErr"}]

\* The parts are the whole.
LEMMA Parts ==
  TypeOK <=> SessionOK /\ StoreOK /\ request \in [Requests -> RequestState] /\ events \in 0..MaxEvents
BY DEF TypeOK, Admins, SessionOK, StoreOK, RequestState

\* Requests are idle with an answer, or with none.
LEMMA Idle ==
  \A code \in {"none", "success", "tokenErr", "serverErr", "nameOrPasswordErr"} :
    /\ [idle EXCEPT !.code = code] \in RequestState
    /\ [idle EXCEPT !.code = code].pc = "idle"
    /\ idle \in RequestState /\ idle.pc = "idle"
<1>1. (CHOOSE c \in Chains : TRUE) \in Chains /\ 0 \in 0..MaxTokens
  BY AdminApiAssumption
<1> QED
  BY <1>1 DEF idle, RequestState

\* The state after Init.
LEMMA Initially == Init => IInv
<1> SUFFICES ASSUME Init PROVE IInv
  OBVIOUS
<1>1. SessionOK
  <2>1. redis \in [Keys -> Admins]
    BY DEF Init, Admins, emptied
  <2>2. tokens \in Seq(0..ExpireTime) /\ Len(tokens) <= MaxTokens
    BY AdminApiAssumption DEF Init
  <2>3. loggedIn \in 0..ExpireTime /\ unnoticed \in BOOLEAN
    <3>1. loggedIn = 0 /\ unnoticed = FALSE
      BY DEF Init
    <3>2. 0 \in 0..ExpireTime
      BY AdminApiAssumption
    <3> QED
      BY <3>1, <3>2
  <2> QED
    BY <2>1, <2>2, <2>3 DEF SessionOK
<1>2. StoreOK /\ request \in [Requests -> RequestState] /\ events \in 0..MaxEvents
  BY AdminApiAssumption, Idle DEF Init, StoreOK
<1>3. StateIsLogin
  BY AdminKeyAssumption DEF Init, StateIsLogin, emptied
<1> QED
  BY <1>1, <1>2, <1>3, Parts, Idle
  DEF Init, IInv, CarriesSettings, AloneFindsNone, SetAloneReplaces

\* What redis is left with by a login, a logout or a flush, and by a tick.
LEMMA Written ==
  ASSUME NEW n \in 1..ExpireTime, redis \in [Keys -> Admins]
  PROVE  /\ RedisSet(redis, "admin", "login_ok", n).db \in [Keys -> Admins]
         /\ RedisSet(redis, "admin", "login_ok", n).db["admin"] = entry("string", json("login_ok"), n)
<1> DEFINE e == entry("string", json("login_ok"), n)
<1>1. RedisSet(redis, "admin", "login_ok", n).db = [redis EXCEPT !["admin"] = e]
  <2>1. lifetime(n) = n
    BY AdminApiAssumption DEF lifetime
  <2> QED
    BY <2>1 DEF RedisSet, done, put
<1>2. e \in Admins
  BY DEF Admins
<1> QED
  BY <1>1, <1>2, AdminKeyAssumption

\* Logging out leaves no login state, and states of the right type (RedisDelete).
LEMMA Deleted ==
  ASSUME redis \in [Keys -> Admins]
  PROVE  /\ RedisDelete(redis, "admin").db \in [Keys -> Admins]
         /\ RedisDelete(redis, "admin").db["admin"] = none
BY AdminKeyAssumption DEF RedisDelete, done, put, Admins

\* So does the scheduler's flush (RedisFlushDB).
LEMMA Flushed ==
  RedisFlushDB(redis).db \in [Keys -> Admins] /\ RedisFlushDB(redis).db["admin"] = none
BY AdminKeyAssumption DEF RedisFlushDB, done, emptied, Admins

\* Time only shortens a login state's life (RedisSet's lifetime).
LEMMA Elapsed ==
  ASSUME redis \in [Keys -> Admins]
  PROVE  /\ elapse(redis) \in [Keys -> Admins]
         /\ elapse(redis)["admin"] # none =>
              redis["admin"] # none /\ elapse(redis)["admin"].ttl = redis["admin"].ttl - 1
<1> SUFFICES ASSUME NEW k \in Keys
             PROVE  /\ elapse(redis)[k] \in Admins
                    /\ elapse(redis)[k] # none =>
                         redis[k] # none /\ elapse(redis)[k].ttl = redis[k].ttl - 1
  BY AdminKeyAssumption DEF elapse
<1>1. CASE redis[k] = none
  BY <1>1 DEF elapse, Admins
<1>2. CASE redis[k] # none
  <2>1. PICK n \in 1..ExpireTime : redis[k] = entry("string", json("login_ok"), n)
    BY <1>2 DEF Admins
  <2>2. redis[k].ttl = n /\ n # Forever
    BY <2>1, AdminApiAssumption DEF entry, Forever
  <2>3. CASE n = 1
    BY <1>2, <2>2, <2>3 DEF elapse, Admins
  <2>4. CASE n # 1
    <3>1. elapse(redis)[k] = entry("string", json("login_ok"), n - 1)
      BY <1>2, <2>1, <2>2, <2>4 DEF elapse, entry
    <3>2. n - 1 \in 1..ExpireTime
      BY <2>4, AdminApiAssumption
    <3> QED
      BY <1>2, <2>2, <3>1, <3>2 DEF Admins, entry
  <2> QED
    BY <2>3, <2>4
<1> QED
  BY <1>1, <1>2

\* What a login, a logout, time and a start of the task process leave in redis is
\* the state of the last login.
LEMMA SessionKept ==
  ASSUME SessionOK, StateIsLogin, [Next]_vars
  PROVE  SessionOK' /\ StateIsLogin'
<1> USE AdminApiAssumption
<1>1. CASE UNCHANGED session
  BY <1>1 DEF session, SessionOK, StateIsLogin
<1>2. ASSUME NEW r \in Requests, Login(r)
      PROVE  SessionOK' /\ StateIsLogin'
  <2>1. tokens' \in Seq(0..ExpireTime) /\ Len(tokens') <= MaxTokens
    BY <1>2 DEF Login, SessionOK
  <2>2. loggedIn' = ExpireTime /\ loggedIn' \in 0..ExpireTime
    BY <1>2 DEF Login
  <2>3. CASE redis' = RedisSet(redis, "admin", "login_ok", ExpireTime).db /\ UNCHANGED unnoticed
    <3>1. redis' \in [Keys -> Admins] /\ redis'["admin"] = entry("string", json("login_ok"), ExpireTime)
      <4>1. ExpireTime \in 1..ExpireTime
        OBVIOUS
      <4>2. redis \in [Keys -> Admins]
        BY DEF SessionOK
      <4> QED
        BY <4>1, <4>2, <2>3, Written
    <3>2. redis'["admin"].ttl = ExpireTime
      BY <3>1 DEF entry
    <3> QED
      BY <2>1, <2>2, <2>3, <3>1, <3>2 DEF SessionOK, StateIsLogin
  <2>4. CASE unnoticed' = TRUE /\ UNCHANGED redis
    BY <2>1, <2>2, <2>4 DEF SessionOK, StateIsLogin
  <2> QED
    BY <1>2, <2>3, <2>4 DEF Login
<1>3. ASSUME NEW r \in Requests, Logout(r)
      PROVE  SessionOK' /\ StateIsLogin'
  <2>1. loggedIn' \in 0..ExpireTime /\ UNCHANGED tokens
    BY <1>3 DEF Logout
  <2>2. CASE redis' = RedisDelete(redis, "admin").db /\ UNCHANGED unnoticed
    BY <2>1, <2>2, Deleted DEF SessionOK, StateIsLogin
  <2>3. CASE unnoticed' = TRUE /\ UNCHANGED redis
    BY <2>1, <2>3 DEF SessionOK, StateIsLogin
  <2> QED
    BY <1>3, <2>2, <2>3 DEF Logout
<1>4. CASE Tick
  <2>1. redis' \in [Keys -> Admins] /\ redis' = elapse(redis)
    BY <1>4, Elapsed DEF Tick, SessionOK
  <2>2. tokens' \in Seq(0..ExpireTime) /\ Len(tokens') <= MaxTokens
    <3>1. /\ tokens' = [t \in 1..Len(tokens) |-> IF tokens[t] > 0 THEN tokens[t] - 1 ELSE 0]
          /\ \A t \in 1..Len(tokens) : tokens[t] \in 0..ExpireTime
          /\ Len(tokens) \in Nat
      BY <1>4 DEF Tick, SessionOK
    <3>2. \A t \in 1..Len(tokens) : tokens'[t] \in 0..ExpireTime
      BY <3>1
    <3>3. tokens' \in Seq(0..ExpireTime) /\ Len(tokens') = Len(tokens)
      BY <3>1, <3>2, IsASeq
    <3> QED
      BY <3>3 DEF SessionOK
  <2>3. loggedIn' = IF loggedIn > 0 THEN loggedIn - 1 ELSE 0
    BY <1>4 DEF Tick
  <2>4. loggedIn' \in 0..ExpireTime /\ UNCHANGED unnoticed
    BY <1>4, <2>3 DEF Tick, SessionOK
  <2>5. StateIsLogin'
    <3> SUFFICES ASSUME ~unnoticed', redis'["admin"] # none
                 PROVE  redis'["admin"].ttl = loggedIn'
      BY DEF StateIsLogin
    <3>1. redis["admin"] # none /\ redis'["admin"].ttl = redis["admin"].ttl - 1
      BY <2>1, Elapsed DEF SessionOK
    <3>2. redis["admin"].ttl = loggedIn
      BY <3>1, <2>4 DEF StateIsLogin
    <3>3. redis["admin"].ttl \in 1..ExpireTime
      BY <3>1, AdminKeyAssumption DEF SessionOK, Admins, entry
    <3> QED
      BY <3>1, <3>2, <3>3, <2>3
  <2> QED
    BY <2>1, <2>2, <2>4, <2>5 DEF SessionOK
<1>5. CASE Flush
  BY <1>5, Flushed DEF Flush, SessionOK, StateIsLogin
<1>6. UNCHANGED session \/ (\E r \in Requests : Login(r) \/ Logout(r)) \/ Tick \/ Flush
  BY DEF Next, vars, LoginRefused, Serve, SetMultiSign, DeleteRows, CreateRow, GetMultiSign,
         Query, Arrive, Crash
<1> QED
  BY <1>1, <1>2, <1>3, <1>4, <1>5, <1>6

\* The effect of a step on the requests: one of them moves, or all end.
Moves(r, q) ==
  /\ q \in RequestState /\ request' = [request EXCEPT ![r] = q]
  /\ q.pc \in {"setMultiSign", "create"} => q.body \in Settings

\* A request that is answered moves to a state of its own and is idle again.
LEMMA Answered ==
  ASSUME NEW r \in Requests, request \in [Requests -> RequestState],
         NEW code \in {"none", "success", "tokenErr", "serverErr", "nameOrPasswordErr"},
         Answer(r, code)
  PROVE  \E q \in RequestState : Moves(r, q) /\ q.pc = "idle"
<1> DEFINE q == [idle EXCEPT !.code = code]
<1>1. q \in RequestState /\ q.pc = "idle"
  BY Idle
<1>2. request' = [request EXCEPT ![r] = q]
  BY DEF Answer
<1> HIDE DEF q
<1> QED
  BY <1>1, <1>2 DEF Moves

\* Every step but a restart is one of a request: it leaves the settings alone and
\* the request outside a store, or is a step of a store.
LEMMA RequestsKept ==
  ASSUME TypeOK, CarriesSettings, [Next]_vars
  PROVE  /\ request' \in [Requests -> RequestState] /\ CarriesSettings' /\ events' \in 0..MaxEvents
         /\ \/ /\ UNCHANGED store
               /\ \A r \in Requests : request'[r].pc = "create" => request'[r] = request[r]
            \/ \E r \in Requests : SetMultiSign(r) /\ UNCHANGED session
<1> DEFINE Others == UNCHANGED store /\ \A r \in Requests : request'[r].pc = "create" => request'[r] = request[r]
           Stores == \E r \in Requests : SetMultiSign(r) /\ UNCHANGED session
           Good == request' \in [Requests -> RequestState] /\ CarriesSettings'
<1> USE Parts
<1>1. \A r \in Requests : \A q : Moves(r, q) => Good /\ (UNCHANGED store /\ q.pc # "create" => Others)
  <2> SUFFICES ASSUME NEW r \in Requests, NEW q, Moves(r, q)
               PROVE  Good /\ (UNCHANGED store /\ q.pc # "create" => Others)
    OBVIOUS
  <2>1. request'[r] = q /\ \A o \in Requests \ {r} : request'[o] = request[o]
    BY DEF Moves
  <2>2. request' \in [Requests -> RequestState]
    BY DEF Moves
  <2>3. CarriesSettings'
    BY <2>1 DEF Moves, CarriesSettings
  <2> QED
    BY <2>1, <2>2, <2>3
<1>2. \A r \in Requests : \A code \in {"none", "success", "tokenErr", "serverErr", "nameOrPasswordErr"} :
        Answer(r, code) => Good /\ (UNCHANGED store => Others)
  BY <1>1, Answered
<1>3. ASSUME NEW r \in Requests, Login(r) \/ LoginRefused(r) \/ Logout(r) \/ Query(r)
      PROVE  Good /\ Others
  BY <1>2, <1>3 DEF Login, LoginRefused, Logout, Query, session
<1>4. ASSUME NEW r \in Requests, NEW t \in 1..MaxTokens, NEW c \in Chains, NEW kind \in routes,
             NEW body \in Settings \cup {{}}, kind = "setMultiSign" => body \in Settings,
             Arrive(r, kind, t, c, body)
      PROVE  Good /\ Others
  <2>1. CASE Answer(r, "tokenErr")
    BY <1>2, <1>4, <2>1 DEF Arrive
  <2> DEFINE q == [pc |-> kind, token |-> t, chain |-> c, body |-> body, code |-> "none"]
  <2>2. CASE request' = [request EXCEPT ![r] = q]
    <3>1. q \in RequestState
      BY DEF RequestState
    <3>2. q.pc # "create" /\ (q.pc \in {"setMultiSign", "create"} => q.body \in Settings)
      BY <1>4 DEF routes
    <3> HIDE DEF q
    <3> QED
      BY <1>1, <1>4, <2>2, <3>1, <3>2 DEF Moves, Arrive
  <2> QED
    BY <1>4, <2>1, <2>2 DEF Arrive
<1>5. ASSUME NEW r \in Requests, GetMultiSign(r)
      PROVE  Good /\ Others
  <2>1. CASE Answer(r, "serverErr")
    BY <1>2, <1>5, <2>1 DEF GetMultiSign
  <2> DEFINE q == [idle EXCEPT !.code = "success", !.chain = request[r].chain,
                               !.body = firstRow(request[r].chain)]
  <2>2. CASE request' = [request EXCEPT ![r] = q]
    <3>1. request[r].chain \in Chains
      BY DEF RequestState
    <3>2. firstRow(request[r].chain) \in Settings \cup {{}}
      BY <3>1, HeadTailProperties DEF firstRow, StoreOK
    <3>3. q \in RequestState /\ q.pc = "idle"
      BY <3>1, <3>2, Idle DEF RequestState
    <3> HIDE DEF q
    <3> QED
      BY <1>1, <1>5, <2>2, <3>3 DEF Moves, GetMultiSign
  <2> QED
    BY <1>5, <2>1, <2>2 DEF GetMultiSign
<1>6. ASSUME NEW r \in Requests, SetMultiSign(r)
      PROVE  Good /\ Stores
  <2>1. UNCHANGED session
    BY <1>6 DEF SetMultiSign, DeleteRows, CreateRow
  <2>2. CASE \E code \in {"success", "serverErr"} : Answer(r, code)
    BY <1>2, <1>6, <2>1, <2>2
  <2> DEFINE q == [request[r] EXCEPT !.pc = "create"]
  <2>3. CASE request[r].pc = "setMultiSign" /\ request' = [request EXCEPT ![r] = q]
    <3>1. q \in RequestState /\ q.body = request[r].body
      BY DEF RequestState
    <3>2. request[r].body \in Settings
      BY <2>3 DEF CarriesSettings
    <3> HIDE DEF q
    <3> QED
      BY <1>1, <1>6, <2>1, <2>3, <3>1, <3>2 DEF Moves
  <2> QED
    BY <1>6, <2>2, <2>3 DEF SetMultiSign, DeleteRows, CreateRow
<1>7. ASSUME Tick \/ Flush \/ UNCHANGED vars
      PROVE  Good /\ Others
  <2>1. UNCHANGED request /\ UNCHANGED store
    BY <1>7 DEF Tick, Flush, vars
  <2>2. Good
    BY <2>1 DEF CarriesSettings
  <2> QED
    BY <2>1, <2>2
<1>8. ASSUME Crash
      PROVE  Good /\ Others
  <2>1. request' = [r \in Requests |-> idle] /\ UNCHANGED store
    BY <1>8 DEF Crash
  <2>2. \A r \in Requests : request'[r].pc = "idle" /\ request'[r] \in RequestState
    BY <2>1, Idle
  <2>3. request' \in [Requests -> RequestState]
    BY <2>1, <2>2
  <2>4. CarriesSettings'
    BY <2>2 DEF CarriesSettings
  <2>5. \A r \in Requests : request'[r].pc # "create"
    BY <2>2
  <2> QED
    BY <2>1, <2>3, <2>4, <2>5
<1>9. events' \in 0..MaxEvents
  <2>1. events' = events \/ Event
    BY DEF Next, vars, Login, LoginRefused, Serve, Logout, SetMultiSign, DeleteRows, CreateRow,
           GetMultiSign, Query, Arrive, Tick, Flush, Crash
  <2> QED
    BY <2>1, AdminApiAssumption DEF Event
<1>10. Good /\ (Others \/ Stores)
  <2>1. CASE \E r \in Requests : Login(r) \/ LoginRefused(r) \/ Serve(r)
    BY <1>3, <1>5, <1>6, <2>1 DEF Serve
  <2>2. CASE \E r \in Requests, t \in 1..MaxTokens, c \in Chains :
               \/ \E kind \in routes \ {"setMultiSign"} : Arrive(r, kind, t, c, {})
               \/ \E body \in Settings : Arrive(r, "setMultiSign", t, c, body)
    <3>1. "setMultiSign" \in routes
      BY DEF routes
    <3> QED
      BY <1>4, <2>2, <3>1
  <2> QED
    BY <1>7, <1>8, <2>1, <2>2 DEF Next
<1> QED
  BY <1>9, <1>10

\* Of requests that change a chain, one that ran alone has the last word.
LEMMA StoreKept ==
  ASSUME IInv, [Next]_vars
  PROVE  StoreOK' /\ AloneFindsNone' /\ SetAloneReplaces'
<1> USE Parts DEF IInv
<1>1. CASE /\ UNCHANGED store
           /\ \A r \in Requests : request'[r].pc = "create" => request'[r] = request[r]
  BY <1>1 DEF store, StoreOK, AloneFindsNone, SetAloneReplaces
<1>2. ASSUME NEW r \in Requests, DeleteRows(r)
      PROVE  StoreOK' /\ AloneFindsNone' /\ SetAloneReplaces'
  <2>1. CASE Answer(r, "serverErr") /\ UNCHANGED store
    <3>1. \A o \in Requests : request'[o].pc = "create" => request'[o] = request[o]
      BY <2>1, Idle DEF Answer
    <3> QED
      BY <1>1, <2>1, <3>1
  <2> DEFINE c == request[r].chain
  <2>2. CASE /\ multiSign' = [multiSign EXCEPT ![c] = <<>>]
             /\ request' = [request EXCEPT ![r].pc = "create"]
             /\ alone' = [q \in Requests |-> q = r \/ (alone[q] /\ request[q].chain # c)]
             /\ settled' = [settled EXCEPT ![c] = {}]
    <3>1. c \in Chains /\ \A q \in Requests : request[q].chain \in Chains
      BY DEF RequestState
    <3>2. /\ request'[r].chain = c /\ \A q \in Requests \ {r} : request'[q] = request[q]
      BY <2>2 DEF RequestState
    <3> HIDE DEF c
    <3>3. StoreOK'
      <4>1. alone' \in [Requests -> BOOLEAN]
        BY <2>2 DEF StoreOK
      <4> QED
        BY <2>2, <3>1, <4>1 DEF StoreOK
    <3>4. AloneFindsNone'
      BY <2>2, <3>1, <3>2 DEF AloneFindsNone, StoreOK
    <3>5. SetAloneReplaces'
      BY <2>2, <3>1 DEF SetAloneReplaces, StoreOK
    <3> QED
      BY <3>3, <3>4, <3>5
  <2> QED
    BY <1>2, <2>1, <2>2 DEF DeleteRows
<1>3. ASSUME NEW r \in Requests, CreateRow(r)
      PROVE  StoreOK' /\ AloneFindsNone' /\ SetAloneReplaces'
  <2> DEFINE c == request[r].chain
             body == request[r].body
  <2>1. \A o \in Requests : request'[o].pc = "create" => request'[o] = request[o] /\ o # r
    BY <1>3, Idle DEF CreateRow, Answer
  <2>2. CASE UNCHANGED store
    BY <1>1, <2>1, <2>2
  <2>3. CASE /\ multiSign' = [multiSign EXCEPT ![c] = Append(@, body)]
             /\ Disturb(r, c)
             /\ settled' = [settled EXCEPT ![c] = IF alone[r] THEN {body} ELSE {}]
    <3>1. c \in Chains /\ body \in Settings /\ \A q \in Requests : request[q].chain \in Chains
      BY <1>3 DEF RequestState, CarriesSettings, CreateRow
    <3>2. alone[r] => multiSign[c] = <<>>
      BY <1>3 DEF CreateRow, AloneFindsNone
    <3> HIDE DEF c, body
    <3>3. /\ alone' \in [Requests -> BOOLEAN]
          /\ \A q \in Requests \ {r} : alone'[q] => alone[q] /\ request[q].chain # c
      BY <2>3 DEF Disturb, StoreOK
    <3>4. StoreOK'
      <4>1. Append(multiSign[c], body) \in Seq(Settings)
        BY <3>1, AppendProperties DEF StoreOK
      <4>2. (IF alone[r] THEN {body} ELSE {}) \in SUBSET Settings
        BY <3>1
      <4> QED
        BY <2>3, <3>1, <3>3, <4>1, <4>2 DEF StoreOK
    <3>5. AloneFindsNone'
      BY <2>1, <2>3, <3>1, <3>3 DEF AloneFindsNone, StoreOK
    <3>6. SetAloneReplaces'
      <4>1. /\ \A d \in Chains \ {c} : multiSign'[d] = multiSign[d] /\ settled'[d] = settled[d]
            /\ settled'[c] = IF alone[r] THEN {body} ELSE {}
            /\ multiSign'[c] = Append(multiSign[c], body)
        BY <2>3, <3>1 DEF StoreOK
      <4>2. alone[r] => multiSign'[c] = <<body>>
        <5>1. Append(<<>>, body) = <<body>>
          OBVIOUS
        <5> QED
          BY <3>2, <4>1, <5>1
      <4> QED
        BY <4>1, <4>2 DEF SetAloneReplaces
    <3> QED
      BY <3>4, <3>5, <3>6
  <2> QED
    BY <1>3, <2>2, <2>3 DEF CreateRow
<1> QED
  BY <1>1, <1>2, <1>3, RequestsKept DEF SetMultiSign

-----------------------------------------------------------------------------
(* The theorems.                                                            *)

\* The invariant holds in every reachable state.
THEOREM Invariant == Spec => []IInv
<1>1. IInv /\ [Next]_vars => IInv'
  <2> SUFFICES ASSUME IInv, [Next]_vars PROVE IInv'
    OBVIOUS
  <2>1. SessionOK' /\ StateIsLogin' /\ StoreOK' /\ AloneFindsNone' /\ SetAloneReplaces'
    BY SessionKept, StoreKept, Parts DEF IInv
  <2>2. request' \in [Requests -> RequestState] /\ CarriesSettings' /\ events' \in 0..MaxEvents
    BY RequestsKept DEF IInv
  <2>3. TypeOK'
    BY <2>1, <2>2 DEF TypeOK, Admins, SessionOK, StoreOK, RequestState
  <2> QED
    BY <2>1, <2>2, <2>3 DEF IInv
<1> QED
  BY <1>1, Initially, PTL DEF Spec

\* Every state is one of the program's (the types of the session, the rows and
\* the requests).
THEOREM TypesAreKept == Spec => []TypeOK
BY Invariant, PTL DEF IInv

\* A SetMultiSign that no other request disturbed has left exactly its settings,
\* for any number of requests at once (DeleteRows, CreateRow).
THEOREM AloneReplaces == Spec => []SetAloneReplaces
BY Invariant, PTL DEF IInv

\* A request is let through only while a login lasts, whatever the number of
\* tokens and whatever fails, unless redis failed a login or a logout
\* (CheckToken, Login, Logout).
THEOREM LetThroughLoggedIn == Spec => AdmittedOnlyLoggedIn
<1>1. IInv /\ [Next]_vars => [\A r \in Requests : admitted(r) /\ ~unnoticed => loggedIn > 0]_vars
  <2> SUFFICES ASSUME IInv, Next, NEW r \in Requests, admitted(r), ~unnoticed
               PROVE  loggedIn > 0
    BY DEF vars
  <2>1. \E t \in 1..MaxTokens : CheckToken(t)
    <3>1. request[r].pc = "idle" /\ request'[r].pc \in routes /\ "idle" \notin routes /\ "create" \notin routes
      BY DEF admitted, routes
    <3>2. request \in [Requests -> RequestState]
      BY Parts DEF IInv
    <3>3. \A q \in Requests, code \in {"none", "success", "tokenErr", "serverErr", "nameOrPasswordErr"} :
            ~Answer(q, code)
      BY <3>1, <3>2, Idle DEF Answer
    <3>4. \A q \in Requests : ~Login(q) /\ ~LoginRefused(q) /\ ~Logout(q) /\ ~Query(q) /\ ~CreateRow(q)
      BY <3>1, <3>3 DEF Login, LoginRefused, Logout, Query, CreateRow, store
    <3>5. \A q \in Requests : ~DeleteRows(q) /\ ~GetMultiSign(q)
      BY <3>1, <3>2, <3>3, Idle DEF DeleteRows, GetMultiSign
    <3>6. ~Tick /\ ~Flush /\ ~Crash
      BY <3>1, Idle DEF Tick, Flush, Crash
    <3> QED
      BY <3>3, <3>4, <3>5, <3>6 DEF Next, Serve, SetMultiSign, Arrive
  <2>2. redis["admin"].type = "string"
    BY <2>1 DEF CheckToken, RedisGet, refused
  <2>3. redis["admin"] # none
    BY <2>2 DEF none
  <2>4. redis["admin"].ttl = loggedIn
    BY <2>3 DEF IInv, StateIsLogin
  <2>5. redis["admin"].ttl \in 1..ExpireTime
    BY <2>3, Parts, AdminKeyAssumption DEF IInv, SessionOK, Admins, entry
  <2> QED
    BY <2>4, <2>5, AdminApiAssumption
<1> QED
  BY <1>1, Invariant, PTL DEF Spec, AdmittedOnlyLoggedIn

-----------------------------------------------------------------------------
(* The locked map: a goroutine in the body of a write is alone with the map, *)
(* and those in the bodies of reads see it unchanged (Exclusion).            *)

holds(g) == call[g].at \in {"body", "unlock"}

Calls == [op : Reads \cup Writes \cup {"none"}, key : MapKeys \cup {nil},
          value : Values \cup {nil} \cup Nat, at : {"idle", "lock", "body", "unlock"},
          visited : SUBSET (MapKeys \X Values), snapshot : SUBSET (MapKeys \X Values)]

MapTypeOK ==
  /\ DOMAIN m \subseteq MapKeys /\ \A k \in DOMAIN m : m[k] \in Values
  /\ IsFiniteSet(DOMAIN m)
  /\ readers \subseteq Goroutines /\ writer \in Goroutines \cup {nil}
  /\ call \in [Goroutines -> Calls]
  /\ \A g \in Goroutines : call[g].at # "idle" => call[g].op # "none" /\ call[g].key \in MapKeys
  /\ \A g \in Goroutines : call[g].at \in {"lock", "body"} => call[g].value \in Values
  /\ \A g \in Goroutines : call[g].at = "lock" => call[g].visited = {}
  /\ told \in [MapKeys -> SUBSET Goroutines]

Exclusion ==
  /\ \A g \in Goroutines : g \in readers <=> holds(g) /\ call[g].op \in Reads
  /\ \A g \in Goroutines : writer = g <=> holds(g) /\ call[g].op \in Writes
  /\ writer # nil => readers = {}

SeesOneState ==
  \A g \in Goroutines : holds(g) /\ call[g].op \in Ranges =>
    /\ call[g].snapshot = entries /\ call[g].visited \subseteq entries
    /\ call[g].at = "unlock" => call[g].visited = entries

ToldOnce ==
  \A k \in MapKeys :
    /\ \A g, h \in told[k] : g = h
    /\ k \notin DOMAIN m => told[k] = {}

MapInv == MapTypeOK /\ Exclusion /\ SeesOneState /\ ToldOnce

-----------------------------------------------------------------------------
(* The lemmas.                                                              *)

\* A map that nobody uses.
LEMMA MapStart == MapInit => MapInv
<1> SUFFICES ASSUME MapInit PROVE MapInv
  OBVIOUS
<1>1. MapTypeOK
  BY FS_EmptySet DEF MapInit, MapTypeOK, Calls, notCalled, empty
<1>2. Exclusion
  BY MapAssumption DEF MapInit, Exclusion, holds, notCalled
<1> QED
  BY <1>1, <1>2 DEF MapInit, MapInv, SeesOneState, ToldOnce, holds, notCalled

\* What a step of one goroutine leaves of the others: their calls.
LEMMA Others ==
  ASSUME NEW g \in Goroutines, NEW c, call \in [Goroutines -> Calls], call' = [call EXCEPT ![g] = c]
  PROVE  /\ call'[g] = c /\ \A h \in Goroutines \ {g} : call'[h] = call[h]
         /\ c \in Calls => call' \in [Goroutines -> Calls]
OBVIOUS

\* The entries of a map are its keys with its values.
LEMMA Entries == MapTypeOK => entries \subseteq MapKeys \X Values
BY DEF MapTypeOK, entries

\* Every step of an operation keeps the invariant.
LEMMA MapKept == MapInv /\ [MapNext]_mapVars => MapInv'
<1> SUFFICES ASSUME MapTypeOK, Exclusion, SeesOneState, ToldOnce, [MapNext]_mapVars
             PROVE  MapTypeOK' /\ Exclusion' /\ SeesOneState' /\ ToldOnce'
  BY DEF MapInv
<1> USE MapAssumption
<1>1. ASSUME NEW g \in Goroutines, NEW name \in Reads \cup Writes, NEW key \in MapKeys, NEW value \in Values,
             Call(g, name, key, value)
      PROVE  MapTypeOK' /\ Exclusion' /\ SeesOneState' /\ ToldOnce'
  <2> DEFINE c == [notCalled EXCEPT !.op = name, !.key = key, !.value = value, !.at = "lock"]
  <2>1. /\ c \in Calls /\ c.at = "lock" /\ c.op = name /\ c.key = key /\ c.value = value
        /\ c.visited = {}
    BY DEF Calls, notCalled
  <2>2. /\ call' = [call EXCEPT ![g] = c] /\ call[g].at = "idle"
        /\ UNCHANGED <<m, readers, writer, told>>
    BY <1>1 DEF Call
  <2> HIDE DEF c
  <2>3. /\ call'[g] = c /\ \A h \in Goroutines \ {g} : call'[h] = call[h]
        /\ call' \in [Goroutines -> Calls]
    BY <2>1, <2>2, Others DEF MapTypeOK
  <2>4. MapTypeOK'
    BY <2>1, <2>2, <2>3 DEF MapTypeOK, Reads, Writes
  <2>5. Exclusion'
    BY <2>1, <2>2, <2>3 DEF Exclusion, holds
  <2>6. SeesOneState'
    BY <2>1, <2>2, <2>3 DEF SeesOneState, holds, entries
  <2> QED
    BY <2>2, <2>4, <2>5, <2>6 DEF ToldOnce
<1>2. ASSUME NEW g \in Goroutines, RLock(g) \/ Lock(g)
      PROVE  MapTypeOK' /\ Exclusion' /\ SeesOneState' /\ ToldOnce'
  <2> DEFINE c == [call[g] EXCEPT !.at = "body", !.snapshot = entries]
  <2>1. /\ call' = [call EXCEPT ![g] = c] /\ call[g].at = "lock" /\ UNCHANGED <<m, told>>
        /\ call[g] \in Calls
    BY <1>2 DEF RLock, Lock, MapTypeOK
  <2>2. /\ c \in Calls /\ c.at = "body" /\ c.op = call[g].op /\ c.key = call[g].key
        /\ c.value = call[g].value /\ c.snapshot = entries /\ c.visited = call[g].visited
    BY <2>1, Entries DEF Calls
  <2> HIDE DEF c
  <2>3. /\ call'[g] = c /\ \A h \in Goroutines \ {g} : call'[h] = call[h]
        /\ call' \in [Goroutines -> Calls]
    BY <2>1, <2>2, Others DEF MapTypeOK
  <2>4. /\ writer = nil
        /\ \/ call[g].op \in Reads /\ readers' = readers \cup {g} /\ writer' = writer
           \/ call[g].op \in Writes /\ readers = {} /\ readers' = {} /\ writer' = g
    BY <1>2 DEF RLock, Lock
  <2>5. MapTypeOK'
    BY <2>1, <2>2, <2>3, <2>4 DEF MapTypeOK
  <2>6. Exclusion'
    BY <2>1, <2>2, <2>3, <2>4 DEF Exclusion, holds, Reads, Writes, MapTypeOK
  <2>7. SeesOneState'
    BY <2>1, <2>2, <2>3 DEF SeesOneState, holds, entries, MapTypeOK
  <2> QED
    BY <2>1, <2>5, <2>6, <2>7 DEF ToldOnce
<1>3. ASSUME NEW g \in Goroutines, Get(g) \/ MapLen(g) \/ UnsafeRange(g)
      PROVE  MapTypeOK' /\ Exclusion' /\ SeesOneState' /\ ToldOnce'
  <2>1. /\ call[g].at = "body" /\ call[g] \in Calls /\ UNCHANGED <<m, readers, writer, told>>
    BY <1>3 DEF Get, MapLen, UnsafeRange, In, MapTypeOK
  <2>2. PICK c \in Calls :
          /\ call' = [call EXCEPT ![g] = c] /\ c.op = call[g].op /\ c.key = call[g].key
          /\ c.snapshot = call[g].snapshot /\ c.at \in {"body", "unlock"}
          /\ c.at = "body" => c.value = call[g].value
          /\ c.op \in Ranges => c.visited \subseteq entries /\ (c.at = "unlock" => c.visited = entries)
    <3>1. CASE Get(g)
      <4> DEFINE c == [call[g] EXCEPT !.at = "unlock", !.value = UnsafeGet(call[g].key)]
      <4>1. UnsafeGet(call[g].key) \in Values \cup {nil}
        BY DEF UnsafeGet, MapTypeOK
      <4>2. c \in Calls /\ c.op = call[g].op /\ c.key = call[g].key /\ c.at = "unlock"
            /\ c.snapshot = call[g].snapshot
        BY <2>1, <4>1 DEF Calls
      <4>3. call' = [call EXCEPT ![g] = c] /\ call[g].op \notin Ranges
        BY <3>1 DEF Get, In, Return, Ranges
      <4> QED
        BY <4>2, <4>3
    <3>2. CASE MapLen(g)
      <4> DEFINE c == [call[g] EXCEPT !.at = "unlock", !.value = Cardinality(DOMAIN m)]
      <4>1. Cardinality(DOMAIN m) \in Nat
        BY FS_CardinalityType DEF MapTypeOK
      <4>2. c \in Calls /\ c.op = call[g].op /\ c.key = call[g].key /\ c.at = "unlock"
            /\ c.snapshot = call[g].snapshot
        BY <2>1, <4>1 DEF Calls
      <4>3. call' = [call EXCEPT ![g] = c] /\ call[g].op \notin Ranges
        BY <3>2 DEF MapLen, In, Return, Ranges
      <4> QED
        BY <4>2, <4>3
    <3>3. CASE UnsafeRange(g)
      <4>1. call[g].op \in Ranges /\ call[g].visited \subseteq entries
        BY <3>3, <2>1 DEF UnsafeRange, SeesOneState, holds
      <4>2. CASE \E e \in entries : call' = [call EXCEPT ![g].visited = @ \cup {e}]
        <5>1. PICK e \in entries : call' = [call EXCEPT ![g].visited = @ \cup {e}]
          BY <4>2
        <5> DEFINE c == [call[g] EXCEPT !.visited = @ \cup {e}]
        <5>2. /\ c \in Calls /\ c.op = call[g].op /\ c.key = call[g].key /\ c.at = "body"
              /\ c.snapshot = call[g].snapshot /\ c.value = call[g].value
              /\ c.visited = call[g].visited \cup {e}
          BY <2>1, Entries DEF Calls
        <5>3. call' = [call EXCEPT ![g] = c]
          BY <5>1
        <5> QED
          BY <4>1, <5>2, <5>3
      <4>3. CASE entries \subseteq call[g].visited /\ Done(g)
        <5> DEFINE c == [call[g] EXCEPT !.at = "unlock"]
        <5>1. /\ c \in Calls /\ c.op = call[g].op /\ c.key = call[g].key /\ c.at = "unlock"
              /\ c.snapshot = call[g].snapshot /\ c.visited = call[g].visited
          BY <2>1 DEF Calls
        <5>2. call' = [call EXCEPT ![g] = c]
          BY <4>3 DEF Done
        <5>3. c.visited = entries
          BY <4>1, <4>3, <5>1
        <5> HIDE DEF c
        <5> QED
          BY <5>1, <5>2, <5>3
      <4> QED
        BY <3>3, <4>2, <4>3 DEF UnsafeRange
    <3> QED
      BY <1>3, <3>1, <3>2, <3>3
  <2>3. /\ call'[g] = c /\ \A h \in Goroutines \ {g} : call'[h] = call[h]
        /\ call' \in [Goroutines -> Calls]
    BY <2>2, Others DEF MapTypeOK
  <2>4. MapTypeOK'
    BY <2>1, <2>2, <2>3 DEF MapTypeOK
  <2>5. Exclusion'
    BY <2>1, <2>2, <2>3 DEF Exclusion, holds
  <2>6. SeesOneState'
    BY <2>1, <2>2, <2>3 DEF SeesOneState, holds, entries
  <2> QED
    BY <2>1, <2>4, <2>5, <2>6 DEF ToldOnce
<1>4. ASSUME NEW g \in Goroutines, Set(g) \/ TestAndSet(g) \/ Del(g)
      PROVE  MapTypeOK' /\ Exclusion' /\ SeesOneState' /\ ToldOnce'
  <2> DEFINE key == call[g].key
  <2>1. /\ call[g].at = "body" /\ call[g] \in Calls /\ call[g].op \in Writes \ Ranges
        /\ UNCHANGED <<readers, writer>> /\ key \in MapKeys /\ call[g].value \in Values
    BY <1>4 DEF Set, TestAndSet, Del, In, MapTypeOK, Writes, Ranges
  <2>2. PICK c \in Calls :
          /\ call' = [call EXCEPT ![g] = c] /\ c.op = call[g].op /\ c.key = key /\ c.at = "unlock"
    <3>1. CASE Set(g) \/ Del(g)
      <4> DEFINE c == [call[g] EXCEPT !.at = "unlock"]
      <4>1. c \in Calls /\ c.op = call[g].op /\ c.key = key /\ c.at = "unlock"
        BY <2>1 DEF Calls
      <4>2. call' = [call EXCEPT ![g] = c]
        BY <3>1 DEF Set, Del, Done
      <4> QED
        BY <4>1, <4>2
    <3>2. CASE TestAndSet(g)
      <4> DEFINE c == [call[g] EXCEPT !.at = "unlock", !.value = UnsafeGet(key)]
      <4>1. UnsafeGet(key) \in Values \cup {nil}
        BY DEF UnsafeGet, MapTypeOK
      <4>2. c \in Calls /\ c.op = call[g].op /\ c.key = key /\ c.at = "unlock"
        BY <2>1, <4>1 DEF Calls
      <4>3. call' = [call EXCEPT ![g] = c]
        BY <3>2 DEF TestAndSet, Return
      <4> QED
        BY <4>2, <4>3
    <3> QED
      BY <1>4, <3>1, <3>2
  <2>3. /\ call'[g] = c /\ \A h \in Goroutines \ {g} : call'[h] = call[h]
        /\ call' \in [Goroutines -> Calls]
    BY <2>2, Others DEF MapTypeOK
  <2>4. \A h \in Goroutines \ {g} : ~holds(h)
    BY <2>1 DEF Exclusion, holds, MapTypeOK, Calls
  <2>5. /\ DOMAIN m' \subseteq MapKeys /\ IsFiniteSet(DOMAIN m') /\ \A k \in DOMAIN m' : m'[k] \in Values
        /\ told' \in [MapKeys -> SUBSET Goroutines] /\ ToldOnce'
    <3>1. CASE Set(g)
      <4>1. DOMAIN m' = DOMAIN m \cup {key} /\ told' = told
            /\ \A k \in DOMAIN m' : m'[k] = IF k = key THEN call[g].value ELSE m[k]
        BY <3>1 DEF Set, UnsafeSet
      <4> QED
        BY <2>1, <4>1, FS_AddElement DEF ToldOnce, MapTypeOK
    <3>2. CASE TestAndSet(g) /\ key \in DOMAIN m
      BY <3>2 DEF TestAndSet, ToldOnce, MapTypeOK
    <3>3. CASE TestAndSet(g) /\ key \notin DOMAIN m
      <4>1. DOMAIN m' = DOMAIN m \cup {key} /\ told' = [told EXCEPT ![key] = @ \cup {g}]
            /\ \A k \in DOMAIN m' : m'[k] = IF k = key THEN call[g].value ELSE m[k]
        BY <3>3 DEF TestAndSet, UnsafeSet
      <4>2. told[key] = {} /\ told'[key] = {g} /\ \A k \in MapKeys \ {key} : told'[k] = told[k]
        BY <2>1, <3>3, <4>1 DEF ToldOnce, MapTypeOK
      <4> QED
        BY <2>1, <4>1, <4>2, FS_AddElement DEF ToldOnce, MapTypeOK
    <3>4. CASE Del(g)
      <4>1. DOMAIN m' = DOMAIN m \ {key} /\ told' = [told EXCEPT ![key] = {}]
            /\ \A k \in DOMAIN m' : m'[k] = m[k]
        BY <3>4 DEF Del, UnsafeDel, Restrict
      <4>2. told'[key] = {} /\ \A k \in MapKeys \ {key} : told'[k] = told[k]
        BY <2>1, <4>1 DEF MapTypeOK
      <4>3. IsFiniteSet(DOMAIN m')
        BY <4>1, FS_Subset DEF MapTypeOK
      <4> HIDE DEF key
      <4>4. \A k \in MapKeys : k \notin DOMAIN m' => told'[k] = {}
        BY <4>1, <4>2 DEF ToldOnce
      <4>5. ToldOnce'
        BY <4>1, <4>2, <4>4 DEF ToldOnce
      <4> QED
        BY <2>1, <4>1, <4>2, <4>3, <4>5 DEF MapTypeOK
    <3> QED
      BY <1>4, <3>1, <3>2, <3>3, <3>4
  <2>6. MapTypeOK'
    BY <2>1, <2>2, <2>3, <2>5 DEF MapTypeOK
  <2>7. Exclusion'
    BY <2>1, <2>2, <2>3 DEF Exclusion, holds
  <2>8. SeesOneState'
    BY <2>1, <2>2, <2>3, <2>4 DEF SeesOneState, holds
  <2> QED
    BY <2>5, <2>6, <2>7, <2>8
<1>5. ASSUME NEW g \in Goroutines, Unlock(g)
      PROVE  MapTypeOK' /\ Exclusion' /\ SeesOneState' /\ ToldOnce'
  <2>1. /\ call' = [call EXCEPT ![g] = notCalled] /\ call[g].at = "unlock" /\ UNCHANGED <<m, told>>
        /\ readers' = readers \ {g} /\ writer' = IF writer = g THEN nil ELSE writer
    BY <1>5 DEF Unlock
  <2>2. notCalled \in Calls /\ notCalled.at = "idle"
    BY DEF Calls, notCalled
  <2>3. /\ call'[g] = notCalled /\ \A h \in Goroutines \ {g} : call'[h] = call[h]
        /\ call' \in [Goroutines -> Calls]
    BY <2>1, <2>2, Others DEF MapTypeOK
  <2>4. MapTypeOK'
    BY <2>1, <2>2, <2>3 DEF MapTypeOK
  <2>5. Exclusion'
    BY <2>1, <2>2, <2>3 DEF Exclusion, holds
  <2>6. SeesOneState'
    BY <2>1, <2>2, <2>3 DEF SeesOneState, holds, entries
  <2> QED
    BY <2>1, <2>4, <2>5, <2>6 DEF ToldOnce
<1>6. CASE UNCHANGED mapVars
  BY <1>6 DEF mapVars, MapTypeOK, Exclusion, SeesOneState, ToldOnce, holds, entries
<1> QED
  BY <1>1, <1>2, <1>3, <1>4, <1>5, <1>6 DEF MapNext, Step

-----------------------------------------------------------------------------
(* The theorems.                                                            *)

\* The lock excludes, in every reachable state (sync.RWMutex as map.go uses it).
THEOREM MapInvariant == MapSpec => []MapInv
BY MapStart, MapKept, PTL DEF MapSpec

\* However many goroutines test a key and set it, at most one is told that it
\* was free until the key is deleted (TestAndSet).
THEOREM OneTakes == MapSpec => []OneTakesKey
<1>1. MapInv => OneTakesKey
  <2> SUFFICES ASSUME MapInv, NEW k \in MapKeys PROVE Cardinality(told[k]) <= 1
    BY DEF OneTakesKey
  <2>1. CASE told[k] = {}
    BY <2>1, FS_EmptySet
  <2>2. CASE told[k] # {}
    <3>1. PICK g \in told[k] : told[k] = {g}
      BY <2>2 DEF MapInv, ToldOnce
    <3> QED
      BY <3>1, FS_Singleton
  <2> QED
    BY <2>1, <2>2
<1> QED
  BY <1>1, MapInvariant, PTL

\* A range visits the entries of one state of the map, under either lock
\* (RLockRange, LockRange).
THEOREM RangesAreSnapshots == MapSpec => []RangeIsSnapshot
<1>1. MapInv => RangeIsSnapshot
  BY DEF MapInv, SeesOneState, RangeIsSnapshot, holds
<1> QED
  BY <1>1, MapInvariant, PTL

-----------------------------------------------------------------------------
(* The mails of the balance monitor.                                        *)

\* The account has had its balance, and what a mail reports was so then.
BalanceHad == balance \in had /\ MailsAreTrue

\* A monitor that the node answers reports the balance, one that it does not
\* answer sends nothing.
LEMMA MailsKept == BalanceHad /\ [UtilNext]_utilVars => BalanceHad'
<1> SUFFICES ASSUME BalanceHad, [UtilNext]_utilVars PROVE BalanceHad'
  OBVIOUS
<1>1. CASE Monitor
  <2>1. GetBalance.balance = balance
    BY <1>1 DEF Monitor, GetBalance
  <2>2. mails' \subseteq mails \cup {<<balance, threshold>>} /\ balance <= threshold
    BY <1>1, <2>1 DEF Monitor, SendEmail
  <2> QED
    BY <1>1, <2>2 DEF Monitor, BalanceHad, MailsAreTrue
<1>2. CASE Transfer
  BY <1>2 DEF Transfer, BalanceHad, MailsAreTrue
<1>3. CASE UNCHANGED <<balance, had, mails>>
  BY <1>3 DEF BalanceHad, MailsAreTrue
<1>4. Argument \/ Type \/ UNCHANGED utilVars => UNCHANGED <<balance, had, mails>>
  BY DEF Argument, Type, utilVars
<1> QED
  BY <1>1, <1>2, <1>3, <1>4 DEF UtilNext

\* Whatever the account is paid and pays and whenever the node is away, a mail
\* tells a balance the account has had, at or below the threshold.
THEOREM MailsTellTruth == UtilSpec => []MailsAreTrue
<1>1. UtilInit => BalanceHad
  BY DEF UtilInit, BalanceHad, MailsAreTrue
<1>2. BalanceHad => MailsAreTrue
  BY DEF BalanceHad
<1> QED
  BY <1>1, <1>2, MailsKept, PTL DEF UtilSpec

-----------------------------------------------------------------------------
(* Lifetimes in redis.                                                      *)

\* An entry of redis is none or a record with the fields of its type, whatever
\* they hold.
isEntry(e) ==
  \/ e = none
  \/ \E v, life : e = entry("string", v, life)
  \/ \E v, life : e = [type |-> "hash", fields |-> v, ttl |-> life]
  \/ \E v, life : e = [type |-> "set", members |-> v, ttl |-> life]
  \/ \E v, life : e = [type |-> "list", items |-> v, ttl |-> life]

HasEntries(db) == db = [k \in Keys |-> db[k]] /\ \A k \in Keys : isEntry(db[k])

\* The entries that the calls write.
LEMMA NewEntries ==
  /\ isEntry(none)
  /\ \A v, life : isEntry(entry("string", v, life))
  /\ \A v : isEntry(hashEntry(v)) /\ isEntry(setEntry(v)) /\ isEntry(listEntry(v))
  /\ \A v : hashEntry(v).type = "hash" /\ hashEntry(v) # none
  BY DEF isEntry, none, entry, hashEntry, setEntry, listEntry

\* The entries that the calls change.
LEMMA ChangedEntries ==
  ASSUME NEW e, isEntry(e), e # none
  PROVE  /\ \A n : isEntry([e EXCEPT !.ttl = n]) /\ [e EXCEPT !.ttl = n].ttl = n
         /\ e.type # "none"
         /\ e.type = "hash" => \A v : /\ isEntry([e EXCEPT !.fields = v])
                                      /\ [e EXCEPT !.fields = v].type = "hash"
                                      /\ [e EXCEPT !.fields = v] # none
         /\ e.type = "set" => \A v : isEntry([e EXCEPT !.members = v])
         /\ e.type = "list" => \A v : isEntry([e EXCEPT !.items = v])
<1>1. CASE \E v, life : e = entry("string", v, life)
  BY <1>1 DEF isEntry, none, entry
<1>2. ASSUME NEW v, NEW life, e = [type |-> "hash", fields |-> v, ttl |-> life]
      PROVE  /\ e.type = "hash"
             /\ \A n : isEntry([e EXCEPT !.ttl = n]) /\ [e EXCEPT !.ttl = n].ttl = n
             /\ \A w : /\ isEntry([e EXCEPT !.fields = w])
                       /\ [e EXCEPT !.fields = w].type = "hash"
                       /\ [e EXCEPT !.fields = w] # none
  <2>1. \A n : [e EXCEPT !.ttl = n] = [type |-> "hash", fields |-> v, ttl |-> n]
    BY <1>2
  <2>2. \A w : [e EXCEPT !.fields = w] = [type |-> "hash", fields |-> w, ttl |-> life]
    BY <1>2
  <2>3. \A w, n : /\ isEntry([type |-> "hash", fields |-> w, ttl |-> n])
                  /\ [type |-> "hash", fields |-> w, ttl |-> n] # none
    BY DEF isEntry, none
  <2> QED
    BY <1>2, <2>1, <2>2, <2>3
<1>3. ASSUME NEW v, NEW life, e = [type |-> "set", members |-> v, ttl |-> life]
      PROVE  /\ e.type = "set"
             /\ \A n : isEntry([e EXCEPT !.ttl = n]) /\ [e EXCEPT !.ttl = n].ttl = n
             /\ \A w : /\ isEntry([e EXCEPT !.members = w])
                       /\ [e EXCEPT !.members = w].type = "set"
                       /\ [e EXCEPT !.members = w] # none
  <2>1. \A n : [e EXCEPT !.ttl = n] = [type |-> "set", members |-> v, ttl |-> n]
    BY <1>3
  <2>2. \A w : [e EXCEPT !.members = w] = [type |-> "set", members |-> w, ttl |-> life]
    BY <1>3
  <2>3. \A w, n : /\ isEntry([type |-> "set", members |-> w, ttl |-> n])
                  /\ [type |-> "set", members |-> w, ttl |-> n] # none
    BY DEF isEntry, none
  <2> QED
    BY <1>3, <2>1, <2>2, <2>3
<1>4. ASSUME NEW v, NEW life, e = [type |-> "list", items |-> v, ttl |-> life]
      PROVE  /\ e.type = "list"
             /\ \A n : isEntry([e EXCEPT !.ttl = n]) /\ [e EXCEPT !.ttl = n].ttl = n
             /\ \A w : /\ isEntry([e EXCEPT !.items = w])
                       /\ [e EXCEPT !.items = w].type = "list"
                       /\ [e EXCEPT !.items = w] # none
  <2>1. \A n : [e EXCEPT !.ttl = n] = [type |-> "list", items |-> v, ttl |-> n]
    BY <1>4
  <2>2. \A w : [e EXCEPT !.items = w] = [type |-> "list", items |-> w, ttl |-> life]
    BY <1>4
  <2>3. \A w, n : /\ isEntry([type |-> "list", items |-> w, ttl |-> n])
                  /\ [type |-> "list", items |-> w, ttl |-> n] # none
    BY DEF isEntry, none
  <2> QED
    BY <1>4, <2>1, <2>2, <2>3
<1>5. \/ \E v, life : e = entry("string", v, life)
      \/ \E v, life : e = [type |-> "hash", fields |-> v, ttl |-> life]
      \/ \E v, life : e = [type |-> "set", members |-> v, ttl |-> life]
      \/ \E v, life : e = [type |-> "list", items |-> v, ttl |-> life]
  BY DEF isEntry
<1>6. CASE e.type = "hash"
  BY <1>2, <1>3, <1>4, <1>5, <1>6 DEF entry
<1>7. CASE e.type = "set"
  BY <1>2, <1>3, <1>4, <1>5, <1>7 DEF entry
<1>8. CASE e.type = "list"
  BY <1>2, <1>3, <1>4, <1>5, <1>8 DEF entry
<1>9. CASE e.type = "string"
  BY <1>1, <1>2, <1>3, <1>4, <1>5, <1>9
<1>10. e.type \in {"hash", "set", "list", "string"}
  BY <1>5 DEF entry
<1> QED
  BY <1>6, <1>7, <1>8, <1>9, <1>10

\* One key is given an entry.
LEMMA PutOne ==
  ASSUME NEW db, HasEntries(db), NEW k \in Keys, NEW e, isEntry(e)
  PROVE  HasEntries(put(db, k, e)) /\ put(db, k, e)[k] = e
<1> DEFINE after == put(db, k, e)
<1>1. /\ after = [x \in Keys |-> after[x]]
      /\ \A x \in Keys : after[x] = IF x = k THEN e ELSE db[x]
  BY DEF HasEntries, put
<1> QED
  BY <1>1 DEF HasEntries

\* The calls on strings leave entries, and one that stores with a lifetime and
\* reports no error has stored it.
LEMMA StringCalls ==
  ASSUME NEW db, HasEntries(db), NEW k \in Keys
  PROVE  /\ \A d, life :
              /\ HasEntries(RedisSet(db, k, d, life).db)
              /\ HasEntries(RedisSetString(db, k, d, life).db)
              /\ HasEntries(RedisSetInt64(db, k, d, life).db)
              /\ life > 0 => /\ RedisSet(db, k, d, life).db[k].ttl = life
                             /\ RedisSetString(db, k, d, life).db[k].ttl = life
                             /\ ~RedisSetInt64(db, k, d, life).ok
         /\ \A r \in {RedisGet(db, k), RedisGetString(db, k), RedisGetInt64(db, k),
                      RedisDelete(db, k), RedisExists(db, k), RedisGetTTL(db, k)} :
              HasEntries(r.db)
<1>1. ASSUME NEW v, NEW life
      PROVE  /\ HasEntries(put(db, k, entry("string", v, life)))
             /\ put(db, k, entry("string", v, life))[k].ttl = life
  <2>1. isEntry(entry("string", v, life)) /\ entry("string", v, life).ttl = life
    BY NewEntries DEF entry
  <2> QED
    BY <2>1, PutOne
<1>2. HasEntries(put(db, k, none))
  BY NewEntries, PutOne
<1>3. \A d, life :
        /\ RedisSet(db, k, d, life).db = put(db, k, entry("string", json(d), lifetime(life)))
        /\ RedisSetString(db, k, d, life).db = put(db, k, entry("string", raw(d), lifetime(life)))
        /\ RedisSetInt64(db, k, d, life).db = put(db, k, entry("string", json(d), Forever))
        /\ RedisSetInt64(db, k, d, life).ok = FALSE
  BY DEF RedisSet, RedisSetString, RedisSetInt64, done, refused
<1>4. \A life : life > 0 => lifetime(life) = life
  BY DEF lifetime
<1>5. \A r \in {RedisGet(db, k), RedisGetString(db, k), RedisGetInt64(db, k),
                RedisDelete(db, k), RedisExists(db, k), RedisGetTTL(db, k)} :
        r.db = db \/ r.db = put(db, k, none)
  BY DEF RedisGet, RedisGetString, RedisGetInt64, RedisDelete, RedisExists, RedisGetTTL, done,
         refused
<1> QED
  BY <1>1, <1>2, <1>3, <1>4, <1>5

\* A hash is stored with the lifetime it is given; one that finds another type
\* is refused, unless it is given none.
LEMMA SetHashStores ==
  ASSUME NEW db, HasEntries(db), NEW k \in Keys, NEW data, data # <<>>,
         NEW time \in Times, NEW r, r = RedisSetHash(db, k, data, time)
  PROVE  HasEntries(r.db) /\ (time # <<>> /\ time[1] > 0 /\ r.ok => r.db[k].ttl = time[1])
<1>1. isEntry(db[k])
  BY DEF HasEntries
<1> DEFINE set == hset(db, k, data)
<1>2. HasEntries(set) /\ (is(db, k, "hash") => set[k] # none)
  <2>1. CASE ~is(db, k, "hash")
    BY <2>1 DEF hset
  <2>2. CASE is(db, k, "hash") /\ db[k] = none
    <3>1. set = put(db, k, hashEntry(data))
      BY <2>2 DEF hset
    <3> QED
      BY <3>1, NewEntries, PutOne
  <2>3. CASE is(db, k, "hash") /\ db[k] # none
    <3> DEFINE e == [db[k] EXCEPT !.fields = data @@ db[k].fields]
    <3>1. set = put(db, k, e)
      BY <2>3 DEF hset
    <3>2. isEntry(e) /\ e # none
      BY <1>1, <2>3, ChangedEntries DEF is
    <3> HIDE DEF e
    <3> QED
      BY <3>1, <3>2, PutOne
  <2> QED
    BY <2>1, <2>2, <2>3
<1> HIDE DEF set
<1>3. CASE time = <<>>
  <2>1. r = done(set, {})
    BY <1>3 DEF RedisSetHash, set
  <2>2. r.db = set
    BY <2>1 DEF done
  <2> QED
    BY <1>2, <1>3, <2>2
<1>4. CASE time # <<>>
  <2> DEFINE n == time[1]
             after == expire(set, k, n)
             e == [set[k] EXCEPT !.ttl = n]
  <2>1. r = IF is(db, k, "hash") THEN done(after, {}) ELSE refused(after, {})
    BY <1>4 DEF RedisSetHash, set
  <2>2. isEntry(set[k])
    BY <1>2 DEF HasEntries
  <2>3. set[k] # none => isEntry(e) /\ e.ttl = n
    BY <2>2, ChangedEntries
  <2>4. /\ set[k] = none => after = set
        /\ set[k] # none => after = IF n > 0 THEN put(set, k, e) ELSE put(set, k, none)
    BY DEF expire
  <2> HIDE DEF after, e
  <2>5. HasEntries(after)
    BY <1>2, <2>3, <2>4, NewEntries, PutOne
  <2>6. is(db, k, "hash") /\ n > 0 => after[k].ttl = n
    BY <1>2, <2>3, <2>4, PutOne
  <2>7. r.db = after /\ (r.ok <=> is(db, k, "hash"))
    BY <2>1 DEF done, refused
  <2>8. HasEntries(r.db) /\ (n > 0 /\ r.ok => r.db[k].ttl = n)
    BY <2>5, <2>6, <2>7
  <2> QED
    BY <2>8
<1> QED
  BY <1>3, <1>4

\* The other calls on hashes leave all as it is.
LEMMA HashCalls ==
  ASSUME NEW db, HasEntries(db), NEW k \in Keys
  PROVE  /\ \A name : HasEntries(RedisGetHashOne(db, k, name).db)
         /\ \A r \in {RedisGetHash(db, k), RedisExistsHash(db, k), RedisDelHash(db, k)} :
              HasEntries(r.db)
<1>1. /\ \A name : RedisGetHashOne(db, k, name).db = db
      /\ RedisGetHash(db, k).db = db /\ RedisExistsHash(db, k).db = db
      /\ RedisDelHash(db, k).db = db
  BY DEF RedisGetHashOne, RedisGetHash, RedisExistsHash, RedisDelHash, done, refused
<1> QED
  BY <1>1

\* The calls on sets and lists leave entries.
LEMMA CollectionCalls ==
  ASSUME NEW db, HasEntries(db), NEW k \in Keys
  PROVE  /\ \A v : \A r \in {RedisSAdd(db, k, v), RedisListLRem(db, k, v), RedisListRpush(db, k, v)} :
              HasEntries(r.db)
         /\ \A r \in {RedisSmembers(db, k), RedisListLRange(db, k), RedisListLength(db, k),
                      RedisDelList(db, k)} : HasEntries(r.db)
<1>1. isEntry(db[k])
  BY DEF HasEntries
<1>2. HasEntries(put(db, k, none))
  BY NewEntries, PutOne
<1>3. ASSUME NEW v PROVE HasEntries(RedisSAdd(db, k, v).db)
  <2>1. HasEntries(put(db, k, setEntry({v})))
    BY NewEntries, PutOne
  <2>2. ASSUME is(db, k, "set"), db[k] # none, NEW w
        PROVE  HasEntries(put(db, k, [db[k] EXCEPT !.members = w]))
    BY <1>1, <2>2, ChangedEntries, PutOne DEF is
  <2> QED
    BY <2>1, <2>2 DEF RedisSAdd, done, refused
<1>4. ASSUME is(db, k, "list"), db[k] # none, NEW w
      PROVE  HasEntries(put(db, k, [db[k] EXCEPT !.items = w]))
  BY <1>1, <1>4, ChangedEntries, PutOne DEF is
<1>5. ASSUME NEW v PROVE HasEntries(RedisListRpush(db, k, v).db)
  <2>1. HasEntries(put(db, k, listEntry(<<v>>)))
    BY NewEntries, PutOne
  <2> QED
    BY <1>4, <2>1 DEF RedisListRpush, done, refused
<1>6. ASSUME NEW v PROVE HasEntries(RedisListLRem(db, k, v).db)
  <2> DEFINE left == RemoveFirst(items(db, k), v)
  <2>1. db[k] = none => left = <<>>
    <3>1. db[k] = none => items(db, k) = <<>>
      BY DEF items
    <3>2. RemoveFirst(<<>>, v) = <<>>
      BY DEF RemoveFirst
    <3> QED
      BY <3>1, <3>2
  <2> HIDE DEF left
  <2>2. RedisListLRem(db, k, v) =
          IF ~is(db, k, "list") THEN refused(db, {})
          ELSE IF left = <<>> THEN done(put(db, k, none), {})
               ELSE done(put(db, k, [db[k] EXCEPT !.items = left]), {})
    BY DEF RedisListLRem, left
  <2> QED
    BY <1>2, <1>4, <2>1, <2>2 DEF done, refused
<1>7. /\ RedisSmembers(db, k).db = db /\ RedisListLRange(db, k).db = db
      /\ RedisListLength(db, k).db = db /\ RedisDelList(db, k).db = put(db, k, none)
  BY DEF RedisSmembers, RedisListLRange, RedisListLength, RedisDelList, done, refused
<1> QED
  BY <1>2, <1>3, <1>5, <1>6, <1>7

\* The clock and the calls that fail leave entries, too.
LEMMA OtherCalls ==
  ASSUME NEW db, HasEntries(db)
  PROVE  HasEntries(elapse(db)) /\ HasEntries(RedisFlushDB(db).db) /\ HasEntries(lost(db).db)
<1>1. HasEntries(emptied)
  BY NewEntries DEF HasEntries, emptied
<1>2. HasEntries(elapse(db))
  <2>1. ASSUME NEW k \in Keys PROVE isEntry(elapse(db)[k])
    <3>1. isEntry(db[k]) /\ isEntry(none)
      BY NewEntries DEF HasEntries
    <3>2. \A n : db[k] # none => isEntry([db[k] EXCEPT !.ttl = n])
      BY <3>1, ChangedEntries
    <3> QED
      BY <3>1, <3>2 DEF elapse
  <2> QED
    BY <2>1 DEF HasEntries, elapse
<1> QED
  BY <1>1, <1>2 DEF RedisFlushDB, lost, done, refused

\* What redis keeps are entries, and a lifetime was stored or an error told.
StoreInv == HasEntries(database) /\ LifetimeOrError

\* One call.
LEMMA CallKept == HasEntries(database) /\ StoreNext => StoreInv'
<1> SUFFICES ASSUME HasEntries(database), StoreNext PROVE StoreInv'
  OBVIOUS
<1>1. ASSUME NEW name, NEW r, HasEntries(r.db), Do(name, r) PROVE StoreInv'
  <2>1. database' = r.db /\ asked'.life = 0
    BY <1>1 DEF Do, Record, NothingAsked
  <2> QED
    BY <1>1, <2>1, SMT DEF StoreInv, LifetimeOrError
<1>2. ASSUME NEW k, NEW life, NEW name, NEW r, HasEntries(r.db),
             life > 0 /\ r.ok => r.db[k].ttl = life, DoFor(k, life, name, r)
      PROVE  StoreInv'
  <2>1. database' = r.db /\ asked'.life = life /\ asked'.key = k /\ ok' = r.ok
    BY <1>2 DEF DoFor, Record
  <2> QED
    BY <1>2, <2>1 DEF StoreInv, LifetimeOrError
<1>3. ASSUME NEW k \in Keys, StringCall(k) PROVE StoreInv'
  <2>1. ASSUME NEW d \in Data, NEW life \in Lives,
               \/ DoFor(k, life, "Set", RedisSet(database, k, d, life))
               \/ DoFor(k, life, "SetString", RedisSetString(database, k, d, life))
               \/ DoFor(k, life, "SetInt64", RedisSetInt64(database, k, d, life))
        PROVE  StoreInv'
    <3>1. CASE DoFor(k, life, "Set", RedisSet(database, k, d, life))
      <4>1. HasEntries(RedisSet(database, k, d, life).db)
        BY <1>3, StringCalls
      <4>2. life > 0 => RedisSet(database, k, d, life).db[k].ttl = life
        BY <1>3, StringCalls
      <4> QED
        BY <1>2, <4>2, <3>1, <4>1
    <3>2. CASE DoFor(k, life, "SetString", RedisSetString(database, k, d, life))
      <4>1. HasEntries(RedisSetString(database, k, d, life).db)
        BY <1>3, StringCalls
      <4>2. life > 0 => RedisSetString(database, k, d, life).db[k].ttl = life
        BY <1>3, StringCalls
      <4> QED
        BY <1>2, <4>2, <3>2, <4>1
    <3>3. CASE DoFor(k, life, "SetInt64", RedisSetInt64(database, k, d, life))
      <4>1. /\ HasEntries(RedisSetInt64(database, k, d, life).db)
            /\ life > 0 => ~RedisSetInt64(database, k, d, life).ok
        BY <1>3, StringCalls
      <4> QED
        BY <1>2, <3>3, <4>1
    <3> QED
      BY <2>1, <3>1, <3>2, <3>3
  <2>2. CASE \/ Do("Get", RedisGet(database, k)) \/ Do("GetString", RedisGetString(database, k))
             \/ Do("GetInt64", RedisGetInt64(database, k))
             \/ Do("Delete", RedisDelete(database, k)) \/ Do("Exists", RedisExists(database, k))
             \/ Do("GetTTL", RedisGetTTL(database, k))
    BY <1>1, <1>3, <2>2, StringCalls
  <2> QED
    BY <1>3, <2>1, <2>2 DEF StringCall
<1>4. ASSUME NEW k \in Keys, HashCall(k) PROVE StoreInv'
  <2>1. ASSUME NEW d \in Data, NEW time \in Times, NEW field \in Data,
               DoFor(k, IF time = <<>> THEN 0 ELSE time[1], "SetHash",
                     RedisSetHash(database, k, [f \in {field} |-> d], time))
        PROVE  StoreInv'
    <3> DEFINE data == [f \in {field} |-> d]
               r == RedisSetHash(database, k, data, time)
               life == IF time = <<>> THEN 0 ELSE time[1]
    <3>1. data # <<>>
      <4>1. field \in DOMAIN data
        OBVIOUS
      <4>2. \A x : x \notin DOMAIN <<>>
        BY SMT
      <4> QED
        BY <4>1, <4>2
    <3>2. DoFor(k, life, "SetHash", r)
      BY <2>1
    <3> HIDE DEF data
    <3>3. r = RedisSetHash(database, k, data, time)
      OBVIOUS
    <3> HIDE DEF r
    <3>4. HasEntries(r.db) /\ (time # <<>> /\ time[1] > 0 /\ r.ok => r.db[k].ttl = time[1])
      BY <1>4, <3>1, <3>3, SetHashStores
    <3>5. life > 0 /\ r.ok => r.db[k].ttl = life
      BY <3>4, SMT
    <3> HIDE DEF life
    <3> QED
      BY <1>2, <3>2, <3>4, <3>5
  <2>2. CASE \/ Do("GetHashOne", RedisGetHashOne(database, k, "f"))
             \/ Do("GetHash", RedisGetHash(database, k))
             \/ Do("ExistsHash", RedisExistsHash(database, k))
             \/ Do("DelHash", RedisDelHash(database, k))
    BY <1>1, <1>4, <2>2, HashCalls
  <2> QED
    BY <1>4, <2>1, <2>2 DEF HashCall
<1>5. ASSUME NEW k \in Keys, CollectionCall(k) PROVE StoreInv'
  <2>1. \E name, r : HasEntries(r.db) /\ Do(name, r)
    BY <1>5, CollectionCalls DEF CollectionCall
  <2> QED
    BY <1>1, <2>1
<1>6. CASE \/ Do("FlushDB", RedisFlushDB(database)) \/ Do("tick", done(elapse(database), {}))
           \/ \E name \in {"Set", "Get", "SAdd"} : Do(name, lost(database))
  <2>1. HasEntries(done(elapse(database), {}).db)
    BY OtherCalls DEF done
  <2> QED
    BY <1>1, <1>6, <2>1, OtherCalls
<1>7. CASE \E k \in Keys : StringCall(k) \/ HashCall(k) \/ CollectionCall(k)
  BY <1>3, <1>4, <1>5, <1>7
<1> QED
  BY <1>6, <1>7 DEF StoreNext

\* Whatever type and lifetime earlier calls gave a key, a call that is asked for
\* a lifetime and reports no error has stored it.
THEOREM LifetimesAreTold == StoreSpec => []LifetimeOrError
<1>1. StoreInit => StoreInv
  <2>1. HasEntries(emptied)
    BY NewEntries DEF HasEntries, emptied
  <2>2. StoreInit => asked.life = 0
    BY DEF StoreInit, NothingAsked
  <2> QED
    BY <2>1, <2>2, SMT DEF StoreInit, StoreInv, LifetimeOrError
<1>2. StoreInv /\ [StoreNext]_storeVars => StoreInv'
  <2>1. CASE StoreInv /\ UNCHANGED storeVars
    BY <2>1 DEF StoreInv, storeVars, LifetimeOrError
  <2>2. CASE StoreInv /\ StoreNext
    <3>1. HasEntries(database)
      BY <2>2 DEF StoreInv
    <3> QED
      BY <2>2, <3>1, CallKept
  <2> QED
    BY <2>1, <2>2
<1>3. StoreInv => LifetimeOrError
  BY DEF StoreInv
<1> QED
  BY <1>1, <1>2, <1>3, PTL DEF StoreSpec


-----------------------------------------------------------------------------
(* Searches page by page.                                                   *)

\* The pools newer than p.
Newer(ids, p) == {q \in ids : q > p}

\* Everything a search and its browser hold is typed, and finitely many pools
\* have a row.
QueryTyped ==
  /\ poolbases \in [PoolIds -> Nat \cup {-1}] /\ IsFiniteSet(matching(-1))
  /\ pager \in [filter : Int, size : Nat, page : Nat, owed : SUBSET PoolIds, seen : SUBSET PoolIds,
                read : BOOLEAN]
  /\ query \in [pc : {"idle", "find"}, total : Nat]

\* A search is served for a page that is not read yet, and its total is of rows
\* that are still there.
Serving ==
  query.pc = "find" =>
    /\ pager.page > 0 /\ ~pager.read
    /\ pager.filter = -1 => query.total <= Cardinality(matching(-1))

\* A pool that was there when the browser started is there still and, if the
\* browser has not seen it, has as many newer pools as the pages read so far
\* hold; so it comes on a page to come.
Owed ==
  pager.filter = -1 =>
    /\ pager.owed \subseteq matching(-1)
    /\ \A p \in pager.owed \ pager.seen :
         ~pager.read /\ Cardinality(Newer(matching(-1), p)) >= (pager.page - 1) * pager.size

QueryInv == QueryTyped /\ Serving /\ Owed

\* Counting: fewer are newer than a newer pool, and fewer than all are newer
\* than any.
LEMMA NewerCount ==
  ASSUME NEW ids, IsFiniteSet(ids), ids \subseteq Nat, NEW p \in ids
  PROVE  /\ IsFiniteSet(Newer(ids, p)) /\ Cardinality(Newer(ids, p)) \in Nat
         /\ Cardinality(Newer(ids, p)) < Cardinality(ids) /\ Cardinality(ids) \in Nat
         /\ \A q \in ids : p < q => Cardinality(Newer(ids, q)) < Cardinality(Newer(ids, p))
<1>1. ASSUME NEW S, NEW T, IsFiniteSet(T), S \subseteq T, NEW x \in T, x \notin S
      PROVE  IsFiniteSet(S) /\ Cardinality(S) \in Nat /\ Cardinality(T) \in Nat
             /\ Cardinality(S) < Cardinality(T)
  <2>1. /\ IsFiniteSet(S) /\ Cardinality(S) <= Cardinality(T)
        /\ Cardinality(T) = Cardinality(S) => S = T
    BY <1>1, FS_Subset
  <2>2. Cardinality(S) \in Nat /\ Cardinality(T) \in Nat
    BY <1>1, <2>1, FS_CardinalityType
  <2> QED
    BY <1>1, <2>1, <2>2
<1>2. Newer(ids, p) \subseteq ids /\ p \notin Newer(ids, p)
  BY DEF Newer
<1>3. /\ IsFiniteSet(Newer(ids, p)) /\ Cardinality(Newer(ids, p)) \in Nat
      /\ Cardinality(Newer(ids, p)) < Cardinality(ids) /\ Cardinality(ids) \in Nat
  BY <1>1, <1>2
<1>4. ASSUME NEW q \in ids, p < q
      PROVE  Cardinality(Newer(ids, q)) < Cardinality(Newer(ids, p))
  <2>0. \A x \in ids : x \in Nat
    OBVIOUS
  <2>1. Newer(ids, q) \subseteq Newer(ids, p) /\ q \in Newer(ids, p) /\ q \notin Newer(ids, q)
    <3>1. \A x \in ids : x > q => x > p
      BY <1>4, <2>0
    <3>2. q > p /\ ~(q > q)
      BY <1>4, <2>0
    <3> QED
      BY <3>1, <3>2 DEF Newer
  <2> QED
    BY <1>1, <1>3, <2>1
<1> QED
  BY <1>3, <1>4

\* Finitely many pools can be put in order, newest first, and are.
InOrder(ids, s) ==
  s \in [1..Cardinality(ids) -> ids] /\ \A i, j \in 1..Cardinality(ids) : i < j => s[i] > s[j]

\* Such an order exists: a pool's place is one more than the number of newer ones.
LEMMA Orderable ==
  ASSUME NEW ids, IsFiniteSet(ids), ids \subseteq Nat
  PROVE  \E s : InOrder(ids, s)
<1> DEFINE n == Cardinality(ids)
           place == [p \in ids |-> Cardinality(Newer(ids, p)) + 1]
<1>1. n \in Nat
  BY FS_CardinalityType
<1>0. ASSUME NEW p \in ids
      PROVE  /\ Cardinality(Newer(ids, p)) \in Nat /\ Cardinality(Newer(ids, p)) < n
             /\ \A q \in ids : p < q => Cardinality(Newer(ids, q)) < Cardinality(Newer(ids, p))
  BY NewerCount
<1>2. \A p, q \in ids : p < q => place[q] < place[p]
  <2>1. ASSUME NEW p \in ids, NEW q \in ids, p < q PROVE place[q] < place[p]
    BY <1>0, <2>1
  <2> QED
    BY <2>1
<1>3. place \in [ids -> 1..n]
  BY <1>0, <1>1
<1>4. place \in Injection(ids, 1..n)
  <2>1. \A p, q \in ids : p # q => p < q \/ q < p
    OBVIOUS
  <2>2. \A p, q \in ids : place[p] = place[q] => p = q
    <3> HIDE DEF place
    <3>1. \A p, q \in ids : place[p] \in Int /\ place[q] \in Int
      BY <1>1, <1>3
    <3> QED
      BY <1>2, <2>1, <3>1
  <2> HIDE DEF place
  <2> QED
    BY <1>3, <2>2 DEF Injection, IsInjective
<1> HIDE DEF place
<1>5. IsFiniteSet(1..n) /\ Cardinality(1..n) = n
  BY <1>1, FS_Interval
<1>6. place \in Surjection(ids, 1..n)
  BY <1>4, <1>5, FS_Injection
<1>7. \A i \in 1..n : \E p \in ids : place[p] = i
  BY <1>6 DEF Surjection
<1> DEFINE s == [i \in 1..n |-> CHOOSE p \in ids : place[p] = i]
<1>8. \A i \in 1..n : s[i] \in ids /\ place[s[i]] = i
  BY <1>7
<1>9. s \in [1..n -> ids]
  BY <1>8
<1> HIDE DEF s
<1>10. ASSUME NEW i \in 1..n, NEW j \in 1..n, i < j PROVE s[i] > s[j]
  <2>1. s[i] \in ids /\ s[j] \in ids /\ place[s[i]] = i /\ place[s[j]] = j
    BY <1>8
  <2>2. i \in Int /\ j \in Int /\ s[i] \in Nat /\ s[j] \in Nat
    <3>1. \A x \in ids : x \in Nat
      OBVIOUS
    <3>2. i \in Int /\ j \in Int
      BY <1>1
    <3> QED
      BY <2>1, <3>1, <3>2
  <2>3. s[i] # s[j]
    BY <1>10, <2>1, <2>2
  <2>4. ~(s[i] < s[j])
    <3>1. s[i] < s[j] => place[s[j]] < place[s[i]]
      BY <1>2, <2>1
    <3> QED
      BY <1>10, <2>1, <2>2, <3>1
  <2> QED
    BY <2>2, <2>3, <2>4
<1> QED
  BY <1>9, <1>10 DEF InOrder

\* The ORDER BY of the query is that order.
LEMMA NewestFirst ==
  ASSUME NEW ids, IsFiniteSet(ids), ids \subseteq Nat
  PROVE  InOrder(ids, descending(ids))
<1> DEFINE Sorted(s) == s \in [1..Cardinality(ids) -> ids] /\ \A i, j \in DOMAIN s : i < j => s[i] > s[j]
<1>1. \A s : InOrder(ids, s) <=> Sorted(s)
  BY DEF InOrder
<1>2. \E s : Sorted(s)
  BY <1>1, Orderable
<1>3. descending(ids) = CHOOSE s : Sorted(s)
  BY DEF descending
<1> HIDE DEF Sorted
<1> QED
  BY <1>1, <1>2, <1>3

\* In order, a pool comes after those that are newer.
LEMMA PlaceOf ==
  ASSUME NEW ids, IsFiniteSet(ids), ids \subseteq Nat, NEW s, InOrder(ids, s), NEW p \in ids
  PROVE  s[Cardinality(Newer(ids, p)) + 1] = p
<1> DEFINE n == Cardinality(ids)
<1>1. n \in Nat /\ s \in [1..n -> ids] /\ \A i, j \in 1..n : i < j => s[i] > s[j]
  BY FS_CardinalityType DEF InOrder
<1>2. \A i, j \in 1..n : s[i] = s[j] => i = j
  <2>1. \A i \in 1..n : s[i] \in Nat
    BY <1>1
  <2>2. \A i, j \in 1..n : i < j \/ j < i \/ i = j
    BY <1>1
  <2> QED
    BY <1>1, <2>1, <2>2
<1>3. s \in Injection(1..n, ids)
  BY <1>1, <1>2 DEF Injection, IsInjective
<1>4. IsFiniteSet(1..n) /\ Cardinality(1..n) = n
  BY <1>1, FS_Interval
<1>5. s \in Surjection(1..n, ids)
  BY <1>3, <1>4, FS_Injection
<1>6. PICK w \in 1..n : s[w] = p
  BY <1>5 DEF Surjection
<1> DEFINE f == [i \in 1..(w - 1) |-> s[i]]
<1>7. \A i \in 1..(w - 1) : i \in 1..n /\ s[i] \in Newer(ids, p)
  <2>1. ASSUME NEW i \in 1..(w - 1) PROVE i \in 1..n /\ s[i] \in Newer(ids, p)
    <3>1. i \in 1..n /\ i < w
      BY <1>1, <1>6
    <3> QED
      BY <1>1, <1>6, <3>1 DEF Newer
  <2> QED
    BY <2>1
<1>8. \A q \in Newer(ids, p) : \E i \in 1..(w - 1) : s[i] = q
  <2>1. ASSUME NEW q \in Newer(ids, p) PROVE \E i \in 1..(w - 1) : s[i] = q
    <3>1. q \in ids /\ q > p
      BY <2>1 DEF Newer
    <3>2. PICK i \in 1..n : s[i] = q
      BY <1>5, <3>1 DEF Surjection
    <3>3. ~(w < i) /\ w # i
      BY <1>1, <1>6, <3>1, <3>2
    <3>4. i \in 1..(w - 1)
      BY <1>1, <3>2, <3>3
    <3> QED
      BY <3>2, <3>4
  <2> QED
    BY <2>1
<1>9. f \in Bijection(1..(w - 1), Newer(ids, p))
  <2>1. f \in Injection(1..(w - 1), Newer(ids, p))
    <3>1. f \in [1..(w - 1) -> Newer(ids, p)]
      BY <1>7
    <3>2. \A i, j \in 1..(w - 1) : f[i] = f[j] => i = j
      BY <1>2, <1>7
    <3> HIDE DEF f
    <3> QED
      BY <3>1, <3>2 DEF Injection, IsInjective
  <2>2. f \in Surjection(1..(w - 1), Newer(ids, p))
    BY <1>7, <1>8 DEF Surjection
  <2> QED
    BY <2>1, <2>2 DEF Bijection
<1>10. Cardinality(Newer(ids, p)) = w - 1
  <2>1. ExistsBijection(1..(w - 1), Newer(ids, p))
    BY <1>9 DEF ExistsBijection
  <2>2. w - 1 \in Nat
    BY <1>1
  <2> QED
    BY <2>1, <2>2, FS_CountingElements
<1> QED
  BY <1>1, <1>6, <1>10

\* The lesser and the greater of two numbers.
LEMMA OfTwo ==
  ASSUME NEW a \in Int, NEW b \in Int
  PROVE  Min({a, b}) = (IF a <= b THEN a ELSE b) /\ Max({a, b}) = (IF a <= b THEN b ELSE a)
<1>1. ASSUME NEW x, \A y : y = x <=> y \in {a, b} /\ \A z \in {a, b} : y <= z
      PROVE  Min({a, b}) = x
  BY <1>1 DEF Min
<1>2. ASSUME NEW x, \A y : y = x <=> y \in {a, b} /\ \A z \in {a, b} : y >= z
      PROVE  Max({a, b}) = x
  BY <1>2 DEF Max
<1>3. CASE a <= b
  <2>1. \A y : y = a <=> y \in {a, b} /\ \A z \in {a, b} : y <= z
    BY <1>3
  <2>2. \A y : y = b <=> y \in {a, b} /\ \A z \in {a, b} : y >= z
    BY <1>3
  <2> QED
    BY <1>1, <1>2, <1>3, <2>1, <2>2
<1>4. CASE ~(a <= b)
  <2>1. \A y : y = b <=> y \in {a, b} /\ \A z \in {a, b} : y <= z
    BY <1>4
  <2>2. \A y : y = a <=> y \in {a, b} /\ \A z \in {a, b} : y >= z
    BY <1>4
  <2> QED
    BY <1>1, <1>2, <1>4, <2>1, <2>2
<1> QED
  BY <1>3, <1>4

\* A page holds the rows from its offset on, a pageful or what is left.
Holds(S, n, s, size, offset, rows) ==
  /\ offset \in Nat /\ rows \in Seq(S)
  /\ Len(rows) = IF n <= offset THEN 0 ELSE IF n < offset + size THEN n - offset ELSE size
  /\ \A i \in 1..Len(rows) : rows[i] = s[offset + i]

\* LIMIT and OFFSET give such a page.
LEMMA PageOf ==
  ASSUME NEW S, NEW n \in Nat, NEW s \in [1..n -> S], NEW size \in Nat, NEW page \in Nat \ {0},
         NEW offset, offset = (page - 1) * size, NEW rows, rows = limitOffset(s, page, size)
  PROVE  Holds(S, n, s, size, offset, rows)
<1>1. offset \in Nat /\ offset = IF page > 1 THEN (page - 1) * size ELSE 0
  <2>1. CASE page > 1
    BY <2>1
  <2>2. CASE page = 1
    BY <2>2
  <2> QED
    BY <2>1, <2>2
<1>2. Len(s) = n
  BY IsASeq
<1> DEFINE last == IF n <= offset + size THEN n ELSE offset + size
<1>3. rows = SubSeq(s, offset + 1, last)
  <2>1. Min({n, offset + size}) = last
    BY <1>1, OfTwo
  <2> HIDE DEF last
  <2> QED
    BY <1>1, <1>2, <2>1 DEF limitOffset
<1>4. last \in Int /\ last <= n /\ offset + 1 \in Int
  BY <1>1
<1>5. \A i \in (offset + 1)..last : s[i] \in S
  BY <1>1, <1>4
<1>6. /\ rows \in Seq(S)
      /\ Len(rows) = IF offset + 1 <= last THEN last - (offset + 1) + 1 ELSE 0
      /\ \A i \in 1..(last - (offset + 1) + 1) : rows[i] = s[(offset + 1) + i - 1]
  <2> HIDE DEF last
  <2>1. PICK w, l : w = offset + 1 /\ l = last
    OBVIOUS
  <2>2. w \in Int /\ l \in Int /\ rows = SubSeq(s, w, l) /\ \A i \in w..l : s[i] \in S
    BY <1>3, <1>4, <1>5, <2>1
  <2>3. rows \in Seq(S)
    BY <2>2, SubSeqProperties
  <2>4. Len(rows) = IF w <= l THEN l - w + 1 ELSE 0
    BY <2>2, SubSeqProperties
  <2>5. \A i \in 1..(l - w + 1) : rows[i] = s[w + i - 1]
    BY <2>2, SubSeqProperties
  <2> QED
    BY <2>1, <2>3, <2>4, <2>5
<1>7. Len(rows) = IF n <= offset THEN 0 ELSE IF n < offset + size THEN n - offset ELSE size
  <2>1. CASE size = 0
    BY <1>1, <1>6, <2>1
  <2>2. CASE size # 0
    BY <1>1, <1>6, <2>2
  <2> QED
    BY <2>1, <2>2
<1>8. ASSUME NEW i \in 1..Len(rows) PROVE rows[i] = s[offset + i]
  <2>1. i \in 1..(last - (offset + 1) + 1) /\ (offset + 1) + i - 1 = offset + i
    BY <1>1, <1>4, <1>6
  <2> HIDE DEF last
  <2> QED
    BY <1>6, <2>1
<1> QED
  BY <1>1, <1>6, <1>7, <1>8 DEF Holds

\* The first state of the rows and of the queries.
LEMMA QueryBegins == QueryInit => QueryInv
<1> SUFFICES ASSUME QueryInit PROVE QueryInv
  OBVIOUS
<1>1. poolbases \in [PoolIds -> Nat \cup {-1}] /\ matching(-1) = {}
  BY DEF QueryInit, matching
<1>2. IsFiniteSet(matching(-1))
  BY <1>1, FS_EmptySet
<1>3. QueryTyped
  BY <1>1, <1>2 DEF QueryInit, QueryTyped, nobody, noRequest
<1>4. Serving /\ Owed
  BY DEF QueryInit, Serving, Owed, nobody, noRequest
<1> QED
  BY <1>3, <1>4 DEF QueryInv

\* The pools that a search without a filter finds.
LEMMA Saved ==
  ASSUME QueryTyped
  PROVE  /\ matching(-1) = {p \in PoolIds : poolbases[p] # -1} /\ IsFiniteSet(matching(-1))
         /\ matching(-1) \subseteq Nat /\ Cardinality(matching(-1)) \in Nat
<1>1. matching(-1) = {p \in PoolIds : poolbases[p] # -1}
  BY DEF matching
<1>2. matching(-1) \subseteq Nat
  BY <1>1, QueriesAssumption
<1>3. IsFiniteSet(matching(-1))
  BY DEF QueryTyped
<1> QED
  BY <1>1, <1>2, <1>3, FS_CardinalityType

\* Rows that are added, updated or left alone: what is owed stays behind as many
\* newer pools, and a total of rows that were there is of rows that are.
LEMMA RowsGrow ==
  ASSUME QueryInv, UNCHANGED <<pager, query>>, poolbases' \in [PoolIds -> Nat \cup {-1}],
         IsFiniteSet(matching(-1)'), matching(-1) \subseteq matching(-1)'
  PROVE  QueryInv'
<1> DEFINE T == matching(-1)'
<1>1. QueryTyped'
  BY DEF QueryInv, QueryTyped
<1>2. Cardinality(matching(-1)) <= Cardinality(T) /\ Cardinality(T) \in Nat
      /\ Cardinality(matching(-1)) \in Nat
  <2>1. Cardinality(matching(-1)) <= Cardinality(T)
    BY FS_Subset
  <2> QED
    BY <2>1, FS_CardinalityType, Saved DEF QueryInv
<1>3. Serving'
  <2>1. query.total \in Nat
    BY DEF QueryInv, QueryTyped
  <2> QED
    BY <1>2, <2>1 DEF QueryInv, Serving
<1>4. ASSUME pager.filter = -1, NEW p \in pager.owed \ pager.seen
      PROVE  ~pager.read /\ Cardinality(Newer(T, p)) >= (pager.page - 1) * pager.size
  <2>1. ~pager.read /\ Cardinality(Newer(matching(-1), p)) >= (pager.page - 1) * pager.size
    BY <1>4 DEF QueryInv, Owed
  <2>2. Newer(matching(-1), p) \subseteq Newer(T, p) /\ Newer(T, p) \subseteq T
    BY DEF Newer
  <2>3. IsFiniteSet(Newer(T, p))
    BY <2>2, FS_Subset
  <2>4. Cardinality(Newer(matching(-1), p)) <= Cardinality(Newer(T, p))
        /\ IsFiniteSet(Newer(matching(-1), p))
    BY <2>2, <2>3, FS_Subset
  <2>5. Cardinality(Newer(matching(-1), p)) \in Nat /\ Cardinality(Newer(T, p)) \in Nat
    BY <2>3, <2>4, FS_CardinalityType
  <2>6. (pager.page - 1) * pager.size \in Int
    BY DEF QueryInv, QueryTyped
  <2> QED
    BY <2>1, <2>4, <2>5, <2>6
<1>5. Owed'
  BY <1>4 DEF QueryInv, Owed
<1> QED
  BY <1>1, <1>3, <1>5 DEF QueryInv

\* A page brings the browser the pools at its place, so what it still is owed is
\* behind the page; a short page leaves nothing behind.
LEMMA PageKeeps ==
  ASSUME QueryInv, query.pc = "find", NEW rows,
         rows = limitOffset(descending(matching(pager.filter)), pager.page, pager.size),
         pager' = [pager EXCEPT !.seen = pager.seen \cup ToSet(rows), !.page = pager.page + 1,
                                !.read = Len(rows) < pager.size],
         query' = noRequest, UNCHANGED rowVars
  PROVE  QueryInv'
<1> USE DEF QueryInv
<1>0. UNCHANGED poolbases /\ \A f : matching(f)' = matching(f)
  BY DEF rowVars, matching
<1>1. /\ pager.page \in Nat \ {0} /\ pager.size \in Nat /\ pager.owed \subseteq PoolIds
      /\ pager.seen \subseteq PoolIds /\ pager.filter \in Int
  BY DEF QueryTyped, Serving
<1> DEFINE ids == matching(pager.filter)
           s == descending(ids)
           offset == (pager.page - 1) * pager.size
<1>2. ids \subseteq matching(-1) /\ ids \subseteq PoolIds
  BY DEF matching
<1>3. IsFiniteSet(ids) /\ ids \subseteq Nat /\ Cardinality(ids) \in Nat
  <2>1. IsFiniteSet(ids) /\ ids \subseteq Nat
    BY <1>2, Saved, FS_Subset
  <2> QED
    BY <2>1, FS_CardinalityType
<1>4. InOrder(ids, s)
  BY <1>3, NewestFirst
<1> HIDE DEF ids, s
<1>5. s \in [1..Cardinality(ids) -> ids]
  BY <1>4 DEF InOrder
<1>6. rows = limitOffset(s, pager.page, pager.size)
  BY DEF s, ids
<1>7. /\ offset \in Nat /\ rows \in Seq(ids)
      /\ Len(rows) = IF Cardinality(ids) <= offset THEN 0
                     ELSE IF Cardinality(ids) < offset + pager.size THEN Cardinality(ids) - offset
                     ELSE pager.size
      /\ \A i \in 1..Len(rows) : rows[i] = s[offset + i]
  <2>1. PICK o, n, page, size : o = offset /\ n = Cardinality(ids) /\ page = pager.page /\ size = pager.size
    OBVIOUS
  <2>2. /\ o = (page - 1) * size /\ page \in Nat \ {0} /\ size \in Nat /\ n \in Nat
        /\ s \in [1..n -> ids] /\ rows = limitOffset(s, page, size)
    BY <1>1, <1>3, <1>5, <1>6, <2>1
  <2>3. Holds(ids, n, s, size, o, rows)
    BY <2>2, PageOf
  <2> QED
    BY <2>1, <2>3 DEF Holds
<1>8. ToSet(rows) \subseteq PoolIds /\ \A i \in 1..Len(rows) : rows[i] \in ToSet(rows)
  <2>1. DOMAIN rows = 1..Len(rows) /\ \A i \in 1..Len(rows) : rows[i] \in ids
    BY <1>7
  <2> QED
    BY <1>2, <2>1 DEF ToSet
<1>9. /\ pager'.filter = pager.filter /\ pager'.size = pager.size /\ pager'.owed = pager.owed
      /\ pager'.seen = pager.seen \cup ToSet(rows) /\ pager'.page = pager.page + 1
      /\ pager'.read = (Len(rows) < pager.size)
      /\ pager' \in [filter : Int, size : Nat, page : Nat, owed : SUBSET PoolIds,
                     seen : SUBSET PoolIds, read : BOOLEAN]
  <2>1. pager \in [filter : Int, size : Nat, page : Nat, owed : SUBSET PoolIds,
                   seen : SUBSET PoolIds, read : BOOLEAN]
    BY DEF QueryTyped
  <2>2. pager.seen \cup ToSet(rows) \in SUBSET PoolIds /\ (Len(rows) < pager.size) \in BOOLEAN
        /\ pager.page + 1 \in Nat
    BY <1>1, <1>8
  <2> QED
    BY <2>1, <2>2
<1>10. QueryTyped' /\ Serving'
  BY <1>0, <1>9 DEF QueryTyped, Serving, noRequest
<1>11. (pager'.page - 1) * pager'.size = offset + pager.size
  BY <1>1, <1>9
<1> HIDE DEF offset
<1>12. ASSUME pager.filter = -1, NEW p \in pager.owed, p \notin pager.seen, p \notin ToSet(rows)
       PROVE  Cardinality(Newer(ids, p)) >= offset + pager.size /\ ~(Len(rows) < pager.size)
  <2>1. p \in ids /\ Cardinality(Newer(ids, p)) >= offset
    BY <1>12 DEF Owed, ids, offset
  <2>2. PICK k : k = Cardinality(Newer(ids, p))
    OBVIOUS
  <2>3. k \in Nat /\ k < Cardinality(ids) /\ k >= offset
    BY <1>3, <2>1, <2>2, NewerCount
  <2>4. s[k + 1] = p
    BY <1>3, <1>4, <2>1, <2>2, PlaceOf
  <2>5. k + 1 - offset \notin 1..Len(rows)
    <3>1. SUFFICES ASSUME k + 1 - offset \in 1..Len(rows) PROVE FALSE
      OBVIOUS
    <3>2. rows[k + 1 - offset] = s[offset + (k + 1 - offset)]
      BY <1>7, <3>1
    <3>3. offset + (k + 1 - offset) = k + 1
      BY <1>7, <2>3
    <3> QED
      BY <1>8, <1>12, <2>4, <3>1, <3>2, <3>3
  <2>6. Len(rows) \in Nat /\ k + 1 - offset > Len(rows)
    BY <1>1, <1>3, <1>7, <2>3, <2>5
  <2> QED
    BY <1>1, <1>3, <1>7, <2>2, <2>3, <2>6
<1>13. Owed'
  <2>1. ASSUME pager.filter = -1
        PROVE  ids = matching(-1) /\ pager.owed \subseteq ids
    BY <2>1 DEF Owed, ids
  <2>2. ASSUME pager.filter = -1, NEW p \in pager.owed, p \notin pager'.seen
        PROVE  ~pager'.read /\ Cardinality(Newer(ids, p)) >= offset + pager.size
    BY <1>9, <1>12, <2>2
  <2>3. ASSUME pager'.filter = -1
        PROVE  /\ pager'.owed \subseteq matching(-1)'
               /\ \A p \in pager'.owed \ pager'.seen :
                    /\ ~pager'.read
                    /\ Cardinality(Newer(matching(-1)', p)) >= (pager'.page - 1) * pager'.size
    <3>1. pager.filter = -1 /\ ids = matching(-1)' /\ pager'.owed = pager.owed
      BY <1>0, <1>9, <2>1, <2>3
    <3>2. pager'.owed \subseteq matching(-1)'
      BY <2>1, <3>1
    <3>3. ASSUME NEW p \in pager'.owed \ pager'.seen
          PROVE  /\ ~pager'.read
                 /\ Cardinality(Newer(matching(-1)', p)) >= (pager'.page - 1) * pager'.size
      BY <1>11, <2>2, <3>1, <3>3
    <3> QED
      BY <3>2, <3>3
  <2> QED
    BY <2>3 DEF Owed, Newer
<1> QED
  BY <1>10, <1>13

\* The steps of the API and of the task process keep the invariant.
LEMMA QueryKept == QueryInv /\ [QueryNext]_queryVars => QueryInv'
<1> SUFFICES ASSUME QueryInv, [QueryNext]_queryVars PROVE QueryInv'
  OBVIOUS
<1> USE DEF QueryInv
<1>0. /\ pager \in [filter : Int, size : Nat, page : Nat, owed : SUBSET PoolIds,
                    seen : SUBSET PoolIds, read : BOOLEAN]
      /\ query \in [pc : {"idle", "find"}, total : Nat]
      /\ poolbases \in [PoolIds -> Nat \cup {-1}] /\ IsFiniteSet(matching(-1))
  BY DEF QueryTyped
<1>1. ASSUME UNCHANGED <<poolbases, pager, query>> PROVE QueryInv'
  <2>1. matching(-1)' = matching(-1)
    BY <1>1 DEF matching
  <2> QED
    BY <1>0, <1>1, <2>1, RowsGrow
<1>2. ASSUME UNCHANGED <<poolbases, pager>>, query' \in [pc : {"idle", "find"}, total : Nat],
             query'.pc = "find" =>
               /\ pager.page > 0 /\ ~pager.read
               /\ pager.filter = -1 => query'.total <= Cardinality(matching(-1))
      PROVE  QueryInv'
  <2>1. matching(-1)' = matching(-1)
    BY <1>2 DEF matching
  <2> QED
    BY <1>2, <2>1 DEF QueryTyped, Serving, Owed
<1>3. ASSUME NEW p \in PoolIds, SaveBase(p) PROVE QueryInv'
  <2>1. UNCHANGED <<pager, query>> /\ poolbases' = [poolbases EXCEPT ![p] = poolbases[p] + 1]
    BY <1>3 DEF SaveBase
  <2>2. poolbases[p] + 1 \in Nat /\ poolbases[p] + 1 # -1
    BY <1>0
  <2>3. poolbases' \in [PoolIds -> Nat \cup {-1}]
    BY <1>0, <2>1, <2>2
  <2>4. matching(-1)' = matching(-1) \cup {p}
    BY <1>0, <2>1, <2>2 DEF matching
  <2>5. IsFiniteSet(matching(-1)')
    BY <1>0, <2>4, FS_AddElement
  <2> QED
    BY <2>1, <2>3, <2>4, <2>5, RowsGrow
<1>4. ASSUME NEW filter \in -1..MaxState, NEW size \in PageSizes, Browse(filter, size) PROVE QueryInv'
  <2> DEFINE owed == IF filter = -1 THEN matching(filter) ELSE {}
  <2>1. /\ pager' = [nobody EXCEPT !.filter = filter, !.size = size, !.page = 1, !.owed = owed]
        /\ query.pc = "idle" /\ UNCHANGED <<poolbases, query>>
    BY <1>4 DEF Browse, rowVars
  <2>2. owed \in SUBSET PoolIds /\ filter \in Int /\ size \in Nat /\ (filter = -1 => owed = matching(-1))
    BY QueriesAssumption DEF matching
  <2> HIDE DEF owed
  <2>3. /\ pager'.filter = filter /\ pager'.size = size /\ pager'.page = 1 /\ pager'.owed = owed
        /\ pager'.seen = {} /\ pager'.read = FALSE
        /\ pager' \in [filter : Int, size : Nat, page : Nat, owed : SUBSET PoolIds,
                       seen : SUBSET PoolIds, read : BOOLEAN]
    BY <2>1, <2>2 DEF nobody
  <2>4. matching(-1)' = matching(-1)
    BY <2>1 DEF matching
  <2>5. QueryTyped' /\ Serving'
    BY <1>0, <2>1, <2>3, <2>4 DEF QueryTyped, Serving
  <2>6. ASSUME filter = -1, NEW p \in owed
        PROVE  Cardinality(Newer(matching(-1), p)) >= (1 - 1) * size
    <3>1. Cardinality(Newer(matching(-1), p)) \in Nat
      BY <2>2, <2>6, Saved, NewerCount
    <3>2. (1 - 1) * size = 0
      BY <2>2
    <3> QED
      BY <3>1, <3>2
  <2>7. Owed'
    BY <2>2, <2>3, <2>4, <2>6 DEF Owed
  <2> QED
    BY <2>5, <2>7
<1>5. ASSUME CountRows PROVE QueryInv'
  <2>1. /\ query' = [pc |-> "find", total |-> Cardinality(matching(pager.filter))]
        /\ pager.page > 0 /\ ~pager.read /\ UNCHANGED <<poolbases, pager>>
    BY <1>5 DEF CountRows, rowVars
  <2>2. matching(pager.filter) \subseteq matching(-1)
    BY DEF matching
  <2>3. Cardinality(matching(pager.filter)) \in Nat
    <3>1. IsFiniteSet(matching(pager.filter))
      BY <1>0, <2>2, FS_Subset
    <3> QED
      BY <3>1, FS_CardinalityType
  <2>4. query' \in [pc : {"idle", "find"}, total : Nat]
    BY <2>1, <2>3
  <2>5. pager.filter = -1 => query'.total <= Cardinality(matching(-1))
    BY <2>1, <2>3
  <2> QED
    BY <1>2, <2>1, <2>4, <2>5
<1>6. ASSUME QueryFails PROVE QueryInv'
  <2>1. UNCHANGED <<poolbases, pager>>
    BY <1>6 DEF QueryFails, rowVars
  <2>2. CASE query' = noRequest
    BY <1>2, <2>1, <2>2 DEF noRequest
  <2>3. CASE pager.page > 0 /\ ~pager.read /\ query' = [pc |-> "find", total |-> 0]
    <3>1. Cardinality(matching(-1)) \in Nat
      BY Saved
    <3> QED
      BY <1>2, <2>1, <2>3, <3>1
  <2> QED
    BY <1>6, <2>2, <2>3 DEF QueryFails
<1>7. ASSUME Pagination PROVE QueryInv'
  <2>1. PICK rows : rows = limitOffset(descending(matching(pager.filter)), pager.page, pager.size)
    OBVIOUS
  <2>2. query.pc = "find" /\ query' = noRequest /\ UNCHANGED rowVars
    BY <1>7 DEF Pagination
  <2>3. CASE UNCHANGED pager
    BY <1>2, <2>2, <2>3 DEF noRequest, rowVars
  <2>4. CASE pager' = [pager EXCEPT !.seen = pager.seen \cup ToSet(rows), !.page = pager.page + 1,
                                    !.read = Len(rows) < pager.size]
    BY <2>1, <2>2, <2>4, PageKeeps
  <2> QED
    BY <1>7, <2>1, <2>3, <2>4 DEF Pagination
<1>8. ASSUME \/ PoolBaseInfo \/ PoolDataInfo \/ TokenList \/ DebtTokenList \/ Refuse
             \/ (\E p \in PoolIds : SaveData(p)) \/ (\E t \in Tokens : SaveToken(t))
             \/ UNCHANGED queryVars
      PROVE  QueryInv'
  <2>1. UNCHANGED <<poolbases, pager, query>>
    BY <1>8 DEF PoolBaseInfo, PoolDataInfo, TokenList, DebtTokenList, Refuse, SaveData, SaveToken,
                queryVars, rowVars
  <2> QED
    BY <1>1, <2>1
<1> QED
  BY <1>3, <1>4, <1>5, <1>6, <1>7, <1>8 DEF QueryNext, Search

\* The rows, the searches and their browser fit together in every reachable
\* state.
THEOREM SearchInvariant == QuerySpec => []QueryInv
BY QueryBegins, QueryKept, PTL DEF QuerySpec

\* A browser that reads an unfiltered search to its end has seen every pool that
\* was there when it started, though rows are saved between its pages
\* (Pagination).
THEOREM PagesAreComplete == QuerySpec => []PagesMissNone
<1>1. QueryInv => PagesMissNone
  BY DEF QueryInv, Owed, PagesMissNone
<1> QED
  BY <1>1, SearchInvariant, PTL

\* A page that the total of an unfiltered search promises has its rows, though
\* rows are counted in one query and found in another (CountRows, Pagination).
THEOREM TotalIsKept == QuerySpec => CountIsKept
<1> DEFINE Promised == query.pc = "find" /\ query'.pc = "idle" /\ answer'.code = "CommonSuccess"
                         /\ pager.filter = -1
           Least == Min({pager.size, Max({0, query.total - (pager.page - 1) * pager.size})})
<1>1. QueryInv /\ [QueryNext]_queryVars => [Promised => Len(answer'.rows) >= Least]_queryVars
  <2> SUFFICES ASSUME QueryInv, QueryNext, Promised PROVE Len(answer'.rows) >= Least
    BY DEF queryVars, rowVars
  <2> USE DEF QueryInv
  <2>0. /\ pager.page \in Nat \ {0} /\ pager.size \in Nat /\ query.total \in Nat
        /\ query.total <= Cardinality(matching(-1))
    BY DEF QueryTyped, Serving
  <2> DEFINE ids == matching(-1)
             s == descending(ids)
             n == Cardinality(ids)
             offset == (pager.page - 1) * pager.size
  <2>1. IsFiniteSet(ids) /\ ids \subseteq Nat /\ n \in Nat
    BY Saved
  <2>2. s \in [1..n -> ids]
    BY <2>1, NewestFirst DEF InOrder
  <2>3. PICK rows : /\ rows = limitOffset(s, pager.page, pager.size)
                    /\ answer'.rows = [i \in DOMAIN rows |-> [index |-> Head(pooldata), pool |-> rows[i]]]
    <3>1. Pagination
      BY DEF QueryNext, Search, fresh, PoolBaseInfo, PoolDataInfo, TokenList, DebtTokenList, Refuse,
             QueryFails, Browse, CountRows, SaveBase, SaveData, SaveToken, reply
    <3>2. PICK rows : rows = limitOffset(descending(matching(pager.filter)), pager.page, pager.size)
      OBVIOUS
    <3>3. \/ answer' = reply("CommonErrServerErr", <<>>, 0)
          \/ answer' = reply("CommonSuccess",
                             [i \in DOMAIN rows |-> [index |-> Head(pooldata), pool |-> rows[i]]], query.total)
      BY <3>1, <3>2 DEF Pagination
    <3>4. answer' # reply("CommonErrServerErr", <<>>, 0)
      BY DEF reply
    <3>5. answer'.rows = [i \in DOMAIN rows |-> [index |-> Head(pooldata), pool |-> rows[i]]]
      BY <3>3, <3>4 DEF reply
    <3> QED
      BY <3>2, <3>5
  <2> HIDE DEF ids, s, n
  <2>4. PICK o, page, size, total : o = offset /\ page = pager.page /\ size = pager.size /\ total = query.total
    OBVIOUS
  <2>4a. /\ o = (page - 1) * size /\ page \in Nat \ {0} /\ size \in Nat /\ total \in Nat
         /\ rows = limitOffset(s, page, size) /\ total <= n
    BY <2>0, <2>3, <2>4 DEF n, ids
  <2>5. Holds(ids, n, s, size, o, rows)
    BY <2>1, <2>2, <2>4a, PageOf
  <2>6. /\ o \in Nat /\ rows \in Seq(ids)
        /\ Len(rows) = IF n <= o THEN 0 ELSE IF n < o + size THEN n - o ELSE size
    BY <2>5 DEF Holds
  <2>7. Len(answer'.rows) = Len(rows)
    BY <2>3, <2>6
  <2> HIDE DEF offset
  <2>8. PICK d : d = total - o
    OBVIOUS
  <2>9. d \in Int
    BY <2>4a, <2>6, <2>8
  <2>10. PICK w, z : w = Max({z, d}) /\ z = 0
    OBVIOUS
  <2>11. w = IF 0 <= d THEN d ELSE 0
    <3>1. z \in Int
      BY <2>10
    <3>2. Max({z, d}) = IF z <= d THEN d ELSE z
      BY <2>9, <3>1, OfTwo
    <3> QED
      BY <2>10, <3>2
  <2>12. w \in Int
    BY <2>9, <2>11
  <2>13. Min({size, w}) = IF size <= w THEN size ELSE w
    BY <2>4a, <2>12, OfTwo
  <2>14. Least = Min({size, w})
    BY <2>4, <2>8, <2>10 DEF offset
  <2> HIDE DEF Least
  <2>15. Len(rows) >= (IF size <= w THEN size ELSE w)
    BY <2>1, <2>4a, <2>6, <2>8, <2>11
  <2> QED
    BY <2>7, <2>13, <2>14, <2>15
<1>2. CountIsKept <=> [][Promised => Len(answer'.rows) >= Least]_queryVars
  BY DEF CountIsKept
<1> QED
  BY <1>1, <1>2, SearchInvariant, PTL DEF QuerySpec
=============================================================================
