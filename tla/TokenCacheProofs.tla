-------------------------- MODULE TokenCacheProofs --------------------------
(***************************************************************************)
(* What the jobs that fetch prices, symbols and logos leave in redis and    *)
(* MySQL, for any number of tokens, prices and runs in flight, whatever     *)
(* fails and wherever the task process stops.                               *)
(***************************************************************************)
EXTENDS TokenCache, SequenceTheorems, TLAPS

\* An answer of the oracle cut to an int64, or none; of a token it is not asked
\* about, any price.
Honest(k, p) == net[k] = "test" => p = unset \/ \E q \in quoted[k] : p = Int64(q)

\* Runs carry such prices, and redis and MySQL hold them.
CarriedHonest ==
  \A r \in Runs : task[r].pc # "next" => task[r].token \in Keys /\ Honest(task[r].token, task[r].new.price)
CachedHonest == \A k \in Keys : redis[k] # none => Honest(k, record(k).price)
RowsHonest == \A k \in Keys : \A i \in DOMAIN rows[k] : Honest(k, rows[k][i].info.price)
QuotesKept == \A k \in Keys : quote[k] \in quoted[k]

\* A price or symbol run works on tokens that have a row, which are never
\* deleted, and so has none to create.
ByValue(r) == job(r) \in {"price", "symbol"}
WorksOnRows ==
  \A r \in Runs : ByValue(r) =>
    /\ task[r].pc # "create" /\ \A e \in task[r].todo : rows[e[1]] # <<>>
    /\ task[r].pc # "next" => rows[task[r].token] # <<>>

\* A run that is about to mark a token has written its file.
FileWritten == \A r \in Runs : task[r].pc = "flag" => task[r].token \in file

IInv ==
  /\ TypeOK
  /\ QuotesKept /\ CarriedHonest /\ CachedHonest /\ RowsHonest
  /\ WorksOnRows /\ FileWritten

-----------------------------------------------------------------------------
(* The lemmas.                                                              *)

\* TypeOK by parts: what is stored, the runs, and the world.
Records == {none} \cup [type : {"string"}, value : {"json"} \X RedisTokenInfo, ttl : {Forever}]

StoreOK ==
  /\ redis \in [Keys -> Records] /\ rows \in [Keys -> Seq(TokenInfo)] /\ file \subseteq Keys

TaskState == [pc : {"next", "check", "first", "create", "set", "save",
                    "abi", "flag", "symbol", "lookup", "row", "fill"},
              todo : SUBSET (Keys \X {"row", "remote", "local", "read", "save"}),
              token : Keys \cup {unset}, new : RedisTokenInfo]

WorldOK ==
  /\ net \in [Keys -> Nets] /\ quote \in [Keys -> Prices]
  /\ boot \in Seq(Jobs \cup {"cron"}) /\ events \in 0..MaxEvents
  /\ quoted \in [Keys -> SUBSET (Prices \cup {0})] /\ dirty \in BOOLEAN

\* The parts are the whole.
LEMMA Parts == TypeOK <=> StoreOK /\ WorldOK /\ task \in [Runs -> TaskState]
BY DEF TypeOK, StoreOK, WorldOK, Records, TaskState

\* An int64 holds every number below the limit.
LEMMA Holds == ASSUME NEW p \in Nat, p < PriceLimit PROVE Int64(p) = p
<1>1. \A m \in Nat : p < m => p % m = p
  OBVIOUS
<1>2. 2 * PriceLimit \in Nat /\ p < 2 * PriceLimit
  BY TokenCacheAssumption
<1>3. p % (2 * PriceLimit) = p
  BY <1>1, <1>2
<1> QED
  BY <1>3 DEF Int64

\* A record without anything, and a run at rest.
LEMMA Nothing ==
  /\ emptyInfo \in RedisTokenInfo /\ emptyInfo.price = unset
  /\ idle \in TaskState /\ idle.pc = "next" /\ idle.todo = {}
<1>1. emptyInfo \in RedisTokenInfo /\ emptyInfo.price = unset
  BY DEF emptyInfo, RedisTokenInfo
<1> QED
  BY <1>1 DEF idle, TaskState

\* What the invariant asks of a run's state, but for its file.
Fits(r, t) ==
  /\ t \in TaskState
  /\ t.pc # "next" => t.token \in Keys /\ Honest(t.token, t.new.price)
  /\ ByValue(r) =>
       /\ t.pc # "create" /\ \A e \in t.todo : rows[e[1]] # <<>>
       /\ t.pc # "next" => rows[t.token] # <<>>

\* Under the invariant each job's state fits its place in the code.
LEMMA FitsNow == ASSUME IInv, NEW r \in Runs PROVE Fits(r, task[r])
<1>1. task[r] \in TaskState
  BY Parts DEF IInv
<1> QED
  BY <1>1 DEF IInv, Fits, CarriedHonest, WorksOnRows

\* A run's move keeps the invariant if what is stored stays honest, and loses
\* neither rows nor files.
LEMMA Kept ==
  ASSUME IInv, NEW r \in Runs, NEW t, Fits(r, t), task' = [task EXCEPT ![r] = t],
         t.pc = "flag" => t.token \in file',
         UNCHANGED <<net, quote, quoted>>,
         boot' \in Seq(Jobs \cup {"cron"}), events' \in 0..MaxEvents, dirty' \in BOOLEAN,
         StoreOK', CachedHonest', RowsHonest',
         file \subseteq file', \A k \in Keys : rows[k] # <<>> => rows'[k] # <<>>
  PROVE  IInv'
<1> USE DEF IInv
<1>1. task'[r] = t /\ (\A q \in Runs \ {r} : task'[q] = task[q]) /\ task' \in [Runs -> TaskState]
  BY Parts DEF Fits
<1>2. TypeOK'
  <2>1. WorldOK'
    BY Parts DEF WorldOK
  <2> QED
    BY <1>1, <2>1 DEF TypeOK, StoreOK, WorldOK, Records, TaskState
<1>3. QuotesKept'
  BY DEF QuotesKept
<1>4. CarriedHonest'
  BY <1>1 DEF CarriedHonest, Honest, Fits
<1>5. WorksOnRows'
  <2> SUFFICES ASSUME NEW q \in Runs, ByValue(q)
               PROVE  /\ task'[q].pc # "create" /\ \A e \in task'[q].todo : rows'[e[1]] # <<>>
                      /\ task'[q].pc # "next" => rows'[task'[q].token] # <<>>
    BY DEF WorksOnRows, ByValue, job
  <2>1. Fits(q, task'[q])
    BY <1>1, FitsNow
  <2>2. \A e \in task'[q].todo : e[1] \in Keys
    BY <2>1 DEF Fits, TaskState
  <2> QED
    BY <2>1, <2>2 DEF Fits
<1>6. FileWritten'
  BY <1>1 DEF FileWritten
<1> QED
  BY <1>2, <1>3, <1>4, <1>5, <1>6

\* What a call that reads or fails leaves alone.
Silent == UNCHANGED <<redis, rows, file, net, quote, quoted>> /\ events' \in 0..MaxEvents /\ dirty' \in BOOLEAN

\* A read and a failed call leave both stores alone.
LEMMA Silence ==
  ASSUME TypeOK
  PROVE  (Read => Silent) /\ \A call : Fail(call) => Silent
<1>1. events \in 0..MaxEvents /\ dirty \in BOOLEAN
  BY DEF TypeOK
<1>2. Read => Silent
  BY <1>1 DEF Read, Write, store, Silent
<1>3. ASSUME NEW call, Fail(call)
      PROVE  Silent
  <2>1. events' \in 0..MaxEvents
    BY <1>1, <1>3, TokenCacheAssumption DEF Fail, Event
  <2> QED
    BY <1>3, <2>1 DEF Fail, Silent, store
<1> QED
  BY <1>2, <1>3

\* A step that leaves the stores alone and fits its job keeps the invariant.
LEMMA SilentKept ==
  ASSUME IInv, NEW r \in Runs, NEW t, Fits(r, t), task' = [task EXCEPT ![r] = t],
         t.pc = "flag" => t.token \in file, Silent, boot' \in Seq(Jobs \cup {"cron"})
  PROVE  IInv'
<1>1. StoreOK' /\ CachedHonest' /\ RowsHonest'
  BY Parts DEF IInv, Silent, StoreOK, CachedHonest, RowsHonest, Honest, record
<1>2. UNCHANGED <<rows, file, net, quote, quoted>> /\ events' \in 0..MaxEvents /\ dirty' \in BOOLEAN
  BY DEF Silent
<1> QED
  BY <1>1, <1>2, Kept

\* A run that ends its work on a token, and one that goes on to another call.
LEMMA Finished ==
  ASSUME IInv, NEW r \in Runs, Finish(r)
  PROVE  \E t : Fits(r, t) /\ task' = [task EXCEPT ![r] = t] /\ t.pc = "next"
<1> DEFINE t == [idle EXCEPT !.todo = task[r].todo]
<1>1. Fits(r, task[r])
  BY FitsNow
<1>2. t \in TaskState /\ t.pc = "next" /\ t.todo = task[r].todo
  BY <1>1, Nothing DEF Fits, TaskState
<1>3. task' = [task EXCEPT ![r] = t]
  BY DEF Finish
<1> HIDE DEF t
<1> QED
  BY <1>1, <1>2, <1>3 DEF Fits

\* Going on to another call keeps a job's token.
LEMMA Gone ==
  ASSUME IInv, NEW r \in Runs, task[r].pc # "next",
         NEW pc \in {"check", "first", "create", "set", "save", "abi", "flag", "symbol", "row", "fill"},
         pc = "create" => ~ByValue(r), Goto(r, pc)
  PROVE  \E t : /\ Fits(r, t) /\ task' = [task EXCEPT ![r] = t]
                /\ t.pc = pc /\ t.token = task[r].token
<1> DEFINE t == [task[r] EXCEPT !.pc = pc]
<1>1. Fits(r, task[r])
  BY FitsNow
<1>2. /\ t \in TaskState /\ t.pc = pc /\ t.todo = task[r].todo /\ t.token = task[r].token
      /\ t.new = task[r].new
  BY <1>1 DEF Fits, TaskState
<1>3. task' = [task EXCEPT ![r] = t]
  BY DEF Goto
<1> HIDE DEF t
<1> QED
  BY <1>1, <1>2, <1>3 DEF Fits

\* A run that reads or fails and goes on, or ends its work on the token.
LEMMA TurnKept ==
  ASSUME IInv, NEW r \in Runs, task[r].pc # "next", Silent, UNCHANGED boot,
         \/ Finish(r)
         \/ \E pc \in {"check", "first", "set", "save", "abi", "symbol", "row"} : Goto(r, pc)
         \/ Goto(r, "create") /\ ~ByValue(r)
  PROVE  IInv'
<1>1. PICK t : Fits(r, t) /\ task' = [task EXCEPT ![r] = t] /\ t.pc # "flag"
  <2>1. CASE Finish(r)
    BY <2>1, Finished
  <2>2. CASE \E pc \in {"check", "first", "set", "save", "abi", "symbol", "row"} : Goto(r, pc)
    BY <2>2, Gone
  <2>3. CASE Goto(r, "create") /\ ~ByValue(r)
    BY <2>3, Gone
  <2> QED
    BY <2>1, <2>2, <2>3
<1>2. boot' \in Seq(Jobs \cup {"cron"})
  BY DEF IInv, TypeOK
<1> QED
  BY <1>1, <1>2, SilentKept

\* A run begins with entries that are tokens, and known ones where it needs rows.
LEMMA Begun ==
  ASSUME IInv, NEW r \in Runs,
         NEW todo \in SUBSET (Keys \X {"row", "remote", "local", "read", "save"}),
         ByValue(r) => \A e \in todo : rows[e[1]] # <<>>, Begin(r, todo)
  PROVE  /\ \E t : Fits(r, t) /\ task' = [task EXCEPT ![r] = t] /\ t.pc = "next"
         /\ boot' \in Seq(Jobs \cup {"cron"})
<1> DEFINE t == [idle EXCEPT !.todo = todo]
<1>1. task' = [task EXCEPT ![r] = t]
  BY DEF Begin
<1>2. t \in TaskState /\ t.pc = "next" /\ t.todo = todo
  BY Nothing DEF TaskState
<1>3. boot' \in Seq(Jobs \cup {"cron"})
  <2>1. boot \in Seq(Jobs \cup {"cron"})
    BY DEF IInv, TypeOK
  <2>2. boot' = IF boot = <<>> THEN boot ELSE Tail(boot)
    BY DEF Begin
  <2> QED
    BY <2>1, <2>2, HeadTailProperties
<1> HIDE DEF t
<1> QED
  BY <1>1, <1>2, <1>3 DEF Fits

\* Runs that begin and change nothing else.
LEMMA StartKept ==
  ASSUME IInv, NEW r \in Runs,
         \/ UpdateContractPrice(r) \/ UpdateContractSymbol(r)
         \/ UpdateTokenLogo(r) \/ UpdateAllPoolInfo(r)
  PROVE  IInv'
<1>1. Silent
  BY Silence
  DEF IInv, UpdateContractPrice, UpdateContractSymbol, UpdateTokenLogo, UpdateAllPoolInfo, HttpGetFails
<1>2. PICK todo : /\ Begin(r, todo) /\ todo \subseteq Keys \X {"row", "remote", "local", "read", "save"}
                  /\ ByValue(r) => \A e \in todo : rows[e[1]] # <<>>
  <2>1. CASE UpdateContractPrice(r) \/ UpdateContractSymbol(r)
    <3>1. Begin(r, knownTokens) \/ Begin(r, {})
      BY <2>1 DEF UpdateContractPrice, UpdateContractSymbol
    <3>2. /\ knownTokens \subseteq Keys \X {"row", "remote", "local", "read", "save"}
          /\ \A e \in knownTokens : rows[e[1]] # <<>>
      BY DEF knownTokens
    <3> QED
      BY <3>1, <3>2
  <2>2. CASE UpdateTokenLogo(r)
    <3>1. ~ByValue(r)
      BY <2>2 DEF UpdateTokenLogo, ByValue
    <3>2. Begin(r, remoteLogos \cup localLogos) \/ Begin(r, localLogos) \/ Begin(r, {})
      BY <2>2 DEF UpdateTokenLogo
    <3>3. remoteLogos \cup localLogos \subseteq Keys \X {"row", "remote", "local", "read", "save"}
      BY DEF remoteLogos, localLogos
    <3> QED
      BY <3>1, <3>2, <3>3
  <2>3. CASE UpdateAllPoolInfo(r)
    BY <2>3 DEF UpdateAllPoolInfo, ByValue
  <2> QED
    BY <2>1, <2>2, <2>3
<1>3. PICK t : Fits(r, t) /\ task' = [task EXCEPT ![r] = t] /\ t.pc = "next"
  BY <1>2, Begun
<1>4. boot' \in Seq(Jobs \cup {"cron"})
  BY <1>2, Begun
<1> QED
  BY <1>1, <1>3, <1>4, SilentKept

\* A price that moves joins those that were quoted.
LEMMA QuoteKept ==
  ASSUME IInv, NEW k \in Keys, NEW p \in Prices, Quote(k, p), boot' \in Seq(Jobs \cup {"cron"}),
         task' = task \/ \E r \in Runs : \E t : Fits(r, t) /\ task' = [task EXCEPT ![r] = t] /\ t.pc = "next"
  PROVE  IInv'
<1> USE DEF IInv
<1>1. /\ UNCHANGED <<redis, rows, file, net>> /\ dirty' = TRUE
      /\ quote' = [quote EXCEPT ![k] = p] /\ quoted' = [quoted EXCEPT ![k] = @ \cup {p}]
  BY DEF Quote, store
<1>2. events' \in 0..MaxEvents
  BY TokenCacheAssumption DEF Quote, Event, TypeOK
<1>3. WorldOK' /\ QuotesKept' /\ \A j \in Keys : quoted[j] \subseteq quoted'[j]
  BY <1>1, <1>2, Parts DEF WorldOK, QuotesKept
<1>4. \A j \in Keys : \A q : Honest(j, q) => Honest(j, q)'
  BY <1>1, <1>3 DEF Honest
<1>5. StoreOK' /\ CachedHonest' /\ RowsHonest'
  BY <1>1, <1>4, Parts DEF StoreOK, CachedHonest, RowsHonest, record
<1>6. CASE task' = task
  <2>1. TypeOK'
    BY <1>3, <1>5, <1>6, Parts DEF TypeOK, StoreOK, WorldOK, Records, TaskState
  <2>2. CarriedHonest'
    BY <1>4, <1>6 DEF CarriedHonest
  <2>3. WorksOnRows' /\ FileWritten'
    BY <1>1, <1>6 DEF WorksOnRows, FileWritten, ByValue, job
  <2> QED
    BY <1>3, <1>5, <2>1, <2>2, <2>3
<1>7. ASSUME NEW r \in Runs, NEW t, Fits(r, t), task' = [task EXCEPT ![r] = t], t.pc = "next"
      PROVE  IInv'
  <2>1. task'[r] = t /\ (\A q \in Runs \ {r} : task'[q] = task[q]) /\ task' \in [Runs -> TaskState]
    BY <1>7, Parts DEF Fits
  <2>2. TypeOK'
    BY <1>3, <1>5, <2>1, Parts DEF TypeOK, StoreOK, WorldOK, Records, TaskState
  <2>3. CarriedHonest'
    BY <1>4, <1>7, <2>1 DEF CarriedHonest
  <2>4. WorksOnRows' /\ FileWritten'
    BY <1>1, <1>7, <2>1 DEF WorksOnRows, FileWritten, ByValue, job, Fits
  <2> QED
    BY <1>3, <1>5, <2>2, <2>3, <2>4
<1> QED
  BY <1>6, <1>7

\* The price copied to the oracle (SavePlgrPriceTestNet).
LEMMA SavePlgrKept == ASSUME IInv, NEW r \in Runs, SavePlgrPriceTestNet(r) PROVE IInv'
<1>1. Begin(r, {})
  BY DEF SavePlgrPriceTestNet
<1>2. PICK t : Fits(r, t) /\ task' = [task EXCEPT ![r] = t] /\ t.pc = "next"
  BY <1>1, Begun
<1>3. boot' \in Seq(Jobs \cup {"cron"})
  BY <1>1, Begun
<1>4. CASE Read \/ Fail("chain")
  BY <1>2, <1>3, <1>4, Silence, SilentKept DEF IInv
<1>5. CASE plgr \in Keys /\ Quote(plgr, plgrPrice)
  BY <1>2, <1>3, <1>5, QuoteKept, TokenCacheAssumption
<1> QED
  BY <1>4, <1>5 DEF SavePlgrPriceTestNet

\* The next token of a run: one that was in its list, with a price the oracle
\* has just answered or none.
LEMMA Taken ==
  ASSUME IInv, NEW r \in Runs, NEW e \in task[r].todo, task[r].pc = "next",
         NEW pc \in {"check", "first", "abi", "symbol", "lookup"},
         NEW new \in RedisTokenInfo, Honest(e[1], new.price), Take(r, e, pc, new), Silent, UNCHANGED boot
  PROVE  IInv'
<1> DEFINE t == [pc |-> pc, todo |-> task[r].todo \ {e}, token |-> e[1], new |-> new]
<1>1. Fits(r, task[r]) /\ task[r] \in TaskState
  BY FitsNow DEF Fits
<1>2. e[1] \in Keys
  BY <1>1 DEF TaskState
<1>3. Fits(r, t) /\ t.pc # "flag"
  <2>1. t \in TaskState
    BY <1>1, <1>2 DEF TaskState
  <2> QED
    BY <1>1, <1>2, <2>1 DEF Fits
<1>4. task' = [task EXCEPT ![r] = t]
  BY DEF Take
<1>5. boot' \in Seq(Jobs \cup {"cron"})
  BY DEF IInv, TypeOK
<1> HIDE DEF t
<1> QED
  BY <1>3, <1>4, <1>5, SilentKept

\* Passing over a token.
LEMMA Skipped ==
  ASSUME IInv, NEW r \in Runs, NEW e \in task[r].todo, task[r].pc = "next", Skip(r, e), Silent,
         UNCHANGED boot
  PROVE  IInv'
<1> DEFINE t == [task[r] EXCEPT !.todo = @ \ {e}]
<1>1. Fits(r, task[r])
  BY FitsNow
<1>2. /\ t \in TaskState /\ t.pc = "next" /\ t.todo \subseteq task[r].todo
  BY <1>1 DEF Fits, TaskState
<1>3. task' = [task EXCEPT ![r] = t]
  BY DEF Skip
<1>4. boot' \in Seq(Jobs \cup {"cron"})
  BY DEF IInv, TypeOK
<1> HIDE DEF t
<1>5. Fits(r, t)
  BY <1>1, <1>2 DEF Fits
<1> QED
  BY <1>2, <1>3, <1>4, <1>5, SilentKept

\* Taking the next token (NextToken).
LEMMA NextTokenKept == ASSUME IInv, NEW r \in Runs, NextToken(r), UNCHANGED boot PROVE IInv'
<1>1. PICK e \in task[r].todo :
        CASE job(r) = "price" -> readPrice(r, e)
          [] job(r) = "symbol" -> readSymbol(r, e)
          [] job(r) = "logo" -> readLogo(r, e)
          [] OTHER -> Take(r, e, IF e[2] = "read" THEN "lookup" ELSE "first", emptyInfo) /\ Read
  BY DEF NextToken
<1>2. task[r].pc = "next"
  BY DEF NextToken
<1>3. e[1] \in Keys /\ (Read => Silent) /\ (\A call : Fail(call) => Silent)
  BY FitsNow, Silence DEF IInv, Fits, TaskState
<1>4. CASE job(r) = "price"
  <2>1. readPrice(r, e)
    BY <1>1, <1>4
  <2> DEFINE p == priceOf(e[1])
             new == [emptyInfo EXCEPT !.price = p]
  <2>2. p \in {0} \cup {Int64(q) : q \in Prices} /\ Honest(e[1], p)
    BY <1>3 DEF priceOf, GetPrice, Honest, IInv, TypeOK, QuotesKept
  <2> HIDE DEF p
  <2>3. new \in RedisTokenInfo /\ new.price = p
    BY <2>2, Nothing DEF RedisTokenInfo
  <2>4. CASE Take(r, e, "check", new) /\ Read
    <3> HIDE DEF new
    <3> QED
      BY <1>2, <1>3, <2>2, <2>3, <2>4, Taken
  <2>5. CASE Skip(r, e) /\ Fail("chain")
    BY <1>2, <1>3, <2>5, Skipped
  <2> QED
    BY <2>1, <2>4, <2>5 DEF readPrice, p, new
<1>5. CASE job(r) = "symbol"
  <2>1. readSymbol(r, e)
    BY <1>1, <1>5
  <2> DEFINE new == [emptyInfo EXCEPT !.symbol = sym]
  <2>2. new \in RedisTokenInfo /\ new.price = unset
    BY Nothing DEF RedisTokenInfo
  <2>3. \A k : Honest(k, unset)
    BY DEF Honest
  <2>4. CASE Skip(r, e)
    BY <1>2, <1>3, <2>1, <2>4, Skipped DEF readSymbol
  <2>5. CASE Take(r, e, "check", new)
    <3>1. Silent
      BY <1>3, <2>1 DEF readSymbol
    <3> HIDE DEF new
    <3> QED
      BY <1>2, <2>2, <2>3, <2>5, <3>1, Taken
  <2>6. CASE Take(r, e, "symbol", emptyInfo) \/ Take(r, e, "abi", emptyInfo)
    <3>1. Silent
      BY <1>3, <2>1 DEF readSymbol
    <3> QED
      BY <1>2, <2>3, <2>6, <3>1, Taken, Nothing
  <2> QED
    BY <2>1, <2>4, <2>5, <2>6 DEF readSymbol, new
<1>6. CASE job(r) = "logo"
  <2>1. readLogo(r, e)
    BY <1>1, <1>6
  <2> DEFINE logo == IF e[2] = "remote" THEN RemoteLogo[e[1]] ELSE LocalLogo[e[1]]
             new == [emptyInfo EXCEPT !.logo = logo, !.symbol = listSym]
  <2>2. logo \in {RemoteLogo[k] : k \in Keys} \cup {LocalLogo[k] : k \in Keys}
    BY <1>3
  <2> HIDE DEF logo
  <2>3. new \in RedisTokenInfo /\ new.price = unset
    BY <2>2, Nothing DEF RedisTokenInfo
  <2>4. Take(r, e, "check", new) /\ Read
    BY <2>1 DEF readLogo, new, logo
  <2>5. Honest(e[1], unset)
    BY DEF Honest
  <2> HIDE DEF new
  <2> QED
    BY <1>2, <1>3, <2>3, <2>4, <2>5, Taken
<1>7. CASE job(r) \notin {"price", "symbol", "logo"}
  <2>1. Take(r, e, "lookup", emptyInfo) \/ Take(r, e, "first", emptyInfo)
    BY <1>1, <1>7
  <2>2. Read /\ Honest(e[1], emptyInfo.price) /\ emptyInfo \in RedisTokenInfo
    BY <1>1, <1>7, Nothing DEF Honest
  <2> QED
    BY <1>2, <1>3, <2>1, <2>2, Taken
<1> QED
  BY <1>4, <1>5, <1>6, <1>7

\* The calls that read or fail between a token's first and last.
LEMMA FindRowKept ==
  ASSUME IInv, NEW r \in Runs, FindRow(r), UNCHANGED boot
  PROVE  IInv'
<1>1. task[r].pc = "first" /\ (Read => Silent) /\ (\A call : Fail(call) => Silent)
  BY Silence DEF IInv, FindRow
<1>2. CASE Resume(r) /\ Silent
  BY <1>1, <1>2, TurnKept DEF Resume
<1>3. CASE rows[task[r].token] = <<>> /\ Goto(r, "create") /\ Silent
  <2>1. ~ByValue(r)
    BY <1>1, <1>3, FitsNow DEF Fits
  <2> QED
    BY <1>1, <1>3, <2>1, TurnKept
<1> QED
  BY <1>1, <1>2, <1>3 DEF FindRow

\* A run's record with what it fetched in the place of what was there.
LEMMA Rewritten ==
  ASSUME NEW r \in Runs, NEW old \in RedisTokenInfo, task[r].new \in RedisTokenInfo
  PROVE  /\ written(r, old) \in RedisTokenInfo
         /\ written(r, old).price \in {old.price, task[r].new.price}
<1> DEFINE S == fields(r)
           new == task[r].new
<1>1. written(r, old) = [f \in DOMAIN old |-> IF f \in S THEN new[f] ELSE old[f]]
  BY DEF written
<1>2. DOMAIN old = {"price", "symbol", "logo"}
  BY DEF RedisTokenInfo
<1> HIDE DEF S, new
<1>3. written(r, old) = [price |-> IF "price" \in S THEN new.price ELSE old.price,
                         symbol |-> IF "symbol" \in S THEN new.symbol ELSE old.symbol,
                         logo |-> IF "logo" \in S THEN new.logo ELSE old.logo]
  BY <1>1, <1>2
<1> QED
  BY <1>3 DEF RedisTokenInfo, new

\* What a key of redis holds is a record with a price the oracle answered.
LEMMA Cached ==
  ASSUME IInv, NEW k \in Keys, redis[k] # none
  PROVE  /\ record(k) \in RedisTokenInfo /\ Honest(k, record(k).price)
         /\ redis[k].type = "string" /\ redis[k].value[2] = record(k)
<1>1. redis[k] \in [type : {"string"}, value : {"json"} \X RedisTokenInfo, ttl : {Forever}]
  BY Parts DEF IInv, StoreOK, Records
<1> QED
  BY <1>1 DEF record, IInv, CachedHonest

\* Reading a token's record (GetRecord).
LEMMA GetRecordKept == ASSUME IInv, NEW r \in Runs, GetRecord(r), UNCHANGED boot PROVE IInv'
<1> DEFINE k == task[r].token
           got == RedisGet(redis, k)
<1>1. /\ task[r].pc = "check" /\ (Read => Silent) /\ (\A call : Fail(call) => Silent)
  BY Silence DEF IInv, GetRecord
<1>2. Fits(r, task[r]) /\ k \in Keys /\ task[r] \in TaskState /\ Honest(k, task[r].new.price)
  BY <1>1, FitsNow DEF Fits
<1>3. CASE (Finish(r) \/ Goto(r, "first")) /\ Silent
  BY <1>1, <1>3, TurnKept
<1>4. CASE /\ got.ok /\ Read
           /\ task' = [task EXCEPT ![r].pc = "set", ![r].new = written(r, got.reply[2])]
  <2>1. redis[k] # none /\ got.reply[2] = redis[k].value[2]
    BY <1>4 DEF RedisGet, done, refused, none
  <2>2. got.reply[2] \in RedisTokenInfo /\ Honest(k, got.reply[2].price)
    BY <1>2, <2>1, Cached
  <2> DEFINE new == written(r, got.reply[2])
             t == [task[r] EXCEPT !.pc = "set", !.new = new]
  <2>3. new \in RedisTokenInfo /\ Honest(k, new.price)
    BY <1>2, <2>2, Rewritten DEF TaskState
  <2> HIDE DEF new
  <2>4. /\ t \in TaskState /\ t.pc = "set" /\ t.todo = task[r].todo /\ t.token = k /\ t.new = new
    BY <1>2, <2>3 DEF TaskState
  <2>5. task' = [task EXCEPT ![r] = t]
    BY <1>4 DEF new
  <2> HIDE DEF t
  <2>6. Fits(r, t)
    BY <1>1, <1>2, <2>3, <2>4 DEF Fits
  <2>7. boot' \in Seq(Jobs \cup {"cron"})
    BY DEF IInv, TypeOK
  <2> QED
    BY <1>1, <1>4, <2>4, <2>5, <2>6, <2>7, SilentKept
<1> QED
  BY <1>1, <1>3, <1>4 DEF GetRecord

\* The pool job's look-up in redis (LookUp).
LEMMA LookUpKept == ASSUME IInv, NEW r \in Runs, LookUp(r), UNCHANGED boot PROVE IInv'
<1>1. task[r].pc = "lookup" /\ Silent
  BY Silence DEF IInv, LookUp
<1>2. Finish(r) \/ Goto(r, "row")
  BY DEF LookUp
<1> QED
  BY <1>1, <1>2, TurnKept

\* Asking the chain for a symbol (GetContractSymbolOnMainNet).
LEMMA SymbolKept ==
  ASSUME IInv, NEW r \in Runs, GetContractSymbolOnMainNet(r), UNCHANGED boot
  PROVE  IInv'
<1>1. task[r].pc = "symbol" /\ Silent
  BY Silence DEF IInv, GetContractSymbolOnMainNet
<1>2. Fits(r, task[r])
  BY FitsNow
<1>3. CASE Finish(r)
  BY <1>1, <1>3, TurnKept
<1>4. CASE task' = [task EXCEPT ![r].pc = "check", ![r].new.symbol = sym]
  <2> DEFINE new == [task[r].new EXCEPT !.symbol = sym]
             t == [task[r] EXCEPT !.pc = "check", !.new = new]
  <2>1. task[r] \in TaskState /\ task[r].new \in RedisTokenInfo
    BY <1>2 DEF Fits, TaskState
  <2>2. new \in RedisTokenInfo /\ new.price = task[r].new.price
    BY <2>1 DEF RedisTokenInfo
  <2>3. task' = [task EXCEPT ![r] = t]
    BY <1>4, <2>1 DEF TaskState
  <2> HIDE DEF new
  <2>4. /\ t \in TaskState /\ t.pc = "check" /\ t.todo = task[r].todo /\ t.token = task[r].token
        /\ t.new = new
    BY <2>1, <2>2 DEF TaskState
  <2> HIDE DEF t
  <2>5. Fits(r, t)
    BY <1>1, <1>2, <2>2, <2>4 DEF Fits
  <2>6. boot' \in Seq(Jobs \cup {"cron"})
    BY DEF IInv, TypeOK
  <2> QED
    BY <1>1, <2>3, <2>4, <2>5, <2>6, SilentKept
<1> QED
  BY <1>3, <1>4 DEF GetContractSymbolOnMainNet

\* The pool job's look-up in MySQL (ReadRow).
LEMMA ReadRowKept == ASSUME IInv, NEW r \in Runs, ReadRow(r), UNCHANGED boot PROVE IInv'
<1> DEFINE k == task[r].token
<1>1. task[r].pc = "row" /\ Silent
  BY Silence DEF IInv, ReadRow
<1>2. Fits(r, task[r]) /\ k \in Keys /\ task[r] \in TaskState
  BY <1>1, FitsNow DEF Fits
<1>3. CASE Finish(r)
  BY <1>1, <1>3, TurnKept
<1>4. CASE rows[k] # <<>> /\ task' = [task EXCEPT ![r].pc = "fill", ![r].new = rows[k][1].info]
  <2> DEFINE new == rows[k][1].info
             t == [task[r] EXCEPT !.pc = "fill", !.new = new]
  <2>1. rows[k] \in Seq(TokenInfo)
    BY <1>2, Parts DEF IInv, StoreOK
  <2>2. 1 \in DOMAIN rows[k] /\ rows[k][1] \in TokenInfo
    BY <1>4, <2>1, HeadTailProperties
  <2>3. new \in RedisTokenInfo /\ Honest(k, new.price)
    BY <1>2, <2>2 DEF TokenInfo, IInv, RowsHonest
  <2>4. task' = [task EXCEPT ![r] = t]
    BY <1>4
  <2> HIDE DEF new
  <2>5. /\ t \in TaskState /\ t.pc = "fill" /\ t.todo = task[r].todo /\ t.token = k /\ t.new = new
    BY <1>2, <2>3 DEF TaskState
  <2> HIDE DEF t
  <2>6. Fits(r, t)
    BY <1>1, <1>2, <2>3, <2>5 DEF Fits
  <2>7. boot' \in Seq(Jobs \cup {"cron"})
    BY DEF IInv, TypeOK
  <2> QED
    BY <1>1, <2>4, <2>5, <2>6, <2>7, SilentKept
<1> QED
  BY <1>3, <1>4 DEF ReadRow

\* A write of the run's record to redis.
LEMMA CacheKept ==
  ASSUME IInv, NEW r \in Runs, task[r].pc \in {"set", "fill"}, UNCHANGED boot,
         redis' = RedisSet(redis, task[r].token, task[r].new, 0).db, Write, UNCHANGED <<rows, file>>,
         Finish(r) \/ Goto(r, "save")
  PROVE  IInv'
<1> DEFINE k == task[r].token
           e == entry("string", json(task[r].new), Forever)
<1>1. k \in Keys /\ task[r].new \in RedisTokenInfo /\ Honest(k, task[r].new.price)
  BY FitsNow DEF Fits, TaskState
<1>2. redis' = [redis EXCEPT ![k] = e]
  <2>1. lifetime(0) = Forever
    BY DEF lifetime
  <2> QED
    BY <2>1 DEF RedisSet, done, put
<1>3. e \in Records /\ e.value[2] = task[r].new
  BY <1>1 DEF Records, entry, json
<1> HIDE DEF k, e
<1>4. redis \in [Keys -> Records]
  BY Parts DEF IInv, StoreOK
<1>5. redis'[k] = e /\ (\A j \in Keys \ {k} : redis'[j] = redis[j]) /\ redis' \in [Keys -> Records]
  BY <1>1, <1>2, <1>3, <1>4
<1>6. UNCHANGED <<rows, file, net, quote, quoted, events, dirty>>
  BY DEF Write
<1>7. StoreOK' /\ RowsHonest'
  BY <1>5, <1>6, Parts DEF IInv, StoreOK, RowsHonest, Honest
<1>8. CachedHonest'
  BY <1>1, <1>3, <1>5, <1>6 DEF IInv, CachedHonest, record, Honest
<1>9. PICK t : Fits(r, t) /\ task' = [task EXCEPT ![r] = t] /\ t.pc # "flag"
  BY Finished, Gone
<1>10. events' \in 0..MaxEvents /\ dirty' \in BOOLEAN /\ boot' \in Seq(Jobs \cup {"cron"})
  BY <1>6 DEF IInv, TypeOK
<1> QED
  BY <1>6, <1>7, <1>8, <1>9, <1>10, Kept

\* Writing a token's record (SetRecord, Fill).
LEMMA SetsKept == ASSUME IInv, NEW r \in Runs, SetRecord(r) \/ Fill(r), UNCHANGED boot PROVE IInv'
<1>1. task[r].pc \in {"set", "fill"}
  BY DEF SetRecord, Fill
<1>2. CASE Finish(r) /\ Fail("set")
  BY <1>1, <1>2, TurnKept, Silence DEF IInv
<1> QED
  BY <1>1, <1>2, CacheKept DEF SetRecord, Fill

\* A change of a token's rows that leaves as many, or one more.
LEMMA RowsKept ==
  ASSUME IInv, NEW r \in Runs, task[r].pc # "next", UNCHANGED boot, Write, UNCHANGED <<redis, file>>,
         NEW new \in Seq(TokenInfo), rows' = [rows EXCEPT ![task[r].token] = new],
         Len(new) >= Len(rows[task[r].token]),
         \A i \in DOMAIN new : Honest(task[r].token, new[i].info.price),
         Finish(r) \/ (\E pc \in {"set", "symbol"} : Goto(r, pc))
  PROVE  IInv'
<1> DEFINE k == task[r].token
<1>1. k \in Keys
  BY FitsNow DEF Fits
<1> HIDE DEF k
<1>2. rows \in [Keys -> Seq(TokenInfo)]
  BY Parts DEF IInv, StoreOK
<1>3. /\ rows'[k] = new /\ \A j \in Keys \ {k} : rows'[j] = rows[j]
      /\ rows' \in [Keys -> Seq(TokenInfo)]
  BY <1>1, <1>2 DEF k
<1>4. UNCHANGED <<redis, file, net, quote, quoted, events, dirty>>
  BY DEF Write
<1>5. StoreOK' /\ CachedHonest'
  BY <1>3, <1>4, Parts DEF IInv, StoreOK, CachedHonest, Honest, record
<1>6. RowsHonest'
  BY <1>3, <1>4 DEF IInv, RowsHonest, Honest, k
<1>7. \A j \in Keys : rows[j] # <<>> => rows'[j] # <<>>
  <2>1. rows[k] # <<>> => new # <<>>
    <3>1. rows[k] \in Seq(TokenInfo) /\ Len(new) >= Len(rows[k])
      BY <1>1, <1>2 DEF k
    <3>2. \A q \in Seq(TokenInfo) : q # <<>> <=> Len(q) > 0
      OBVIOUS
    <3>3. Len(new) \in Nat /\ Len(rows[k]) \in Nat
      BY <3>1
    <3> QED
      BY <3>1, <3>2, <3>3
  <2> QED
    BY <1>3, <2>1
<1>8. PICK t : Fits(r, t) /\ task' = [task EXCEPT ![r] = t] /\ t.pc # "flag"
  BY Finished, Gone
<1>9. events' \in 0..MaxEvents /\ dirty' \in BOOLEAN /\ boot' \in Seq(Jobs \cup {"cron"})
  BY <1>4 DEF IInv, TypeOK
<1> QED
  BY <1>4, <1>5, <1>6, <1>7, <1>8, <1>9, Kept

\* The rows of a run's token.
LEMMA RowsOf ==
  ASSUME IInv, NEW r \in Runs, task[r].pc # "next"
  PROVE  LET k == task[r].token
         IN  /\ k \in Keys /\ rows[k] \in Seq(TokenInfo) /\ Len(rows[k]) \in Nat
             /\ DOMAIN rows[k] = 1..Len(rows[k])
             /\ \A i \in DOMAIN rows[k] :
                  rows[k][i] \in TokenInfo /\ Honest(k, rows[k][i].info.price)
<1> DEFINE k == task[r].token
<1>1. k \in Keys
  BY FitsNow DEF Fits
<1> HIDE DEF k
<1>2. rows[k] \in Seq(TokenInfo)
  BY <1>1, Parts DEF IInv, StoreOK
<1>3. \A i \in DOMAIN rows[k] : Honest(k, rows[k][i].info.price)
  BY <1>1 DEF IInv, RowsHonest
<1> QED
  BY <1>1, <1>2, <1>3 DEF k

\* A function on 1..n is a sequence.
LEMMA Mapped ==
  ASSUME NEW S, NEW n \in Nat, NEW f, f = [i \in 1..n |-> f[i]], \A i \in 1..n : f[i] \in S
  PROVE  f \in Seq(S) /\ Len(f) = n
BY IsASeq

\* Creating a row (CreateRow).
LEMMA CreateRowKept == ASSUME IInv, NEW r \in Runs, CreateRow(r), UNCHANGED boot PROVE IInv'
<1> DEFINE k == task[r].token
           row == [info |-> emptyInfo, abi |-> FALSE]
           new == Append(rows[k], row)
<1>1. task[r].pc = "create" /\ Resume(r)
  BY DEF CreateRow
<1>2. CASE Fail("create")
  BY <1>1, <1>2, TurnKept, Silence DEF IInv, Resume
<1>3. CASE rows' = [rows EXCEPT ![k] = new] /\ Write /\ UNCHANGED <<redis, file>>
  <2>1. row \in TokenInfo /\ row.info.price = unset /\ ~row.abi
    BY Nothing DEF TokenInfo
  <2> HIDE DEF row
  <2>2. /\ k \in Keys /\ rows[k] \in Seq(TokenInfo) /\ Len(rows[k]) \in Nat /\ DOMAIN rows[k] = 1..Len(rows[k])
        /\ \A i \in DOMAIN rows[k] : Honest(k, rows[k][i].info.price)
    BY <1>1, RowsOf
  <2> HIDE DEF k
  <2>3. /\ new \in Seq(TokenInfo) /\ Len(new) = Len(rows[k]) + 1
        /\ (\A i \in 1..Len(rows[k]) : new[i] = rows[k][i]) /\ new[Len(rows[k]) + 1] = row
    BY <2>1, <2>2, AppendProperties
  <2>4. DOMAIN new = 1..(Len(rows[k]) + 1) /\ Len(new) >= Len(rows[k])
    BY <2>2, <2>3
  <2> HIDE DEF new
  <2>5. ASSUME NEW i \in DOMAIN new
        PROVE  Honest(k, new[i].info.price)
    <3>1. CASE i \in 1..Len(rows[k])
      BY <2>2, <2>3, <3>1
    <3>2. CASE i = Len(rows[k]) + 1
      BY <2>1, <2>3, <3>2 DEF Honest
    <3> QED
      BY <2>2, <2>4, <3>1, <3>2
  <2> QED
    BY <1>1, <1>3, <2>3, <2>4, <2>5, RowsKept DEF Resume, k
<1> QED
  BY <1>2, <1>3 DEF CreateRow

\* Updating a row (SaveRow).
LEMMA SaveRowKept == ASSUME IInv, NEW r \in Runs, SaveRow(r), UNCHANGED boot PROVE IInv'
<1> DEFINE k == task[r].token
           new == [i \in DOMAIN rows[k] |-> rewritten(r, rows[k][i])]
<1>1. task[r].pc = "save" /\ Finish(r)
  BY DEF SaveRow
<1>2. CASE Fail("save")
  BY <1>1, <1>2, TurnKept, Silence DEF IInv
<1>3. CASE rows' = [rows EXCEPT ![k] = new] /\ Write /\ UNCHANGED <<redis, file>>
  <2>1. /\ rows[k] \in Seq(TokenInfo) /\ Len(rows[k]) \in Nat /\ DOMAIN rows[k] = 1..Len(rows[k])
        /\ \A i \in DOMAIN rows[k] :
             rows[k][i] \in TokenInfo /\ Honest(k, rows[k][i].info.price)
    BY <1>1, RowsOf
  <2>2. task[r].new \in RedisTokenInfo /\ Honest(k, task[r].new.price)
    BY <1>1, FitsNow DEF Fits, TaskState
  <2>3. ASSUME NEW row \in TokenInfo, Honest(k, row.info.price)
        PROVE  /\ rewritten(r, row) \in TokenInfo
               /\ Honest(k, rewritten(r, row).info.price)
    <3> DEFINE w == written(r, row.info)
    <3>1. w \in RedisTokenInfo /\ w.price \in {row.info.price, task[r].new.price}
      BY <2>2, Rewritten DEF TokenInfo
    <3>2. rewritten(r, row) = [row EXCEPT !.info = w]
      BY DEF rewritten
    <3> HIDE DEF w
    <3>3. /\ rewritten(r, row) \in TokenInfo /\ rewritten(r, row).info = w
         
      BY <3>1, <3>2 DEF TokenInfo
    <3> QED
      BY <2>2, <2>3, <3>1, <3>3
  <2>4. \A i \in DOMAIN rows[k] :
          /\ new[i] \in TokenInfo /\ Honest(k, new[i].info.price)
    BY <2>1, <2>3
  <2>5. DOMAIN new = 1..Len(rows[k]) /\ new = [i \in 1..Len(rows[k]) |-> new[i]]
    BY <2>1
  <2>6. new \in Seq(TokenInfo) /\ Len(new) = Len(rows[k])
    <3> DEFINE n == Len(rows[k])
    <3>1. n \in Nat /\ \A i \in 1..n : new[i] \in TokenInfo
      BY <2>1, <2>4
    <3>2. new = [i \in 1..n |-> new[i]]
      BY <2>5
    <3> HIDE DEF new, n
    <3>3. new \in Seq(TokenInfo) /\ Len(new) = n
      BY <3>1, <3>2, Mapped, Zenon
    <3> QED
      BY <3>3 DEF n
  <2> HIDE DEF new
  <2>7. Len(new) >= Len(rows[k])
    BY <2>1, <2>6
  <2> QED
    BY <1>1, <1>3, <2>1, <2>4, <2>5, <2>6, <2>7, RowsKept
<1> QED
  BY <1>2, <1>3 DEF SaveRow

\* The file of a token, and then its mark.
LEMMA WriteFileKept == ASSUME IInv, NEW r \in Runs, WriteAbiFile(r), UNCHANGED boot PROVE IInv'
<1> DEFINE k == task[r].token
<1>1. task[r].pc = "abi" /\ k \in Keys
  BY FitsNow DEF WriteAbiFile, Fits
<1>2. CASE Finish(r) /\ HttpGetFails
  BY <1>1, <1>2, TurnKept, Silence DEF IInv, HttpGetFails
<1>3. CASE Goto(r, "flag") /\ file' = file \cup {k} /\ Write /\ UNCHANGED <<redis, rows>>
  <2>1. PICK t : Fits(r, t) /\ task' = [task EXCEPT ![r] = t] /\ t.token = k
    BY <1>1, <1>3, Gone
  <2>2. UNCHANGED <<redis, rows, net, quote, quoted, events, dirty>> /\ file' = file \cup {k}
    BY <1>3 DEF Write
  <2>3. StoreOK' /\ CachedHonest' /\ RowsHonest'
    BY <1>1, <2>2, Parts DEF IInv, StoreOK, CachedHonest, RowsHonest, Honest, record
  <2>4. events' \in 0..MaxEvents /\ dirty' \in BOOLEAN /\ boot' \in Seq(Jobs \cup {"cron"})
    BY <2>2 DEF IInv, TypeOK
  <2> QED
    BY <2>1, <2>2, <2>3, <2>4, Kept
<1> QED
  BY <1>2, <1>3 DEF WriteAbiFile

\* Marking the row of a saved file (FlagAbiFile).
LEMMA FlagKept == ASSUME IInv, NEW r \in Runs, FlagAbiFile(r), UNCHANGED boot PROVE IInv'
<1> DEFINE k == task[r].token
           new == [i \in DOMAIN rows[k] |-> [rows[k][i] EXCEPT !.abi = TRUE]]
<1>1. task[r].pc = "flag" /\ k \in file
  BY DEF FlagAbiFile, IInv, FileWritten
<1>2. CASE Finish(r) /\ Fail("save")
  BY <1>1, <1>2, TurnKept, Silence DEF IInv
<1>3. CASE rows' = [rows EXCEPT ![k] = new] /\ Goto(r, "symbol") /\ Write /\ UNCHANGED <<redis, file>>
  <2>1. /\ rows[k] \in Seq(TokenInfo) /\ Len(rows[k]) \in Nat /\ DOMAIN rows[k] = 1..Len(rows[k])
        /\ \A i \in DOMAIN rows[k] : rows[k][i] \in TokenInfo /\ Honest(k, rows[k][i].info.price)
    BY <1>1, RowsOf
  <2>2. ASSUME NEW i \in DOMAIN rows[k]
        PROVE  [rows[k][i] EXCEPT !.abi = TRUE] \in TokenInfo /\ Honest(k, new[i].info.price)
    <3>1. rows[k][i] \in TokenInfo
      BY <2>1
    <3>2. new[i] = [rows[k][i] EXCEPT !.abi = TRUE]
      OBVIOUS
    <3> HIDE DEF new
    <3>3. [rows[k][i] EXCEPT !.abi = TRUE] \in TokenInfo /\ new[i].info = rows[k][i].info
      BY <3>1, <3>2 DEF TokenInfo
    <3> QED
      BY <2>1, <3>3
  <2>3. /\ DOMAIN new = 1..Len(rows[k]) /\ new = [i \in 1..Len(rows[k]) |-> new[i]]
        /\ \A i \in DOMAIN rows[k] : new[i] \in TokenInfo
    BY <2>1, <2>2
  <2>4. new \in Seq(TokenInfo) /\ Len(new) = Len(rows[k])
    <3> DEFINE n == Len(rows[k])
    <3>1. n \in Nat /\ \A i \in 1..n : new[i] \in TokenInfo
      BY <2>1, <2>3
    <3>2. new = [i \in 1..n |-> new[i]]
      BY <2>3
    <3> HIDE DEF new, n
    <3>3. new \in Seq(TokenInfo) /\ Len(new) = n
      BY <3>1, <3>2, Mapped, Zenon
    <3> QED
      BY <3>3 DEF n
  <2> HIDE DEF new
  <2>5. Len(new) >= Len(rows[k])
    BY <2>1, <2>4
  <2> QED
    BY <1>1, <1>3, <2>1, <2>2, <2>3, <2>4, <2>5, RowsKept
<1> QED
  BY <1>2, <1>3 DEF FlagAbiFile

\* A restart forgets the cache and every run.
LEMMA RestartKept == ASSUME IInv, Restart PROVE IInv'
<1> USE DEF IInv
<1>1. /\ redis' = emptied /\ task' = [r \in Runs |-> idle] /\ boot' = startup /\ dirty' = FALSE
      /\ UNCHANGED <<rows, file, net, quote, quoted>>
  BY DEF Restart, RedisFlushDB, done
<1>2. events' \in 0..MaxEvents
  BY TokenCacheAssumption DEF Restart, Event, TypeOK
<1>3. boot' \in Seq(Jobs \cup {"cron"})
  BY <1>1 DEF startup, Jobs
<1>4. (\A k \in Keys : redis'[k] = none) /\ redis' \in [Keys -> Records]
  BY <1>1 DEF emptied, Records
<1>5. (\A r \in Runs : task'[r] = idle) /\ task' \in [Runs -> TaskState]
  BY <1>1, Nothing
<1>6. StoreOK' /\ WorldOK'
  BY <1>1, <1>2, <1>3, <1>4, Parts DEF StoreOK, WorldOK
<1>7. TypeOK'
  BY <1>5, <1>6 DEF TypeOK, StoreOK, WorldOK, Records, TaskState
<1>8. QuotesKept' /\ RowsHonest' /\ CachedHonest'
  BY <1>1, <1>4 DEF QuotesKept, RowsHonest, CachedHonest, Honest
<1>9. CarriedHonest' /\ WorksOnRows' /\ FileWritten'
  BY <1>5, Nothing DEF CarriedHonest, WorksOnRows, FileWritten
<1> QED
  BY <1>7, <1>8, <1>9

\* The first state: rows of the dump, or none, and an empty cache.
LEMMA Initially == Init => IInv
<1> SUFFICES ASSUME Init PROVE IInv
  OBVIOUS
<1>1. /\ redis = emptied /\ file = {} /\ net \in [Keys -> Nets] /\ quote \in [Keys -> Prices]
      /\ task = [r \in Runs |-> idle] /\ boot = startup /\ events = 0 /\ dirty = TRUE
      /\ quoted = [k \in Keys |-> {quote[k]} \cup {rows[k][i].info.price : i \in DOMAIN rows[k]}]
  BY DEF Init
<1>2. Int64(dumped) = dumped /\ dumped \in Prices
  BY Holds, TokenCacheAssumption
<1>3. ASSUME NEW k \in Keys
      PROVE  \/ rows[k] = <<>>
             \/ \E one \in TokenInfo : /\ rows[k] = <<one>> /\ one.info.price \in {dumped, 0}
                                       /\ net[k] = "test" => one.info.price = dumped
  <2>1. ASSUME NEW p \in {dumped, 0}, NEW abi \in BOOLEAN,
               NEW logo \in {RemoteLogo[j] : j \in Keys} \cup {LocalLogo[j] : j \in Keys}
        PROVE  dumpedRow(p, logo, abi) \in TokenInfo /\ dumpedRow(p, logo, abi).info.price = p
    <3> DEFINE info == [price |-> p, symbol |-> sym, logo |-> logo]
    <3>1. info \in RedisTokenInfo /\ info.price = p
      BY <1>2 DEF RedisTokenInfo
    <3>2. dumpedRow(p, logo, abi) = [info |-> info, abi |-> abi]
      BY DEF dumpedRow
    <3> HIDE DEF info
    <3> QED
      BY <3>1, <3>2 DEF TokenInfo
  <2>2. rows[k] \in dump(k) /\ net[k] \in Nets
    BY DEF Init
  <2>3. CASE net[k] = "test"
    BY <2>1, <2>2, <2>3 DEF dump
  <2>4. CASE net[k] = "main"
    BY <2>1, <2>2, <2>4 DEF dump
  <2>5. CASE net[k] = "other"
    BY <2>2, <2>5 DEF dump
  <2> QED
    BY <2>2, <2>3, <2>4, <2>5 DEF Nets
<1>4. rows \in [Keys -> Seq(TokenInfo)]
  <2>1. ASSUME NEW k \in Keys
        PROVE  rows[k] \in Seq(TokenInfo)
    <3>1. <<>> \in Seq(TokenInfo) /\ \A one \in TokenInfo : <<one>> \in Seq(TokenInfo)
      OBVIOUS
    <3> QED
      BY <1>3, <3>1, Zenon
  <2>2. rows = [k \in Keys |-> rows[k]]
    BY DEF Init
  <2> QED
    BY <2>1, <2>2
<1>5. \A k \in Keys : \A i \in DOMAIN rows[k] :
        /\ rows[k][i].info.price \in {dumped, 0}
        /\ net[k] = "test" => rows[k][i].info.price = dumped
  BY <1>3
<1>6. \A k \in Keys : redis[k] = none /\ quoted[k] \in SUBSET (Prices \cup {0}) /\ quote[k] \in quoted[k]
  BY <1>1, <1>2, <1>5 DEF emptied
<1>7. StoreOK
  BY <1>1, <1>4, <1>6 DEF StoreOK, Records, emptied
<1>8. WorldOK
  <2>1. boot \in Seq(Jobs \cup {"cron"})
    BY <1>1 DEF startup, Jobs
  <2>2. events \in 0..MaxEvents
    BY <1>1, TokenCacheAssumption
  <2>3. quoted \in [Keys -> SUBSET (Prices \cup {0})]
    BY <1>1, <1>6
  <2> QED
    BY <1>1, <2>1, <2>2, <2>3 DEF WorldOK
<1>9. TypeOK /\ (\A r \in Runs : task[r] = idle)
  BY <1>1, <1>7, <1>8, Nothing, Parts
<1>10. RowsHonest /\ CachedHonest /\ QuotesKept
  <2>1. ASSUME NEW k \in Keys, NEW i \in DOMAIN rows[k], net[k] = "test"
        PROVE  dumped \in quoted[k] /\ rows[k][i].info.price = Int64(dumped)
    BY <1>1, <1>2, <1>5, <2>1
  <2>2. RowsHonest
    BY <2>1 DEF RowsHonest, Honest
  <2> QED
    BY <1>6, <2>2 DEF CachedHonest, QuotesKept
<1>11. CarriedHonest /\ WorksOnRows /\ FileWritten
  BY <1>9, Nothing DEF CarriedHonest, WorksOnRows, FileWritten
<1> QED
  BY <1>9, <1>10, <1>11 DEF IInv

-----------------------------------------------------------------------------
(* The theorems.                                                            *)

\* The invariant holds in every reachable state.
THEOREM Invariant == Spec => []IInv
<1>1. IInv /\ [Next]_vars => IInv'
  <2> SUFFICES ASSUME IInv, [Next]_vars PROVE IInv'
    OBVIOUS
  <2>1. ASSUME NEW r \in Runs, Start(r)
        PROVE  IInv'
    BY <2>1, StartKept, SavePlgrKept DEF Start
  <2>2. ASSUME NEW r \in Runs, Step(r)
        PROVE  IInv'
    BY <2>2, NextTokenKept, WriteFileKept, FlagKept, SymbolKept, GetRecordKept, SetsKept, FindRowKept,
       CreateRowKept, SaveRowKept, LookUpKept, ReadRowKept
    DEF Step, CheckPriceData, CheckSymbolData, CheckLogoData, CheckPricedToken, CheckNamedToken,
        CheckListedToken, SavePriceData, SaveSymbolData, SaveLogoData, GetTokenInfo, SaveTokenInfo
  <2>3. ASSUME NEW k \in Keys, NEW p \in Prices, MovePrice(k, p)
        PROVE  IInv'
    <3>1. boot' \in Seq(Jobs \cup {"cron"})
      BY <2>3 DEF MovePrice, IInv, TypeOK
    <3> QED
      BY <2>3, <3>1, QuoteKept DEF MovePrice
  <2>4. CASE UNCHANGED vars
    BY <2>4
    DEF vars, store, IInv, TypeOK, QuotesKept, CarriedHonest, CachedHonest, RowsHonest, WorksOnRows,
        FileWritten, Honest, record, ByValue, job
  <2> QED
    BY <2>1, <2>2, <2>3, <2>4, RestartKept DEF Next
<1> QED
  BY <1>1, Initially, PTL DEF Spec

\* A token of the test net shows, in redis and in MySQL, only prices that the
\* oracle has answered, however jobs interleave, as long as an int64 holds
\* them (UpdateContractPrice).
THEOREM PricesAreQuoted == Spec => []OnlyQuotedPrices
<1>1. ASSUME IInv, NEW k \in Keys, net[k] = "test", holds(k), NEW p, Honest(k, p)
      PROVE  p \in quoted[k] \cup {unset}
  <2>1. \A q \in quoted[k] : q \in Nat
    BY <1>1, TokenCacheAssumption DEF IInv, TypeOK
  <2>2. \A q \in quoted[k] : Int64(q) = q
    BY <1>1, <2>1, Holds DEF holds
  <2> QED
    BY <1>1, <2>2 DEF Honest
<1>2. IInv => OnlyQuotedPrices
  BY <1>1 DEF IInv, CachedHonest, RowsHonest, OnlyQuotedPrices, cachedPrice
<1> QED
  BY <1>2, Invariant, PTL

\* The price and symbol jobs never create a row (CheckTokenInfo).
THEOREM CreatesOnlyByReference == Spec => []NeverCreatesByValue
<1>1. IInv => NeverCreatesByValue
  BY DEF IInv, WorksOnRows, ByValue, NeverCreatesByValue
<1> QED
  BY <1>1, Invariant, PTL

\* A row is marked abi_file_exist only once its token's file is on the disk
\* (GetRemoteAbiFileByToken).
THEOREM MarkedHasFile == Spec => MarksOnlySavedFiles
<1>1. ASSUME IInv, [Next]_vars, NEW k \in Keys, NEW i \in DOMAIN rows'[k], rows'[k][i].abi
      PROVE  k \in file' \/ (i \in DOMAIN rows[k] /\ rows[k][i].abi)
  <2>1. CASE UNCHANGED rows
    BY <1>1, <2>1
  <2>2. ASSUME NEW r \in Runs, CreateRow(r), rows' # rows
        PROVE  i \in DOMAIN rows[k] /\ rows[k][i].abi
    <3> DEFINE fresh == [info |-> emptyInfo, abi |-> FALSE]
    <3>1. rows' = [rows EXCEPT ![task[r].token] = Append(@, fresh)]
      BY <2>2 DEF CreateRow, Fail, store
    <3>2. fresh.abi = FALSE
      OBVIOUS
    <3> HIDE DEF fresh
    <3>3. rows \in [Keys -> Seq(TokenInfo)]
      BY <1>1, Parts DEF IInv, StoreOK
    <3>4. rows'[k] = rows[k] \/ rows'[k] = Append(rows[k], fresh)
      BY <3>1, <3>3
    <3>5. CASE rows'[k] = Append(rows[k], fresh)
      <4>1. i \in 1..Len(rows[k]) \/ rows'[k][i] = fresh
        BY <3>3, <3>5, AppendProperties
      <4>2. i \in 1..Len(rows[k])
        BY <1>1, <3>2, <4>1
      <4> QED
        BY <1>1, <3>3, <3>5, <4>2, AppendProperties
    <3> QED
      BY <1>1, <3>4, <3>5
  <2>3. ASSUME NEW r \in Runs, SaveRow(r), rows' # rows
        PROVE  i \in DOMAIN rows[k] /\ rows[k][i].abi
    <3>1. rows' = [rows EXCEPT ![task[r].token] = [j \in DOMAIN @ |-> rewritten(r, @[j])]]
      BY <2>3 DEF SaveRow, Fail, store
    <3>2. rows \in [Keys -> Seq(TokenInfo)]
      BY <1>1, Parts DEF IInv, StoreOK
    <3>3. rows'[k] = rows[k] \/ rows'[k] = [j \in DOMAIN rows[k] |-> rewritten(r, rows[k][j])]
      BY <3>1, <3>2
    <3>4. CASE rows'[k] = [j \in DOMAIN rows[k] |-> rewritten(r, rows[k][j])]
      <4>1. i \in DOMAIN rows[k] /\ rows'[k][i] = rewritten(r, rows[k][i])
        BY <1>1, <3>4
      <4>2. rows[k][i] \in TokenInfo
        BY <3>2, <4>1
      <4>3. rewritten(r, rows[k][i]).abi = rows[k][i].abi
        BY <4>2 DEF rewritten, TokenInfo
      <4> QED
        BY <1>1, <4>1, <4>3
    <3> QED
      BY <1>1, <3>3, <3>4
  <2>4. ASSUME NEW r \in Runs, FlagAbiFile(r), rows' # rows
        PROVE  k \in file' \/ (i \in DOMAIN rows[k] /\ rows[k][i].abi)
    <3>1. /\ rows' = [rows EXCEPT ![task[r].token] = [j \in DOMAIN @ |-> [@[j] EXCEPT !.abi = TRUE]]]
          /\ file' = file
      BY <2>4 DEF FlagAbiFile, Fail, store
    <3>2. task[r].token \in file
      BY <1>1, <2>4 DEF FlagAbiFile, IInv, FileWritten
    <3>3. CASE k # task[r].token
      BY <1>1, <3>1, <3>3, Parts DEF IInv, StoreOK
    <3> QED
      BY <3>1, <3>2, <3>3
  <2>5. \/ UNCHANGED rows
        \/ \E r \in Runs : rows' # rows /\ (CreateRow(r) \/ SaveRow(r) \/ FlagAbiFile(r))
    <3>1. ASSUME NEW r \in Runs, Start(r)
          PROVE  UNCHANGED rows
      BY <3>1
      DEF Start, UpdateAllPoolInfo, UpdateContractPrice, UpdateContractSymbol, UpdateTokenLogo,
          SavePlgrPriceTestNet, Read, Fail, HttpGetFails, Quote, store
    <3>2. ASSUME NEW r \in Runs, Step(r)
          PROVE  UNCHANGED rows \/ CreateRow(r) \/ SaveRow(r) \/ FlagAbiFile(r)
      <4>1. ASSUME NEW e, readPrice(r, e) \/ readSymbol(r, e) \/ readLogo(r, e)
            PROVE  UNCHANGED rows
        BY <4>1 DEF readPrice, readSymbol, readLogo, Read, Fail, store
      <4>2. NextToken(r) => UNCHANGED rows
        <5>1. ASSUME NextToken(r)
              PROVE  \E e : Read \/ readPrice(r, e) \/ readSymbol(r, e) \/ readLogo(r, e)
          BY <5>1 DEF NextToken
        <5> QED
          BY <4>1, <5>1 DEF Read, store
      <4>3. (WriteAbiFile(r) \/ GetContractSymbolOnMainNet(r)) => UNCHANGED rows
        BY DEF WriteAbiFile, GetContractSymbolOnMainNet, Read, Fail, HttpGetFails, store
      <4>4. (GetRecord(r) \/ SetRecord(r) \/ FindRow(r)) => UNCHANGED rows
        BY DEF GetRecord, SetRecord, FindRow, Read, Fail, store
      <4>5. GetTokenInfo(r) => UNCHANGED rows
        BY DEF GetTokenInfo, LookUp, ReadRow, Fill, Read, Fail, store
      <4> QED
        BY <3>2, <4>2, <4>3, <4>4, <4>5
        DEF Step, CheckPriceData, CheckSymbolData, CheckLogoData, CheckPricedToken, CheckNamedToken,
            CheckListedToken, SavePriceData, SaveSymbolData, SaveLogoData, SaveTokenInfo
    <3>3. ASSUME (\E k1 \in Keys, p1 \in Prices : MovePrice(k1, p1)) \/ Restart
          PROVE  UNCHANGED rows
      BY <3>3 DEF MovePrice, Quote, Restart, store
    <3> QED
      BY <1>1, <3>1, <3>2, <3>3 DEF Next, vars, store
  <2> QED
    BY <2>1, <2>2, <2>3, <2>4, <2>5
<1>2. IInv /\ [Next]_vars =>
        [\A k \in Keys : \A i \in DOMAIN rows'[k] :
           rows'[k][i].abi => k \in file' \/ (i \in DOMAIN rows[k] /\ rows[k][i].abi)]_vars
  BY <1>1
<1> QED
  BY <1>2, Invariant, PTL DEF Spec, MarksOnlySavedFiles
=============================================================================
