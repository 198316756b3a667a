----------------------------- MODULE TokenCache -----------------------------
(***************************************************************************)
(* The task process's view of tokens: prices, symbols and logos are fetched *)
(* by three scheduled jobs, kept as one JSON record per token in redis and  *)
(* copied to the rows of token_info in MySQL; the pool job reads them back  *)
(* through the same cache and adds the tokens that pools name.              *)
(*                                                                          *)
(* schedule/services/token{Price,Symbol,Logo}Service.go, models/tokenInfo.go*)
(* and tasks/task.go.  gocron starts every job in a goroutine of its own,   *)
(* so jobs interleave at each call to redis, MySQL, the chain or the disk;  *)
(* one such call is one step here.  A key of Redis stands for a token on    *)
(* one chain: "token_info:" + chainId + ":" + token.                        *)
(***************************************************************************)
EXTENDS Redis

CONSTANTS
  Runs,        \* runs of jobs that may be in flight at once: <<job, number>>
  Prices,      \* what the oracle may quote
  FirstPrices, \* what it may quote at the start
  PriceLimit,  \* 2^63, the first number too large for an int64
  plgr, plgrPrice,   \* the token whose price the process sets itself, and that price
  dumped,      \* the price of the rows that db/pledge.sql begins with
  unset,       \* the empty string
  sym, listSym,           \* a token's symbol on the chain, and in the list of logos
  RemoteLogo, LocalLogo,  \* logos by token, unset when the list has none
  Faults,      \* calls that may fail
  MaxBusy,     \* runs that are under way at once
  MaxEvents    \* calls that fail, moves of a price and restarts, in all

Jobs == {"pool", "price", "symbol", "logo", "plgr"}
Calls == {"find", "chain", "http", "get", "select", "create", "set", "save"}
Nets == {"test", "main", "other"}

ASSUME TokenCacheAssumption ==
  /\ Runs \subseteq Jobs \X Nat /\ Faults \subseteq Calls
  /\ Prices \subseteq Nat \ {0} /\ FirstPrices \cup {dumped, plgrPrice} \subseteq Prices
  /\ PriceLimit \in Nat \ {0} /\ dumped < PriceLimit
  /\ MaxBusy \in Nat /\ MaxEvents \in Nat

VARIABLES
  redis,    \* the database of Redis, a RedisTokenInfo per token
  rows,     \* token_info: the rows of each token, in the order of their ids
  file,     \* tokens whose ABI file is on the disk
  net,      \* the chain of each token: config's test net, its main net or another
  quote,    \* what the oracle answers for each token
  task,     \* the state of each run
  boot,     \* jobs still to run one after the other, and then the scheduler
  events,   \* how many so far
  quoted,   \* history: the prices quoted so far, and those the rows began with
  dirty     \* history: has a call failed or a price moved since the last start?

store == <<redis, rows, file>>
vars == <<store, net, quote, task, boot, events, quoted, dirty>>

job(r) == r[1]

\* big.Int's Int64: the low 64 bits of a number, read as a signed word.
Int64(p) ==
  LET low == p % (2 * PriceLimit)
  IN  IF low < PriceLimit THEN low ELSE low - 2 * PriceLimit

RedisTokenInfo == [price : {unset, 0} \cup {Int64(p) : p \in Prices}, symbol : {unset, sym, listSym},
                   logo : {unset} \cup {RemoteLogo[k] : k \in Keys} \cup {LocalLogo[k] : k \in Keys}]
emptyInfo == [price |-> unset, symbol |-> unset, logo |-> unset]
TokenInfo == [info : RedisTokenInfo, abi : BOOLEAN]

idle == [pc |-> "next", todo |-> {}, token |-> unset, new |-> emptyInfo]
startup == <<"pool", "price", "symbol", "logo", "plgr", "cron">>

\* The rows of db/pledge.sql, at most one for a token.  On the main net some
\* are priced and marked as having an ABI file, and the others neither.
dumpedRow(p, logo, abi) == [info |-> [price |-> p, symbol |-> sym, logo |-> logo], abi |-> abi]
dump(k) ==
  {<<>>} \cup
    CASE net[k] = "test" -> {<<dumpedRow(dumped, LocalLogo[k], FALSE)>>}
      [] net[k] = "main" -> {<<dumpedRow(dumped, LocalLogo[k], TRUE)>>,
                             <<dumpedRow(0, RemoteLogo[k], FALSE)>>}
      [] OTHER -> {}

\* The repository holds the ABI file of none of these tokens.
Init ==
  /\ redis = emptied
  /\ net \in [Keys -> Nets]
  /\ rows \in [Keys -> UNION {dump(k) : k \in Keys}] /\ \A k \in Keys : rows[k] \in dump(k)
  /\ file = {}
  /\ quote \in [Keys -> Prices]
  /\ \A k \in Keys : quote[k] \in IF net[k] = "test" THEN FirstPrices ELSE {dumped}   \* never asked
  /\ task = [r \in Runs |-> idle]
  /\ boot = startup
  /\ events = 0
  /\ quoted = [k \in Keys |-> {quote[k]} \cup {rows[k][i].info.price : i \in DOMAIN rows[k]}]
  /\ dirty = TRUE

\* The fields of a record each job writes.
fields(r) == CASE job(r) = "price" -> {"price"}
               [] job(r) = "symbol" -> {"symbol"}
               [] job(r) = "logo" -> {"logo", "symbol"}
               [] OTHER -> {}
written(r, old) == [f \in DOMAIN old |-> IF f \in fields(r) THEN task[r].new[f] ELSE old[f]]
rewritten(r, row) == [row EXCEPT !.info = written(r, row.info)]

-----------------------------------------------------------------------------
(* Steps of a run.                                                          *)

Goto(r, pc) == task' = [task EXCEPT ![r].pc = pc]
Finish(r) == task' = [task EXCEPT ![r] = [idle EXCEPT !.todo = task[r].todo]]

\* A call that writes, one that reads, and one that fails and changes nothing.
Write == UNCHANGED <<net, quote, events, quoted, dirty>>
Read == Write /\ UNCHANGED store
Event == events < MaxEvents /\ events' = events + 1
Fail(call) ==
  /\ call \in Faults /\ Event
  /\ dirty' = TRUE
  /\ UNCHANGED <<store, net, quote, quoted>>

Quote(k, p) ==
  /\ Event /\ net[k] = "test" /\ p # quote[k]
  /\ quote' = [quote EXCEPT ![k] = p]
  /\ quoted' = [quoted EXCEPT ![k] = @ \cup {p}]
  /\ dirty' = TRUE
  /\ UNCHANGED <<store, net>>

\* The logos the job has to look at: the local table always, the remote list,
\* which is one of main net tokens, if it could be fetched.
remoteLogos == {<<k, "remote">> : k \in {k \in Keys : net[k] = "main" /\ RemoteLogo[k] # unset}}
localLogos == {<<k, "local">> : k \in {k \in Keys : LocalLogo[k] # unset}}

\* A faulty listing takes the tokens from the table of logos.
listedTokens == {<<k, "row">> : k \in {k \in Keys : LocalLogo[k] # unset}}

knownTokens == {<<k, "row">> : k \in {k \in Keys : rows[k] # <<>>}}

busy == {r \in Runs : task[r] # idle}

\* A run begins, at startup when the one before it has ended.
Begin(r, todo) ==
  /\ task[r] = idle
  /\ IF boot = <<>> THEN Cardinality(busy) < MaxBusy
     ELSE busy = {} /\ Head(boot) \in {job(r), "cron"}
  /\ task' = [task EXCEPT ![r].todo = todo]
  /\ boot' = IF boot = <<>> THEN boot ELSE Tail(boot)

\* HttpGet fails when nothing comes back; whatever the status, a body does not.
HttpGetFails == Fail("http")

UpdateContractPrice(r) ==
  /\ job(r) = "price"
  /\ \/ Begin(r, knownTokens) /\ Read
     \/ Begin(r, {}) /\ Fail("find")

UpdateContractSymbol(r) ==
  /\ job(r) = "symbol"
  /\ \/ Begin(r, knownTokens) /\ Read
     \/ Begin(r, {}) /\ Fail("find")

\* A list that cannot be fetched leaves the local logos to do, one that
\* cannot be decoded nothing.
UpdateTokenLogo(r) ==
  /\ job(r) = "logo"
  /\ \/ Begin(r, remoteLogos \cup localLogos) /\ Read
     \/ \E todo \in {localLogos, {}} : Begin(r, todo) /\ HttpGetFails

\* The pool job looks up the tokens of pools on the test net, and saves those
\* of the pools it finds changed.
UpdateAllPoolInfo(r) ==
  /\ job(r) = "pool"
  /\ \E K \in SUBSET {k \in Keys : net[k] = "test"}, S \in SUBSET {"save"} :
       Begin(r, K \X ({"read"} \cup S))
  /\ Read

\* SavePlgrPriceTestNet sends a transaction that sets one token's price in the
\* oracle, always to the same, and does not wait for a block to include it: it
\* changes the price, in which case it counts as a move, or nothing.
SavePlgrPriceTestNet(r) ==
  /\ job(r) = "plgr" /\ Begin(r, {})
  /\ \/ Read
     \/ Fail("chain")
     \/ plgr \in Keys /\ Quote(plgr, plgrPrice)

\* Entries of a list are taken in any order, but remote logos before local
\* ones and a pool's reads before its saves.
first(e, todo) ==
  /\ e[2] = "local" => \A f \in todo : f[2] # "remote"
  /\ e[2] = "save" => \A f \in todo : f[2] # "read"

Take(r, e, pc, new) ==
  task' = [task EXCEPT ![r] = [pc |-> pc, todo |-> @.todo \ {e}, token |-> e[1], new |-> new]]
Skip(r, e) == task' = [task EXCEPT ![r].todo = @ \ {e}]

\* The call of the generated binding: the oracle's price, a uint256, at the
\* block of the call.
GetPrice(t) == quote[t]

\* The price of a token that is not on the test net is 0.
priceOf(k) == IF net[k] = "test" THEN Int64(GetPrice(k)) ELSE 0

\* A faulty reader goes on with the price a failed read leaves.
readPriceAnyway(r, e) ==
  \/ /\ Take(r, e, "check", [emptyInfo EXCEPT !.price = priceOf(e[1])])
     /\ Read
  \/ net[e[1]] = "test" /\ Take(r, e, "check", [emptyInfo EXCEPT !.price = 0]) /\ Fail("chain")

\* GetTestNetTokenPrice, which cuts what the test net's oracle answers to an int64.
readPrice(r, e) ==
  \/ /\ Take(r, e, "check", [emptyInfo EXCEPT !.price = priceOf(e[1])])
     /\ Read
  \/ net[e[1]] = "test" /\ Skip(r, e) /\ Fail("chain")

hasAbi(k) == rows[k] # <<>> /\ rows[k][1].abi

\* symbol() of the token, which on the main net takes its ABI from a file.  A
\* symbol that is not a string ends the process: that is Restart.
readSymbol(r, e) ==
  \/ net[e[1]] = "other" /\ Skip(r, e) /\ Read
  \/ net[e[1]] = "main" /\ Take(r, e, IF hasAbi(e[1]) THEN "symbol" ELSE "abi", emptyInfo) /\ Read
  \/ net[e[1]] = "test" /\ Take(r, e, "check", [emptyInfo EXCEPT !.symbol = sym]) /\ Read
  \/ net[e[1]] = "test" /\ Skip(r, e) /\ Fail("chain")

readLogo(r, e) ==
  /\ Take(r, e, "check", [emptyInfo EXCEPT
       !.logo = IF e[2] = "remote" THEN RemoteLogo[e[1]] ELSE LocalLogo[e[1]],
       !.symbol = listSym])
  /\ Read

NextToken(r) ==
  /\ task[r].pc = "next"
  /\ \E e \in task[r].todo :
       /\ first(e, task[r].todo)
       /\ CASE job(r) = "price" -> readPrice(r, e)
            [] job(r) = "symbol" -> readSymbol(r, e)
            [] job(r) = "logo" -> readLogo(r, e)
            [] OTHER -> Take(r, e, IF e[2] = "read" THEN "lookup" ELSE "first", emptyInfo) /\ Read

\* A faulty fetch marks the row first.
FlagThenWrite(r) ==
  /\ task[r].pc = "abi"
  /\ rows' = [rows EXCEPT ![task[r].token] = [i \in DOMAIN @ |-> [@[i] EXCEPT !.abi = TRUE]]]
  /\ Goto(r, "flag") /\ Write /\ UNCHANGED <<redis, file>>

\* GetRemoteAbiFileByToken: the file is written, then the row is marked; a
\* failure before or between ends the work on this token.
WriteAbiFile(r) ==
  /\ task[r].pc = "abi"
  /\ \/ Goto(r, "flag") /\ file' = file \cup {task[r].token} /\ Write /\ UNCHANGED <<redis, rows>>
     \/ Finish(r) /\ HttpGetFails

FlagAbiFile(r) ==
  /\ task[r].pc = "flag"
  /\ \/ /\ rows' = [rows EXCEPT ![task[r].token] = [i \in DOMAIN @ |-> [@[i] EXCEPT !.abi = TRUE]]]
        /\ Goto(r, "symbol") /\ Write /\ UNCHANGED <<redis, file>>
     \/ Finish(r) /\ Fail("save")

GetAbiByToken(k) == k \in file

GetContractSymbolOnMainNet(r) ==
  /\ task[r].pc = "symbol"
  /\ \/ /\ IF GetAbiByToken(task[r].token)
           THEN task' = [task EXCEPT ![r].pc = "check", ![r].new.symbol = sym]
           ELSE Finish(r)
        /\ Read
     \/ Finish(r) /\ Fail("chain")

-----------------------------------------------------------------------------
(* Check...Data: the record in redis is read, and unless it already holds   *)
(* what was fetched it is written back with the fetched fields replaced;    *)
(* then Save...Data: so are those fields of the token's rows.               *)

\* A faulty comparison takes any value for the fetched one.
sameIfSet(r, old) == old[job(r)] # unset

same(r, old) == old[job(r)] = task[r].new[job(r)]

GetRecord(r) ==
  LET k == task[r].token
      got == RedisGet(redis, k)
  IN  /\ task[r].pc = "check"
      /\ \/ /\ got.ok /\ same(r, got.reply[2]) /\ Finish(r) /\ Read
         \/ /\ got.ok /\ ~same(r, got.reply[2])
            /\ task' = [task EXCEPT ![r].pc = "set", ![r].new = written(r, got.reply[2])]
            /\ Read
         \/ ~got.ok /\ Goto(r, "first") /\ Read
         \/ Goto(r, "first") /\ Fail("get")   \* an error reads like an absent key

\* CheckTokenInfo: only a token without a row is created, and what it answers
\* does not change what follows.
Resume(r) == IF job(r) = "pool" THEN Finish(r) ELSE Goto(r, "set")

FindRow(r) ==
  /\ task[r].pc = "first"
  /\ \/ rows[task[r].token] # <<>> /\ Resume(r) /\ Read
     \/ rows[task[r].token] = <<>> /\ Goto(r, "create") /\ Read
     \/ Resume(r) /\ Fail("select")

CreateRow(r) ==
  /\ task[r].pc = "create"
  /\ Resume(r)
  /\ \/ /\ rows' = [rows EXCEPT ![task[r].token] = Append(@, [info |-> emptyInfo, abi |-> FALSE])]
        /\ Write /\ UNCHANGED <<redis, file>>
     \/ Fail("create")

SetRecord(r) ==
  /\ task[r].pc = "set"
  /\ \/ /\ redis' = RedisSet(redis, task[r].token, task[r].new, 0).db
        /\ Goto(r, "save") /\ Write /\ UNCHANGED <<rows, file>>
     \/ Finish(r) /\ Fail("set")

SaveRow(r) ==
  /\ task[r].pc = "save"
  /\ Finish(r)
  /\ \/ /\ rows' = [rows EXCEPT ![task[r].token] = [i \in DOMAIN @ |-> rewritten(r, @[i])]]
        /\ Write /\ UNCHANGED <<redis, file>>
     \/ Fail("save")

CheckPriceData(r) == job(r) = "price" /\ (GetRecord(r) \/ SetRecord(r))
CheckSymbolData(r) == job(r) = "symbol" /\ (GetRecord(r) \/ SetRecord(r))
CheckLogoData(r) == job(r) = "logo" /\ (GetRecord(r) \/ SetRecord(r))
CheckPricedToken(r) == job(r) = "price" /\ FindRow(r)
CheckNamedToken(r) == job(r) = "symbol" /\ FindRow(r)
CheckListedToken(r) == job(r) = "logo" /\ (FindRow(r) \/ CreateRow(r))
SavePriceData(r) == job(r) = "price" /\ SaveRow(r)
SaveSymbolData(r) == job(r) = "symbol" /\ SaveRow(r)
SaveLogoData(r) == job(r) = "logo" /\ SaveRow(r)

-----------------------------------------------------------------------------
(* The pool job's calls.                                                    *)

\* GetTokenInfo, in three steps: the key, the row, and the key again.
LookUp(r) ==
  /\ task[r].pc = "lookup"
  /\ \/ (IF RedisGet(redis, task[r].token).ok THEN Finish(r) ELSE Goto(r, "row")) /\ Read
     \/ Goto(r, "row") /\ Fail("get")

ReadRow(r) ==
  LET k == task[r].token
  IN  /\ task[r].pc = "row"
      /\ \/ rows[k] = <<>> /\ Finish(r) /\ Read
         \/ /\ rows[k] # <<>>
            /\ task' = [task EXCEPT ![r].pc = "fill", ![r].new = rows[k][1].info]
            /\ Read
         \/ Finish(r) /\ Fail("select")

Fill(r) ==
  /\ task[r].pc = "fill"
  /\ Finish(r)
  /\ \/ /\ redis' = RedisSet(redis, task[r].token, task[r].new, 0).db
        /\ Write /\ UNCHANGED <<rows, file>>
     \/ Fail("set")

GetTokenInfo(r) == LookUp(r) \/ ReadRow(r) \/ Fill(r)

SaveTokenInfo(r) == job(r) = "pool" /\ (FindRow(r) \/ CreateRow(r))

-----------------------------------------------------------------------------
(* The world around the jobs.                                               *)

\* External: the oracle's price of a token changes.
MovePrice(k, p) == Quote(k, p) /\ UNCHANGED <<task, boot>>

\* A faulty start keeps the redis database.
RestartKeeping ==
  /\ Event
  /\ UNCHANGED store
  /\ task' = [r \in Runs |-> idle]
  /\ boot' = startup
  /\ dirty' = FALSE
  /\ UNCHANGED <<net, quote, quoted>>

\* The process ends at any point and is started again: Task() flushes redis.
Restart ==
  /\ Event
  /\ redis' = RedisFlushDB(redis).db
  /\ task' = [r \in Runs |-> idle]
  /\ boot' = startup
  /\ dirty' = FALSE
  /\ UNCHANGED <<rows, file, net, quote, quoted>>

Start(r) ==
  \/ UpdateAllPoolInfo(r) \/ UpdateContractPrice(r)
  \/ UpdateContractSymbol(r) \/ UpdateTokenLogo(r) \/ SavePlgrPriceTestNet(r)

Step(r) ==
  /\ UNCHANGED boot
  /\ \/ NextToken(r)
     \/ WriteAbiFile(r) \/ FlagAbiFile(r) \/ GetContractSymbolOnMainNet(r)
     \/ CheckPriceData(r) \/ CheckPricedToken(r) \/ SavePriceData(r)
     \/ CheckSymbolData(r) \/ CheckNamedToken(r) \/ SaveSymbolData(r)
     \/ CheckLogoData(r) \/ CheckListedToken(r) \/ SaveLogoData(r)
     \/ GetTokenInfo(r) \/ SaveTokenInfo(r)

Next ==
  \/ \E r \in Runs : Start(r) \/ Step(r)
  \/ \E k \in Keys, p \in Prices : MovePrice(k, p)
  \/ Restart

\* No call hangs for ever, and gocron starts every job again each time its
\* period is over, whatever the others do: strong fairness, because MaxBusy,
\* which the code does not have, may keep a job waiting.
Fairness == \A r \in Runs : SF_vars(Start(r)) /\ WF_vars(Step(r))

Spec == Init /\ [][Next]_vars /\ Fairness

-----------------------------------------------------------------------------
(* Properties.                                                              *)

\* Has every price of a token so far been one that an int64 holds?
holds(k) == \A p \in quoted[k] : p < PriceLimit

record(k) == redis[k].value[2]
cachedPrice(k) == IF redis[k] = none THEN unset ELSE record(k).price
priced == {k \in Keys : net[k] = "test" /\ rows[k] # <<>>}

TypeOK ==
  /\ redis \in [Keys -> {none} \cup [type : {"string"}, value : {"json"} \X RedisTokenInfo,
                                    ttl : {Forever}]]
  /\ rows \in [Keys -> Seq(TokenInfo)]
  /\ file \subseteq Keys /\ net \in [Keys -> Nets] /\ quote \in [Keys -> Prices]
  /\ task \in [Runs -> [pc : {"next", "check", "first", "create", "set", "save",
                             "abi", "flag", "symbol", "lookup", "row", "fill"},
                       todo : SUBSET (Keys \X {"row", "remote", "local", "read", "save"}),
                       token : Keys \cup {unset}, new : RedisTokenInfo]]
  /\ boot \in Seq(Jobs \cup {"cron"})
  /\ events \in 0..MaxEvents
  /\ quoted \in [Keys -> SUBSET (Prices \cup {0})]
  /\ dirty \in BOOLEAN

\* A token of the test net never shows a price, in redis or in MySQL, that the
\* oracle did not answer: neither the 0 of a failed read nor that of a chain
\* that is not asked (UpdateContractPrice); as long as its prices are below
\* 2^63 (price.Int64() in GetTestNetTokenPrice).
OnlyQuotedPrices ==
  \A k \in Keys : net[k] = "test" /\ holds(k) =>
    /\ cachedPrice(k) \in quoted[k] \cup {unset}
    /\ \A i \in DOMAIN rows[k] : rows[k][i].info.price \in quoted[k] \cup {unset}

\* GetTestNetTokenPrice's comment, "get contract price on test net", without
\* that limit.  It does not hold.
ShowsContractPrice ==
  \A k \in Keys : net[k] = "test" => cachedPrice(k) \in quoted[k] \cup {unset}

\* The price and symbol jobs pass their new row to gorm by value, which cannot
\* store the row's id in it: they must never get to create one, though each
\* has a CheckTokenInfo that would.
NeverCreatesByValue ==
  \A r \in Runs : job(r) \in {"price", "symbol"} => task[r].pc # "create"

\* A row is marked abi_file_exist only once its token's file is on the disk,
\* whatever fails and wherever the process stops between the two: a token that
\* is marked without one, as the dump's are, never gets it
\* (GetRemoteAbiFileByToken).
MarksOnlySavedFiles ==
  [][\A k \in Keys : \A i \in DOMAIN rows'[k] :
       rows'[k][i].abi => k \in file' \/ (i \in DOMAIN rows[k] /\ rows[k][i].abi)]_vars

\* Jobs overwrite each other's fields with what they read before, and cache
\* fills from MySQL are late; but once prices and failures stop, the cached
\* price of every known token becomes the oracle's, if below 2^63, and stays.
RedisFollowsChain ==
  <>[](\A k \in priced : quote[k] < PriceLimit => cachedPrice(k) = quote[k])

\* A row that missed a price is put right by a restart, which forgets the
\* cache: if no call fails and no price moves after one, MySQL ends up with
\* the oracle's prices, if below 2^63 (RedisFlushDB in Task).
RestartRepairs ==
  <>[]~dirty =>
    <>[](\A k \in priced : quote[k] < PriceLimit =>
           \E i \in DOMAIN rows[k] : rows[k][i].info.price = quote[k])
=============================================================================
