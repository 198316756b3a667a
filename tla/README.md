# Pledge: a verification project

TLA+ models of the Pledge lending system, checked with TLC on small instances;
their safety properties are proved with TLAPS for every value of the constants.
The repository has four programs:

- `src/pladgev2`: the Solidity contracts. Lenders deposit a stable coin in a
  pool, borrowers pledge collateral, the pool is settled at an oracle price,
  runs to its end or is liquidated, and everyone withdraws.
- `src/pladge-backend/schedule`: a Go process that copies pools, prices and token
  data from the chain into MySQL and redis.
- `src/pladge-backend/api`: a Go process that serves them over HTTP and
  websockets. It shares MySQL and the redis database with the first.
- `src/contract-listener`: a Go process that follows the contract's logs.

## Inventory

`PROJECT.json` lists every component with its files, and under `hazards` what is
hard to test in each, at its line, with the properties that are about it.

| Component | State | Operations | Interacts with | Hard parts | What makes it correct |
|---|---|---|---|---|---|
| PledgePool, `SafeTransfer` | pools (terms, supplies, state), settled, finished and liquidated amounts, each user's stake, refund and flags, fees, pause | create, deposit, refund, claim, withdraw, emergency withdrawal, settle, finish, liquidate, setters | debt coins, ERC20 tokens, oracle, router, multi-signature lock | calls in any order by anyone; one balance per token for all pools; two truncations per share; prices that move | solvency, no double payment, sound and final settlement |
| Multi-signature and its client | seats, applications per (caller, contract), signatures | apply, sign, revoke, hand over a seat, check the lock | every contract with `validCall` | arrays used as sets; approvals that outlive seats | an approval stands for a quorum of different owners |
| BscPledgeOracle | prices by hand, feeds, decimals | setters, bulk setter, price computation | feeds, PledgePool | wrapping words, decimals | prices of different tokens are comparable |
| DebtToken, AddressPrivileges | balances, minters | mint, burn, add and remove minters | PledgePool, lock | | supply moves only with claims and withdrawals |
| Pool synchronisation | rows of poolbases and pooldata, fingerprints in redis | read the chain, compare, save | chain, token cache, MySQL, redis | failures between the stores, rounds that overlap, two reads of one pool | one row per pool, which follows the chain |
| Token cache | one JSON record per token in redis, its row in token_info, an ABI file | price, symbol and logo jobs, look-ups and saves of the pool job | chain, HTTP, disk, MySQL, redis | jobs that overlap on one record, partial failures, restarts | honest prices; both stores end up with the chain's |
| Task scheduler, balance monitor | none of its own | flush, first round, periodic starts, warning mail | all jobs, redis | starts whether or not the last run has ended | jobs keep running; no false alarm |
| API sessions | JWTs, a login state per user in redis | login, check, logout | scheduler (flush) | tokens and states with lifetimes of their own | nobody is let through without a login |
| Multi-signature store | rows of multi_sign | delete and create, get | MySQL | a replace in two statements | a set that ran alone is what is stored |
| Price feed | exchange connection, channel, websockets and their locks | connect, receive, broadcast, ping, time out | redis, browsers | goroutines that end in any order, browsers that do not read | browsers get prices in order and, while all of them read, every one; dead connections close |
| Pool and token queries, validation | none | search by pages, lists, checks of fields | MySQL, while rows are added | queries that do not see one state | pages miss nothing |
| Process start | connections, tables | both mains, systemd's restarts | MySQL, redis, environment, port | every step can panic | each process comes back |
| Redis access | the connection pool | 22 wrappers | all of the backend | replies of the wrong type, lifetimes | a stored value has its lifetime, or an error is reported |
| Backend utilities | a locked map | conversions, arithmetic, checks, codes, time | all of the backend | limits of types, texts that are no numbers | what one helper writes another reads, in order and within the types' limits |
| Contract listener | log channel, workers, subscription | scan, subscribe, handle | chain node | several producers and consumers, full buffers, lost connections | each deposit handled, once |
| Listener repository and decoder | | | nothing calls them | | |
| Contract libraries, bindings, configuration, logging | | | | | |

## Modules

| Module | Models | Theorems in |
|---|---|---|
| `PledgeMath`, `PledgePool` | fixed-point arithmetic and the pool contract, one action per function | `PledgePoolProofs`, `PledgeSolvencyProofs` |
| `MultiSignature` | the contract, its whitelist library and its clients' lock, arrays as in the source | `GovernanceProofs` |
| `Committee` | abstract: a committee that votes with sets and quorums; `MultiSignature` implements it | |
| `BscPledgeOracle` | setters and price computation, with words that wrap | `GovernanceProofs` |
| `Redis` | `db/redis.go`: each wrapper an operator from a database to what it leaves and answers; used by every module that keeps something in redis | |
| `RedisStore` | any sequence of those calls, with a clock | `ApiProofs` |
| `PoolSync` | the pool job | `PoolSyncProofs` |
| `TokenCache` | the price, symbol, logo and exchange price jobs, the pool job's token calls, and the start of the scheduler | `TokenCacheProofs` |
| `AdminApi` | sessions and the multi-signature store | `ApiProofs` |
| `ApiQueries` | searches, lists, validation | `ApiProofs` |
| `LockedMap` | `utils/map.go` | `ApiProofs` |
| `BackendUtils` | conversions, decimals and text checks of `utils`, the request validators; the balance monitor | `ApiProofs` (the monitor) |
| `Processes` | both mains, and systemd | |
| `PriceFeed` | the exchange's feed, the broadcast and the websockets | `PriceFeedProofs` |
| `ContractListener` | main, history scan, subscription loop, workers | `ContractListenerProofs` |
| `EventDelivery` | abstract: each deposit at most once per life, after it was emitted; `ContractListener` implements it | |
| `MC...` | instances for TLC; `MCApi` puts the six API parts that share no state side by side, `MCGovernance` the multi-signature contract and the oracle | |

Definitions whose comment begins with "A faulty ..." are forms the code might
have had and has not. No specification uses them: they are what a property is
tried against, to see that it would notice.

### PledgePool and the code

One action is one transaction. A `require`, an arithmetic check of SafeMath, a
division by zero, an ERC20 transfer or burn beyond the balance: each reverts the
whole call, and is a guard. `PoolBaseInfo`, `PoolDataInfo`, `userLendInfo`,
`userBorrowInfo` are the structs and mappings of lines 40-84; `balance` is the
contract's balance in each token, `debt` the holders' balances of the sp and jp
coins, `now` the block time, `price` what the oracle reports. Reentrancy locks
are not modelled: an action is atomic, which is what the locks are for. Native
coins are not either, since `createPoolInfo` refuses the zero address as a token.

The source does not compile as it stands; the model takes the evident intent of
`uintn256` (137), `noReentrant` (241), `PoolDataIfo`/`PoolDataInfo` (57, 220),
`liquidationAmountLend`/`liquidationAmounLend` (63, 321, 582), and
`burn(msg.data, ...)` for `burn(msg.sender, ...)` (310). `depositBorrow` has an
event (96) and generated bindings but no body: with `BorrowDeposits = TRUE` it is
an external action that mirrors `depositLend`; with `FALSE` the model is the
source alone, and the run `source` shows what is left of the system then.

The router is external. It takes some collateral and returns an amount within
`Slippage` of the order, in either direction, because the code handles both
(`finish` requires enough, `liquidate` expects less). The calls under
`validCall` are made by an approved caller; who is approved is the subject of
`MultiSignature`. The pool is taken to be a minter of its debt coins.

### MultiSignature, BscPledgeOracle and the code

A hash is the pair it is computed from. `signatureMap` holds for each hash the
sequence of its applications, each with its array of signatures in the order that
the swap-with-last removal produces. `everOwner` and `calls` are history
variables. A client's functions are one action, `checkMultiSignature`: what the
function does is not told apart, that it passed the lock is counted.

Solidity 0.6 arithmetic in the oracle: every word wraps at `Width` bits
(`Words`), and `10 ** e` is 0 once `e` reaches the width; `power` is the
exponentiation that does not wrap. `getUnderlyingPrice` is the code's
computation, and `quotes` says when it does not divide by zero.

### The scheduler: PoolSync and TokenCache

gocron starts every job in a goroutine of its own at each period, whether or not
its last run has ended. A run is cut at each call to the chain, redis, MySQL, the
disk or HTTP, and `Faults` says which of them may fail; a failed call does what
the code does with the error, which is often nothing.

In `PoolSync` a pool on the chain is a number, its version: the contract changes
a pool's data record only together with its base record, so one number stands for
both. A base record is the version that was read and whether the fees could be
read with it; a fingerprint is that record, `stamped` once the save has put the
time in it (`poolBase.go` sets CreatedAt and UpdatedAt in the struct that
`poolService.go:125` fingerprints again). `redis` keys expire by an action of
their own. `overlapped` and `failed` are history.

In `TokenCache` a key stands for a token on one chain; a record has its price,
symbol and logo. The three Check...Data functions are the same steps with
different fields, which `fields(r)` gives. `boot` is Task(): the jobs run once
in order after the flush, and then the schedule begins. `quoted` and `dirty` are
history. MySQL begins with rows like those of `db/pledge.sql` (`dump`). Two of
its main-net rows are marked as having an ABI file (lines 266-267), which the
repository does not hold; the symbol job passes over rows that are marked, so
these ABIs are never fetched. `Int64` is the `price.Int64()` of
`tokenPriceService.go:127`, which keeps the low 64 bits of the contract's
uint256; `PriceLimit` stands for 2^63. A contract whose symbol is not a string
ends the process in a type assertion (`tokenSymbolService.go:165`, `198`);
`Restart`, which may come between any two steps, is that too. The two modules
both model the flush and share `Redis`; a token is only an input to a base
record, so they are checked apart.

### The API: AdminApi, ApiQueries, PriceFeed, Processes, helpers

In `AdminApi` a request is cut at each call to redis or MySQL. A token is its
remaining life; the login state is a key of redis with a lifetime of its own.
`Flush` is the scheduler's, on the database that they share. `loggedIn`,
`unnoticed`, `alone` and `settled` are history. `ApiQueries` cuts a search at its
count and at its page, while rows are added and pools change; `pager` is a
browser that reads page after page. Validation is operators from a request to an
error code, the panic of a failed type assertion included.

`PriceFeed` has one action per blocking point of each goroutine: the feed
(restore, connect, receive, send to the channel, keep), the broadcast (take a
price, begin and end a write, under the connection's lock), and per connection
its main loop, its reader and its browser. A price is its number in the stream.
A browser may stop reading and may read on (`StopOrReadOn`). While it does not,
a write to it does not end: no deadline is set (`ws.go:43-55`), and TCP waits
for a live peer for ever. The write keeps the connection's lock, so the
broadcast and that connection's own pong and timeout wait with it (`stalled`).

`Processes` is each main as its sequence of steps, with what each step needs, and
systemd's restart with its limit of starts. `BackendUtils` are operators, each
tried on every input of a range by actions that only choose inputs, and the
balance monitor. `LockedMap` cuts each method at the lock, its body and the
unlock; a range visits one entry per step.

### ContractListener and the code

A log is its number on the chain; `chain` has the kinds of logs. `rest` is what
the scan has still to send, `logs` the channel, `worker` what each worker holds,
`buffer` and `held` what the client and SubscribeLoop have. The client's buffer
is go-ethereum's: when it is full the subscription ends. Restarts keep nothing,
because nothing is kept: the repository of events and blocks is called by nothing.

## Runs

Deadlock is checked but for `listener`, `reconnect` and `feed`: the listener may
have handled all there is and have no restart left, and the feed ends for good
when the exchange's connection does, with browsers that have all left.

| Run | Question | Bounds and why they suffice |
|---|---|---|
| `pool` | Can any order of calls on a pool overpay someone, or change what was settled? | Two users, deposits of 2 or 3 within a supply of 5, pledges of at most 4, three time steps. Two users give unequal and interleaved claims; such amounts with units 12 and 4 make every truncation bite; prices at 1/2 and 2 make the loan smaller and larger than the deposits. |
| `pools` | Can one pool pay with another's money? | Two pools that mirror each other's tokens, one user on both sides of each. |
| `rates` | Can a settlement lend more than its collateral is worth, and does a sale leave the loan and its interest? | Prices of 0, 2, 3 and 5, ratios that do not divide, interest and fees visible after truncation, a router that brings one unit more or less. |
| `source` | What does the contract as written, without `depositBorrow`, do with deposits? | Two pools that share both tokens and debt coins, two users. |
| `governance` | Do arrays of signatures work as a committee's votes? Are prices of tokens with different decimals comparable? | A behaviour is of one of the two contracts, which share no state. Two seats, a third account to take them, two applications per hash, a threshold of two: three signers fit in one array, so removal has a middle to move into. Precision 2, decimals 0 to 3, words of 10 bits, a negative answer. |
| `tokens` | Do overlapping jobs show only prices the oracle gave, and do both stores end up with them? | One token (jobs meet on one record; different tokens share nothing but the order of a list), on the test net, the main net or another chain; two runs at once of five kinds of jobs; any two failures, price moves or restarts. Prices are 1, 2 and 5, an int64 ends below 4 (`PriceLimit`), and the oracle begins with 2 (`FirstPrices`): prices move within the limit, past it and back. |
| `prices` | Is what is cached the contract's price? | A counterexample, with the same constants: see below. |
| `poolsync` | Do the tables follow the contract, with one row per pool? | One pool with two rounds that may overlap and two failures, restarts or overlaps, or two pools, one round at a time and one of them: an overlap and a failure are enough to save and skip at the wrong moment, and two pools to carry state from one turn of the loop to the next. |
| `listener` | Is every log that was read handled, once? | Three logs, a channel and a client's buffer of one, two workers, two lost connections, failures or restarts: both queues fill while both producers want to send. |
| `reconnect` | Does the listener reconnect? | A counterexample: see below. |
| `feed` | Do browsers that stay miss a price, and do the others get closed? | Two browsers and two prices without failure, or one browser, three prices and a failure or restart; a channel of one place: the broadcast waits on a browser while the feed waits on the channel. A browser stops reading at most as often as `Limits` says, for good or for a while. |
| `api` | Nine questions about six parts | A behaviour is one of one part (`part`), so their states add up instead of multiplying. Sessions: two requests, two tokens, a life of two ticks, one failure, flush or crash. Queries: three pools, pages of one and two. Map: two goroutines and keys. Redis: a key of each type with lifetimes up to two. Helpers: integers that end at 4 and 32 for 2^31 and 2^63, amounts up to 5, text lengths at each limit. Processes: two starts for `StartLimitBurst` 5, one panic. |

What bounds stand for is in the comments of the CONSTANTS: `Limits`, `MaxEvents`
and `MaxPanics` bound what goes wrong in a behaviour and `MaxBusy` the runs under
way at once; the code has none of them. `ChannelCap`, `BufferCap`, `PriceChanCap`,
`UserPingPongDurTime`, `StartLimitBurst` and `NarrowLimit` are smaller than the
code's constants, so that limits are reached.

### What the properties say

- `Solvent`, `DebtBacked` assume `OwnCoins`: no debt coin serves two pools or both
  sides of one. `createPoolInfo` does not check it, and with shared coins the sp
  of one pool redeems against another. `Solvent` is checked with price ratios that
  are exact at `BaseDecimal`; with inexact ones `settleAmountBorrow` may exceed
  `borrowSupply` by the truncation of line 475, and `finish` promises borrowers
  more than they pledged. `SettlesSoundly` states what holds in general.
- `OnlyQuotedPrices` says that a token shows the contract's prices, of now or
  earlier, or the one MySQL began with, as long as an int64 holds the ones that
  were quoted. Beyond that it does not: see `ShowsContractPrice` below.
  `RedisFollowsChain` and `RestartRepairs` have the same premise, on the price
  that is to arrive. `MarksOnlySavedFiles` is about the marks that the process
  sets, not about those of the rows that it finds. `RedisFollowsChain` says that
  lost updates heal. MySQL need not heal: a row that missed a price that redis
  has got is not written again until the price moves or the process restarts,
  and `RestartRepairs` says that this is enough.
- `OneRowPerPool` and `PrintsDescribeRows` are about rounds that do not overlap.
  Overlapping rounds do create two rows, since no key forbids it; `PoolsFollowChain`
  says that even then every row ends up with the contract's figures, fees
  included, because fingerprints expire. `DataNotBehind` says that a pool shown as
  settled has its settled amounts.
- `AdmittedOnlyLoggedIn` needs that redis did not fail in a login or logout,
  whose errors are dropped; `SetAloneReplaces` is about a set that no other
  request overlapped, after any that did, failed or crashed.
- `PagesMissNone` and `CountIsKept` are about searches without a filter on the
  state. A filtered one can miss a pool that changes its state between two pages.
- `NoGaps` and `PricesReachBrowsers` hold although ended connections stay
  registered (`ws.go:64`) and are written to. `PricesReachBrowsers` has the
  premise that every browser that stops reading reads on or leaves in the end:
  one live browser that never does keeps all prices from all browsers, since
  nothing in the code ends the write. `DeadConnectionsClose` is about a
  connection whose browser has left, or has fallen silent without being stalled
  itself: it is closed, whoever else holds up the broadcast. One that is stalled
  for good is never closed: its timeout waits for the lock (`ws.go:109`). The
  goroutines that an ended connection leaves behind (`ws.go:90`) are not
  counted.
- `LifetimeOrError` says that no redis call reports success for a value that it
  stored without its lifetime. `OneTakesKey` and `MailsAreTrue`
  are about the map and the monitor, `ComesBack` about systemd. `HelpersAgree` is
  about helpers with each other: numbers keep their order and come back through
  text, and a field that one check lets pass suits the other uses it has.
- `NothingLost` counts from the height that was read and from the subscription on,
  `AtMostOnce` is the refinement of `EventDelivery`, and `HistoryHandled` the
  progress of the scan through a channel smaller than the history.

### Fairness

- `ContractListener`: weak fairness of main, the loop and each worker. Goroutines
  run, and each retries or blocks on something the others bring.
- `PriceFeed`: weak fairness of the goroutines that have something to do, and a
  silent second passes. A write ends if the browser reads or is gone, and only
  then: to a browser that is stalled it is no step, so no fairness asks for it.
  None for the exchange, for what browsers do, reading included, for failures or
  restarts.
- `TokenCache`: a job's steps weakly, since no call hangs for ever; its starts
  strongly, since gocron starts it again at each period whatever the others do,
  while the model's `MaxBusy` may be taken by others again and again. None for
  failures, price moves or restarts.
- `PoolSync`: weak fairness of starts and steps, and of a key's expiry.
- `Processes`: weak fairness of a start's steps and of systemd. None for what the
  processes need, panics, or the interval's passing.
- The contracts, sessions and queries have none: nothing obliges anyone to call
  `settle`, `finish` or an HTTP route, so no progress of theirs would be the code's.

## Where the code and the repository's words differ

Two are runs.

- `SubscribeLoop`'s doc says that it reconnects (`subscriber.go:14`); the `break` of
  line 41 leaves the `select` and not the loop, so after a subscription's error it
  waits on it for ever. The run `reconnect` finds that behaviour: `Reconnects` is
  violated.
- `GetTestNetTokenPrice` is to get the contract's price
  (`tokenPriceService.go:107`); line 127 gives the low 64 bits of it. The oracle
  scales by `10 ** (18 - decimals)` (`BscPledgeOracle.sol:92`) and takes any
  price that is set by hand, so a price may be 2^63 or more; it is then cached
  and saved as another number, negative ones included. The run `prices` finds
  one: `ShowsContractPrice` is violated.

Others were met on the way, and are in the models as the code has them:

- Contracts. `setFeeAddress` and `setSwapRouterAddress` emit an event and assign
  nothing (`PledgePool.sol:143-153`). `liquidate` neither looks at the threshold
  (182) nor at what the swap brings, so lenders may get less than they lent.
  `setPrices` writes under positions instead of assets
  (`BscPledgeOracle.sol:47-53`). Removing a feed brings back the price last set
  by hand, however old. An approval is not used up by a call, and counts after
  its signers have handed over their seats. `transferOwner` may seat an account
  twice.
- Sessions. `userController.go:51-52` says that a token that was kept is refused
  after a logout; the state is one per user, so a later login revives it until it
  expires.
- Queries. A search shows for every pool the chain's first row of pooldata
  (`pool.go:48`), and fails while there is none. In `poolBases.go` BorrowToken is
  mapped to the column pool_id.
- Helpers. `RedisSetInt64` always answers an error and never sets a lifetime. A
  nickname must not begin with a blank by its comment, and may by its regular
  expression. Not modelled, and called by nothing: `CreateCaptcha` and
  `Encryption` are commented as ten and twenty digits, and can give fewer
  (`functions.go:199-211`); `GenerateCode` overflows an int32 from ten figures
  on; a subtraction of many, `Float64SubToFloat64s` and `StringSubStrings`,
  takes each total from the next number, so its signs alternate
  (`functions.go:342`, `381`); the start of a day is right only where the server
  is eight hours ahead of UTC (`time_format.go:39-44`).
- Start. The errors of AutoMigrate are dropped. The task's unit sets PATH to the
  name of its environment file instead of reading it, so the key that the process
  needs is missing. A port that is taken ends the API without an error.
- Listener. Logs of blocks between the height that was read and the subscription
  are in neither, and are lost until the next start.

## Proofs

TLAPS checks these for every value of the constants that the named assumptions
allow: units are positive, thresholds, amounts and bounds natural, sets of faults
and limits as typed, the keys a module uses in the database, and the set of
users finite, since a sum over them is meant. Every safety property of every
passing run but `HelpersAgree` is the statement of a theorem (or implied by one
that names it).

### The pool

`PledgePoolProofs` begins with arithmetic: truncating division, shares
(`EntitledSum`: the shares of parts that add up to no more than the whole add up
to no more than what is divided), and sums. A sum over a finite set is a fold
over its elements in some order. What it adds up to is proved by induction on
subsets of the set (`SubsetInduction`: of the subsets for which a claim fails, one
that contains no smaller such, by the well-foundedness of strict inclusion): it
is unique (`SumsUnique`), exists (`SumsExist`), is monotone, moves by as much as
one term does (`SumPoint`), and grows by a new pool's term (`SumAppend`).
`SettlementSound` is about `SettleAmounts`: the loan is at most the deposits and
covered by the matched collateral up to one unit of truncation.

The inductive invariant `IInv` is `TypeOK` with three parts that the subtractions
of the code need. A user's stake is within the supply (`StakesWithinSupply`), or a
share could exceed one and a supply less a settled amount be negative; users have
no stake in pools that do not exist yet (`UncreatedUnused`), or creation could
break the former; a pool ends after it settles (`TermsOrdered`), or the interest's
period could be negative. From it: `TypeCorrect`, `SettlementFinal`,
`SettlementSafe`. Of the contract as its source stands, without `depositBorrow`,
every pool is in MATCH or UNDONE and has no collateral (`NothingPledged`), which
with the steps a pool can take gives `NeverLends`.

`PledgeSolvencyProofs` is about the money. Its inductive invariant `Books` adds
to `IInv`, for each pool (`BooksAt`), that the supplies are the sums of the
stakes, that nothing is matched or paid while deposits come in, that an executed
pool has two sides, a loan within its deposits, and has refunded each user the
user's refund once or nothing; that nothing is recorded about pools to come
(`UncreatedBlank`); and that coins of no executed pool are not out (`IdleCoins`).
Each action has a lemma of what it does to one pool's entries (`...Effect`), and
every step touches at most one pool (`Touches`). From it:

- `SuppliesAreSums`: `StakesAddUp`.
- `NobodyIsOverpaid`: while no pool matches more collateral than was pledged
  (`WithinPledges`), refund and share are shares of the two parts of a supply. The
  condition is about line 475: where `BaseDecimal` truncates the ratio of the
  prices, `settle` may match more than that. `MatchedWithinPledges` shows that
  this is the only way: with `ExactRatios`, which is about the oracle's prices
  alone and which the prices of `pool` and `pools` satisfy, the condition holds.
  So does `ExactPricesOverpayNobody`.
- `LendersKeepTheirs`: `LendersKeepLoanAndInterest`, without a condition.
- `DebtIsBacked`: a claim moves what is due to a user into coins, a burn takes
  coins out, each by the same amount (`Flow`); at settlement the shares add up to
  the loan. The hypothesis `OwnCoins` is part of `DebtBacked`.
- `StaysSolvent`: each step takes from the contract's balance no more than it
  takes off what its pool owes (`PaysOff`), and leaves what the other pools owe
  (`OwedMoves` sums that over pools, including pools that share a token and
  pools whose two tokens are the same; `OwedGrows` adds a new pool). A burn pays
  off its share since the coins that are out are backed. Under `WithinPledges`,
  or `ExactRatios` (`ExactPricesStaySolvent`).
- `HoldsExactly`: where nothing can be lent each step pays off exactly what it
  takes (`PaysExactly`), so the source as it stands holds the stakes to the last
  unit: nothing is lost in it, and nothing is over.

### The other contracts

`GovernanceProofs`. Of every application, its signatures have no duplicates and
were given by accounts that held a seat, and only the first one has any. An array
without duplicates is a bijection onto its members, so its length is the number
of voters; swap-with-last removal takes out one member. From it: `OneVote`,
`SignersSound`, `OnlyFirstSigned` and `ContractIsCommittee`, the refinement.

For the oracle, powers are defined by recursion on the exponent; that there is
one such function (`PowersExist`), that it turns sums into products
(`PowerOfSum`) and grows with the exponent (`PowerMono`, `PowerLarge`) is proved
by way of a smallest counterexample (`NatSetInduction`). If the price of a whole
token at full precision fits a word, then so does the scale, unless the price is
0 (`ScaleIs`, `NoPrice`), nothing wraps and the units cancel: `UnitsDoCancel`.

### The scheduler

`PoolSyncProofs`: rounds that have not overlapped are under way one at a time
(`OneRun`), what a save found when it looked is still so when it writes
(`AsFound`), and a fingerprint is that of the row, but between the save of the
row and that of the fingerprint (`PrintOfRow`). From it: `RowsAreOne` and
`SkippedIsSaved`. The data of a pool keeps up because no row is ahead of the
contract (`NotAhead`), a run reads the data after the base record
(`ReadInOrder`), and where the data is older a run is on its way to save it
(`DataComes`), which it will not skip: a fingerprint with the time of a save in
it is like no other. From it: `DataKeepsUp`.

`TokenCacheProofs`: every price in flight, cached or stored for a test net token
is one the oracle has given, or the one its row began with, cut to an int64
(`CarriedHonest`, `CachedHonest`, `RowsHonest`), which is the price itself where
an int64 holds it (`Holds`); the price and symbol jobs work on tokens whose rows
exist, and rows are never deleted (`WorksOnRows`); a run that is about to mark a
token has written its file (`FileWritten`). From it: `PricesAreQuoted`,
`CreatesOnlyByReference`, `MarkedHasFile`.

### The API

`PriceFeedProofs`: the channel holds the last prices that were sent, and the price
being shown is the one before them (`InLine`); a browser that has prices has the
one shown, or is in the broadcast's list and has the one before (`Current`); it
registers once, after it has connected (`Registered`). So
the next write goes on where the last one ended: `BrowsersMissNone`.

`ApiProofs` has a section per part.

- Sessions: the login state in redis lasts as long as the last login and is gone
  after a logout, unless redis failed in one (`StateIsLogin`): `LetThroughLoggedIn`.
- The store of settings: a request that deleted its chain's rows and has not been
  disturbed finds none when it creates its own (`AloneFindsNone`): `AloneReplaces`.
- The map: a goroutine is a reader or the writer exactly while it is between lock
  and unlock, and not both kinds at once (`Exclusion`); hence what a range has
  visited is of the one map it began with (`SeesOneState`), and a key that was told
  free is in the map (`ToldOnce`): `OneTakes`, `RangesAreSnapshots`.
- The monitor: the account has had its balance (`BalanceHad`): `MailsTellTruth`.
- Redis: each wrapper leaves entries of the four types, whatever was there before
  (`HasEntries`), and each that takes a lifetime leaves it or answers an error:
  `LifetimesAreTold`.
- Searches: a pool's place in a result is the number of newer pools that match
  (`PlaceOf`). A pool that the browser is owed and has not seen has at least as
  many newer ones as the pages read so far hold (`Owed`), and rows that are added
  are newer ones: `PagesAreComplete`. Matching rows never get fewer, so a total is
  kept: `TotalIsKept`. The set of pool ids may be infinite; the rows never are.

### The listener

`ContractListenerProofs`: every log of a deposit is in exactly one place: not yet
sent, in the client's buffer or the loop's hand, in the channel, with a worker, or
handled (`Apart`); and a log of the history never passes through what a lost
connection takes with it (`Kept`). From it: `LosesNothing`, and
`DeliversAtMostOnce`, that each step is one of `EventDelivery` or none.

### Only model-checked

Liveness, which is out of this prover's reach: `HistoryHandled`,
`PricesReachBrowsers`, `DeadConnectionsClose`, `RedisFollowsChain`,
`RestartRepairs`, `PoolsFollowChain`, `ComesBack`, and the counterexample to
`Reconnects`. `HelpersAgree` is about single calls on small arguments, and the
counterexample to `ShowsContractPrice` is one behaviour. The processes' starts
(`Processes`) have no other property.

## Not modelled

- The contract libraries (SafeMath, SafeErc20, Address), copies of public ones,
  whose reverts are guards, and interfaces.
- AddressPrivileges' set of minters: the pool is taken to be one.
- `SavePlgrPrice`, the main net's twin of `SavePlgrPriceTestNet`, whose calls are
  commented out (`task.go:29`, `40`).
- Generated bindings but for the calls the jobs make, which answer what the chain
  has at the block of the call; `bscPledgeOracleMainNetToken.go`, of which one
  setter is used, in `SavePlgrPriceTestNet`.
- The listener's repository and decoder, which nothing calls.
- Configuration, logging, CORS, static files: no state that another part depends on.
- Subtractions of many, divisions, codes, days and other times, hashing, file and
  list helpers, and the uniqueness check of the validators, which nothing calls.
- Gas, transaction fees and blocks that are reorganised are outside the sources.
