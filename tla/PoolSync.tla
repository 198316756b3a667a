------------------------------ MODULE PoolSync ------------------------------
(***************************************************************************)
(* The task process's copy of the pools: a job that runs every two minutes  *)
(* reads each pool's base and data records from the chain and saves them to *)
(* the tables poolbases and pooldata, unless a fingerprint in redis says    *)
(* that they were saved before.                                             *)
(*                                                                          *)
(* schedule/services/poolService.go, models/pool{Base,Data}.go.  gocron     *)
(* starts a run whether or not the previous one has ended; a run is cut at  *)
(* each call to the chain, redis or MySQL.  A pool on the chain is a        *)
(* version: the contract changes a pool's data record only together with    *)
(* its base record (settle, finish and liquidate also move its state), so   *)
(* one number counts the changes of both, and those of the token            *)
(* information that the base record carries.                                *)
(***************************************************************************)
EXTENDS Redis

CONSTANTS
  Runs,         \* runs of the job that may overlap
  MaxPools, MaxVersion,
  Faults,       \* calls that may fail
  Limits        \* bounds of a behaviour: the pools the contract gets, the failures,
                \* restarts and overlaps in all, and whether there are overlaps

Calls == {"dial", "fee", "base", "data", "get", "set", "select", "create", "update"}
Pools == 1..MaxPools
PoolKeys == {"base_info", "data_info"} \X Pools

ASSUME PoolSyncAssumption ==
  /\ MaxPools \in Nat /\ MaxVersion \in Nat /\ Faults \subseteq Calls
  /\ Limits \subseteq [pools : 0..MaxPools, events : Nat, overlaps : BOOLEAN]
ASSUME PoolKeysAssumption == PoolKeys \subseteq Keys

VARIABLES
  chain,      \* the version of each pool the contract has
  poolbases, pooldata,   \* the rows of each pool, in the order of their ids
  redis,
  run,        \* the state of each run
  limit, events,
  overlapped, \* history: have two runs been under way at once?
  failed      \* history: has a call failed?

tables == <<poolbases, pooldata>>
vars == <<chain, tables, redis, run, limit, events, overlapped, failed>>

Versions == 0..MaxVersion

\* A pool's base record: the version that was read, and whether the fees could
\* be read too (a fee that could not is saved as "<nil>").
BaseInfo == [version : Versions, fees : BOOLEAN]

\* What is fingerprinted: saving a base record stamps it with the time, and a
\* stamped record is like no other.
Fingerprint == [base : BaseInfo, stamped : BOOLEAN]
samePrint(a, b) == a = b /\ ~a.stamped

\* i counts the pools of the round, last is the contract's number of pools.
idle == [pc |-> "idle", i |-> 1, last |-> 0, data |-> 0,
         print |-> [base |-> [version |-> 0, fees |-> FALSE], stamped |-> FALSE]]

\* 60*30 seconds, the unit of the model's clock.
alive == 1

Init ==
  /\ chain = <<>>
  /\ poolbases = [p \in Pools |-> <<>>] /\ pooldata = [p \in Pools |-> <<>>]
  /\ redis = emptied
  /\ run = [r \in Runs |-> idle]
  /\ limit \in Limits /\ events = 0 /\ overlapped = FALSE /\ failed = FALSE

-----------------------------------------------------------------------------

Run(r, s) == run' = [run EXCEPT ![r] = s]
Goto(r, pc) == Run(r, [run[r] EXCEPT !.pc = pc])

\* The loop's next turn, or its end.
Continue(r) ==
  IF run[r].i < run[r].last
  THEN Run(r, [run[r] EXCEPT !.i = @ + 1, !.pc = "base", !.print.stamped = FALSE])
  ELSE Run(r, idle)

Quiet == UNCHANGED <<chain, limit, events, overlapped, failed>>
Read == Quiet /\ UNCHANGED <<tables, redis>>
Event == events < limit.events /\ events' = events + 1 /\ UNCHANGED limit
Fail(call) ==
  /\ call \in Faults /\ Event /\ failed' = TRUE
  /\ UNCHANGED <<chain, tables, redis, overlapped>>

baseKey(r) == <<"base_info", run[r].i>>
dataKey(r) == <<"data_info", run[r].i>>

\* The calls of the generated binding: what the contract says at the block of the
\* call.  A fee that cannot be read comes as a nil pointer with the error.
PoolLength == Len(chain)
PoolBaseInfoOf(p) == chain[p]
PoolDataInfoOf(p) == chain[p]
LendFee(answers) == IF answers THEN "fee" ELSE "nil"
BorrowFee(answers) == IF answers THEN "fee" ELSE "nil"

\* ethclient.Dial, the fees and the number of pools.  The errors of the fees
\* are overwritten before they are looked at.
Begin(r, answers) ==
  Run(r, IF PoolLength = 0 THEN idle
         ELSE [idle EXCEPT !.pc = "base", !.last = PoolLength,
                           !.print.base.fees = "nil" \notin {BorrowFee(answers), LendFee(answers)}])

alone == \A q \in Runs : run[q].pc = "idle"

UpdatePoolInfo(r) ==
  /\ run[r].pc = "idle"
  /\ \/ alone /\ Begin(r, TRUE) /\ Read
     \/ alone /\ Begin(r, FALSE) /\ Fail("fee")
     \/ alone /\ UNCHANGED run /\ Fail("dial")
     \/ /\ ~alone /\ limit.overlaps /\ Event /\ overlapped' = TRUE
        /\ Begin(r, TRUE)
        /\ UNCHANGED <<chain, tables, redis, failed>>

\* PoolBaseInfo of the next pool; one that cannot be read is left for another
\* round.  The tokens' information comes from GetTokenInfo.
PoolBaseInfo(r) ==
  /\ run[r].pc = "base"
  /\ \/ Run(r, [run[r] EXCEPT !.pc = "basePrint", !.print.base.version = PoolBaseInfoOf(run[r].i)]) /\ Read
     \/ Continue(r) /\ Fail("base")

\* GetPoolMd5: an error of redis reads like an absent key.
GetPoolMd5(r, key, save, skip) ==
  \/ LET got == RedisGet(redis, key)
     IN  Goto(r, IF got.ok /\ samePrint(got.reply[2], run[r].print) THEN skip ELSE save) /\ Read
  \/ Goto(r, save) /\ Fail("get")

CheckBase(r) == run[r].pc = "basePrint" /\ GetPoolMd5(r, baseKey(r), "findBase", "data")

\* A faulty save takes every error for a missing row.
FindBaseOrCreate(r) ==
  /\ run[r].pc = "findBase"
  /\ \/ Goto(r, IF poolbases[run[r].i] = <<>> THEN "createBase" ELSE "updateBase") /\ Read
     \/ Goto(r, "createBase") /\ Fail("select")

\* SavePoolBase: the row is looked for, created if there is none, and updated.
\* An error ends the save, never the round.  SaveTokenInfo comes first.
FindBase(r) ==
  /\ run[r].pc = "findBase"
  /\ \/ Goto(r, IF poolbases[run[r].i] = <<>> THEN "createBase" ELSE "updateBase") /\ Read
     \/ Goto(r, "setBase") /\ Fail("select")

Stamped(r, pc) == Run(r, [run[r] EXCEPT !.pc = pc, !.print.stamped = TRUE])

\* The Updates that follow a Create is limited to the row created, whose id the
\* record now has, and leaves it as it is.
CreateBase(r) ==
  /\ run[r].pc = "createBase"
  /\ Stamped(r, "setBase")
  /\ \/ /\ poolbases' = [poolbases EXCEPT ![run[r].i] = Append(@, run[r].print.base)]
        /\ Quiet /\ UNCHANGED <<pooldata, redis>>
     \/ Fail("create")

UpdateBase(r) ==
  /\ run[r].pc = "updateBase"
  /\ Stamped(r, "setBase")
  /\ \/ /\ poolbases' = [poolbases EXCEPT ![run[r].i] = [n \in DOMAIN @ |-> run[r].print.base]]
        /\ Quiet /\ UNCHANGED <<pooldata, redis>>
     \/ Fail("update")

SavePoolBase(r) == FindBase(r) \/ CreateBase(r) \/ UpdateBase(r)

\* A faulty round leaves the fingerprint in redis for ever.
SetBasePrintForever(r) ==
  /\ run[r].pc = "setBase"
  /\ Goto(r, "data")
  /\ \/ /\ redis' = RedisSet(redis, baseKey(r), [run[r].print EXCEPT !.stamped = FALSE], 0).db
        /\ Quiet /\ UNCHANGED tables
     \/ Fail("set")

\* The fingerprint is written whether or not the record was saved, and it is
\* the one taken before it was stamped.
SetBasePrint(r) ==
  /\ run[r].pc = "setBase"
  /\ Goto(r, "data")
  /\ \/ /\ redis' = RedisSet(redis, baseKey(r), [run[r].print EXCEPT !.stamped = FALSE], alive).db
        /\ Quiet /\ UNCHANGED tables
     \/ Fail("set")

\* A faulty round saves the data of the version before.
PoolDataInfoBefore(r) ==
  /\ run[r].pc = "data"
  /\ \/ \E v \in {chain[run[r].i], chain[run[r].i] - 1} \cap Versions :
          Run(r, [run[r] EXCEPT !.pc = "dataPrint", !.data = v]) /\ Read
     \/ Continue(r) /\ Fail("data")

\* PoolDataInfo of the same pool, in a call, and perhaps at a block, of its own.
PoolDataInfo(r) ==
  /\ run[r].pc = "data"
  /\ \/ Run(r, [run[r] EXCEPT !.pc = "dataPrint", !.data = PoolDataInfoOf(run[r].i)]) /\ Read
     \/ Continue(r) /\ Fail("data")

\* The data record's fingerprint is the base record's too, which has been
\* stamped if it was saved in this turn.
CheckData(r) ==
  /\ run[r].pc = "dataPrint"
  /\ \/ LET got == RedisGet(redis, dataKey(r))
        IN  /\ IF got.ok /\ samePrint(got.reply[2], run[r].print)
               THEN Continue(r) ELSE Goto(r, "findData")
            /\ Read
     \/ Goto(r, "findData") /\ Fail("get")

\* SavePoolData, like SavePoolBase.
FindData(r) ==
  /\ run[r].pc = "findData"
  /\ \/ Goto(r, IF pooldata[run[r].i] = <<>> THEN "createData" ELSE "updateData") /\ Read
     \/ Goto(r, "setData") /\ Fail("select")

CreateData(r) ==
  /\ run[r].pc = "createData"
  /\ Goto(r, "setData")
  /\ \/ /\ pooldata' = [pooldata EXCEPT ![run[r].i] = Append(@, run[r].data)]
        /\ Quiet /\ UNCHANGED <<poolbases, redis>>
     \/ Fail("create")

UpdateData(r) ==
  /\ run[r].pc = "updateData"
  /\ Goto(r, "setData")
  /\ \/ /\ pooldata' = [pooldata EXCEPT ![run[r].i] = [n \in DOMAIN @ |-> run[r].data]]
        /\ Quiet /\ UNCHANGED <<poolbases, redis>>
     \/ Fail("update")

SavePoolData(r) == FindData(r) \/ CreateData(r) \/ UpdateData(r)

SetDataPrint(r) ==
  /\ run[r].pc = "setData"
  /\ Continue(r)
  /\ \/ /\ redis' = RedisSet(redis, dataKey(r), run[r].print, alive).db
        /\ Quiet /\ UNCHANGED tables
     \/ Fail("set")

-----------------------------------------------------------------------------
(* The world around the job.                                                *)

\* External: a pool is created, or a pool changes.
CreatePool ==
  /\ Len(chain) < limit.pools
  /\ chain' = Append(chain, 0)
  /\ UNCHANGED <<tables, redis, run, limit, events, overlapped, failed>>

ChangePool(p) ==
  /\ p \in DOMAIN chain /\ chain[p] < MaxVersion
  /\ chain' = [chain EXCEPT ![p] = @ + 1]
  /\ UNCHANGED <<tables, redis, run, limit, events, overlapped, failed>>

\* External: half an hour has passed since the key was written.
Expire(key) ==
  /\ redis[key] # none /\ redis[key].ttl # Forever
  /\ redis' = put(redis, key, none)
  /\ UNCHANGED <<chain, tables, run, limit, events, overlapped, failed>>

\* A faulty start keeps the redis database.
RestartKeeping ==
  /\ Event
  /\ run' = [r \in Runs |-> idle]
  /\ UNCHANGED <<chain, tables, redis, overlapped, failed>>

\* The process ends at any point and is started again: Task() flushes redis
\* and no run is left.
Restart ==
  /\ Event
  /\ redis' = RedisFlushDB(redis).db
  /\ run' = [r \in Runs |-> idle]
  /\ UNCHANGED <<chain, tables, overlapped, failed>>

Step(r) ==
  \/ PoolBaseInfo(r) \/ CheckBase(r) \/ SavePoolBase(r) \/ SetBasePrint(r)
  \/ PoolDataInfo(r) \/ CheckData(r) \/ SavePoolData(r) \/ SetDataPrint(r)

Next ==
  \/ \E r \in Runs : UpdatePoolInfo(r) \/ Step(r)
  \/ CreatePool \/ \E p \in Pools : ChangePool(p)
  \/ \E key \in PoolKeys : Expire(key)
  \/ Restart

\* gocron starts the job again every two minutes, no call hangs for ever, and
\* time passes in redis.
Fairness ==
  /\ \A r \in Runs : WF_vars(UpdatePoolInfo(r)) /\ WF_vars(Step(r))
  /\ \A key \in PoolKeys : WF_vars(Expire(key))

Spec == Init /\ [][Next]_vars /\ Fairness

-----------------------------------------------------------------------------
(* Properties.                                                              *)

RunState == [pc : {"idle", "base", "basePrint", "findBase", "createBase", "updateBase",
                   "setBase", "data", "dataPrint", "findData", "createData", "updateData",
                   "setData"},
             i : 1..(MaxPools + 1), last : 0..MaxPools, data : Versions, print : Fingerprint]

TypeOK ==
  /\ chain \in Seq(Versions) /\ Len(chain) <= MaxPools
  /\ poolbases \in [Pools -> Seq(BaseInfo)] /\ pooldata \in [Pools -> Seq(Versions)]
  /\ redis \in [Keys -> {none} \cup [type : {"string"}, value : {"json"} \X Fingerprint,
                                    ttl : {alive}]]
  /\ run \in [Runs -> RunState]
  /\ \A r \in Runs : run[r].last <= Len(chain) /\ (run[r].pc = "idle" \/ run[r].i <= run[r].last)
  /\ limit \in Limits /\ events \in 0..limit.events /\ overlapped \in BOOLEAN /\ failed \in BOOLEAN

\* Nothing but SavePoolBase's and SavePoolData's look before they create keeps
\* a pool's rows apart (the tables have no unique key): as long as no two runs
\* have overlapped there is one row, whatever fails and wherever the process
\* stops.
OneRowPerPool ==
  ~overlapped => \A p \in Pools : Len(poolbases[p]) <= 1 /\ Len(pooldata[p]) <= 1

\* Between rounds without failure or overlap, a fingerprint in redis is that of
\* the row in poolbases, so skipping a pool loses nothing; a restart, which can
\* come between the row and its fingerprint, must forget the fingerprint.
PrintsDescribeRows ==
  alone /\ ~overlapped /\ ~failed =>
    \A p \in Pools : redis[<<"base_info", p>>] # none =>
      poolbases[p] = <<redis[<<"base_info", p>>].value[2].base>>

\* Between rounds without failure, overlap or restart, the data shown with a pool is
\* not older than its base record: a pool shown as settled has its settled
\* amounts.  The two are read in two calls and the data is guarded by the
\* base's fingerprint.
DataNotBehind ==
  alone /\ events = 0 =>
    \A p \in Pools : poolbases[p] # <<>> =>
      pooldata[p] # <<>> /\ pooldata[p][1] >= poolbases[p][1].version

\* Though rounds overlap, saves fail and their fingerprints are written all
\* the same, every row ends up with what the contract has, fees included, once
\* the contract's pools stop changing: the fingerprints expire.
PoolsFollowChain ==
  <>[](\A p \in DOMAIN chain :
         /\ poolbases[p] # <<>> /\ pooldata[p] # <<>>
         /\ \A n \in DOMAIN poolbases[p] : poolbases[p][n] = [version |-> chain[p], fees |-> TRUE]
         /\ \A n \in DOMAIN pooldata[p] : pooldata[p][n] = chain[p])
=============================================================================
