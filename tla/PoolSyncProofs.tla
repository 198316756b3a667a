--------------------------- MODULE PoolSyncProofs ---------------------------
(***************************************************************************)
(* The rows of poolbases and pooldata, for any number of runs, pools and    *)
(* versions, whatever fails and wherever the task process stops: as long as *)
(* rounds have not overlapped a pool has one row, and as long as nothing    *)
(* has failed either a fingerprint is that of the row it stands for.        *)
(***************************************************************************)
EXTENDS PoolSync, SequenceTheorems, TLAPS

\* Rounds that do not overlap are under way one at a time.
OneRun ==
  ~overlapped => \A q, r \in Runs : run[q].pc # "idle" /\ run[r].pc # "idle" => q = r

\* What a save found when it looked is still so when it creates or updates.
AsFound ==
  ~overlapped => \A r \in Runs :
    /\ run[r].pc = "createBase" => poolbases[run[r].i] = <<>>
    /\ run[r].pc = "updateBase" => poolbases[run[r].i] # <<>>
    /\ run[r].pc = "createData" => pooldata[run[r].i] = <<>>

\* A fingerprint is that of the row, but between the save of the row and that
\* of the fingerprint, when the row is that of the round's record.
PrintOf(p) == redis[<<"base_info", p>>].value[2].base
Saving(p) == \E r \in Runs : run[r].pc = "setBase" /\ run[r].i = p
PrintOfRow ==
  ~overlapped /\ ~failed =>
    /\ \A p \in Pools : redis[<<"base_info", p>>] # none /\ ~Saving(p) => poolbases[p] = <<PrintOf(p)>>
    /\ \A r \in Runs : run[r].pc = "setBase" => poolbases[run[r].i] = <<run[r].print.base>>

IInv == TypeOK /\ OneRun /\ AsFound /\ OneRowPerPool /\ PrintOfRow

\* A row of poolbases is not ahead of the contract, which never goes back.
NotAhead ==
  \A p \in Pools : poolbases[p] # <<>> => p \in DOMAIN chain /\ poolbases[p][1].version <= chain[p]

\* What a run has read of its pool: a base record the contract has had, and data
\* not older than the row of the base record.
ReadInOrder(s) ==
  /\ s.pc \in {"basePrint", "findBase", "createBase", "updateBase"} => s.print.base.version <= chain[s.i]
  /\ s.pc \in {"dataPrint", "findData", "createData", "updateData"} =>
       (poolbases[s.i] # <<>> => s.data >= poolbases[s.i][1].version)
  /\ s.pc = "updateData" => pooldata[s.i] # <<>>

\* The data of a pool is not older than its base record, unless a run has saved
\* the base record, so that no fingerprint is like the record's, and will save
\* the data.
DataFresh(p) == pooldata[p] # <<>> /\ pooldata[p][1] >= poolbases[p][1].version
WillSave(s) ==
  \/ s.pc \in {"setBase", "data", "dataPrint"} /\ s.print.stamped
  \/ s.pc \in {"findData", "createData", "updateData"}
DataComes ==
  \A p \in Pools : poolbases[p] # <<>> =>
    DataFresh(p) \/ \E r \in Runs : run[r].i = p /\ WillSave(run[r])

InOrder ==
  events = 0 => ~overlapped /\ NotAhead /\ (\A r \in Runs : ReadInOrder(run[r])) /\ DataComes

-----------------------------------------------------------------------------
(* The lemmas.                                                              *)

\* TypeOK by parts: the world, what is stored, and the runs.
Prints == {none} \cup [type : {"string"}, value : {"json"} \X Fingerprint, ttl : {alive}]

StoreOK ==
  /\ poolbases \in [Pools -> Seq(BaseInfo)] /\ pooldata \in [Pools -> Seq(Versions)]
  /\ redis \in [Keys -> Prints]

WorldOK ==
  /\ chain \in Seq(Versions) /\ Len(chain) <= MaxPools
  /\ limit \in Limits /\ events \in 0..limit.events /\ overlapped \in BOOLEAN /\ failed \in BOOLEAN

InRound(s) == s \in RunState /\ s.last <= Len(chain) /\ (s.pc = "idle" \/ s.i <= s.last)
RunsOK == run \in [Runs -> RunState] /\ \A r \in Runs : InRound(run[r])

\* The type invariant, by what an action disturbs: stores, world, runs.
LEMMA Parts == TypeOK <=> StoreOK /\ WorldOK /\ RunsOK
BY DEF TypeOK, StoreOK, WorldOK, RunsOK, Prints, InRound

\* An idle run has the state of none at work.
LEMMA Ends == idle \in RunState /\ idle.pc = "idle" /\ idle.last = 0 /\ idle.i = 1
<1>1. /\ 1 \in 1..(MaxPools + 1) /\ 0 \in 0..MaxPools /\ 0 \in Versions
      /\ [base |-> [version |-> 0, fees |-> FALSE], stamped |-> FALSE] \in Fingerprint
  BY PoolSyncAssumption DEF Versions, Fingerprint, BaseInfo
<1> QED
  BY <1>1 DEF idle, RunState

\* The pool of a run that is under way is one of the contract's.
LEMMA AtPool ==
  ASSUME TypeOK, NEW r \in Runs, run[r].pc # "idle"
  PROVE  /\ run[r].i \in Pools /\ run[r].i \in DOMAIN chain /\ chain[run[r].i] \in Versions
         /\ run[r] \in RunState /\ InRound(run[r])
         /\ baseKey(r) \in Keys /\ dataKey(r) \in Keys
<1>1. run[r] \in RunState /\ InRound(run[r]) /\ run[r].last \in 0..MaxPools /\ run[r].i \in 1..(MaxPools + 1)
  BY DEF TypeOK, InRound, RunState
<1>2. /\ Len(chain) \in Nat /\ DOMAIN chain = 1..Len(chain) /\ Len(chain) <= MaxPools
      /\ \A n \in 1..Len(chain) : chain[n] \in Versions
  BY DEF TypeOK
<1>3. run[r].i <= run[r].last /\ run[r].last <= Len(chain)
  BY <1>1 DEF InRound
<1>4. run[r].i \in Pools /\ run[r].i \in DOMAIN chain
  BY <1>1, <1>2, <1>3, PoolSyncAssumption DEF Pools
<1> QED
  BY <1>1, <1>2, <1>4, PoolKeysAssumption DEF baseKey, dataKey, PoolKeys

\* A run goes on to its state s.
Moves(r, s) == run' = [run EXCEPT ![r] = s] /\ InRound(s)

\* Going on to another call keeps a run's pool, fingerprint and data.
LEMMA Gone ==
  ASSUME TypeOK, NEW r \in Runs, run[r].pc # "idle",
         NEW pc \in {"base", "basePrint", "findBase", "createBase", "updateBase", "setBase", "data",
                     "dataPrint", "findData", "createData", "updateData", "setData"},
         Goto(r, pc)
  PROVE  \E s : /\ Moves(r, s) /\ s.pc = pc /\ s.i = run[r].i
                /\ s.print = run[r].print /\ s.data = run[r].data
<1> DEFINE s == [run[r] EXCEPT !.pc = pc]
<1>1. run[r] \in RunState /\ InRound(run[r])
  BY AtPool
<1>2. /\ s \in RunState /\ s.pc = pc /\ s.i = run[r].i /\ s.last = run[r].last
      /\ s.print = run[r].print /\ s.data = run[r].data
  BY <1>1 DEF RunState
<1>3. run' = [run EXCEPT ![r] = s]
  BY DEF Goto, Run
<1> HIDE DEF s
<1> QED
  BY <1>1, <1>2, <1>3 DEF Moves, InRound

\* Leaving a pool ends the round or takes the next pool.
LEMMA Continued ==
  ASSUME TypeOK, NEW r \in Runs, run[r].pc # "idle", Continue(r)
  PROVE  \E s : Moves(r, s) /\ s.pc \in {"base", "idle"}
<1>1. run[r] \in RunState /\ InRound(run[r])
  BY AtPool
<1>2. CASE run[r].i < run[r].last
  <2> DEFINE s == [run[r] EXCEPT !.i = @ + 1, !.pc = "base", !.print.stamped = FALSE]
  <2>1. run[r].i + 1 \in 1..(MaxPools + 1) /\ run[r].i + 1 <= run[r].last
    BY <1>1, <1>2, PoolSyncAssumption DEF RunState
  <2>2. [run[r].print EXCEPT !.stamped = FALSE] \in Fingerprint
    BY <1>1 DEF RunState, Fingerprint
  <2>3. s \in RunState /\ s.pc = "base" /\ s.i = run[r].i + 1 /\ s.last = run[r].last
    BY <1>1, <2>1, <2>2 DEF RunState
  <2>4. run' = [run EXCEPT ![r] = s]
    BY <1>2 DEF Continue, Run
  <2> HIDE DEF s
  <2> QED
    BY <1>1, <2>1, <2>3, <2>4 DEF Moves, InRound
<1>3. CASE ~(run[r].i < run[r].last)
  <2>1. run' = [run EXCEPT ![r] = idle] /\ 0 <= Len(chain)
    BY <1>3 DEF Continue, Run, TypeOK
  <2> QED
    BY <2>1, Ends DEF Moves, InRound
<1> QED
  BY <1>2, <1>3

\* What a move of one run leaves: the others, and the types.
LEMMA Others ==
  ASSUME TypeOK, NEW r \in Runs, NEW s, Moves(r, s)
  PROVE  /\ run'[r] = s /\ \A q \in Runs \ {r} : run'[q] = run[q]
         /\ chain' = chain => RunsOK'
BY Parts DEF Moves, RunsOK, InRound

\* A run that moves on, and changes nothing but what is stored of its pool, keeps
\* the invariant if it keeps what the invariant says of that pool.
LEMMA Kept ==
  ASSUME IInv, NEW r \in Runs, NEW s, run[r].pc # "idle", Moves(r, s),
         UNCHANGED <<chain, limit, overlapped>>, StoreOK',
         events' \in 0..limit.events, failed' \in BOOLEAN, failed => failed',
         \A p \in Pools \ {run[r].i} :
           /\ poolbases'[p] = poolbases[p] /\ pooldata'[p] = pooldata[p]
           /\ redis'[<<"base_info", p>>] = redis[<<"base_info", p>>],
         ~overlapped =>
           /\ s.pc = "createBase" => poolbases'[s.i] = <<>>
           /\ s.pc = "updateBase" => poolbases'[s.i] # <<>>
           /\ s.pc = "createData" => pooldata'[s.i] = <<>>
           /\ Len(poolbases'[run[r].i]) <= 1 /\ Len(pooldata'[run[r].i]) <= 1,
         ~overlapped /\ ~failed' =>
           /\ s.pc = "setBase" => s.i = run[r].i /\ poolbases'[s.i] = <<s.print.base>>
           /\ redis'[<<"base_info", run[r].i>>] # none /\ s.pc # "setBase" =>
                poolbases'[run[r].i] = <<redis'[<<"base_info", run[r].i>>].value[2].base>>
  PROVE  IInv'
<1> USE DEF IInv
<1>1. run'[r] = s /\ \A q \in Runs \ {r} : run'[q] = run[q]
  BY Others
<1>2. ~overlapped => \A q \in Runs \ {r} : run[q].pc = "idle"
  BY DEF OneRun
<1>3. TypeOK'
  <2>1. WorldOK'
    BY Parts DEF WorldOK
  <2>2. RunsOK'
    BY Others
  <2> QED
    BY <2>1, <2>2 DEF TypeOK, StoreOK, WorldOK, RunsOK, Prints, InRound
<1>4. OneRun'
  BY <1>1, <1>2 DEF OneRun
<1>5. AsFound'
  <2> SUFFICES ASSUME ~overlapped, NEW q \in Runs
               PROVE  /\ run'[q].pc = "createBase" => poolbases'[run'[q].i] = <<>>
                      /\ run'[q].pc = "updateBase" => poolbases'[run'[q].i] # <<>>
                      /\ run'[q].pc = "createData" => pooldata'[run'[q].i] = <<>>
    BY DEF AsFound
  <2>1. CASE q = r
    BY <1>1, <2>1
  <2>2. CASE q # r
    BY <1>1, <1>2, <2>2
  <2> QED
    BY <2>1, <2>2
<1>6. OneRowPerPool'
  BY DEF OneRowPerPool
<1>7. PrintOfRow'
  <2> SUFFICES ASSUME ~overlapped, ~failed'
               PROVE  /\ \A p \in Pools : redis'[<<"base_info", p>>] # none /\ ~Saving(p)' =>
                           poolbases'[p] = <<PrintOf(p)'>>
                      /\ \A q \in Runs : run'[q].pc = "setBase" => poolbases'[run'[q].i] = <<run'[q].print.base>>
    BY DEF PrintOfRow
  <2>1. ASSUME NEW q \in Runs, run'[q].pc = "setBase"
        PROVE  poolbases'[run'[q].i] = <<run'[q].print.base>>
    BY <1>1, <1>2, <2>1
  <2>2. ASSUME NEW p \in Pools, redis'[<<"base_info", p>>] # none, ~Saving(p)'
        PROVE  poolbases'[p] = <<PrintOf(p)'>>
    <3>1. CASE p = run[r].i
      <4>1. s.pc # "setBase"
        BY <1>1, <2>2, <3>1 DEF Saving
      <4> QED
        BY <2>2, <3>1, <4>1 DEF PrintOf
    <3>2. CASE p # run[r].i
      <4>1. ~Saving(p)
        BY <1>2, <3>2 DEF Saving
      <4> QED
        BY <2>2, <3>2, <4>1 DEF PrintOfRow, PrintOf
    <3> QED
      BY <3>1, <3>2
  <2> QED
    BY <2>1, <2>2
<1> QED
  BY <1>3, <1>4, <1>5, <1>6, <1>7

\* A step that stores nothing, if it neither comes to the fingerprint nor leaves
\* it but by a failure.
LEMMA ReadKept ==
  ASSUME IInv, NEW r \in Runs, NEW s, run[r].pc # "idle", Moves(r, s),
         UNCHANGED <<chain, limit, overlapped, tables, redis>>,
         events' \in 0..limit.events, failed' \in BOOLEAN, failed => failed',
         s.pc = "createBase" => poolbases[s.i] = <<>>,
         s.pc = "updateBase" => poolbases[s.i] # <<>>,
         s.pc = "createData" => pooldata[s.i] = <<>>,
         run[r].pc = "setBase" \/ s.pc = "setBase" => failed'
  PROVE  IInv'
<1> USE DEF IInv
<1>1. run[r].i \in Pools
  BY AtPool
<1>2. UNCHANGED <<poolbases, pooldata, redis>>
  BY DEF tables
<1>3. StoreOK'
  BY <1>2, Parts DEF StoreOK
<1>4. ~overlapped => Len(poolbases[run[r].i]) <= 1 /\ Len(pooldata[run[r].i]) <= 1
  BY <1>1 DEF OneRowPerPool
<1>5. ASSUME ~overlapped, ~failed', redis[<<"base_info", run[r].i>>] # none
      PROVE  poolbases[run[r].i] = <<redis[<<"base_info", run[r].i>>].value[2].base>>
  <2>1. ~Saving(run[r].i)
    BY <1>5 DEF Saving, OneRun
  <2> QED
    BY <1>1, <1>5, <2>1 DEF PrintOfRow, PrintOf
<1> QED
  BY <1>2, <1>3, <1>4, <1>5, Kept

\* What a call that reads or fails leaves alone.
Silent ==
  /\ UNCHANGED <<chain, limit, overlapped, tables, redis>>
  /\ events' \in 0..limit.events /\ failed' \in BOOLEAN /\ (failed => failed')

\* A read changes no store, and a failed call changes none and is recorded.
LEMMA Silence ==
  ASSUME TypeOK
  PROVE  (Read => Silent) /\ \A call : Fail(call) => Silent /\ failed'
<1>1. limit.events \in Nat /\ events \in 0..limit.events /\ failed \in BOOLEAN
  BY PoolSyncAssumption DEF TypeOK
<1>2. Read => Silent
  BY <1>1 DEF Read, Quiet, Silent
<1>3. ASSUME NEW call, Fail(call)
      PROVE  Silent /\ failed'
  <2>1. events' \in 0..limit.events
    BY <1>1, <1>3 DEF Fail, Event
  <2> QED
    BY <1>3, <2>1 DEF Fail, Event, Silent
<1> QED
  BY <1>2, <1>3

\* The next pool, and a place in the round that a save does not depend on.
LEMMA TurnKept ==
  ASSUME IInv, NEW r \in Runs, run[r].pc # "idle", run[r].pc = "setBase" => failed', Silent,
         \/ Continue(r)
         \/ \E pc \in {"base", "basePrint", "findBase", "data", "dataPrint", "findData", "updateData",
                       "setData"} : Goto(r, pc)
         \/ Goto(r, "setBase") /\ failed'
  PROVE  IInv'
<1>1. PICK s : Moves(r, s) /\ s.pc \notin {"createBase", "updateBase", "createData"}
                 /\ (s.pc = "setBase" => failed')
  <2> USE DEF IInv
  <2>1. CASE Continue(r)
    BY <2>1, Continued
  <2>2. CASE \E pc \in {"base", "basePrint", "findBase", "data", "dataPrint", "findData", "updateData",
                        "setData"} : Goto(r, pc)
    BY <2>2, Gone
  <2>3. CASE Goto(r, "setBase") /\ failed'
    BY <2>3, Gone
  <2> QED
    BY <2>1, <2>2, <2>3
<1> QED
  BY <1>1, ReadKept DEF Silent

\* The calls to the chain, the looks at a fingerprint, and the looks for a row.
LEMMA PoolBaseInfoKept == ASSUME IInv, NEW r \in Runs, PoolBaseInfo(r) PROVE IInv'
<1> USE DEF IInv
<1>1. CASE Continue(r) /\ Fail("base")
  BY <1>1, TurnKept, Silence DEF PoolBaseInfo
<1>2. CASE Read /\ Run(r, [run[r] EXCEPT !.pc = "basePrint", !.print.base.version = PoolBaseInfoOf(run[r].i)])
  <2> DEFINE s == [run[r] EXCEPT !.pc = "basePrint", !.print.base.version = chain[run[r].i]]
  <2>1. run[r].pc = "base" /\ run[r] \in RunState /\ InRound(run[r]) /\ chain[run[r].i] \in Versions
    BY AtPool DEF PoolBaseInfo
  <2>2. [run[r].print EXCEPT !.base.version = chain[run[r].i]] \in Fingerprint
    BY <2>1 DEF RunState, Fingerprint, BaseInfo
  <2>3. s \in RunState /\ s.pc = "basePrint" /\ s.i = run[r].i /\ s.last = run[r].last
    BY <2>1, <2>2 DEF RunState
  <2>4. run' = [run EXCEPT ![r] = s]
    BY <1>2 DEF Run, PoolBaseInfoOf
  <2> HIDE DEF s
  <2>5. Moves(r, s)
    BY <2>1, <2>3, <2>4 DEF Moves, InRound
  <2> QED
    BY <1>2, <2>1, <2>3, <2>5, Silence, ReadKept DEF Silent
<1> QED
  BY <1>1, <1>2 DEF PoolBaseInfo

\* Reading a pool's data and fees (PoolDataInfo).
LEMMA PoolDataInfoKept == ASSUME IInv, NEW r \in Runs, PoolDataInfo(r) PROVE IInv'
<1> USE DEF IInv
<1>1. CASE Continue(r) /\ Fail("data")
  BY <1>1, TurnKept, Silence DEF PoolDataInfo
<1>2. CASE Read /\ Run(r, [run[r] EXCEPT !.pc = "dataPrint", !.data = PoolDataInfoOf(run[r].i)])
  <2> DEFINE s == [run[r] EXCEPT !.pc = "dataPrint", !.data = chain[run[r].i]]
  <2>1. run[r].pc = "data" /\ run[r] \in RunState /\ InRound(run[r]) /\ chain[run[r].i] \in Versions
    BY AtPool DEF PoolDataInfo
  <2>2. s \in RunState /\ s.pc = "dataPrint" /\ s.i = run[r].i /\ s.last = run[r].last
    BY <2>1 DEF RunState
  <2>3. run' = [run EXCEPT ![r] = s]
    BY <1>2 DEF Run, PoolDataInfoOf
  <2> HIDE DEF s
  <2>4. Moves(r, s)
    BY <2>1, <2>2, <2>3 DEF Moves, InRound
  <2> QED
    BY <1>2, <2>1, <2>2, <2>4, Silence, ReadKept DEF Silent
<1> QED
  BY <1>1, <1>2 DEF PoolDataInfo

\* Comparing a fingerprint, of either table (CheckBase, CheckData).
LEMMA ChecksKept == ASSUME IInv, NEW r \in Runs, CheckBase(r) \/ CheckData(r) PROVE IInv'
<1> USE DEF IInv
<1>1. run[r].pc \in {"basePrint", "dataPrint"}
  BY DEF CheckBase, CheckData
<1>2. Silent
  BY Silence DEF CheckBase, CheckData, GetPoolMd5
<1>3. Continue(r) \/ Goto(r, "findBase") \/ Goto(r, "data") \/ Goto(r, "findData")
  BY DEF CheckBase, CheckData, GetPoolMd5
<1> QED
  BY <1>1, <1>2, <1>3, TurnKept

\* Looking for the row of poolbases (FindBase).
LEMMA FindBaseKept == ASSUME IInv, NEW r \in Runs, FindBase(r) PROVE IInv'
<1> USE DEF IInv
<1>1. run[r].pc = "findBase"
  BY DEF FindBase
<1>2. CASE Goto(r, "setBase") /\ Fail("select")
  BY <1>1, <1>2, Silence, TurnKept
<1>3. CASE Read /\ poolbases[run[r].i] = <<>> /\ Goto(r, "createBase")
  <2>1. PICK s : Moves(r, s) /\ s.pc = "createBase" /\ s.i = run[r].i
    BY <1>1, <1>3, Gone
  <2> QED
    BY <1>1, <1>3, <2>1, Silence, ReadKept DEF Silent
<1>4. CASE Read /\ poolbases[run[r].i] # <<>> /\ Goto(r, "updateBase")
  <2>1. PICK s : Moves(r, s) /\ s.pc = "updateBase" /\ s.i = run[r].i
    BY <1>1, <1>4, Gone
  <2> QED
    BY <1>1, <1>4, <2>1, Silence, ReadKept DEF Silent
<1> QED
  BY <1>2, <1>3, <1>4 DEF FindBase

\* Looking for the row of pooldata (FindData).
LEMMA FindDataKept == ASSUME IInv, NEW r \in Runs, FindData(r) PROVE IInv'
<1> USE DEF IInv
<1>1. run[r].pc = "findData"
  BY DEF FindData
<1>2. CASE (Goto(r, "setData") /\ Fail("select")) \/ (Goto(r, "updateData") /\ Read)
  BY <1>1, <1>2, Silence, TurnKept
<1>3. CASE Read /\ pooldata[run[r].i] = <<>> /\ Goto(r, "createData")
  <2>1. PICK s : Moves(r, s) /\ s.pc = "createData" /\ s.i = run[r].i
    BY <1>1, <1>3, Gone
  <2> QED
    BY <1>1, <1>3, <2>1, Silence, ReadKept DEF Silent
<1> QED
  BY <1>2, <1>3 DEF FindData

\* The saves of a base record: a row that was not there is created, the one that
\* was is replaced, and a failure ends the save.
LEMMA Stamps ==
  ASSUME TypeOK, NEW r \in Runs, run[r].pc # "idle", Stamped(r, "setBase")
  PROVE  \E s : /\ Moves(r, s) /\ s.pc = "setBase" /\ s.i = run[r].i
                /\ s.print.base = run[r].print.base /\ s.print.stamped
<1> DEFINE s == [run[r] EXCEPT !.pc = "setBase", !.print.stamped = TRUE]
<1>1. run[r] \in RunState /\ InRound(run[r])
  BY AtPool
<1>2. [run[r].print EXCEPT !.stamped = TRUE] \in Fingerprint
      /\ [run[r].print EXCEPT !.stamped = TRUE].base = run[r].print.base
      /\ [run[r].print EXCEPT !.stamped = TRUE].stamped
  BY <1>1 DEF RunState, Fingerprint
<1>3. /\ s \in RunState /\ s.pc = "setBase" /\ s.i = run[r].i /\ s.last = run[r].last
      /\ s.print.base = run[r].print.base /\ s.print.stamped
  BY <1>1, <1>2 DEF RunState
<1>4. run' = [run EXCEPT ![r] = s]
  BY DEF Stamped, Run
<1> HIDE DEF s
<1> QED
  BY <1>1, <1>3, <1>4 DEF Moves, InRound

\* Writing poolbases, the row of the version that was read (CreateBase, UpdateBase).
LEMMA SaveBaseKept == ASSUME IInv, NEW r \in Runs, CreateBase(r) \/ UpdateBase(r) PROVE IInv'
<1> USE DEF IInv
<1> DEFINE i == run[r].i
           b == run[r].print.base
<1>1. run[r].pc \in {"createBase", "updateBase"} /\ Stamped(r, "setBase")
  BY DEF CreateBase, UpdateBase
<1>2. PICK s : Moves(r, s) /\ s.pc = "setBase" /\ s.i = i /\ s.print.base = b
  BY <1>1, Stamps
<1>3. CASE Fail("create") \/ Fail("update")
  BY <1>1, <1>2, <1>3, Silence, ReadKept DEF Silent
<1>4. CASE Quiet /\ UNCHANGED <<pooldata, redis>> /\ ~(Fail("create") \/ Fail("update"))
  <2>1. i \in Pools /\ b \in BaseInfo
    BY <1>1, AtPool DEF RunState, Fingerprint
  <2> HIDE DEF i, b
  <2>2. poolbases[i] \in Seq(BaseInfo) /\ poolbases \in [Pools -> Seq(BaseInfo)]
    BY <2>1, Parts DEF StoreOK
  <2>3. \E t \in Seq(BaseInfo) : poolbases' = [poolbases EXCEPT ![i] = t] /\ (~overlapped => t = <<b>>)
    <3>1. CASE run[r].pc = "createBase"
      <4>1. poolbases' = [poolbases EXCEPT ![i] = Append(poolbases[i], b)]
        BY <1>4, <3>1 DEF CreateBase, UpdateBase, i, b
      <4>2. Append(poolbases[i], b) \in Seq(BaseInfo)
        BY <2>1, <2>2, AppendProperties
      <4>3. ~overlapped => poolbases[i] = <<>>
        BY <3>1 DEF AsFound, i
      <4>4. Append(<<>>, b) = <<b>>
        OBVIOUS
      <4> QED
        BY <4>1, <4>2, <4>3, <4>4
    <3>2. CASE run[r].pc = "updateBase"
      <4> DEFINE t == [n \in DOMAIN poolbases[i] |-> b]
      <4>1. poolbases' = [poolbases EXCEPT ![i] = t]
        BY <1>4, <3>2 DEF CreateBase, UpdateBase, i, b
      <4>2. DOMAIN poolbases[i] = 1..Len(poolbases[i]) /\ Len(poolbases[i]) \in Nat
        BY <2>2
      <4>3. t \in Seq(BaseInfo) /\ Len(t) = Len(poolbases[i])
        BY <2>1, <4>2, IsASeq
      <4>4. ~overlapped => Len(poolbases[i]) = 1
        <5>1. ~overlapped => poolbases[i] # <<>> /\ Len(poolbases[i]) <= 1
          BY <2>1, <3>2 DEF AsFound, OneRowPerPool, i
        <5>2. \A q \in Seq(BaseInfo) : Len(q) = 0 => q = <<>>
          OBVIOUS
        <5>3. ~overlapped => Len(poolbases[i]) # 0
          BY <5>1, <5>2, <2>2
        <5>4. \A n \in Nat : n # 0 /\ n <= 1 => n = 1
          OBVIOUS
        <5> QED
          BY <5>1, <5>3, <5>4, <4>2
      <4>5. ~overlapped => t = <<b>>
        <5>1. [n \in 1..1 |-> b] = <<b>>
          OBVIOUS
        <5>2. ~overlapped => DOMAIN poolbases[i] = 1..1
          BY <4>2, <4>4
        <5> QED
          BY <5>1, <5>2
      <4> QED
        BY <4>1, <4>3, <4>5
    <3> QED
      BY <1>1, <3>1, <3>2
  <2>4. PICK t \in Seq(BaseInfo) : poolbases' = [poolbases EXCEPT ![i] = t] /\ (~overlapped => t = <<b>>)
    BY <2>3
  <2>5. /\ poolbases'[i] = t /\ \A p \in Pools \ {i} : poolbases'[p] = poolbases[p]
        /\ poolbases' \in [Pools -> Seq(BaseInfo)]
    BY <2>1, <2>2, <2>4
  <2>6. StoreOK'
    BY <1>4, <2>5, Parts DEF StoreOK
  <2>7. UNCHANGED <<chain, limit, overlapped, events, failed, pooldata, redis>>
    BY <1>4 DEF Quiet
  <2>8. events' \in 0..limit.events /\ failed' \in BOOLEAN
    BY <2>7, Parts DEF WorldOK
  <2>9. ~overlapped => Len(poolbases'[i]) <= 1 /\ Len(pooldata'[i]) <= 1 /\ poolbases'[i] = <<b>>
    <3>1. Len(<<b>>) <= 1
      OBVIOUS
    <3>2. ~overlapped => poolbases'[i] = <<b>>
      BY <2>4, <2>5
    <3>3. ~overlapped => Len(pooldata'[i]) <= 1
      BY <2>1, <2>7 DEF OneRowPerPool
    <3> QED
      BY <3>1, <3>2, <3>3
  <2> QED
    BY <1>1, <1>2, <2>5, <2>6, <2>7, <2>8, <2>9, Kept DEF i
<1> QED
  BY <1>3, <1>4 DEF CreateBase, UpdateBase

\* The saves of a data record.
LEMMA SaveDataKept == ASSUME IInv, NEW r \in Runs, CreateData(r) \/ UpdateData(r) PROVE IInv'
<1> USE DEF IInv
<1> DEFINE i == run[r].i
           d == run[r].data
<1>1. run[r].pc \in {"createData", "updateData"} /\ Goto(r, "setData")
  BY DEF CreateData, UpdateData
<1>2. PICK s : Moves(r, s) /\ s.pc = "setData"
  BY <1>1, Gone
<1>3. CASE Fail("create") \/ Fail("update")
  BY <1>1, <1>2, <1>3, Silence, ReadKept DEF Silent
<1>4. CASE Quiet /\ UNCHANGED <<poolbases, redis>> /\ ~(Fail("create") \/ Fail("update"))
  <2>1. i \in Pools /\ d \in Versions
    BY <1>1, AtPool DEF RunState
  <2> HIDE DEF i, d
  <2>2. pooldata[i] \in Seq(Versions) /\ pooldata \in [Pools -> Seq(Versions)]
    BY <2>1, Parts DEF StoreOK
  <2>3. \E t \in Seq(Versions) : pooldata' = [pooldata EXCEPT ![i] = t] /\ (~overlapped => Len(t) <= 1)
    <3>1. CASE run[r].pc = "createData"
      <4>1. pooldata' = [pooldata EXCEPT ![i] = Append(pooldata[i], d)]
        BY <1>4, <3>1 DEF CreateData, UpdateData, i, d
      <4>2. Append(pooldata[i], d) \in Seq(Versions)
        BY <2>1, <2>2, AppendProperties
      <4>3. ~overlapped => pooldata[i] = <<>>
        BY <3>1 DEF AsFound, i
      <4>4. Len(Append(<<>>, d)) <= 1
        OBVIOUS
      <4> QED
        BY <4>1, <4>2, <4>3, <4>4
    <3>2. CASE run[r].pc = "updateData"
      <4> DEFINE t == [n \in DOMAIN pooldata[i] |-> d]
      <4>1. pooldata' = [pooldata EXCEPT ![i] = t]
        BY <1>4, <3>2 DEF CreateData, UpdateData, i, d
      <4>2. DOMAIN pooldata[i] = 1..Len(pooldata[i]) /\ Len(pooldata[i]) \in Nat
        BY <2>2
      <4>3. t \in Seq(Versions) /\ Len(t) = Len(pooldata[i])
        BY <2>1, <4>2, IsASeq
      <4>4. ~overlapped => Len(t) <= 1
        BY <2>1, <4>3 DEF OneRowPerPool
      <4> QED
        BY <4>1, <4>3, <4>4
    <3> QED
      BY <1>1, <3>1, <3>2
  <2>4. PICK t \in Seq(Versions) : pooldata' = [pooldata EXCEPT ![i] = t] /\ (~overlapped => Len(t) <= 1)
    BY <2>3
  <2>5. /\ pooldata'[i] = t /\ \A p \in Pools \ {i} : pooldata'[p] = pooldata[p]
        /\ pooldata' \in [Pools -> Seq(Versions)]
    BY <2>1, <2>2, <2>4
  <2>6. StoreOK'
    BY <1>4, <2>5, Parts DEF StoreOK
  <2>7. UNCHANGED <<chain, limit, overlapped, events, failed, poolbases, redis>>
    BY <1>4 DEF Quiet
  <2>8. events' \in 0..limit.events /\ failed' \in BOOLEAN
    BY <2>7, Parts DEF WorldOK
  <2>9. ~overlapped => Len(poolbases'[i]) <= 1 /\ Len(pooldata'[i]) <= 1
    BY <2>1, <2>4, <2>5, <2>7 DEF OneRowPerPool
  <2>10. ASSUME ~overlapped, ~failed, redis[<<"base_info", i>>] # none
         PROVE  poolbases[i] = <<PrintOf(i)>>
    <3>1. ~Saving(i)
      BY <1>1, <2>10 DEF Saving, OneRun
    <3> QED
      BY <2>1, <2>10, <3>1 DEF PrintOfRow
  <2> QED
    BY <1>1, <1>2, <2>5, <2>6, <2>7, <2>8, <2>9, <2>10, Kept DEF i, PrintOf
<1> QED
  BY <1>3, <1>4 DEF CreateData, UpdateData

\* A fingerprint that is written is one, and under its key.
LEMMA Printed ==
  ASSUME TypeOK, NEW key \in Keys, NEW f \in Fingerprint
  PROVE  /\ RedisSet(redis, key, f, alive).db \in [Keys -> Prints]
         /\ RedisSet(redis, key, f, alive).db[key].value[2] = f
         /\ \A k \in Keys \ {key} : RedisSet(redis, key, f, alive).db[k] = redis[k]
<1> DEFINE e == entry("string", json(f), alive)
<1>1. RedisSet(redis, key, f, alive).db = [redis EXCEPT ![key] = e]
  <2>1. lifetime(alive) = alive
    BY DEF lifetime, alive
  <2> QED
    BY <2>1 DEF RedisSet, done, put
<1>2. e \in Prints /\ e.value[2] = f
  BY DEF Prints, entry, json
<1>3. redis \in [Keys -> Prints]
  BY Parts DEF StoreOK
<1> HIDE DEF e
<1> QED
  BY <1>1, <1>2, <1>3

\* Writing the base fingerprint, after its row (SetBasePrint).
LEMMA BasePrintKept == ASSUME IInv, NEW r \in Runs, SetBasePrint(r) PROVE IInv'
<1> USE DEF IInv
<1> DEFINE i == run[r].i
           f == [run[r].print EXCEPT !.stamped = FALSE]
<1>1. run[r].pc = "setBase" /\ Goto(r, "data")
  BY DEF SetBasePrint
<1>2. PICK s : Moves(r, s) /\ s.pc = "data"
  BY <1>1, Gone
<1>3. CASE Fail("set")
  BY <1>1, <1>2, <1>3, Silence, ReadKept DEF Silent
<1>4. CASE redis' = RedisSet(redis, baseKey(r), f, alive).db /\ Quiet /\ UNCHANGED tables
  <2>1. i \in Pools /\ baseKey(r) \in Keys /\ run[r] \in RunState
    BY <1>1, AtPool
  <2>2. f \in Fingerprint /\ f.base = run[r].print.base
    BY <2>1 DEF RunState, Fingerprint
  <2> HIDE DEF i, f
  <2>3. /\ redis' \in [Keys -> Prints] /\ redis'[baseKey(r)].value[2] = f
        /\ \A k \in Keys \ {baseKey(r)} : redis'[k] = redis[k]
    BY <1>4, <2>1, <2>2, Printed
  <2>4. \A p \in Pools : <<"base_info", p>> \in Keys
    BY PoolKeysAssumption DEF PoolKeys
  <2>5. /\ redis'[<<"base_info", i>>].value[2] = f
        /\ \A p \in Pools \ {i} : redis'[<<"base_info", p>>] = redis[<<"base_info", p>>]
    BY <2>3, <2>4 DEF baseKey, i
  <2>6. UNCHANGED <<chain, limit, overlapped, events, failed, poolbases, pooldata>>
    BY <1>4 DEF Quiet, tables
  <2>7. StoreOK'
    BY <2>3, <2>6, Parts DEF StoreOK
  <2>8. events' \in 0..limit.events /\ failed' \in BOOLEAN
    BY <2>6, Parts DEF WorldOK
  <2>9. ~overlapped => Len(poolbases'[i]) <= 1 /\ Len(pooldata'[i]) <= 1
    BY <2>1, <2>6 DEF OneRowPerPool
  <2>10. ~overlapped /\ ~failed => poolbases[i] = <<f.base>>
    BY <1>1, <2>2 DEF PrintOfRow, i
  <2> QED
    BY <1>1, <1>2, <2>5, <2>6, <2>7, <2>8, <2>9, <2>10, Kept DEF i
<1> QED
  BY <1>3, <1>4 DEF SetBasePrint

\* Writing the data fingerprint (SetDataPrint).
LEMMA DataPrintKept == ASSUME IInv, NEW r \in Runs, SetDataPrint(r) PROVE IInv'
<1> USE DEF IInv
<1> DEFINE i == run[r].i
<1>1. run[r].pc = "setData" /\ Continue(r)
  BY DEF SetDataPrint
<1>2. PICK s : Moves(r, s) /\ s.pc \in {"base", "idle"}
  BY <1>1, Continued
<1>3. CASE Fail("set")
  BY <1>1, <1>2, <1>3, Silence, ReadKept DEF Silent
<1>4. CASE redis' = RedisSet(redis, dataKey(r), run[r].print, alive).db /\ Quiet /\ UNCHANGED tables
  <2>1. i \in Pools /\ dataKey(r) \in Keys /\ run[r].print \in Fingerprint
    BY <1>1, AtPool DEF RunState
  <2> HIDE DEF i
  <2>2. redis' \in [Keys -> Prints] /\ \A k \in Keys \ {dataKey(r)} : redis'[k] = redis[k]
    BY <1>4, <2>1, Printed
  <2>3. \A p \in Pools : <<"base_info", p>> \in Keys
    BY PoolKeysAssumption DEF PoolKeys
  <2>4. \A p \in Pools : redis'[<<"base_info", p>>] = redis[<<"base_info", p>>]
    BY <2>2, <2>3 DEF dataKey
  <2>5. UNCHANGED <<chain, limit, overlapped, events, failed, poolbases, pooldata>>
    BY <1>4 DEF Quiet, tables
  <2>6. StoreOK'
    BY <2>2, <2>5, Parts DEF StoreOK
  <2>7. events' \in 0..limit.events /\ failed' \in BOOLEAN
    BY <2>5, Parts DEF WorldOK
  <2>8. ~overlapped => Len(poolbases'[i]) <= 1 /\ Len(pooldata'[i]) <= 1
    BY <2>1, <2>5 DEF OneRowPerPool
  <2>9. ASSUME ~overlapped, ~failed, redis[<<"base_info", i>>] # none
        PROVE  poolbases[i] = <<PrintOf(i)>>
    <3>1. ~Saving(i)
      BY <1>1, <2>9 DEF Saving, OneRun
    <3> QED
      BY <2>1, <2>9, <3>1 DEF PrintOfRow
  <2>10. redis'[<<"base_info", i>>] = redis[<<"base_info", i>>]
    BY <2>1, <2>4
  <2> QED
    BY <1>1, <1>2, <2>1, <2>4, <2>5, <2>6, <2>7, <2>8, <2>9, <2>10, Kept DEF i, PrintOf
<1> QED
  BY <1>3, <1>4 DEF SetDataPrint

\* A run that begins while none is under way, or makes the rounds overlap.
LEMMA BeginKept == ASSUME IInv, NEW r \in Runs, UpdatePoolInfo(r) PROVE IInv'
<1> USE DEF IInv
<1>1. run[r].pc = "idle"
  BY DEF UpdatePoolInfo
<1>2. CASE UNCHANGED run /\ Fail("dial")
  <2>1. Silent /\ failed'
    BY <1>2, Silence
  <2> QED
    BY <1>2, <2>1, Parts
    DEF Silent, tables, TypeOK, StoreOK, WorldOK, RunsOK, Prints, InRound, OneRun, AsFound,
        OneRowPerPool, PrintOfRow
<1>3. ASSUME NEW answers \in BOOLEAN, Begin(r, answers), UNCHANGED <<chain, limit, tables, redis>>,
             events' \in 0..limit.events, failed' \in BOOLEAN, failed => failed',
             overlapped' \in BOOLEAN, ~overlapped' => alone /\ ~overlapped
      PROVE  IInv'
  <2>1. PICK s : Moves(r, s) /\ s.pc \in {"base", "idle"}
    <3>1. Len(chain) \in Nat /\ Len(chain) <= MaxPools
      BY DEF TypeOK
    <3>2. CASE Len(chain) = 0
      <4>1. run' = [run EXCEPT ![r] = idle]
        BY <1>3, <3>2 DEF Begin, PoolLength, Run
      <4>2. 0 <= Len(chain)
        BY <3>1
      <4> QED
        BY <4>1, <4>2, Ends DEF Moves, InRound
    <3>3. CASE Len(chain) # 0
      <4> DEFINE fees == "nil" \notin {BorrowFee(answers), LendFee(answers)}
                 s == [idle EXCEPT !.pc = "base", !.last = Len(chain), !.print.base.fees = fees]
      <4>1. fees \in BOOLEAN
        OBVIOUS
      <4> HIDE DEF fees
      <4>2. [idle.print EXCEPT !.base.fees = fees] \in Fingerprint
        BY <4>1, Ends DEF RunState, Fingerprint, BaseInfo
      <4>3. Len(chain) \in 0..MaxPools
        BY <3>1, PoolSyncAssumption
      <4>4. s \in RunState /\ s.pc = "base" /\ s.last = Len(chain) /\ s.i = 1
        BY <4>2, <4>3, Ends DEF RunState
      <4>5. run' = [run EXCEPT ![r] = s]
        BY <1>3, <3>3 DEF Begin, PoolLength, Run, fees
      <4> HIDE DEF s
      <4>6. 1 <= Len(chain) /\ Len(chain) <= Len(chain)
        BY <3>1, <3>3
      <4> QED
        BY <4>4, <4>5, <4>6 DEF Moves, InRound
    <3> QED
      BY <3>2, <3>3
  <2>2. run'[r] = s /\ (\A q \in Runs \ {r} : run'[q] = run[q]) /\ RunsOK'
    BY <1>3, <2>1, Others
  <2>3. TypeOK'
    BY <1>3, <2>2, Parts DEF tables, TypeOK, StoreOK, WorldOK, RunsOK, Prints, InRound
  <2>4. CASE overlapped'
    BY <2>3, <2>4 DEF OneRun, AsFound, OneRowPerPool, PrintOfRow
  <2>5. CASE ~overlapped'
    <3>1. ~overlapped /\ \A q \in Runs : run[q].pc = "idle"
      BY <1>3, <2>5 DEF alone
    <3>2. \A q \in Runs \ {r} : run'[q].pc = "idle"
      BY <2>2, <3>1
    <3>3. \A p \in Pools : ~Saving(p)
      BY <3>1 DEF Saving
    <3>4. OneRun' /\ AsFound'
      BY <2>1, <2>2, <3>2 DEF OneRun, AsFound
    <3>5. OneRowPerPool'
      BY <1>3, <3>1 DEF OneRowPerPool, tables
    <3>6. PrintOfRow'
      BY <1>3, <2>1, <2>2, <3>1, <3>2, <3>3 DEF PrintOfRow, PrintOf, tables
    <3> QED
      BY <2>3, <3>4, <3>5, <3>6
  <2> QED
    BY <2>4, <2>5
<1>4. CASE alone /\ Begin(r, TRUE) /\ Read
  BY <1>3, <1>4, Silence DEF Silent, WorldOK, TypeOK
<1>5. CASE alone /\ Begin(r, FALSE) /\ Fail("fee")
  BY <1>3, <1>5, Silence DEF Silent, WorldOK, TypeOK
<1>6. CASE Begin(r, TRUE) /\ Event /\ overlapped' = TRUE /\ UNCHANGED <<chain, tables, redis, failed>>
  <2>1. limit.events \in Nat /\ events \in 0..limit.events /\ failed \in BOOLEAN
    BY PoolSyncAssumption DEF TypeOK
  <2>2. events' \in 0..limit.events /\ limit' = limit
    BY <1>6, <2>1 DEF Event
  <2> QED
    BY <1>3, <1>6, <2>1, <2>2
<1> QED
  BY <1>2, <1>4, <1>5, <1>6 DEF UpdatePoolInfo

\* The contract and the clock do not concern the rows; a fingerprint that
\* expires describes nothing.
LEMMA WorldKept ==
  ASSUME IInv, CreatePool \/ (\E p \in Pools : ChangePool(p)) \/ (\E key \in PoolKeys : Expire(key))
  PROVE  IInv'
<1> USE DEF IInv
<1>1. UNCHANGED <<poolbases, pooldata, run, limit, events, overlapped, failed>>
  BY DEF CreatePool, ChangePool, Expire, tables
<1>2. chain' \in Seq(Versions) /\ Len(chain') <= MaxPools /\ Len(chain) <= Len(chain') /\ Len(chain') \in Nat
  <2>0. chain \in Seq(Versions) /\ Len(chain) <= MaxPools /\ Len(chain) \in Nat
    BY DEF TypeOK
  <2>1. CASE CreatePool
    <3>1. limit.pools \in 0..MaxPools /\ MaxPools \in Nat /\ 0 \in Versions
      BY PoolSyncAssumption DEF TypeOK, Versions
    <3>2. Len(chain) < limit.pools /\ chain' = Append(chain, 0)
      BY <2>1 DEF CreatePool
    <3> QED
      BY <2>0, <3>1, <3>2, AppendProperties
  <2>2. ASSUME NEW p \in Pools, ChangePool(p)
        PROVE  chain' \in Seq(Versions) /\ Len(chain') = Len(chain)
    <3>1. p \in 1..Len(chain) /\ chain[p] \in Versions /\ chain[p] + 1 \in Versions
      BY <2>0, <2>2, PoolSyncAssumption DEF ChangePool, Versions
    <3>2. chain' = [chain EXCEPT ![p] = chain[p] + 1]
      BY <2>2 DEF ChangePool
    <3> QED
      BY <2>0, <3>1, <3>2, ExceptSeq
  <2>3. CASE \E key \in PoolKeys : Expire(key)
    BY <2>0, <2>3 DEF Expire
  <2> QED
    BY <2>0, <2>1, <2>2, <2>3
<1>3. redis' \in [Keys -> Prints] /\ \A k \in Keys : redis'[k] # none => redis'[k] = redis[k]
  <2>1. redis \in [Keys -> Prints]
    BY Parts DEF StoreOK
  <2>2. redis' = redis \/ \E key \in PoolKeys : redis' = [redis EXCEPT ![key] = none]
    BY DEF CreatePool, ChangePool, Expire, put
  <2> QED
    BY <2>1, <2>2 DEF Prints
<1>4. RunsOK'
  <2>1. \A r \in Runs : run[r].last \in Nat
    BY DEF TypeOK, RunState
  <2>2. \A r \in Runs : run[r].last <= Len(chain')
    BY <1>2, <2>1 DEF TypeOK
  <2> QED
    BY <1>1, <2>2 DEF TypeOK, RunsOK, InRound
<1>5. TypeOK'
  <2>1. StoreOK' /\ WorldOK'
    BY <1>1, <1>2, <1>3, Parts DEF StoreOK, WorldOK
  <2> QED
    BY <1>4, <2>1 DEF TypeOK, StoreOK, WorldOK, RunsOK, Prints, InRound
<1>6. OneRun' /\ AsFound' /\ OneRowPerPool'
  BY <1>1 DEF OneRun, AsFound, OneRowPerPool
<1>7. PrintOfRow'
  <2>1. \A p \in Pools : <<"base_info", p>> \in Keys /\ (Saving(p)' <=> Saving(p))
    BY <1>1, PoolKeysAssumption DEF PoolKeys, Saving
  <2> QED
    BY <1>1, <1>3, <2>1 DEF PrintOfRow, PrintOf
<1> QED
  BY <1>5, <1>6, <1>7

\* A restart ends every run and forgets every fingerprint.
LEMMA RestartKept == ASSUME IInv, Restart PROVE IInv'
<1> USE DEF IInv
<1>1. /\ UNCHANGED <<chain, poolbases, pooldata, limit, overlapped, failed>>
      /\ \A r \in Runs : run'[r] = idle
      /\ run' = [r \in Runs |-> idle]
  BY DEF Restart, Event, tables
<1>2. redis' = emptied
  BY DEF Restart, RedisFlushDB, done
<1>3. redis' \in [Keys -> Prints] /\ \A p \in Pools : redis'[<<"base_info", p>>] = none
  BY <1>2, PoolKeysAssumption DEF emptied, Prints, PoolKeys
<1>4. WorldOK'
  <2>1. limit.events \in Nat /\ events \in 0..limit.events
    BY PoolSyncAssumption DEF TypeOK
  <2>2. events' \in 0..limit.events
    BY <2>1 DEF Restart, Event
  <2> QED
    BY <1>1, <2>2, Parts DEF WorldOK
<1>5. RunsOK'
  <2>1. 0 <= Len(chain)
    BY DEF TypeOK
  <2> QED
    BY <1>1, <2>1, Ends DEF RunsOK, InRound
<1>6. StoreOK'
  BY <1>1, <1>3, Parts DEF StoreOK
<1>7. TypeOK'
  BY <1>4, <1>5, <1>6 DEF TypeOK, StoreOK, WorldOK, RunsOK, Prints, InRound
<1>8. OneRun' /\ AsFound' /\ OneRowPerPool' /\ PrintOfRow'
  BY <1>1, <1>3, Ends DEF OneRun, AsFound, OneRowPerPool, PrintOfRow
<1> QED
  BY <1>7, <1>8

\* The first state: no pool, no row, no run.
LEMMA Initially == Init => IInv
<1> SUFFICES ASSUME Init PROVE IInv
  OBVIOUS
<1>1. /\ chain = <<>> /\ redis = emptied /\ run = [r \in Runs |-> idle]
      /\ \A p \in Pools : poolbases[p] = <<>> /\ pooldata[p] = <<>>
      /\ poolbases = [p \in Pools |-> <<>>] /\ pooldata = [p \in Pools |-> <<>>]
      /\ limit \in Limits /\ events = 0 /\ overlapped = FALSE /\ failed = FALSE
  BY DEF Init
<1>2. WorldOK
  <2>1. limit.events \in Nat /\ 0 \in 0..limit.events
    BY <1>1, PoolSyncAssumption
  <2>2. chain \in Seq(Versions) /\ Len(chain) <= MaxPools
    BY <1>1, PoolSyncAssumption
  <2> QED
    BY <1>1, <2>1, <2>2 DEF WorldOK
<1>3. redis \in [Keys -> Prints] /\ \A p \in Pools : redis[<<"base_info", p>>] = none
  BY <1>1, PoolKeysAssumption DEF emptied, Prints, PoolKeys
<1>4. StoreOK
  BY <1>1, <1>3 DEF StoreOK
<1>5. RunsOK
  <2>1. 0 <= Len(chain)
    BY <1>1
  <2> QED
    BY <1>1, <2>1, Ends DEF RunsOK, InRound
<1>6. \A p \in Pools : Len(poolbases[p]) <= 1 /\ Len(pooldata[p]) <= 1
  BY <1>1
<1> QED
  BY <1>1, <1>2, <1>3, <1>4, <1>5, <1>6, Parts, Ends
  DEF IInv, OneRun, AsFound, OneRowPerPool, PrintOfRow

-----------------------------------------------------------------------------
(* The data of a pool is not older than its base record.                    *)

\* A call that fails and a restart are counted.
LEMMA Counted == ASSUME TypeOK, Event PROVE events' # 0
<1>1. events \in Nat
  BY PoolSyncAssumption DEF TypeOK
<1> QED
  BY <1>1 DEF Event

\* What the invariant says of the pool of the run that is under way.
LEMMA AtRun ==
  ASSUME IInv, InOrder, events = 0, NEW r \in Runs, run[r].pc # "idle", NEW i, i = run[r].i
  PROVE  /\ i \in Pools /\ i \in DOMAIN chain /\ ReadInOrder(run[r]) /\ chain[i] \in Int
         /\ poolbases[i] # <<>> => poolbases[i][1].version <= chain[i]
         /\ poolbases[i] # <<>> => DataFresh(i) \/ WillSave(run[r])
         /\ poolbases[i] # <<>> => poolbases[i][1].version \in Int
<1>1. i \in Pools /\ i \in DOMAIN chain /\ chain[i] \in Int
  BY AtPool DEF IInv, Versions
<1>2. \A q \in Runs \ {r} : ~WillSave(run[q])
  BY DEF IInv, InOrder, OneRun, WillSave
<1>3. ReadInOrder(run[r])
  BY DEF InOrder
<1>4. poolbases[i] # <<>> => poolbases[i][1].version <= chain[i]
  BY <1>1 DEF InOrder, NotAhead
<1>5. poolbases[i] # <<>> => DataFresh(i) \/ WillSave(run[r])
  BY <1>1, <1>2 DEF InOrder, DataComes
<1>6. poolbases[i] # <<>> => poolbases[i][1].version \in Int
  <2>1. poolbases[i] \in Seq(BaseInfo)
    BY <1>1 DEF IInv, TypeOK
  <2>2. poolbases[i] # <<>> => poolbases[i][1] \in BaseInfo
    BY <2>1
  <2> QED
    BY <2>2 DEF BaseInfo, Versions
<1> QED
  BY <1>1, <1>3, <1>4, <1>5, <1>6

\* A run that moves on, and changes nothing but its pool's rows.
LEMMA OrderKept ==
  ASSUME IInv, InOrder, NEW r \in Runs, NEW s, NEW i, i = run[r].i, run[r].pc # "idle", Moves(r, s),
         UNCHANGED <<chain, overlapped, events>>,
         \A p \in Pools \ {i} : poolbases'[p] = poolbases[p] /\ pooldata'[p] = pooldata[p],
         events = 0 =>
           /\ poolbases'[i] # <<>> => poolbases'[i][1].version <= chain[i]
           /\ poolbases'[i] # <<>> => DataFresh(i)' \/ (s.i = i /\ WillSave(s))
           /\ ReadInOrder(s)'
  PROVE  InOrder'
<1> SUFFICES ASSUME events = 0
             PROVE  ~overlapped' /\ NotAhead' /\ (\A q \in Runs : ReadInOrder(run[q]))' /\ DataComes'
  BY DEF InOrder
<1>0. run'[r] = s /\ \A q \in Runs \ {r} : run'[q] = run[q] /\ run[q].pc = "idle"
  BY Others DEF IInv, OneRun, InOrder
<1>1. i \in DOMAIN chain /\ \A q \in Runs \ {r} : ~WillSave(run[q])
  BY <1>0, AtRun DEF WillSave
<1>2. NotAhead'
  <2>1. ASSUME NEW p \in Pools, poolbases'[p] # <<>>
        PROVE  p \in DOMAIN chain /\ poolbases'[p][1].version <= chain[p]
    BY <1>1, <2>1 DEF InOrder, NotAhead
  <2> QED
    BY <2>1 DEF NotAhead
<1>3. (\A q \in Runs : ReadInOrder(run[q]))'
  <2>1. ASSUME NEW q \in Runs PROVE ReadInOrder(run[q])'
    <3>1. CASE q = r
      BY <1>0, <3>1 DEF ReadInOrder
    <3>2. CASE q # r
      BY <1>0, <3>2 DEF ReadInOrder
    <3> QED
      BY <3>1, <3>2
  <2> QED
    BY <2>1
<1>4. DataComes'
  <2>1. ASSUME NEW p \in Pools, poolbases'[p] # <<>>
        PROVE  DataFresh(p)' \/ \E q \in Runs : run'[q].i = p /\ WillSave(run'[q])
    <3>1. CASE p = i
      BY <1>0, <2>1, <3>1 DEF DataFresh
    <3>2. CASE p # i
      <4>1. poolbases[p] # <<>> /\ ~(run[r].i = p)
        BY <2>1, <3>2
      <4>2. DataFresh(p)
        BY <1>1, <4>1 DEF InOrder, DataComes
      <4> QED
        BY <3>2, <4>2 DEF DataFresh
    <3> QED
      BY <3>1, <3>2
  <2> QED
    BY <2>1 DEF DataComes, WillSave
<1> QED
  BY <1>2, <1>3, <1>4 DEF InOrder

\* A call that only reads, if the data that was to come is still to come.
LEMMA OrderRead ==
  ASSUME IInv, InOrder, NEW r \in Runs, NEW s, run[r].pc # "idle", Moves(r, s), Read,
         events = 0 =>
           /\ WillSave(run[r]) => s.i = run[r].i /\ WillSave(s)
           /\ ReadInOrder(s)
  PROVE  InOrder'
<1>1. UNCHANGED <<chain, overlapped, events, poolbases, pooldata>>
  BY DEF Read, Quiet, tables
<1>2. PICK i : i = run[r].i
  OBVIOUS
<1>3. events = 0 =>
        /\ poolbases'[i] # <<>> => poolbases'[i][1].version <= chain[i]
        /\ poolbases'[i] # <<>> => DataFresh(i)' \/ (s.i = i /\ WillSave(s))
  <2>1. DataFresh(i)' = DataFresh(i)
    BY <1>1 DEF DataFresh
  <2> QED
    BY <1>1, <1>2, <2>1, AtRun
<1>4. events = 0 => ReadInOrder(s)'
  BY <1>1 DEF ReadInOrder
<1> QED
  BY <1>1, <1>2, <1>3, <1>4, OrderKept

\* A step that is counted ends what the invariant speaks of.
LEMMA OrderFailed == ASSUME IInv, \E call : Fail(call) PROVE InOrder'
BY Counted DEF IInv, Fail, InOrder

\* The turn's first half: the base record is read and, unless its fingerprint is
\* known, saved and stamped.
LEMMA OrderBase ==
  ASSUME IInv, InOrder, NEW r \in Runs,
         PoolBaseInfo(r) \/ CheckBase(r) \/ FindBase(r)
  PROVE  InOrder'
<1> USE DEF IInv
<1>0. (\E call : Fail(call)) => InOrder'
  BY OrderFailed
<1>1. run[r].pc \in {"base", "basePrint", "findBase"} /\ ~WillSave(run[r])
  BY DEF PoolBaseInfo, CheckBase, FindBase, WillSave
<1>2. CASE PoolBaseInfo(r) /\ Read
  <2>1. CASE Run(r, [run[r] EXCEPT !.pc = "basePrint", !.print.base.version = PoolBaseInfoOf(run[r].i)])
    <3> DEFINE s == [run[r] EXCEPT !.pc = "basePrint", !.print.base.version = chain[run[r].i]]
    <3>1. run[r] \in RunState /\ InRound(run[r]) /\ chain[run[r].i] \in Versions
      BY <1>1, AtPool
    <3>2. [run[r].print EXCEPT !.base.version = chain[run[r].i]] \in Fingerprint
          /\ [run[r].print EXCEPT !.base.version = chain[run[r].i]].base.version = chain[run[r].i]
      BY <3>1 DEF RunState, Fingerprint, BaseInfo
    <3>3. /\ s \in RunState /\ s.pc = "basePrint" /\ s.i = run[r].i /\ s.last = run[r].last
          /\ s.print.base.version = chain[run[r].i]
      BY <3>1, <3>2 DEF RunState
    <3>4. run' = [run EXCEPT ![r] = s]
      BY <2>1 DEF Run, PoolBaseInfoOf
    <3> HIDE DEF s
    <3>5. Moves(r, s)
      BY <1>1, <3>1, <3>3, <3>4 DEF Moves, InRound
    <3>6. ReadInOrder(s)
      BY <3>1, <3>3 DEF ReadInOrder, Versions
    <3> QED
      BY <1>1, <1>2, <3>5, <3>6, OrderRead
  <2>2. CASE Continue(r) /\ Fail("base")
    BY <1>0, <2>2
  <2> QED
    BY <1>2, <2>1, <2>2 DEF PoolBaseInfo
<1>3. CASE CheckBase(r) /\ Read
  <2>1. Goto(r, "findBase") \/ Goto(r, "data")
    BY <1>3 DEF CheckBase, GetPoolMd5
  <2>2. PICK s : /\ Moves(r, s) /\ s.pc \in {"findBase", "data"} /\ s.i = run[r].i
                 /\ s.print = run[r].print /\ s.data = run[r].data
    BY <1>1, <2>1, Gone
  <2>3. events = 0 => ReadInOrder(s)
    <3>1. run[r].pc = "basePrint"
      BY <1>3 DEF CheckBase
    <3> QED
      BY <2>2, <3>1, AtRun DEF ReadInOrder
  <2> QED
    BY <1>1, <1>3, <2>2, <2>3, OrderRead
<1>4. CASE FindBase(r) /\ Read
  <2>1. CASE Goto(r, IF poolbases[run[r].i] = <<>> THEN "createBase" ELSE "updateBase")
    <3>1. Goto(r, "createBase") \/ Goto(r, "updateBase")
      BY <2>1
    <3>2. PICK s : /\ Moves(r, s) /\ s.pc \in {"createBase", "updateBase"} /\ s.i = run[r].i
                   /\ s.print = run[r].print /\ s.data = run[r].data
      BY <1>1, <3>1, Gone
    <3>3. events = 0 => ReadInOrder(s)
      <4>1. run[r].pc = "findBase"
        BY <1>4 DEF FindBase
      <4> QED
        BY <3>2, <4>1, AtRun DEF ReadInOrder
    <3> QED
      BY <1>1, <1>4, <3>2, <3>3, OrderRead
  <2>2. CASE Fail("select")
    BY <1>0, <2>2
  <2> QED
    BY <1>4, <2>1, <2>2 DEF FindBase
<1> QED
  BY <1>0, <1>2, <1>3, <1>4 DEF PoolBaseInfo, CheckBase, GetPoolMd5, FindBase

\* The base record is saved as it was read, and stamped.
LEMMA OrderSaveBase ==
  ASSUME IInv, InOrder, NEW r \in Runs, CreateBase(r) \/ UpdateBase(r)
  PROVE  InOrder'
<1> USE DEF IInv
<1>1. run[r].pc \in {"createBase", "updateBase"} /\ Stamped(r, "setBase")
  BY DEF CreateBase, UpdateBase
<1>2. PICK i, b : i = run[r].i /\ b = run[r].print.base
  OBVIOUS
<1>3. PICK s : Moves(r, s) /\ s.pc = "setBase" /\ s.i = i /\ s.print.stamped
  BY <1>1, <1>2, Stamps
<1>4. CASE Fail("create") \/ Fail("update")
  BY <1>4, OrderFailed
<1>5. CASE Quiet /\ UNCHANGED <<pooldata, redis>> /\ ~(Fail("create") \/ Fail("update"))
  <2>1. i \in Pools /\ b \in BaseInfo
    BY <1>1, <1>2, AtPool DEF RunState, Fingerprint
  <2>2. poolbases[i] \in Seq(BaseInfo) /\ poolbases \in [Pools -> Seq(BaseInfo)]
    BY <2>1, Parts DEF StoreOK
  <2>3. CASE run[r].pc = "createBase"
    <3>1. poolbases' = [poolbases EXCEPT ![i] = Append(poolbases[i], b)]
      BY <1>2, <1>5, <2>3 DEF CreateBase, UpdateBase
    <3>2. events = 0 => poolbases[i] = <<>>
      BY <1>2, <2>3 DEF AsFound, InOrder
    <3>3. Append(<<>>, b)[1] = b
      OBVIOUS
    <3>4. poolbases'[i] = Append(poolbases[i], b) /\ \A p \in Pools \ {i} : poolbases'[p] = poolbases[p]
      BY <2>1, <2>2, <3>1
    <3>5. events = 0 => b.version <= chain[i]
      BY <1>1, <1>2, AtRun DEF ReadInOrder
    <3> QED
      BY <1>1, <1>2, <1>3, <1>5, <3>2, <3>3, <3>4, <3>5, OrderKept DEF Quiet, ReadInOrder, WillSave
  <2>4. CASE run[r].pc = "updateBase"
    <3>1. poolbases' = [poolbases EXCEPT ![i] = [n \in DOMAIN poolbases[i] |-> b]]
      BY <1>2, <1>5, <2>4 DEF CreateBase, UpdateBase
    <3>2. events = 0 => 1 \in DOMAIN poolbases[i]
      <4>1. events = 0 => poolbases[i] # <<>>
        BY <1>2, <2>4 DEF AsFound, InOrder
      <4> QED
        BY <2>2, <4>1
    <3>3. /\ poolbases'[i] = [n \in DOMAIN poolbases[i] |-> b]
          /\ \A p \in Pools \ {i} : poolbases'[p] = poolbases[p]
      BY <2>1, <2>2, <3>1
    <3>4. events = 0 => b.version <= chain[i]
      BY <1>1, <1>2, AtRun DEF ReadInOrder
    <3>5. events = 0 => poolbases'[i][1].version <= chain[i]
      BY <3>2, <3>3, <3>4
    <3> QED
      BY <1>1, <1>2, <1>3, <1>5, <3>3, <3>5, OrderKept DEF Quiet, ReadInOrder, WillSave
  <2> QED
    BY <1>1, <2>3, <2>4
<1> QED
  BY <1>4, <1>5 DEF CreateBase, UpdateBase

\* The fingerprint is written, and the record stays stamped.
LEMMA OrderPrints ==
  ASSUME IInv, InOrder, NEW r \in Runs, SetBasePrint(r) \/ SetDataPrint(r)
  PROVE  InOrder'
<1> USE DEF IInv
<1>1. run[r].pc \in {"setBase", "setData"}
  BY DEF SetBasePrint, SetDataPrint
<1>2. PICK s : /\ Moves(r, s) /\ ReadInOrder(s)
               /\ WillSave(run[r]) => s.i = run[r].i /\ WillSave(s)
  <2>1. CASE SetBasePrint(r)
    <3>1. run[r].pc = "setBase" /\ Goto(r, "data")
      BY <2>1 DEF SetBasePrint
    <3>2. PICK s : /\ Moves(r, s) /\ s.pc = "data" /\ s.i = run[r].i
                   /\ s.print = run[r].print
      BY <3>1, Gone
    <3> QED
      BY <3>1, <3>2 DEF ReadInOrder, WillSave
  <2>2. CASE SetDataPrint(r)
    <3>1. run[r].pc = "setData" /\ Continue(r)
      BY <2>2 DEF SetDataPrint
    <3>2. PICK s : Moves(r, s) /\ s.pc \in {"base", "idle"}
      BY <3>1, Continued
    <3> QED
      BY <3>1, <3>2 DEF ReadInOrder, WillSave
  <2> QED
    BY <2>1, <2>2
<1>3. CASE Fail("set")
  BY <1>3, OrderFailed
<1>4. CASE Quiet /\ UNCHANGED tables
  <2>1. UNCHANGED <<chain, overlapped, events, poolbases, pooldata>>
    BY <1>4 DEF Quiet, tables
  <2>2. PICK i : i = run[r].i
    OBVIOUS
  <2>3. DataFresh(i)' = DataFresh(i) /\ (ReadInOrder(s) => ReadInOrder(s)')
    BY <2>1 DEF DataFresh, ReadInOrder
  <2>4. events = 0 =>
          /\ poolbases'[i] # <<>> => poolbases'[i][1].version <= chain[i]
          /\ poolbases'[i] # <<>> => DataFresh(i)' \/ (s.i = i /\ WillSave(s))
    BY <1>1, <1>2, <2>1, <2>2, <2>3, AtRun
  <2> QED
    BY <1>1, <1>2, <2>1, <2>2, <2>3, <2>4, OrderKept
<1> QED
  BY <1>3, <1>4 DEF SetBasePrint, SetDataPrint

\* The turn's second half: the data is read after the base record was saved, and
\* passed over only if the record is not stamped.
LEMMA OrderData ==
  ASSUME IInv, InOrder, NEW r \in Runs, PoolDataInfo(r) \/ CheckData(r) \/ FindData(r)
  PROVE  InOrder'
<1> USE DEF IInv
<1>0. (\E call : Fail(call)) => InOrder'
  BY OrderFailed
<1>1. run[r].pc \in {"data", "dataPrint", "findData"}
  BY DEF PoolDataInfo, CheckData, FindData
<1>2. CASE PoolDataInfo(r) /\ Read
  <2>1. CASE Run(r, [run[r] EXCEPT !.pc = "dataPrint", !.data = PoolDataInfoOf(run[r].i)])
    <3> DEFINE s == [run[r] EXCEPT !.pc = "dataPrint", !.data = chain[run[r].i]]
    <3>1. run[r] \in RunState /\ InRound(run[r]) /\ chain[run[r].i] \in Versions
      BY <1>1, AtPool
    <3>2. /\ s \in RunState /\ s.pc = "dataPrint" /\ s.i = run[r].i /\ s.last = run[r].last
          /\ s.data = chain[run[r].i] /\ s.print = run[r].print
      BY <3>1 DEF RunState
    <3>3. run' = [run EXCEPT ![r] = s]
      BY <2>1 DEF Run, PoolDataInfoOf
    <3> HIDE DEF s
    <3>4. Moves(r, s)
      BY <1>1, <3>1, <3>2, <3>3 DEF Moves, InRound
    <3>5. events = 0 => ReadInOrder(s)
      <4>1. events = 0 /\ poolbases[run[r].i] # <<>> =>
              /\ poolbases[run[r].i][1].version <= chain[run[r].i]
              /\ poolbases[run[r].i][1].version \in Int /\ chain[run[r].i] \in Int
        BY <1>1, AtRun
      <4> QED
        BY <3>2, <4>1 DEF ReadInOrder
    <3>6. WillSave(run[r]) => WillSave(s)
      <4>1. run[r].pc = "data"
        BY <1>2 DEF PoolDataInfo
      <4> QED
        BY <3>2, <4>1 DEF WillSave
    <3> QED
      BY <1>1, <1>2, <3>2, <3>4, <3>5, <3>6, OrderRead
  <2>2. CASE Continue(r) /\ Fail("data")
    BY <1>0, <2>2
  <2> QED
    BY <1>2, <2>1, <2>2 DEF PoolDataInfo
<1>3. CASE CheckData(r) /\ Read
  <2>0. run[r].pc = "dataPrint"
    BY <1>3 DEF CheckData
  <2>1. CASE Goto(r, "findData")
    <3>1. PICK s : /\ Moves(r, s) /\ s.pc = "findData" /\ s.i = run[r].i
                   /\ s.print = run[r].print /\ s.data = run[r].data
      BY <1>1, <2>1, Gone
    <3>2. events = 0 => ReadInOrder(s)
      BY <2>0, <3>1, AtRun DEF ReadInOrder
    <3>3. WillSave(s)
      BY <3>1 DEF WillSave
    <3> QED
      BY <1>1, <1>3, <3>1, <3>2, <3>3, OrderRead
  <2>2. CASE Continue(r) /\ ~run[r].print.stamped
    <3>1. PICK s : Moves(r, s) /\ s.pc \in {"base", "idle"}
      BY <1>1, <2>2, Continued
    <3>2. ReadInOrder(s) /\ ~WillSave(run[r])
      BY <2>0, <2>2, <3>1 DEF ReadInOrder, WillSave
    <3> QED
      BY <1>1, <1>3, <3>1, <3>2, OrderRead
  <2>3. CASE \E call : Fail(call)
    BY <1>0, <2>3
  <2>4. \A a : samePrint(a, run[r].print) => ~run[r].print.stamped
    BY DEF samePrint
  <2> QED
    BY <1>3, <2>1, <2>2, <2>3, <2>4 DEF CheckData
<1>4. CASE FindData(r) /\ Read
  <2>0. run[r].pc = "findData"
    BY <1>4 DEF FindData
  <2>1. CASE Goto(r, IF pooldata[run[r].i] = <<>> THEN "createData" ELSE "updateData")
    <3> DEFINE pc == IF pooldata[run[r].i] = <<>> THEN "createData" ELSE "updateData"
    <3>1. pc \in {"createData", "updateData"} /\ Goto(r, pc)
      BY <2>1
    <3>2. pc = "updateData" => pooldata[run[r].i] # <<>>
      OBVIOUS
    <3> HIDE DEF pc
    <3>3. PICK s : /\ Moves(r, s) /\ s.pc = pc /\ s.i = run[r].i
                   /\ s.print = run[r].print /\ s.data = run[r].data
      BY <1>1, <3>1, Gone
    <3>4. events = 0 => ReadInOrder(s)
      BY <2>0, <3>1, <3>2, <3>3, AtRun DEF ReadInOrder
    <3>5. WillSave(s)
      BY <3>1, <3>3 DEF WillSave
    <3> QED
      BY <1>1, <1>4, <3>3, <3>4, <3>5, OrderRead
  <2>2. CASE Fail("select")
    BY <1>0, <2>2
  <2> QED
    BY <1>4, <2>1, <2>2 DEF FindData
<1> QED
  BY <1>0, <1>2, <1>3, <1>4 DEF PoolDataInfo, CheckData, FindData

\* The data is saved as it was read.
LEMMA OrderSaveData ==
  ASSUME IInv, InOrder, NEW r \in Runs, CreateData(r) \/ UpdateData(r)
  PROVE  InOrder'
<1> USE DEF IInv
<1>1. run[r].pc \in {"createData", "updateData"} /\ Goto(r, "setData")
  BY DEF CreateData, UpdateData
<1>2. PICK i, d : i = run[r].i /\ d = run[r].data
  OBVIOUS
<1>3. PICK s : Moves(r, s) /\ s.pc = "setData"
  BY <1>1, Gone
<1>4. CASE Fail("create") \/ Fail("update")
  BY <1>4, OrderFailed
<1>5. CASE Quiet /\ UNCHANGED <<poolbases, redis>> /\ ~(Fail("create") \/ Fail("update"))
  <2>1. i \in Pools /\ d \in Versions
    BY <1>1, <1>2, AtPool DEF RunState
  <2>2. pooldata[i] \in Seq(Versions) /\ pooldata \in [Pools -> Seq(Versions)]
    BY <2>1, Parts DEF StoreOK
  <2>3. /\ events = 0 => pooldata'[i] # <<>> /\ pooldata'[i][1] = d
        /\ \A p \in Pools \ {i} : pooldata'[p] = pooldata[p]
    <3>1. CASE run[r].pc = "createData"
      <4>1. pooldata' = [pooldata EXCEPT ![i] = Append(pooldata[i], d)]
        BY <1>2, <1>5, <3>1 DEF CreateData, UpdateData
      <4>2. events = 0 => pooldata[i] = <<>>
        BY <1>2, <3>1 DEF AsFound, InOrder
      <4>3. Append(<<>>, d)[1] = d /\ Append(<<>>, d) # <<>>
        OBVIOUS
      <4> QED
        BY <2>1, <2>2, <4>1, <4>2, <4>3
    <3>2. CASE run[r].pc = "updateData"
      <4>1. pooldata' = [pooldata EXCEPT ![i] = [n \in DOMAIN pooldata[i] |-> d]]
        BY <1>2, <1>5, <3>2 DEF CreateData, UpdateData
      <4>2. events = 0 => 1 \in DOMAIN pooldata[i]
        <5>1. events = 0 => pooldata[i] # <<>>
          BY <1>1, <1>2, <3>2, AtRun DEF ReadInOrder
        <5> QED
          BY <2>2, <5>1
      <4>3. /\ pooldata'[i] = [n \in DOMAIN pooldata[i] |-> d]
            /\ \A p \in Pools \ {i} : pooldata'[p] = pooldata[p]
        BY <2>1, <2>2, <4>1
      <4>4. events = 0 => pooldata'[i][1] = d /\ 1 \in DOMAIN pooldata'[i]
        BY <4>2, <4>3
      <4>5. 1 \notin DOMAIN <<>>
        OBVIOUS
      <4> QED
        BY <4>3, <4>4, <4>5
    <3> QED
      BY <1>1, <3>1, <3>2
  <2>4. UNCHANGED <<chain, overlapped, events, poolbases>>
    BY <1>5 DEF Quiet
  <2>5. events = 0 /\ poolbases'[i] # <<>> => DataFresh(i)'
    <3>1. events = 0 /\ poolbases[i] # <<>> => d >= poolbases[i][1].version
      BY <1>1, <1>2, AtRun DEF ReadInOrder
    <3> QED
      BY <2>3, <2>4, <3>1 DEF DataFresh
  <2>6. events = 0 => (poolbases'[i] # <<>> => poolbases'[i][1].version <= chain[i])
    BY <1>1, <1>2, <2>4, AtRun
  <2>7. ReadInOrder(s)'
    BY <1>3 DEF ReadInOrder
  <2> QED
    BY <1>1, <1>2, <1>3, <2>3, <2>4, <2>5, <2>6, <2>7, OrderKept
<1> QED
  BY <1>4, <1>5 DEF CreateData, UpdateData

\* A round begins with nothing read; no data is still to come.
LEMMA OrderBegin ==
  ASSUME IInv, InOrder, NEW r \in Runs, UpdatePoolInfo(r)
  PROVE  InOrder'
<1> USE DEF IInv
<1>1. CASE \E call : Fail(call)
  BY <1>1, OrderFailed
<1>2. CASE Event
  BY <1>2, Counted DEF InOrder
<1>3. CASE alone /\ Begin(r, TRUE) /\ Read
  <2>1. UNCHANGED <<chain, poolbases, pooldata, overlapped, events>>
    BY <1>3 DEF Read, Quiet, tables
  <2>2. \A q \in Runs : run'[q].pc \in {"base", "idle"}
    <3>1. run \in [Runs -> RunState]
      BY DEF TypeOK
    <3>2. \E s : run' = [run EXCEPT ![r] = s] /\ s.pc \in {"base", "idle"}
      <4>1. CASE PoolLength = 0
        BY <1>3, <4>1, Ends DEF Begin, Run
      <4>2. CASE PoolLength # 0
        <5> DEFINE s == [idle EXCEPT !.pc = "base", !.last = PoolLength,
                           !.print.base.fees = "nil" \notin {BorrowFee(TRUE), LendFee(TRUE)}]
        <5>1. run' = [run EXCEPT ![r] = s]
          BY <1>3, <4>2 DEF Begin, Run
        <5>2. s.pc = "base"
          BY Ends DEF idle
        <5> QED
          BY <5>1, <5>2
      <4> QED
        BY <4>1, <4>2
    <3> QED
      BY <1>3, <3>1, <3>2 DEF alone
  <2>3. events = 0 => \A p \in Pools : poolbases[p] # <<>> => DataFresh(p)
    BY <1>3 DEF InOrder, DataComes, WillSave, alone
  <2>4. NotAhead => NotAhead'
    BY <2>1 DEF NotAhead
  <2>5. \A q \in Runs : ReadInOrder(run[q])'
    BY <2>2 DEF ReadInOrder
  <2>6. events = 0 => DataComes'
    BY <2>1, <2>3 DEF DataComes, DataFresh
  <2> QED
    BY <2>1, <2>4, <2>5, <2>6 DEF InOrder
<1> QED
  BY <1>1, <1>2, <1>3 DEF UpdatePoolInfo

\* The contract's pools only go forward, and what is read does not change.
LEMMA OrderWorld ==
  ASSUME IInv, InOrder, CreatePool \/ (\E p \in Pools : ChangePool(p)) \/ (\E key \in PoolKeys : Expire(key))
  PROVE  InOrder'
<1> USE DEF IInv
<1>1. UNCHANGED <<poolbases, pooldata, run, events, overlapped>>
  BY DEF CreatePool, ChangePool, Expire, tables
<1>2. \A p \in DOMAIN chain : p \in DOMAIN chain' /\ chain[p] \in Int /\ chain'[p] \in Int /\ chain[p] <= chain'[p]
  <2>0. chain \in Seq(Versions) /\ \A p \in DOMAIN chain : chain[p] \in Nat
    <3>1. chain \in Seq(Versions)
      BY DEF TypeOK
    <3>2. \A p \in DOMAIN chain : chain[p] \in Versions
      BY <3>1
    <3>3. \A v \in Versions : v \in Nat
      BY PoolSyncAssumption DEF Versions
    <3> QED
      BY <3>1, <3>2, <3>3
  <2>1. CASE CreatePool
    <3>1. chain' = Append(chain, 0)
      BY <2>1 DEF CreatePool
    <3>2. \A p \in 1..Len(chain) : chain'[p] = chain[p] /\ p \in DOMAIN chain'
      BY <2>0, <3>1, AppendProperties
    <3> QED
      BY <2>0, <3>2
  <2>2. ASSUME NEW q \in Pools, ChangePool(q)
        PROVE  \A p \in DOMAIN chain : p \in DOMAIN chain' /\ chain'[p] \in Int /\ chain[p] <= chain'[p]
    <3>1. chain' = [chain EXCEPT ![q] = chain[q] + 1]
      BY <2>2 DEF ChangePool
    <3> QED
      BY <2>0, <3>1
  <2>3. CASE \E key \in PoolKeys : Expire(key)
    BY <2>0, <2>3 DEF Expire
  <2> QED
    BY <2>0, <2>1, <2>2, <2>3
<1>3. NotAhead => NotAhead'
  <2>1. ASSUME NotAhead, NEW p \in Pools, poolbases[p] # <<>>
        PROVE  p \in DOMAIN chain' /\ poolbases[p][1].version <= chain'[p]
    <3>1. p \in DOMAIN chain /\ poolbases[p][1].version <= chain[p]
      BY <2>1 DEF NotAhead
    <3>2. poolbases[p][1].version \in Int
      <4>1. poolbases[p] \in Seq(BaseInfo)
        BY DEF TypeOK
      <4>2. poolbases[p][1] \in BaseInfo
        BY <2>1, <4>1
      <4> QED
        BY <4>2 DEF BaseInfo, Versions
    <3> QED
      BY <1>2, <3>1, <3>2
  <2> QED
    BY <1>1, <2>1 DEF NotAhead
<1>4. ASSUME NEW r \in Runs, ReadInOrder(run[r]) PROVE ReadInOrder(run[r])'
  <2>1. ASSUME run[r].pc \in {"basePrint", "findBase", "createBase", "updateBase"}
        PROVE  run[r].print.base.version <= chain'[run[r].i]
    <3>1. run[r].i \in DOMAIN chain /\ run[r] \in RunState
      BY <2>1, AtPool
    <3>2. run[r].print.base.version \in Int
      BY <3>1 DEF RunState, Fingerprint, BaseInfo, Versions
    <3>3. run[r].print.base.version <= chain[run[r].i]
      BY <1>4, <2>1 DEF ReadInOrder
    <3> QED
      BY <1>2, <3>1, <3>2, <3>3
  <2> QED
    BY <1>1, <1>4, <2>1 DEF ReadInOrder
<1>5. DataComes => DataComes'
  BY <1>1 DEF DataComes, DataFresh, WillSave
<1> QED
  BY <1>1, <1>3, <1>4, <1>5 DEF InOrder

\* Before the first round there is no row.
LEMMA OrderInit == Init => InOrder
<1> SUFFICES ASSUME Init PROVE InOrder
  OBVIOUS
<1>1. \A p \in Pools : poolbases[p] = <<>>
  BY DEF Init
<1>2. \A r \in Runs : run[r].pc = "idle"
  BY Ends DEF Init
<1> QED
  BY <1>1, <1>2 DEF Init, InOrder, NotAhead, ReadInOrder, DataComes

-----------------------------------------------------------------------------
(* The theorems.                                                            *)

\* The invariant holds in every reachable state.
THEOREM Invariant == Spec => []IInv
<1>1. IInv /\ [Next]_vars => IInv'
  <2> SUFFICES ASSUME IInv, [Next]_vars PROVE IInv'
    OBVIOUS
  <2>1. CASE \E r \in Runs : UpdatePoolInfo(r) \/ Step(r)
    BY <2>1, BeginKept, PoolBaseInfoKept, PoolDataInfoKept, ChecksKept, FindBaseKept, FindDataKept,
       SaveBaseKept, SaveDataKept, BasePrintKept, DataPrintKept
    DEF Step, SavePoolBase, SavePoolData
  <2>2. CASE CreatePool \/ (\E p \in Pools : ChangePool(p)) \/ (\E key \in PoolKeys : Expire(key))
    BY <2>2, WorldKept
  <2>3. CASE UNCHANGED vars
    BY <2>3 DEF vars, tables, IInv, TypeOK, OneRun, AsFound, OneRowPerPool, PrintOfRow, PrintOf, Saving
  <2> QED
    BY <2>1, <2>2, <2>3, RestartKept DEF Next
<1> QED
  BY <1>1, Initially, PTL DEF Spec

\* As long as rounds have not overlapped a pool has one row in each table,
\* though nothing in the tables says so (SavePoolBase, SavePoolData).
THEOREM RowsAreOne == Spec => []OneRowPerPool
BY Invariant, PTL DEF IInv

\* Between rounds of which none has overlapped or failed, a pool that a
\* fingerprint makes the job skip is in poolbases as the fingerprint has it,
\* wherever the process was restarted (UpdatePoolInfo, Task).
THEOREM SkippedIsSaved == Spec => []PrintsDescribeRows
<1>1. IInv => PrintsDescribeRows
  BY DEF IInv, PrintOfRow, PrintOf, Saving, PrintsDescribeRows, alone
<1> QED
  BY <1>1, Invariant, PTL

\* As long as nothing has failed, overlapped or been restarted, rows are not
\* ahead of the contract and data that is behind is still to come.
THEOREM SavedInOrder == Spec => []InOrder
<1>1. IInv /\ InOrder /\ [Next]_vars => InOrder'
  <2> SUFFICES ASSUME IInv, InOrder, [Next]_vars PROVE InOrder'
    OBVIOUS
  <2>1. CASE \E r \in Runs : UpdatePoolInfo(r) \/ Step(r)
    BY <2>1, OrderBegin, OrderBase, OrderSaveBase, OrderPrints, OrderData, OrderSaveData
    DEF Step, SavePoolBase, SavePoolData
  <2>2. CASE CreatePool \/ (\E p \in Pools : ChangePool(p)) \/ (\E key \in PoolKeys : Expire(key))
    BY <2>2, OrderWorld
  <2>3. CASE Restart
    BY <2>3, Counted DEF IInv, Restart, InOrder
  <2>4. CASE UNCHANGED vars
    BY <2>4 DEF vars, tables, InOrder, NotAhead, ReadInOrder, DataComes, DataFresh, WillSave
  <2> QED
    BY <2>1, <2>2, <2>3, <2>4 DEF Next
<1> QED
  BY <1>1, OrderInit, Invariant, PTL DEF Spec

\* Between rounds of a process in which no call failed, no round overlapped and
\* nothing was restarted, the data shown with a pool is not older than its base
\* record, though the base's fingerprint guards both (SavePoolData).
THEOREM DataKeepsUp == Spec => []DataNotBehind
<1>1. InOrder => DataNotBehind
  BY DEF InOrder, DataComes, DataFresh, WillSave, DataNotBehind, alone
<1> QED
  BY <1>1, SavedInOrder, PTL
=============================================================================
