----------------------------- MODULE Processes ------------------------------
(***************************************************************************)
(* The two backend processes from start to end and start again: the API and *)
(* the scheduler, each waiting for MySQL and redis, and the service manager *)
(* that starts it whenever it has ended.                                    *)
(*                                                                          *)
(* api/pledge_api.go, schedule/pledge_task.go, db/{mysql,redis}.go, the two *)
(* InitTable, schedule/common/common.go, schedule/tasks/task.go, and the    *)
(* .service files beside the programs.  What a process does once it runs is *)
(* AdminApi, ApiQueries and PriceFeed, PoolSync and TokenCache.             *)
(***************************************************************************)
EXTENDS Naturals, Sequences

CONSTANTS
  StartLimitBurst,   \* 5 in both units
  MaxPanics          \* panics of running processes in a behaviour

ASSUME ProcessesAssumption == StartLimitBurst \in Nat \ {0} /\ MaxPanics \in Nat

VARIABLES
  around,     \* what the processes need and have: stores, environment, port
  at,         \* where each main is, or how it ended
  starts,     \* starts of each in the last StartLimitIntervalSec
  tables,     \* tables in MySQL
  panics

procVars == <<around, at, starts, tables, panics>>

Procs == {"api", "task"}
Needs == {"mysql", "redis", "key", "port"}

\* Each main, in order; Task's first round of jobs is part of running.
main == [api  |-> <<"InitMysql", "InitRedis", "InitTable", "BindingValidator", "Run">>,
         task |-> <<"InitMysql", "InitRedis", "InitTable", "GetEnv", "RedisFlushDB">>]

Tables == [api  |-> {"multi_sign", "poolbases", "pooldata", "token_info"},
           task |-> {"poolbases", "pooldata", "redis_token_info", "token_info"}]

over == {"panicked", "returned"}

\* The configuration has been read: without it a program does not get to main.
ProcInit ==
  /\ around \in [Needs -> BOOLEAN]
  /\ at = [p \in Procs |-> "InitMysql"]
  /\ starts = [p \in Procs |-> 1]
  /\ tables = {} /\ panics = 0

follows(p, step) ==
  LET i == CHOOSE i \in DOMAIN main[p] : main[p][i] = step
  IN  IF i = Len(main[p]) THEN "running" ELSE main[p][i + 1]

Proceed(p, ok, otherwise) ==
  at' = [at EXCEPT ![p] = IF ok THEN follows(p, @) ELSE otherwise]

Doing(p, step) == at[p] = step /\ UNCHANGED <<around, starts, panics>>

-----------------------------------------------------------------------------

\* gorm.Open pings the server.
InitMysql(p) ==
  Doing(p, "InitMysql") /\ Proceed(p, around["mysql"], "panicked") /\ UNCHANGED tables

\* One connection of the pool is dialled, authenticated and bound to its
\* database; either failing is a panic.
InitRedis(p) ==
  Doing(p, "InitRedis") /\ Proceed(p, around["redis"], "panicked") /\ UNCHANGED tables

\* The error of each AutoMigrate is dropped.
InitTable(p) ==
  /\ Doing(p, "InitTable") /\ Proceed(p, TRUE, "panicked")
  /\ tables' = IF around["mysql"] THEN tables \cup Tables[p] ELSE tables

BindingValidator(p) ==
  Doing(p, "BindingValidator") /\ Proceed(p, TRUE, "panicked") /\ UNCHANGED tables

\* The sockets' server and the price feed are started, and the routes set up.
\* A port that is taken makes Run answer an error, which main drops.
Run(p) ==
  Doing(p, "Run") /\ Proceed(p, around["port"], "returned") /\ UNCHANGED tables

GetEnv(p) ==
  Doing(p, "GetEnv") /\ Proceed(p, around["key"], "panicked") /\ UNCHANGED tables

FlushRedis(p) ==
  Doing(p, "RedisFlushDB") /\ Proceed(p, around["redis"], "panicked") /\ UNCHANGED tables

\* A later connection of the pool that redis accepts and cuts before it is
\* authenticated panics too, outside of gin's recovery when the price feed or a
\* job asked for it.
DialPanics(p) ==
  /\ at[p] = "running" /\ panics < MaxPanics /\ panics' = panics + 1
  /\ at' = [at EXCEPT ![p] = "panicked"]
  /\ UNCHANGED <<around, starts, tables>>

\* A faulty unit starts only a process that has failed.
RestartOnFailure(p) ==
  /\ at[p] = "panicked"
  /\ IF starts[p] < StartLimitBurst
     THEN /\ at' = [at EXCEPT ![p] = "InitMysql"] /\ starts' = [starts EXCEPT ![p] = @ + 1]
     ELSE at' = [at EXCEPT ![p] = "given up"] /\ UNCHANGED starts
  /\ UNCHANGED <<around, tables, panics>>

\* Restart=always, until StartLimitBurst starts have failed within the interval.
Restart(p) ==
  /\ at[p] \in over
  /\ IF starts[p] < StartLimitBurst
     THEN /\ at' = [at EXCEPT ![p] = "InitMysql"] /\ starts' = [starts EXCEPT ![p] = @ + 1]
     ELSE at' = [at EXCEPT ![p] = "given up"] /\ UNCHANGED starts
  /\ UNCHANGED <<around, tables, panics>>

-----------------------------------------------------------------------------

\* External: the interval passes, while the process runs or hangs in a start.
Calm(p) ==
  /\ at[p] \notin over \cup {"given up"} /\ starts[p] > 0
  /\ starts' = [starts EXCEPT ![p] = 0]
  /\ UNCHANGED <<around, at, tables, panics>>

\* External: a store, the key or the port comes or goes.
Change(need) ==
  /\ around' = [around EXCEPT ![need] = ~@]
  /\ UNCHANGED <<at, starts, tables, panics>>

ProcStep(p) ==
  \/ InitMysql(p) \/ InitRedis(p) \/ InitTable(p) \/ BindingValidator(p) \/ Run(p)
  \/ GetEnv(p) \/ FlushRedis(p) \/ Restart(p)

ProcNext ==
  \/ \E p \in Procs : ProcStep(p) \/ DialPanics(p) \/ Calm(p)
  \/ \E need \in Needs : Change(need)

\* A start does not hang for ever, and systemd acts on every end.
ProcFairness == \A p \in Procs : WF_procVars(ProcStep(p))

-----------------------------------------------------------------------------
(* Properties.                                                              *)

\* Once the stores, the key and the port are there to stay, each process ends
\* up running, whatever it died of before and even if it had left main without
\* an error, unless it failed StartLimitBurst times too fast and was given up
\* (Run, Restart).
ComesBack ==
  \A p \in Procs :
    <>[](\A need \in Needs : around[need]) => <>[](at[p] \in {"running", "given up"})
=============================================================================
