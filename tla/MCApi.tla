-------------------------------- MODULE MCApi --------------------------------
(* The parts of the API process that share no state, side by side for TLC: a *)
(* behaviour is one of one part, so that their states add up.               *)
EXTENDS AdminApi, ApiQueries, LockedMap, RedisStore, BackendUtils, Processes

VARIABLE part

apiVars == <<vars, queryVars, mapVars, storeVars, utilVars, procVars, part>>

ApiInit ==
  /\ part \in {"admin", "queries", "map", "redis", "utils", "processes"}
  /\ Init /\ QueryInit /\ MapInit /\ StoreInit
  /\ IF part = "utils" THEN UtilInit
     ELSE UtilInit /\ threshold = 0
  /\ IF part = "processes" THEN ProcInit
     ELSE /\ around = [need \in Needs |-> TRUE] /\ at = [p \in Procs |-> "running"]
          /\ starts = [p \in Procs |-> 0] /\ tables = {} /\ panics = 0

ApiNext ==
  /\ UNCHANGED part
  /\ \/ part = "admin" /\ Next /\ UNCHANGED <<queryVars, mapVars, storeVars, utilVars, procVars>>
     \/ part = "queries" /\ QueryNext /\ UNCHANGED <<vars, mapVars, storeVars, utilVars, procVars>>
     \/ part = "map" /\ MapNext /\ UNCHANGED <<vars, queryVars, storeVars, utilVars, procVars>>
     \/ part = "redis" /\ StoreNext /\ UNCHANGED <<vars, queryVars, mapVars, utilVars, procVars>>
     \/ part = "utils" /\ UtilNext /\ UNCHANGED <<vars, queryVars, mapVars, storeVars, procVars>>
     \/ part = "processes" /\ ProcNext /\ UNCHANGED <<vars, queryVars, mapVars, storeVars, utilVars>>

\* ProcFairness, for the one part that has any.
ApiFairness == \A p \in Procs : WF_procVars(part = "processes" /\ ProcStep(p))

ApiSpec == ApiInit /\ [][ApiNext]_apiVars /\ ApiFairness

=============================================================================
