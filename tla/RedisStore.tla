----------------------------- MODULE RedisStore ------------------------------
(***************************************************************************)
(* Any sequence of calls of the wrappers in db/redis.go on a database with  *)
(* a clock: what they promise their callers together, whatever the type and *)
(* the lifetime that earlier calls gave a key.                              *)
(***************************************************************************)
EXTENDS Redis

CONSTANTS Data, MaxLife, MaxItems

ASSUME StoreAssumption == Data # {} /\ MaxLife \in Nat /\ MaxItems \in Nat

VARIABLES
  database,
  op, asked, ok   \* the last call, the key and lifetime it asked for, and its success

storeVars == <<database, op, asked, ok>>

NothingAsked == [key |-> CHOOSE k \in Keys : TRUE, life |-> 0]

StoreInit == database = emptied /\ op = "none" /\ asked = NothingAsked /\ ok = TRUE

Record(name, result) == database' = result.db /\ op' = name /\ ok' = result.ok
Do(name, result) == Record(name, result) /\ asked' = NothingAsked
DoFor(k, life, name, result) == Record(name, result) /\ asked' = [key |-> k, life |-> life]

Lives == -1..MaxLife
Times == {<<>>} \cup {<<t>> : t \in Lives}

StringCall(k) ==
  \/ \E d \in Data, life \in Lives :
       \/ DoFor(k, life, "Set", RedisSet(database, k, d, life))
       \/ DoFor(k, life, "SetString", RedisSetString(database, k, d, life))
       \/ DoFor(k, life, "SetInt64", RedisSetInt64(database, k, d, life))
  \/ Do("Get", RedisGet(database, k)) \/ Do("GetString", RedisGetString(database, k))
  \/ Do("GetInt64", RedisGetInt64(database, k))
  \/ Do("Delete", RedisDelete(database, k)) \/ Do("Exists", RedisExists(database, k))
  \/ Do("GetTTL", RedisGetTTL(database, k))

HashCall(k) ==
  \/ \E d \in Data, time \in Times, field \in Data :
       DoFor(k, IF time = <<>> THEN 0 ELSE time[1], "SetHash",
              RedisSetHash(database, k, [f \in {field} |-> d], time))
  \/ Do("GetHashOne", RedisGetHashOne(database, k, "f")) \/ Do("GetHash", RedisGetHash(database, k))
  \/ Do("ExistsHash", RedisExistsHash(database, k)) \/ Do("DelHash", RedisDelHash(database, k))

CollectionCall(k) ==
  \/ \E d \in Data :
       \/ Do("SAdd", RedisSAdd(database, k, d)) \/ Do("LRem", RedisListLRem(database, k, d))
       \/ /\ is(database, k, "list") => Len(items(database, k)) < MaxItems
          /\ Do("Rpush", RedisListRpush(database, k, d))
  \/ Do("Smembers", RedisSmembers(database, k)) \/ Do("LRange", RedisListLRange(database, k))
  \/ Do("Length", RedisListLength(database, k)) \/ Do("DelList", RedisDelList(database, k))

StoreNext ==
  \/ \E k \in Keys : StringCall(k) \/ HashCall(k) \/ CollectionCall(k)
  \/ Do("FlushDB", RedisFlushDB(database)) \/ Do("tick", done(elapse(database), {}))
  \/ \E name \in {"Set", "Get", "SAdd"} : Do(name, lost(database))

StoreSpec == StoreInit /\ [][StoreNext]_storeVars

-----------------------------------------------------------------------------
(* Properties.                                                              *)

\* What a call stores without the lifetime it was asked for, it does not report
\* as stored: a login state, a fingerprint or a token would outlive its time
\* unnoticed, whatever the key held before (RedisSet, RedisSetString,
\* RedisSetInt64, RedisSetHash).
LifetimeOrError ==
  asked.life > 0 /\ ok => database[asked.key].ttl = asked.life
=============================================================================
