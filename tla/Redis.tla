------------------------------- MODULE Redis --------------------------------
(***************************************************************************)
(* db/redis.go: the wrappers through which both backend processes use their *)
(* redis database, each as an operator from a database to what the call     *)
(* leaves there and answers.                                                *)
(*                                                                          *)
(* A database maps keys to entries.  ttl is the number of ticks left to an  *)
(* entry, Forever for one that does not expire.  A connection that fails is *)
(* the callers' business: lost(db) stands for every such call.              *)
(***************************************************************************)
EXTENDS Integers, SequencesExt

CONSTANTS Keys,     \* keys of the database
          Numbers   \* the strings that are decimal integers

Forever == -1
none == [type |-> "none"]
entry(t, v, life) == [type |-> t, value |-> v, ttl |-> life]
hashEntry(data) == [type |-> "hash", fields |-> data, ttl |-> Forever]
setEntry(S) == [type |-> "set", members |-> S, ttl |-> Forever]
listEntry(s) == [type |-> "list", items |-> s, ttl |-> Forever]

\* The value of a string entry: JSON text, or the string itself.
json(data) == <<"json", data>>
raw(data) == <<"raw", data>>

emptied == [k \in Keys |-> none]

done(db, reply) == [db |-> db, ok |-> TRUE, reply |-> reply]
refused(db, reply) == [db |-> db, ok |-> FALSE, reply |-> reply]
lost(db) == refused(db, "lost")

put(db, key, e) == [db EXCEPT ![key] = e]
is(db, key, t) == db[key].type \in {t, "none"}

lifetime(seconds) == IF seconds > 0 THEN seconds ELSE Forever

-----------------------------------------------------------------------------
(* Strings.                                                                 *)

RedisSet(db, key, data, aliveSeconds) ==
  done(put(db, key, entry("string", json(data), lifetime(aliveSeconds))), {})

RedisSetString(db, key, data, aliveSeconds) ==
  done(put(db, key, entry("string", raw(data), lifetime(aliveSeconds))), {})

RedisGet(db, key) ==
  IF db[key].type = "string" THEN done(db, db[key].value) ELSE refused(db, {})

RedisGetString(db, key) == RedisGet(db, key)

\* A faulty store does not mind the answer to the set, and has no lifetime to send.
setInt64Forever(db, key, data, time) ==
  done(put(db, key, entry("string", json(data), Forever)), {})

\* redis.Int64 cannot read the "OK" of the set: the value is stored, the call
\* answers an error and the lifetime is never sent.
RedisSetInt64(db, key, data, time) ==
  refused(put(db, key, entry("string", json(data), Forever)), {})

RedisGetInt64(db, key) ==
  IF db[key].type = "string" /\ db[key].value[2] \in Numbers
  THEN done(db, db[key].value[2]) ELSE refused(db, -1)

RedisDelete(db, key) == done(put(db, key, none), db[key] # none)
RedisFlushDB(db) == done(emptied, {})
RedisExists(db, key) == done(db, db[key] # none)
RedisGetTTL(db, key) == done(db, IF db[key] = none THEN -2 ELSE db[key].ttl)

-----------------------------------------------------------------------------
(* Hashes.                                                                  *)

\* EXPIRE, which deletes the key when the time is not positive.
expire(db, key, time) ==
  IF db[key] = none THEN db
  ELSE IF time > 0 THEN put(db, key, [db[key] EXCEPT !.ttl = time]) ELSE put(db, key, none)

hset(db, key, data) ==
  IF ~is(db, key, "hash") \/ data = <<>> THEN db
  ELSE IF db[key] = none THEN put(db, key, hashEntry(data))
       ELSE put(db, key, [db[key] EXCEPT !.fields = data @@ @])

\* The replies to the pipelined hset commands are read by the expire that
\* follows them, so without a time (<<>> for nil) their errors go unseen.
RedisSetHash(db, key, data, time) ==
  IF time = <<>> THEN done(hset(db, key, data), {})
  ELSE LET after == expire(hset(db, key, data), key, time[1])
       IN  IF is(db, key, "hash") \/ data = <<>> THEN done(after, {}) ELSE refused(after, {})

\* hgetall takes no field and hexists takes one: both commands always fail.
RedisGetHashOne(db, key, name) == refused(db, {})
RedisExistsHash(db, key) == done(db, FALSE)

RedisGetHash(db, key) ==
  IF ~is(db, key, "hash") THEN refused(db, {})
  ELSE done(db, IF db[key] = none THEN <<>> ELSE db[key].fields)

RedisDelHash(db, key) == done(db, TRUE)

-----------------------------------------------------------------------------
(* Sets and lists.                                                          *)

RedisSAdd(db, k, v) ==
  IF ~is(db, k, "set") THEN refused(db, -1)
  ELSE IF db[k] = none THEN done(put(db, k, setEntry({v})), 1)
       ELSE done(put(db, k, [db[k] EXCEPT !.members = @ \cup {v}]),
                 IF v \in db[k].members THEN 0 ELSE 1)

RedisSmembers(db, k) ==
  IF ~is(db, k, "set") THEN refused(db, {})
  ELSE done(db, IF db[k] = none THEN {} ELSE db[k].members)

items(db, listName) == IF db[listName] = none THEN <<>> ELSE db[listName].items

RedisListRpush(db, listName, encryption) ==
  IF ~is(db, listName, "list") THEN refused(db, {})
  ELSE IF db[listName] = none
       THEN done(put(db, listName, listEntry(<<encryption>>)), {})
       ELSE done(put(db, listName, [db[listName] EXCEPT !.items = Append(@, encryption)]), {})

RedisListLRange(db, listName) ==
  IF is(db, listName, "list") THEN done(db, items(db, listName)) ELSE refused(db, <<>>)

\* redis deletes a list that becomes empty.
RedisListLRem(db, listName, e) ==
  IF ~is(db, listName, "list") THEN refused(db, {})
  ELSE LET left == RemoveFirst(items(db, listName), e)
       IN  IF left = <<>> THEN done(put(db, listName, none), {})
           ELSE done(put(db, listName, [db[listName] EXCEPT !.items = left]), {})

RedisListLength(db, listName) ==
  IF is(db, listName, "list") THEN done(db, Len(items(db, listName))) ELSE refused(db, {})

RedisDelList(db, setName) == done(put(db, setName, none), {})

-----------------------------------------------------------------------------

\* External: a tick of the server's clock, after which what has no time left
\* is gone.
elapse(db) ==
  [k \in Keys |->
     IF db[k] = none \/ db[k].ttl = Forever THEN db[k]
     ELSE IF db[k].ttl = 1 THEN none ELSE [db[k] EXCEPT !.ttl = @ - 1]]
=============================================================================
