------------------------------- MODULE Keyspace -------------------------------
(***************************************************************************)
(* Clients running the commands of Keys and Compound, each in a            *)
(* transaction of its own.  The commands of one transaction see the store  *)
(* as one step (the module Kv): a command is one action.  FLUSHDB is not a *)
(* transaction, and is an action per prefix it drops.                      *)
(***************************************************************************)
EXTENDS Keys

CONSTANTS
  Setups     \* the situations to start in

VARIABLES
  store,     \* public entries and elements
  setup,     \* the situation, which never changes
  flushing   \* the FLUSHDB under way

keyspaceVars == <<store, setup, flushing>>

Idle == [step |-> "idle"]

Commands ==
  {"hset", "hdel", "hsetnx", "hincrby", "sadd", "srem", "spop", "smove", "sstore",
   "set", "strings", "del", "rename", "move", "expire", "flush"}

\* dbs: the databases in use.  legacy: the keys that hold hashes an earlier
\* release wrote.  exec: commands are sent in MULTI, so that one that fails
\* does not undo what it wrote.  overlap: FLUSHDB runs beside other commands.
Situation == [dbs: SUBSET Db, legacy: SUBSET Key, commands: SUBSET Commands,
              exec: BOOLEAN, overlap: BOOLEAN]

ASSUME SetupsAssumption == Setups \subseteq Situation

Keys == setup.dbs \X Name
Fields == SUBSET Field \ {{}}
May(command) == command \in setup.commands

KeyspaceInit ==
  /\ setup \in Setups
  /\ store = [pub |-> [k \in Key |->
                        IF k \notin setup.legacy THEN Absent
                        ELSE [type |-> "hash", prefix |-> NoPrefix,
                              count |-> Cardinality(Field), ttl |-> FALSE]],
              elt |-> {private_key(k) : k \in setup.legacy} \X Field]
  /\ flushing = Idle

\* Session::dispatch_pending_ops, one command.
Run(result) ==
  /\ flushing = Idle \/ setup.overlap
  /\ store' = IF result.failed /\ ~ setup.exec THEN store ELSE result.store
  /\ UNCHANGED <<setup, flushing>>

Creating == RoomForNamespace(store)

HashCommand ==
  /\ Creating
  /\ \E k \in Keys :
       \/ May("hset") /\ \E F \in Fields : Run(HSet(store, k, F))
       \/ May("hdel") /\ \E F \in Fields : Run(HDel(store, k, F))
       \/ May("hsetnx") /\ \E f \in Field : Run(HSetNx(store, k, f))
       \/ May("hincrby") /\ \E f \in Field, n \in BOOLEAN : Run(HIncrBy(store, k, f, n))

SetCommand ==
  /\ Creating
  /\ \E k \in Keys :
       \/ May("sadd") /\ \E F \in Fields : Run(SAdd(store, k, F))
       \/ May("srem") /\ \E F \in Fields : Run(SRem(store, k, F))
       \/ May("spop") /\ \E m \in Field : Run(SPop(store, k, m))
       \/ May("smove") /\ \E j \in Keys, m \in Field : Run(SMove(store, k, j, m))
       \/ /\ May("sstore")
          /\ \E kind \in {"diff", "inter", "union"}, a, b \in Keys :
               Run(SStore(store, kind, k, a, b))

StringCommand ==
  \E k \in Keys :
    \/ /\ May("set")
       /\ \E mode \in {"any", "nx", "xx"}, get \in BOOLEAN, ttl \in {"none", "new", "keep"} :
            Run(Set(store, k, mode, get, ttl))
    \/ /\ May("strings")
       /\ \/ Run(GetSet(store, k)) \/ Run(SetNX(store, k)) \/ Run(Append(store, k))
          \/ Run(GetDel(store, k))
          \/ \E n \in BOOLEAN : Run(Increment(store, k, n))
          \/ \E n, finite \in BOOLEAN : Run(IncrByFloat(store, k, n, finite))
          \/ \E ttl \in {"same", "new", "none"} : Run(GetEx(store, k, ttl))
          \/ \E j \in Keys : Run(MSet(store, {k, j})) \/ Run(MSetNX(store, {k, j}))

KeyCommand ==
  \E k \in Keys :
    \/ May("del") /\ \E j \in Keys : Run(Del(store, k, j))
    \/ /\ May("rename")
       /\ \E n \in Name : Run(Rename(store, k, <<k[1], n>>)) \/ Run(RenameNX(store, k, <<k[1], n>>))
    \/ May("move") /\ \E db \in setup.dbs : Run(Move(store, k, db))
    \/ /\ May("expire")
       /\ Run(PersistKey(store, k)) \/ \E positive \in BOOLEAN : Run(Expire(store, k, positive))

\* The deadline of a key passes: reads find nothing under it from then on.
DeadlinePasses ==
  \E k \in Key :
    /\ Live(store, k) /\ store.pub[k].ttl
    /\ store' = Unlink(store, k)
    /\ UNCHANGED <<setup, flushing>>

FlushDbStarts(db) ==
  /\ May("flush") /\ flushing = Idle
  /\ store' = drop_public(store, db)
  /\ flushing' = [step |-> "named", db |-> db]
  /\ UNCHANGED setup

FlushDbNamed ==
  /\ flushing.step = "named"
  /\ store' = drop_prefixes(store, flushing.db, "-")
  /\ flushing' = [flushing EXCEPT !.step = "namespaces"]
  /\ UNCHANGED setup

FlushDbNamespaces ==
  /\ flushing.step = "namespaces"
  /\ store' = drop_prefixes(store, flushing.db, "+")
  /\ flushing' = Idle
  /\ UNCHANGED setup

FlushEverything ==
  /\ May("flush") /\ flushing = Idle
  /\ store' = FlushAll(store)
  /\ UNCHANGED <<setup, flushing>>

KeyspaceNext ==
  \/ HashCommand \/ SetCommand \/ StringCommand \/ KeyCommand
  \/ DeadlinePasses
  \/ \E db \in setup.dbs : FlushDbStarts(db)
  \/ FlushDbNamed \/ FlushDbNamespaces \/ FlushEverything

KeyspaceSpec == KeyspaceInit /\ [][KeyspaceNext]_keyspaceVars

-------------------------------------------------------------------------------
\* The shape of the public entries and of the elements.
KeyspaceTypeOK ==
  /\ setup \in Setups
  /\ store \in Store
  /\ flushing \in {Idle} \cup [step: {"named", "namespaces"}, db: Db]

Compound(k) == Live(store, k) /\ store.pub[k].type # "string"

\* hash.rs: the sentinel "holds the field count"; set.rs says the same.  HLEN
\* and SCARD answer it, HDEL and SREM delete the key when it comes to zero.
CountIsSize ==
  \A k \in Key : Compound(k) => HLen(store, k) = Cardinality(HKeys(store, k))

\* No two values share a prefix: what one command does to one key's elements
\* no other key shows.
OwnElements ==
  \A j, k \in Key :
    (j # k /\ Compound(j) /\ Compound(k)) => prefix_of(store, j) # prefix_of(store, k)

\* HGET and the commands like it read a field without looking for the key.  In
\* a store this release created they still find none under a key that is
\* missing, expired or a string.
NoPhantomFields ==
  setup.legacy = {} => \A k \in Key, f \in Field : HGet(store, k, f) => Compound(k)

\* The elements no live value owns.
Garbage(s) ==
  {e \in s.elt : \A k \in Key : ~ (Live(s, k) /\ s.pub[k].type # "string" /\ prefix_of(s, k) = e[1])}

\* Elements are left behind only by a key that expired or was overwritten with
\* a string: DEL, RENAME, MOVE and the STORE commands free what they replace.
OnlyExpiryAndOverwriteLeak ==
  [][\A e \in Garbage(store)' \ Garbage(store) :
       \E k \in Key : /\ Compound(k) /\ prefix_of(store, k) = e[1]
                      /\ store.pub[k].ttl \/ Holds(store, k, "string")' \/ flushing' # Idle
    ]_keyspaceVars

\* Sentinels and elements implement the map of RedisKeys.
ValueOf(k) ==
  [type |-> store.pub[k].type,
   elems |-> IF store.pub[k].type = "string" THEN {} ELSE Under(store, prefix_of(store, k)),
   ttl |-> store.pub[k].ttl]

Redis ==
  INSTANCE RedisKeys WITH
    Type <- Types, Element <- Field, Nothing <- Absent,
    val <- [k \in Key |-> IF Live(store, k) THEN ValueOf(k) ELSE Absent]

KeepsRedisPromise == Redis!RedisSpec

\* SMOVE between sets takes the member from one and gives it to the other, or
\* does nothing: it neither loses nor copies it.
SMoveConserves ==
  [][\A j, k \in Keys, m \in Field :
       (Creating /\ May("smove") /\ Run(SMove(store, j, k, m)))
         => (UNCHANGED store \/ (Redis!Only({j, k}) /\ Redis!Transfer(j, k, m)))
    ]_keyspaceVars
===============================================================================
