------------------------------ MODULE MCKeyspace ------------------------------
(* Keyspace on small instances for TLC.                                     *)
EXTENDS Keyspace, TLC

CONSTANTS db0, db1, a, b

Situations(dbs, legacy, commands, exec, overlap) ==
  [dbs: {dbs}, legacy: {legacy}, commands: {commands}, exec: {exec}, overlap: {overlap}]

\* A hash an earlier release wrote, renamed, overwritten and rebuilt.
LegacyData ==
  Situations({db0}, {<<db0, a>>},
             {"hset", "hdel", "hsetnx", "hincrby", "set", "del", "rename", "expire", "flush"},
             FALSE, FALSE)

\* Values moved between databases.
TwoDatabases ==
  Situations({db0, db1}, {}, {"hset", "hdel", "del", "rename", "move", "flush"}, FALSE, FALSE)

\* Members moved between sets, and sets computed from sets.
SetsAndStrings ==
  Situations({db0}, {}, {"sadd", "srem", "spop", "smove", "sstore", "strings", "del", "expire"},
             FALSE, FALSE)

\* Commands in MULTI on keys of every type.
MixedTypes ==
  Situations({db0}, {}, {"hset", "hdel", "sadd", "srem", "spop", "sstore", "strings", "rename"},
             TRUE, FALSE)

PassingSetups == LegacyData \cup TwoDatabases \cup SetsAndStrings \cup MixedTypes

\* FLUSHDB beside a client that writes a hash.
OverlappingFlush ==
  Situations({db0}, {}, {"hset", "hdel", "flush"}, FALSE, TRUE)

FieldSymmetry == Permutations(Field)
===============================================================================
