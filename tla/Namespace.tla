------------------------------ MODULE Namespace ------------------------------
(***************************************************************************)
(* Where the elements of compound values live (common/namespace.rs, RFC    *)
(* 0001).  A key's public entry, its sentinel, carries the value's type,   *)
(* the number of its elements and, when it records one, the physical       *)
(* prefix they are stored under; a sentinel without one (written by a      *)
(* release before namespaces) has the prefix derived from the key's name.  *)
(*                                                                         *)
(* A command is an operator from the store it finds in its transaction to  *)
(* the store it leaves and whether it failed; Keyspace runs them.          *)
(***************************************************************************)
EXTENDS Integers, FiniteSets

CONSTANTS
  Db,        \* numbers of the databases
  Name,      \* names of keys
  Field,     \* hash fields and set members
  MaxId,     \* bound on the namespaces in the store at once
  NoPrefix,  \* what a sentinel without the namespace flag records
  Absent     \* no live entry under a public key

ASSUME NamespaceAssumption ==
  /\ MaxId \in Nat
  /\ NoPrefix \notin [kind: {"-", "+"}, db: Db, id: Name \cup 1..MaxId]

Key == Db \X Name
Types == {"string", "hash", "set"}
Prefix == [kind: {"-"}, db: Db, id: Name] \cup [kind: {"+"}, db: Db, id: 1..MaxId]
Sentinel == [type: Types, prefix: Prefix \cup {NoPrefix}, count: Nat, ttl: BOOLEAN]
Store == [pub: [Key -> Sentinel \cup {Absent}], elt: SUBSET (Prefix \X Field)]

\* A failed command's writes are dropped with its transaction, except in EXEC.
Ok(s) == [store |-> s, failed |-> FALSE]
Err(s) == [store |-> s, failed |-> TRUE]

Live(s, k) == s.pub[k] # Absent
Holds(s, k, type) == Live(s, k) /\ s.pub[k].type = type

\* The elements stored under a prefix, by field.
Under(s, p) == {f \in Field : <<p, f>> \in s.elt}

\* Session::private_key: the prefix derived from the name.
private_key(k) == [kind |-> "-", db |-> k[1], id |-> k[2]]

\* prefix_of, for a live sentinel.
prefix_of(s, k) ==
  IF s.pub[k].prefix = NoPrefix THEN private_key(k) ELSE s.pub[k].prefix

\* Mutant: the name supplies the namespace of a new value too.
new_namespace_Named(s, db) == [kind |-> "-", db |-> db, id |-> CHOOSE n \in Name : TRUE]

\* new_namespace: 128 random bits, so none that an element or a sentinel uses.
Recorded(s) == {s.pub[k].prefix : k \in {j \in Key : Live(s, j)}} \ {NoPrefix}

UsedIds(s) ==
  {p.id : p \in {q \in Recorded(s) \cup {e[1] : e \in s.elt} : q.kind = "+"}}

new_namespace(s, db) ==
  [kind |-> "+", db |-> db,
   id |-> CHOOSE i \in 1..MaxId :
            i \notin UsedIds(s) /\ \A j \in 1..(i - 1) : j \in UsedIds(s)]

RoomForNamespace(s) == \E i \in 1..MaxId : i \notin UsedIds(s)

\* Mutant: a new value has the prefix derived from its name.
resolve_prefix_for_write_Named(s, k) ==
  IF Live(s, k) THEN prefix_of(s, k) ELSE private_key(k)

\* A value about to be created gets a namespace of its own.
resolve_prefix_for_write(s, k) ==
  IF Live(s, k) THEN prefix_of(s, k) ELSE new_namespace(s, k[1])

\* A missing key has no namespace.
resolve_prefix(s, k) == IF Live(s, k) THEN prefix_of(s, k) ELSE private_key(k)

\* with_db: the same prefix in another database.
with_db(p, db) == [p EXCEPT !.db = db]

\* ElementPrefix::explicit: what the sentinel written with a resolved prefix
\* records of it.
Explicit(s, k, p) == IF Live(s, k) /\ s.pub[k].prefix = NoPrefix THEN NoPrefix ELSE p

\* write_sentinel: keeps the key's TTL, and refuses to drop a namespace.
write_sentinel(s, k, type, count, recorded) ==
  IF Live(s, k) /\ s.pub[k].prefix # NoPrefix /\ recorded = NoPrefix
  THEN Err(s)
  ELSE Ok([s EXCEPT !.pub[k] = [type |-> type, prefix |-> recorded, count |-> count,
                                ttl |-> Live(s, k) /\ s.pub[k].ttl]])

\* read_sentinel and set_count: the count, 0 for a missing key.
Count(s, k) == IF Live(s, k) THEN s.pub[k].count ELSE 0

Unlink(s, k) == [s EXCEPT !.pub[k] = Absent]
===============================================================================
