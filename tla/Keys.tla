--------------------------------- MODULE Keys ---------------------------------
(***************************************************************************)
(* Commands on whole keys: the string commands that create and overwrite   *)
(* keys (strings.rs), DEL, RENAME, MOVE and the expiry commands (keys.rs), *)
(* on the store of Namespace.                                              *)
(***************************************************************************)
EXTENDS Compound

String(ttl) == [type |-> "string", prefix |-> NoPrefix, count |-> 0, ttl |-> ttl]

\* A string written over whatever the keys hold; the elements of a compound
\* value stay where they are.
Overwrite(s, K, ttl) ==
  [s EXCEPT !.pub = [k \in Key |-> IF k \in K THEN String(ttl) ELSE @[k]]]

\* set_keeping_ttl.
Rewrite(s, k) == Overwrite(s, {k}, Live(s, k) /\ s.pub[k].ttl)

\* SetOp: SET with NX, XX, GET, EX and KEEPTTL.  KEEPTTL unwraps the entry it
\* read: on a missing key the task panics and its transaction is dropped.
Set(s, k, mode, get, ttl) ==
  IF get /\ WrongType(s, k, "string") THEN Err(s)
  ELSE IF (mode = "nx" /\ Live(s, k)) \/ (mode = "xx" /\ ~ Live(s, k)) THEN Ok(s)
  ELSE IF ttl # "keep" THEN Ok(Overwrite(s, {k}, ttl = "new"))
  ELSE IF Live(s, k) THEN Ok(Rewrite(s, k)) ELSE Err(s)

GetSet(s, k) == Ok(Overwrite(s, {k}, FALSE))
SetNX(s, k) == Ok(IF Live(s, k) THEN s ELSE Overwrite(s, {k}, FALSE))
MSet(s, K) == Ok(Overwrite(s, K, FALSE))
MSetNX(s, K) == Ok(IF \E k \in K : Live(s, k) THEN s ELSE Overwrite(s, K, FALSE))

\* AppendOp and SetRangeOp.
Append(s, k) == IF WrongType(s, k, "string") THEN Err(s) ELSE Ok(Rewrite(s, k))

\* IncrByFloatOp: fails on a value that is not a number, and writes nothing
\* when the sum is not finite.
IncrByFloat(s, k, isNumber, finite) ==
  IF WrongType(s, k, "string") \/ ~ isNumber THEN Err(s)
  ELSE IF Live(s, k) /\ ~ finite THEN Ok(s) ELSE Ok(Rewrite(s, k))

\* IncrementOp: the bytes of a sentinel never parse as a number.
Increment(s, k, isNumber) ==
  IF WrongType(s, k, "string") \/ (Live(s, k) /\ ~ isNumber) THEN Err(s)
  ELSE Ok(Rewrite(s, k))

GetDel(s, k) == IF WrongType(s, k, "string") THEN Err(s) ELSE Ok(Unlink(s, k))

SetTtl(s, k, ttl) == IF Live(s, k) THEN [s EXCEPT !.pub[k].ttl = ttl] ELSE s

\* GetExOp: `ttl` is "same" without options, "none" for PERSIST, for an EXAT or
\* PXAT in the past, and for EX 0 and PX 0.
GetEx(s, k, ttl) ==
  IF WrongType(s, k, "string") THEN Err(s)
  ELSE Ok(IF ttl = "same" THEN s ELSE SetTtl(s, k, ttl = "new"))

-------------------------------------------------------------------------------
\* ExpireOp and PExpireOp: a TTL of zero, or less, is Duration::ZERO, which the
\* store reads as no expiry.
Expire(s, k, positive) == Ok(SetTtl(s, k, positive))

PersistKey(s, k) == Ok(SetTtl(s, k, FALSE))

\* clear_compound_entries.
clear_compound_entries(s, k) ==
  LET p == prefix_of(s, k)
  IN  IF s.pub[k].type = "string" THEN s ELSE DropElements(s, p, Under(s, p))

\* Mutant: only the public entry goes.
DelKey_PublicOnly(s, k) == Unlink(s, k)

\* DelOp, for one of its keys.
DelKey(s, k) == IF Live(s, k) THEN Unlink(clear_compound_entries(s, k), k) ELSE s

Del(s, k, j) == Ok(DelKey(DelKey(s, k), j))

\* The sentinel a value has under its new name: one addressed by the old name
\* records that prefix from now on.
Renamed(s, old) ==
  IF s.pub[old].prefix # NoPrefix \/ s.pub[old].type = "string" THEN s.pub[old]
  ELSE [s.pub[old] EXCEPT !.prefix = private_key(old)]

\* Mutant: the sentinel is copied as it is.
rename_entry_Copies(s, old, new) ==
  IF old = new THEN s
  ELSE Unlink([(IF Live(s, new) THEN clear_compound_entries(s, new) ELSE s)
               EXCEPT !.pub[new] = s.pub[old]], old)

\* rename_entry.
rename_entry(s, old, new) ==
  IF old = new THEN s
  ELSE Unlink([(IF Live(s, new) THEN clear_compound_entries(s, new) ELSE s)
               EXCEPT !.pub[new] = Renamed(s, old)], old)

Rename(s, old, new) == Ok(IF Live(s, old) THEN rename_entry(s, old, new) ELSE s)

RenameNX(s, old, new) ==
  Ok(IF Live(s, new) \/ ~ Live(s, old) THEN s ELSE rename_entry(s, old, new))

\* move_elements: every element under `from` is re-keyed.
move_elements(s, from, to) ==
  LET F == Under(s, from) IN AddElements(DropElements(s, from, F), to, F)

\* MoveOp: the elements follow, because their prefix contains the database.
MoveTo(s, k, db) ==
  LET target == <<db, k[2]>>
      from == prefix_of(s, k)
      explicit == s.pub[k].prefix # NoPrefix
      to == IF explicit THEN with_db(from, db) ELSE private_key(target)
      moved == IF s.pub[k].type = "string" THEN s ELSE move_elements(s, from, to)
  IN  Unlink([moved EXCEPT !.pub[target] =
                [s.pub[k] EXCEPT !.prefix = IF explicit THEN to ELSE NoPrefix]], k)

Move(s, k, db) ==
  IF db = k[1] THEN Err(s)
  ELSE Ok(IF ~ Live(s, k) \/ Live(s, <<db, k[2]>>) THEN s ELSE MoveTo(s, k, db))

-------------------------------------------------------------------------------
\* FlushDbOp drops the keys of the database, then the elements with prefixes
\* derived from names, then those in namespaces, each on its own.
drop_public(s, db) ==
  [s EXCEPT !.pub = [k \in Key |-> IF k[1] = db THEN Absent ELSE @[k]]]

drop_prefixes(s, db, kind) ==
  [s EXCEPT !.elt = {e \in @ : e[1].db # db \/ e[1].kind # kind}]

FlushAll(s) == [pub |-> [k \in Key |-> Absent], elt |-> {}]
===============================================================================
