------------------------------- MODULE Compound -------------------------------
(***************************************************************************)
(* Hashes (hash.rs) and sets (set.rs): a sentinel with the number of       *)
(* elements, and one entry per field or member under the value's prefix.   *)
(* Field values are left out, what a command does with them decides only   *)
(* whether it fails.                                                       *)
(***************************************************************************)
EXTENDS Namespace

WrongType(s, k, type) == Live(s, k) /\ s.pub[k].type # type

AddElements(s, p, F) == [s EXCEPT !.elt = @ \cup {<<p, f>> : f \in F}]
DropElements(s, p, F) == [s EXCEPT !.elt = @ \ {<<p, f>> : f \in F}]

\* HSetOp and SAddOp: the elements not there yet are counted.
Insert(s, k, type, F) ==
  LET p == resolve_prefix_for_write(s, k)
  IN  IF WrongType(s, k, type) THEN Err(s)
      ELSE write_sentinel(AddElements(s, p, F), k, type,
                          Count(s, k) + Cardinality(F \ Under(s, p)), Explicit(s, k, p))

\* HDelOp and SRemOp: the last element takes the key with it.
Erase(s, k, type, F) ==
  LET p == resolve_prefix(s, k)
      count == Count(s, k) - Cardinality(F \cap Under(s, p))
      left == DropElements(s, p, F)
  IN  IF ~ Live(s, k) THEN Ok(s)
      ELSE IF WrongType(s, k, type) THEN Err(s)
      ELSE IF count = 0 THEN Ok(Unlink(left, k))
      ELSE write_sentinel(left, k, type, count, Explicit(s, k, p))

HSet(s, k, F) == Insert(s, k, "hash", F)

\* Mutant: a field that is not there is counted as removed.
HDel_CountsAll(s, k, F) ==
  LET p == resolve_prefix(s, k)
      count == Count(s, k) - Cardinality(F)
      left == DropElements(s, p, F)
  IN  IF ~ Live(s, k) THEN Ok(s)
      ELSE IF WrongType(s, k, "hash") THEN Err(s)
      ELSE IF count = 0 THEN Ok(Unlink(left, k))
      ELSE write_sentinel(left, k, "hash", count, Explicit(s, k, p))

HDel(s, k, F) == Erase(s, k, "hash", F)
SRem(s, k, F) == Erase(s, k, "set", F)

\* Mutant: a member that is there already is counted again.
SAdd_CountsAll(s, k, F) ==
  LET p == resolve_prefix_for_write(s, k)
  IN  IF WrongType(s, k, "set") THEN Err(s)
      ELSE write_sentinel(AddElements(s, p, F), k, "set",
                          Count(s, k) + Cardinality(F), Explicit(s, k, p))

SAdd(s, k, F) == Insert(s, k, "set", F)

\* HSetNxOp: the field is written before the type of the key is checked.
HSetNx(s, k, f) ==
  LET p == resolve_prefix_for_write(s, k)
      written == AddElements(s, p, {f})
  IN  IF f \in Under(s, p) THEN Ok(s)
      ELSE IF WrongType(s, k, "hash") THEN Err(written)
      ELSE write_sentinel(written, k, "hash", Count(s, k) + 1, Explicit(s, k, p))

\* HIncrByOp and HIncrByFloatOp: like HSetNxOp, but fail on a field that does
\* not hold a number, or when the amount is not one.
HIncrBy(s, k, f, isNumber) == IF isNumber THEN HSetNx(s, k, f) ELSE Err(s)

\* SPopOp: `m` is the member at a random index.
SPop(s, k, m) ==
  LET p == resolve_prefix(s, k)
      left == DropElements(s, p, {m})
  IN  IF ~ Live(s, k) THEN Ok(s)
      ELSE IF WrongType(s, k, "set") THEN Err(s)
      ELSE IF m \notin Under(s, p) THEN Ok(s)
      ELSE IF Count(s, k) = 1 THEN Ok(Unlink(left, k))
      ELSE write_sentinel(left, k, "set", Count(s, k) - 1, Explicit(s, k, p))

\* The second half of SMoveOp.  The type of the destination is checked only
\* when it has no element named m.
MoveInto(s, dst, m) ==
  LET p == resolve_prefix_for_write(s, dst)
      written == AddElements(s, p, {m})
  IN  IF m \in Under(s, p) THEN Ok(s)
      ELSE IF WrongType(s, dst, "set") THEN Err(written)
      ELSE write_sentinel(written, dst, "set", Count(s, dst) + 1, Explicit(s, dst, p))

\* Mutant: the source keeps the member.
SMove_Copies(s, src, dst, m) ==
  IF WrongType(s, src, "set") THEN Err(s)
  ELSE IF src = dst \/ ~ Live(s, src) \/ m \notin Under(s, resolve_prefix(s, src)) THEN Ok(s)
  ELSE MoveInto(s, dst, m)

\* SMoveOp.
SMove(s, src, dst, m) ==
  LET p == resolve_prefix(s, src)
      left == DropElements(s, p, {m})
  IN  IF WrongType(s, src, "set") THEN Err(s)
      ELSE IF src = dst \/ ~ Live(s, src) \/ m \notin Under(s, p) THEN Ok(s)
      ELSE MoveInto(IF Count(s, src) = 1 THEN Unlink(left, src)
                    ELSE write_sentinel(left, src, "set", Count(s, src) - 1,
                                        Explicit(s, src, p)).store, dst, m)

\* load_set_members.
Members(s, k) == IF Live(s, k) THEN Under(s, prefix_of(s, k)) ELSE {}

\* BinarySetOp.
Combined(s, kind, a, b) ==
  CASE kind = "diff" -> Members(s, a) \ Members(s, b)
    [] kind = "inter" -> Members(s, a) \cap Members(s, b)
    [] kind = "union" -> Members(s, a) \cup Members(s, b)

\* clear_set: whatever the destination holds.
clear_set(s, k) ==
  LET p == resolve_prefix(s, k) IN Unlink(DropElements(s, p, Under(s, p)), k)

\* store_set_result: an empty result leaves an empty set.
store_set_result(s, dst, F) ==
  LET cleared == clear_set(s, dst)
      p == new_namespace(cleared, dst[1])
  IN  write_sentinel(AddElements(cleared, p, F), dst, "set", Cardinality(F), p)

\* StoreOp.
SStore(s, kind, dst, a, b) ==
  IF WrongType(s, a, "set") \/ WrongType(s, b, "set") THEN Err(s)
  ELSE store_set_result(s, dst, Combined(s, kind, a, b))

-------------------------------------------------------------------------------
\* What the reading commands find.  HGET, HMGET, HEXISTS and HSTRLEN go straight
\* to the field.
HGet(s, k, f) == f \in Under(s, resolve_prefix(s, k))

\* HKEYS, HVALS, HGETALL, HRANDFIELD and HSCAN look for the key first.
HKeys(s, k) == IF Live(s, k) THEN Under(s, resolve_prefix(s, k)) ELSE {}

HLen(s, k) == Count(s, k)
===============================================================================
