------------------------------ MODULE RedisKeys ------------------------------
(***************************************************************************)
(* What the keyspace promises its clients: a map from keys to values, in   *)
(* which a value belongs to its key alone.  Keyspace implements it with    *)
(* sentinels and elements.                                                 *)
(***************************************************************************)
CONSTANTS Key, Type, Element, Nothing

VARIABLE val

Value == [type: Type, elems: SUBSET Element, ttl: BOOLEAN]

RedisInit == val \in [Key -> Value \cup {Nothing}]

Has(k, type) == val[k] # Nothing /\ val[k].type = type

\* A step changes the values of K alone.
Only(K) == \A k \in Key \ K : val'[k] = val[k]

\* What is left of a value; nothing of one without elements.
Rest(v, F) == IF v.elems \subseteq F THEN Nothing ELSE [v EXCEPT !.elems = @ \ F]

Extended(v, type, F) ==
  IF v = Nothing THEN [type |-> type, elems |-> F, ttl |-> FALSE]
  ELSE [v EXCEPT !.elems = @ \cup F]

Insert(k, type, F) ==
  /\ val[k] = Nothing \/ Has(k, type)
  /\ val'[k] = Extended(val[k], type, F)

Erase(k, type, F) ==
  /\ Has(k, type)
  /\ val'[k] = Rest(val[k], F)

\* A new set replaces whatever the key held.
Replace(k, F) == val'[k] = [type |-> "set", elems |-> F, ttl |-> FALSE]

Retime(k, ttl) ==
  /\ val[k] # Nothing
  /\ val'[k] = [val[k] EXCEPT !.ttl = ttl]

\* A member moves from one set to another.
Transfer(src, dst, m) ==
  /\ Has(src, "set") /\ m \in val[src].elems
  /\ val[dst] = Nothing \/ Has(dst, "set")
  /\ val'[src] = Rest(val[src], {m})
  /\ val'[dst] = Extended(val[dst], "set", {m})

\* RENAME and MOVE: the whole value, with its expiry, has another key.
Relocate(from, to) ==
  /\ val[from] # Nothing
  /\ val'[to] = val[from]
  /\ val'[from] = Nothing

\* Any number of keys are removed, or overwritten with strings.
Remove == \A k \in Key : val'[k] \in {val[k], Nothing}

Write(ttl) ==
  \A k \in Key : val'[k] \in {val[k], [type |-> "string", elems |-> {}, ttl |-> ttl]}

RedisNext ==
  \/ \E k \in Key :
       /\ Only({k})
       /\ \/ \E type \in Type \ {"string"}, F \in SUBSET Element :
               Insert(k, type, F) \/ Erase(k, type, F)
          \/ \E F \in SUBSET Element : Replace(k, F)
          \/ \E ttl \in BOOLEAN : Retime(k, ttl)
  \/ \E j, k \in Key :
       /\ j # k /\ Only({j, k})
       /\ Relocate(j, k) \/ \E m \in Element : Transfer(j, k, m)
  \/ Remove
  \/ \E ttl \in BOOLEAN : Write(ttl)

RedisSpec == RedisInit /\ [][RedisNext]_val
===============================================================================
