------------------------------- MODULE AtomicKv -------------------------------
(***************************************************************************)
(* What the dispatcher promises its clients: a command, or a MULTI/EXEC    *)
(* block, takes effect on the database all at once at some moment between  *)
(* its arrival and its reply, or not at all.  No transactions, snapshots,  *)
(* conflicts or retries.                                                   *)
(***************************************************************************)
EXTENDS Integers, Sequences

CONSTANTS
  Key,
  NoValue,   \* the value of an absent key
  Empty,     \* the empty string
  Client,
  Op         \* commands: [kind, key, other]

VARIABLES
  db,        \* the value of every key
  req,       \* the block each client waits for, <<>> if none
  done       \* whether that block has taken effect

aVars == <<db, req, done>>

\* The effect of one command on a database.
Apply(d, op) ==
  LET v == d[op.key] IN
  CASE op.kind = "get" -> d
    [] op.kind \in {"setex", "mset"} -> [d EXCEPT ![op.key] = 0]
    [] op.kind = "del" -> [d EXCEPT ![op.key] = NoValue]
    [] op.kind = "bitop" ->
         [d EXCEPT ![op.key] = IF d[op.other] = NoValue THEN Empty ELSE d[op.other]]
    [] op.kind = "move" ->
         IF v # NoValue /\ d[op.other] = NoValue
         THEN [d EXCEPT ![op.other] = v, ![op.key] = NoValue] ELSE d
    [] OTHER -> IF v = Empty THEN d
                ELSE [d EXCEPT ![op.key] = IF v = NoValue THEN 1 ELSE v + 1]

\* The effect of a block: its commands one after the other.
ApplyAll(d, q) ==
  LET after[i \in 0..Len(q)] == IF i = 0 THEN d ELSE Apply(after[i - 1], q[i])
  IN  after[Len(q)]

AtomicInit ==
  /\ db = [k \in Key |-> NoValue]
  /\ req = [c \in Client |-> <<>>]
  /\ done = [c \in Client |-> FALSE]

Submit(c) ==
  /\ req[c] = <<>>
  /\ req'[c] \in Seq(Op) \ {<<>>}
  /\ req' = [req EXCEPT ![c] = req'[c]]
  /\ UNCHANGED <<db, done>>

Execute(c) ==
  /\ req[c] # <<>>
  /\ ~done[c]
  /\ db' = ApplyAll(db, req[c])
  /\ done' = [done EXCEPT ![c] = TRUE]
  /\ UNCHANGED req

\* The reply: after the effect, or (nil, an error) without it.
Reply(c) ==
  /\ req[c] # <<>>
  /\ req' = [req EXCEPT ![c] = <<>>]
  /\ done' = [done EXCEPT ![c] = FALSE]
  /\ UNCHANGED db

\* A flush removes the keys it found, all at once.
Wipe(K) ==
  /\ db' = [k \in Key |-> IF k \in K THEN NoValue ELSE db[k]]
  /\ UNCHANGED <<req, done>>

AtomicNext ==
  \/ \E c \in Client : Submit(c) \/ Execute(c) \/ Reply(c)
  \/ \E K \in SUBSET Key : Wipe(K)

AtomicSpec == AtomicInit /\ [][AtomicNext]_aVars
===============================================================================
