------------------------------ MODULE MCSession ------------------------------
(* Session on small instances for TLC.                                      *)
EXTENDS Session, TLC

MCOp(kinds) == {op \in [kind: kinds, key: Key, other: Key] :
                  (op.kind \in {"bitop", "move"}) <=> op.other # op.key}

\* Commands that write every key they read: atomic under snapshot isolation.
BlockOps == MCOp({"incr", "mset"})

\* Commands that read keys they do not write, and fail on the empty string.
ReadingOps == MCOp({"incr", "bitop"})

\* Commands that give and take a key its existence and its expiry.
ExpiringOps == MCOp({"setex", "del"})

\* Commands that write keys they do not declare.
UndeclaredOps == MCOp({"get", "eval", "move"})

SmallValues == 0..4 \cup {Empty}

\* Sound when every session may WATCH.
SessionSymmetry == Permutations(Tx) \cup Permutations(Key)
KeySymmetry == Permutations(Key)
===============================================================================
