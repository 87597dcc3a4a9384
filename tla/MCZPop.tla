------------------------------- MODULE MCZPop -------------------------------
(* ZPop on small instances for TLC.                                        *)
EXTENDS ZPop, TLC

CONSTANTS k1, k2

OneKey == {<<k1>>}
KeyPairs == {<<k1>>, <<k2, k1>>}

ZPopSymmetry == Permutations(Client) \cup Permutations(Writer)
=============================================================================
