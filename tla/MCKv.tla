--------------------------------- MODULE MCKv ---------------------------------
(* Kv on a small instance for TLC.                                          *)
EXTENDS Kv, TLC

\* Handles and keys are interchangeable in every definition of Kv.
KvSymmetry == Permutations(Tx) \cup Permutations(Key)
===============================================================================
