------------------------------- MODULE MCXRead -------------------------------
(* XRead on small instances for TLC.                                       *)
EXTENDS XRead, TLC

CONSTANTS k1, k2

OneStream == {<<k1>>}
TwoStreams == {<<k1>>, <<k1, k2>>}

XReadSymmetry == Permutations(Reader) \cup Permutations(Adder)
==============================================================================
