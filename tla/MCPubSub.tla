------------------------------ MODULE MCPubSub ------------------------------
(* PubSub on small instances for TLC.                                      *)
EXTENDS PubSub, TLC

CONSTANTS news, all

EveryChannel == {<<all, news>>}

PubSubSymmetry == Permutations(Conn)
=============================================================================
