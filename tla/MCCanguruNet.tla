---------------------------- MODULE MCCanguruNet ----------------------------
(* CanguruNet on small instances: the interfaces are interchangeable.      *)
EXTENDS CanguruNetInv

Interchange == Permutations(Channels)
=============================================================================
