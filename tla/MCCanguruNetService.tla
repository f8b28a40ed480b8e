------------------------ MODULE MCCanguruNetService ------------------------
(* CanguruNetService on a small instance.                                  *)
EXTENDS CanguruNetService
=============================================================================
