------------------------------- MODULE GuruQueue -------------------------------
(***************************************************************************)
(* What the driver expects of its two lists, send_reply_list and msg_list: *)
(* a queue.  Nothing but contexts that run at the same time may break it.  *)
(* CanguruNet uses send_reply_list as this queue.                          *)
(***************************************************************************)
EXTENDS Sequences, SequencesExt

CONSTANT Node

VARIABLES
  queue,     \* the entries that are linked, oldest first
  intact,    \* whether the list is still a list
  parallel   \* whether contexts may run at the same time

vars == <<queue, intact, parallel>>

Init == queue = <<>> /\ intact = TRUE /\ parallel \in BOOLEAN

Wait(n) ==
  /\ intact
  /\ n \notin ToSet(queue)
  /\ queue' = Append(queue, n)
  /\ UNCHANGED <<intact, parallel>>

Take ==
  /\ intact
  /\ queue # <<>>
  /\ queue' = Tail(queue)
  /\ UNCHANGED <<intact, parallel>>

Race ==
  /\ intact /\ parallel
  /\ intact' = FALSE
  /\ UNCHANGED <<queue, parallel>>

Next == (\E n \in Node : Wait(n)) \/ Take \/ Race

Spec == Init /\ [][Next]_vars

=============================================================================
