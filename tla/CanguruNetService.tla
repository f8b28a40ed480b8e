-------------------------- MODULE CanguruNetService --------------------------
(***************************************************************************)
(* The transmit path of CanguruNet keeps the promise of TxService.         *)
(***************************************************************************)
EXTENDS CanguruNet

(* A frame is carried from the moment the device has it until the echo skb *)
(* is taken out again; an interface whose queue is stopped although no     *)
(* frame, no start_xmit and no send callback is under way is jammed.       *)
LinkOf(ch) ==
  CASE echo_skb[ch] \/ xmit[ch] = "sent"  -> "busy"
    [] can_state[ch] = "STOPPED"
         /\ ~(echo_skb[ch] \/ xmit[ch] = "sent") -> "down"
    [] OTHER -> IF drv_xoff[ch] /\ xmit[ch] = "idle"
                     /\ ~(rx = "complete" /\ Reply = ch)
                THEN "jammed" ELSE "ready"

Service == INSTANCE TxService WITH
  link <- [ch \in Channels |-> LinkOf(ch)],
  taken <- frames,
  reported <- [ch \in Channels |-> Counted(ch)],
  released <- abandoned

(* Each interface takes one frame at a time and reports every frame once,  *)
(* in every interleaving of start_xmit, completions, open and close, until *)
(* it is closed with a reply outstanding.                                  *)
KeepsService == Service!SSpec
=============================================================================
