---------------------------- MODULE CanguruNetInv ----------------------------
(***************************************************************************)
(* The inductive invariant of CanguruNet: where a frame of one interface   *)
(* can be, told from the reply list, the echo slot, the byte queue limits  *)
(* and the stopped queue.  CanguruNetProofs proves that it is one.         *)
(***************************************************************************)
EXTENDS CanguruNet

Listed(ch) == \E i \in 1 .. Len(send_reply_list) : send_reply_list[i] = ch

(* A reply entry is in use from list_add_tail until the send callback has  *)
(* woken the queue; list_del then removes an entry nobody counts on.       *)
Waiting(ch) == Listed(ch) /\ ~(rx = "unlink" /\ Reply = ch)

(* The send callback has emptied the echo slot of ch and not yet completed *)
(* its frame.                                                              *)
Taken(ch) == rx = "complete" /\ Reply = ch

(* The handler holds a reply and the entry it is for.                      *)
Held == rx # "idle" => send_reply_list # <<>> /\ pipe # <<>>

(* An entry is linked once.                                                *)
LinkedOnce ==
  \A i, j \in 1 .. Len(send_reply_list) :
    send_reply_list[i] = send_reply_list[j] => i = j

(* On a uniprocessor at most one context is inside the driver.             *)
Serial ==
  ~SMP => /\ rx # "idle" => \A c \in Channels : xmit[c] = "idle"
          /\ \A c, d \in Channels : xmit[c] # "idle" /\ xmit[d] # "idle" => c = d

(* start_xmit is under way only on an interface that is up.                *)
UpWhileSending(ch) ==
  /\ xmit[ch] # "idle" => can_state[ch] = "ERROR_ACTIVE"
  /\ ch \in closing => can_state[ch] = "STOPPED"

(* The queue of an interface with a frame under way is stopped.            *)
StoppedWhileBusy(ch) ==
  /\ xmit[ch] \in {"stopped", "sent", "echoed"} => drv_xoff[ch]
  /\ Waiting(ch) => drv_xoff[ch] /\ xmit[ch] \in {"idle", "listed"}
  /\ xmit[ch] = "listed" => Waiting(ch)

(* The byte queue limits count the frame from the end of start_xmit.       *)
QueuedOnce(ch) ==
  bql[ch] = IF Waiting(ch) /\ xmit[ch] = "idle" THEN 1 ELSE 0

(* The echo slot holds the frame until the send callback takes it.         *)
EchoHeld(ch) ==
  echo_skb[ch] <=> \/ xmit[ch] = "echoed"
                   \/ Waiting(ch) /\ ~Taken(ch)

(* The handler read the length of a frame that was there.                  *)
LengthKnown(ch) == Taken(ch) => rx_len = 1

(* An interface that went down left nothing in the reply list.             *)
DownIsUnlisted(ch) ==
  can_state[ch] = "STOPPED" /\ ch \notin closing => ~Listed(ch)

Tidy(ch) ==
  /\ StoppedWhileBusy(ch)
  /\ QueuedOnce(ch)
  /\ EchoHeld(ch)
  /\ LengthKnown(ch)
  /\ DownIsUnlisted(ch)

(* Every frame of an interface never closed with a reply outstanding is    *)
(* where its start_xmit and its reply put it, as long as the kernel runs.  *)
Ordered ==
  /\ LinkedOnce
  /\ Serial
  /\ \A ch \in Channels : UpWhileSending(ch)
  /\ \A ch \in Channels \ abandoned : Tidy(ch)

IInv ==
  /\ TypeInv
  /\ Held
  /\ kernel = "ok" => Ordered
  /\ KernelEnd
  /\ CountedOnce
  /\ Pairing
=============================================================================
