------------------------------ MODULE GuruDevice ------------------------------
(***************************************************************************)
(* The USB transport of an adapter, guru-device.c: the ring of RX URBs,    *)
(* their completion handler and the dispatch of messages, the buffers of   *)
(* guru_send_data, and the life of the device structure from probe to      *)
(* disconnect.                                                             *)
(*                                                                         *)
(* The USB core is external.  It completes the URBs of the endpoint in the *)
(* order they were submitted and runs their handlers one after the other   *)
(* in a softirq; it takes a URB off its anchor when it completes it; it    *)
(* disables the endpoints before it calls disconnect, which cancels what   *)
(* is queued and makes every later submission fail; it frees the device    *)
(* structure (devm_kzalloc) after disconnect, and after a probe that       *)
(* failed - but a failed probe cancels nothing.                            *)
(***************************************************************************)
EXTENDS Naturals, FiniteSets, SequencesExt

CONSTANTS
  GURU_MAX_URBS,  \* RX URBs the probe sets up
  Channels,       \* the network interfaces of the device
  MaxMsgs,        \* bound: messages the device sends
  MaxSends        \* bound: messages the host sends

ASSUME DeviceAssumption ==
  /\ GURU_MAX_URBS \in Nat \ {0}
  /\ IsFiniteSet(Channels)
  /\ MaxMsgs \in Nat
  /\ MaxSends \in Nat

VARIABLES
  phase,     \* "rx_init", "probing", "bound", "failed", or on the way out
             \* "disabled", "killed", "gone"
  idx,       \* RX URBs set up so far
  queue,     \* RX URBs the controller holds, oldest first
  done,      \* RX URBs completed with a status, handler not yet run
  anchored,  \* RX URBs usb_kill_anchored_urbs waits for
  handler,   \* where canguru_read_bulk_callback stands
  cur,       \* the URB the handler works on
  curr_msg,  \* curr_msg_data: the URB whose buffer it points into, or 0
  buffer,    \* number of the message in the buffer of each RX URB, 0 for none
  arrived,   \* messages the device has sent
  log,       \* ghost: numbers of the messages dispatched
  faults,    \* ghost: URBs that ended with a fatal status or a failed submit
  tx,        \* buffers of guru_send_data
  opened,    \* interfaces that are up
  memory,    \* the device structure: "live" or "freed"
  kernel     \* "ok", or "uaf" once the freed structure was used

ringVars == <<queue, done, anchored, faults>>
cbVars   == <<handler, cur, curr_msg>>
msgVars  == <<buffer, arrived, log>>
lifeVars == <<phase, idx, memory, kernel>>
vars     == <<ringVars, cbVars, msgVars, tx, opened, lifeVars>>

Urbs  == 1 .. GURU_MAX_URBS
Sends == 1 .. MaxSends

(* What the switch of canguru_read_bulk_callback tells apart: success;     *)
(* -ENOENT, -EPIPE, -EPROTO and -ESHUTDOWN; anything else.                 *)
RxStatus == {"ok", "fatal", "other"}

(* The endpoints take URBs until the core disables them; a probe that      *)
(* failed leaves them as they are.                                         *)
Enabled == phase \in {"rx_init", "probing", "bound", "failed"}

(* Where an RX URB of the ring can be.                                     *)
Completed == {done[i].urb : i \in DOMAIN done}
InHandler == IF handler = "idle" THEN {} ELSE {cur}

Init ==
  /\ phase = "rx_init" /\ idx = 0 /\ memory = "live" /\ kernel = "ok"
  /\ queue = <<>> /\ done = <<>> /\ anchored = {} /\ faults = 0
  /\ handler = "idle" /\ cur = 0 /\ curr_msg = 0
  /\ buffer = [u \in Urbs |-> 0] /\ arrived = 0 /\ log = <<>>
  /\ tx = [k \in Sends |-> "unused"]
  /\ opened = {}

-----------------------------------------------------------------------------
(* guru_send_data: the buffer goes to the controller, or it is released on *)
(* the way out.                                                            *)
guru_send_data ==
  \/ /\ Enabled
     /\ \E k \in Sends :
          /\ tx[k] = "unused"
          /\ tx' = [tx EXCEPT ![k] = "usb"]
  \/ UNCHANGED tx

(* Only -ENOENT, the status of a killed URB, frees the buffer.             *)
canguru_write_bulk_callback(k) ==
  /\ kernel = "ok"
  /\ tx[k] = "usb"
  /\ \/ tx' = [tx EXCEPT ![k] = "kept"]
     \/ ~Enabled /\ tx' = [tx EXCEPT ![k] = "freed"]
  /\ UNCHANGED <<ringVars, cbVars, msgVars, opened, lifeVars>>

-----------------------------------------------------------------------------
(* The probe.                                                              *)

(* Mutant: the loop runs up to and including GURU_MAX_URBS. *)
RxInitUrb_long ==
  /\ kernel = "ok"
  /\ phase = "rx_init" /\ idx <= GURU_MAX_URBS
  /\ \/ /\ idx' = idx + 1
        /\ queue' = Append(queue, idx + 1)
        /\ anchored' = anchored \cup {idx + 1}
        /\ UNCHANGED phase
     \/ /\ phase' = "failed"
        /\ UNCHANGED <<idx, queue, anchored>>
  /\ UNCHANGED <<done, faults, cbVars, msgVars, tx, opened, memory, kernel>>

(* One turn of the loop of canguru_usb_rx_init; any error ends the probe   *)
(* and leaves the URBs submitted before as they are.                       *)
RxInitUrb ==
  /\ kernel = "ok"
  /\ phase = "rx_init" /\ idx < GURU_MAX_URBS
  /\ \/ /\ idx' = idx + 1
        /\ queue' = Append(queue, idx + 1)
        /\ anchored' = anchored \cup {idx + 1}
        /\ UNCHANGED phase
     \/ /\ phase' = "failed"
        /\ UNCHANGED <<idx, queue, anchored>>
  /\ UNCHANGED <<done, faults, cbVars, msgVars, tx, opened, memory, kernel>>

(* The rest of guru_dev_init: guru_msg_std_init, guru_get_fw_ver.          *)
guru_dev_init ==
  /\ kernel = "ok"
  /\ phase = "rx_init" /\ idx = GURU_MAX_URBS
  /\ phase' = "probing"
  /\ guru_send_data
  /\ UNCHANGED <<ringVars, cbVars, msgVars, opened, idx, memory, kernel>>

(* guru_usb_probe returns what the init function of the product returned.  *)
ProbeEnds ==
  /\ kernel = "ok"
  /\ phase = "probing"
  /\ phase' \in {"bound", "failed"}
  /\ UNCHANGED <<ringVars, cbVars, msgVars, tx, opened, idx, memory, kernel>>

(* After an error the core releases the structure.                         *)
ProbeFreed ==
  /\ kernel = "ok"
  /\ phase = "failed" /\ memory = "live"
  /\ memory' = "freed"
  /\ UNCHANGED <<ringVars, cbVars, msgVars, tx, opened, phase, idx, kernel>>

-----------------------------------------------------------------------------
(* The interfaces; neither operation looks at the result of guru_send_data.*)

Registered == phase \in {"bound", "disabled", "killed"}

canguru_ops_open(ch) ==
  /\ kernel = "ok"
  /\ Registered /\ ch \notin opened
  /\ opened' = opened \cup {ch}
  /\ guru_send_data
  /\ UNCHANGED <<ringVars, cbVars, msgVars, lifeVars>>

canguru_ops_close(ch) ==
  /\ kernel = "ok"
  /\ Registered /\ ch \in opened
  /\ opened' = opened \ {ch}
  /\ guru_send_data
  /\ UNCHANGED <<ringVars, cbVars, msgVars, lifeVars>>

-----------------------------------------------------------------------------
(* The controller.                                                         *)

Complete(status) ==
  /\ kernel = "ok"
  /\ Enabled /\ queue # <<>>
  /\ done' = Append(done, [urb |-> Head(queue), status |-> status])
  /\ queue' = Tail(queue)
  /\ UNCHANGED <<anchored, cbVars, log, tx, opened, lifeVars>>

(* The device fills the buffer with its next message.                      *)
Transfer ==
  /\ Complete("ok")
  /\ arrived < MaxMsgs
  /\ arrived' = arrived + 1
  /\ buffer' = [buffer EXCEPT ![Head(queue)] = arrived + 1]
  /\ UNCHANGED faults

(* A transfer fails, and takes a message with it or not.                   *)
TransferFails ==
  /\ \/ Complete("fatal") /\ faults' = faults + 1
     \/ Complete("other") /\ UNCHANGED faults
  /\ \/ UNCHANGED arrived
     \/ arrived < MaxMsgs /\ arrived' = arrived + 1
  /\ UNCHANGED buffer

-----------------------------------------------------------------------------
(* canguru_read_bulk_callback.                                             *)

(* The kernel is sound as long as nobody uses the structure freed.         *)
Use == kernel' = IF memory = "live" THEN "ok" ELSE "uaf"

(* A fatal status: the handler returns at once.  The core has taken the    *)
(* URB off the anchor, which is part of the structure.                     *)
ReadFatal ==
  /\ kernel = "ok"
  /\ handler = "idle" /\ done # <<>>
  /\ Head(done).status = "fatal"
  /\ done' = Tail(done)
  /\ anchored' = anchored \ {Head(done).urb}
  /\ IF Head(done).urb \in anchored THEN Use ELSE UNCHANGED kernel
  /\ UNCHANGED <<queue, faults, cbVars, msgVars, tx, opened, phase, idx,
                 memory>>

(* Mutant: the default of the switch falls through to the message. *)
ReadStart_falls ==
  /\ kernel = "ok"
  /\ handler = "idle" /\ done # <<>>
  /\ Head(done).status # "fatal"
  /\ done' = Tail(done)
  /\ cur' = Head(done).urb
  /\ curr_msg' = Head(done).urb
  /\ handler' = "process"
  /\ Use
  /\ UNCHANGED <<queue, anchored, faults, msgVars, tx, opened, phase, idx,
                 memory>>

(* Mutant: the handler returns on every error status. *)
ReadStart_returns ==
  /\ kernel = "ok"
  /\ handler = "idle" /\ done # <<>>
  /\ Head(done).status # "fatal"
  /\ done' = Tail(done)
  /\ \/ /\ Head(done).status = "ok"
        /\ cur' = Head(done).urb
        /\ curr_msg' = Head(done).urb
        /\ handler' = "process"
     \/ /\ Head(done).status = "other"
        /\ UNCHANGED cbVars
  /\ Use
  /\ UNCHANGED <<queue, anchored, faults, msgVars, tx, opened, phase, idx,
                 memory>>

(* Mutant: the loop compares with > instead of >=. *)
ReadStart_skips ==
  /\ kernel = "ok"
  /\ handler = "idle" /\ done # <<>>
  /\ Head(done).status # "fatal"
  /\ done' = Tail(done)
  /\ cur' = Head(done).urb
  /\ handler' = "resubmit"
  /\ Use
  /\ UNCHANGED <<queue, anchored, faults, curr_msg, msgVars, tx, opened,
                 phase, idx, memory>>

(* Success: canguru_process_msg_list publishes the message.  Any other     *)
(* status: on to resubmit.                                                 *)
ReadStart ==
  /\ kernel = "ok"
  /\ handler = "idle" /\ done # <<>>
  /\ Head(done).status # "fatal"
  /\ done' = Tail(done)
  /\ cur' = Head(done).urb
  /\ \/ /\ Head(done).status = "ok"
        /\ curr_msg' = Head(done).urb
        /\ handler' = "process"
     \/ /\ Head(done).status = "other"
        /\ handler' = "resubmit"
        /\ UNCHANGED curr_msg
  /\ Use
  /\ UNCHANGED <<queue, anchored, faults, msgVars, tx, opened, phase, idx,
                 memory>>

(* The callbacks of msg_list read the message through curr_msg_data.       *)
canguru_process_msg_list ==
  /\ kernel = "ok"
  /\ handler = "process"
  /\ log' = Append(log, buffer[curr_msg])
  /\ curr_msg' = 0
  /\ handler' = "resubmit"
  /\ Use
  /\ UNCHANGED <<ringVars, cur, buffer, arrived, tx, opened, phase, idx,
                 memory>>

(* The URB goes back to the controller, without an anchor, or it is lost   *)
(* to the ring.                                                            *)
Resubmit ==
  /\ kernel = "ok"
  /\ handler = "resubmit"
  /\ \/ /\ Enabled
        /\ queue' = Append(queue, cur)
        /\ UNCHANGED faults
     \/ /\ faults' = faults + 1
        /\ UNCHANGED queue
  /\ anchored' = anchored \ {cur}
  /\ handler' = "idle" /\ cur' = 0
  /\ Use
  /\ UNCHANGED <<done, curr_msg, msgVars, tx, opened, phase, idx, memory>>

-----------------------------------------------------------------------------
(* The way out: the adapter is unplugged or the driver unbound.            *)

(* The core disables the endpoints and cancels what they hold.             *)
CoreDisable ==
  /\ kernel = "ok"
  /\ phase = "bound"
  /\ phase' = "disabled"
  /\ done' = done \o [i \in DOMAIN queue |->
                        [urb |-> queue[i], status |-> "fatal"]]
  /\ faults' = faults + Len(queue)
  /\ queue' = <<>>
  /\ UNCHANGED <<anchored, cbVars, msgVars, tx, opened, idx, memory, kernel>>

(* Mutant: the URBs are not waited for. *)
KillAnchored_async ==
  /\ kernel = "ok"
  /\ phase = "disabled"
  /\ phase' = "killed"
  /\ UNCHANGED <<ringVars, cbVars, msgVars, tx, opened, idx, memory, kernel>>

(* guru_dev_deinit: usb_kill_anchored_urbs returns when the anchors are    *)
(* empty and the handlers of their URBs have returned.                     *)
KillAnchored ==
  /\ kernel = "ok"
  /\ phase = "disabled"
  /\ anchored = {}
  /\ \A k \in Sends : tx[k] # "usb"
  /\ phase' = "killed"
  /\ UNCHANGED <<ringVars, cbVars, msgVars, tx, opened, idx, memory, kernel>>

(* guru_dev_deinit, from dev_deinit on: the interfaces are unregistered;   *)
(* after disconnect the core releases the structure.                       *)
guru_dev_deinit ==
  /\ kernel = "ok"
  /\ phase = "killed"
  /\ phase' = "gone"
  /\ opened' = {}
  /\ memory' = "freed"
  /\ UNCHANGED <<ringVars, cbVars, msgVars, tx, idx, kernel>>

-----------------------------------------------------------------------------
ReadHandler == ReadFatal \/ ReadStart \/ canguru_process_msg_list \/ Resubmit

Next ==
  \/ \E k \in Sends : canguru_write_bulk_callback(k)
  \/ RxInitUrb \/ guru_dev_init \/ ProbeEnds \/ ProbeFreed
  \/ \E ch \in Channels : canguru_ops_open(ch) \/ canguru_ops_close(ch)
  \/ Transfer \/ TransferFails
  \/ ReadHandler
  \/ CoreDisable \/ KillAnchored \/ guru_dev_deinit

Spec == Init /\ [][Next]_vars

(* A softirq runs its handler to the end and is served again; a device     *)
(* that is given a URB again and again gets a message across.              *)
Fairness == WF_vars(ReadHandler) /\ SF_vars(Transfer)

FairSpec == Spec /\ Fairness

-----------------------------------------------------------------------------
TypeInv ==
  /\ phase \in {"rx_init", "probing", "bound", "failed", "disabled", "killed",
                "gone"}
  /\ idx \in 0 .. GURU_MAX_URBS
  /\ queue \in Seq(Urbs)
  /\ done \in Seq([urb : Urbs, status : RxStatus])
  /\ anchored \in SUBSET Urbs
  /\ handler \in {"idle", "process", "resubmit"}
  /\ cur \in Urbs \cup {0} /\ curr_msg \in Urbs \cup {0}
  /\ buffer \in [Urbs -> Nat] /\ arrived \in Nat /\ log \in Seq(Nat)
  /\ faults \in Nat
  /\ tx \in [Sends -> {"unused", "usb", "kept", "freed"}]
  /\ opened \in SUBSET Channels
  /\ memory \in {"live", "freed"} /\ kernel \in {"ok", "uaf"}

(* The ring loses an RX URB only to a fatal status or a failed submit:     *)
(* every other URB set up is in one place, with the controller, completed, *)
(* or in the hands of the handler.  curr_msg_data never points into a      *)
(* buffer the controller may be writing.                                   *)
RingConserved ==
  kernel = "ok" =>
    /\ IsInjective(queue)
    /\ \A i, j \in DOMAIN done : done[i].urb = done[j].urb => i = j
    /\ ToSet(queue) \cap Completed = {}
    /\ (ToSet(queue) \cup Completed) \cap InHandler = {}
    /\ idx = Len(queue)
             + Cardinality({i \in DOMAIN done : done[i].status # "fatal"})
             + Cardinality(InHandler) + faults
    /\ curr_msg \notin ToSet(queue)

(* Messages are dispatched in the order the device sent them, and none is  *)
(* dispatched twice, although URBs are completed, handled and resubmitted  *)
(* while others are in the ring and a failed transfer leaves an old        *)
(* message in its buffer.                                                  *)
InOrder ==
  kernel = "ok" => \A i \in 2 .. Len(log) : log[i - 1] < log[i]

(* A message that arrived is dispatched, waits for its handler, or was     *)
(* lost with a failed transfer: a buffer is not given back to the          *)
(* controller before its message was read.                                 *)
NotOverwritten ==
  kernel = "ok" =>
    \A u \in Urbs \ (Completed \cup InHandler) :
      buffer[u] # 0 => buffer[u] \in ToSet(log)

(* The structure is used after it was released only when a failed probe    *)
(* left URBs submitted, or by the handler of an URB that had been          *)
(* resubmitted before: a resubmitted URB is on no anchor, and              *)
(* guru_dev_deinit does not wait for it.                                   *)
Lifetime ==
  kernel = "uaf" => phase = "failed" \/ (phase = "gone" /\ anchored = {})

(* As long as one URB of the ring is left the device gets all its messages *)
(* across, whatever transfers were aborted on the way.                     *)
KeepsReceiving ==
  phase = "bound" ~>
    arrived = MaxMsgs \/ faults >= GURU_MAX_URBS \/ phase # "bound"

(* canguru-net.c, above ndo_stop: "If all the channels of the device are   *)
(* closed, free the URB resources which are not needed anymore."           *)
LastCloseFrees ==
  [][phase = "bound" /\ opened # {} /\ opened' = {} =>
       \A k \in Sends : tx'[k] # "kept"]_vars
=============================================================================
