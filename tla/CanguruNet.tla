----------------------------- MODULE CanguruNet -----------------------------
(***************************************************************************)
(* The transmit path of the SocketCAN interfaces of one adapter:           *)
(* canguru-net.c (ndo_open, ndo_stop, ndo_start_xmit, the send callback)   *)
(* with the reply queue of canguru-msg-net.c that all interfaces of the    *)
(* adapter share.                                                          *)
(*                                                                         *)
(* Three kinds of contexts interleave, and the driver takes no lock:       *)
(*   - start_xmit, one per interface (the stack serializes each queue),    *)
(*     in a section with bottom halves disabled;                           *)
(*   - the completion of RX URBs, a softirq, one at a time per adapter;    *)
(*   - ndo_open and ndo_stop, in process context under the RTNL.           *)
(* On a uniprocessor (SMP = FALSE) a section with bottom halves disabled   *)
(* runs to its end before any other context takes the processor.           *)
(*                                                                         *)
(* A CAN_MSG_SEND reply carries a status byte and nothing that names the   *)
(* interface or the frame: a reply belongs to whoever is first in          *)
(* send_reply_list.  Whether that is the frame it answers is what this     *)
(* module is about.                                                        *)
(***************************************************************************)
EXTENDS Naturals, FiniteSets, SequencesExt

CONSTANTS
  Channels,     \* the interfaces, canguru_device.netdev[]
  SMP,          \* whether contexts may run at the same time
  MaxFrames,    \* bound: frames the device accepts per interface
  MaxCommands   \* bound: CAN_MSG_ENABLE_SET commands under way

ASSUME NetAssumption ==
  /\ IsFiniteSet(Channels)
  /\ SMP \in BOOLEAN
  /\ MaxFrames \in Nat
  /\ MaxCommands \in Nat

VARIABLES
  can_state,        \* can_priv.state; ERROR_ACTIVE while the interface is up
  drv_xoff,         \* the TX queue was stopped by the driver
  echo_skb,         \* slot 0 of can_priv.echo_skb holds the frame in flight
  bql,              \* frames sent and not completed, as byte queue limits see it
  xmit,             \* where start_xmit stands
  frames,           \* frames the device accepted so far
  stats,            \* netdev->stats, the TX counters
  send_reply_list,  \* the interfaces waiting for a reply
  pipe,             \* CAN_MSG_SENDs not answered yet, by sender
  rx,               \* where the completion handler stands
  rx_status,        \* status byte of the reply in hand
  rx_len,           \* local frame_len of the send callback
  closing,          \* the interface between ndo_stop and close_candev
  commands,         \* CAN_MSG_ENABLE_SETs the device has not executed
  enabled,          \* what the device was last told, per interface
  unsent,           \* interfaces whose latest enable command was lost
  slips,            \* ghost: what broke the pairing of replies with frames
  abandoned,        \* ghost: closed while the reply list still named them
  kernel            \* "ok", or how an earlier step ended the execution

netVars  == <<can_state, drv_xoff, echo_skb, bql, frames, stats>>
rxVars   == <<rx, rx_status, rx_len>>
cmdVars  == <<commands, enabled, unsent>>
pairVars == <<send_reply_list, pipe>>
ghosts   == <<slips, abandoned, kernel>>
vars     == <<netVars, xmit, pairVars, rxVars, closing, cmdVars, ghosts>>

-----------------------------------------------------------------------------
(* The status byte: the classes the switch of the send callback separates. *)

Status   == {"DONE", "ERROR", "OTHER"}
Counters == {"tx_packets", "tx_errors", "tx_dropped"}

CounterOf(status) == CASE status = "DONE"  -> "tx_packets"
                       [] status = "ERROR" -> "tx_errors"
                       [] OTHER            -> "tx_dropped"

XmitSteps == {"idle", "stopped", "sent", "echoed", "listed"}
RxSteps   == {"idle", "callback", "complete", "unlink"}
Slips     == {"lost", "noecho", "unclaimed"}

(* Frame lengths count frames: one for a frame in flight.  A frame_len     *)
(* nobody wrote is any length: nothing, some of what is in flight, more.   *)
FrameLens == 0 .. MaxFrames + 1

(* Whether a context may take the processor: on a uniprocessor only when   *)
(* no section with bottom halves disabled and no softirq is under way.     *)
Free == SMP \/ (rx = "idle" /\ \A c \in Channels : xmit[c] = "idle")

(* The reply entry in the hands of the completion handler.                 *)
Reply == Head(send_reply_list)

Init ==
  /\ can_state = [c \in Channels |-> "STOPPED"]
  /\ drv_xoff = [c \in Channels |-> FALSE]
  /\ echo_skb = [c \in Channels |-> FALSE]
  /\ bql = [c \in Channels |-> 0]
  /\ xmit = [c \in Channels |-> "idle"]
  /\ frames = [c \in Channels |-> 0]
  /\ stats = [c \in Channels |-> [k \in Counters |-> 0]]
  /\ send_reply_list = <<>>
  /\ pipe = <<>>
  /\ rx = "idle" /\ rx_status = "DONE" /\ rx_len = 0
  /\ closing = {}
  /\ commands = <<>>
  /\ enabled = [c \in Channels |-> FALSE]
  /\ unsent = {}
  /\ slips = {} /\ abandoned = {} /\ kernel = "ok"

-----------------------------------------------------------------------------
(* ndo_open and ndo_stop.  guru_send_data may fail; neither caller looks.  *)

canguru_set_can_enable(ch, on) ==
  \/ /\ Len(commands) < MaxCommands
     /\ commands' = Append(commands, [ch |-> ch, on |-> on])
     /\ unsent' = unsent \ {ch}
     /\ UNCHANGED enabled
  \/ /\ unsent' = unsent \cup {ch}
     /\ UNCHANGED <<commands, enabled>>

(* open_candev may refuse (no bit timing): nothing changes then.           *)
canguru_ops_open(ch) ==
  /\ kernel = "ok" /\ Free
  /\ closing = {}
  /\ can_state[ch] = "STOPPED"
  /\ can_state' = [can_state EXCEPT ![ch] = "ERROR_ACTIVE"]
  /\ drv_xoff' = [drv_xoff EXCEPT ![ch] = FALSE]
  /\ canguru_set_can_enable(ch, TRUE)
  /\ UNCHANGED <<echo_skb, bql, frames, stats, xmit, pairVars, rxVars,
                 closing, ghosts>>

(* Mutant: ndo_stop does not tell the device. *)
canguru_ops_close_silent(ch) ==
  /\ kernel = "ok" /\ Free
  /\ closing = {}
  /\ can_state[ch] = "ERROR_ACTIVE"
  /\ xmit[ch] = "idle"
  /\ can_state' = [can_state EXCEPT ![ch] = "STOPPED"]
  /\ drv_xoff' = [drv_xoff EXCEPT ![ch] = TRUE]
  /\ closing' = {ch}
  /\ UNCHANGED <<echo_skb, bql, frames, stats, xmit, pairVars, rxVars, cmdVars,
                 ghosts>>

(* The stack has seen the last start_xmit return before it calls ndo_stop. *)
canguru_ops_close(ch) ==
  /\ kernel = "ok" /\ Free
  /\ closing = {}
  /\ can_state[ch] = "ERROR_ACTIVE"
  /\ xmit[ch] = "idle"
  /\ canguru_set_can_enable(ch, FALSE)
  /\ can_state' = [can_state EXCEPT ![ch] = "STOPPED"]
  /\ drv_xoff' = [drv_xoff EXCEPT ![ch] = TRUE]
  /\ closing' = {ch}
  /\ UNCHANGED <<echo_skb, bql, frames, stats, xmit, pairVars, rxVars, ghosts>>

(* Mutant: the echo slot is emptied and its frame counted nowhere. *)
close_candev_uncounted(ch) ==
  /\ kernel = "ok" /\ Free
  /\ ch \in closing
  /\ closing' = closing \ {ch}
  /\ echo_skb' = [echo_skb EXCEPT ![ch] = FALSE]
  /\ abandoned' = IF ch \in ToSet(send_reply_list)
                  THEN abandoned \cup {ch} ELSE abandoned
  /\ UNCHANGED <<can_state, drv_xoff, bql, frames, stats, xmit, pairVars,
                 rxVars, cmdVars, slips, kernel>>

(* close_candev flushes the echo slot, counting the frame as dropped; the  *)
(* entry in send_reply_list stays.                                         *)
close_candev(ch) ==
  /\ kernel = "ok" /\ Free
  /\ ch \in closing
  /\ closing' = closing \ {ch}
  /\ echo_skb' = [echo_skb EXCEPT ![ch] = FALSE]
  /\ stats' = IF echo_skb[ch]
              THEN [stats EXCEPT ![ch]["tx_dropped"] = @ + 1]
              ELSE stats
  /\ abandoned' = IF ch \in ToSet(send_reply_list)
                  THEN abandoned \cup {ch} ELSE abandoned
  /\ UNCHANGED <<can_state, drv_xoff, bql, frames, xmit, pairVars, rxVars,
                 cmdVars, slips, kernel>>

-----------------------------------------------------------------------------
(* ndo_start_xmit, one action per step another context can observe.        *)

(* Mutant: start_xmit does not stop the queue. *)
XmitStop_running(ch) ==
  /\ kernel = "ok" /\ Free
  /\ can_state[ch] = "ERROR_ACTIVE"
  /\ ~drv_xoff[ch]
  /\ xmit[ch] = "idle"
  /\ frames[ch] < MaxFrames
  /\ xmit' = [xmit EXCEPT ![ch] = "stopped"]
  /\ UNCHANGED <<can_state, drv_xoff, echo_skb, bql, frames, stats, pairVars,
                 rxVars, closing, cmdVars, ghosts>>

(* A frame can_dropped_invalid_skb refuses leaves no trace here.           *)
XmitStop(ch) ==
  /\ kernel = "ok" /\ Free
  /\ can_state[ch] = "ERROR_ACTIVE"
  /\ ~drv_xoff[ch]
  /\ xmit[ch] = "idle"
  /\ frames[ch] < MaxFrames
  /\ drv_xoff' = [drv_xoff EXCEPT ![ch] = TRUE]
  /\ xmit' = [xmit EXCEPT ![ch] = "stopped"]
  /\ UNCHANGED <<can_state, echo_skb, bql, frames, stats, pairVars, rxVars,
                 closing, cmdVars, ghosts>>

(* canguru_can_fd_send or canguru_can_classic_send: the URB is submitted,  *)
(* or the error path wakes the queue.                                      *)
XmitSend(ch) ==
  /\ kernel = "ok"
  /\ xmit[ch] = "stopped"
  /\ \/ /\ pipe' = Append(pipe, ch)
        /\ frames' = [frames EXCEPT ![ch] = @ + 1]
        /\ xmit' = [xmit EXCEPT ![ch] = "sent"]
        /\ UNCHANGED drv_xoff
     \/ /\ drv_xoff' = [drv_xoff EXCEPT ![ch] = FALSE]
        /\ xmit' = [xmit EXCEPT ![ch] = "idle"]
        /\ UNCHANGED <<pipe, frames>>
  /\ UNCHANGED <<can_state, echo_skb, bql, stats, send_reply_list, rxVars,
                 closing, cmdVars, ghosts>>

(* can_put_echo_skb fails when the slot is taken or memory is short; the   *)
(* error path then returns with the queue stopped.                         *)
XmitEcho(ch) ==
  /\ kernel = "ok"
  /\ xmit[ch] = "sent"
  /\ \/ /\ ~echo_skb[ch]
        /\ echo_skb' = [echo_skb EXCEPT ![ch] = TRUE]
        /\ xmit' = [xmit EXCEPT ![ch] = "echoed"]
        /\ UNCHANGED slips
     \/ /\ xmit' = [xmit EXCEPT ![ch] = "idle"]
        /\ slips' = slips \cup {"noecho"}
        /\ UNCHANGED echo_skb
  /\ UNCHANGED <<can_state, drv_xoff, bql, frames, stats, pairVars, rxVars,
                 closing, cmdVars, abandoned, kernel>>

(* Mutant: list_add for list_add_tail. *)
XmitWait_first(ch) ==
  /\ kernel = "ok"
  /\ xmit[ch] = "echoed"
  /\ ch \notin ToSet(send_reply_list)
  /\ send_reply_list' = <<ch>> \o send_reply_list
  /\ xmit' = [xmit EXCEPT ![ch] = "listed"]
  /\ UNCHANGED <<netVars, pipe, rxVars, closing, cmdVars, ghosts>>

(* canguru_wait_send_reply.  Linking an entry that is already linked ties  *)
(* the list into a knot: what follows has no meaning, the model stops.     *)
XmitWait(ch) ==
  /\ kernel = "ok"
  /\ xmit[ch] = "echoed"
  /\ \/ /\ ch \notin ToSet(send_reply_list)
        /\ send_reply_list' = Append(send_reply_list, ch)
        /\ xmit' = [xmit EXCEPT ![ch] = "listed"]
        /\ UNCHANGED kernel
     \/ /\ ch \in ToSet(send_reply_list)
        /\ kernel' = "corrupt"
        /\ UNCHANGED <<send_reply_list, xmit>>
  /\ UNCHANGED <<netVars, pipe, rxVars, closing, cmdVars, slips, abandoned>>

(* Mutant: netdev_sent_queue is left out. *)
XmitSent_uncounted(ch) ==
  /\ kernel = "ok"
  /\ xmit[ch] = "listed"
  /\ xmit' = [xmit EXCEPT ![ch] = "idle"]
  /\ UNCHANGED <<netVars, pairVars, rxVars, closing, cmdVars, ghosts>>

(* netdev_sent_queue, then start_xmit returns.                             *)
XmitSent(ch) ==
  /\ kernel = "ok"
  /\ xmit[ch] = "listed"
  /\ bql' = [bql EXCEPT ![ch] = @ + 1]
  /\ xmit' = [xmit EXCEPT ![ch] = "idle"]
  /\ UNCHANGED <<can_state, drv_xoff, echo_skb, frames, stats, pairVars,
                 rxVars, closing, cmdVars, ghosts>>

-----------------------------------------------------------------------------
(* The completion of the RX URB that brings the oldest reply.  The message *)
(* stays at the head of the pipe until the handler is done with it.        *)

(* Mutant: the callback is called for a frame that was sent only. *)
RecvReply_errorless ==
  /\ kernel = "ok" /\ Free
  /\ rx = "idle"
  /\ pipe # <<>>
  /\ \/ /\ send_reply_list = <<>>
        /\ pipe' = Tail(pipe)
        /\ slips' = slips \cup {"unclaimed"}
        /\ UNCHANGED <<rx, rx_status>>
     \/ /\ send_reply_list # <<>>
        /\ \/ rx' = "callback" /\ rx_status' = "DONE" /\ UNCHANGED pipe
           \/ pipe' = Tail(pipe) /\ UNCHANGED <<rx, rx_status>>
        /\ UNCHANGED slips
  /\ UNCHANGED <<netVars, xmit, send_reply_list, rx_len, closing, cmdVars,
                 abandoned, kernel>>

(* canguru_send_callback of canguru-msg-net.c up to the callback: a reply  *)
(* that finds nobody waiting is dropped.                                   *)
RecvReply ==
  /\ kernel = "ok" /\ Free
  /\ rx = "idle"
  /\ pipe # <<>>
  /\ \/ /\ send_reply_list = <<>>
        /\ pipe' = Tail(pipe)
        /\ slips' = slips \cup {"unclaimed"}
        /\ UNCHANGED <<rx, rx_status>>
     \/ /\ send_reply_list # <<>>
        /\ rx' = "callback"
        /\ rx_status' \in Status
        /\ UNCHANGED <<pipe, slips>>
  /\ UNCHANGED <<netVars, xmit, send_reply_list, rx_len, closing, cmdVars,
                 abandoned, kernel>>

(* Mutant: the case of GURU_STATUS_ERROR falls through to the default. *)
SendCallbackEcho_falls ==
  /\ kernel = "ok"
  /\ rx = "callback"
  /\ rx_len' \in IF echo_skb[Reply] THEN {1} ELSE FrameLens
  /\ echo_skb' = [echo_skb EXCEPT ![Reply] = FALSE]
  /\ stats' = [stats EXCEPT ![Reply] = [k \in Counters |->
                 IF \/ k = CounterOf(rx_status)
                    \/ k = "tx_dropped" /\ rx_status = "ERROR"
                 THEN @[k] + 1 ELSE @[k]]]
  /\ rx' = "complete"
  /\ UNCHANGED <<can_state, drv_xoff, bql, frames, xmit, pairVars, rx_status,
                 closing, cmdVars, ghosts>>

(* canguru_send_callback of canguru-net.c up to the switch: frame_len is   *)
(* written only when the echo slot holds a frame.                          *)
SendCallbackEcho ==
  /\ kernel = "ok"
  /\ rx = "callback"
  /\ rx_len' \in IF echo_skb[Reply] THEN {1} ELSE FrameLens
  /\ echo_skb' = [echo_skb EXCEPT ![Reply] = FALSE]
  /\ stats' = [stats EXCEPT ![Reply][CounterOf(rx_status)] = @ + 1]
  /\ rx' = "complete"
  /\ UNCHANGED <<can_state, drv_xoff, bql, frames, xmit, pairVars, rx_status,
                 closing, cmdVars, ghosts>>

(* Mutant: the byte queue limits do not check what is completed. *)
SendCallbackWake_unchecked ==
  /\ kernel = "ok"
  /\ rx = "complete"
  /\ bql' = [bql EXCEPT ![Reply] = @ - rx_len]
  /\ drv_xoff' = [drv_xoff EXCEPT ![Reply] = FALSE]
  /\ rx' = "unlink"
  /\ UNCHANGED <<can_state, echo_skb, frames, stats, xmit, pairVars,
                 rx_status, rx_len, closing, cmdVars, ghosts>>

(* netdev_completed_queue stops the kernel (BUG_ON in dql_completed) when  *)
(* more completes than was sent; otherwise the queue is woken.             *)
SendCallbackWake ==
  /\ kernel = "ok"
  /\ rx = "complete"
  /\ \/ /\ rx_len <= bql[Reply]
        /\ bql' = [bql EXCEPT ![Reply] = @ - rx_len]
        /\ drv_xoff' = [drv_xoff EXCEPT ![Reply] = FALSE]
        /\ rx' = "unlink"
        /\ UNCHANGED kernel
     \/ /\ rx_len > bql[Reply]
        /\ kernel' = "bug"
        /\ UNCHANGED <<bql, drv_xoff, rx>>
  /\ UNCHANGED <<can_state, echo_skb, frames, stats, xmit, pairVars,
                 rx_status, rx_len, closing, cmdVars, slips, abandoned>>

(* Mutant: list_del is left out. *)
ReplyUnlink_kept ==
  /\ kernel = "ok"
  /\ rx = "unlink"
  /\ pipe' = Tail(pipe)
  /\ rx' = "idle" /\ rx_status' = "DONE" /\ rx_len' = 0
  /\ UNCHANGED <<netVars, xmit, send_reply_list, closing, cmdVars, ghosts>>

(* list_del, after the callback.  The entry is still the first: others     *)
(* only append.                                                            *)
ReplyUnlink ==
  /\ kernel = "ok"
  /\ rx = "unlink"
  /\ send_reply_list' = Tail(send_reply_list)
  /\ pipe' = Tail(pipe)
  /\ rx' = "idle" /\ rx_status' = "DONE" /\ rx_len' = 0
  /\ UNCHANGED <<netVars, xmit, closing, cmdVars, ghosts>>

-----------------------------------------------------------------------------
(* The device and the bus.  It executes commands and answers sends in the  *)
(* order they were submitted; a transfer that fails on the way is gone:    *)
(* neither canguru_write_bulk_callback nor canguru_read_bulk_callback      *)
(* repeats it.                                                             *)

LoseTransfer ==
  /\ kernel = "ok"
  /\ \E i \in 1 .. Len(pipe) :
       /\ i = 1 => rx = "idle"
       /\ pipe' = RemoveAt(pipe, i)
  /\ slips' = slips \cup {"lost"}
  /\ UNCHANGED <<netVars, xmit, send_reply_list, rxVars, closing, cmdVars,
                 abandoned, kernel>>

ExecuteCommand ==
  /\ kernel = "ok"
  /\ commands # <<>>
  /\ LET cmd == Head(commands)
     IN  \/ enabled' = [enabled EXCEPT ![cmd.ch] = cmd.on] /\ UNCHANGED unsent
         \/ unsent' = unsent \cup {cmd.ch} /\ UNCHANGED enabled
  /\ commands' = Tail(commands)
  /\ UNCHANGED <<netVars, xmit, pairVars, rxVars, closing, ghosts>>

-----------------------------------------------------------------------------
XmitStep(ch) == XmitSend(ch) \/ XmitEcho(ch) \/ XmitWait(ch) \/ XmitSent(ch)

RxStep == SendCallbackEcho \/ SendCallbackWake \/ ReplyUnlink

Next ==
  \/ \E ch \in Channels :
       \/ canguru_ops_open(ch)
       \/ canguru_ops_close(ch)
       \/ close_candev(ch)
       \/ XmitStop(ch)
       \/ XmitStep(ch)
  \/ RecvReply
  \/ RxStep
  \/ LoseTransfer
  \/ ExecuteCommand

Spec == Init /\ [][Next]_vars

(* A processor does not leave a handler half way, and a raised softirq     *)
(* runs although xmits keep interrupting it (it is served each time bottom *)
(* halves are enabled again).  Users need not send, open or close; a       *)
(* device answers what it received.                                        *)
Fairness ==
  /\ \A ch \in Channels : WF_vars(XmitStep(ch)) /\ WF_vars(close_candev(ch))
  /\ SF_vars(RecvReply)
  /\ WF_vars(RxStep)

FairSpec == Spec /\ Fairness

-----------------------------------------------------------------------------
TypeInv ==
  /\ can_state \in [Channels -> {"STOPPED", "ERROR_ACTIVE"}]
  /\ drv_xoff \in [Channels -> BOOLEAN]
  /\ echo_skb \in [Channels -> BOOLEAN]
  /\ bql \in [Channels -> Nat]
  /\ xmit \in [Channels -> XmitSteps]
  /\ frames \in [Channels -> Nat]
  /\ stats \in [Channels -> [Counters -> Nat]]
  /\ send_reply_list \in Seq(Channels)
  /\ pipe \in Seq(Channels)
  /\ rx \in RxSteps /\ rx_status \in Status /\ rx_len \in FrameLens
  /\ closing \in SUBSET Channels
  /\ commands \in Seq([ch : Channels, on : BOOLEAN])
  /\ enabled \in [Channels -> BOOLEAN]
  /\ unsent \in SUBSET Channels
  /\ slips \in SUBSET Slips
  /\ abandoned \in SUBSET Channels
  /\ kernel \in {"ok", "bug", "corrupt"}

(* Between guru_send_data and canguru_wait_send_reply: the frame is on its *)
(* way and nobody waits for its reply yet.                                 *)
InWindow(ch) == xmit[ch] \in {"sent", "echoed"}

(* The reply list and the device agree on how much is outstanding: unless  *)
(* a transfer was lost, an echo skb could not be stored or a reply came    *)
(* before its sender had listed itself, every frame under way has exactly  *)
(* one waiter, listed or about to list itself.  Holds in every             *)
(* interleaving, whichever interface a reply is credited to.               *)
Balance ==
  kernel = "ok" /\ slips = {} =>
    Len(pipe) = Len(send_reply_list)
                + Cardinality({ch \in Channels : InWindow(ch)})

(* On a uniprocessor the reply list names the senders of the frames under  *)
(* way in the order they were sent, but for the one start_xmit that has    *)
(* sent and not yet listed itself, so that the status byte of a reply,     *)
(* which names nobody, is credited to the interface it answers.            *)
Pairing ==
  kernel = "ok" /\ slips = {} /\ ~SMP =>
    /\ (\A ch \in Channels : ~InWindow(ch)) => pipe = send_reply_list
    /\ \A ch \in Channels : InWindow(ch) => pipe = Append(send_reply_list, ch)

(* One frame at a time: between two completions, an awake queue of an      *)
(* interface means that nothing of it is in flight - no echo skb, no entry *)
(* in the reply list, nothing the byte queue limits count - unless it was  *)
(* once closed with a reply outstanding.  Lost transfers and echo failures *)
(* do not break this.                                                      *)
AwakeIsEmpty ==
  kernel = "ok" /\ rx = "idle" =>
    \A ch \in Channels \ abandoned :
      ~drv_xoff[ch] /\ xmit[ch] = "idle" =>
        ~echo_skb[ch] /\ ch \notin ToSet(send_reply_list) /\ bql[ch] = 0

(* The two ways this code can bring the kernel down, and the only ones.    *)
(* BUG_ON: the reply overtook netdev_sent_queue, or the interface was      *)
(* closed with a reply outstanding and frame_len was never written.        *)
(* A list entry linked twice: start_xmit ran between the wake-up of the    *)
(* send callback and its list_del, or the interface was closed with a      *)
(* reply outstanding and opened again.                                     *)
KernelEnd ==
  /\ kernel = "bug" => \/ Reply \in abandoned
                       \/ SMP /\ xmit[Reply] = "listed"
  /\ kernel = "corrupt" =>
       \E ch \in Channels :
         /\ xmit[ch] = "echoed" /\ ch \in ToSet(send_reply_list)
         /\ \/ ch \in abandoned
            \/ SMP /\ rx = "unlink" /\ Reply = ch

Counted(ch) ==
  stats[ch]["tx_packets"] + stats[ch]["tx_errors"] + stats[ch]["tx_dropped"]

InFlight(ch) == IF echo_skb[ch] \/ xmit[ch] = "sent" THEN 1 ELSE 0

(* Every frame the device accepted is counted once, in one counter of the  *)
(* interface that sent it, or is still in flight - whatever the status of  *)
(* the reply and whoever it was meant for - unless the interface was       *)
(* closed with a reply outstanding (then the flush and the reply both      *)
(* count it) or an echo skb could not be stored (then nobody does).        *)
CountedOnce ==
  "noecho" \notin slips =>
    \A ch \in Channels \ abandoned : Counted(ch) + InFlight(ch) = frames[ch]

(* Once the commands under way are executed the device transmits and       *)
(* receives for exactly the interfaces that are up, unless the last        *)
(* CAN_MSG_ENABLE_SET of an interface was lost: open and close do not look *)
(* at the result of guru_send_data.                                        *)
EnableAgrees ==
  \A ch \in Channels \ unsent :
    LET mine == {i \in 1 .. Len(commands) : commands[i].ch = ch}
        told == IF mine = {} THEN enabled[ch]
                ELSE commands[CHOOSE i \in mine : \A j \in mine : j <= i].on
    IN  told = (can_state[ch] = "ERROR_ACTIVE")

(* A queue stopped by start_xmit is woken again, or its interface goes     *)
(* down, or one of the three slips has happened, after which nobody in the *)
(* driver would wake it: there is no transmit timeout.                     *)
QueueWakes ==
  \A ch \in Channels :
    can_state[ch] = "ERROR_ACTIVE" /\ drv_xoff[ch] ~>
      \/ ~drv_xoff[ch] \/ can_state[ch] = "STOPPED"
      \/ slips # {} \/ kernel # "ok"
=============================================================================
