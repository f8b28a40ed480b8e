------------------------------ MODULE GuruFrames ------------------------------
(***************************************************************************)
(* A frame on its way from the socket of one interface to that of another  *)
(* one on the same bus: the conversion to a message in canguru-net.c or    *)
(* linguru-net.c, and back on the other side.                              *)
(*                                                                         *)
(* External: the adapters carry the header of a message over the bus as it *)
(* is, a LIN adapter shortens data_len to 8 bytes, and both stamp what     *)
(* they receive with a clock that wraps.  The helpers of the kernel for    *)
(* lengths: can_fd_len2dlc, can_fd_dlc2len, can_get_cc_dlc,                *)
(* can_frame_set_cc_len.                                                   *)
(*                                                                         *)
(* Payloads are left out but for their length.  The masks of identifiers   *)
(* are rows of ones (29, 11 and 6 in the code), so that the bits they      *)
(* leave are a remainder, and the bit above one is a quotient.             *)
(***************************************************************************)
EXTENDS Naturals, FiniteSetsExt, SequencesExt

CONSTANTS
  CAN_STD_ID_MASK, CAN_EXT_ID_MASK, LIN_ID_MASK,
  Stamps,                      \* how many time stamps there are, 2^32
  Tick,                        \* CANGURU_100US_TO_1NS
  MaxTime,                     \* bound: how long the clock runs
  Ids, Lengths,                \* bound: identifiers and lengths that are sent
  Count                        \* iface_count of the receiving adapter

ASSUME FramesAssumption ==
  /\ {CAN_STD_ID_MASK, CAN_EXT_ID_MASK, LIN_ID_MASK} \subseteq Nat
  /\ {Stamps, Tick, Count} \subseteq Nat \ {0} /\ MaxTime \in Nat
  /\ Ids \subseteq 0 .. CAN_EXT_ID_MASK
  /\ Lengths \subseteq 0 .. 64

VARIABLES
  bus,     \* "can" or "lin"
  len8,    \* whether CAN_CTRLMODE_CC_LEN8_DLC is set for "from" and "to"
  wire,    \* the message under way, if any, with the frame it was made of
  skb,     \* what was handed to the stack for it, if anything, and counted
  clock,   \* time since the receiving adapter was powered
  stamps   \* the last two time stamps handed to the stack, newest first

vars == <<bus, len8, wire, skb, clock, stamps>>

-----------------------------------------------------------------------------
(* Lengths.                                                                *)

Dlc2Len == <<0, 1, 2, 3, 4, 5, 6, 7, 8, 12, 16, 20, 24, 32, 48, 64>>

can_fd_dlc2len(dlc) == Dlc2Len[dlc + 1]
can_fd_len2dlc(len) == Min({dlc \in 0 .. 15 : len <= can_fd_dlc2len(dlc)})
can_cc_dlc2len(dlc) == Min({dlc, 8})

can_get_cc_dlc(f, mode) == IF mode /\ f.len = 8 /\ f.len8_dlc > 8
                           THEN f.len8_dlc ELSE f.len
Len8Dlc(dlc, mode) == IF mode /\ dlc > 8 THEN dlc ELSE 0

-----------------------------------------------------------------------------
(* Sending.                                                                *)

(* Mutant: an extended identifier is cut to 11 bits. *)
Identifier_short(f) == f.id % (CAN_STD_ID_MASK + 1)

Identifier(f) ==
  f.id % (1 + IF f.eff THEN CAN_EXT_ID_MASK ELSE CAN_STD_ID_MASK)

canguru_can_fd_send(f) ==
  [canfd |-> TRUE, esi |-> f.esi, bitrate_switch |-> f.brs,
   can_dlc |-> can_fd_len2dlc(f.len), remote_frame |-> f.rtr,
   extended_id |-> f.eff, can_id |-> Identifier(f)]

canguru_can_classic_send(f) ==
  [canfd |-> FALSE, esi |-> FALSE, bitrate_switch |-> FALSE,
   can_dlc |-> can_get_cc_dlc(f, len8.from), remote_frame |-> f.rtr,
   extended_id |-> f.eff, can_id |-> Identifier(f)]

(* The bit above the identifier.                                           *)
LIN_ENHANCED_SUM_FLAG == LIN_ID_MASK + 1

linguru_lin_send(f) ==
  [id |-> f.id % (LIN_ID_MASK + 1), remote_data |-> f.rtr,
   enhanced_sum |-> (f.id \div LIN_ENHANCED_SUM_FLAG) % 2 = 1,
   data_len |-> can_get_cc_dlc(f, len8.from)]

-----------------------------------------------------------------------------
(* Receiving.  A frame of the socket layer: its lengths and flags.         *)

CcFrame(id, eff, rtr, dlc) ==
  [fd |-> FALSE, id |-> id, eff |-> eff, rtr |-> rtr, esi |-> FALSE,
   brs |-> FALSE, len |-> can_cc_dlc2len(dlc), len8_dlc |-> Len8Dlc(dlc, len8.to)]

(* Mutant: the raw DLC is taken for the length. *)
canguru_net_recv_raw(msg) ==
  IF msg.canfd
  THEN [fd |-> TRUE, id |-> msg.can_id, eff |-> msg.extended_id,
        rtr |-> msg.remote_frame, esi |-> msg.esi, brs |-> msg.bitrate_switch,
        len |-> msg.can_dlc, len8_dlc |-> 0]
  ELSE CcFrame(msg.can_id, msg.extended_id, msg.remote_frame, msg.can_dlc)

canguru_net_recv(msg) ==
  IF msg.canfd
  THEN [fd |-> TRUE, id |-> msg.can_id, eff |-> msg.extended_id,
        rtr |-> msg.remote_frame, esi |-> msg.esi, brs |-> msg.bitrate_switch,
        len |-> can_fd_dlc2len(msg.can_dlc), len8_dlc |-> 0]
  ELSE CcFrame(msg.can_id, msg.extended_id, msg.remote_frame, msg.can_dlc)

linguru_net_recv(msg) ==
  CcFrame(msg.id + IF msg.enhanced_sum THEN LIN_ENHANCED_SUM_FLAG ELSE 0, FALSE,
          msg.remote_data, msg.data_len)

(* What rx_bytes grows by.                                                 *)
dataLen(msg) == CASE bus = "lin" -> msg.data_len
                  [] bus = "can" /\ msg.canfd -> can_fd_dlc2len(msg.can_dlc)
                  [] OTHER -> can_cc_dlc2len(msg.can_dlc)

(* Mutant: the product is computed in the width of the stamp. *)
hwtstamp_narrow(stamp) == (stamp * Tick) % Stamps

hwtstamp(stamp) == stamp * Tick

-----------------------------------------------------------------------------
CcFrames ==
  {f \in [fd : {FALSE}, id : Ids, eff : BOOLEAN, rtr : BOOLEAN, esi : {FALSE},
          brs : {FALSE}, len : {l \in Lengths : l <= 8}, len8_dlc : {0, 9, 15}] :
     f.len8_dlc # 0 => f.len = 8}

FdFrames ==
  [fd : {TRUE}, id : Ids, eff : BOOLEAN, rtr : BOOLEAN, esi : BOOLEAN,
   brs : BOOLEAN, len : Lengths, len8_dlc : {0}]

(* What the adapter at the other end makes of a message.                   *)
Carry(msg) == IF bus = "lin" THEN [msg EXCEPT !.data_len = Min({8, @})] ELSE msg

Init ==
  /\ bus \in {"can", "lin"}
  /\ len8 \in [from : BOOLEAN, to : BOOLEAN]
  /\ wire = {} /\ skb = {}
  /\ clock = 0 /\ stamps = <<>>

Convert(f) == CASE bus = "lin" -> linguru_lin_send(f)
                [] bus = "can" /\ f.fd -> canguru_can_fd_send(f)
                [] OTHER -> canguru_can_classic_send(f)

(* The frame is sent; iface is the channel at the other end of the bus.    *)
Send ==
  /\ wire = {}
  /\ \E f \in CcFrames \cup IF bus = "can" THEN FdFrames ELSE {},
        channel \in 0 .. Count :
       wire' = {[iface |-> channel, time |-> clock, msg |-> Carry(Convert(f)),
                   of |-> f]}
  /\ skb' = {}
  /\ UNCHANGED <<bus, len8, clock, stamps>>

(* canguru_recv_callback, linguru_recv_callback.                           *)
recv_callback ==
  \E m \in wire :
    /\ wire' = {}
    /\ skb' = {[iface |-> i, of |-> m.of, bytes |-> dataLen(m.msg),
                frame |-> IF bus = "lin" THEN linguru_net_recv(m.msg)
                          ELSE canguru_net_recv(m.msg)] :
                i \in {m.iface} \cap 0 .. Count - 1}
    /\ stamps' = IF skb' = {} THEN stamps
                 ELSE <<[time |-> m.time, ns |-> hwtstamp(m.time % Stamps)]>>
                      \o SubSeq(stamps, 1, Min({1, Len(stamps)}))
    /\ UNCHANGED <<bus, len8, clock>>

Pass ==
  /\ clock < MaxTime
  /\ clock' = clock + 1
  /\ skb' = {}
  /\ UNCHANGED <<bus, len8, wire, stamps>>

Next == Send \/ recv_callback \/ Pass

Spec == Init /\ [][Next]_vars

-----------------------------------------------------------------------------
(* The identifiers that a frame of this kind may have.                     *)
Fits(f) == CASE bus = "lin" -> 0 .. LIN_ENHANCED_SUM_FLAG + LIN_ID_MASK
             [] bus = "can" /\ f.eff -> 0 .. CAN_EXT_ID_MASK
             [] OTHER -> 0 .. CAN_STD_ID_MASK

(* What was sent as f and arrives as g keeps its kind, its flags and, if   *)
(* it has no more bits than its kind has, its identifier; LIN has one kind *)
(* of identifier, with the enhanced sum above it.  A classic frame keeps   *)
(* its length, and its raw DLC when both sides show it; an FD frame gets   *)
(* the next length FD has.                                                 *)
Kept(f, g) ==
  /\ g.fd = f.fd /\ g.rtr = f.rtr /\ g.esi = f.esi /\ g.brs = f.brs
  /\ g.eff = (f.eff /\ bus = "can")
  /\ f.id \in Fits(f) => g.id = f.id
  /\ ~f.fd => /\ g.len = f.len
              /\ len8.from /\ len8.to /\ bus = "can" => g.len8_dlc = f.len8_dlc
              /\ g.len8_dlc \in {0, f.len8_dlc}
  /\ f.fd => g.len = Min({l \in ToSet(Dlc2Len) : l >= f.len})

(* A frame crosses two drivers and comes out as it went in: identifier,    *)
(* flags and length survive the narrow fields of the message, for CAN, CAN *)
(* FD and LIN (canguru_can_fd_send, canguru_can_classic_send and           *)
(* linguru_lin_send against canguru_net_recv and linguru_net_recv).  Its   *)
(* length is what rx_bytes counts, and a channel number the adapter does   *)
(* not have leads to no interface.                                         *)
RoundTrip ==
  \A s \in skb : /\ Kept(s.of, s.frame)
                 /\ s.bytes = s.frame.len
                 /\ s.iface < Count

(* Two time stamps are as far apart as the receptions were, and so in      *)
(* their order, unless the 32 bits of the adapter's clock wrapped between  *)
(* them: the product with 100000 is computed in 64 bits.                   *)
StampsExact ==
  Len(stamps) = 2 =>
    LET new == stamps[1]
        old == stamps[2]
    IN  new.time \div Stamps = old.time \div Stamps
          => new.ns = old.ns + (new.time - old.time) * Tick

=============================================================================
