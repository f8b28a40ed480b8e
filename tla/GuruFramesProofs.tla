--------------------------- MODULE GuruFramesProofs ---------------------------
(***************************************************************************)
(* Proofs about the conversion of frames, for masks, clocks, ticks and     *)
(* channel counts of any size: a frame comes out of the other driver as it *)
(* went into the first, and time stamps keep their distance.               *)
(***************************************************************************)
EXTENDS GuruFrames, SequenceTheorems, TLAPS

(* What is assumed of the masks and of the clock.                          *)
LEMMA Constants ==
  /\ CAN_STD_ID_MASK \in Nat /\ CAN_EXT_ID_MASK \in Nat /\ LIN_ID_MASK \in Nat
  /\ Stamps \in Nat \ {0} /\ Tick \in Nat \ {0} /\ Count \in Nat \ {0}
  /\ MaxTime \in Nat
  /\ Ids \subseteq Nat /\ Lengths \subseteq 0 .. 64
  BY FramesAssumption

-----------------------------------------------------------------------------
(* Remainders and quotients.                                               *)

(* Below the modulus the remainder is the number itself.                   *)
LEMMA BelowModulus ==
  ASSUME NEW n \in Nat, NEW x \in 0 .. n - 1
  PROVE  x % n = x /\ x \div n = 0
<1>1. n > 0
  OBVIOUS
<1>2. x = n * (x \div n) + (x % n) /\ x % n \in 0 .. n - 1 /\ x \div n \in Int
  BY <1>1
<1> QED
  BY <1>1, <1>2

(* In the next turn the modulus is taken off once.                         *)
LEMMA AboveModulus ==
  ASSUME NEW n \in Nat, NEW x \in n .. 2 * n - 1
  PROVE  x % n = x - n /\ x \div n = 1
<1>1. n > 0
  OBVIOUS
<1>2. x = n * (x \div n) + (x % n) /\ x % n \in 0 .. n - 1 /\ x \div n \in Int
  BY <1>1
<1> QED
  BY <1>1, <1>2

(* The least element is the minimum.                                       *)
LEMMA MinIs ==
  ASSUME NEW S \in SUBSET Nat, NEW x \in S, \A y \in S : x <= y
  PROVE  Min(S) = x
<1>1. Min(S) \in S /\ \A y \in S : Min(S) <= y
  BY DEF Min
<1>2. Min(S) \in Nat /\ x \in Nat /\ Min(S) <= x /\ x <= Min(S)
  BY <1>1
<1> QED
  BY <1>2

(* The minimum of two.                                                     *)
LEMMA MinOfTwo ==
  ASSUME NEW a \in Nat, NEW b \in Nat
  PROVE  Min({a, b}) = IF a <= b THEN a ELSE b
<1>1. CASE a <= b
  <2>1. \A y \in {a, b} : a <= y
    BY <1>1
  <2> QED
    BY <1>1, <2>1, MinIs
<1>2. CASE ~(a <= b)
  <2>1. \A y \in {a, b} : b <= y
    BY <1>2
  <2> QED
    BY <1>2, <2>1, MinIs
<1> QED
  BY <1>1, <1>2

-----------------------------------------------------------------------------
(* Lengths.                                                                *)

(* The table of lengths, entry by entry.                                   *)
LEMMA LengthTable ==
  /\ DOMAIN Dlc2Len = 1 .. 16
  /\ can_fd_dlc2len(0) = 0 /\ can_fd_dlc2len(1) = 1 /\ can_fd_dlc2len(2) = 2
  /\ can_fd_dlc2len(3) = 3 /\ can_fd_dlc2len(4) = 4 /\ can_fd_dlc2len(5) = 5
  /\ can_fd_dlc2len(6) = 6 /\ can_fd_dlc2len(7) = 7 /\ can_fd_dlc2len(8) = 8
  /\ can_fd_dlc2len(9) = 12 /\ can_fd_dlc2len(10) = 16 /\ can_fd_dlc2len(11) = 20
  /\ can_fd_dlc2len(12) = 24 /\ can_fd_dlc2len(13) = 32 /\ can_fd_dlc2len(14) = 48
  /\ can_fd_dlc2len(15) = 64
  BY DEF Dlc2Len, can_fd_dlc2len

(* The sixteen data length codes.                                          *)
LEMMA Dlcs ==
  ASSUME NEW d \in 0 .. 15
  PROVE  \/ d = 0 \/ d = 1 \/ d = 2 \/ d = 3 \/ d = 4 \/ d = 5 \/ d = 6 \/ d = 7
         \/ d = 8 \/ d = 9 \/ d = 10 \/ d = 11 \/ d = 12 \/ d = 13 \/ d = 14 \/ d = 15
  OBVIOUS

(* Lengths grow with the DLC.                                              *)
LEMMA LengthsGrow ==
  \A d \in 0 .. 15 : /\ can_fd_dlc2len(d) \in 0 .. 64
                     /\ \A e \in 0 .. 15 :
                          d <= e => can_fd_dlc2len(d) <= can_fd_dlc2len(e)
<1> SUFFICES ASSUME NEW d \in 0 .. 15, NEW e \in 0 .. 15, d <= e
             PROVE  /\ can_fd_dlc2len(d) \in 0 .. 64
                    /\ can_fd_dlc2len(d) <= can_fd_dlc2len(e)
  OBVIOUS
<1> DEFINE D(k) == can_fd_dlc2len(k)
<1>1. \A k \in 0 .. 15 : D(k) = CASE k = 0 -> 0 [] k = 1 -> 1 [] k = 2 -> 2
        [] k = 3 -> 3 [] k = 4 -> 4 [] k = 5 -> 5 [] k = 6 -> 6 [] k = 7 -> 7
        [] k = 8 -> 8 [] k = 9 -> 12 [] k = 10 -> 16 [] k = 11 -> 20
        [] k = 12 -> 24 [] k = 13 -> 32 [] k = 14 -> 48 [] k = 15 -> 64
  BY LengthTable, Dlcs
<1> HIDE DEF D
<1>2. D(d) \in 0 .. 64 /\ D(d) <= D(e)
  BY <1>1
<1> QED
  BY <1>2 DEF D

(* An FD frame gets the least DLC whose length is no shorter than its own, *)
(* and arrives with that length.                                           *)
LEMMA FdLength ==
  ASSUME NEW len \in 0 .. 64
  PROVE  /\ can_fd_len2dlc(len) \in 0 .. 15
         /\ can_fd_dlc2len(can_fd_len2dlc(len)) =
              Min({l \in ToSet(Dlc2Len) : l >= len})
<1> DEFINE Dlc == {dlc \in 0 .. 15 : len <= can_fd_dlc2len(dlc)}
           Len_ == {l \in ToSet(Dlc2Len) : l >= len}
<1>1. PICK d \in Dlc : \A e \in Dlc : d <= e
  <2> DEFINE Least(k) == len <= can_fd_dlc2len(k)
                         /\ (k = 0 \/ ~(len <= can_fd_dlc2len(k - 1)))
  <2>1. \E k \in 0 .. 15 : Least(k)
    <3>1. \/ Least(0) \/ Least(1) \/ Least(2) \/ Least(3) \/ Least(4) \/ Least(5)
          \/ Least(6) \/ Least(7) \/ Least(8) \/ Least(9) \/ Least(10) \/ Least(11)
          \/ Least(12) \/ Least(13) \/ Least(14) \/ Least(15)
      BY LengthTable
    <3> HIDE DEF Least
    <3> QED
      BY <3>1
  <2>2. PICK k \in 0 .. 15 : Least(k)
    BY <2>1
  <2>3. ASSUME NEW e \in Dlc PROVE k <= e
    <3> SUFFICES ASSUME e < k PROVE FALSE
      OBVIOUS
    <3>1. k - 1 \in 0 .. 15 /\ e <= k - 1
      OBVIOUS
    <3>2. can_fd_dlc2len(e) <= can_fd_dlc2len(k - 1)
      BY <3>1, LengthsGrow
    <3>3. /\ can_fd_dlc2len(e) \in 0 .. 64 /\ can_fd_dlc2len(k - 1) \in 0 .. 64
          /\ len <= can_fd_dlc2len(e)
      BY <3>1, LengthsGrow
    <3>4. ~(len <= can_fd_dlc2len(k - 1))
      BY <2>2, <3>1
    <3> QED
      BY <3>2, <3>3, <3>4
  <2> QED
    BY <2>2, <2>3
<1>2. can_fd_len2dlc(len) = d
  BY <1>1, MinIs DEF can_fd_len2dlc
<1>3. can_fd_dlc2len(d) \in Len_
  <2>1. d + 1 \in DOMAIN Dlc2Len /\ can_fd_dlc2len(d) = Dlc2Len[d + 1]
    BY LengthTable DEF can_fd_dlc2len
  <2> QED
    BY <2>1, LengthsGrow DEF ToSet
<1>4. \A l \in Len_ : can_fd_dlc2len(d) <= l /\ l \in Nat
  <2> SUFFICES ASSUME NEW l \in Len_ PROVE can_fd_dlc2len(d) <= l /\ l \in Nat
    OBVIOUS
  <2>1. PICK i \in 1 .. 16 : l = Dlc2Len[i]
    BY LengthTable DEF ToSet
  <2>2. i - 1 \in 0 .. 15 /\ (i - 1) + 1 = i
    BY <2>1
  <2>3. l = can_fd_dlc2len(i - 1)
    BY <2>1, <2>2 DEF can_fd_dlc2len
  <2>4. i - 1 \in Dlc
    BY <2>2, <2>3, LengthsGrow
  <2> QED
    BY <1>1, <2>2, <2>3, <2>4, LengthsGrow
<1>5. Min(Len_) = can_fd_dlc2len(d)
  BY <1>3, <1>4, MinIs
<1> QED
  BY <1>1, <1>2, <1>5

-----------------------------------------------------------------------------
(* The two conversions, one after the other.                               *)

(* An identifier under the mask of its kind is not cut.                    *)
LEMMA IdentifierKept ==
  ASSUME NEW f, f.id \in Nat, f.eff \in BOOLEAN
  PROVE  /\ Identifier(f) \in Nat
         /\ f.eff /\ f.id \in 0 .. CAN_EXT_ID_MASK => Identifier(f) = f.id
         /\ ~f.eff /\ f.id \in 0 .. CAN_STD_ID_MASK => Identifier(f) = f.id
<1>1. CASE f.eff
  <2>1. Identifier(f) = f.id % (1 + CAN_EXT_ID_MASK)
    BY <1>1 DEF Identifier
  <2> QED
    BY <1>1, <2>1, Constants, BelowModulus
<1>2. CASE ~f.eff
  <2>1. Identifier(f) = f.id % (1 + CAN_STD_ID_MASK)
    BY <1>2 DEF Identifier
  <2> QED
    BY <1>2, <2>1, Constants, BelowModulus
<1> QED
  BY <1>1, <1>2

(* An FD frame is received as it was sent.                                 *)
LEMMA FdKept ==
  ASSUME bus = "can", NEW f \in FdFrames, NEW g,
         g = canguru_net_recv(canguru_can_fd_send(f))
  PROVE  Kept(f, g) /\ dataLen(canguru_can_fd_send(f)) = g.len
<1>1. /\ f.fd = TRUE /\ f.id \in Nat /\ f.eff \in BOOLEAN /\ f.len \in 0 .. 64
      /\ f.len8_dlc = 0
  BY Constants DEF FdFrames
<1>2. /\ g.fd = TRUE /\ g.id = Identifier(f) /\ g.eff = f.eff /\ g.rtr = f.rtr
      /\ g.esi = f.esi /\ g.brs = f.brs
      /\ g.len = can_fd_dlc2len(can_fd_len2dlc(f.len))
  BY DEF canguru_net_recv, canguru_can_fd_send
<1>3. g.len = Min({l \in ToSet(Dlc2Len) : l >= f.len})
  BY <1>1, <1>2, FdLength
<1>4. f.id \in Fits(f) => g.id = f.id
  BY <1>1, <1>2, IdentifierKept DEF Fits
<1>5. dataLen(canguru_can_fd_send(f)) = g.len
  BY <1>2 DEF dataLen, canguru_can_fd_send
<1> QED
  BY <1>1, <1>2, <1>3, <1>4, <1>5 DEF Kept

(* What CcFrame makes of the DLC of a classic frame.                       *)
LEMMA CcLength ==
  ASSUME NEW f \in CcFrames, len8 \in [from : BOOLEAN, to : BOOLEAN],
         NEW dlc, dlc = can_get_cc_dlc(f, len8.from)
  PROVE  /\ dlc \in Nat /\ can_cc_dlc2len(dlc) = f.len /\ f.len \in 0 .. 8
         /\ Min({8, dlc}) = f.len
         /\ len8.from /\ len8.to => Len8Dlc(dlc, len8.to) = f.len8_dlc
         /\ Len8Dlc(dlc, len8.to) \in {0, f.len8_dlc}
<1>1. /\ f.len \in 0 .. 8 /\ f.len8_dlc \in {0, 9, 15}
      /\ f.len8_dlc # 0 => f.len = 8
  <2>1. /\ f.len \in {l \in Lengths : l <= 8} /\ f.len8_dlc \in {0, 9, 15}
        /\ f.len8_dlc # 0 => f.len = 8
    BY DEF CcFrames
  <2>2. f.len \in 0 .. 64 /\ f.len <= 8
    BY <2>1, Constants
  <2>3. f.len \in 0 .. 8
    BY <2>2
  <2> QED
    BY <2>1, <2>3
<1>2. dlc = IF len8.from /\ f.len = 8 /\ f.len8_dlc > 8 THEN f.len8_dlc ELSE f.len
  BY DEF can_get_cc_dlc
<1>3. dlc \in Nat
  BY <1>1, <1>2
<1>4. Min({dlc, 8}) = f.len /\ Min({8, dlc}) = f.len
  BY <1>1, <1>2, <1>3, MinOfTwo
<1>5. Len8Dlc(dlc, len8.to) = IF len8.to /\ dlc > 8 THEN dlc ELSE 0
  BY DEF Len8Dlc
<1> QED
  BY <1>1, <1>2, <1>3, <1>4, <1>5 DEF can_cc_dlc2len

(* A classic frame is received as it was sent.                             *)
LEMMA CcKept ==
  ASSUME bus = "can", len8 \in [from : BOOLEAN, to : BOOLEAN],
         NEW f \in CcFrames, NEW g,
         g = canguru_net_recv(canguru_can_classic_send(f))
  PROVE  Kept(f, g) /\ dataLen(canguru_can_classic_send(f)) = g.len
<1>1. /\ f.fd = FALSE /\ f.id \in Nat /\ f.eff \in BOOLEAN
      /\ f.esi = FALSE /\ f.brs = FALSE
  BY Constants DEF CcFrames
<1>2. PICK dlc : dlc = can_get_cc_dlc(f, len8.from)
  OBVIOUS
<1>3. /\ g.fd = FALSE /\ g.id = Identifier(f) /\ g.eff = f.eff /\ g.rtr = f.rtr
      /\ g.esi = FALSE /\ g.brs = FALSE
      /\ g.len = can_cc_dlc2len(dlc) /\ g.len8_dlc = Len8Dlc(dlc, len8.to)
  BY <1>2 DEF canguru_net_recv, canguru_can_classic_send, CcFrame
<1>4. f.id \in Fits(f) => g.id = f.id
  BY <1>1, <1>3, IdentifierKept DEF Fits
<1>5. dataLen(canguru_can_classic_send(f)) = g.len
  BY <1>2, <1>3 DEF dataLen, canguru_can_classic_send
<1> QED
  BY <1>1, <1>2, <1>3, <1>4, <1>5, CcLength DEF Kept

(* A LIN frame is received as it was sent.                                 *)
LEMMA LinKept ==
  ASSUME bus = "lin", len8 \in [from : BOOLEAN, to : BOOLEAN],
         NEW f \in CcFrames, NEW msg, msg = Carry(linguru_lin_send(f)),
         NEW g, g = linguru_net_recv(msg)
  PROVE  Kept(f, g) /\ dataLen(msg) = g.len
<1>1. /\ f.fd = FALSE /\ f.id \in Nat /\ f.eff \in BOOLEAN
      /\ f.esi = FALSE /\ f.brs = FALSE
  BY Constants DEF CcFrames
<1>2. PICK dlc : dlc = can_get_cc_dlc(f, len8.from)
  OBVIOUS
<1>3. /\ msg.id = f.id % (LIN_ID_MASK + 1) /\ msg.remote_data = f.rtr
      /\ msg.enhanced_sum = ((f.id \div LIN_ENHANCED_SUM_FLAG) % 2 = 1)
      /\ msg.data_len = f.len
  BY <1>2, CcLength DEF Carry, linguru_lin_send
<1>4. /\ g.fd = FALSE /\ g.eff = FALSE /\ g.rtr = f.rtr
      /\ g.esi = FALSE /\ g.brs = FALSE
      /\ g.id = msg.id + IF msg.enhanced_sum THEN LIN_ENHANCED_SUM_FLAG ELSE 0
      /\ g.len = can_cc_dlc2len(f.len) /\ g.len8_dlc = Len8Dlc(f.len, len8.to)
  BY <1>3 DEF linguru_net_recv, CcFrame
<1>5. g.len = f.len /\ g.len8_dlc = 0
  <2>1. f.len \in 0 .. 8
    BY <1>2, CcLength
  <2> QED
    BY <1>4, <2>1, MinOfTwo DEF can_cc_dlc2len, Len8Dlc
<1>6. f.id \in Fits(f) => g.id = f.id
  <2> DEFINE n == LIN_ID_MASK + 1
  <2>1. /\ n \in Nat /\ LIN_ENHANCED_SUM_FLAG = n
        /\ LIN_ENHANCED_SUM_FLAG + LIN_ID_MASK = 2 * n - 1
    BY Constants DEF LIN_ENHANCED_SUM_FLAG
  <2>2. /\ msg.id = f.id % n
        /\ msg.enhanced_sum = ((f.id \div n) % 2 = 1)
        /\ g.id = msg.id + IF msg.enhanced_sum THEN n ELSE 0
    BY <1>3, <1>4, <2>1
  <2>3. Fits(f) = 0 .. 2 * n - 1
    BY <2>1 DEF Fits
  <2> HIDE DEF n
  <2>4. CASE f.id \in 0 .. n - 1
    <3>1. f.id % n = f.id /\ f.id \div n = 0
      BY <2>1, <2>4, BelowModulus
    <3>2. 0 % 2 = 0
      BY BelowModulus
    <3>3. ~msg.enhanced_sum
      <4>1. (f.id \div n) % 2 # 1
        BY <3>1, <3>2
      <4> QED
        BY <2>2, <4>1
    <3> QED
      BY <1>1, <2>2, <3>1, <3>3
  <2>5. CASE f.id \in n .. 2 * n - 1
    <3>1. f.id % n = f.id - n /\ f.id \div n = 1
      BY <2>1, <2>5, AboveModulus
    <3>2. 1 % 2 = 1
      BY BelowModulus
    <3>3. msg.enhanced_sum
      BY <2>2, <3>1, <3>2
    <3> QED
      BY <1>1, <2>1, <2>2, <3>1, <3>3
  <2> QED
    BY <1>1, <2>1, <2>3, <2>4, <2>5
<1>7. dataLen(msg) = g.len
  BY <1>3, <1>5 DEF dataLen
<1>8. g.len8_dlc \in {0, f.len8_dlc} /\ g.eff = (f.eff /\ bus = "can")
  BY <1>4, <1>5
<1> QED
  BY <1>1, <1>4, <1>5, <1>6, <1>7, <1>8 DEF Kept

-----------------------------------------------------------------------------
(* The inductive invariant.                                                *)

Typed ==
  /\ bus \in {"can", "lin"}
  /\ len8 \in [from : BOOLEAN, to : BOOLEAN]
  /\ clock \in Nat

(* What is under way is what a driver made of a frame it was given.        *)
Sent ==
  \A m \in wire :
    /\ m.of \in CcFrames \cup (IF bus = "can" THEN FdFrames ELSE {})
    /\ m.msg = Carry(Convert(m.of))
    /\ m.time \in Nat

(* Each stamp is that of the moment, in nanoseconds.                       *)
Stamped ==
  /\ stamps \in Seq([time : Nat, ns : Nat])
  /\ \A i \in 1 .. Len(stamps) : stamps[i].ns = (stamps[i].time % Stamps) * Tick

IInv == Typed /\ Sent /\ Stamped /\ RoundTrip

(* Every frame that arrives is the one that was sent.                      *)
LEMMA Delivered ==
  ASSUME Typed, Sent, NEW m \in wire, NEW g,
         g = IF bus = "lin" THEN linguru_net_recv(m.msg) ELSE canguru_net_recv(m.msg)
  PROVE  Kept(m.of, g) /\ dataLen(m.msg) = g.len
<1>1. CASE bus = "lin"
  <2>1. m.of \in CcFrames /\ m.msg = Carry(linguru_lin_send(m.of))
    BY <1>1 DEF Sent, Convert
  <2> QED
    BY <1>1, <2>1, LinKept DEF Typed
<1>2. CASE bus = "can" /\ m.of \in FdFrames
  <2>1. m.msg = canguru_can_fd_send(m.of)
    BY <1>2 DEF Sent, Convert, Carry, FdFrames
  <2> QED
    BY <1>2, <2>1, FdKept
<1>3. CASE bus = "can" /\ m.of \in CcFrames
  <2>1. m.msg = canguru_can_classic_send(m.of)
    BY <1>3 DEF Sent, Convert, Carry, CcFrames
  <2> QED
    BY <1>3, <2>1, CcKept DEF Typed
<1> QED
  BY <1>1, <1>2, <1>3 DEF Typed, Sent

(* Receiving keeps the invariant.                                          *)
LEMMA RecvStep ==
  ASSUME IInv, recv_callback
  PROVE  IInv'
<1>1. PICK m \in wire :
        /\ wire' = {}
        /\ skb' = {[iface |-> i, of |-> m.of, bytes |-> dataLen(m.msg),
                    frame |-> IF bus = "lin" THEN linguru_net_recv(m.msg)
                              ELSE canguru_net_recv(m.msg)] :
                    i \in {m.iface} \cap 0 .. Count - 1}
        /\ stamps' = IF skb' = {} THEN stamps
                     ELSE <<[time |-> m.time, ns |-> hwtstamp(m.time % Stamps)]>>
                          \o SubSeq(stamps, 1, Min({1, Len(stamps)}))
        /\ UNCHANGED <<bus, len8, clock>>
  BY DEF recv_callback
<1>2. Typed' /\ Sent'
  BY <1>1 DEF IInv, Typed, Sent
<1>3. RoundTrip'
  <2> SUFFICES ASSUME NEW s \in skb'
               PROVE  Kept(s.of, s.frame)' /\ s.bytes = s.frame.len /\ s.iface < Count
    BY DEF RoundTrip
  <2>1. PICK i \in 0 .. Count - 1 :
          s = [iface |-> i, of |-> m.of, bytes |-> dataLen(m.msg),
               frame |-> IF bus = "lin" THEN linguru_net_recv(m.msg)
                         ELSE canguru_net_recv(m.msg)]
    BY <1>1
  <2>2. Kept(s.of, s.frame) /\ s.bytes = s.frame.len
    BY <2>1, Delivered DEF IInv
  <2>3. Kept(s.of, s.frame)'
    BY <1>1, <2>2 DEF Kept, Fits
  <2> QED
    BY <2>1, <2>2, <2>3, Constants
<1>4. Stamped'
  <2>1. CASE skb' = {}
    BY <1>1, <2>1 DEF IInv, Stamped
  <2>2. CASE skb' # {}
    <3> DEFINE new == [time |-> m.time, ns |-> hwtstamp(m.time % Stamps)]
               old == SubSeq(stamps, 1, Min({1, Len(stamps)}))
    <3>1. m.time \in Nat /\ m.time % Stamps \in Nat
      BY Constants DEF IInv, Sent
    <3>2. new \in [time : Nat, ns : Nat] /\ new.ns = (new.time % Stamps) * Tick
      BY <3>1, Constants DEF hwtstamp
    <3>3. PICK k \in Nat : k = Min({1, Len(stamps)}) /\ k <= Len(stamps) /\ k <= 1
      BY MinOfTwo DEF IInv, Stamped
    <3>4. /\ old \in Seq([time : Nat, ns : Nat]) /\ Len(old) = k
          /\ \A i \in 1 .. k : old[i] = stamps[i]
      <4>1. stamps \in Seq([time : Nat, ns : Nat]) /\ Len(stamps) \in Nat
        BY DEF IInv, Stamped
      <4>2. /\ 1 \in Int /\ k \in Int
            /\ \A i \in 1 .. k : stamps[i] \in [time : Nat, ns : Nat]
        <5>1. \A i \in 1 .. k : i \in 1 .. Len(stamps)
          BY <3>3, <4>1
        <5>2. \A i \in 1 .. Len(stamps) : stamps[i] \in [time : Nat, ns : Nat]
          BY <4>1, ElementOfSeq
        <5>3. \A i \in 1 .. k : stamps[i] \in [time : Nat, ns : Nat]
          BY <5>1, <5>2, Zenon
        <5>4. k \in Int
          BY <3>3
        <5> QED
          BY <5>3, <5>4
      <4>3. old = SubSeq(stamps, 1, k)
        BY <3>3
      <4> HIDE DEF old
      <4>4. /\ old \in Seq([time : Nat, ns : Nat])
            /\ Len(old) = IF 1 <= k THEN k - 1 + 1 ELSE 0
            /\ \A i \in 1 .. k - 1 + 1 : old[i] = stamps[1 + i - 1]
        <5>1. /\ SubSeq(stamps, 1, k) \in Seq([time : Nat, ns : Nat])
              /\ Len(SubSeq(stamps, 1, k)) = IF 1 <= k THEN k - 1 + 1 ELSE 0
              /\ \A i \in 1 .. k - 1 + 1 : SubSeq(stamps, 1, k)[i] = stamps[1 + i - 1]
          BY ONLY <4>2, SubSeqProperties
        <5> QED
          BY <4>3, <5>1, Zenon
      <4>5. \A i \in 1 .. k : 1 + i - 1 = i /\ i \in 1 .. k - 1 + 1
        BY <3>3
      <4>6. Len(old) = k
        BY <3>3, <4>4
      <4> QED
        BY <4>4, <4>5, <4>6
    <3>5. stamps' = <<new>> \o old
      BY <1>1, <2>2
    <3>6. \A i \in 1 .. k : old[i].ns = (old[i].time % Stamps) * Tick
      <4>1. \A i \in 1 .. k : i \in 1 .. Len(stamps)
        BY <3>3 DEF IInv, Stamped
      <4> HIDE DEF old
      <4> QED
        BY <3>4, <4>1 DEF IInv, Stamped
    <3> HIDE DEF new, old
    <3>7. /\ stamps' \in Seq([time : Nat, ns : Nat]) /\ Len(stamps') = k + 1
          /\ \A i \in 1 .. k + 1 : stamps'[i] = IF i = 1 THEN new ELSE old[i - 1]
      <4>1. /\ <<new>> \in Seq([time : Nat, ns : Nat]) /\ Len(<<new>>) = 1
            /\ <<new>>[1] = new
        BY <3>2
      <4>2. /\ stamps' \in Seq([time : Nat, ns : Nat]) /\ Len(stamps') = 1 + k
            /\ \A i \in 1 .. 1 + k : stamps'[i] = IF i <= 1 THEN <<new>>[i]
                                                 ELSE old[i - 1]
        BY <3>4, <3>5, <4>1, ConcatProperties
      <4>3. 1 + k = k + 1 /\ \A i \in 1 .. k + 1 : i <= 1 <=> i = 1
        BY <3>3
      <4> QED
        BY <4>1, <4>2, <4>3
    <3>8. \A i \in 1 .. k + 1 : stamps'[i].ns = (stamps'[i].time % Stamps) * Tick
      <4> SUFFICES ASSUME NEW i \in 1 .. k + 1
                   PROVE  stamps'[i].ns = (stamps'[i].time % Stamps) * Tick
        OBVIOUS
      <4>1. CASE i = 1
        BY <3>2, <3>7, <4>1
      <4>2. CASE i # 1
        <5>1. i - 1 \in 1 .. k
          BY <3>3, <4>2
        <5>2. stamps'[i] = old[i - 1]
          BY <3>7, <4>2
        <5> QED
          BY <3>6, <5>1, <5>2
      <4> QED
        BY <4>1, <4>2
    <3> QED
      BY <3>7, <3>8 DEF Stamped
  <2> QED
    BY <2>1, <2>2
<1> QED
  BY <1>2, <1>3, <1>4 DEF IInv

(* Sending keeps it.                                                       *)
LEMMA SendStep ==
  ASSUME IInv, Send
  PROVE  IInv'
<1>1. PICK f \in CcFrames \cup (IF bus = "can" THEN FdFrames ELSE {}),
           channel \in 0 .. Count :
        wire' = {[iface |-> channel, time |-> clock,
                  msg |-> Carry(Convert(f)), of |-> f]}
  BY DEF Send
<1>2. skb' = {} /\ UNCHANGED <<bus, len8, clock, stamps>>
  BY DEF Send
<1>3. Sent'
  <2>1. (Carry(Convert(f)))' = Carry(Convert(f))
    BY <1>2 DEF Carry, Convert, linguru_lin_send, canguru_can_fd_send,
                canguru_can_classic_send
  <2>2. clock \in Nat
    BY DEF IInv, Typed
  <2> QED
    BY <1>1, <1>2, <2>1, <2>2 DEF Sent
<1>4. Typed' /\ Stamped' /\ RoundTrip'
  BY <1>2 DEF IInv, Typed, Stamped, RoundTrip
<1> QED
  BY <1>3, <1>4 DEF IInv

(* IInv is inductive: what is under way was made by the conversions, so    *)
(* that what arrives is what they keep.                                    *)
THEOREM Inductive == Spec => []IInv
<1>1. Init => IInv
  <2> SUFFICES ASSUME Init PROVE IInv
    OBVIOUS
  <2>1. stamps \in Seq([time : Nat, ns : Nat]) /\ Len(stamps) = 0
    BY DEF Init
  <2> QED
    BY <2>1 DEF Init, IInv, Typed, Sent, Stamped, RoundTrip
<1>2. IInv /\ [Next]_vars => IInv'
  <2> SUFFICES ASSUME IInv, [Next]_vars PROVE IInv'
    OBVIOUS
  <2>1. CASE Pass
    <3>1. clock' \in Nat /\ skb' = {} /\ UNCHANGED <<bus, len8, wire, stamps>>
      BY <2>1 DEF Pass, IInv, Typed
    <3> QED
      BY <3>1 DEF IInv, Typed, Sent, Stamped, RoundTrip, Carry, Convert,
                  linguru_lin_send, canguru_can_fd_send, canguru_can_classic_send
  <2>2. CASE UNCHANGED vars
    BY <2>2 DEF vars, IInv, Typed, Sent, Stamped, RoundTrip, Kept, Fits, Carry, Convert,
                linguru_lin_send, canguru_can_fd_send, canguru_can_classic_send
  <2> QED
    BY <2>1, <2>2, SendStep, RecvStep DEF Next
<1> QED
  BY <1>1, <1>2, PTL DEF Spec

(* Every frame that crosses the two drivers arrives as it was sent.        *)
THEOREM KeepsFrames == Spec => []RoundTrip
  BY Inductive, PTL DEF IInv

(* Stamps of one turn of the clock are as far apart as the receptions.     *)
THEOREM StampsKeepDistance == Spec => []StampsExact
<1>1. IInv => StampsExact
  <2> SUFFICES ASSUME IInv, Len(stamps) = 2,
                      NEW a, a = stamps[1].time, NEW b, b = stamps[2].time,
                      a \div Stamps = b \div Stamps
               PROVE  stamps[1].ns = stamps[2].ns + (a - b) * Tick
    BY DEF StampsExact
  <2>1. /\ a \in Nat /\ b \in Nat
        /\ stamps[1].ns = (a % Stamps) * Tick /\ stamps[2].ns = (b % Stamps) * Tick
    <3>1. 1 \in 1 .. Len(stamps) /\ 2 \in 1 .. Len(stamps)
      OBVIOUS
    <3>2. /\ stamps \in Seq([time : Nat, ns : Nat])
          /\ \A i \in 1 .. Len(stamps) :
               stamps[i].ns = (stamps[i].time % Stamps) * Tick
      BY DEF IInv, Stamped
    <3>3. stamps[1] \in [time : Nat, ns : Nat] /\ stamps[2] \in [time : Nat, ns : Nat]
      BY <3>1, <3>2, ElementOfSeq
    <3> QED
      BY <3>1, <3>2, <3>3
  <2>2. PICK r, s \in Nat, q \in Nat :
          r = a % Stamps /\ s = b % Stamps /\ a = Stamps * q + r /\ b = Stamps * q + s
    <3>1. \A x \in Nat : /\ x = Stamps * (x \div Stamps) + (x % Stamps)
                         /\ x % Stamps \in Nat /\ x \div Stamps \in Nat
      BY Constants
    <3>2. /\ a = Stamps * (a \div Stamps) + (a % Stamps)
          /\ b = Stamps * (a \div Stamps) + (b % Stamps)
      BY <2>1, <3>1
    <3>3. a % Stamps \in Nat /\ b % Stamps \in Nat /\ a \div Stamps \in Nat
      BY <2>1, <3>1
    <3> QED
      BY <3>2, <3>3
  <2>3. a - b = r - s
    BY <2>2, Constants
  <2>4. r * Tick = s * Tick + (r - s) * Tick
    BY <2>2, Constants
  <2> QED
    BY <2>1, <2>2, <2>3, <2>4
<1> QED
  BY <1>1, Inductive, PTL
=============================================================================
