--------------------------- MODULE GuruConfigProofs ---------------------------
(***************************************************************************)
(* Proofs about the configuration of an interface, for any bit rates and   *)
(* any commands that fail or get lost.                                     *)
(***************************************************************************)
EXTENDS GuruConfig, SequenceTheorems, TLAPS

Fields == {"conf", "timing", "filter", "ter", "enable"}
States == {"ABSENT", "STOPPED", "ERROR_ACTIVE"}

(* What can_changelink handles one by one.                                 *)
Attr == [bitrate : Rates] \cup [dbitrate : Rates] \cup [listen : BOOLEAN]
          \cup [fd : BOOLEAN] \cup [ter : BOOLEAN]

IsRate(a) == "bitrate" \in DOMAIN a \/ "dbitrate" \in DOMAIN a

-----------------------------------------------------------------------------
(* The inductive invariant.                                                *)

Typed ==
  /\ bus \in {"can", "lin"}
  /\ device = [f \in Fields |-> device[f]]
  /\ can \in [bitrate : Nat, dbitrate : Nat, listen : BOOLEAN, fd : BOOLEAN,
              ter : BOOLEAN, state : States]
  /\ todo \in Seq(Attr)
  /\ changed \in BOOLEAN

(* The messages that can be under way: only termination while the          *)
(* interface is up, no data bit rate on LIN, and turning FD on is followed *)
(* by a bit rate.                                                          *)
Pending ==
  /\ Up /\ todo # <<>> => Len(todo) = 1 /\ "ter" \in DOMAIN todo[1]
  /\ bus = "lin" => \A i \in 1 .. Len(todo) : "dbitrate" \notin DOMAIN todo[i]
  /\ \A i \in 1 .. Len(todo) :
       "fd" \in DOMAIN todo[i] /\ todo[i].fd =>
         i < Len(todo) /\ IsRate(todo[i + 1])

(* Nothing can be set before the interface exists.                         *)
Fresh ==
  can.state = "ABSENT" =>
    /\ todo = <<>>
    /\ can.bitrate = 0 /\ can.dbitrate = 0
    /\ ~can.fd /\ ~can.listen /\ ~can.ter

(* With FD on, the adapter knows of it and of the data bit rate, or a bit  *)
(* rate comes next and the configuration with it.                          *)
FdSent ==
  bus = "can" /\ can.fd /\ "conf" \notin unsent =>
    \/ device.conf[2] = can.dbitrate /\ device.conf[3]
    \/ todo # <<>> /\ IsRate(Head(todo))

(* The adapter has the configuration of a CAN bus as it was sent last.     *)
ConfSent ==
  bus = "can" /\ can.state # "ABSENT" /\ ~changed
    /\ "conf" \notin unsent /\ "reset" \notin unsent => device.conf = Conf(can)

(* The other commands.                                                     *)
RestSent ==
  /\ bus = "lin" => device.timing = <<0, 0>>
  /\ can.state # "ABSENT" /\ "filter" \notin unsent =>
       device.filter = (bus = "can")
  /\ Up /\ "enable" \notin unsent => device.enable = TRUE

Known == SameRates /\ LinConfigured /\ TerminationAgrees

IInv == Typed /\ Pending /\ Fresh /\ FdSent /\ ConfSent /\ RestSent /\ Known

-----------------------------------------------------------------------------
(* The attributes.                                                         *)

(* An attribute is known by its name.                                      *)
LEMMA AttrKinds ==
  ASSUME NEW a \in Attr
  PROVE  /\ "bitrate" \in DOMAIN a => a \in [bitrate : Rates]
         /\ "dbitrate" \in DOMAIN a => a \in [dbitrate : Rates]
         /\ "listen" \in DOMAIN a => a \in [listen : BOOLEAN]
         /\ "fd" \in DOMAIN a => a \in [fd : BOOLEAN]
         /\ "ter" \in DOMAIN a => a \in [ter : BOOLEAN]
  BY DEF Attr

(* Each has one.                                                           *)
LEMMA AttrNames ==
  ASSUME NEW a \in Attr
  PROVE  /\ "fd" \in DOMAIN a \/ "listen" \in DOMAIN a \/ "ter" \in DOMAIN a
               => ~IsRate(a)
         /\ "listen" \in DOMAIN a \/ "ter" \in DOMAIN a => "fd" \notin DOMAIN a
         /\ "ter" \in DOMAIN a => DOMAIN a = {"ter"}
  BY DEF Attr, IsRate

(* The first attribute of a message.                                       *)
LEMMA First ==
  ASSUME Typed, todo # <<>>
  PROVE  /\ Len(todo) \in Nat \ {0} /\ Head(todo) = todo[1] /\ Head(todo) \in Attr
         /\ Tail(todo) \in Seq(Attr) /\ Len(Tail(todo)) = Len(todo) - 1
         /\ \A i \in 1 .. Len(todo) - 1 : Tail(todo)[i] = todo[i + 1]
  BY HeadTailProperties, LenProperties, EmptySeq DEF Typed

(* It has been dealt with, or all have been dropped.                       *)
LEMMA Dealt ==
  ASSUME Typed, Pending, todo # <<>>, todo' \in {Tail(todo), <<>>},
         UNCHANGED bus, Up' => Up
  PROVE  todo' \in Seq(Attr) /\ Pending'
<1>0. /\ Len(todo) \in Nat \ {0}
      /\ Tail(todo) \in Seq(Attr) /\ Len(Tail(todo)) = Len(todo) - 1
      /\ \A i \in 1 .. Len(todo) - 1 : Tail(todo)[i] = todo[i + 1]
  BY First
<1>1. /\ todo' \in Seq(Attr) /\ Len(todo') \in Nat
      /\ Len(todo') <= Len(todo) - 1
      /\ Len(todo') # 0 => todo' = Tail(todo)
  <2>1. CASE todo' = Tail(todo)
    BY <1>0, <2>1
  <2>2. CASE todo' = <<>>
    BY <1>0, <2>2
  <2> QED
    BY <2>1, <2>2
<1>2. \A i \in 1 .. Len(todo') :
        /\ i + 1 \in 1 .. Len(todo) /\ todo'[i] = todo[i + 1]
        /\ Len(todo') = Len(todo) - 1
  <2> SUFFICES ASSUME NEW i \in 1 .. Len(todo')
               PROVE  /\ i + 1 \in 1 .. Len(todo) /\ todo'[i] = todo[i + 1]
                      /\ Len(todo') = Len(todo) - 1
    OBVIOUS
  <2>1. Len(todo') # 0 /\ i \in Nat /\ i >= 1 /\ i <= Len(todo')
    BY <1>1
  <2>2. todo' = Tail(todo)
    BY <1>1, <2>1
  <2>3. i \in 1 .. Len(todo) - 1 /\ i + 1 \in 1 .. Len(todo)
    BY <1>0, <1>1, <2>1
  <2> QED
    BY <1>0, <2>2, <2>3
<1>3. Up' => Len(todo') = 0
  BY <1>0, <1>1 DEF Pending
<1>4. Up' => todo' = <<>>
  BY <1>1, <1>3, EmptySeq
<1>5. bus' = "lin" => \A i \in 1 .. Len(todo') : "dbitrate" \notin DOMAIN todo'[i]
  BY <1>2 DEF Pending
<1>6. \A i \in 1 .. Len(todo') :
        "fd" \in DOMAIN todo'[i] /\ todo'[i].fd =>
          i < Len(todo') /\ IsRate(todo'[i + 1])
  <2> SUFFICES ASSUME NEW i \in 1 .. Len(todo'),
                      "fd" \in DOMAIN todo'[i], todo'[i].fd
               PROVE  i < Len(todo') /\ IsRate(todo'[i + 1])
    OBVIOUS
  <2>1. i + 1 \in 1 .. Len(todo) /\ todo'[i] = todo[i + 1] /\ Len(todo') = Len(todo) - 1
    BY <1>2
  <2>2. i + 1 < Len(todo) /\ IsRate(todo[(i + 1) + 1])
    BY <2>1 DEF Pending
  <2>3. i + 1 \in 1 .. Len(todo') /\ i < Len(todo')
    BY <1>0, <1>1, <2>1, <2>2
  <2>4. todo'[i + 1] = todo[(i + 1) + 1]
    BY <1>2, <2>3
  <2> QED
    BY <2>2, <2>3, <2>4
<1> QED
  BY <1>1, <1>4, <1>5, <1>6 DEF Pending

-----------------------------------------------------------------------------
(* The commands.                                                           *)

(* What the adapter gets it executes, the rest stays as it was.            *)
LEMMA Sent ==
  ASSUME Typed, NEW cs, NEW got, Send(cs, got)
  PROVE  /\ device' = [f \in Fields |-> device'[f]]
         /\ \A f \in Fields : device'[f] = IF f \in got THEN cs[f] ELSE device[f]
         /\ unsent' = (unsent \cup DOMAIN cs) \ got
<1>1. DOMAIN device = Fields
  BY DEF Typed
<1>2. device' = [f \in Fields |-> IF f \in got THEN cs[f] ELSE device[f]]
  BY <1>1 DEF Send
<1> QED
  BY <1>2 DEF Send

-----------------------------------------------------------------------------
(* The beginning.                                                          *)

(* After a reset the adapter has what a fresh interface says.              *)
LEMMA ResetFacts ==
  /\ Reset = [f \in Fields |-> Reset[f]]
  /\ bus = "can" => Reset.conf = <<0, 0, FALSE, FALSE>>
  /\ bus # "can" => Reset.conf = <<0, FALSE>>
  /\ Reset.timing = <<0, 0>>
  /\ Reset.filter = FALSE /\ Reset.ter = FALSE /\ Reset.enable = FALSE
  BY DEF Reset, Fields

(* Nothing is set, nothing is sent.                                        *)
LEMMA InitHolds == Init => IInv
<1> SUFFICES ASSUME Init PROVE IInv
  OBVIOUS
<1>1. /\ bus \in {"can", "lin"} /\ todo = <<>> /\ unsent = {} /\ changed = FALSE
      /\ can = [bitrate |-> 0, dbitrate |-> 0, listen |-> FALSE, fd |-> FALSE,
                ter |-> FALSE, state |-> "ABSENT"]
  BY DEF Init
<1>2. /\ device = [f \in Fields |-> device[f]]
      /\ device.conf = Reset.conf /\ device.timing = Reset.timing
      /\ device.ter = FALSE
  <2>1. CASE device = Reset
    BY <2>1, ResetFacts
  <2>2. CASE device = [Reset EXCEPT !.enable = TRUE]
    BY <2>2 DEF Reset, Fields
  <2> QED
    BY <2>1, <2>2 DEF Init
<1>3. Typed
  BY <1>1, <1>2, EmptySeq DEF Typed, States
<1>4. Pending /\ Fresh /\ FdSent
  BY <1>1 DEF Pending, Fresh, FdSent, Up
<1>5. ConfSent /\ RestSent
  BY <1>1, <1>2, ResetFacts DEF ConfSent, RestSent, Up
<1>6. LinConfigured /\ TerminationAgrees
  BY <1>1 DEF LinConfigured, TerminationAgrees, Up
<1>7. SameRates
  <2>1. bus = "can" => device.conf[1] = 0 /\ device.conf[2] = 0
    BY <1>2, ResetFacts
  <2>2. device.timing = <<0, 0>>
    BY <1>2, ResetFacts
  <2> QED
    BY <2>1, <2>2 DEF SameRates
<1> QED
  BY <1>3, <1>4, <1>5, <1>6, <1>7 DEF IInv, Known

(* The interface is created: reset and filter reach the adapter or not.    *)
LEMMA CreateStep ==
  ASSUME IInv, net_create
  PROVE  IInv'
<1>1. /\ can.state = "ABSENT" /\ can' = [can EXCEPT !.state = "STOPPED"]
      /\ UNCHANGED <<bus, todo, changed>>
  BY DEF net_create
<1>2. /\ todo = <<>> /\ can.bitrate = 0 /\ can.dbitrate = 0
      /\ can.fd = FALSE /\ can.listen = FALSE /\ can.ter = FALSE
  BY <1>1 DEF IInv, Fresh, Typed
<1>3. /\ can'.state = "STOPPED" /\ can'.bitrate = 0 /\ can'.dbitrate = 0
      /\ can'.fd = FALSE /\ can'.listen = FALSE /\ can'.ter = FALSE
  BY <1>1, <1>2 DEF IInv, Typed
<1>4. PICK got \in SUBSET IF bus = "can" THEN {"reset", "filter"} ELSE {"reset"} :
        /\ device' = [IF "reset" \in got THEN Reset ELSE device EXCEPT
                        !.filter = "filter" \in got]
        /\ unsent' = (IF bus = "can" THEN {"reset", "filter"} ELSE {"reset"}) \ got
  BY DEF net_create
<1>5. /\ device' = [f \in Fields |-> device'[f]]
      /\ device'.filter = ("filter" \in got)
      /\ \A f \in Fields \ {"filter"} :
           device'[f] = IF "reset" \in got THEN Reset[f] ELSE device[f]
  <2>1. CASE "reset" \in got
    BY <1>4, <2>1, ResetFacts DEF Fields
  <2>2. CASE "reset" \notin got
    BY <1>4, <2>2 DEF Fields, IInv, Typed
  <2> QED
    BY <2>1, <2>2
<1>6. /\ "reset" \notin unsent' => "reset" \in got
      /\ "conf" \notin unsent' /\ "timing" \notin unsent' /\ "enable" \notin unsent'
      /\ bus = "can" /\ "filter" \notin unsent' => "filter" \in got
      /\ bus # "can" => "filter" \notin got
  BY <1>4
<1>7. Typed'
  BY <1>1, <1>5 DEF IInv, Typed, States
<1>8. Pending' /\ Fresh' /\ FdSent'
  BY <1>1, <1>2, <1>3 DEF IInv, Pending, Fresh, FdSent, Up
<1>9. bus \in {"can", "lin"}
  BY DEF IInv, Typed
<1>10. ConfSent'
  BY <1>1, <1>3, <1>5, <1>6, ResetFacts DEF ConfSent, Conf, Fields
<1>11. RestSent'
  <2>1. bus = "lin" => device'.timing = <<0, 0>>
    BY <1>5, ResetFacts DEF IInv, RestSent, Fields
  <2>2. "filter" \notin unsent' => device'.filter = (bus = "can")
    BY <1>5, <1>6
  <2> QED
    BY <1>1, <1>3, <2>1, <2>2 DEF RestSent, Up
<1>12. SameRates'
  BY <1>1, <1>5, <1>6, ResetFacts DEF SameRates, Fields
<1>13. LinConfigured'
  BY <1>3 DEF LinConfigured, Up
<1>14. TerminationAgrees'
  BY <1>3, <1>5, <1>6, ResetFacts DEF TerminationAgrees, Fields
<1> QED
  BY <1>7, <1>8, <1>10, <1>11, <1>12, <1>13, <1>14 DEF IInv, Known

-----------------------------------------------------------------------------
(* Netlink.                                                                *)

(* Every message is a sequence of attributes in which a bit rate follows   *)
(* the FD mode.                                                            *)
LEMMA MessageFacts ==
  ASSUME NEW m \in Messages
  PROVE  /\ m \in Seq(Attr)
         /\ bus = "lin" => \A i \in 1 .. Len(m) : "dbitrate" \notin DOMAIN m[i]
         /\ \A i \in 1 .. Len(m) :
              "fd" \in DOMAIN m[i] /\ m[i].fd => i < Len(m) /\ IsRate(m[i + 1])
<1>1. CASE \E a \in [bitrate : Rates] \cup [listen : BOOLEAN] : m = <<a>>
  <2>1. PICK a \in [bitrate : Rates] \cup [listen : BOOLEAN] : m = <<a>>
    BY <1>1
  <2>2. a \in Attr /\ "dbitrate" \notin DOMAIN a /\ "fd" \notin DOMAIN a
    BY DEF Attr
  <2> QED
    BY <2>1, <2>2
<1>2. CASE bus # "lin" /\ m = <<[fd |-> FALSE]>>
  BY <1>2 DEF Attr
<1>3. CASE bus # "lin" /\ \E r \in Rates, d \in Rates :
             m = <<[fd |-> TRUE], [bitrate |-> r], [dbitrate |-> d], [ter |-> TRUE]>>
  <2>1. PICK r \in Rates, d \in Rates :
          m = <<[fd |-> TRUE], [bitrate |-> r], [dbitrate |-> d], [ter |-> TRUE]>>
    BY <1>3
  <2>2. Len(m) = 4 /\ m[1] = [fd |-> TRUE] /\ m[2] = [bitrate |-> r]
        /\ m[3] = [dbitrate |-> d] /\ m[4] = [ter |-> TRUE]
    BY <2>1
  <2>3. m \in Seq(Attr)
    BY <2>1 DEF Attr
  <2>4. IsRate(m[2])
    BY <2>2 DEF IsRate
  <2>5. \A i \in 1 .. 4 : "fd" \in DOMAIN m[i] => i = 1
    BY <2>2
  <2> QED
    BY <1>3, <2>2, <2>3, <2>4, <2>5
<1>4. CASE bus # "lin" /\ \E r \in Rates, d \in Rates :
             m = <<[bitrate |-> r], [fd |-> TRUE], [dbitrate |-> d], [ter |-> TRUE]>>
  <2>1. PICK r \in Rates, d \in Rates :
          m = <<[bitrate |-> r], [fd |-> TRUE], [dbitrate |-> d], [ter |-> TRUE]>>
    BY <1>4
  <2>2. Len(m) = 4 /\ m[2] = [fd |-> TRUE] /\ m[1] = [bitrate |-> r]
        /\ m[3] = [dbitrate |-> d] /\ m[4] = [ter |-> TRUE]
    BY <2>1
  <2>3. m \in Seq(Attr)
    BY <2>1 DEF Attr
  <2>4. IsRate(m[3])
    BY <2>2 DEF IsRate
  <2>5. \A i \in 1 .. 4 : "fd" \in DOMAIN m[i] => i = 2
    BY <2>2
  <2> QED
    BY <1>4, <2>2, <2>3, <2>4, <2>5
<1> QED
  BY <1>1, <1>2, <1>3, <1>4 DEF Messages

(* A message arrives: nothing is sent yet.                                 *)
LEMMA ChangelinkStep ==
  ASSUME IInv, can_changelink
  PROVE  IInv'
<1>1. todo = <<>> /\ UNCHANGED <<bus, can, device, unsent, changed>>
  BY DEF can_changelink, hostVars
<1>2. /\ todo' \in Seq(Attr)
      /\ bus = "lin" => \A i \in 1 .. Len(todo') : "dbitrate" \notin DOMAIN todo'[i]
      /\ \A i \in 1 .. Len(todo') :
           "fd" \in DOMAIN todo'[i] /\ todo'[i].fd =>
             i < Len(todo') /\ IsRate(todo'[i + 1])
      /\ can.state # "ABSENT"
      /\ Up => Len(todo') = 1 /\ "ter" \in DOMAIN todo'[1]
  <2>1. CASE can.state = "STOPPED" /\ todo' \in Messages
    BY <2>1, MessageFacts DEF Up
  <2>2. CASE can.state # "ABSENT" /\ \E t \in BOOLEAN : todo' = <<[ter |-> t]>>
    BY <2>2 DEF Attr
  <2> QED
    BY <2>1, <2>2 DEF can_changelink
<1>3. Typed' /\ Pending' /\ Fresh'
  BY <1>1, <1>2 DEF IInv, Typed, Pending, Fresh, Up
<1>4. FdSent' /\ ConfSent' /\ RestSent'
  BY <1>1 DEF IInv, FdSent, ConfSent, RestSent, Up, Conf
<1>5. Known'
  BY <1>1 DEF IInv, Known, SameRates, LinConfigured, TerminationAgrees, Up, Conf
<1> QED
  BY <1>3, <1>4, <1>5 DEF IInv

(* Only termination is set while the interface is up, nothing before it    *)
(* exists.                                                                 *)
LEMMA DownFor ==
  ASSUME IInv, todo # <<>>
  PROVE  /\ can.state # "ABSENT"
         /\ "ter" \notin DOMAIN Head(todo) => can.state = "STOPPED" /\ ~Up
<1>1. Head(todo) = todo[1]
  BY First DEF IInv
<1> QED
  BY <1>1 DEF IInv, Fresh, Pending, Up, Typed, States

(* The two messages of canguru_set_bittiming.                              *)
LEMMA TimingSent ==
  ASSUME IInv, NEW c, canguru_set_bittiming(c)
  PROVE  /\ device' = [f \in Fields |-> device'[f]]
         /\ \A f \in {"filter", "ter", "enable"} : device'[f] = device[f]
         /\ \A f \in {"filter", "ter", "enable", "reset"} :
              f \in unsent' <=> f \in unsent
         /\ "conf" \notin unsent' => device'.conf = Conf(c)
         /\ "timing" \notin unsent' => device'.timing = Timing(c)
         /\ todo' \in {Tail(todo), <<>>}
         /\ changed' \in BOOLEAN
<1>1. PICK err \in BOOLEAN, got \in SUBSET {"conf", "timing"} :
        /\ Send([conf |-> Conf(c), timing |-> Timing(c)], got)
        /\ todo' = IF err THEN <<>> ELSE Tail(todo)
        /\ changed' = (changed /\ "conf" \notin got)
  BY DEF canguru_set_bittiming
<1> DEFINE cs == [conf |-> Conf(c), timing |-> Timing(c)]
<1>2. /\ DOMAIN cs = {"conf", "timing"}
      /\ cs["conf"] = Conf(c) /\ cs["timing"] = Timing(c)
  OBVIOUS
<1>3. Typed /\ Send(cs, got)
  BY <1>1 DEF IInv
<1> HIDE DEF cs
<1>4. /\ device' = [f \in Fields |-> device'[f]]
      /\ \A f \in Fields : device'[f] = IF f \in got THEN cs[f] ELSE device[f]
      /\ unsent' = (unsent \cup {"conf", "timing"}) \ got
  BY <1>2, <1>3, Sent
<1>5. \A f \in {"filter", "ter", "enable"} : device'[f] = device[f]
  BY <1>4 DEF Fields
<1>6. /\ "conf" \notin unsent' => device'["conf"] = Conf(c)
      /\ "timing" \notin unsent' => device'["timing"] = Timing(c)
  BY <1>2, <1>4 DEF Fields
<1>7. todo' \in {Tail(todo), <<>>} /\ changed' \in BOOLEAN
  BY <1>1
<1>8. \A f \in {"filter", "ter", "enable", "reset"} : f \in unsent' <=> f \in unsent
  BY <1>4
<1> QED
  BY <1>4, <1>5, <1>6, <1>7, <1>8

(* A bit rate of a CAN bus: configuration and timing go out with it.       *)
LEMMA RateStep ==
  ASSUME IInv, bus = "can", UNCHANGED bus, todo # <<>>, IsRate(Head(todo)),
         can' \in [bitrate : Nat, dbitrate : Nat, listen : BOOLEAN,
                   fd : BOOLEAN, ter : BOOLEAN, state : States],
         can'.ter = can.ter, can'.state = can.state,
         canguru_set_bittiming(can')
  PROVE  IInv'
<1>1. /\ device' = [f \in Fields |-> device'[f]]
      /\ device'.filter = device.filter /\ device'.ter = device.ter
      /\ device'.enable = device.enable
      /\ \A f \in {"filter", "ter", "enable", "reset"} :
           f \in unsent' <=> f \in unsent
      /\ "conf" \notin unsent' => device'.conf = Conf(can')
      /\ "timing" \notin unsent' => device'.timing = Timing(can')
      /\ todo' \in {Tail(todo), <<>>}
      /\ changed' \in BOOLEAN
  BY TimingSent
<1>2. "ter" \notin DOMAIN Head(todo)
  BY First, AttrNames DEF IInv
<1>3. can.state = "STOPPED" /\ can'.state = "STOPPED" /\ ~Up'
  BY <1>2, DownFor DEF Up
<1>4. todo' \in Seq(Attr) /\ Pending'
  BY <1>1, <1>3, Dealt DEF IInv
<1>5. Typed'
  BY <1>1, <1>4 DEF IInv, Typed
<1>6. Fresh'
  BY <1>3 DEF Fresh
<1>7. Conf(can') = <<can'.bitrate, can'.dbitrate, can'.fd, can'.listen>>
  BY DEF Conf
<1>8. FdSent'
  <2>1. "conf" \notin unsent' => device'.conf[2] = can'.dbitrate /\ device'.conf[3] = can'.fd
    BY <1>1, <1>7
  <2> QED
    BY <2>1 DEF FdSent
<1>9. ConfSent'
  BY <1>1, <1>7 DEF ConfSent, Conf
<1>10. RestSent'
  BY <1>1, <1>3 DEF IInv, RestSent, Up
<1>11. SameRates'
  <2>1. {"conf", "timing"} \cap unsent' = {} =>
          device'.timing = <<device'.conf[1], device'.conf[2]>>
    BY <1>1, <1>7 DEF Timing
  <2> QED
    BY <2>1 DEF SameRates
<1>12. LinConfigured' /\ TerminationAgrees'
  BY <1>1, <1>3 DEF IInv, Known, LinConfigured, TerminationAgrees, Up
<1> QED
  BY <1>4, <1>5, <1>6, <1>8, <1>9, <1>10, <1>11, <1>12 DEF IInv, Known

(* Setting the bit rate sends configuration and timing, on CAN.            *)
LEMMA BitrateStep ==
  ASSUME IInv, SetBitrate
  PROVE  IInv'
<1>1. /\ todo # <<>> /\ Head(todo) \in Attr /\ "bitrate" \in DOMAIN Head(todo)
      /\ Head(todo).bitrate \in Nat
      /\ UNCHANGED bus
      /\ can' = [can EXCEPT !.bitrate = Head(todo).bitrate]
  <2>1. todo # <<>> /\ "bitrate" \in DOMAIN Head(todo)
    BY DEF SetBitrate, Handling
  <2>2. Head(todo) \in Attr
    BY <2>1, First DEF IInv
  <2>3. Head(todo) \in [bitrate : Rates]
    BY <2>1, <2>2, AttrKinds
  <2> QED
    BY <2>1, <2>2, <2>3, ConfigAssumption DEF SetBitrate
<1>2. can' \in [bitrate : Nat, dbitrate : Nat, listen : BOOLEAN, fd : BOOLEAN,
                ter : BOOLEAN, state : States]
      /\ can'.ter = can.ter /\ can'.state = can.state
      /\ can'.fd = can.fd /\ can'.listen = can.listen
  BY <1>1 DEF IInv, Typed
<1>3. CASE bus = "can"
  <2>1. canguru_set_bittiming(can')
    BY <1>3 DEF SetBitrate
  <2> QED
    BY <1>1, <1>2, <1>3, <2>1, RateStep DEF IsRate
<1>4. CASE bus # "can"
  <2>1. todo' = Tail(todo) /\ UNCHANGED <<device, unsent, changed>>
    BY <1>4 DEF SetBitrate, linguru_set_bittiming
  <2>2. "ter" \notin DOMAIN Head(todo)
    BY <1>1, AttrNames DEF IsRate
  <2>3. can.state = "STOPPED" /\ can'.state = "STOPPED" /\ ~Up'
    BY <1>1, <1>2, <2>2, DownFor DEF Up
  <2>4. todo' \in Seq(Attr) /\ Pending'
    BY <1>1, <2>1, <2>3, Dealt DEF IInv
  <2>5. Typed'
    BY <1>1, <1>2, <2>1, <2>4 DEF IInv, Typed
  <2>6. Fresh' /\ FdSent' /\ ConfSent' /\ SameRates'
    BY <1>1, <1>4, <2>3 DEF Fresh, FdSent, ConfSent, SameRates
  <2>7. RestSent'
    BY <1>1, <2>1, <2>3 DEF IInv, RestSent, Up
  <2>8. LinConfigured' /\ TerminationAgrees'
    BY <1>1, <1>2, <2>1, <2>3 DEF IInv, Known, LinConfigured, TerminationAgrees, Up
  <2> QED
    BY <2>4, <2>5, <2>6, <2>7, <2>8 DEF IInv, Known
<1> QED
  BY <1>3, <1>4

(* So does setting the data bit rate.                                      *)
LEMMA DataBitrateStep ==
  ASSUME IInv, SetDataBitrate
  PROVE  IInv'
<1>1. todo # <<>> /\ "dbitrate" \in DOMAIN Head(todo)
  BY DEF SetDataBitrate, Handling
<1>2. /\ Head(todo) = todo[1] /\ Head(todo) \in Attr /\ Len(todo) \in Nat \ {0}
  BY <1>1, First DEF IInv
<1>3. Head(todo) \in [dbitrate : Rates]
  BY <1>1, <1>2, AttrKinds
<1>4. bus = "can"
  BY <1>1, <1>2 DEF IInv, Typed, Pending
<1>5. /\ can' = [can EXCEPT !.dbitrate = Head(todo).dbitrate]
      /\ Head(todo).dbitrate \in Nat
      /\ canguru_set_bittiming(can') /\ UNCHANGED bus
  BY <1>3, ConfigAssumption DEF SetDataBitrate
<1>6. can' \in [bitrate : Nat, dbitrate : Nat, listen : BOOLEAN, fd : BOOLEAN,
                ter : BOOLEAN, state : States]
      /\ can'.ter = can.ter /\ can'.state = can.state
  BY <1>5 DEF IInv, Typed
<1> QED
  BY <1>1, <1>4, <1>5, <1>6, RateStep DEF IsRate

(* A control mode is set: the adapter is told nothing, and FD is turned on *)
(* only with a bit rate to come.                                           *)
LEMMA ModeStep ==
  ASSUME IInv, SetMode
  PROVE  IInv'
<1>1. /\ todo # <<>> /\ todo' = Tail(todo) /\ UNCHANGED <<bus, device, unsent>>
      /\ changed' = (changed \/ can' # can)
  BY DEF SetMode, Handling
<1>2. /\ Len(todo) \in Nat \ {0} /\ Head(todo) = todo[1] /\ Head(todo) \in Attr
      /\ Tail(todo) \in Seq(Attr) /\ Len(Tail(todo)) = Len(todo) - 1
      /\ \A i \in 1 .. Len(todo) - 1 : Tail(todo)[i] = todo[i + 1]
  BY <1>1, First DEF IInv
<1> DEFINE a == Head(todo)
<1>3. \/ /\ a \in [listen : BOOLEAN] /\ can' = [can EXCEPT !.listen = a.listen]
      \/ /\ a \in [fd : BOOLEAN]
         /\ can' = [can EXCEPT !.fd = a.fd, !.dbitrate = IF a.fd THEN @ ELSE 0]
  BY <1>2, AttrKinds DEF SetMode, Handling
<1>4. "ter" \notin DOMAIN a /\ ~IsRate(a)
  BY <1>3 DEF IsRate
<1>5. /\ can' \in [bitrate : Nat, dbitrate : Nat, listen : BOOLEAN,
                   fd : BOOLEAN, ter : BOOLEAN, state : States]
      /\ can'.ter = can.ter /\ can'.state = can.state
      /\ can'.fd => \/ can.fd /\ can'.dbitrate = can.dbitrate
                    \/ a \in [fd : BOOLEAN] /\ a.fd
  <2>1. CASE a \in [listen : BOOLEAN] /\ can' = [can EXCEPT !.listen = a.listen]
    <3>1. a.listen \in BOOLEAN
      BY <2>1
    <3> DEFINE l == a.listen
    <3>2. l \in BOOLEAN /\ can' = [can EXCEPT !.listen = l]
      BY <2>1, <3>1
    <3> HIDE DEF l
    <3>3. can' \in [bitrate : Nat, dbitrate : Nat, listen : BOOLEAN,
                    fd : BOOLEAN, ter : BOOLEAN, state : States]
      BY <3>2 DEF IInv, Typed
    <3>4. /\ can'.ter = can.ter /\ can'.state = can.state
          /\ can'.fd = can.fd /\ can'.dbitrate = can.dbitrate
      BY <3>2 DEF IInv, Typed
    <3> QED
      BY <3>3, <3>4
  <2>2. CASE /\ a \in [fd : BOOLEAN]
             /\ can' = [can EXCEPT !.fd = a.fd, !.dbitrate = IF a.fd THEN @ ELSE 0]
    <3> a.fd \in BOOLEAN
      BY <2>2
    <3> QED
      BY <2>2 DEF IInv, Typed
  <2> QED
    BY <1>3, <2>1, <2>2
<1>6. can.state = "STOPPED" /\ can'.state = "STOPPED" /\ ~Up'
  BY <1>1, <1>4, <1>5, DownFor DEF Up
<1>7. todo' \in Seq(Attr) /\ Pending'
  BY <1>1, <1>6, Dealt DEF IInv
<1>8. changed' \in BOOLEAN
  BY <1>1 DEF IInv, Typed
<1>9. Typed'
  BY <1>1, <1>5, <1>7, <1>8 DEF IInv, Typed
<1>10. Fresh'
  BY <1>6 DEF Fresh
<1>11. FdSent'
  <2> SUFFICES ASSUME bus = "can", can'.fd, "conf" \notin unsent
               PROVE  \/ device.conf[2] = can'.dbitrate /\ device.conf[3]
                      \/ todo' # <<>> /\ IsRate(Head(todo'))
    BY <1>1 DEF FdSent
  <2>1. CASE can.fd /\ can'.dbitrate = can.dbitrate
    BY <1>4, <2>1 DEF IInv, FdSent
  <2>2. CASE a \in [fd : BOOLEAN] /\ a.fd
    <3>1. "fd" \in DOMAIN todo[1] /\ todo[1].fd /\ 1 \in 1 .. Len(todo)
      BY <1>2, <2>2
    <3>2. 1 < Len(todo) /\ IsRate(todo[1 + 1])
      BY <3>1 DEF IInv, Pending
    <3>3. Len(todo') # 0 /\ 1 \in 1 .. Len(todo) - 1
      BY <1>1, <1>2, <3>2
    <3>4. todo'[1] = todo[1 + 1]
      BY <1>1, <1>2, <3>3
    <3>5. todo' # <<>> /\ Head(todo') = todo'[1]
      BY <1>7, <3>3, HeadTailProperties, EmptySeq
    <3> QED
      BY <3>2, <3>4, <3>5
  <2> QED
    BY <1>5, <2>1, <2>2
<1>12. ConfSent'
  <2>1. ~changed' => ~changed /\ can' = can
    BY <1>1
  <2> QED
    BY <1>1, <1>6, <2>1 DEF IInv, ConfSent, Conf
<1>13. RestSent'
  BY <1>1, <1>6 DEF IInv, RestSent, Up
<1>14. Known'
  BY <1>1, <1>5, <1>6 DEF IInv, Known, SameRates, LinConfigured, TerminationAgrees, Up
<1> QED
  BY <1>7, <1>9, <1>10, <1>11, <1>12, <1>13, <1>14 DEF IInv

-----------------------------------------------------------------------------
(* Single commands.                                                        *)

(* A command x that changes nothing but its own field.                     *)
LEMMA OneSent ==
  ASSUME Typed, NEW x \in Fields, NEW cs, DOMAIN cs = {x}, NEW got \in SUBSET {x},
         Send(cs, got)
  PROVE  /\ device' = [f \in Fields |-> device'[f]]
         /\ \A f \in Fields \ {x} : device'[f] = device[f]
         /\ \A f \in (Fields \cup {"reset"}) \ {x} : f \in unsent' <=> f \in unsent
         /\ x \notin unsent' => device'[x] = cs[x]
<1>1. /\ device' = [f \in Fields |-> device'[f]]
      /\ \A f \in Fields : device'[f] = IF f \in got THEN cs[f] ELSE device[f]
      /\ unsent' = (unsent \cup {x}) \ got
  BY Sent
<1>2. \A f \in Fields \ {x} : f \notin got
  OBVIOUS
<1>3. \A f : f # x => (f \in unsent' <=> f \in unsent)
  BY <1>1
<1>4. x \notin unsent' => x \in got
  BY <1>1
<1> QED
  BY <1>1, <1>2, <1>3, <1>4

(* The termination is sent when it is set.                                 *)
LEMMA TerminationStep ==
  ASSUME IInv, SetTermination
  PROVE  IInv'
<1>1. /\ todo # <<>> /\ "ter" \in DOMAIN Head(todo) /\ UNCHANGED <<bus, changed>>
  BY DEF SetTermination, Handling
<1>2. Head(todo) \in Attr
  BY <1>1, First DEF IInv
<1>3. /\ Head(todo) \in [ter : BOOLEAN] /\ DOMAIN Head(todo) = {"ter"}
      /\ ~IsRate(Head(todo))
  BY <1>1, <1>2, AttrKinds, AttrNames
<1>4. /\ device' = [f \in Fields |-> device'[f]]
      /\ \A f \in Fields \ {"ter"} : device'[f] = device[f]
      /\ \A f \in (Fields \cup {"reset"}) \ {"ter"} : f \in unsent' <=> f \in unsent
      /\ \/ "ter" \notin unsent' => device'["ter"] = can'.ter
         \/ UNCHANGED <<device, can, unsent>>
      /\ todo' \in {Tail(todo), <<>>}
      /\ can' \in [bitrate : Nat, dbitrate : Nat, listen : BOOLEAN, fd : BOOLEAN,
                   ter : BOOLEAN, state : States]
      /\ can'.state = can.state /\ can'.bitrate = can.bitrate
      /\ can'.dbitrate = can.dbitrate /\ can'.fd = can.fd /\ can'.listen = can.listen
  <2>1. CASE /\ \E got \in SUBSET {"ter"} : Send(Head(todo), got)
             /\ can' = [can EXCEPT !.ter = Head(todo).ter]
             /\ todo' = Tail(todo)
    <3>1. PICK got \in SUBSET {"ter"} : Send(Head(todo), got)
      BY <2>1
    <3>2. /\ device' = [f \in Fields |-> device'[f]]
          /\ \A f \in Fields \ {"ter"} : device'[f] = device[f]
          /\ \A f \in (Fields \cup {"reset"}) \ {"ter"} : f \in unsent' <=> f \in unsent
          /\ "ter" \notin unsent' => device'["ter"] = Head(todo)["ter"]
      <4>1. Typed /\ "ter" \in Fields
        BY DEF IInv, Fields
      <4> QED
        BY <1>3, <3>1, <4>1, OneSent
    <3>3. /\ can' \in [bitrate : Nat, dbitrate : Nat, listen : BOOLEAN, fd : BOOLEAN,
                       ter : BOOLEAN, state : States]
          /\ can'.state = can.state /\ can'.bitrate = can.bitrate
          /\ can'.dbitrate = can.dbitrate /\ can'.fd = can.fd
          /\ can'.listen = can.listen /\ can'.ter = Head(todo).ter
      BY <1>3, <2>1 DEF IInv, Typed
    <3> QED
      BY <2>1, <3>2, <3>3
  <2>2. CASE todo' = <<>> /\ UNCHANGED <<can, device, unsent>>
    BY <2>2 DEF IInv, Typed
  <2> QED
    BY <2>1, <2>2 DEF SetTermination
<1>5. /\ device'.conf = device.conf /\ device'.timing = device.timing
      /\ device'.filter = device.filter /\ device'.enable = device.enable
      /\ \A f \in {"conf", "timing", "filter", "enable", "reset"} :
           f \in unsent' <=> f \in unsent
  BY <1>4 DEF Fields
<1>6. can.state # "ABSENT" /\ (Up' <=> Up)
  BY <1>1, <1>4, DownFor DEF Up
<1>7. todo' \in Seq(Attr) /\ Pending'
  BY <1>1, <1>4, <1>6, Dealt DEF IInv
<1>8. Typed'
  BY <1>1, <1>4, <1>7 DEF IInv, Typed
<1>9. Fresh'
  BY <1>4, <1>6 DEF Fresh
<1>10. FdSent'
  BY <1>1, <1>3, <1>4, <1>5 DEF IInv, FdSent
<1>11. ConfSent' /\ LinConfigured'
  <2>1. Conf(can)' = Conf(can)
    BY <1>1, <1>4 DEF Conf
  <2> QED
    BY <1>1, <1>4, <1>5, <1>6, <2>1 DEF IInv, ConfSent, Known, LinConfigured
<1>12. RestSent'
  BY <1>1, <1>4, <1>5, <1>6 DEF IInv, RestSent
<1>13. SameRates'
  BY <1>1, <1>5 DEF IInv, Known, SameRates
<1>14. TerminationAgrees'
  BY <1>4, <1>5 DEF IInv, Known, TerminationAgrees
<1> QED
  BY <1>7, <1>8, <1>9, <1>10, <1>11, <1>12, <1>13, <1>14 DEF IInv, Known

-----------------------------------------------------------------------------
(* Opening and closing.                                                    *)

(* The enable command of a CAN interface that opens, or of either kind     *)
(* that closes.                                                            *)
LEMMA EnableStep ==
  ASSUME IInv, UNCHANGED <<bus, todo, changed>>, todo = <<>>,
         NEW on \in BOOLEAN, NEW got \in SUBSET {"enable"},
         Send([enable |-> on], got), can.state # "ABSENT",
         can' = [can EXCEPT !.state = IF on THEN "ERROR_ACTIVE" ELSE "STOPPED"],
         on => bus = "can"
  PROVE  IInv'
<1>1. /\ device' = [f \in Fields |-> device'[f]]
      /\ \A f \in Fields \ {"enable"} : device'[f] = device[f]
      /\ \A f \in (Fields \cup {"reset"}) \ {"enable"} : f \in unsent' <=> f \in unsent
      /\ "enable" \notin unsent' => device'["enable"] = on
  <2> DEFINE cs == [enable |-> on]
  <2>1. Typed /\ "enable" \in Fields /\ DOMAIN cs = {"enable"} /\ Send(cs, got)
        /\ cs["enable"] = on
    BY DEF IInv, Fields
  <2> HIDE DEF cs
  <2> QED
    BY <2>1, OneSent
<1>2. /\ device'.conf = device.conf /\ device'.timing = device.timing
      /\ device'.filter = device.filter /\ device'.ter = device.ter
      /\ \A f \in {"conf", "timing", "filter", "ter", "reset"} :
           f \in unsent' <=> f \in unsent
  BY <1>1 DEF Fields
<1>3. /\ can' \in [bitrate : Nat, dbitrate : Nat, listen : BOOLEAN, fd : BOOLEAN,
                   ter : BOOLEAN, state : States]
      /\ can'.state # "ABSENT" /\ can'.bitrate = can.bitrate
      /\ can'.dbitrate = can.dbitrate /\ can'.fd = can.fd
      /\ can'.listen = can.listen /\ can'.ter = can.ter
      /\ Up' <=> on
  BY DEF IInv, Typed, Up, States
<1>4. Typed' /\ Fresh'
  BY <1>1, <1>3 DEF IInv, Typed, Fresh
<1>5. Pending'
  BY DEF IInv, Pending
<1>6. FdSent'
  BY <1>2, <1>3 DEF IInv, FdSent
<1>7. ConfSent'
  BY <1>2, <1>3 DEF IInv, ConfSent, Conf
<1>8. RestSent'
  BY <1>1, <1>2, <1>3 DEF IInv, RestSent
<1>9. SameRates' /\ TerminationAgrees'
  BY <1>2, <1>3 DEF IInv, Known, SameRates, TerminationAgrees
<1>10. LinConfigured'
  BY <1>3 DEF LinConfigured
<1> QED
  BY <1>4, <1>5, <1>6, <1>7, <1>8, <1>9, <1>10 DEF IInv, Known

(* canguru_ops_open sends no configuration.                                *)
LEMMA CanOpenStep ==
  ASSUME IInv, canguru_ops_open
  PROVE  IInv'
<1>1. PICK got \in SUBSET {"enable"} : Send([enable |-> TRUE], got)
  BY DEF canguru_ops_open
<1>2. /\ bus = "can" /\ can.state # "ABSENT" /\ todo = <<>>
      /\ can' = [can EXCEPT !.state = IF TRUE THEN "ERROR_ACTIVE" ELSE "STOPPED"]
      /\ UNCHANGED <<bus, todo, changed>>
  BY DEF canguru_ops_open
<1> QED
  BY <1>1, <1>2, EnableStep

(* close leaves the configuration as it is.                                *)
LEMMA CloseStep ==
  ASSUME IInv, ops_close
  PROVE  IInv'
<1>1. PICK got \in SUBSET {"enable"} : Send([enable |-> FALSE], got)
  BY DEF ops_close
<1>2. /\ can.state # "ABSENT" /\ todo = <<>>
      /\ can' = [can EXCEPT !.state = IF FALSE THEN "ERROR_ACTIVE" ELSE "STOPPED"]
      /\ UNCHANGED <<bus, todo, changed>>
  BY DEF ops_close
<1> QED
  BY <1>1, <1>2, EnableStep

(* A LIN interface opens: its configuration goes out before the enable     *)
(* command, or it stays down.                                              *)
LEMMA LinOpenStep ==
  ASSUME IInv, linguru_ops_open
  PROVE  IInv'
<1>1. PICK err \in BOOLEAN, got \in SUBSET {"conf", "enable"} :
        /\ err => got = {}
        /\ Send(IF err THEN [conf |-> Conf(can)]
                ELSE [conf |-> Conf(can), enable |-> TRUE], got)
        /\ can' = [can EXCEPT !.state = IF err THEN @ ELSE "ERROR_ACTIVE"]
        /\ changed' = (changed /\ "conf" \notin got)
  BY DEF linguru_ops_open
<1>2. /\ bus = "lin" /\ can.state = "STOPPED" /\ todo = <<>>
      /\ UNCHANGED <<bus, todo>>
  BY DEF linguru_ops_open
<1> DEFINE cs == IF err THEN [conf |-> Conf(can)]
                 ELSE [conf |-> Conf(can), enable |-> TRUE]
<1>3. /\ DOMAIN cs = IF err THEN {"conf"} ELSE {"conf", "enable"}
      /\ cs["conf"] = Conf(can)
      /\ ~err => cs["enable"] = TRUE
  OBVIOUS
<1>4. Typed /\ Send(cs, got)
  BY <1>1 DEF IInv
<1> HIDE DEF cs
<1>5. /\ device' = [f \in Fields |-> device'[f]]
      /\ \A f \in Fields : device'[f] = IF f \in got THEN cs[f] ELSE device[f]
      /\ unsent' = (unsent \cup IF err THEN {"conf"} ELSE {"conf", "enable"}) \ got
  BY <1>3, <1>4, Sent
<1>6. /\ \A f \in {"timing", "filter", "ter"} : device'[f] = device[f]
      /\ \A f \in {"timing", "filter", "ter", "reset"} : f \in unsent' <=> f \in unsent
      /\ "conf" \notin unsent' => "conf" \in got
      /\ "enable" \notin unsent' /\ ~err => "enable" \in got
  BY <1>1, <1>5 DEF Fields
<1>7. /\ "conf" \notin unsent' => device'.conf = Conf(can)
      /\ "enable" \notin unsent' /\ ~err => device'.enable = TRUE
  <2>1. "conf" \in got => device'["conf"] = cs["conf"]
    BY <1>5 DEF Fields
  <2>2. "enable" \in got => device'["enable"] = cs["enable"]
    BY <1>5 DEF Fields
  <2> QED
    BY <1>3, <1>6, <2>1, <2>2
<1>8. /\ can' \in [bitrate : Nat, dbitrate : Nat, listen : BOOLEAN, fd : BOOLEAN,
                   ter : BOOLEAN, state : States]
      /\ can'.state # "ABSENT" /\ can'.bitrate = can.bitrate
      /\ can'.dbitrate = can.dbitrate /\ can'.fd = can.fd
      /\ can'.listen = can.listen /\ can'.ter = can.ter
      /\ Up' => ~err
  BY <1>1, <1>2 DEF IInv, Typed, Up, States
<1>9. changed' \in BOOLEAN
  BY <1>1 DEF IInv, Typed
<1>10. Typed' /\ Fresh'
  BY <1>2, <1>5, <1>8, <1>9 DEF IInv, Typed, Fresh
<1>11. Pending'
  BY <1>2 DEF IInv, Pending
<1>12. FdSent' /\ ConfSent' /\ SameRates'
  BY <1>2 DEF FdSent, ConfSent, SameRates
<1>13. RestSent'
  BY <1>2, <1>6, <1>7, <1>8 DEF IInv, RestSent
<1>14. LinConfigured'
  BY <1>2, <1>7, <1>8 DEF LinConfigured, Conf
<1>15. TerminationAgrees'
  BY <1>2, <1>6, <1>8 DEF IInv, Known, TerminationAgrees
<1> QED
  BY <1>10, <1>11, <1>12, <1>13, <1>14, <1>15 DEF IInv, Known

-----------------------------------------------------------------------------
(* The invariant is kept, whatever is set and whatever gets lost.          *)
LEMMA Steps == IInv /\ [Next]_vars => IInv'
<1> SUFFICES ASSUME IInv, [Next]_vars PROVE IInv'
  OBVIOUS
<1>1. CASE UNCHANGED vars
  <2>1. UNCHANGED <<bus, can, todo, device, unsent, changed>>
    BY <1>1 DEF vars, hostVars
  <2>2. Typed' /\ Pending' /\ Fresh'
    BY <2>1 DEF IInv, Typed, Pending, Fresh, Up
  <2>3. FdSent' /\ ConfSent' /\ RestSent'
    BY <2>1 DEF IInv, FdSent, ConfSent, RestSent, Up, Conf
  <2>4. Known'
    BY <2>1 DEF IInv, Known, SameRates, LinConfigured, TerminationAgrees, Up, Conf
  <2> QED
    BY <2>2, <2>3, <2>4 DEF IInv
<1> QED
  BY <1>1, CreateStep, ChangelinkStep, BitrateStep, DataBitrateStep, ModeStep,
     TerminationStep, CanOpenStep, LinOpenStep, CloseStep DEF Next

(* The device has what was set, but for what is still in todo or was lost. *)
THEOREM Inductive == Spec => []IInv
  BY InitHolds, Steps, PTL DEF Spec

-----------------------------------------------------------------------------
(* Bit rates and timing of a CAN bus belong together as long as neither of *)
(* the messages of canguru_set_bittiming is missing.                       *)
THEOREM KeepsRates == Spec => []SameRates
  BY Inductive, PTL DEF IInv, Known

(* linguru_ops_open sends the configuration before an interface is up, and *)
(* nothing else changes it.                                                *)
THEOREM ConfiguresLin == Spec => []LinConfigured
  BY Inductive, PTL DEF IInv, Known

(* What set_termination tells the kernel is what the adapter was told.     *)
THEOREM KeepsTermination == Spec => []TerminationAgrees
  BY Inductive, PTL DEF IInv, Known

(* FD is never on in the adapter of an interface that is up with another   *)
(* data bit rate than the user's: the bit rate that canguru_set_bittiming  *)
(* needs comes after the mode in every message.                            *)
THEOREM ConfiguresFd == Spec => []FdConfigured
<1>1. IInv => FdConfigured
  <2> SUFFICES ASSUME IInv, bus = "can", Up, can.fd, "conf" \notin unsent
               PROVE  device.conf[2] = can.dbitrate /\ device.conf[3]
    BY DEF FdConfigured
  <2>1. ~(todo # <<>> /\ IsRate(Head(todo)))
    <3> SUFFICES ASSUME todo # <<>> PROVE ~IsRate(Head(todo))
      OBVIOUS
    <3>1. "ter" \in DOMAIN Head(todo)
      BY DownFor
    <3>2. Head(todo) \in Attr
      BY First DEF IInv
    <3> QED
      BY <3>1, <3>2, AttrNames
  <2> QED
    BY <2>1 DEF IInv, FdSent
<1> QED
  BY <1>1, Inductive, PTL

(* An interface that is up runs with all that was set, if every command    *)
(* got through and no mode was set after the bit rate.                     *)
THEOREM ConfiguresAll == Spec => []Configured
<1>1. IInv => Configured
  <2> SUFFICES ASSUME IInv, Up, unsent = {}, ~changed
               PROVE  device = [conf   |-> Conf(can),
                                timing |-> IF bus = "can" THEN Timing(can) ELSE <<0, 0>>,
                                filter |-> bus = "can",
                                ter    |-> can.ter,
                                enable |-> TRUE]
    BY DEF Configured
  <2>1. bus \in {"can", "lin"} /\ can.state # "ABSENT"
        /\ device = [f \in Fields |-> device[f]]
    BY DEF IInv, Typed, Up
  <2>2. device.conf = Conf(can)
    BY <2>1 DEF IInv, ConfSent, Known, LinConfigured
  <2>3. device.timing = IF bus = "can" THEN Timing(can) ELSE <<0, 0>>
    <3>1. CASE bus = "can"
      <4>1. device.conf[1] = can.bitrate /\ device.conf[2] = can.dbitrate
        BY <2>2, <3>1 DEF Conf
      <4>2. device.timing = <<device.conf[1], device.conf[2]>>
        BY <3>1 DEF IInv, Known, SameRates
      <4> QED
        BY <3>1, <4>1, <4>2 DEF Timing
    <3>2. CASE bus = "lin"
      BY <3>2 DEF IInv, RestSent
    <3> QED
      BY <2>1, <3>1, <3>2
  <2>4. device.filter = (bus = "can") /\ device.enable = TRUE
    BY <2>1 DEF IInv, RestSent
  <2>5. device.ter = can.ter
    BY <2>1 DEF IInv, Known, TerminationAgrees
  <2> QED
    BY <2>1, <2>2, <2>3, <2>4, <2>5 DEF Fields
<1> QED
  BY <1>1, Inductive, PTL
=============================================================================
