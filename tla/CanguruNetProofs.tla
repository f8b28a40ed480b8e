--------------------------- MODULE CanguruNetProofs ---------------------------
(***************************************************************************)
(* The safety properties of CanguruNet for any number of interfaces, of    *)
(* frames and of commands, on uni- and multiprocessors, and that its       *)
(* transmit path implements TxService.                                     *)
(***************************************************************************)
EXTENDS CanguruNetInv, CanguruNetService, SequenceTheorems, FiniteSetTheorems, TLAPS

-----------------------------------------------------------------------------
(* Sequences.                                                              *)

(* Appending puts one element behind the others.                           *)
LEMMA AppendFacts ==
  ASSUME NEW S, NEW s \in Seq(S), NEW e \in S
  PROVE  /\ Append(s, e) \in Seq(S)
         /\ Append(s, e) # <<>>
         /\ Len(Append(s, e)) = Len(s) + 1
         /\ Append(s, e)[Len(s) + 1] = e
         /\ \A i \in 1 .. Len(s) : Append(s, e)[i] = s[i]
  BY AppendProperties, LenProperties, EmptySeq

(* Dropping the first element shifts the others by one place.              *)
LEMMA TailFacts ==
  ASSUME NEW S, NEW s \in Seq(S), s # <<>>
  PROVE  /\ Head(s) \in S
         /\ Head(s) = s[1]
         /\ Tail(s) \in Seq(S)
         /\ Len(s) \in Nat \ {0}
         /\ Len(Tail(s)) = Len(s) - 1
         /\ \A i \in 1 .. Len(Tail(s)) : Tail(s)[i] = s[i + 1]
  BY HeadTailProperties, LenProperties, EmptySeq

(* Taking an element out leaves a sequence over the same set.              *)
LEMMA RemoveFacts ==
  ASSUME NEW S, NEW s \in Seq(S), NEW i \in 1 .. Len(s)
  PROVE  /\ RemoveAt(s, i) \in Seq(S)
         /\ Len(RemoveAt(s, i)) = Len(s) - 1
<1>. DEFINE l == SubSeq(s, 1, i - 1)
            r == SubSeq(s, i + 1, Len(s))
<1>1. Len(s) \in Nat /\ i \in Nat /\ i >= 1 /\ i <= Len(s)
  BY LenProperties
<1>2. l \in Seq(S) /\ Len(l) = i - 1
  BY <1>1, SubSeqProperties
<1>3. r \in Seq(S) /\ Len(r) = Len(s) - i
  BY <1>1, SubSeqProperties
<1>4. l \o r \in Seq(S) /\ Len(l \o r) = Len(l) + Len(r)
  BY <1>2, <1>3, ConcatProperties
<1>. HIDE DEF l, r
<1>5. Len(l \o r) = Len(s) - 1
  BY <1>1, <1>2, <1>3, <1>4
<1>. QED
  BY <1>4, <1>5 DEF RemoveAt, l, r

-----------------------------------------------------------------------------
(* Types.                                                                  *)

USE DEF netVars, rxVars, cmdVars, pairVars, ghosts

(* The initial state is well typed and the handler is idle.                *)
LEMMA InitTyped == Init => TypeInv /\ Held
  BY NetAssumption
  DEF Init, TypeInv, Held, Counters, XmitSteps, RxSteps, Status, FrameLens,
      NetAssumption

(* Queueing an enable command keeps the command queue well typed.          *)
LEMMA CommandTyped ==
  ASSUME TypeInv, NEW ch \in Channels, NEW on \in BOOLEAN,
         canguru_set_can_enable(ch, on)
  PROVE  /\ commands' \in Seq([ch : Channels, on : BOOLEAN])
         /\ enabled' \in [Channels -> BOOLEAN]
         /\ unsent' \in SUBSET Channels
<1>. DEFINE cmd == [ch |-> ch, on |-> on]
            Cmds == [ch : Channels, on : BOOLEAN]
<1>1. cmd \in Cmds
  OBVIOUS
<1>2. commands \in Seq(Cmds)
  BY DEF TypeInv
<1>. HIDE DEF Cmds
<1>3. Append(commands, cmd) \in Seq(Cmds)
  BY <1>1, <1>2, AppendFacts
<1>4. commands' \in Seq(Cmds)
  BY <1>2, <1>3 DEF canguru_set_can_enable
<1>. QED
  BY <1>4 DEF TypeInv, canguru_set_can_enable, Cmds

(* Adding one to a counter of an interface keeps the statistics typed.     *)
LEMMA Count ==
  ASSUME TypeInv, NEW ch, NEW k \in Counters
  PROVE  [stats EXCEPT ![ch][k] = @ + 1] \in [Channels -> [Counters -> Nat]]
<1>1. \A c \in Channels : stats[c] \in [Counters -> Nat]
  BY DEF TypeInv
<1>2. \A c \in Channels : [stats[c] EXCEPT ![k] = @ + 1] \in [Counters -> Nat]
  BY <1>1
<1>3. stats \in [Channels -> [Counters -> Nat]]
  BY DEF TypeInv
<1>. QED
  BY <1>2, <1>3, Zenon

(* Every status byte selects one of the three counters.                    *)
LEMMA CounterKnown == \A s : CounterOf(s) \in Counters
<1>. TAKE s
<1>1. CASE s = "DONE"  BY <1>1 DEF CounterOf, Counters
<1>2. CASE s = "ERROR" BY <1>2 DEF CounterOf, Counters
<1>3. CASE s # "DONE" /\ s # "ERROR" BY <1>3 DEF CounterOf, Counters
<1>. QED BY <1>1, <1>2, <1>3

(* What the handler reads at the head of the two queues is there.          *)
LEMMA QueuesTyped ==
  ASSUME TypeInv
  PROVE  /\ send_reply_list \in Seq(Channels)
         /\ pipe \in Seq(Channels)
         /\ \A c \in Channels : /\ Append(send_reply_list, c) \in Seq(Channels)
                               /\ Append(send_reply_list, c) # <<>>
                               /\ Append(pipe, c) \in Seq(Channels)
                               /\ Append(pipe, c) # <<>>
         /\ send_reply_list # <<>> =>
              Reply \in Channels /\ Tail(send_reply_list) \in Seq(Channels)
         /\ pipe # <<>> => Tail(pipe) \in Seq(Channels)
<1>1. send_reply_list \in Seq(Channels) /\ pipe \in Seq(Channels)
  BY DEF TypeInv
<1>. QED
  BY <1>1, AppendFacts, TailFacts DEF Reply

(* Every step keeps the types, and what the handler holds.                 *)
LEMMA TypeStep ==
  ASSUME NetAssumption, TypeInv, Held, [Next]_vars
  PROVE  TypeInv' /\ Held'
<1>. USE DEF TypeInv, Held
<1>1. ASSUME NEW ch \in Channels, canguru_ops_open(ch)  PROVE TypeInv' /\ Held'
  BY <1>1, CommandTyped DEF canguru_ops_open
<1>2. ASSUME NEW ch \in Channels, canguru_ops_close(ch)  PROVE TypeInv' /\ Held'
  BY <1>2, CommandTyped DEF canguru_ops_close
<1>3. ASSUME NEW ch \in Channels, close_candev(ch)  PROVE TypeInv' /\ Held'
  <2>1. stats' \in [Channels -> [Counters -> Nat]]
    BY <1>3, Count DEF close_candev, Counters
  <2>2. abandoned' \in SUBSET Channels
    BY <1>3 DEF close_candev
  <2>. QED
    BY <1>3, <2>1, <2>2 DEF close_candev
<1>4. ASSUME NEW ch \in Channels, XmitStop(ch)  PROVE TypeInv' /\ Held'
  BY <1>4 DEF XmitStop, XmitSteps
<1>5. ASSUME NEW ch \in Channels, XmitSend(ch)  PROVE TypeInv' /\ Held'
  <2>1. xmit' \in [Channels -> XmitSteps]
    BY <1>5 DEF XmitSend, XmitSteps
  <2>2. drv_xoff' \in [Channels -> BOOLEAN]
    BY <1>5 DEF XmitSend
  <2>4. pipe' \in Seq(Channels) /\ (rx # "idle" => pipe' # <<>>)
    BY <1>5, QueuesTyped, Zenon DEF XmitSend
  <2>3. frames' \in [Channels -> Nat]
    <3>1. [frames EXCEPT ![ch] = @ + 1] \in [Channels -> Nat]
      OBVIOUS
    <3>. QED
      BY <3>1, <1>5, Zenon DEF XmitSend
  <2>. QED
    BY <1>5, <2>1, <2>2, <2>3, <2>4 DEF XmitSend
<1>6. ASSUME NEW ch \in Channels, XmitEcho(ch)  PROVE TypeInv' /\ Held'
  BY <1>6 DEF XmitEcho, XmitSteps, Slips
<1>7. ASSUME NEW ch \in Channels, XmitWait(ch)  PROVE TypeInv' /\ Held'
  <2>1. xmit' \in [Channels -> XmitSteps]
    BY <1>7 DEF XmitWait, XmitSteps
  <2>2. /\ send_reply_list' \in Seq(Channels)
        /\ rx # "idle" => send_reply_list' # <<>>
    BY <1>7, QueuesTyped, Zenon DEF XmitWait
  <2>. QED
    BY <1>7, <2>1, <2>2 DEF XmitWait
<1>8. ASSUME NEW ch \in Channels, XmitSent(ch)  PROVE TypeInv' /\ Held'
  <2>1. bql' \in [Channels -> Nat] /\ xmit' \in [Channels -> XmitSteps]
    BY <1>8 DEF XmitSent, XmitSteps
  <2>. QED
    BY <1>8, <2>1 DEF XmitSent
<1>9. CASE RecvReply
  <2>1. pipe' \in Seq(Channels)
    BY <1>9, QueuesTyped, Zenon DEF RecvReply
  <2>3. slips' \in SUBSET Slips
    BY <1>9 DEF RecvReply, Slips
  <2>2. rx' \in RxSteps /\ rx_status' \in Status
    BY <1>9 DEF RecvReply, RxSteps
  <2>. QED
    BY <1>9, <2>1, <2>2, <2>3 DEF RecvReply
<1>10. CASE SendCallbackEcho
  <2>1. stats' \in [Channels -> [Counters -> Nat]]
    BY <1>10, Count, CounterKnown DEF SendCallbackEcho
  <2>2. rx' \in RxSteps /\ rx_len' \in FrameLens
    BY <1>10, NetAssumption DEF SendCallbackEcho, RxSteps, FrameLens, NetAssumption
  <2>. QED
    BY <1>10, <2>1, <2>2 DEF SendCallbackEcho
<1>11. CASE SendCallbackWake
  <2>1. bql' \in [Channels -> Nat]
    <3>1. Reply \in Channels
      BY <1>11, QueuesTyped, Zenon DEF SendCallbackWake
    <3>2. bql[Reply] \in Nat /\ rx_len \in Nat
      BY <3>1, NetAssumption DEF FrameLens, NetAssumption
    <3>3. CASE rx_len <= bql[Reply]
      <4>1. bql[Reply] - rx_len \in Nat
        BY <3>2, <3>3
      <4>. QED
        BY <1>11, <3>3, <4>1 DEF SendCallbackWake
    <3>4. CASE ~(rx_len <= bql[Reply])
      BY <1>11, <3>4 DEF SendCallbackWake
    <3>. QED
      BY <3>3, <3>4
  <2>2. rx' \in RxSteps
    BY <1>11 DEF SendCallbackWake, RxSteps
  <2>. QED
    BY <1>11, <2>1, <2>2 DEF SendCallbackWake
<1>12. CASE ReplyUnlink
  <2>1. /\ send_reply_list' \in Seq(Channels)
        /\ pipe' \in Seq(Channels)
    BY <1>12, QueuesTyped, Zenon DEF ReplyUnlink
  <2>2. rx' \in RxSteps /\ rx_status' \in Status /\ rx_len' \in FrameLens
    BY <1>12, NetAssumption
    DEF ReplyUnlink, RxSteps, Status, FrameLens, NetAssumption
  <2>. QED
    BY <1>12, <2>1, <2>2 DEF ReplyUnlink
<1>13. CASE LoseTransfer
  <2>1. PICK i \in 1 .. Len(pipe) : /\ i = 1 => rx = "idle"
                                    /\ pipe' = RemoveAt(pipe, i)
    BY <1>13 DEF LoseTransfer
  <2>2. pipe' \in Seq(Channels) /\ Len(pipe') = Len(pipe) - 1
    BY <2>1, RemoveFacts
  <2>3. rx # "idle" => pipe' # <<>>
    BY <2>1, <2>2, LenProperties
  <2>4. slips' \in SUBSET Slips
    BY <1>13 DEF LoseTransfer, Slips
  <2>. QED
    BY <1>13, <2>2, <2>3, <2>4 DEF LoseTransfer
<1>14. CASE ExecuteCommand
  <2>. DEFINE Cmds == [ch : Channels, on : BOOLEAN]
  <2>0. commands \in Seq(Cmds) /\ commands # <<>>
    BY <1>14 DEF ExecuteCommand
  <2>. HIDE DEF Cmds
  <2>1. Head(commands) \in Cmds /\ Tail(commands) \in Seq(Cmds)
    BY <2>0, TailFacts
  <2>2. Head(commands).ch \in Channels /\ Head(commands).on \in BOOLEAN
    BY <2>1 DEF Cmds
  <2>3. enabled' \in [Channels -> BOOLEAN] /\ unsent' \in SUBSET Channels
    BY <1>14, <2>2 DEF ExecuteCommand
  <2>4. commands' \in Seq([ch : Channels, on : BOOLEAN])
    BY <1>14, <2>1 DEF ExecuteCommand, Cmds
  <2>. QED
    BY <1>14, <2>3, <2>4 DEF ExecuteCommand
<1>15. CASE UNCHANGED vars
  BY <1>15 DEF vars
<1>. QED
  BY <1>1, <1>2, <1>3, <1>4, <1>5, <1>6, <1>7, <1>8, <1>9, <1>10, <1>11,
     <1>12, <1>13, <1>14, <1>15 DEF Next, XmitStep, RxStep

(* Every variable keeps the type the driver's data has.                    *)
THEOREM TypeCorrect == Spec => []TypeInv
<1>1. Init => TypeInv /\ Held
  BY InitTyped
<1>2. TypeInv /\ Held /\ [Next]_vars => TypeInv' /\ Held'
  BY TypeStep, NetAssumption
<1>. QED
  BY <1>1, <1>2, PTL DEF Spec

-----------------------------------------------------------------------------
(* The reply list.                                                         *)

(* The two ways to say that an interface is in the reply list.             *)
LEMMA ListedToSet ==
  ASSUME send_reply_list \in Seq(Channels)
  PROVE  \A d : d \in ToSet(send_reply_list) <=> Listed(d)
<1>1. DOMAIN send_reply_list = 1 .. Len(send_reply_list)
  BY LenProperties
<1>. QED
  BY <1>1 DEF ToSet, Listed

(* list_add_tail lists one more interface and moves no other.              *)
LEMMA ListedAppend ==
  ASSUME send_reply_list \in Seq(Channels), NEW c \in Channels,
         send_reply_list' = Append(send_reply_list, c)
  PROVE  /\ \A d : Listed(d)' <=> Listed(d) \/ d = c
         /\ send_reply_list # <<>> => Reply' = Reply
         /\ LinkedOnce /\ ~Listed(c) => LinkedOnce'
<1>. DEFINE l == send_reply_list
            m == send_reply_list'
<1>1. /\ m \in Seq(Channels) /\ Len(l) \in Nat /\ Len(m) = Len(l) + 1
      /\ m[Len(l) + 1] = c
      /\ \A i \in 1 .. Len(l) : m[i] = l[i]
  BY AppendFacts, LenProperties
<1>2. \A d : Listed(d)' <=> Listed(d) \/ d = c
  BY <1>1 DEF Listed
<1>3. l # <<>> => Reply' = Reply
  BY <1>1, TailFacts, EmptySeq DEF Reply
<1>4. LinkedOnce /\ ~Listed(c) => LinkedOnce'
  BY <1>1 DEF LinkedOnce, Listed
<1>. QED
  BY <1>2, <1>3, <1>4

(* list_del of the first entry unlists its interface and no other.         *)
LEMMA ListedTail ==
  ASSUME send_reply_list \in Seq(Channels), send_reply_list # <<>>,
         send_reply_list' = Tail(send_reply_list), LinkedOnce
  PROVE  /\ \A d : Listed(d)' <=> Listed(d) /\ d # Reply
         /\ Listed(Reply)
         /\ LinkedOnce'
<1>. DEFINE l == send_reply_list
            m == send_reply_list'
<1>1. /\ m \in Seq(Channels) /\ Len(l) \in Nat \ {0} /\ Len(m) = Len(l) - 1
      /\ Reply = l[1]
      /\ \A i \in 1 .. Len(m) : m[i] = l[i + 1]
  BY TailFacts DEF Reply
<1>2. \A i, j \in 1 .. Len(l) : l[i] = l[j] => i = j
  BY DEF LinkedOnce
<1>3. ASSUME NEW d, Listed(d)' PROVE Listed(d) /\ d # Reply
  <2>1. PICK i \in 1 .. Len(m) : m[i] = d
    BY <1>3 DEF Listed
  <2>2. i + 1 \in 1 .. Len(l) /\ l[i + 1] = d /\ 1 \in 1 .. Len(l) /\ i + 1 # 1
    BY <1>1, <2>1
  <2>. QED
    BY <1>1, <1>2, <2>2 DEF Listed
<1>4. ASSUME NEW d, Listed(d), d # Reply PROVE Listed(d)'
  <2>1. PICK i \in 1 .. Len(l) : l[i] = d
    BY <1>4 DEF Listed
  <2>2. i # 1
    BY <1>1, <1>4, <2>1
  <2>3. i - 1 \in 1 .. Len(m) /\ m[i - 1] = d
    BY <1>1, <2>1, <2>2
  <2>. QED
    BY <2>3 DEF Listed
<1>5. Listed(Reply)
  BY <1>1 DEF Listed
<1>6. LinkedOnce'
  BY <1>1, <1>2 DEF LinkedOnce
<1>. QED
  BY <1>3, <1>4, <1>5, <1>6

-----------------------------------------------------------------------------
(* What a step leaves alone.                                               *)

Same(ch) ==
  /\ xmit'[ch] = xmit[ch]
  /\ drv_xoff'[ch] = drv_xoff[ch]
  /\ echo_skb'[ch] = echo_skb[ch]
  /\ bql'[ch] = bql[ch]
  /\ can_state'[ch] = can_state[ch]
  /\ ch \in closing' <=> ch \in closing

SamePlace(ch) ==
  /\ Listed(ch)' <=> Listed(ch)
  /\ Waiting(ch)' <=> Waiting(ch)
  /\ Taken(ch)' <=> Taken(ch)
  /\ Taken(ch) => rx_len' = rx_len

(* Tidy speaks only of what the step left alone.                           *)
LEMMA TidyKept ==
  ASSUME NEW ch, Tidy(ch), Same(ch), SamePlace(ch)
  PROVE  Tidy(ch)'
  BY DEF Same, SamePlace, Tidy, StoppedWhileBusy, QueuedOnce, EchoHeld,
         LengthKnown, DownIsUnlisted

(* A step that concerns one interface: the others need no argument.        *)
LEMMA OrderedFor ==
  ASSUME Ordered, NEW ch,
         \A d \in Channels \ {ch} : Same(d) /\ SamePlace(d),
         abandoned \subseteq abandoned',
         LinkedOnce', Serial', UpWhileSending(ch)',
         ch \in Channels \ abandoned' => Tidy(ch)'
  PROVE  Ordered'
<1>1. ASSUME NEW d \in Channels PROVE UpWhileSending(d)'
  BY DEF Ordered, UpWhileSending, Same
<1>2. ASSUME NEW d \in Channels \ abandoned' PROVE Tidy(d)'
  <2>1. CASE d = ch
    BY <2>1
  <2>2. CASE d # ch
    BY <2>2, TidyKept DEF Ordered
  <2>. QED
    BY <2>1, <2>2
<1>. QED
  BY <1>1, <1>2 DEF Ordered

(* A step that concerns none of them.                                      *)
LEMMA OrderedForAll ==
  ASSUME Ordered, \A d \in Channels : Same(d) /\ SamePlace(d),
         abandoned \subseteq abandoned', LinkedOnce', Serial'
  PROVE  Ordered'
<1>1. ASSUME NEW d \in Channels PROVE UpWhileSending(d)'
  BY DEF Ordered, UpWhileSending, Same
<1>2. ASSUME NEW d \in Channels \ abandoned' PROVE Tidy(d)'
  BY TidyKept DEF Ordered
<1>. QED
  BY <1>1, <1>2 DEF Ordered

-----------------------------------------------------------------------------
(* Every step keeps the frames ordered.                                    *)

ChannelsTyped ==
  /\ xmit \in [Channels -> XmitSteps]
  /\ drv_xoff \in [Channels -> BOOLEAN]
  /\ echo_skb \in [Channels -> BOOLEAN]
  /\ bql \in [Channels -> Nat]
  /\ can_state \in [Channels -> {"STOPPED", "ERROR_ACTIVE"}]
  /\ send_reply_list \in Seq(Channels)

(* The per-interface functions, as the steps below use them.               *)
LEMMA TypedChannels == TypeInv => ChannelsTyped
  BY DEF TypeInv, ChannelsTyped

(* Where a frame can be depends on these variables only.                   *)
LEMMA PlacesKept ==
  ASSUME send_reply_list' = send_reply_list, rx' = rx, rx_len' = rx_len
  PROVE  /\ \A d : SamePlace(d)
         /\ LinkedOnce => LinkedOnce'
  BY DEF SamePlace, Listed, Waiting, Taken, Reply, LinkedOnce

(* The entry in the hands of the handler is in the list.                   *)
LEMMA ReplyListed ==
  ASSUME ChannelsTyped, Held, rx # "idle"
  PROVE  Reply \in Channels /\ Listed(Reply)
<1>1. send_reply_list \in Seq(Channels) /\ send_reply_list # <<>>
  BY DEF ChannelsTyped, Held
<1>2. Len(send_reply_list) \in Nat \ {0}
      /\ Reply = send_reply_list[1] /\ Reply \in Channels
  BY <1>1, TailFacts DEF Reply
<1>. QED
  BY <1>2 DEF Listed

(* ndo_open keeps the order of things.                                     *)
LEMMA OpenOrdered ==
  ASSUME ChannelsTyped, Ordered, NEW ch \in Channels, canguru_ops_open(ch)
  PROVE  Ordered'
<1>. USE DEF canguru_ops_open
<1>1. (\A d : SamePlace(d)) /\ LinkedOnce'
  BY PlacesKept DEF Ordered
<1>2. \A d \in Channels \ {ch} : Same(d)
  BY DEF Same, ChannelsTyped
<1>3. /\ can_state'[ch] = "ERROR_ACTIVE" /\ ~drv_xoff'[ch]
      /\ can_state[ch] = "STOPPED" /\ xmit[ch] = "idle" /\ ch \notin closing
      /\ xmit' = xmit /\ bql' = bql /\ echo_skb' = echo_skb
      /\ closing' = closing
  BY DEF ChannelsTyped, Ordered, UpWhileSending
<1>4. Serial' /\ UpWhileSending(ch)'
  BY <1>3 DEF Ordered, Serial, UpWhileSending
<1>5. ch \in Channels \ abandoned' => Tidy(ch)'
  <2>1. ch \notin abandoned => ~Listed(ch) /\ Tidy(ch)
    BY <1>3 DEF Ordered, Tidy, DownIsUnlisted
  <2>2. abandoned' = abandoned /\ (Waiting(ch) => Listed(ch)) /\ SamePlace(ch)
    BY <1>1 DEF Waiting
  <2>. HIDE DEF canguru_ops_open
  <2>. QED
    BY <1>3, <2>1, <2>2
    DEF SamePlace, Tidy, StoppedWhileBusy, QueuedOnce, EchoHeld, LengthKnown,
        DownIsUnlisted
<1>. QED
  BY <1>1, <1>2, <1>4, <1>5, OrderedFor

(* ndo_stop keeps it: the interface is closing.                            *)
LEMMA CloseOrdered ==
  ASSUME ChannelsTyped, Ordered, NEW ch \in Channels, canguru_ops_close(ch)
  PROVE  Ordered'
<1>. USE DEF canguru_ops_close
<1>1. (\A d : SamePlace(d)) /\ LinkedOnce'
  BY PlacesKept DEF Ordered
<1>2. \A d \in Channels \ {ch} : Same(d)
  BY DEF Same, ChannelsTyped
<1>3. /\ can_state'[ch] = "STOPPED" /\ drv_xoff'[ch] /\ xmit[ch] = "idle"
      /\ xmit' = xmit /\ bql' = bql /\ echo_skb' = echo_skb
      /\ ch \in closing'
  BY DEF ChannelsTyped
<1>4. Serial' /\ UpWhileSending(ch)'
  BY <1>3 DEF Ordered, Serial, UpWhileSending
<1>5. ch \in Channels \ abandoned' => Tidy(ch)'
  <2>1. /\ abandoned' = abandoned /\ SamePlace(ch)
        /\ ch \notin abandoned => Tidy(ch)
    BY <1>1 DEF Ordered
  <2>. HIDE DEF canguru_ops_close
  <2>. QED
    BY <1>3, <2>1
    DEF SamePlace, Tidy, StoppedWhileBusy, QueuedOnce, EchoHeld, LengthKnown,
        DownIsUnlisted
<1>. QED
  BY <1>1, <1>2, <1>4, <1>5, OrderedFor

(* close_candev keeps it: a flushed interface still listed is abandoned.   *)
LEMMA FlushOrdered ==
  ASSUME ChannelsTyped, Ordered, NEW ch \in Channels, close_candev(ch)
  PROVE  Ordered'
<1>. USE DEF close_candev
<1>1. (\A d : SamePlace(d)) /\ LinkedOnce'
  BY PlacesKept DEF Ordered
<1>2. \A d \in Channels \ {ch} : Same(d)
  BY DEF Same, ChannelsTyped
<1>3. /\ can_state' = can_state /\ drv_xoff' = drv_xoff /\ xmit[ch] = "idle"
      /\ xmit' = xmit /\ bql' = bql /\ ~echo_skb'[ch]
      /\ ch \notin closing'
  BY DEF ChannelsTyped, Ordered, UpWhileSending
<1>4. Serial' /\ UpWhileSending(ch)'
  BY <1>3 DEF Ordered, Serial, UpWhileSending
<1>5. /\ abandoned \subseteq abandoned'
      /\ Listed(ch) => ch \in abandoned'
  BY ListedToSet DEF ChannelsTyped
<1>6. ch \in Channels \ abandoned' => Tidy(ch)'
  <2>1. /\ ch \notin abandoned' => ~Listed(ch) /\ Tidy(ch)
        /\ Waiting(ch) => Listed(ch)
        /\ SamePlace(ch)
    BY <1>1, <1>5 DEF Ordered, Waiting
  <2>. HIDE DEF close_candev
  <2>. QED
    BY <1>3, <2>1
    DEF SamePlace, Tidy, StoppedWhileBusy, QueuedOnce, EchoHeld, LengthKnown,
        DownIsUnlisted
<1>. QED
  BY <1>1, <1>2, <1>4, <1>5, <1>6, OrderedFor

(* The first step of start_xmit keeps it: the queue was awake, so empty.   *)
LEMMA StopOrdered ==
  ASSUME ChannelsTyped, Ordered, NEW ch \in Channels, XmitStop(ch)
  PROVE  Ordered'
<1>. USE DEF XmitStop
<1>1. (\A d : SamePlace(d)) /\ LinkedOnce'
  BY PlacesKept DEF Ordered
<1>2. \A d \in Channels \ {ch} : Same(d)
  BY DEF Same, ChannelsTyped
<1>3. /\ can_state' = can_state /\ can_state[ch] = "ERROR_ACTIVE"
      /\ ~drv_xoff[ch] /\ drv_xoff'[ch]
      /\ xmit[ch] = "idle" /\ xmit'[ch] = "stopped"
      /\ bql' = bql /\ echo_skb' = echo_skb /\ closing' = closing
      /\ \A d \in Channels \ {ch} : xmit'[d] = xmit[d]
  BY DEF ChannelsTyped
<1>4. Serial'
  BY <1>3 DEF Ordered, Serial, Free
<1>5. UpWhileSending(ch)'
  BY <1>3 DEF Ordered, UpWhileSending
<1>6. ch \in Channels \ abandoned' => Tidy(ch)'
  <2>1. /\ abandoned' = abandoned /\ SamePlace(ch)
        /\ ch \notin abandoned => Tidy(ch)
    BY <1>1 DEF Ordered
  <2>. HIDE DEF XmitStop
  <2>. QED
    BY <1>3, <2>1
    DEF SamePlace, Tidy, StoppedWhileBusy, QueuedOnce, EchoHeld, LengthKnown,
        DownIsUnlisted
<1>. QED
  BY <1>1, <1>2, <1>4, <1>5, <1>6, OrderedFor

(* The send keeps it, submitted or failed.                                 *)
LEMMA SendOrdered ==
  ASSUME ChannelsTyped, Ordered, NEW ch \in Channels, XmitSend(ch)
  PROVE  Ordered'
<1>. USE DEF XmitSend
<1>1. (\A d : SamePlace(d)) /\ LinkedOnce'
  BY PlacesKept DEF Ordered
<1>2. \A d \in Channels \ {ch} : Same(d)
  BY DEF Same, ChannelsTyped
<1>3. /\ can_state' = can_state /\ xmit[ch] = "stopped"
      /\ \/ xmit'[ch] = "sent" /\ drv_xoff' = drv_xoff
         \/ xmit'[ch] = "idle"
      /\ bql' = bql /\ echo_skb' = echo_skb /\ closing' = closing
      /\ \A d \in Channels \ {ch} : xmit'[d] = xmit[d]
  BY DEF ChannelsTyped
<1>4. Serial' /\ UpWhileSending(ch)'
  BY <1>3 DEF Ordered, Serial, UpWhileSending
<1>5. ch \in Channels \ abandoned' => Tidy(ch)'
  <2>1. /\ abandoned' = abandoned /\ SamePlace(ch)
        /\ ch \notin abandoned => Tidy(ch)
    BY <1>1 DEF Ordered
  <2>. HIDE DEF XmitSend
  <2>. QED
    BY <1>3, <2>1
    DEF SamePlace, Tidy, StoppedWhileBusy, QueuedOnce, EchoHeld, LengthKnown,
        DownIsUnlisted
<1>. QED
  BY <1>1, <1>2, <1>4, <1>5, OrderedFor

(* Storing the echo skb keeps it, stored or not.                           *)
LEMMA EchoOrdered ==
  ASSUME ChannelsTyped, Ordered, NEW ch \in Channels, XmitEcho(ch)
  PROVE  Ordered'
<1>. USE DEF XmitEcho
<1>1. (\A d : SamePlace(d)) /\ LinkedOnce'
  BY PlacesKept DEF Ordered
<1>2. \A d \in Channels \ {ch} : Same(d)
  BY DEF Same, ChannelsTyped
<1>3. /\ can_state' = can_state /\ xmit[ch] = "sent"
      /\ \/ xmit'[ch] = "echoed" /\ echo_skb'[ch]
         \/ xmit'[ch] = "idle" /\ echo_skb' = echo_skb
      /\ bql' = bql /\ drv_xoff' = drv_xoff /\ closing' = closing
      /\ \A d \in Channels \ {ch} : xmit'[d] = xmit[d]
  BY DEF ChannelsTyped
<1>4. Serial' /\ UpWhileSending(ch)'
  BY <1>3 DEF Ordered, Serial, UpWhileSending
<1>5. ch \in Channels \ abandoned' => Tidy(ch)'
  <2>1. /\ abandoned' = abandoned /\ SamePlace(ch)
        /\ ch \notin abandoned => Tidy(ch)
    BY <1>1 DEF Ordered
  <2>. HIDE DEF XmitEcho
  <2>. QED
    BY <1>3, <2>1
    DEF SamePlace, Tidy, StoppedWhileBusy, QueuedOnce, EchoHeld, LengthKnown,
        DownIsUnlisted
<1>. QED
  BY <1>1, <1>2, <1>4, <1>5, OrderedFor

(* netdev_sent_queue keeps it: the interface is still waiting.             *)
LEMMA SentOrdered ==
  ASSUME ChannelsTyped, Ordered, NEW ch \in Channels, XmitSent(ch)
  PROVE  Ordered'
<1>. USE DEF XmitSent
<1>1. (\A d : SamePlace(d)) /\ LinkedOnce'
  BY PlacesKept DEF Ordered
<1>2. \A d \in Channels \ {ch} : Same(d)
  BY DEF Same, ChannelsTyped
<1>3. /\ can_state' = can_state /\ xmit[ch] = "listed" /\ xmit'[ch] = "idle"
      /\ echo_skb' = echo_skb /\ drv_xoff' = drv_xoff /\ closing' = closing
      /\ bql[ch] \in Nat /\ bql'[ch] = bql[ch] + 1
      /\ \A d \in Channels \ {ch} : xmit'[d] = xmit[d]
  BY DEF ChannelsTyped
<1>4. Serial' /\ UpWhileSending(ch)'
  BY <1>3 DEF Ordered, Serial, UpWhileSending
<1>5. ch \in Channels \ abandoned' => Tidy(ch)'
  <2>1. /\ abandoned' = abandoned /\ SamePlace(ch)
        /\ ch \notin abandoned => Tidy(ch)
    BY <1>1 DEF Ordered
  <2>. HIDE DEF XmitSent
  <2>. QED
    BY <1>3, <2>1
    DEF SamePlace, Tidy, StoppedWhileBusy, QueuedOnce, EchoHeld, LengthKnown,
        DownIsUnlisted
<1>. QED
  BY <1>1, <1>2, <1>4, <1>5, OrderedFor

(* list_add_tail keeps it unless it ends the execution.                    *)
LEMMA WaitOrdered ==
  ASSUME ChannelsTyped, Held, Ordered, NEW ch \in Channels, XmitWait(ch),
         kernel' = "ok"
  PROVE  Ordered'
<1>1. /\ ~Listed(ch)
      /\ send_reply_list' = Append(send_reply_list, ch)
  BY ListedToSet DEF XmitWait, ChannelsTyped
<1>2. /\ \A d : Listed(d)' <=> Listed(d) \/ d = ch
      /\ send_reply_list # <<>> => Reply' = Reply
      /\ LinkedOnce'
  BY <1>1, ListedAppend DEF ChannelsTyped, Ordered
<1>3. /\ rx' = rx /\ rx_len' = rx_len /\ abandoned' = abandoned
      /\ can_state' = can_state /\ xmit[ch] = "echoed" /\ xmit'[ch] = "listed"
      /\ bql' = bql /\ echo_skb' = echo_skb /\ drv_xoff' = drv_xoff
      /\ closing' = closing
      /\ \A d \in Channels \ {ch} : xmit'[d] = xmit[d]
  BY <1>1 DEF XmitWait, ChannelsTyped
<1>4. rx # "idle" => Reply' = Reply /\ Reply # ch
  BY <1>1, <1>2, ReplyListed DEF Held
<1>5. \A d \in Channels \ {ch} : Same(d) /\ SamePlace(d)
  BY <1>2, <1>3, <1>4 DEF Same, SamePlace, Waiting, Taken
<1>6. Serial' /\ UpWhileSending(ch)'
  BY <1>3 DEF Ordered, Serial, UpWhileSending
<1>7. ch \in Channels \ abandoned' => Tidy(ch)'
  <2>1. /\ Listed(ch)' /\ Waiting(ch)' /\ ~Taken(ch)'
        /\ ~Waiting(ch)
        /\ can_state[ch] = "ERROR_ACTIVE"
        /\ ch \notin abandoned' => Tidy(ch)
    BY <1>1, <1>2, <1>3, <1>4 DEF Ordered, UpWhileSending, Waiting, Taken
  <2>. QED
    BY <1>3, <2>1
    DEF SamePlace, Tidy, StoppedWhileBusy, QueuedOnce, EchoHeld, LengthKnown,
        DownIsUnlisted
<1>. QED
  BY <1>2, <1>3, <1>5, <1>6, <1>7, OrderedFor

(* A reply that nobody waits for keeps it.                                 *)
LEMMA RecvOrdered ==
  ASSUME ChannelsTyped, Ordered, RecvReply
  PROVE  Ordered'
<1>. USE DEF RecvReply
<1>1. \A d : SamePlace(d)
  BY DEF SamePlace, Listed, Waiting, Taken, Reply
<1>2. \A d \in Channels : Same(d)
  BY DEF Same
<1>3. LinkedOnce' /\ Serial' /\ abandoned' = abandoned
  BY DEF Ordered, LinkedOnce, Serial, Free
<1>. QED
  BY <1>1, <1>2, <1>3, OrderedForAll

(* The send callback takes the frame from the echo slot and keeps it.      *)
LEMMA TakeOrdered ==
  ASSUME ChannelsTyped, Held, Ordered, SendCallbackEcho
  PROVE  Ordered'
<1>0. PICK ch : ch = Reply
  OBVIOUS
<1>. USE DEF SendCallbackEcho
<1>1. ch \in Channels /\ Listed(ch) /\ Waiting(ch) /\ ~Taken(ch)
  BY <1>0, ReplyListed DEF Waiting, Taken
<1>2. /\ rx' = "complete" /\ rx = "callback" /\ Reply' = ch
      /\ abandoned' = abandoned /\ xmit' = xmit /\ can_state' = can_state
      /\ drv_xoff' = drv_xoff /\ bql' = bql /\ closing' = closing
      /\ ~echo_skb'[ch]
      /\ echo_skb[ch] => rx_len' = 1
      /\ send_reply_list' = send_reply_list
  BY <1>0, <1>1 DEF ChannelsTyped, Reply
<1>3. \A d \in Channels \ {ch} : Same(d) /\ SamePlace(d)
  BY <1>0, <1>2 DEF Same, SamePlace, Listed, Waiting, Taken, ChannelsTyped
<1>4. LinkedOnce' /\ Serial' /\ UpWhileSending(ch)'
  BY <1>1, <1>2 DEF Ordered, LinkedOnce, Serial, UpWhileSending
<1>5. ch \in Channels \ abandoned' => Tidy(ch)'
  <2>1. /\ Listed(ch)' <=> Listed(ch)
        /\ Waiting(ch)' /\ Taken(ch)'
        /\ ch \notin abandoned' => Tidy(ch)
    BY <1>0, <1>1, <1>2 DEF Ordered, Listed, Waiting, Taken
  <2>. HIDE DEF SendCallbackEcho
  <2>. QED
    BY <1>1, <1>2, <2>1
    DEF Tidy, StoppedWhileBusy, QueuedOnce, EchoHeld, LengthKnown,
        DownIsUnlisted
<1>. QED
  BY <1>2, <1>3, <1>4, <1>5, OrderedFor

(* Waking the queue keeps it: nothing of the interface is left.            *)
LEMMA WakeOrdered ==
  ASSUME TypeInv, ChannelsTyped, Held, Ordered, SendCallbackWake, kernel' = "ok"
  PROVE  Ordered'
<1>0. PICK ch : ch = Reply
  OBVIOUS
<1>. USE DEF SendCallbackWake
<1>1. ch \in Channels /\ Listed(ch) /\ Waiting(ch) /\ Taken(ch)
  BY <1>0, ReplyListed DEF Waiting, Taken
<1>2. /\ rx' = "unlink" /\ rx = "complete" /\ Reply' = ch
      /\ rx_len' = rx_len
      /\ abandoned' = abandoned /\ xmit' = xmit /\ can_state' = can_state
      /\ echo_skb' = echo_skb /\ closing' = closing
      /\ rx_len <= bql[ch] /\ bql'[ch] = bql[ch] - rx_len
      /\ send_reply_list' = send_reply_list
  BY <1>0, <1>1 DEF ChannelsTyped, Reply
<1>3. \A d \in Channels \ {ch} : Same(d) /\ SamePlace(d)
  BY <1>0, <1>2 DEF Same, SamePlace, Listed, Waiting, Taken, ChannelsTyped
<1>4. LinkedOnce' /\ Serial' /\ UpWhileSending(ch)'
  BY <1>1, <1>2 DEF Ordered, LinkedOnce, Serial, UpWhileSending
<1>5. ch \in Channels \ abandoned' => Tidy(ch)'
  <2>1. /\ Listed(ch)' <=> Listed(ch)
        /\ ~Waiting(ch)' /\ ~Taken(ch)'
        /\ ch \notin abandoned' => Tidy(ch)
        /\ bql[ch] \in Nat
    BY <1>0, <1>1, <1>2 DEF Ordered, Listed, Waiting, Taken, ChannelsTyped
  <2>2. ch \notin abandoned' => /\ rx_len = 1 /\ xmit[ch] = "idle"
                                /\ bql[ch] = 1 /\ ~echo_skb[ch]
    BY <1>1, <1>2, <2>1
    DEF Tidy, LengthKnown, QueuedOnce, EchoHeld, StoppedWhileBusy
  <2>. HIDE DEF SendCallbackWake
  <2>. QED
    BY <1>1, <1>2, <2>1, <2>2
    DEF Tidy, StoppedWhileBusy, QueuedOnce, EchoHeld, LengthKnown,
        DownIsUnlisted
<1>. QED
  BY <1>2, <1>3, <1>4, <1>5, OrderedFor

(* list_del keeps it: the queue it may find awake is empty.                *)
LEMMA UnlinkOrdered ==
  ASSUME ChannelsTyped, Held, Ordered, ReplyUnlink
  PROVE  Ordered'
<1>0. PICK ch : ch = Reply
  OBVIOUS
<1>1. /\ send_reply_list \in Seq(Channels) /\ send_reply_list # <<>>
      /\ send_reply_list' = Tail(send_reply_list)
  BY DEF ReplyUnlink, Held, ChannelsTyped
<1>2. /\ \A d : Listed(d)' <=> Listed(d) /\ d # ch
      /\ LinkedOnce'
  BY <1>0, <1>1, ListedTail DEF Ordered
<1>3. /\ rx' = "idle" /\ rx = "unlink"
      /\ abandoned' = abandoned /\ xmit' = xmit /\ can_state' = can_state
      /\ echo_skb' = echo_skb /\ closing' = closing /\ drv_xoff' = drv_xoff
      /\ bql' = bql
  BY DEF ReplyUnlink
<1>4. \A d \in Channels \ {ch} : Same(d) /\ SamePlace(d)
  BY <1>0, <1>2, <1>3 DEF Same, SamePlace, Waiting, Taken
<1>5. ch \in Channels
  BY <1>0, <1>3, ReplyListed
<1>6. Serial' /\ UpWhileSending(ch)'
  BY <1>3, <1>5 DEF Ordered, Serial, UpWhileSending
<1>7. ch \in Channels \ abandoned' => Tidy(ch)'
  <2>1. /\ ~Listed(ch)' /\ ~Waiting(ch)' /\ ~Taken(ch)'
        /\ ~Waiting(ch) /\ ~Taken(ch)
        /\ ch \in Channels \ abandoned' => Tidy(ch)
    BY <1>0, <1>2, <1>3 DEF Ordered, Waiting, Taken
  <2>. QED
    BY <1>3, <2>1
    DEF Tidy, StoppedWhileBusy, QueuedOnce, EchoHeld, LengthKnown,
        DownIsUnlisted
<1>. QED
  BY <1>2, <1>3, <1>4, <1>5, <1>6, <1>7, OrderedFor

(* What happens on the bus keeps it.                                       *)
LEMMA IdleOrdered ==
  ASSUME Ordered, LoseTransfer \/ ExecuteCommand
  PROVE  Ordered'
<1>. USE DEF LoseTransfer, ExecuteCommand
<1>1. (\A d : SamePlace(d)) /\ LinkedOnce'
  BY PlacesKept DEF Ordered
<1>2. (\A d \in Channels : Same(d)) /\ Serial' /\ abandoned' = abandoned
  BY DEF Same, Ordered, Serial
<1>. QED
  BY <1>1, <1>2, OrderedForAll

(* Every step that does not end the execution keeps Ordered.               *)
LEMMA OrderedStep ==
  ASSUME TypeInv, Held, kernel = "ok" => Ordered, [Next]_vars
  PROVE  kernel' = "ok" => Ordered'
<1>. SUFFICES ASSUME kernel' = "ok" PROVE Ordered'
  OBVIOUS
<1>1. CASE UNCHANGED vars
  <2>1. Ordered /\ LinkedOnce'
    BY <1>1, PlacesKept DEF vars, Ordered
  <2>2. \A d \in Channels : Same(d) /\ SamePlace(d)
    BY <1>1, PlacesKept DEF vars, Same
  <2>. QED
    BY <1>1, <2>1, <2>2, OrderedForAll DEF vars, Ordered, Serial
<1>2. CASE Next
  <2>1. kernel = "ok"
    BY <1>2
    DEF Next, XmitStep, RxStep, canguru_ops_open, canguru_ops_close,
        close_candev, XmitStop, XmitSend, XmitEcho, XmitWait, XmitSent,
        RecvReply, SendCallbackEcho, SendCallbackWake, ReplyUnlink,
        LoseTransfer, ExecuteCommand
  <2>2. Ordered /\ ChannelsTyped
    BY <2>1, TypedChannels
  <2>. QED
    BY <1>2, <2>2, OpenOrdered, CloseOrdered, FlushOrdered, StopOrdered,
       SendOrdered, EchoOrdered, WaitOrdered, SentOrdered, RecvOrdered,
       TakeOrdered, WakeOrdered, UnlinkOrdered, IdleOrdered
    DEF Next, XmitStep, RxStep
<1>. QED
  BY <1>1, <1>2

-----------------------------------------------------------------------------
(* How the kernel ends.                                                    *)

(* A step that ends the execution does so in one of the two ways.          *)
LEMMA KernelEndStep ==
  ASSUME TypeInv, Held, kernel = "ok" => Ordered, KernelEnd, [Next]_vars
  PROVE  KernelEnd'
<1>1. CASE kernel' = "ok"
  BY <1>1 DEF KernelEnd
<1>2. ASSUME NEW ch \in Channels, XmitWait(ch), kernel' # "ok"
      PROVE  KernelEnd'
  <2>1. /\ kernel = "ok" /\ kernel' = "corrupt"
        /\ xmit' = xmit /\ xmit[ch] = "echoed"
        /\ send_reply_list' = send_reply_list
        /\ ch \in ToSet(send_reply_list)
        /\ rx' = rx /\ abandoned' = abandoned
    BY <1>2 DEF XmitWait
  <2>2. ChannelsTyped /\ Ordered /\ Listed(ch)
    BY <2>1, TypedChannels, ListedToSet DEF ChannelsTyped
  <2>3. ch \notin abandoned => rx = "unlink" /\ Reply = ch
    BY <2>1, <2>2 DEF Ordered, Tidy, StoppedWhileBusy, Waiting
  <2>4. rx # "idle" => SMP
    BY <2>1, <2>2 DEF Ordered, Serial
  <2>. QED
    BY <2>1, <2>3, <2>4 DEF KernelEnd, ToSet, Reply
<1>3. ASSUME SendCallbackWake, kernel' # "ok"
      PROVE  KernelEnd'
  <2>1. /\ kernel = "ok" /\ kernel' = "bug" /\ rx = "complete"
        /\ rx_len > bql[Reply]
        /\ xmit' = xmit /\ abandoned' = abandoned
        /\ send_reply_list' = send_reply_list
    BY <1>3 DEF SendCallbackWake
  <2>2. ChannelsTyped /\ Ordered
    BY <2>1, TypedChannels
  <2>3. Reply \in Channels /\ Waiting(Reply) /\ Taken(Reply)
    BY <2>1, <2>2, ReplyListed DEF Waiting, Taken
  <2>4. Reply \notin abandoned => xmit[Reply] = "listed"
    <3>. SUFFICES ASSUME Reply \notin abandoned PROVE xmit[Reply] = "listed"
      OBVIOUS
    <3>1. Tidy(Reply)
      BY <2>2, <2>3 DEF Ordered
    <3>2. rx_len = 1 /\ bql[Reply] # 1
      BY <2>1, <2>3, <3>1 DEF Tidy, LengthKnown
    <3>3. xmit[Reply] # "idle" /\ xmit[Reply] \in {"idle", "listed"}
      BY <2>3, <3>1, <3>2 DEF Tidy, QueuedOnce, StoppedWhileBusy
    <3>. QED
      BY <3>3
  <2>5. xmit[Reply] = "listed" => SMP
    BY <2>1, <2>2, <2>3 DEF Ordered, Serial
  <2>. QED
    BY <2>1, <2>4, <2>5 DEF KernelEnd, Reply
<1>4. CASE UNCHANGED vars
  BY <1>4 DEF vars, KernelEnd, ToSet, Reply
<1>5. Next /\ kernel' # "ok" =>
        SendCallbackWake \/ \E ch \in Channels : XmitWait(ch)
  BY DEF Next, XmitStep, RxStep, canguru_ops_open, canguru_ops_close,
         close_candev, XmitStop, XmitSend, XmitEcho, XmitSent,
         RecvReply, SendCallbackEcho, ReplyUnlink, LoseTransfer,
         ExecuteCommand
<1>. QED
  BY <1>1, <1>2, <1>3, <1>4, <1>5

-----------------------------------------------------------------------------
(* Every frame is counted once.                                            *)

(* Counting a frame adds one to the total of its interface.                *)
LEMMA CountOne ==
  ASSUME TypeInv, NEW c \in Channels, NEW k \in Counters,
         stats' = [stats EXCEPT ![c][k] = @ + 1]
  PROVE  /\ Counted(c) \in Nat
         /\ Counted(c)' = Counted(c) + 1
         /\ \A d \in Channels \ {c} : Counted(d)' = Counted(d)
<1>. DEFINE s == stats[c]
            t == stats'[c]
<1>1. /\ stats \in [Channels -> [Counters -> Nat]]
      /\ s \in [Counters -> Nat]
  BY DEF TypeInv
<1>2. /\ t = [s EXCEPT ![k] = @ + 1]
      /\ \A d \in Channels \ {c} : stats'[d] = stats[d]
  BY <1>1
<1>. HIDE DEF s, t
<1>3. /\ s["tx_packets"] \in Nat
      /\ s["tx_errors"] \in Nat
      /\ s["tx_dropped"] \in Nat
      /\ \A j \in Counters : t[j] = IF j = k THEN s[j] + 1 ELSE s[j]
  BY <1>1, <1>2 DEF Counters
<1>4. /\ t["tx_packets"] + t["tx_errors"] + t["tx_dropped"]
           = s["tx_packets"] + s["tx_errors"] + s["tx_dropped"] + 1
  <2>1. CASE k = "tx_packets"
    BY <1>3, <2>1 DEF Counters
  <2>2. CASE k = "tx_errors"
    BY <1>3, <2>2 DEF Counters
  <2>3. CASE k = "tx_dropped"
    BY <1>3, <2>3 DEF Counters
  <2>. QED
    BY <2>1, <2>2, <2>3 DEF Counters
<1>. QED
  BY <1>2, <1>3, <1>4 DEF Counted, s, t

(* Every step keeps each frame counted once or in flight.                  *)
LEMMA CountedStep ==
  ASSUME TypeInv, Held, kernel = "ok" => Ordered, CountedOnce, [Next]_vars
  PROVE  CountedOnce'
<1>. SUFFICES ASSUME "noecho" \notin slips', NEW d \in Channels \ abandoned'
              PROVE  Counted(d)' + InFlight(d)' = frames'[d]
  BY DEF CountedOnce
<1>1. ASSUME stats' = stats, echo_skb' = echo_skb, frames' = frames,
             xmit'[d] = "sent" <=> xmit[d] = "sent",
             slips \subseteq slips', abandoned \subseteq abandoned'
      PROVE  Counted(d)' + InFlight(d)' = frames'[d]
  BY <1>1 DEF CountedOnce, Counted, InFlight
<1>2. ASSUME NEW ch \in Channels, XmitSend(ch)
      PROVE  Counted(d)' + InFlight(d)' = frames'[d]
  <2>1. /\ Counted(d)' = Counted(d) /\ echo_skb' = echo_skb
        /\ "noecho" \notin slips /\ d \notin abandoned
        /\ Ordered
    BY <1>2 DEF XmitSend, Counted
  <2>2. Counted(d) + InFlight(d) = frames[d] /\ Tidy(d)
    BY <2>1 DEF CountedOnce, Ordered
  <2>3. CASE d # ch
    <3>1. xmit'[d] = xmit[d] /\ frames'[d] = frames[d]
      BY <1>2, <2>3 DEF XmitSend, TypeInv
    <3>. QED
      BY <2>1, <2>2, <3>1 DEF InFlight
  <2>4. CASE d = ch
    <3>1. xmit[d] = "stopped" /\ ~echo_skb[d]
      BY <1>2, <2>2, <2>4
      DEF XmitSend, Tidy, StoppedWhileBusy, EchoHeld
    <3>2. InFlight(d) = 0 /\ Counted(d) + 0 = frames[d]
      BY <2>2, <3>1 DEF InFlight
    <3>3. CASE xmit'[d] = "sent"
      <4>1. frames' = [frames EXCEPT ![ch] = @ + 1]
        BY <1>2, <2>4, <3>1, <3>3 DEF XmitSend, TypeInv
      <4>2. frames[d] \in Nat /\ frames'[d] = frames[d] + 1
        BY <2>4, <4>1 DEF TypeInv
      <4>3. InFlight(d)' = 1
        BY <3>3 DEF InFlight
      <4>4. Counted(d) \in Nat
        BY DEF TypeInv, Counted, Counters
      <4>. QED
        BY <2>1, <3>2, <4>2, <4>3, <4>4
    <3>4. CASE xmit'[d] # "sent"
      <4>1. frames' = frames
        BY <1>2, <2>4, <3>4 DEF XmitSend, TypeInv
      <4>2. InFlight(d)' = 0
        BY <2>1, <3>1, <3>4 DEF InFlight
      <4>. QED
        BY <2>1, <3>2, <4>1, <4>2
    <3>. QED
      BY <3>3, <3>4
  <2>. QED
    BY <2>3, <2>4
<1>3. ASSUME NEW ch \in Channels, XmitEcho(ch)
      PROVE  Counted(d)' + InFlight(d)' = frames'[d]
  <2>1. /\ Counted(d)' = Counted(d) /\ frames' = frames
        /\ "noecho" \notin slips /\ d \notin abandoned
        /\ xmit[ch] = "sent" /\ echo_skb' = [echo_skb EXCEPT ![ch] = TRUE]
        /\ xmit' = [xmit EXCEPT ![ch] = "echoed"]
    BY <1>3 DEF XmitEcho, Counted
  <2>2. InFlight(d)' = InFlight(d)
    <3>1. CASE d = ch
      BY <2>1, <3>1 DEF InFlight, TypeInv
    <3>2. CASE d # ch
      BY <2>1, <3>2 DEF InFlight, TypeInv
    <3>. QED
      BY <3>1, <3>2
  <2>. QED
    BY <2>1, <2>2 DEF CountedOnce
<1>4. ASSUME NEW ch \in Channels, close_candev(ch)
      PROVE  Counted(d)' + InFlight(d)' = frames'[d]
  <2>1. /\ frames' = frames /\ xmit' = xmit
        /\ echo_skb' = [echo_skb EXCEPT ![ch] = FALSE]
        /\ "noecho" \notin slips /\ d \notin abandoned
        /\ Ordered /\ ch \in closing
    BY <1>4 DEF close_candev
  <2>2. xmit[ch] = "idle"
    BY <2>1 DEF Ordered, UpWhileSending
  <2>3. Counted(d) + InFlight(d) = frames[d] /\ Counted(d) \in Nat
    BY <2>1 DEF CountedOnce, TypeInv, Counted, Counters
  <2>4. CASE ~echo_skb[ch]
    <3>1. stats' = stats /\ echo_skb' = echo_skb
      BY <1>4, <2>1, <2>4 DEF close_candev, TypeInv
    <3>. QED
      BY <2>1, <2>3, <3>1 DEF Counted, InFlight
  <2>5. CASE echo_skb[ch]
    <3>1. /\ Counted(ch)' = Counted(ch) + 1
          /\ d # ch => Counted(d)' = Counted(d)
      BY <1>4, <2>5, CountOne DEF close_candev, Counters
    <3>2. CASE d = ch
      <4>1. InFlight(d) = 1 /\ InFlight(d)' = 0
        BY <2>1, <2>2, <2>5, <3>2 DEF InFlight, TypeInv
      <4>. QED
        BY <2>1, <2>3, <3>1, <3>2, <4>1
    <3>3. CASE d # ch
      <4>1. InFlight(d)' = InFlight(d)
        BY <2>1, <3>3 DEF InFlight, TypeInv
      <4>. QED
        BY <2>1, <2>3, <3>1, <3>3, <4>1
    <3>. QED
      BY <3>2, <3>3
  <2>. QED
    BY <2>4, <2>5
<1>5. ASSUME SendCallbackEcho
      PROVE  Counted(d)' + InFlight(d)' = frames'[d]
  <2>0. PICK ch : ch = Reply
    OBVIOUS
  <2>1. /\ frames' = frames /\ xmit' = xmit /\ rx = "callback"
        /\ echo_skb' = [echo_skb EXCEPT ![ch] = FALSE]
        /\ stats' = [stats EXCEPT ![ch][CounterOf(rx_status)] = @ + 1]
        /\ "noecho" \notin slips /\ d \notin abandoned
        /\ Ordered
    BY <1>5, <2>0 DEF SendCallbackEcho
  <2>2. ch \in Channels /\ Waiting(ch) /\ ~Taken(ch)
    BY <2>0, <2>1, ReplyListed, TypedChannels DEF Waiting, Taken
  <2>3. Counted(d) + InFlight(d) = frames[d] /\ Counted(d) \in Nat
    BY <2>1 DEF CountedOnce, TypeInv, Counted, Counters
  <2>4. /\ Counted(ch)' = Counted(ch) + 1
        /\ d # ch => Counted(d)' = Counted(d)
    BY <2>1, <2>2, CountOne, CounterKnown
  <2>5. CASE d = ch
    <3>1. Tidy(d)
      BY <2>1 DEF Ordered
    <3>2. echo_skb[d] /\ xmit[d] # "sent"
      BY <2>2, <2>5, <3>1 DEF Tidy, EchoHeld, StoppedWhileBusy
    <3>3. InFlight(d) = 1 /\ InFlight(d)' = 0
      BY <2>1, <2>5, <3>2 DEF InFlight, TypeInv
    <3>. QED
      BY <2>1, <2>3, <2>4, <2>5, <3>3
  <2>6. CASE d # ch
    <3>1. InFlight(d)' = InFlight(d)
      BY <2>1, <2>6 DEF InFlight, TypeInv
    <3>. QED
      BY <2>1, <2>3, <2>4, <2>6, <3>1
  <2>. QED
    BY <2>5, <2>6
<1>6. ASSUME NEW ch \in Channels,
             XmitStop(ch) \/ XmitWait(ch) \/ XmitSent(ch)
      PROVE  Counted(d)' + InFlight(d)' = frames'[d]
  BY <1>1, <1>6 DEF XmitStop, XmitWait, XmitSent, TypeInv
<1>7. ASSUME NEW ch \in Channels,
             canguru_ops_open(ch) \/ canguru_ops_close(ch)
      PROVE  Counted(d)' + InFlight(d)' = frames'[d]
  BY <1>1, <1>7 DEF canguru_ops_open, canguru_ops_close
<1>8. ASSUME \/ RecvReply \/ SendCallbackWake \/ ReplyUnlink
             \/ LoseTransfer \/ ExecuteCommand
      PROVE  Counted(d)' + InFlight(d)' = frames'[d]
  BY <1>1, <1>8
  DEF RecvReply, SendCallbackWake, ReplyUnlink, LoseTransfer, ExecuteCommand
<1>9. CASE UNCHANGED vars
  BY <1>1, <1>9 DEF vars
<1>. QED
  BY <1>2, <1>3, <1>4, <1>5, <1>6, <1>7, <1>8, <1>9
  DEF Next, XmitStep, RxStep

-----------------------------------------------------------------------------
(* Replies find the senders they answer.                                   *)

(* Every step keeps the reply list in the order of the sends.              *)
LEMMA PairingStep ==
  ASSUME TypeInv, Held, kernel = "ok" => Ordered, Pairing, [Next]_vars
  PROVE  Pairing'
<1>. SUFFICES ASSUME kernel' = "ok", slips' = {}, ~SMP
              PROVE  /\ (\A ch \in Channels : ~InWindow(ch)')
                           => pipe' = send_reply_list'
                     /\ \A ch \in Channels :
                          InWindow(ch)' => pipe' = Append(send_reply_list', ch)
  BY DEF Pairing
<1>. DEFINE Paired ==
       /\ (\A ch \in Channels : ~InWindow(ch)) => pipe = send_reply_list
       /\ \A ch \in Channels : InWindow(ch) => pipe = Append(send_reply_list, ch)
<1>0. /\ kernel = "ok" /\ slips = {} => Paired
      /\ kernel = "ok" => Serial
  BY DEF Pairing, Ordered
<1>. HIDE DEF Paired
<1>1. ASSUME pipe' = pipe, send_reply_list' = send_reply_list, Paired,
             \A d \in Channels : InWindow(d)' <=> InWindow(d)
      PROVE  Paired'
  BY <1>1 DEF Paired
<1>2. ASSUME NEW ch \in Channels, XmitSend(ch) PROVE Paired'
  <2>1. /\ Paired /\ Serial /\ xmit[ch] = "stopped"
        /\ send_reply_list' = send_reply_list
    BY <1>0, <1>2 DEF XmitSend
  <2>2. \A d \in Channels : ~InWindow(d)
    BY <2>1 DEF Serial, InWindow
  <2>3. pipe = send_reply_list
    BY <2>1, <2>2 DEF Paired
  <2>4. \A d \in Channels \ {ch} : xmit'[d] = xmit[d]
    BY <1>2 DEF XmitSend, TypeInv
  <2>5. \A d \in Channels \ {ch} : ~InWindow(d)'
    BY <2>2, <2>4 DEF InWindow
  <2>6. CASE xmit'[ch] = "sent"
    <3>1. pipe' = Append(pipe, ch)
      BY <1>2, <2>6 DEF XmitSend, TypeInv
    <3>2. InWindow(ch)'
      BY <2>6 DEF InWindow
    <3>. QED
      BY <2>1, <2>3, <2>5, <3>1, <3>2 DEF Paired
  <2>7. CASE xmit'[ch] # "sent"
    <3>1. pipe' = pipe /\ xmit'[ch] = "idle"
      BY <1>2, <2>7 DEF XmitSend, TypeInv
    <3>2. ~InWindow(ch)'
      BY <3>1 DEF InWindow
    <3>. QED
      BY <2>1, <2>3, <2>5, <3>1, <3>2 DEF Paired
  <2>. QED
    BY <2>6, <2>7
<1>3. ASSUME NEW ch \in Channels, XmitEcho(ch) PROVE Paired'
  <2>1. /\ Paired /\ xmit[ch] = "sent" /\ xmit' = [xmit EXCEPT ![ch] = "echoed"]
        /\ pipe' = pipe /\ send_reply_list' = send_reply_list
    BY <1>0, <1>3 DEF XmitEcho
  <2>2. \A d \in Channels : InWindow(d)' <=> InWindow(d)
    BY <2>1 DEF InWindow, TypeInv
  <2>. QED
    BY <1>1, <2>1, <2>2
<1>4. ASSUME NEW ch \in Channels, XmitWait(ch) PROVE Paired'
  <2>1. /\ Paired /\ Serial /\ xmit[ch] = "echoed"
        /\ send_reply_list' = Append(send_reply_list, ch)
        /\ xmit' = [xmit EXCEPT ![ch] = "listed"]
        /\ pipe' = pipe
    BY <1>0, <1>4 DEF XmitWait
  <2>2. pipe = Append(send_reply_list, ch)
    BY <2>1 DEF Paired, InWindow
  <2>3. \A d \in Channels : ~InWindow(d)'
    BY <2>1 DEF Serial, InWindow, TypeInv
  <2>. QED
    BY <2>1, <2>2, <2>3 DEF Paired
<1>5. ASSUME NEW ch \in Channels, XmitStop(ch) \/ XmitSent(ch) PROVE Paired'
  <2>1. /\ Paired /\ pipe' = pipe /\ send_reply_list' = send_reply_list
        /\ \A d \in Channels : InWindow(d)' <=> InWindow(d)
    BY <1>0, <1>5 DEF XmitStop, XmitSent, InWindow, TypeInv
  <2>. QED
    BY <1>1, <2>1
<1>6. ASSUME RecvReply PROVE Paired'
  <2>1. /\ Paired /\ pipe' = pipe /\ send_reply_list' = send_reply_list
        /\ xmit' = xmit
    BY <1>0, <1>6 DEF RecvReply
  <2>. QED
    BY <1>1, <2>1 DEF InWindow
<1>7. ASSUME ReplyUnlink PROVE Paired'
  <2>1. /\ Paired /\ Serial /\ rx = "unlink"
        /\ pipe' = Tail(pipe) /\ send_reply_list' = Tail(send_reply_list)
        /\ xmit' = xmit
    BY <1>0, <1>7 DEF ReplyUnlink
  <2>2. \A d \in Channels : ~InWindow(d) /\ ~InWindow(d)'
    BY <2>1 DEF Serial, InWindow
  <2>. QED
    BY <2>1, <2>2 DEF Paired
<1>8. ASSUME LoseTransfer PROVE Paired'
  BY <1>8 DEF LoseTransfer
<1>9. ASSUME NEW ch \in Channels,
             canguru_ops_open(ch) \/ canguru_ops_close(ch) \/ close_candev(ch)
      PROVE  Paired'
  <2>1. /\ Paired /\ pipe' = pipe /\ send_reply_list' = send_reply_list
        /\ xmit' = xmit
    BY <1>0, <1>9 DEF canguru_ops_open, canguru_ops_close, close_candev
  <2>. QED
    BY <1>1, <2>1 DEF InWindow
<1>10. ASSUME SendCallbackEcho \/ SendCallbackWake \/ ExecuteCommand
       PROVE  Paired'
  <2>1. /\ Paired /\ pipe' = pipe /\ send_reply_list' = send_reply_list
        /\ xmit' = xmit
    BY <1>0, <1>10 DEF SendCallbackEcho, SendCallbackWake, ExecuteCommand
  <2>. QED
    BY <1>1, <2>1 DEF InWindow
<1>11. ASSUME UNCHANGED vars PROVE Paired'
  <2>1. /\ Paired /\ pipe' = pipe /\ send_reply_list' = send_reply_list
        /\ xmit' = xmit
    BY <1>0, <1>11 DEF vars
  <2>. QED
    BY <1>1, <2>1 DEF InWindow
<1>12. ASSUME Next PROVE Paired'
  BY <1>2, <1>3, <1>4, <1>5, <1>6, <1>7, <1>8, <1>9, <1>10, <1>12
  DEF Next, XmitStep, RxStep
<1>. QED
  BY <1>11, <1>12 DEF Paired

-----------------------------------------------------------------------------
(* The theorems.                                                           *)

(* The invariant holds at first.                                           *)
LEMMA InitInv == Init => IInv
<1>. SUFFICES ASSUME Init PROVE IInv
  OBVIOUS
<1>1. TypeInv /\ Held
  BY InitTyped
<1>2. \A ch : ~Listed(ch) /\ ~Waiting(ch) /\ ~Taken(ch)
  BY EmptySeq DEF Init, Listed, Waiting, Taken
<1>3. Ordered
  BY <1>2
  DEF Init, Ordered, LinkedOnce, Serial, UpWhileSending, Tidy,
      StoppedWhileBusy, QueuedOnce, EchoHeld, LengthKnown, DownIsUnlisted
<1>4. KernelEnd /\ CountedOnce /\ Pairing
  BY DEF Init, KernelEnd, CountedOnce, Counted, InFlight, Counters, Pairing,
         InWindow
<1>. QED
  BY <1>1, <1>3, <1>4 DEF IInv

(* IInv is inductive: it holds at first and every step keeps it.           *)
THEOREM Inductive == Spec => []IInv
<1>1. Init => IInv
  BY InitInv
<1>2. IInv /\ [Next]_vars => IInv'
  BY TypeStep, OrderedStep, KernelEndStep, CountedStep, PairingStep,
     NetAssumption DEF IInv
<1>. QED
  BY <1>1, <1>2, PTL DEF Spec

(* The kernel ends only in the two ways KernelEnd names: the reply         *)
(* overtakes the rest of start_xmit, or an interface is closed with a      *)
(* reply outstanding.                                                      *)
THEOREM EndsOnlySo == Spec => []KernelEnd
  BY Inductive, PTL DEF IInv

(* Every frame the device accepted is counted once or in flight.           *)
THEOREM CountsOnce == Spec => []CountedOnce
  BY Inductive, PTL DEF IInv

(* On a uniprocessor every status byte is credited to the interface whose  *)
(* frame it answers.                                                       *)
THEOREM PairsReplies == Spec => []Pairing
  BY Inductive, PTL DEF IInv

(* An awake queue means that nothing of the interface is in flight.        *)
THEOREM OneFrameAtATime == Spec => []AwakeIsEmpty
<1>1. IInv => AwakeIsEmpty
  <2>. SUFFICES ASSUME IInv, kernel = "ok", rx = "idle",
                       NEW ch \in Channels \ abandoned,
                       ~drv_xoff[ch], xmit[ch] = "idle"
                PROVE  /\ ~echo_skb[ch] /\ ch \notin ToSet(send_reply_list)
                       /\ bql[ch] = 0
    BY DEF AwakeIsEmpty
  <2>1. Tidy(ch) /\ ~Taken(ch) /\ (Waiting(ch) <=> Listed(ch))
    BY DEF IInv, Ordered, Taken, Waiting
  <2>2. ~Listed(ch)
    BY <2>1 DEF Tidy, StoppedWhileBusy
  <2>3. ~echo_skb[ch] /\ bql[ch] = 0
    BY <2>1, <2>2 DEF Tidy, QueuedOnce, EchoHeld
  <2>. QED
    BY <2>2, <2>3, ListedToSet DEF IInv, TypeInv
<1>. QED
  BY <1>1, Inductive, PTL

-----------------------------------------------------------------------------
(* The reply list and the device agree on how much is outstanding.         *)

Window == {ch \in Channels : InWindow(ch)}

(* Every step moves both sides alike, or is one of the slips.              *)
LEMMA BalanceStep ==
  ASSUME IInv, Balance, [Next]_vars
  PROVE  Balance'
<1>. SUFFICES ASSUME kernel' = "ok", slips' = {}
              PROVE  Len(pipe') = Len(send_reply_list') + Cardinality(Window')
  BY DEF Balance, Window
<1>. DEFINE Even == Len(pipe) = Len(send_reply_list) + Cardinality(Window)
<1>0. /\ TypeInv /\ Held
      /\ kernel = "ok" /\ slips = {} => Even
      /\ Window \subseteq Channels /\ IsFiniteSet(Window)
      /\ Cardinality(Window) \in Nat
  <2>1. Window \subseteq Channels
    BY DEF Window
  <2>2. IsFiniteSet(Channels)
    BY NetAssumption DEF NetAssumption
  <2>3. IsFiniteSet(Window) /\ Cardinality(Window) \in Nat
    BY <2>1, <2>2, FS_Subset, FS_CardinalityType
  <2>. QED
    BY <2>1, <2>3 DEF IInv, Balance, Window
<1>1. /\ send_reply_list \in Seq(Channels) /\ pipe \in Seq(Channels)
      /\ Len(send_reply_list) \in Nat /\ Len(pipe) \in Nat
  BY <1>0, LenProperties DEF TypeInv
<1>. HIDE DEF Even
<1>2. ASSUME pipe' = pipe, send_reply_list' = send_reply_list, Even,
             \A d \in Channels : InWindow(d)' <=> InWindow(d)
      PROVE  Even'
  BY <1>2 DEF Even, Window
<1>3. ASSUME NEW ch \in Channels, XmitSend(ch) PROVE Even'
  <2>1. /\ Even /\ xmit[ch] = "stopped" /\ send_reply_list' = send_reply_list
    BY <1>0, <1>3 DEF XmitSend
  <2>2. CASE pipe' = Append(pipe, ch) /\ xmit' = [xmit EXCEPT ![ch] = "sent"]
    <3>1. Len(pipe') = Len(pipe) + 1
      BY <1>1, <2>2, AppendFacts
    <3>2. Window' = Window \cup {ch} /\ ch \notin Window
      BY <1>0, <2>1, <2>2 DEF Window, InWindow, TypeInv
    <3>3. Cardinality(Window') = Cardinality(Window) + 1
      BY <1>0, <3>2, FS_AddElement
    <3>. QED
      BY <1>0, <1>1, <2>1, <3>1, <3>3 DEF Even
  <2>3. CASE pipe' = pipe /\ xmit' = [xmit EXCEPT ![ch] = "idle"]
    BY <1>0, <1>2, <2>1, <2>3 DEF InWindow, TypeInv
  <2>. QED
    BY <1>3, <2>2, <2>3 DEF XmitSend
<1>4. ASSUME NEW ch \in Channels, XmitEcho(ch) PROVE Even'
  <2>1. /\ Even /\ xmit[ch] = "sent" /\ xmit' = [xmit EXCEPT ![ch] = "echoed"]
        /\ pipe' = pipe /\ send_reply_list' = send_reply_list
    BY <1>0, <1>4 DEF XmitEcho
  <2>. QED
    BY <1>0, <1>2, <2>1 DEF InWindow, TypeInv
<1>5. ASSUME NEW ch \in Channels, XmitWait(ch) PROVE Even'
  <2>1. /\ Even /\ xmit[ch] = "echoed" /\ xmit' = [xmit EXCEPT ![ch] = "listed"]
        /\ pipe' = pipe /\ send_reply_list' = Append(send_reply_list, ch)
    BY <1>0, <1>5 DEF XmitWait
  <2>2. Len(send_reply_list') = Len(send_reply_list) + 1
    BY <1>1, <2>1, AppendFacts
  <2>3. Window' = Window \ {ch} /\ ch \in Window
    BY <1>0, <2>1 DEF Window, InWindow, TypeInv
  <2>4. Cardinality(Window') = Cardinality(Window) - 1
    BY <1>0, <2>3, FS_RemoveElement
  <2>. QED
    BY <1>0, <1>1, <2>1, <2>2, <2>4 DEF Even
<1>6. ASSUME NEW ch \in Channels, XmitStop(ch) \/ XmitSent(ch) PROVE Even'
  <2>1. /\ Even /\ pipe' = pipe /\ send_reply_list' = send_reply_list
        /\ \A d \in Channels : InWindow(d)' <=> InWindow(d)
    BY <1>0, <1>6 DEF XmitStop, XmitSent, InWindow, TypeInv
  <2>. QED
    BY <1>2, <2>1
<1>7. ASSUME ReplyUnlink PROVE Even'
  <2>1. /\ Even /\ rx = "unlink" /\ xmit' = xmit
        /\ pipe' = Tail(pipe) /\ send_reply_list' = Tail(send_reply_list)
    BY <1>0, <1>7 DEF ReplyUnlink
  <2>2. pipe # <<>> /\ send_reply_list # <<>>
    BY <1>0, <2>1 DEF Held
  <2>3. /\ Len(pipe') = Len(pipe) - 1
        /\ Len(send_reply_list') = Len(send_reply_list) - 1
    BY <1>1, <2>1, <2>2, TailFacts
  <2>4. Cardinality(Window') = Cardinality(Window)
    BY <2>1 DEF Window, InWindow
  <2>5. Len(pipe) = Len(send_reply_list) + Cardinality(Window)
    BY <2>1 DEF Even
  <2>6. Len(pipe') = Len(send_reply_list') + Cardinality(Window')
    BY <1>0, <1>1, <2>3, <2>4, <2>5
  <2>. QED
    BY <2>6 DEF Even
<1>8. ASSUME LoseTransfer PROVE Even'
  BY <1>8 DEF LoseTransfer
<1>9. ASSUME NEW ch \in Channels,
             canguru_ops_open(ch) \/ canguru_ops_close(ch) \/ close_candev(ch)
      PROVE  Even'
  <2>1. /\ Even /\ pipe' = pipe /\ send_reply_list' = send_reply_list
        /\ xmit' = xmit
    BY <1>0, <1>9 DEF canguru_ops_open, canguru_ops_close, close_candev
  <2>. QED
    BY <1>2, <2>1 DEF InWindow
<1>10. ASSUME RecvReply \/ SendCallbackEcho \/ SendCallbackWake \/ ExecuteCommand
       PROVE  Even'
  <2>1. /\ Even /\ pipe' = pipe /\ send_reply_list' = send_reply_list
        /\ xmit' = xmit
    BY <1>0, <1>10 DEF RecvReply, SendCallbackEcho, SendCallbackWake, ExecuteCommand
  <2>. QED
    BY <1>2, <2>1 DEF InWindow
<1>11. ASSUME UNCHANGED vars PROVE Even'
  <2>1. /\ Even /\ pipe' = pipe /\ send_reply_list' = send_reply_list
        /\ xmit' = xmit
    BY <1>0, <1>11 DEF vars
  <2>. QED
    BY <1>2, <2>1 DEF InWindow
<1>12. ASSUME Next PROVE Even'
  BY <1>3, <1>4, <1>5, <1>6, <1>7, <1>8, <1>9, <1>10, <1>12
  DEF Next, XmitStep, RxStep
<1>. QED
  BY <1>11, <1>12 DEF Even

(* Every frame under way has exactly one waiter, listed or about to list   *)
(* itself.                                                                 *)
THEOREM BalancesReplies == Spec => []Balance
<1>1. Init => Balance
  <2>. SUFFICES ASSUME Init PROVE Balance
    OBVIOUS
  <2>1. {ch \in Channels : InWindow(ch)} = {}
    BY DEF Init, InWindow
  <2>2. Len(pipe) = 0 /\ Len(send_reply_list) = 0
    BY DEF Init
  <2>. QED
    BY <2>1, <2>2, FS_EmptySet DEF Balance
<1>2. IInv /\ Balance /\ [Next]_vars => Balance'
  BY BalanceStep
<1>. QED
  BY <1>1, <1>2, Inductive, PTL DEF Spec

-----------------------------------------------------------------------------
(* What the device was told last, per interface.                           *)

IsUp(ch) == can_state[ch] = "ERROR_ACTIVE"

Mine(ch, i) == i \in 1 .. Len(commands) /\ commands[i].ch = ch

LastOf(ch, i) == Mine(ch, i) /\ \A j : Mine(ch, j) => j <= i

(* An interface with commands under way has a last one, which says whether *)
(* the interface is up; of the others the device knows.                    *)
Told ==
  \A ch \in Channels :
    /\ (\E i : Mine(ch, i)) => \E i : LastOf(ch, i)
    /\ ch \notin unsent =>
         /\ \A i : LastOf(ch, i) => commands[i].on = IsUp(ch)
         /\ (\A i : ~Mine(ch, i)) => enabled[ch] = IsUp(ch)

(* A command of ch is sent, or is not.                                     *)
LEMMA ToldCommand ==
  ASSUME TypeInv, Told, NEW ch \in Channels, NEW on \in BOOLEAN,
         canguru_set_can_enable(ch, on),
         can_state' = [can_state EXCEPT ![ch] = IF on THEN "ERROR_ACTIVE" ELSE "STOPPED"]
  PROVE  Told'
<1>. DEFINE Cmds == [ch : Channels, on : BOOLEAN]
<1>0. /\ \A d \in Channels \ {ch} : IsUp(d)' <=> IsUp(d)
      /\ IsUp(ch)' <=> on
      /\ commands \in Seq(Cmds) /\ Len(commands) \in Nat
  BY LenProperties DEF TypeInv, IsUp
<1>1. CASE /\ commands' = Append(commands, [ch |-> ch, on |-> on])
           /\ unsent' = unsent \ {ch} /\ enabled' = enabled
  <2>. DEFINE n == Len(commands)
  <2>1. /\ Len(commands') = n + 1
        /\ commands'[n + 1].ch = ch /\ commands'[n + 1].on = on
        /\ \A i \in 1 .. n : commands'[i] = commands[i]
    <3>. DEFINE cmd == [ch |-> ch, on |-> on]
    <3>1. cmd \in Cmds /\ cmd.ch = ch /\ cmd.on = on
      OBVIOUS
    <3>2. commands' = Append(commands, cmd)
      BY <1>1
    <3>. HIDE DEF cmd, Cmds
    <3>3. /\ Len(commands') = n + 1 /\ commands'[n + 1] = cmd
          /\ \A i \in 1 .. n : commands'[i] = commands[i]
      BY <1>0, <3>1, <3>2, AppendFacts
    <3>. QED
      BY <3>1, <3>3
  <2>. HIDE DEF Cmds
  <2>2. n \in Nat /\ 1 .. n + 1 = (1 .. n) \cup {n + 1}
    BY <1>0
  <2>3. \A d, i : Mine(d, i)' <=> Mine(d, i) \/ (i = n + 1 /\ d = ch)
    BY <2>1, <2>2 DEF Mine
  <2>4. \A d, i : Mine(d, i) => i \in 1 .. n
    BY DEF Mine
  <2>. HIDE DEF n
  <2>5. \A i : LastOf(ch, i)' <=> i = n + 1
    BY <2>2, <2>3, <2>4 DEF LastOf
  <2>6. \A d \in Channels \ {ch} : \A i : LastOf(d, i)' <=> LastOf(d, i)
    BY <2>3 DEF LastOf
  <2>7. \A d \in Channels \ {ch} : \A i : LastOf(d, i) => commands'[i] = commands[i]
    BY <2>1, <2>4 DEF LastOf
  <2>8. ASSUME NEW d \in Channels
        PROVE  /\ (\E i : Mine(d, i)') => \E i : LastOf(d, i)'
               /\ d \notin unsent' =>
                    /\ \A i : LastOf(d, i)' => commands'[i].on = IsUp(d)'
                    /\ (\A i : ~Mine(d, i)') => enabled'[d] = IsUp(d)'
    <3>1. CASE d = ch
      BY <1>0, <2>1, <2>3, <2>5, <3>1 DEF IsUp
    <3>2. CASE d # ch
      <4>1. d \in Channels \ {ch} /\ (d \notin unsent' <=> d \notin unsent)
        BY <1>1, <3>2
      <4>2. (IsUp(d)' <=> IsUp(d)) /\ enabled' = enabled
        BY <1>0, <1>1, <4>1
      <4>3. \A i : /\ Mine(d, i)' <=> Mine(d, i)
                   /\ LastOf(d, i)' <=> LastOf(d, i)
                   /\ LastOf(d, i) => commands'[i] = commands[i]
        BY <2>3, <2>6, <2>7, <3>2, <4>1
      <4>. QED
        BY <4>1, <4>2, <4>3 DEF Told, IsUp
    <3>. QED
      BY <3>1, <3>2
  <2>. QED
    BY <2>8 DEF Told
<1>2. CASE unsent' = unsent \cup {ch} /\ UNCHANGED <<commands, enabled>>
  <2>1. \A d, i : /\ Mine(d, i)' <=> Mine(d, i)
                  /\ LastOf(d, i)' <=> LastOf(d, i)
    BY <1>2 DEF Mine, LastOf
  <2>2. \A d \in Channels : d \notin unsent' => d \notin unsent /\ (IsUp(d)' <=> IsUp(d))
    BY <1>0, <1>2
  <2>. QED
    BY <1>2, <2>1, <2>2 DEF Told, IsUp
<1>. QED
  BY <1>1, <1>2 DEF canguru_set_can_enable

(* The device executes the oldest command, or it is lost.                  *)
LEMMA ToldExecute ==
  ASSUME TypeInv, Told, ExecuteCommand
  PROVE  Told'
<1>. DEFINE Cmds == [ch : Channels, on : BOOLEAN]
            cmd == Head(commands)
            n == Len(commands)
<1>1. /\ commands # <<>> /\ commands' = Tail(commands) /\ can_state' = can_state
      /\ \/ enabled' = [enabled EXCEPT ![cmd.ch] = cmd.on] /\ unsent' = unsent
         \/ unsent' = unsent \cup {cmd.ch} /\ enabled' = enabled
  BY DEF ExecuteCommand
<1>2. commands \in Seq(Cmds) /\ enabled \in [Channels -> BOOLEAN]
  BY DEF TypeInv
<1>3. cmd \in Cmds => cmd.ch \in Channels /\ cmd.on \in BOOLEAN
  OBVIOUS
<1>. HIDE DEF Cmds
<1>4. /\ cmd \in Cmds /\ cmd = commands[1] /\ n \in Nat \ {0}
      /\ Len(commands') = n - 1
      /\ \A i \in 1 .. n - 1 : commands'[i] = commands[i + 1]
  BY <1>1, <1>2, TailFacts
<1>5. cmd.ch \in Channels /\ cmd.on \in BOOLEAN
  BY <1>3, <1>4
<1>. HIDE DEF cmd, n
<1>6. ASSUME NEW d, NEW i \in Nat
      PROVE  Mine(d, i)' <=> i >= 1 /\ Mine(d, i + 1)
  BY <1>4 DEF Mine, n
<1>7. \A d, i : /\ Mine(d, i) => i \in Nat /\ i >= 1
                /\ Mine(d, i)' => i \in Nat /\ i >= 1
  BY <1>4 DEF Mine, n
<1>8. \A d : Mine(d, 1) <=> d = cmd.ch
  BY <1>4 DEF Mine, n
<1>9. ASSUME NEW d, NEW i, LastOf(d, i), i # 1
      PROVE  /\ i - 1 \in Nat /\ LastOf(d, i - 1)'
             /\ commands'[i - 1] = commands[i]
  <2>1. i \in Nat /\ i >= 2 /\ Mine(d, i)
    BY <1>7, <1>9 DEF LastOf
  <2>2. i - 1 \in Nat /\ i - 1 >= 1 /\ (i - 1) + 1 = i
    BY <2>1
  <2>3. Mine(d, i - 1)'
    BY <1>6, <2>1, <2>2
  <2>4. \A j : Mine(d, j)' => j <= i - 1
    <3>. SUFFICES ASSUME NEW j, Mine(d, j)' PROVE j <= i - 1
      OBVIOUS
    <3>1. j \in Nat /\ Mine(d, j + 1)
      BY <1>6, <1>7
    <3>2. j + 1 <= i
      BY <1>9, <3>1 DEF LastOf
    <3>. QED
      BY <2>1, <3>1, <3>2
  <2>5. commands'[i - 1] = commands[i]
    <3>1. i - 1 \in 1 .. n - 1
      BY <1>4, <2>1, <2>2 DEF Mine, n
    <3>. QED
      BY <1>4, <2>2, <3>1
  <2>. QED
    BY <2>2, <2>3, <2>4, <2>5 DEF LastOf
<1>10. ASSUME NEW d, NEW i, LastOf(d, i)'
       PROVE  i \in Nat /\ LastOf(d, i + 1) /\ commands'[i] = commands[i + 1]
  <2>1. Mine(d, i)'
    BY <1>10 DEF LastOf
  <2>2. i \in Nat /\ i >= 1 /\ Mine(d, i + 1)
    BY <1>6, <1>7, <2>1
  <2>3. \A j : Mine(d, j) => j <= i + 1
    <3>. SUFFICES ASSUME NEW j, Mine(d, j) PROVE j <= i + 1
      OBVIOUS
    <3>1. j \in Nat /\ j >= 1
      BY <1>7
    <3>2. CASE j = 1
      BY <2>2, <3>2
    <3>3. CASE j # 1
      <4>1. j - 1 \in Nat /\ j - 1 >= 1 /\ (j - 1) + 1 = j
        BY <3>1, <3>3
      <4>2. Mine(d, j - 1)'
        BY <1>6, <4>1
      <4>3. j - 1 <= i
        BY <1>10, <4>2 DEF LastOf
      <4>. QED
        BY <2>2, <3>1, <4>3
    <3>. QED
      BY <3>2, <3>3
  <2>4. commands'[i] = commands[i + 1]
    <3>1. i \in 1 .. n - 1
      BY <1>4, <2>2 DEF Mine, n
    <3>. QED
      BY <1>4, <3>1
  <2>. QED
    BY <2>2, <2>3, <2>4 DEF LastOf
<1>11. ASSUME NEW d \in Channels
       PROVE  /\ (\E i : Mine(d, i)') => \E i : LastOf(d, i)'
              /\ d \notin unsent' =>
                   /\ \A i : LastOf(d, i)' => commands'[i].on = IsUp(d)'
                   /\ (\A i : ~Mine(d, i)') => enabled'[d] = IsUp(d)'
  <2>1. /\ (\E i : Mine(d, i)) => \E i : LastOf(d, i)
        /\ d \notin unsent =>
             /\ \A i : LastOf(d, i) => commands[i].on = IsUp(d)
             /\ (\A i : ~Mine(d, i)) => enabled[d] = IsUp(d)
    BY DEF Told
  <2>2. IsUp(d)' <=> IsUp(d)
    BY <1>1 DEF IsUp
  <2>3. (\E i : Mine(d, i)') => \E i : LastOf(d, i)'
    <3>. SUFFICES ASSUME NEW i, Mine(d, i)' PROVE \E k : LastOf(d, k)'
      OBVIOUS
    <3>1. i \in Nat /\ i >= 1 /\ Mine(d, i + 1)
      BY <1>6, <1>7
    <3>2. PICK k : LastOf(d, k)
      BY <2>1, <3>1
    <3>3. k # 1
      BY <3>1, <3>2 DEF LastOf
    <3>. QED
      BY <1>9, <3>2, <3>3
  <2>4. ASSUME d \notin unsent', NEW i, LastOf(d, i)'
        PROVE  commands'[i].on = IsUp(d)'
    <3>1. LastOf(d, i + 1) /\ commands'[i] = commands[i + 1]
      BY <1>10, <2>4
    <3>2. d \notin unsent
      BY <1>1, <2>4
    <3>3. commands[i + 1].on = IsUp(d)
      BY <2>1, <3>1, <3>2
    <3>. QED
      BY <1>1, <3>1, <3>3 DEF IsUp
  <2>5. ASSUME d \notin unsent', \A i : ~Mine(d, i)'
        PROVE  enabled'[d] = IsUp(d)'
    <3>1. d \notin unsent
      BY <1>1, <2>5
    <3>2. \A i : Mine(d, i) => i = 1
      <4>. SUFFICES ASSUME NEW i, Mine(d, i), i # 1 PROVE FALSE
        OBVIOUS
      <4>1. i - 1 \in Nat /\ i - 1 >= 1 /\ (i - 1) + 1 = i
        BY <1>7
      <4>. QED
        BY <1>6, <2>5, <4>1
    <3>3. CASE d = cmd.ch
      <4>1. LastOf(d, 1)
        BY <1>8, <3>2, <3>3 DEF LastOf
      <4>2. commands[1].on = IsUp(d)
        BY <2>1, <3>1, <4>1
      <4>3. enabled' = [enabled EXCEPT ![cmd.ch] = cmd.on]
        BY <1>1, <2>5, <3>3
      <4>4. enabled'[d] = commands[1].on
        BY <1>2, <1>4, <3>3, <4>3
      <4>. QED
        BY <1>1, <4>2, <4>4 DEF IsUp
    <3>4. CASE d # cmd.ch
      <4>1. \A i : ~Mine(d, i)
        BY <1>8, <3>2, <3>4
      <4>2. enabled[d] = IsUp(d)
        BY <2>1, <3>1, <4>1
      <4>3. enabled'[d] = enabled[d]
        BY <1>1, <1>2, <3>4
      <4>. QED
        BY <1>1, <4>2, <4>3 DEF IsUp
    <3>. QED
      BY <3>3, <3>4
  <2>. QED
    BY <2>3, <2>4, <2>5
<1>. QED
  BY <1>11 DEF Told

(* Every step keeps what the last command of each interface says.          *)
LEMMA ToldStep ==
  ASSUME IInv, Told, [Next]_vars
  PROVE  Told'
<1>0. TypeInv
  BY DEF IInv
<1>1. ASSUME UNCHANGED <<commands, unsent, enabled, can_state>> PROVE Told'
  BY <1>1 DEF Told, Mine, LastOf, IsUp
<1>2. ASSUME NEW ch \in Channels, canguru_ops_open(ch) PROVE Told'
  <2>1. /\ canguru_set_can_enable(ch, TRUE)
        /\ can_state' = [can_state EXCEPT ![ch] = IF TRUE THEN "ERROR_ACTIVE"
                                                  ELSE "STOPPED"]
    BY <1>2 DEF canguru_ops_open
  <2>. QED
    BY <1>0, <2>1, ToldCommand
<1>3. ASSUME NEW ch \in Channels, canguru_ops_close(ch) PROVE Told'
  <2>1. /\ canguru_set_can_enable(ch, FALSE)
        /\ can_state' = [can_state EXCEPT ![ch] = IF FALSE THEN "ERROR_ACTIVE"
                                                  ELSE "STOPPED"]
    BY <1>3 DEF canguru_ops_close
  <2>. QED
    BY <1>0, <2>1, ToldCommand
<1>4. ASSUME NEW ch \in Channels, close_candev(ch) \/ XmitStop(ch) \/ XmitStep(ch)
      PROVE  UNCHANGED <<commands, unsent, enabled, can_state>>
  BY <1>4 DEF close_candev, XmitStop, XmitStep, XmitSend, XmitEcho, XmitWait, XmitSent
<1>5. ASSUME RecvReply \/ RxStep \/ LoseTransfer
      PROVE  UNCHANGED <<commands, unsent, enabled, can_state>>
  BY <1>5 DEF RecvReply, RxStep, SendCallbackEcho, SendCallbackWake, ReplyUnlink,
              LoseTransfer
<1>6. ASSUME UNCHANGED vars PROVE UNCHANGED <<commands, unsent, enabled, can_state>>
  BY <1>6 DEF vars
<1>. QED
  BY <1>0, <1>1, <1>2, <1>3, <1>4, <1>5, <1>6, ToldExecute DEF Next

(* Once the commands under way are executed the device transmits and       *)
(* receives for exactly the interfaces that are up, but for those whose    *)
(* last command was lost.                                                  *)
THEOREM AgreesOnEnable == Spec => []EnableAgrees
<1>1. Init => Told
  <2>. SUFFICES ASSUME Init PROVE Told
    OBVIOUS
  <2>1. \A ch, i : ~Mine(ch, i)
    BY DEF Init, Mine
  <2>2. \A ch \in Channels : enabled[ch] = FALSE /\ can_state[ch] = "STOPPED"
    BY DEF Init
  <2>. QED
    BY <2>1, <2>2 DEF Told, LastOf, IsUp
<1>2. IInv /\ Told /\ [Next]_vars => Told'
  BY ToldStep
<1>3. Told => EnableAgrees
  <2>. SUFFICES ASSUME Told, NEW ch \in Channels \ unsent
                PROVE  LET mine == {i \in 1 .. Len(commands) : commands[i].ch = ch}
                           told == IF mine = {} THEN enabled[ch]
                                   ELSE commands[CHOOSE i \in mine :
                                                   \A j \in mine : j <= i].on
                       IN  told = (can_state[ch] = "ERROR_ACTIVE")
    BY DEF EnableAgrees
  <2>. DEFINE mine == {i \in 1 .. Len(commands) : commands[i].ch = ch}
              Latest(i) == \A j \in mine : j <= i
  <2>1. \A i : i \in mine <=> Mine(ch, i)
    BY DEF Mine
  <2>2. CASE mine = {}
    BY <2>1, <2>2 DEF Told, IsUp
  <2>3. CASE mine # {}
    <3>1. \E i \in mine : Latest(i)
      BY <2>1, <2>3 DEF Told, LastOf
    <3>2. PICK k : k = CHOOSE i \in mine : Latest(i)
      OBVIOUS
    <3>3. k \in mine /\ Latest(k)
      BY <3>1, <3>2
    <3>4. LastOf(ch, k)
      BY <2>1, <3>3 DEF LastOf
    <3>5. commands[k].on = (can_state[ch] = "ERROR_ACTIVE")
      BY <3>4 DEF Told, IsUp
    <3>. QED
      BY <2>3, <3>2, <3>5
  <2>. QED
    BY <2>2, <2>3
<1>. QED
  BY <1>1, <1>2, <1>3, Inductive, PTL DEF Spec

-----------------------------------------------------------------------------
(* The service: the transmit path of CanguruNet implements TxService.      *)

(* The frame is between the device and the echo slot, or in the slot.      *)
Carries(ch) == echo_skb[ch] \/ xmit[ch] = "sent"

(* Nothing of the other interfaces changes.                                *)
Only(ch) ==
  \A c \in Channels \ {ch} : /\ LinkOf(c)' = LinkOf(c)
                             /\ frames'[c] = frames[c]
                             /\ Counted(c)' = Counted(c)

(* Its frames and reports are the same.                                    *)
NoFrame(ch) == frames'[ch] = frames[ch] /\ Counted(ch)' = Counted(ch)

-----------------------------------------------------------------------------
(* The actions of the service, by what they see.                           *)

(* A step of one interface changes the mapped state at that place.         *)
LEMMA Shape ==
  ASSUME TypeInv, TypeInv', NEW ch \in Channels, Only(ch), NEW l, LinkOf(ch)' = l
  PROVE  /\ [c \in Channels |-> LinkOf(c)]' =
              [[c \in Channels |-> LinkOf(c)] EXCEPT ![ch] = l]
         /\ frames'[ch] = frames[ch] => frames' = frames
         /\ frames'[ch] = frames[ch] + 1 => frames' = [frames EXCEPT ![ch] = @ + 1]
         /\ Counted(ch)' = Counted(ch) =>
              [c \in Channels |-> Counted(c)]' = [c \in Channels |-> Counted(c)]
         /\ Counted(ch)' = Counted(ch) + 1 =>
              [c \in Channels |-> Counted(c)]' =
                [[c \in Channels |-> Counted(c)] EXCEPT ![ch] = @ + 1]
<1>1. frames \in [Channels -> Nat] /\ frames' \in [Channels -> Nat]
  BY DEF TypeInv
<1>2. /\ frames'[ch] = frames[ch] => frames' = frames
      /\ frames'[ch] = frames[ch] + 1 => frames' = [frames EXCEPT ![ch] = @ + 1]
  BY <1>1 DEF Only
<1>3. [c \in Channels |-> LinkOf(c)]' =
        [[c \in Channels |-> LinkOf(c)] EXCEPT ![ch] = l]
  BY DEF Only
<1>4. /\ Counted(ch)' = Counted(ch) =>
           [c \in Channels |-> Counted(c)]' = [c \in Channels |-> Counted(c)]
      /\ Counted(ch)' = Counted(ch) + 1 =>
           [c \in Channels |-> Counted(c)]' =
             [[c \in Channels |-> Counted(c)] EXCEPT ![ch] = @ + 1]
  BY DEF Only
<1>. QED
  BY <1>2, <1>3, <1>4

(* What the service does not see is a stutter.                             *)
LEMMA Stutters ==
  ASSUME TypeInv, TypeInv', NEW ch \in Channels, Only(ch), NoFrame(ch),
         LinkOf(ch)' = LinkOf(ch), abandoned' = abandoned
  PROVE  UNCHANGED Service!svars
<1>1. \A c \in Channels : LinkOf(c)' = LinkOf(c) /\ Counted(c)' = Counted(c)
  BY DEF Only, NoFrame
<1>2. frames' = frames
  BY Shape DEF NoFrame
<1>. QED
  BY <1>1, <1>2 DEF Service!svars

(* The service claims nothing of an interface it has let go.               *)
LEMMA Outlawed ==
  ASSUME NEW ch \in abandoned, ch \in Channels, Only(ch), abandoned' = abandoned
  PROVE  Service!SNext
<1>1. Service!Outlaw(ch)
  BY DEF Service!Outlaw, Only
<1>. QED
  BY <1>1 DEF Service!SNext

(* The interface comes up: SOpen.                                          *)
LEMMA Opens ==
  ASSUME TypeInv, TypeInv', NEW ch \in Channels, Only(ch), NoFrame(ch),
         abandoned' = abandoned, LinkOf(ch) = "down", LinkOf(ch)' = "ready"
  PROVE  Service!SNext
<1>1. Service!SOpen(ch)
  BY Shape DEF Service!SOpen, Service!Goes, NoFrame
<1>. QED
  BY <1>1 DEF Service!SNext

(* It goes down: SClose.                                                   *)
LEMMA Closes ==
  ASSUME TypeInv, TypeInv', NEW ch \in Channels, Only(ch), NoFrame(ch),
         abandoned' = abandoned, LinkOf(ch) \in {"ready", "jammed"},
         LinkOf(ch)' = "down"
  PROVE  Service!SNext
<1>1. Service!SClose(ch)
  BY Shape DEF Service!SClose, Service!Goes, NoFrame
<1>. QED
  BY <1>1 DEF Service!SNext

(* The device has taken a frame: Take.                                     *)
LEMMA Takes ==
  ASSUME TypeInv, TypeInv', NEW ch \in Channels, Only(ch),
         frames'[ch] = frames[ch] + 1, Counted(ch)' = Counted(ch),
         abandoned' = abandoned, LinkOf(ch) = "ready", LinkOf(ch)' = "busy"
  PROVE  Service!SNext
<1>1. Service!Take(ch)
  BY Shape DEF Service!Take, Service!Goes
<1>. QED
  BY <1>1 DEF Service!SNext

(* The frame is reported, once: Report.                                    *)
LEMMA Reports ==
  ASSUME TypeInv, TypeInv', NEW ch \in Channels, Only(ch),
         frames'[ch] = frames[ch], Counted(ch)' = Counted(ch) + 1,
         abandoned' \in {abandoned, abandoned \cup {ch}},
         LinkOf(ch) = "busy", LinkOf(ch)' \in {"ready", "down"}
  PROVE  Service!SNext
<1>1. Service!Report(ch)
  BY Shape DEF Service!Report, Service!Goes
<1>. QED
  BY <1>1 DEF Service!SNext

(* The queue stays stopped for ever: Jam.                                  *)
LEMMA Jams ==
  ASSUME TypeInv, TypeInv', NEW ch \in Channels, Only(ch), NoFrame(ch),
         abandoned' = abandoned, LinkOf(ch) = "busy", LinkOf(ch)' = "jammed"
  PROVE  Service!SNext
<1>1. Service!Jam(ch)
  BY Shape DEF Service!Jam, Service!Goes, NoFrame
<1>. QED
  BY <1>1 DEF Service!SNext

(* The interface is let go of: Release.                                    *)
LEMMA Releases ==
  ASSUME TypeInv, TypeInv', NEW ch \in Channels, Only(ch), NoFrame(ch),
         abandoned' = abandoned \cup {ch}, LinkOf(ch)' = LinkOf(ch)
  PROVE  Service!SNext
<1>1. \A c \in Channels : LinkOf(c)' = LinkOf(c) /\ Counted(c)' = Counted(c)
  BY DEF Only, NoFrame
<1>2. frames' = frames
  BY Shape DEF NoFrame
<1>3. Service!Release(ch)
  BY <1>1, <1>2 DEF Service!Release
<1>. QED
  BY <1>3 DEF Service!SNext
-----------------------------------------------------------------------------
(* The state of the driver, as the service sees it.                        *)

(* The cases of LinkOf.                                                    *)
LEMMA LinkCases ==
  ASSUME NEW ch
  PROVE  /\ Carries(ch) => LinkOf(ch) = "busy"
         /\ ~Carries(ch) /\ can_state[ch] = "STOPPED" => LinkOf(ch) = "down"
         /\ ~Carries(ch) /\ can_state[ch] # "STOPPED" =>
              LinkOf(ch) = IF drv_xoff[ch] /\ xmit[ch] = "idle" /\ ~Taken(ch)
                           THEN "jammed" ELSE "ready"
<1>1. CASE Carries(ch)
  BY <1>1 DEF LinkOf, Carries
<1>2. CASE ~Carries(ch) /\ can_state[ch] = "STOPPED"
  BY <1>2 DEF LinkOf, Carries
<1>3. CASE ~Carries(ch) /\ can_state[ch] # "STOPPED"
  BY <1>3 DEF LinkOf, Carries, Taken
<1>. QED
  BY <1>1, <1>2, <1>3

(* The same after the step.                                                *)
LEMMA LinkCasesNext ==
  ASSUME NEW ch
  PROVE  /\ Carries(ch)' => LinkOf(ch)' = "busy"
         /\ ~Carries(ch)' /\ can_state'[ch] = "STOPPED" => LinkOf(ch)' = "down"
         /\ ~Carries(ch)' /\ can_state'[ch] # "STOPPED" =>
              LinkOf(ch)' = IF drv_xoff'[ch] /\ xmit'[ch] = "idle" /\ ~Taken(ch)'
                            THEN "jammed" ELSE "ready"
<1>1. CASE Carries(ch)'
  BY <1>1 DEF LinkOf, Carries
<1>2. CASE ~Carries(ch)' /\ can_state'[ch] = "STOPPED"
  BY <1>2 DEF LinkOf, Carries
<1>3. CASE ~Carries(ch)' /\ can_state'[ch] # "STOPPED"
  BY <1>3 DEF LinkOf, Carries, Taken
<1>. QED
  BY <1>1, <1>2, <1>3

(* A step of ch leaves the others alone.                                   *)
Alone(ch) ==
  \A c \in Channels \ {ch} :
    /\ can_state'[c] = can_state[c] /\ drv_xoff'[c] = drv_xoff[c]
    /\ echo_skb'[c] = echo_skb[c] /\ xmit'[c] = xmit[c]
    /\ frames'[c] = frames[c] /\ stats'[c] = stats[c]
    /\ Taken(c)' <=> Taken(c)

(* A step of one context leaves the other interfaces alone.                *)
LEMMA OnlyOne ==
  ASSUME NEW ch, Alone(ch)
  PROVE  Only(ch)
<1>. SUFFICES ASSUME NEW c \in Channels \ {ch}
              PROVE  /\ LinkOf(c)' = LinkOf(c)
                     /\ frames'[c] = frames[c]
                     /\ Counted(c)' = Counted(c)
  BY DEF Only
<1>1. /\ can_state'[c] = can_state[c] /\ drv_xoff'[c] = drv_xoff[c]
      /\ echo_skb'[c] = echo_skb[c] /\ xmit'[c] = xmit[c]
      /\ frames'[c] = frames[c] /\ stats'[c] = stats[c]
      /\ Taken(c)' <=> Taken(c)
  BY DEF Alone
<1>2. Carries(c)' <=> Carries(c)
  BY <1>1 DEF Carries
<1>3. LinkOf(c)' = LinkOf(c)
  BY <1>1, <1>2, LinkCases, LinkCasesNext
<1>. QED
  BY <1>1, <1>3 DEF Counted

(* What is known of an interface that was never abandoned.                 *)
LEMMA TidyFacts ==
  ASSUME IInv, kernel = "ok", NEW ch \in Channels \ abandoned
  PROVE  /\ xmit[ch] # "idle" => can_state[ch] = "ERROR_ACTIVE"
         /\ xmit[ch] \in {"stopped", "sent", "echoed"} => drv_xoff[ch] /\ ~Waiting(ch)
         /\ xmit[ch] = "listed" => Waiting(ch)
         /\ echo_skb[ch] <=> xmit[ch] = "echoed" \/ (Waiting(ch) /\ ~Taken(ch))
         /\ can_state[ch] = "STOPPED" /\ ch \notin closing => ~Waiting(ch)
         /\ Taken(ch) => Waiting(ch) /\ drv_xoff[ch]
<1>1. Tidy(ch) /\ UpWhileSending(ch)
  BY DEF IInv, Ordered
<1>2. Taken(ch) => Listed(ch) /\ Waiting(ch)
  <2>. SUFFICES ASSUME Taken(ch) PROVE Listed(ch) /\ Waiting(ch)
    OBVIOUS
  <2>1. send_reply_list # <<>> /\ send_reply_list \in Seq(Channels)
    BY DEF Taken, IInv, Held, TypeInv
  <2>2. Listed(Reply)
    BY <2>1, TailFacts DEF Listed, Reply
  <2>. QED
    BY <2>2 DEF Taken, Waiting
<1>. QED
  BY <1>1, <1>2 DEF Tidy, UpWhileSending, StoppedWhileBusy, EchoHeld,
                    DownIsUnlisted, Waiting

-----------------------------------------------------------------------------
(* The steps of the driver.                                                *)

USE DEF netVars, rxVars, cmdVars, pairVars, ghosts

(* ndo_open is a step of the service.                                      *)
LEMMA OpenServes ==
  ASSUME IInv, TypeInv', NEW ch \in Channels, canguru_ops_open(ch)
  PROVE  Service!SNext
<1>1. /\ kernel = "ok" /\ closing = {} /\ can_state[ch] = "STOPPED"
      /\ can_state' = [can_state EXCEPT ![ch] = "ERROR_ACTIVE"]
      /\ drv_xoff' = [drv_xoff EXCEPT ![ch] = FALSE]
      /\ UNCHANGED <<echo_skb, frames, stats, xmit, send_reply_list, rx, abandoned>>
      /\ TypeInv
  BY DEF canguru_ops_open, IInv
<1>2. \A c : Taken(c)' <=> Taken(c)
  BY <1>1 DEF Taken, Reply
<1>3. Only(ch)
  BY <1>1, <1>2, OnlyOne DEF Alone, TypeInv
<1>4. NoFrame(ch)
  BY <1>1 DEF NoFrame, Counted
<1>5. CASE ch \in abandoned
  BY <1>1, <1>3, <1>5, Outlawed
<1>6. CASE ch \notin abandoned
  <2>1. xmit[ch] = "idle" /\ ~Waiting(ch) /\ ~echo_skb[ch]
    BY <1>1, <1>6, TidyFacts
  <2>2. ~Carries(ch) /\ ~Carries(ch)'
    BY <1>1, <2>1 DEF Carries
  <2>3. LinkOf(ch) = "down"
    BY <1>1, <2>2, LinkCases
  <2>4. can_state'[ch] # "STOPPED" /\ ~drv_xoff'[ch]
    BY <1>1 DEF TypeInv
  <2>5. LinkOf(ch)' = "ready"
    BY <2>2, <2>4, LinkCasesNext
  <2>. QED
    BY <1>1, <1>3, <1>4, <2>3, <2>5, Opens
<1>. QED
  BY <1>5, <1>6

(* An interface is taken down while it is ready or jammed; one that        *)
(* carries a frame stays busy until close_candev.                          *)
LEMMA CloseServes ==
  ASSUME IInv, TypeInv', NEW ch \in Channels, canguru_ops_close(ch)
  PROVE  Service!SNext \/ UNCHANGED Service!svars
<1>1. /\ kernel = "ok" /\ can_state[ch] = "ERROR_ACTIVE" /\ xmit[ch] = "idle"
      /\ can_state' = [can_state EXCEPT ![ch] = "STOPPED"]
      /\ drv_xoff' = [drv_xoff EXCEPT ![ch] = TRUE]
      /\ UNCHANGED <<echo_skb, frames, stats, xmit, send_reply_list, rx, abandoned>>
      /\ TypeInv
  BY DEF canguru_ops_close, IInv
<1>2. \A c : Taken(c)' <=> Taken(c)
  BY <1>1 DEF Taken, Reply
<1>3. Only(ch)
  BY <1>1, <1>2, OnlyOne DEF Alone, TypeInv
<1>4. NoFrame(ch)
  BY <1>1 DEF NoFrame, Counted
<1>5. Carries(ch)' <=> Carries(ch)
  BY <1>1 DEF Carries
<1>6. CASE Carries(ch)
  BY <1>1, <1>3, <1>4, <1>5, <1>6, LinkCases, LinkCasesNext, Stutters
<1>7. CASE ~Carries(ch)
  <2>1. LinkOf(ch) \in {"ready", "jammed"}
    BY <1>1, <1>7, LinkCases
  <2>2. can_state'[ch] = "STOPPED"
    BY <1>1 DEF TypeInv
  <2>3. LinkOf(ch)' = "down"
    BY <1>5, <1>7, <2>2, LinkCasesNext
  <2>. QED
    BY <1>1, <1>3, <1>4, <2>1, <2>3, Closes
<1>. QED
  BY <1>6, <1>7

(* close_candev reports the frame in the echo slot as dropped.             *)
LEMMA FlushServes ==
  ASSUME IInv, TypeInv', NEW ch \in Channels, close_candev(ch)
  PROVE  Service!SNext \/ UNCHANGED Service!svars
<1>1. /\ kernel = "ok" /\ ch \in closing
      /\ echo_skb' = [echo_skb EXCEPT ![ch] = FALSE]
      /\ stats' = IF echo_skb[ch]
                  THEN [stats EXCEPT ![ch]["tx_dropped"] = @ + 1] ELSE stats
      /\ abandoned' \in {abandoned, abandoned \cup {ch}}
      /\ UNCHANGED <<can_state, drv_xoff, frames, xmit, send_reply_list, rx>>
      /\ TypeInv
  BY DEF close_candev, IInv
<1>2. \A c : Taken(c)' <=> Taken(c)
  BY <1>1 DEF Taken, Reply
<1>3. Only(ch)
  BY <1>1, <1>2, OnlyOne DEF Alone, TypeInv
<1>4. can_state[ch] = "STOPPED" /\ xmit[ch] = "idle"
  BY <1>1 DEF IInv, Ordered, UpWhileSending, TypeInv
<1>5. ~Carries(ch)' /\ can_state'[ch] = "STOPPED"
  BY <1>1, <1>4 DEF Carries, TypeInv
<1>6. LinkOf(ch)' = "down"
  BY <1>5, LinkCasesNext
<1>7. CASE echo_skb[ch]
  <2>1. LinkOf(ch) = "busy"
    BY <1>7, LinkCases DEF Carries
  <2>2. Counted(ch)' = Counted(ch) + 1
    <3>1. stats[ch] \in [Counters -> Nat]
      BY DEF IInv, TypeInv
    <3>2. stats'[ch] = [stats[ch] EXCEPT !["tx_dropped"] = @ + 1]
      BY <1>1, <1>7 DEF TypeInv
    <3>. QED
      BY <3>1, <3>2 DEF Counted, Counters
  <2>. QED
    BY <1>1, <1>3, <1>6, <2>1, <2>2, Reports
<1>8. CASE ~echo_skb[ch]
  <2>1. LinkOf(ch) = "down"
    BY <1>4, <1>8, LinkCases DEF Carries
  <2>2. NoFrame(ch)
    BY <1>1, <1>8 DEF NoFrame, Counted
  <2>. QED
    BY <1>1, <1>3, <1>6, <2>1, <2>2, Stutters, Releases
<1>. QED
  BY <1>7, <1>8

(* The service does not see start_xmit begin, unless it lets go of ch.     *)
LEMMA StopServes ==
  ASSUME IInv, TypeInv', NEW ch \in Channels, XmitStop(ch)
  PROVE  Service!SNext \/ UNCHANGED Service!svars
<1>1. /\ kernel = "ok" /\ can_state[ch] = "ERROR_ACTIVE" /\ xmit[ch] = "idle"
      /\ ~drv_xoff[ch]
      /\ drv_xoff' = [drv_xoff EXCEPT ![ch] = TRUE]
      /\ xmit' = [xmit EXCEPT ![ch] = "stopped"]
      /\ UNCHANGED <<can_state, echo_skb, frames, stats, send_reply_list, rx, abandoned>>
      /\ TypeInv
  BY DEF XmitStop, IInv
<1>2. \A c : Taken(c)' <=> Taken(c)
  BY <1>1 DEF Taken, Reply
<1>3. Only(ch)
  BY <1>1, <1>2, OnlyOne DEF Alone, TypeInv
<1>4. NoFrame(ch)
  BY <1>1 DEF NoFrame, Counted
<1>5. xmit'[ch] = "stopped" /\ can_state'[ch] = "ERROR_ACTIVE"
  BY <1>1 DEF TypeInv
<1>6. Carries(ch)' <=> Carries(ch)
  BY <1>1, <1>5 DEF Carries
<1>7. LinkOf(ch)' = LinkOf(ch)
  BY <1>1, <1>5, <1>6, LinkCases, LinkCasesNext
<1>. QED
  BY <1>1, <1>3, <1>4, <1>7, Stutters

(* The device has the frame, or start_xmit gives up.                       *)
LEMMA SendServes ==
  ASSUME IInv, TypeInv', NEW ch \in Channels, XmitSend(ch)
  PROVE  Service!SNext \/ UNCHANGED Service!svars
<1>1. /\ kernel = "ok" /\ xmit[ch] = "stopped"
      /\ \/ /\ frames' = [frames EXCEPT ![ch] = @ + 1]
            /\ xmit' = [xmit EXCEPT ![ch] = "sent"] /\ UNCHANGED drv_xoff
         \/ /\ drv_xoff' = [drv_xoff EXCEPT ![ch] = FALSE]
            /\ xmit' = [xmit EXCEPT ![ch] = "idle"] /\ UNCHANGED frames
      /\ UNCHANGED <<can_state, echo_skb, stats, send_reply_list, rx, abandoned>>
      /\ TypeInv
  BY DEF XmitSend, IInv
<1>2. \A c : Taken(c)' <=> Taken(c)
  BY <1>1 DEF Taken, Reply
<1>3. Only(ch)
  BY <1>1, <1>2, OnlyOne DEF Alone, TypeInv
<1>4. CASE ch \in abandoned
  BY <1>1, <1>3, <1>4, Outlawed
<1>5. CASE ch \notin abandoned
  <2>1. can_state[ch] = "ERROR_ACTIVE" /\ ~echo_skb[ch]
    BY <1>1, <1>5, TidyFacts
  <2>2. LinkOf(ch) = "ready"
    BY <1>1, <2>1, LinkCases DEF Carries
  <2>3. Counted(ch)' = Counted(ch)
    BY <1>1 DEF Counted
  <2>4. CASE /\ frames' = [frames EXCEPT ![ch] = @ + 1]
             /\ xmit' = [xmit EXCEPT ![ch] = "sent"]
    <3>1. frames'[ch] = frames[ch] + 1 /\ xmit'[ch] = "sent"
      BY <1>1, <2>4 DEF TypeInv
    <3>2. LinkOf(ch)' = "busy"
      BY <3>1, LinkCasesNext DEF Carries
    <3>. QED
      BY <1>1, <1>3, <2>2, <2>3, <3>1, <3>2, Takes
  <2>5. CASE /\ drv_xoff' = [drv_xoff EXCEPT ![ch] = FALSE]
             /\ xmit' = [xmit EXCEPT ![ch] = "idle"] /\ UNCHANGED frames
    <3>1. ~drv_xoff'[ch] /\ xmit'[ch] = "idle"
      BY <1>1, <2>5 DEF TypeInv
    <3>2. ~Carries(ch)' /\ can_state'[ch] = "ERROR_ACTIVE"
      BY <1>1, <2>1, <3>1 DEF Carries
    <3>3. LinkOf(ch)' = "ready"
      BY <3>1, <3>2, LinkCasesNext
    <3>. QED
      BY <1>1, <1>3, <2>2, <2>3, <2>5, <3>3, Stutters DEF NoFrame
  <2>. QED
    BY <1>1, <2>4, <2>5
<1>. QED
  BY <1>4, <1>5

(* Without an echo skb nobody reports the frame: the queue stays stopped.  *)
LEMMA EchoServes ==
  ASSUME IInv, TypeInv', NEW ch \in Channels, XmitEcho(ch)
  PROVE  Service!SNext \/ UNCHANGED Service!svars
<1>1. /\ kernel = "ok" /\ xmit[ch] = "sent"
      /\ \/ /\ echo_skb' = [echo_skb EXCEPT ![ch] = TRUE]
            /\ xmit' = [xmit EXCEPT ![ch] = "echoed"]
         \/ xmit' = [xmit EXCEPT ![ch] = "idle"] /\ UNCHANGED echo_skb
      /\ UNCHANGED <<can_state, drv_xoff, frames, stats, send_reply_list, rx, abandoned>>
      /\ TypeInv
  BY DEF XmitEcho, IInv
<1>2. \A c : Taken(c)' <=> Taken(c)
  BY <1>1 DEF Taken, Reply
<1>3. Only(ch)
  BY <1>1, <1>2, OnlyOne DEF Alone, TypeInv
<1>4. NoFrame(ch)
  BY <1>1 DEF NoFrame, Counted
<1>5. LinkOf(ch) = "busy"
  BY <1>1, LinkCases DEF Carries
<1>6. CASE ch \in abandoned
  BY <1>1, <1>3, <1>6, Outlawed
<1>7. CASE ch \notin abandoned
  <2>1. /\ can_state[ch] = "ERROR_ACTIVE" /\ drv_xoff[ch]
        /\ ~echo_skb[ch] /\ ~Taken(ch)
    BY <1>1, <1>7, TidyFacts
  <2>2. CASE echo_skb' = [echo_skb EXCEPT ![ch] = TRUE]
    <3>1. Carries(ch)'
      BY <1>1, <2>2 DEF Carries, TypeInv
    <3>. QED
      BY <1>1, <1>3, <1>4, <1>5, <3>1, LinkCasesNext, Stutters
  <2>3. CASE xmit' = [xmit EXCEPT ![ch] = "idle"] /\ UNCHANGED echo_skb
    <3>1. xmit'[ch] = "idle" /\ ~Carries(ch)' /\ ~Taken(ch)'
      BY <1>1, <1>2, <2>1, <2>3 DEF Carries, TypeInv
    <3>2. LinkOf(ch)' = "jammed"
      BY <1>1, <2>1, <3>1, LinkCasesNext
    <3>. QED
      BY <1>1, <1>3, <1>4, <1>5, <3>2, Jams
  <2>. QED
    BY <1>1, <2>2, <2>3
<1>. QED
  BY <1>6, <1>7

(* The entry is appended, or the list is in a knot.                        *)
LEMMA WaitServes ==
  ASSUME IInv, TypeInv', NEW ch \in Channels, XmitWait(ch)
  PROVE  Service!SNext \/ UNCHANGED Service!svars
<1>1. /\ kernel = "ok" /\ xmit[ch] = "echoed"
      /\ \/ /\ send_reply_list' = Append(send_reply_list, ch)
            /\ xmit' = [xmit EXCEPT ![ch] = "listed"]
         \/ UNCHANGED <<send_reply_list, xmit>>
      /\ UNCHANGED <<can_state, drv_xoff, echo_skb, frames, stats, rx, abandoned>>
      /\ TypeInv
  BY DEF XmitWait, IInv
<1>2. \A c : Taken(c)' <=> Taken(c)
  <2>1. rx = "complete" => send_reply_list # <<>>
    BY DEF IInv, Held
  <2>2. send_reply_list # <<>> => Reply' = Reply
    <3>1. CASE send_reply_list' = Append(send_reply_list, ch)
      <4>. SUFFICES ASSUME send_reply_list # <<>> PROVE Reply' = Reply
        OBVIOUS
      <4>1. /\ send_reply_list \in Seq(Channels) /\ Len(send_reply_list) \in Nat \ {0}
            /\ Reply = send_reply_list[1]
        BY <1>1, TailFacts DEF TypeInv, Reply
      <4>2. /\ send_reply_list' \in Seq(Channels) /\ send_reply_list' # <<>>
            /\ send_reply_list'[1] = send_reply_list[1]
        BY <3>1, <4>1, AppendFacts
      <4>3. Reply' = send_reply_list'[1]
        BY <4>2, TailFacts DEF Reply
      <4>. QED
        BY <4>1, <4>2, <4>3
    <3>2. CASE send_reply_list' = send_reply_list
      BY <3>2 DEF Reply
    <3>. QED
      BY <1>1, <3>1, <3>2
  <2>. QED
    BY <1>1, <2>1, <2>2 DEF Taken
<1>3. Only(ch)
  BY <1>1, <1>2, OnlyOne DEF Alone, TypeInv
<1>4. NoFrame(ch)
  BY <1>1 DEF NoFrame, Counted
<1>5. CASE ch \in abandoned
  BY <1>1, <1>3, <1>5, Outlawed
<1>6. CASE ch \notin abandoned
  <2>1. echo_skb[ch]
    BY <1>1, <1>6, TidyFacts
  <2>2. Carries(ch) /\ Carries(ch)'
    BY <1>1, <2>1 DEF Carries
  <2>. QED
    BY <1>1, <1>3, <1>4, <2>2, LinkCases, LinkCasesNext, Stutters
<1>. QED
  BY <1>5, <1>6

(* Nor does it see start_xmit end.                                         *)
LEMMA SentServes ==
  ASSUME IInv, TypeInv', NEW ch \in Channels, XmitSent(ch)
  PROVE  Service!SNext \/ UNCHANGED Service!svars
<1>1. /\ kernel = "ok" /\ xmit[ch] = "listed"
      /\ xmit' = [xmit EXCEPT ![ch] = "idle"]
      /\ UNCHANGED <<can_state, drv_xoff, echo_skb, frames, stats,
                     send_reply_list, rx, abandoned>>
      /\ TypeInv
  BY DEF XmitSent, IInv
<1>2. \A c : Taken(c)' <=> Taken(c)
  BY <1>1 DEF Taken, Reply
<1>3. Only(ch)
  BY <1>1, <1>2, OnlyOne DEF Alone, TypeInv
<1>4. NoFrame(ch)
  BY <1>1 DEF NoFrame, Counted
<1>5. CASE ch \in abandoned
  BY <1>1, <1>3, <1>5, Outlawed
<1>6. CASE ch \notin abandoned
  <2>1. can_state[ch] = "ERROR_ACTIVE" /\ (echo_skb[ch] <=> ~Taken(ch))
    BY <1>1, <1>6, TidyFacts
  <2>2. xmit'[ch] = "idle"
    BY <1>1 DEF TypeInv
  <2>3. (Carries(ch) <=> echo_skb[ch]) /\ (Carries(ch)' <=> echo_skb[ch])
    BY <1>1, <2>2 DEF Carries
  <2>4. LinkOf(ch)' = LinkOf(ch)
    BY <1>1, <1>2, <2>1, <2>3, LinkCases, LinkCasesNext
  <2>. QED
    BY <1>1, <1>3, <1>4, <2>4, Stutters
<1>. QED
  BY <1>5, <1>6

-----------------------------------------------------------------------------
(* The steps of the completion handler.                                    *)

(* The reply the handler works on is that of an interface in the list.     *)
LEMMA ReplyKnown ==
  ASSUME IInv, rx # "idle"
  PROVE  Reply \in Channels /\ Listed(Reply) /\ send_reply_list # <<>>
<1>1. send_reply_list # <<>> /\ send_reply_list \in Seq(Channels)
  BY DEF IInv, Held, TypeInv
<1>. QED
  BY <1>1, TailFacts DEF Listed, Reply

(* The callback takes the frame out of the echo slot and counts it.        *)
LEMMA TakeServes ==
  ASSUME IInv, TypeInv', SendCallbackEcho
  PROVE  Service!SNext \/ UNCHANGED Service!svars
<1>0. PICK r : r = Reply
  OBVIOUS
<1>1. /\ kernel = "ok" /\ rx = "callback" /\ rx' = "complete"
      /\ echo_skb' = [echo_skb EXCEPT ![r] = FALSE]
      /\ stats' = [stats EXCEPT ![r][CounterOf(rx_status)] = @ + 1]
      /\ UNCHANGED <<can_state, drv_xoff, frames, xmit, send_reply_list, abandoned>>
      /\ TypeInv
  BY <1>0 DEF SendCallbackEcho, IInv
<1>2. r \in Channels /\ Listed(r)
  BY <1>0, <1>1, ReplyKnown
<1>3. \A c : ~Taken(c) /\ (Taken(c)' <=> c = r)
  BY <1>0, <1>1 DEF Taken, Reply
<1>4. Only(r)
  BY <1>1, <1>2, <1>3, OnlyOne DEF Alone, TypeInv
<1>5. CASE r \in abandoned
  BY <1>1, <1>2, <1>4, <1>5, Outlawed
<1>6. CASE r \notin abandoned
  <2>1. Waiting(r) /\ echo_skb[r] /\ xmit[r] # "sent"
    BY <1>1, <1>2, <1>3, <1>6, TidyFacts DEF Waiting
  <2>2. LinkOf(r) = "busy" /\ ~Carries(r)'
    BY <1>1, <1>2, <2>1, LinkCases DEF Carries, TypeInv
  <2>3. LinkOf(r)' \in {"ready", "down"}
    BY <1>3, <2>2, LinkCasesNext
  <2>4. Counted(r)' = Counted(r) + 1
    <3>. DEFINE k == CounterOf(rx_status)
    <3>1. k \in Counters
      BY CounterKnown
    <3>2. stats[r] \in [Counters -> Nat]
      BY <1>1, <1>2 DEF TypeInv
    <3>3. stats' = [stats EXCEPT ![r][k] = @ + 1] /\ stats \in [Channels -> [Counters -> Nat]]
      BY <1>1 DEF TypeInv
    <3>. HIDE DEF k
    <3>4. stats'[r] = [stats[r] EXCEPT ![k] = @ + 1]
      BY <1>2, <3>3
    <3>. QED
      BY <3>1, <3>2, <3>4 DEF Counted, Counters
  <2>. QED
    BY <1>1, <1>2, <1>4, <2>2, <2>3, <2>4, Reports
<1>. QED
  BY <1>5, <1>6

(* The queue is woken, or the kernel has stopped.                          *)
LEMMA WakeServes ==
  ASSUME IInv, TypeInv', SendCallbackWake
  PROVE  Service!SNext \/ UNCHANGED Service!svars
<1>0. PICK r : r = Reply
  OBVIOUS
<1>1. /\ kernel = "ok" /\ rx = "complete"
      /\ \/ drv_xoff' = [drv_xoff EXCEPT ![r] = FALSE] /\ rx' = "unlink"
         \/ UNCHANGED <<drv_xoff, rx>>
      /\ UNCHANGED <<can_state, echo_skb, frames, stats, xmit, send_reply_list,
                     abandoned>>
      /\ TypeInv
  BY <1>0 DEF SendCallbackWake, IInv
<1>2. r \in Channels
  BY <1>0, <1>1, ReplyKnown
<1>3. \A c : /\ Taken(c) <=> c = r
             /\ Taken(c)' => c = r
  BY <1>0, <1>1 DEF Taken, Reply
<1>4. CASE UNCHANGED <<drv_xoff, rx>>
  <2>1. \A c : Taken(c)' <=> Taken(c)
    BY <1>1, <1>4 DEF Taken, Reply
  <2>2. Only(r)
    BY <1>1, <1>4, <2>1, OnlyOne DEF Alone
  <2>3. Carries(r)' <=> Carries(r)
    BY <1>1 DEF Carries
  <2>4. LinkOf(r)' = LinkOf(r)
    BY <1>1, <1>4, <2>1, <2>3, LinkCases, LinkCasesNext
  <2>. QED
    BY <1>1, <1>2, <2>2, <2>4, Stutters DEF NoFrame, Counted
<1>5. CASE drv_xoff' = [drv_xoff EXCEPT ![r] = FALSE] /\ rx' = "unlink"
  <2>1. \A c \in Channels \ {r} : Taken(c)' <=> Taken(c)
    BY <1>3
  <2>2. Only(r)
    BY <1>1, <1>2, <1>5, <2>1, OnlyOne DEF Alone, TypeInv
  <2>3. Carries(r)' <=> Carries(r)
    BY <1>1 DEF Carries
  <2>4. Taken(r) /\ ~drv_xoff'[r]
    BY <1>1, <1>2, <1>3, <1>5 DEF TypeInv
  <2>5. LinkOf(r)' = LinkOf(r)
    BY <1>1, <2>3, <2>4, LinkCases, LinkCasesNext
  <2>. QED
    BY <1>1, <1>2, <2>2, <2>5, Stutters DEF NoFrame, Counted
<1>. QED
  BY <1>1, <1>4, <1>5

(* Where neither an interface nor the frame of one is touched, and the     *)
(* handler does not begin or end to complete a frame, nothing is seen.     *)
LEMMA Quiet ==
  ASSUME UNCHANGED <<can_state, drv_xoff, echo_skb, xmit, frames, stats, abandoned>>,
         \A c : Taken(c)' <=> Taken(c)
  PROVE  UNCHANGED Service!svars
<1>1. ASSUME NEW c \in Channels PROVE LinkOf(c)' = LinkOf(c)
  <2>1. Carries(c)' <=> Carries(c)
    BY DEF Carries
  <2>. QED
    BY <2>1, LinkCases, LinkCasesNext
<1>2. \A c \in Channels : Counted(c)' = Counted(c)
  BY DEF Counted
<1>. QED
  BY <1>1, <1>2 DEF Service!svars

(* The service does not see the other steps.                               *)
LEMMA OtherServes ==
  ASSUME IInv, RecvReply \/ ReplyUnlink \/ LoseTransfer \/ ExecuteCommand
               \/ UNCHANGED vars
  PROVE  UNCHANGED Service!svars
<1>1. UNCHANGED <<can_state, drv_xoff, echo_skb, xmit, frames, stats, abandoned>>
  BY DEF RecvReply, ReplyUnlink, LoseTransfer, ExecuteCommand, vars
<1>2. \A c : Taken(c)' <=> Taken(c)
  <2>1. CASE RecvReply \/ ReplyUnlink
    <3>1. rx # "complete" /\ rx' # "complete"
      BY <2>1 DEF RecvReply, ReplyUnlink
    <3>. QED
      BY <3>1 DEF Taken
  <2>2. CASE LoseTransfer \/ ExecuteCommand \/ UNCHANGED vars
    <3>1. UNCHANGED <<rx, send_reply_list>>
      BY <2>2 DEF LoseTransfer, ExecuteCommand, vars
    <3>. QED
      BY <3>1 DEF Taken, Reply
  <2>. QED
    BY <2>1, <2>2
<1>. QED
  BY <1>1, <1>2, Quiet

-----------------------------------------------------------------------------
(* Every step of the driver is one of the service, or none.                *)
LEMMA Serves ==
  ASSUME IInv, [Next]_vars
  PROVE  [Service!SNext]_(Service!svars)
<1>1. TypeInv'
  BY TypeStep, NetAssumption DEF IInv
<1>2. CASE \E ch \in Channels : \/ canguru_ops_open(ch) \/ canguru_ops_close(ch)
                                \/ close_candev(ch) \/ XmitStop(ch) \/ XmitStep(ch)
  BY <1>1, <1>2, OpenServes, CloseServes, FlushServes, StopServes, SendServes,
     EchoServes, WaitServes, SentServes DEF XmitStep
<1>3. CASE RxStep
  BY <1>1, <1>3, TakeServes, WakeServes, OtherServes DEF RxStep
<1>4. CASE RecvReply \/ LoseTransfer \/ ExecuteCommand \/ UNCHANGED vars
  BY <1>4, OtherServes
<1>. QED
  BY <1>2, <1>3, <1>4 DEF Next

(* Each interface takes one frame at a time and reports every frame once,  *)
(* whatever the interleaving of canguru_ops_start_xmit, the send callback, *)
(* open and close, until it is closed with a reply outstanding.            *)
THEOREM Implements == Spec => KeepsService
<1>1. Init => Service!SInit
  <2>. SUFFICES ASSUME Init PROVE Service!SInit
    OBVIOUS
  <2>1. \A c \in Channels : LinkOf(c) = "down" /\ Counted(c) = 0
    <3>. SUFFICES ASSUME NEW c \in Channels PROVE LinkOf(c) = "down" /\ Counted(c) = 0
      OBVIOUS
    <3>1. ~Carries(c) /\ can_state[c] = "STOPPED"
      BY DEF Init, Carries
    <3>. QED
      BY <3>1, LinkCases DEF Init, Counted, Counters
  <2>. QED
    BY <2>1 DEF Init, Service!SInit
<1>2. IInv /\ [Next]_vars => [Service!SNext]_(Service!svars)
  BY Serves
<1>. QED
  BY <1>1, <1>2, Inductive, PTL DEF Spec, KeepsService, Service!SSpec
=============================================================================
