--------------------------- MODULE GuruDeviceProofs ---------------------------
(***************************************************************************)
(* Proofs about the USB transport, for any number of RX URBs, of messages  *)
(* and of interfaces: where the URBs are, in which order their messages    *)
(* are dispatched, and who can use the device structure when it is gone.   *)
(***************************************************************************)
EXTENDS GuruDevice, SequenceTheorems, FiniteSetTheorems, TLAPS

USE DEF ringVars, cbVars, msgVars, lifeVars

-----------------------------------------------------------------------------
(* The inductive invariant.                                                *)

(* What the handler works on, and where curr_msg_data points meanwhile.    *)
Handling ==
  /\ handler = "idle" => cur = 0 /\ curr_msg = 0
  /\ handler = "process" => cur \in Urbs /\ curr_msg = cur
  /\ handler = "resubmit" => cur \in Urbs /\ curr_msg = 0

(* An URB is in one place at a time, and only if it has been set up.       *)
Placed ==
  /\ \A i, j \in 1 .. Len(queue) : queue[i] = queue[j] => i = j
  /\ \A i, j \in 1 .. Len(done) : done[i].urb = done[j].urb => i = j
  /\ \A i \in 1 .. Len(queue), j \in 1 .. Len(done) : queue[i] # done[j].urb
  /\ \A i \in 1 .. Len(queue) : queue[i] # cur /\ queue[i] <= idx
  /\ \A j \in 1 .. Len(done) : done[j].urb # cur /\ done[j].urb <= idx
  /\ cur <= idx

(* The completed URBs that are still in the ring.                          *)
Live(s) == {i \in DOMAIN s : s[i].status # "fatal"}

(* No URB is lost but to a fault.                                          *)
Tally ==
  idx = Len(queue) + Cardinality(Live(done))
        + (IF handler = "idle" THEN 0 ELSE 1) + faults

(* The URB completed with a message.                                       *)
Filled(i) == done[i].status = "ok"

(* Messages on their way are newer than all that were dispatched and older *)
(* than those behind them.                                                 *)
Ordered ==
  /\ \A u \in Urbs : buffer[u] <= arrived
  /\ \A k \in 1 .. Len(log) : log[k] <= arrived
  /\ \A k, l \in 1 .. Len(log) : k < l => log[k] < log[l]
  /\ \A i, j \in 1 .. Len(done) :
       i < j /\ Filled(i) /\ Filled(j) => buffer[done[i].urb] < buffer[done[j].urb]
  /\ \A i \in 1 .. Len(done), k \in 1 .. Len(log) :
       Filled(i) => log[k] < buffer[done[i].urb]
  /\ handler = "process" =>
       /\ \A i \in 1 .. Len(done) : Filled(i) => buffer[cur] < buffer[done[i].urb]
       /\ \A k \in 1 .. Len(log) : log[k] < buffer[cur]

(* A buffer without a message to be dispatched holds none or an old one.   *)
Seen(u) == buffer[u] # 0 => \E k \in 1 .. Len(log) : log[k] = buffer[u]

Read ==
  /\ \A u \in Urbs :
       Seen(u) \/ u = cur \/ \E j \in 1 .. Len(done) : done[j].urb = u
  /\ \A i \in 1 .. Len(done) : ~Filled(i) => Seen(done[i].urb)
  /\ handler = "resubmit" => Seen(cur)

(* The structure is released after the anchors are empty, or after a probe *)
(* that failed.                                                            *)
Released ==
  /\ memory = "freed" => phase \in {"failed", "gone"}
  /\ phase \in {"killed", "gone"} => anchored = {}
  /\ kernel = "uaf" => memory = "freed"

IInv ==
  TypeInv /\ Handling /\ Placed /\ Tally /\ Ordered /\ Read /\ Released

-----------------------------------------------------------------------------
(* Sequences, and the URBs counted in them.                                *)

Entry == [urb : Urbs, status : RxStatus]

(* Dropping the first element shifts the others by one place.              *)
LEMMA Dropped ==
  ASSUME NEW S, NEW s \in Seq(S), s # <<>>
  PROVE  /\ Len(s) \in Nat \ {0} /\ Head(s) = s[1] /\ s[1] \in S
         /\ DOMAIN s = 1 .. Len(s)
         /\ Tail(s) \in Seq(S)
         /\ DOMAIN Tail(s) = 1 .. Len(s) - 1
         /\ Len(Tail(s)) = Len(s) - 1
         /\ \A i \in 1 .. Len(s) - 1 : Tail(s)[i] = s[i + 1]
  BY HeadTailProperties, LenProperties, EmptySeq

(* Appending puts one element behind the others.                           *)
LEMMA Appended ==
  ASSUME NEW S, NEW s \in Seq(S), NEW e \in S
  PROVE  /\ Len(s) \in Nat /\ DOMAIN s = 1 .. Len(s)
         /\ Append(s, e) \in Seq(S)
         /\ DOMAIN Append(s, e) = 1 .. Len(s) + 1
         /\ Len(Append(s, e)) = Len(s) + 1
         /\ Append(s, e)[Len(s) + 1] = e
         /\ \A i \in 1 .. Len(s) : Append(s, e)[i] = s[i]
  BY AppendProperties, LenProperties

(* The entries that are counted are finitely many.                         *)
LEMMA LiveFinite ==
  ASSUME NEW s \in Seq(Entry)
  PROVE  IsFiniteSet(Live(s)) /\ Cardinality(Live(s)) \in Nat
<1>1. DOMAIN s = 1 .. Len(s) /\ Len(s) \in Nat
  BY LenProperties
<1>2. IsFiniteSet(1 .. Len(s))
  BY <1>1, FS_Interval
<1>3. Live(s) \in SUBSET (1 .. Len(s))
  BY <1>1 DEF Live
<1> QED
  BY <1>2, <1>3, FS_Subset, FS_CardinalityType

(* An URB that is completed counts unless its status is fatal.             *)
LEMMA LiveAppended ==
  ASSUME NEW s \in Seq(Entry), NEW e \in Entry
  PROVE  Cardinality(Live(Append(s, e))) =
           Cardinality(Live(s)) + (IF e.status = "fatal" THEN 0 ELSE 1)
<1>1. /\ Len(s) \in Nat /\ DOMAIN s = 1 .. Len(s)
      /\ DOMAIN Append(s, e) = 1 .. Len(s) + 1
      /\ Append(s, e)[Len(s) + 1] = e
      /\ \A i \in 1 .. Len(s) : Append(s, e)[i] = s[i]
  BY Appended
<1>2. CASE e.status = "fatal"
  <2>1. Live(Append(s, e)) = Live(s)
    BY <1>1, <1>2 DEF Live
  <2> QED
    BY <1>2, <2>1, LiveFinite
<1>3. CASE e.status # "fatal"
  <2>1. Live(Append(s, e)) = Live(s) \cup {Len(s) + 1}
    BY <1>1, <1>3 DEF Live
  <2>2. Len(s) + 1 \notin Live(s)
    BY <1>1 DEF Live
  <2> QED
    BY <1>3, <2>1, <2>2, LiveFinite, FS_AddElement
<1> QED
  BY <1>2, <1>3

(* The URB whose handler runs is no longer counted among the completed.    *)
LEMMA LiveDropped ==
  ASSUME NEW s \in Seq(Entry), s # <<>>
  PROVE  Cardinality(Live(s)) =
           Cardinality(Live(Tail(s))) + (IF s[1].status = "fatal" THEN 0 ELSE 1)
<1> DEFINE rest == Live(s) \ {1}
           back == [i \in Live(Tail(s)) |-> i + 1]
<1>1. /\ Len(s) \in Nat \ {0} /\ DOMAIN s = 1 .. Len(s)
      /\ Tail(s) \in Seq(Entry)
      /\ DOMAIN Tail(s) = 1 .. Len(s) - 1
      /\ \A i \in 1 .. Len(s) - 1 : Tail(s)[i] = s[i + 1]
  BY Dropped
<1>2. back \in [Live(Tail(s)) -> rest]
  BY <1>1 DEF Live
<1>3. \A i, j \in Live(Tail(s)) : back[i] = back[j] => i = j
  BY <1>1 DEF Live
<1>4. \A k \in rest : \E i \in Live(Tail(s)) : back[i] = k
  <2> SUFFICES ASSUME NEW k \in rest PROVE k - 1 \in Live(Tail(s)) /\ back[k - 1] = k
    OBVIOUS
  <2>1. k \in 2 .. Len(s) /\ s[k].status # "fatal"
    BY <1>1 DEF Live
  <2>2. k - 1 \in 1 .. Len(s) - 1 /\ Tail(s)[k - 1] = s[k]
    BY <1>1, <2>1
  <2> QED
    BY <1>1, <2>1, <2>2 DEF Live
<1>5. ExistsBijection(Live(Tail(s)), rest)
  <2>1. back \in Bijection(Live(Tail(s)), rest)
    BY <1>2, <1>3, <1>4 DEF Bijection, Injection, Surjection, IsInjective
  <2> QED
    BY <2>1 DEF ExistsBijection
<1>6. Cardinality(rest) = Cardinality(Live(Tail(s)))
  BY <1>1, <1>5, LiveFinite, FS_Bijection
<1>7. IsFiniteSet(Live(s)) /\ Cardinality(Live(s)) \in Nat
  BY LiveFinite
<1>8. 1 \in Live(s) <=> s[1].status # "fatal"
  BY <1>1 DEF Live
<1>9. Cardinality(rest) = IF 1 \in Live(s) THEN Cardinality(Live(s)) - 1
                                           ELSE Cardinality(Live(s))
  BY <1>7, FS_RemoveElement
<1> HIDE DEF rest
<1> QED
  BY <1>6, <1>7, <1>8, <1>9

(* URBs that are cancelled are not counted.                                *)
LEMMA LiveCancelled ==
  ASSUME NEW s \in Seq(Entry), NEW t \in Seq(Entry),
         \A i \in DOMAIN t : t[i].status = "fatal"
  PROVE  Live(s \o t) = Live(s)
<1>1. /\ Len(s) \in Nat /\ DOMAIN s = 1 .. Len(s)
      /\ Len(t) \in Nat /\ DOMAIN t = 1 .. Len(t)
  BY LenProperties
<1>2. /\ s \o t \in Seq(Entry)
      /\ Len(s \o t) = Len(s) + Len(t)
      /\ \A i \in 1 .. Len(s) + Len(t) :
           (s \o t)[i] = IF i <= Len(s) THEN s[i] ELSE t[i - Len(s)]
  BY ConcatProperties
<1>3. DOMAIN (s \o t) = 1 .. Len(s) + Len(t)
  BY <1>2, LenProperties
<1> QED
  BY <1>1, <1>2, <1>3 DEF Live

-----------------------------------------------------------------------------
(* The beginning.                                                          *)

(* Nothing is set up, nothing was received.                                *)
LEMMA InitHolds == Init => IInv
<1> SUFFICES ASSUME Init PROVE IInv
  OBVIOUS
<1> USE DEF Init
<1>1. TypeInv
  BY DeviceAssumption DEF TypeInv, RxStatus, Sends, Urbs
<1>2. Handling /\ Placed /\ Ordered /\ Released
  BY DEF Handling, Placed, Ordered, Released, Urbs
<1>3. Tally
  <2>1. Live(done) = {}
    BY DEF Live
  <2>2. Cardinality(Live(done)) = 0
    BY <2>1, FS_EmptySet
  <2> QED
    BY <2>2 DEF Tally
<1>4. Read
  BY DEF Read, Seen, Urbs
<1> QED
  BY <1>1, <1>2, <1>3, <1>4 DEF IInv

-----------------------------------------------------------------------------
(* Types.                                                                  *)

(* A send touches the buffers of guru_send_data only.                      *)
LEMMA SendTyped ==
  ASSUME TypeInv, guru_send_data
  PROVE  tx' \in [Sends -> {"unused", "usb", "kept", "freed"}]
  BY DEF TypeInv, guru_send_data

(* The steps that leave the ring, the handler and the messages alone.      *)
Aside ==
  \/ \E k \in Sends : canguru_write_bulk_callback(k)
  \/ guru_dev_init \/ ProbeEnds \/ ProbeFreed
  \/ \E ch \in Channels : canguru_ops_open(ch) \/ canguru_ops_close(ch)
  \/ KillAnchored \/ guru_dev_deinit

(* These steps touch no URB of the ring and no message.                    *)
LEMMA AsideKeeps ==
  ASSUME Aside
  PROVE  /\ UNCHANGED <<ringVars, cbVars, msgVars, idx>>
         /\ kernel = "ok" /\ kernel' = "ok"
  BY DEF Aside, canguru_write_bulk_callback, guru_dev_init, ProbeEnds,
         ProbeFreed, canguru_ops_open, canguru_ops_close, KillAnchored,
         guru_dev_deinit

(* They keep the types.                                                    *)
LEMMA AsideTyped ==
  ASSUME TypeInv, Aside
  PROVE  TypeInv'
<1>1. UNCHANGED <<ringVars, cbVars, msgVars, idx, kernel>>
  BY AsideKeeps
<1>2. tx' \in [Sends -> {"unused", "usb", "kept", "freed"}]
  <2>1. CASE \E k \in Sends : canguru_write_bulk_callback(k)
    BY <2>1 DEF TypeInv, canguru_write_bulk_callback
  <2>2. CASE guru_send_data
    BY <2>2, SendTyped
  <2>3. CASE UNCHANGED tx
    BY <2>3 DEF TypeInv
  <2> QED
    BY <2>1, <2>2, <2>3 DEF Aside, guru_dev_init, ProbeEnds, ProbeFreed,
         canguru_ops_open, canguru_ops_close, KillAnchored, guru_dev_deinit
<1>3. /\ phase' \in {"rx_init", "probing", "bound", "failed", "disabled",
                     "killed", "gone"}
      /\ opened' \in SUBSET Channels
      /\ memory' \in {"live", "freed"}
  BY DEF Aside, TypeInv, canguru_write_bulk_callback, guru_dev_init, ProbeEnds,
         ProbeFreed, canguru_ops_open, canguru_ops_close, KillAnchored,
         guru_dev_deinit
<1> QED
  BY <1>1, <1>2, <1>3 DEF TypeInv

(* Setting up an URB.                                                      *)
LEMMA RxInitTyped ==
  ASSUME TypeInv, RxInitUrb
  PROVE  TypeInv'
<1>2. CASE phase' = "failed" /\ UNCHANGED <<idx, queue, anchored>>
  BY <1>2 DEF RxInitUrb, TypeInv
<1>3. CASE /\ idx' = idx + 1 /\ queue' = Append(queue, idx + 1)
           /\ anchored' = anchored \cup {idx + 1} /\ UNCHANGED phase
  <2>1. idx + 1 \in Urbs /\ idx' \in 0 .. GURU_MAX_URBS
    BY <1>3, DeviceAssumption DEF RxInitUrb, TypeInv, Urbs
  <2>2. queue' \in Seq(Urbs)
    BY <1>3, <2>1, Appended DEF TypeInv
  <2>3. anchored' \in SUBSET Urbs
    BY <1>3, <2>1 DEF TypeInv
  <2> QED
    BY <1>3, <2>1, <2>2, <2>3 DEF RxInitUrb, TypeInv
<1> QED
  BY <1>2, <1>3 DEF RxInitUrb

(* A completion moves the oldest URB.                                      *)
LEMMA CompleteTyped ==
  ASSUME TypeInv, NEW status \in RxStatus, Complete(status)
  PROVE  /\ Head(queue) \in Urbs
         /\ queue' \in Seq(Urbs)
         /\ done' \in Seq([urb : Urbs, status : RxStatus])
<1>1. Head(queue) \in Urbs /\ Tail(queue) \in Seq(Urbs)
  BY HeadTailProperties DEF Complete, TypeInv
<1>2. [urb |-> Head(queue), status |-> status] \in [urb : Urbs, status : RxStatus]
  BY <1>1
<1> QED
  BY <1>1, <1>2, AppendProperties DEF Complete, TypeInv

(* So does the host controller.                                            *)
LEMMA ControllerTyped ==
  ASSUME TypeInv, Transfer \/ TransferFails
  PROVE  TypeInv'
<1>1. CASE Transfer
  <2>1. /\ Head(queue) \in Urbs /\ queue' \in Seq(Urbs)
        /\ done' \in Seq([urb : Urbs, status : RxStatus])
    BY <1>1, CompleteTyped DEF Transfer, RxStatus
  <2>2. arrived' \in Nat /\ buffer' \in [Urbs -> Nat]
    BY <1>1, <2>1 DEF Transfer, TypeInv
  <2> QED
    BY <1>1, <2>1, <2>2 DEF Transfer, Complete, TypeInv
<1>2. CASE TransferFails
  <2>1. \E status \in RxStatus : Complete(status)
    BY <1>2 DEF TransferFails, RxStatus
  <2>2. /\ queue' \in Seq(Urbs)
        /\ done' \in Seq([urb : Urbs, status : RxStatus])
    BY <2>1, CompleteTyped
  <2>3. arrived' \in Nat /\ faults' \in Nat /\ UNCHANGED buffer
    BY <1>2 DEF TransferFails, TypeInv
  <2> QED
    BY <2>1, <2>2, <2>3 DEF Complete, TypeInv
<1> QED
  BY <1>1, <1>2

(* The completion handler.                                                 *)
LEMMA HandlerTyped ==
  ASSUME TypeInv, Handling, ReadHandler
  PROVE  TypeInv'
<1>0. kernel' \in {"ok", "uaf"}
  BY DEF ReadHandler, ReadFatal, ReadStart, canguru_process_msg_list, Resubmit,
         Use, TypeInv
<1>1. CASE ReadFatal \/ ReadStart
  <2>1. done # <<>> /\ done' = Tail(done)
    BY <1>1 DEF ReadFatal, ReadStart
  <2>2. /\ Head(done) \in [urb : Urbs, status : RxStatus]
        /\ done' \in Seq([urb : Urbs, status : RxStatus])
    BY <2>1, HeadTailProperties DEF TypeInv
  <2>3. Head(done).urb \in Urbs
    BY <2>2
  <2>4. CASE ReadFatal
    BY <2>2, <2>4, <1>0 DEF ReadFatal, TypeInv
  <2>5. CASE ReadStart
    BY <2>2, <2>3, <2>5, <1>0 DEF ReadStart, TypeInv
  <2> QED
    BY <1>1, <2>4, <2>5
<1>2. CASE canguru_process_msg_list
  <2>1. buffer[curr_msg] \in Nat
    BY <1>2 DEF canguru_process_msg_list, Handling, TypeInv
  <2>2. log' \in Seq(Nat)
    BY <1>2, <2>1, AppendProperties DEF canguru_process_msg_list, TypeInv
  <2> QED
    BY <1>2, <2>2, <1>0 DEF canguru_process_msg_list, TypeInv
<1>3. CASE Resubmit
  <2>1. cur \in Urbs
    BY <1>3 DEF Resubmit, Handling
  <2>2. Append(queue, cur) \in Seq(Urbs)
    BY <2>1, Appended DEF TypeInv
  <2>3. /\ queue' = Append(queue, cur) \/ queue' = queue
        /\ faults' = faults + 1 \/ faults' = faults
    BY <1>3 DEF Resubmit
  <2>4. queue \in Seq(Urbs) /\ faults \in Nat
    BY DEF TypeInv
  <2>5. queue' \in Seq(Urbs)
    BY <2>2, <2>3, <2>4
  <2>6. faults' \in Nat
    BY <2>3, <2>4
  <2> QED
    BY <1>3, <2>5, <2>6, <1>0 DEF Resubmit, TypeInv
<1> QED
  BY <1>1, <1>2, <1>3 DEF ReadHandler

(* What the endpoints held, cancelled.                                     *)
Cancelled == [i \in DOMAIN queue |-> [urb |-> queue[i], status |-> "fatal"]]

(* Every URB in the queue is cancelled, in its order.                      *)
LEMMA CancelFacts ==
  ASSUME TypeInv
  PROVE  /\ DOMAIN queue = 1 .. Len(queue) /\ Len(queue) \in Nat
         /\ Cancelled \in Seq(Entry)
         /\ DOMAIN Cancelled = 1 .. Len(queue) /\ Len(Cancelled) = Len(queue)
         /\ \A i \in 1 .. Len(queue) : /\ Cancelled[i].urb = queue[i]
                                       /\ Cancelled[i].status = "fatal"
<1>1. /\ queue \in Seq(Urbs) /\ DOMAIN queue = 1 .. Len(queue)
      /\ Len(queue) \in Nat /\ queue \in [1 .. Len(queue) -> Urbs]
  BY LenProperties DEF TypeInv
<1>2. Cancelled \in [1 .. Len(queue) -> Entry]
  BY <1>1 DEF Cancelled, Entry, RxStatus
<1>3. Cancelled \in Seq(Entry)
  BY <1>1, <1>2, SeqDef
<1> QED
  BY <1>1, <1>2, <1>3, LenProperties DEF Cancelled

(* Cancelling keeps the types.                                             *)
LEMMA DisableTyped ==
  ASSUME TypeInv, CoreDisable
  PROVE  TypeInv'
<1>1. done' = done \o Cancelled
  BY DEF CoreDisable, Cancelled
<1>2. done' \in Seq(Entry)
  BY <1>1, CancelFacts, ConcatProperties DEF TypeInv, Entry
<1>3. faults' \in Nat /\ queue' \in Seq(Urbs)
  BY CancelFacts, EmptySeq DEF CoreDisable, TypeInv
<1> QED
  BY <1>2, <1>3 DEF CoreDisable, TypeInv, Entry

(* Every step keeps the types.                                             *)
LEMMA TypeStep ==
  ASSUME TypeInv, Handling, [Next]_vars
  PROVE  TypeInv'
<1>1. CASE Aside
  BY <1>1, AsideTyped
<1>2. CASE UNCHANGED vars
  BY <1>2 DEF vars, TypeInv
<1> QED
  BY <1>1, <1>2, RxInitTyped, ControllerTyped, HandlerTyped, DisableTyped
     DEF Next, Aside

-----------------------------------------------------------------------------
(* The handler and the places of the URBs.                                 *)

(* What the sequences of the ring are.                                     *)
LEMMA RingTyped ==
  ASSUME TypeInv
  PROVE  /\ queue \in Seq(Urbs) /\ done \in Seq(Entry) /\ log \in Seq(Nat)
         /\ Len(queue) \in Nat /\ Len(done) \in Nat /\ Len(log) \in Nat
         /\ \A i \in 1 .. Len(queue) : queue[i] \in Urbs
         /\ \A j \in 1 .. Len(done) : done[j].urb \in Urbs
         /\ \A k \in 1 .. Len(log) : log[k] \in Nat
         /\ \A u \in Urbs : u \in Nat /\ u >= 1 /\ buffer[u] \in Nat
         /\ idx \in Nat /\ cur \in Nat /\ arrived \in Nat /\ faults \in Nat
<1>1. /\ queue \in Seq(Urbs) /\ done \in Seq(Entry) /\ log \in Seq(Nat)
      /\ buffer \in [Urbs -> Nat]
  BY DEF TypeInv, Entry
<1>2. \A j \in 1 .. Len(done) : done[j] \in Entry
  BY <1>1, ElementOfSeq
<1>3. \A j \in 1 .. Len(done) : done[j].urb \in Urbs
  BY <1>2 DEF Entry
<1>4. \A i \in 1 .. Len(queue) : queue[i] \in Urbs
  BY <1>1, ElementOfSeq
<1>5. \A k \in 1 .. Len(log) : log[k] \in Nat
  BY <1>1, ElementOfSeq
<1>6. \A u \in Urbs : u \in Nat /\ u >= 1 /\ buffer[u] \in Nat
  BY <1>1, DeviceAssumption DEF Urbs
<1>7. idx \in Nat /\ cur \in Nat /\ arrived \in Nat /\ faults \in Nat
  BY <1>6, DeviceAssumption DEF TypeInv
<1> QED
  BY <1>1, <1>3, <1>4, <1>5, <1>6, <1>7, LenProperties

(* The oldest URB leaves the controller.                                   *)
LEMMA Completes ==
  ASSUME TypeInv, NEW status \in RxStatus, Complete(status)
  PROVE  /\ Len(queue) \in Nat \ {0} /\ queue[1] \in Urbs /\ Head(queue) = queue[1]
         /\ Len(queue') = Len(queue) - 1
         /\ \A i \in 1 .. Len(queue) - 1 : queue'[i] = queue[i + 1]
         /\ [urb |-> queue[1], status |-> status] \in Entry
         /\ done' = Append(done, [urb |-> queue[1], status |-> status])
         /\ Len(done') = Len(done) + 1
         /\ done'[Len(done) + 1].urb = queue[1]
         /\ done'[Len(done) + 1].status = status
         /\ \A j \in 1 .. Len(done) : done'[j] = done[j]
         /\ UNCHANGED <<cbVars, log, idx, kernel, memory, phase>>
<1>1. queue # <<>> /\ queue \in Seq(Urbs) /\ done \in Seq(Entry)
  BY DEF Complete, TypeInv, Entry
<1>2. /\ Len(queue) \in Nat \ {0} /\ Head(queue) = queue[1] /\ queue[1] \in Urbs
      /\ Len(Tail(queue)) = Len(queue) - 1
      /\ \A i \in 1 .. Len(queue) - 1 : Tail(queue)[i] = queue[i + 1]
  BY <1>1, Dropped
<1> DEFINE e == [urb |-> queue[1], status |-> status]
<1>3. queue' = Tail(queue) /\ done' = Append(done, e)
  BY <1>2 DEF Complete
<1>4. e \in Entry /\ e.urb = queue[1] /\ e.status = status
  BY <1>2 DEF Entry
<1> HIDE DEF e
<1>5. /\ Len(done') = Len(done) + 1 /\ done'[Len(done) + 1] = e
      /\ \A j \in 1 .. Len(done) : done'[j] = done[j]
  BY <1>1, <1>3, <1>4, Appended
<1> QED
  BY <1>2, <1>3, <1>4, <1>5 DEF Complete, e

(* The handler of the URB that was completed first begins.                 *)
LEMMA Begins ==
  ASSUME TypeInv, ReadFatal \/ ReadStart
  PROVE  /\ done \in Seq(Entry) /\ done # <<>> /\ done' = Tail(done)
         /\ Len(done) \in Nat \ {0} /\ Head(done) = done[1]
         /\ done[1].urb \in Urbs
         /\ Len(done') = Len(done) - 1
         /\ \A j \in 1 .. Len(done) - 1 : done'[j] = done[j + 1]
         /\ handler = "idle"
         /\ UNCHANGED <<queue, faults, msgVars, phase, idx, memory>>
<1>1. done # <<>> /\ done \in Seq(Entry) /\ done' = Tail(done)
  BY DEF ReadFatal, ReadStart, TypeInv, Entry
<1>2. /\ Len(done) \in Nat \ {0} /\ Head(done) = done[1] /\ done[1] \in Entry
      /\ Len(Tail(done)) = Len(done) - 1
      /\ \A j \in 1 .. Len(done) - 1 : Tail(done)[j] = done[j + 1]
  BY <1>1, Dropped
<1> QED
  BY <1>1, <1>2 DEF ReadFatal, ReadStart, Entry

(* The URB of the handler goes back to the controller, or nowhere.         *)
LEMMA Ends ==
  ASSUME TypeInv, Handling, Resubmit
  PROVE  /\ cur \in Urbs
         /\ \/ /\ queue' = queue /\ faults' = faults + 1
            \/ /\ faults' = faults
               /\ Len(queue') = Len(queue) + 1
               /\ queue'[Len(queue) + 1] = cur
               /\ \A i \in 1 .. Len(queue) : queue'[i] = queue[i]
<1>1. cur \in Urbs /\ queue \in Seq(Urbs)
  BY DEF Resubmit, Handling, TypeInv
<1>2. CASE queue' = queue /\ faults' = faults + 1
  BY <1>1, <1>2
<1>3. CASE queue' = Append(queue, cur) /\ faults' = faults
  BY <1>1, <1>3, Appended
<1> QED
  BY <1>2, <1>3 DEF Resubmit

(* Everything the controller held is completed.                            *)
LEMMA Disables ==
  ASSUME TypeInv, CoreDisable
  PROVE  /\ queue' = <<>> /\ Len(queue') = 0
         /\ done' = done \o Cancelled
         /\ Len(done') = Len(done) + Len(queue)
         /\ \A j \in 1 .. Len(done) : done'[j] = done[j]
         /\ \A j \in Len(done) + 1 .. Len(done) + Len(queue) :
              /\ j - Len(done) \in 1 .. Len(queue)
              /\ done'[j].urb = queue[j - Len(done)]
              /\ done'[j].status = "fatal"
         /\ UNCHANGED <<cbVars, msgVars, idx, anchored, memory, kernel>>
<1>1. done' = done \o Cancelled /\ queue' = <<>>
  BY DEF CoreDisable, Cancelled
<1>2. /\ done \in Seq(Entry) /\ Cancelled \in Seq(Entry)
      /\ Len(Cancelled) = Len(queue)
      /\ Len(queue) \in Nat /\ Len(done) \in Nat
  BY CancelFacts, RingTyped
<1>3. \A i \in 1 .. Len(queue) : /\ Cancelled[i].urb = queue[i]
                                  /\ Cancelled[i].status = "fatal"
  BY CancelFacts
<1>4. /\ Len(done') = Len(done) + Len(Cancelled)
      /\ \A j \in 1 .. Len(done) + Len(Cancelled) :
           done'[j] = IF j <= Len(done) THEN done[j] ELSE Cancelled[j - Len(done)]
  BY <1>1, <1>2, ConcatProperties
<1>5. \A j \in 1 .. Len(done) : done'[j] = done[j]
  BY <1>2, <1>4
<1>6. \A j \in Len(done) + 1 .. Len(done) + Len(queue) :
        /\ j - Len(done) \in 1 .. Len(queue)
        /\ done'[j] = Cancelled[j - Len(done)]
  BY <1>2, <1>4
<1> QED
  BY <1>1, <1>2, <1>3, <1>4, <1>5, <1>6 DEF CoreDisable

(* Every step keeps what the completion handler knows.                     *)
LEMMA HandlingStep ==
  ASSUME TypeInv, Handling, [Next]_vars
  PROVE  Handling'
<1>1. CASE Aside
  BY <1>1, AsideKeeps DEF Handling
<1>2. CASE ReadHandler
  <2>1. CASE ReadFatal
    BY <2>1 DEF ReadFatal, Handling
  <2>2. CASE ReadStart
    BY <2>2, Begins DEF ReadStart, Handling
  <2>3. CASE canguru_process_msg_list
    BY <2>3 DEF canguru_process_msg_list, Handling
  <2>4. CASE Resubmit
    BY <2>4 DEF Resubmit, Handling
  <2> QED
    BY <1>2, <2>1, <2>2, <2>3, <2>4 DEF ReadHandler
<1>3. CASE UNCHANGED cbVars
  BY <1>3 DEF Handling
<1> QED
  BY <1>1, <1>2, <1>3 DEF Next, Aside, vars, RxInitUrb, Transfer, TransferFails,
     Complete, CoreDisable

(* A completion moves an URB from one place to the next.                   *)
LEMMA CompletePlaced ==
  ASSUME TypeInv, Placed, NEW status \in RxStatus, Complete(status)
  PROVE  Placed'
<1> DEFINE n == Len(queue)
           m == Len(done)
<1>1. /\ n \in Nat \ {0} /\ Len(queue') = n - 1
      /\ \A i \in 1 .. n - 1 : queue'[i] = queue[i + 1]
  BY Completes
<1>2. /\ m \in Nat /\ Len(done') = m + 1 /\ done'[m + 1].urb = queue[1]
      /\ \A j \in 1 .. m : done'[j] = done[j]
  BY Completes, RingTyped
<1>3. cur' = cur /\ idx' = idx
  BY Completes
<1>4. /\ \A i, j \in 1 .. n : queue[i] = queue[j] => i = j
      /\ \A i, j \in 1 .. m : done[i].urb = done[j].urb => i = j
      /\ \A i \in 1 .. n, j \in 1 .. m : queue[i] # done[j].urb
      /\ \A i \in 1 .. n : queue[i] # cur /\ queue[i] <= idx
      /\ \A j \in 1 .. m : done[j].urb # cur /\ done[j].urb <= idx
      /\ cur <= idx
  BY DEF Placed
<1> HIDE DEF n, m
<1>5. \A i, j \in 1 .. n - 1 : queue'[i] = queue'[j] => i = j
  BY <1>1, <1>4
<1>6. \A i \in 1 .. n - 1 : queue'[i] # queue[1]
  BY <1>1, <1>4
<1>7. \A i, j \in 1 .. m + 1 : done'[i].urb = done'[j].urb => i = j
  <2>1. \A j \in 1 .. m : done'[j].urb # queue[1]
    BY <1>1, <1>2, <1>4
  <2> QED
    BY <1>2, <1>4, <2>1
<1>8. \A i \in 1 .. n - 1, j \in 1 .. m + 1 : queue'[i] # done'[j].urb
  BY <1>1, <1>2, <1>4, <1>6
<1>9. \A i \in 1 .. n - 1 : queue'[i] # cur' /\ queue'[i] <= idx'
  BY <1>1, <1>3, <1>4
<1>10. \A j \in 1 .. m + 1 : done'[j].urb # cur' /\ done'[j].urb <= idx'
  BY <1>1, <1>2, <1>3, <1>4
<1> QED
  BY <1>1, <1>2, <1>3, <1>4, <1>5, <1>7, <1>8, <1>9, <1>10 DEF Placed

(* The next URB to be set up is in none of the places.                     *)
LEMMA RxInitPlaced ==
  ASSUME TypeInv, Placed, RxInitUrb
  PROVE  Placed'
<1>1. CASE UNCHANGED <<idx, queue>>
  BY <1>1 DEF RxInitUrb, Placed
<1>2. CASE idx' = idx + 1 /\ queue' = Append(queue, idx + 1)
  <2> DEFINE n == Len(queue)
             m == Len(done)
  <2>1. idx \in Nat /\ idx + 1 \in Urbs /\ queue \in Seq(Urbs) /\ cur \in Nat
    BY <1>2, DeviceAssumption, RingTyped DEF RxInitUrb, TypeInv, Urbs
  <2>2. /\ n \in Nat /\ Len(queue') = n + 1 /\ queue'[n + 1] = idx + 1
        /\ \A i \in 1 .. n : queue'[i] = queue[i]
    BY <1>2, <2>1, Appended
  <2>3. UNCHANGED <<done, cur>>
    BY DEF RxInitUrb
  <2>4. /\ \A i, j \in 1 .. n : queue[i] = queue[j] => i = j
        /\ \A i, j \in 1 .. m : done[i].urb = done[j].urb => i = j
        /\ \A i \in 1 .. n, j \in 1 .. m : queue[i] # done[j].urb
        /\ \A i \in 1 .. n : queue[i] # cur /\ queue[i] <= idx
        /\ \A j \in 1 .. m : done[j].urb # cur /\ done[j].urb <= idx
        /\ cur <= idx
    BY DEF Placed
  <2>5. /\ \A i \in 1 .. n : queue[i] \in Nat
        /\ \A j \in 1 .. m : done[j].urb \in Nat
    BY RingTyped
  <2> HIDE DEF n
  <2>6. \A i, j \in 1 .. n + 1 : queue'[i] = queue'[j] => i = j
    BY <2>1, <2>2, <2>4, <2>5
  <2>7. \A i \in 1 .. n + 1, j \in 1 .. m : queue'[i] # done[j].urb
    BY <2>1, <2>2, <2>4, <2>5
  <2>8. \A i \in 1 .. n + 1 : queue'[i] # cur /\ queue'[i] <= idx + 1
    BY <2>1, <2>2, <2>4, <2>5
  <2>9. cur <= idx + 1 /\ \A j \in 1 .. m : done[j].urb <= idx + 1
    BY <2>1, <2>4, <2>5
  <2> QED
    BY <1>2, <2>2, <2>3, <2>4, <2>6, <2>7, <2>8, <2>9 DEF Placed
<1> QED
  BY <1>1, <1>2 DEF RxInitUrb

(* The handler takes the oldest URB completed, or drops it.                *)
LEMMA BeginPlaced ==
  ASSUME TypeInv, Handling, Placed, ReadFatal \/ ReadStart
  PROVE  Placed'
<1> DEFINE n == Len(queue)
           m == Len(done)
<1>1. /\ m \in Nat \ {0} /\ Len(done') = m - 1
      /\ \A j \in 1 .. m - 1 : done'[j] = done[j + 1]
      /\ queue' = queue /\ idx' = idx
  BY Begins
<1>2. cur' = cur \/ cur' = done[1].urb
  BY Begins DEF ReadFatal, ReadStart
<1>4. /\ \A i, j \in 1 .. n : queue[i] = queue[j] => i = j
      /\ \A i, j \in 1 .. m : done[i].urb = done[j].urb => i = j
      /\ \A i \in 1 .. n, j \in 1 .. m : queue[i] # done[j].urb
      /\ \A i \in 1 .. n : queue[i] # cur /\ queue[i] <= idx
      /\ \A j \in 1 .. m : done[j].urb # cur /\ done[j].urb <= idx
      /\ cur <= idx
  BY DEF Placed
<1> HIDE DEF m
<1>5. \A i, j \in 1 .. m - 1 : done'[i].urb = done'[j].urb => i = j
  BY <1>1, <1>4
<1>6. \A i \in 1 .. n, j \in 1 .. m - 1 : queue[i] # done'[j].urb
  BY <1>1, <1>4
<1>7. cur' <= idx /\ \A i \in 1 .. n : queue[i] # cur'
  BY <1>1, <1>2, <1>4
<1>8. \A j \in 1 .. m - 1 : done'[j].urb # cur' /\ done'[j].urb <= idx
  BY <1>1, <1>2, <1>4
<1> QED
  BY <1>1, <1>4, <1>5, <1>6, <1>7, <1>8 DEF Placed

(* The handler returns.                                                    *)
LEMMA EndPlaced ==
  ASSUME TypeInv, Handling, Placed, Resubmit
  PROVE  Placed'
<1>1. cur' = 0 /\ UNCHANGED <<done, idx>> /\ idx \in Nat /\ cur \in Urbs
  BY Ends, RingTyped DEF Resubmit
<1> DEFINE n == Len(queue)
           m == Len(done)
<1>2. /\ \A i \in 1 .. n : queue[i] \in Nat /\ queue[i] >= 1
      /\ \A j \in 1 .. m : done[j].urb \in Nat /\ done[j].urb >= 1
      /\ cur \in Nat /\ cur >= 1 /\ n \in Nat
  BY <1>1, RingTyped
<1>3. /\ \A i, j \in 1 .. n : queue[i] = queue[j] => i = j
      /\ \A i, j \in 1 .. m : done[i].urb = done[j].urb => i = j
      /\ \A i \in 1 .. n, j \in 1 .. m : queue[i] # done[j].urb
      /\ \A i \in 1 .. n : queue[i] # cur /\ queue[i] <= idx
      /\ \A j \in 1 .. m : done[j].urb # cur /\ done[j].urb <= idx
      /\ cur <= idx
  BY DEF Placed
<1>4. CASE queue' = queue
  BY <1>1, <1>2, <1>3, <1>4 DEF Placed
<1>5. CASE /\ Len(queue') = n + 1 /\ queue'[n + 1] = cur
           /\ \A i \in 1 .. n : queue'[i] = queue[i]
  <2> HIDE DEF n
  <2>1. \A i, j \in 1 .. n + 1 : queue'[i] = queue'[j] => i = j
    BY <1>2, <1>3, <1>5
  <2>2. \A i \in 1 .. n + 1, j \in 1 .. m : queue'[i] # done[j].urb
    BY <1>2, <1>3, <1>5
  <2>3. \A i \in 1 .. n + 1 : queue'[i] # 0 /\ queue'[i] <= idx
    BY <1>2, <1>3, <1>5
  <2>4. 0 <= idx /\ \A j \in 1 .. m : done[j].urb # 0
    BY <1>1, <1>2
  <2> QED
    BY <1>1, <1>3, <1>5, <2>1, <2>2, <2>3, <2>4 DEF Placed
<1> QED
  BY <1>4, <1>5, Ends

(* All URBs of the controller are completed at once.                       *)
LEMMA DisablePlaced ==
  ASSUME TypeInv, Placed, CoreDisable
  PROVE  Placed'
<1> DEFINE n == Len(queue)
           m == Len(done)
<1>1. /\ n \in Nat /\ m \in Nat /\ Len(queue') = 0 /\ Len(done') = m + n
      /\ \A j \in 1 .. m : done'[j] = done[j]
      /\ \A j \in m + 1 .. m + n : /\ j - m \in 1 .. n
                                   /\ done'[j].urb = queue[j - m]
      /\ UNCHANGED <<cur, idx>>
  BY Disables, RingTyped
<1>2. /\ \A i, j \in 1 .. n : queue[i] = queue[j] => i = j
      /\ \A i, j \in 1 .. m : done[i].urb = done[j].urb => i = j
      /\ \A i \in 1 .. n, j \in 1 .. m : queue[i] # done[j].urb
      /\ \A i \in 1 .. n : queue[i] # cur /\ queue[i] <= idx
      /\ \A j \in 1 .. m : done[j].urb # cur /\ done[j].urb <= idx
      /\ cur <= idx
  BY DEF Placed
<1> HIDE DEF n, m
<1>3. \A j \in 1 .. m + n : j \in 1 .. m \/ j \in m + 1 .. m + n
  BY <1>1
<1>4. \A j \in 1 .. m + n : done'[j].urb # cur /\ done'[j].urb <= idx
  BY <1>1, <1>2, <1>3
<1>5. \A i, j \in 1 .. m + n : done'[i].urb = done'[j].urb => i = j
  <2>1. \A i \in m + 1 .. m + n, j \in m + 1 .. m + n :
          done'[i].urb = done'[j].urb => i = j
    BY <1>1, <1>2
  <2>2. \A i \in 1 .. m, j \in m + 1 .. m + n : done'[i].urb # done'[j].urb
    BY <1>1, <1>2
  <2>3. \A i, j \in 1 .. m : done'[i].urb = done'[j].urb => i = j
    BY <1>1, <1>2
  <2> QED
    BY <1>3, <2>1, <2>2, <2>3
<1> QED
  BY <1>1, <1>2, <1>4, <1>5 DEF Placed

(* Every step leaves each URB in one place.                                *)
LEMMA PlacedStep ==
  ASSUME TypeInv, Handling, Placed, [Next]_vars
  PROVE  Placed'
<1>1. CASE Aside
  BY <1>1, AsideKeeps DEF Placed
<1>2. CASE Transfer \/ TransferFails
  <2>1. \E status \in RxStatus : Complete(status)
    BY <1>2 DEF Transfer, TransferFails, RxStatus
  <2> QED
    BY <2>1, CompletePlaced
<1>3. CASE canguru_process_msg_list \/ UNCHANGED vars
  BY <1>3 DEF vars, canguru_process_msg_list, Placed
<1> QED
  BY <1>1, <1>2, <1>3, RxInitPlaced, BeginPlaced, EndPlaced, DisablePlaced
     DEF Next, Aside, ReadHandler

-----------------------------------------------------------------------------
(* No URB is lost.                                                         *)

(* Every step keeps the count of the ring.                                 *)
LEMMA TallyStep ==
  ASSUME TypeInv, Handling, Tally, [Next]_vars
  PROVE  Tally'
<1> DEFINE held == IF handler = "idle" THEN 0 ELSE 1
           live == Cardinality(Live(done))
<1>0. /\ Len(queue) \in Nat /\ live \in Nat /\ faults \in Nat /\ held \in Nat
      /\ idx = Len(queue) + live + held + faults
  BY RingTyped, LiveFinite DEF Tally
<1>1. CASE Aside \/ UNCHANGED vars
  BY <1>1, AsideKeeps DEF Tally, vars
<1>2. CASE RxInitUrb
  <2>1. UNCHANGED <<done, handler, faults>>
    BY <1>2 DEF RxInitUrb
  <2>2. CASE UNCHANGED <<idx, queue>>
    BY <2>1, <2>2 DEF Tally
  <2>3. CASE idx' = idx + 1 /\ queue' = Append(queue, idx + 1)
    <3>1. idx + 1 \in Urbs /\ queue \in Seq(Urbs)
      BY <1>2, DeviceAssumption DEF RxInitUrb, TypeInv, Urbs
    <3>2. Len(queue') = Len(queue) + 1
      BY <2>3, <3>1, Appended
    <3> QED
      BY <1>0, <2>1, <2>3, <3>2 DEF Tally
  <2> QED
    BY <1>2, <2>2, <2>3 DEF RxInitUrb
<1>3. ASSUME NEW status \in RxStatus, Complete(status),
             faults' = faults + IF status = "fatal" THEN 1 ELSE 0
      PROVE  Tally'
  <2>1. /\ Len(queue') = Len(queue) - 1 /\ UNCHANGED <<handler, idx>>
        /\ done' = Append(done, [urb |-> queue[1], status |-> status])
        /\ [urb |-> queue[1], status |-> status] \in Entry
    BY <1>3, Completes
  <2>2. Cardinality(Live(done')) = live + IF status = "fatal" THEN 0 ELSE 1
    BY <2>1, LiveAppended, RingTyped
  <2> HIDE DEF live, held
  <2>3. idx = Len(queue') + Cardinality(Live(done')) + held + faults'
    <3>1. CASE status = "fatal"
      BY <1>0, <1>3, <2>1, <2>2, <3>1
    <3>2. CASE status # "fatal"
      BY <1>0, <1>3, <2>1, <2>2, <3>2
    <3> QED
      BY <3>1, <3>2
  <2> QED
    BY <2>1, <2>3 DEF Tally, held
<1>4. CASE Transfer \/ TransferFails
  <2>1. CASE Transfer
    BY <1>0, <1>3, <2>1 DEF Transfer, RxStatus
  <2>2. CASE Complete("fatal") /\ faults' = faults + 1
    BY <1>0, <1>3, <2>2 DEF RxStatus
  <2>3. CASE Complete("other") /\ faults' = faults
    BY <1>0, <1>3, <2>3 DEF RxStatus
  <2> QED
    BY <1>4, <2>1, <2>2, <2>3 DEF TransferFails
<1>5. CASE ReadFatal \/ ReadStart
  <2>1. /\ done \in Seq(Entry) /\ done # <<>> /\ done' = Tail(done)
        /\ handler = "idle" /\ Head(done) = done[1]
        /\ UNCHANGED <<queue, faults, idx>>
    BY <1>5, Begins
  <2>2. /\ live = Cardinality(Live(done')) + IF done[1].status = "fatal" THEN 0 ELSE 1
        /\ Cardinality(Live(done')) \in Nat
    <3>1. done' \in Seq(Entry)
      BY <2>1, Dropped
    <3> QED
      BY <2>1, <3>1, LiveDropped, LiveFinite
  <2>3. handler' = "idle" <=> done[1].status = "fatal"
    BY <1>5, <2>1 DEF ReadFatal, ReadStart
  <2> HIDE DEF live
  <2>4. CASE done[1].status = "fatal"
    BY <1>0, <2>1, <2>2, <2>3, <2>4 DEF Tally
  <2>5. CASE done[1].status # "fatal"
    BY <1>0, <2>1, <2>2, <2>3, <2>5 DEF Tally
  <2> QED
    BY <2>4, <2>5
<1>6. CASE canguru_process_msg_list
  BY <1>6 DEF canguru_process_msg_list, Tally
<1>7. CASE Resubmit
  <2>1. handler = "resubmit" /\ handler' = "idle" /\ UNCHANGED <<done, idx>>
    BY <1>7 DEF Resubmit
  <2>2. \/ queue' = queue /\ faults' = faults + 1
        \/ faults' = faults /\ Len(queue') = Len(queue) + 1
    BY <1>7, Ends
  <2> QED
    BY <1>0, <2>1, <2>2 DEF Tally
<1>8. CASE CoreDisable
  <2>1. /\ Len(queue') = 0 /\ done' = done \o Cancelled
        /\ UNCHANGED <<handler, idx>>
    BY <1>8, Disables
  <2>2. faults' = faults + Len(queue)
    BY <1>8 DEF CoreDisable
  <2>3. Live(done') = Live(done)
    BY <2>1, CancelFacts, LiveCancelled, RingTyped
  <2> QED
    BY <1>0, <2>1, <2>2, <2>3 DEF Tally
<1> QED
  BY <1>1, <1>2, <1>4, <1>5, <1>6, <1>7, <1>8 DEF Next, Aside, ReadHandler

-----------------------------------------------------------------------------
(* The release of the structure.                                           *)

(* Every step keeps to the phases of the disconnect.                       *)
LEMMA ReleasedStep ==
  ASSUME TypeInv, Released, [Next]_vars
  PROVE  Released'
<1>1. CASE Aside
  <2>1. kernel' = "ok" /\ anchored' = anchored
    BY <1>1, AsideKeeps
  <2> QED
    BY <1>1, <2>1 DEF Released, Aside, canguru_write_bulk_callback,
       guru_dev_init, ProbeEnds, ProbeFreed, canguru_ops_open,
       canguru_ops_close, KillAnchored, guru_dev_deinit
<1>2. CASE RxInitUrb
  BY <1>2 DEF RxInitUrb, Released
<1>3. CASE Transfer \/ TransferFails \/ CoreDisable
  BY <1>3 DEF Transfer, TransferFails, Complete, CoreDisable, Released
<1>4. CASE ReadHandler
  <2>1. /\ UNCHANGED <<memory, phase>> /\ anchored' \subseteq anchored
        /\ kernel' = "uaf" => memory = "freed"
    BY <1>4 DEF ReadHandler, ReadFatal, ReadStart, canguru_process_msg_list,
       Resubmit, Use, TypeInv
  <2> QED
    BY <2>1 DEF Released
<1>5. CASE UNCHANGED vars
  BY <1>5 DEF vars, Released
<1> QED
  BY <1>1, <1>2, <1>3, <1>4, <1>5 DEF Next, Aside

-----------------------------------------------------------------------------
(* The order of the messages.                                              *)

(* A new message is newer than all that are on their way.                  *)
LEMMA TransferOrdered ==
  ASSUME TypeInv, Handling, Placed, Ordered, Transfer
  PROVE  Ordered'
<1> DEFINE u == queue[1]
           m == Len(done)
<1>1. /\ m \in Nat /\ Len(done') = m + 1 /\ done'[m + 1].urb = u
      /\ \A j \in 1 .. m : done'[j] = done[j]
      /\ u \in Urbs /\ Head(queue) = u /\ Len(queue) \in Nat \ {0}
      /\ UNCHANGED <<handler, cur, log>>
  BY Completes, RingTyped DEF Transfer, RxStatus
<1>2. arrived' = arrived + 1 /\ buffer' = [buffer EXCEPT ![u] = arrived + 1]
  BY <1>1 DEF Transfer
<1>3. /\ \A v \in Urbs : buffer'[v] = IF v = u THEN arrived + 1 ELSE buffer[v]
      /\ \A v \in Urbs : buffer[v] \in Nat
      /\ arrived \in Nat /\ Len(log) \in Nat
      /\ \A k \in 1 .. Len(log) : log[k] \in Nat
      /\ \A j \in 1 .. m : done[j].urb \in Urbs
  BY <1>1, <1>2, RingTyped DEF TypeInv
<1>4. /\ \A j \in 1 .. m : done[j].urb # u
      /\ cur # u
  BY <1>1 DEF Placed
<1>5. handler = "process" => cur \in Urbs
  BY DEF Handling
<1> HIDE DEF u, m
<1>6. /\ \A j \in 1 .. m : buffer'[done'[j].urb] = buffer[done[j].urb]
      /\ buffer'[done'[m + 1].urb] = arrived + 1
      /\ handler = "process" => buffer'[cur] = buffer[cur]
  BY <1>1, <1>3, <1>4, <1>5
<1>7. \A v \in Urbs : buffer'[v] <= arrived'
  BY <1>2, <1>3 DEF Ordered
<1>8. \A k \in 1 .. Len(log) : log[k] <= arrived'
  BY <1>2, <1>3 DEF Ordered
<1>9. \A j \in 1 .. m : Filled(j)' <=> Filled(j)
  BY <1>1 DEF Filled
<1>10. /\ \A j \in 1 .. m : buffer[done[j].urb] < arrived + 1
       /\ \A k \in 1 .. Len(log) : log[k] < arrived + 1
       /\ handler = "process" => buffer[cur] < arrived + 1
  BY <1>3, <1>5 DEF Ordered
<1>11. \A i, j \in 1 .. m + 1 :
         i < j /\ Filled(i)' /\ Filled(j)' => buffer'[done'[i].urb] < buffer'[done'[j].urb]
  <2> SUFFICES ASSUME NEW i \in 1 .. m + 1, NEW j \in 1 .. m + 1,
                      i < j, Filled(i)', Filled(j)'
               PROVE  buffer'[done'[i].urb] < buffer'[done'[j].urb]
    OBVIOUS
  <2>1. i \in 1 .. m /\ (j \in 1 .. m \/ j = m + 1)
    BY <1>1
  <2>2. CASE j \in 1 .. m
    <3>1. buffer[done[i].urb] < buffer[done[j].urb]
      BY <1>9, <2>1, <2>2 DEF Ordered, m
    <3> QED
      BY <1>6, <2>1, <2>2, <3>1
  <2>3. CASE j = m + 1
    BY <1>6, <1>10, <2>1, <2>3
  <2> QED
    BY <2>1, <2>2, <2>3
<1>12. \A i \in 1 .. m + 1, k \in 1 .. Len(log) :
         Filled(i)' => log[k] < buffer'[done'[i].urb]
  <2> SUFFICES ASSUME NEW i \in 1 .. m + 1, NEW k \in 1 .. Len(log), Filled(i)'
               PROVE  log[k] < buffer'[done'[i].urb]
    OBVIOUS
  <2>1. CASE i \in 1 .. m
    <3>1. log[k] < buffer[done[i].urb]
      BY <1>9, <2>1 DEF Ordered, m
    <3> QED
      BY <1>6, <2>1, <3>1
  <2>2. CASE i = m + 1
    BY <1>6, <1>10, <2>2
  <2> QED
    BY <1>1, <2>1, <2>2
<1>13. handler = "process" =>
         \A i \in 1 .. m + 1 : Filled(i)' => buffer'[cur] < buffer'[done'[i].urb]
  <2> SUFFICES ASSUME handler = "process", NEW i \in 1 .. m + 1, Filled(i)'
               PROVE  buffer'[cur] < buffer'[done'[i].urb]
    OBVIOUS
  <2>1. CASE i \in 1 .. m
    <3>1. buffer[cur] < buffer[done[i].urb]
      BY <1>9, <2>1 DEF Ordered, m
    <3> QED
      BY <1>6, <2>1, <3>1
  <2>2. CASE i = m + 1
    BY <1>6, <1>10, <2>2
  <2> QED
    BY <1>1, <2>1, <2>2
<1>14. /\ \A k, l \in 1 .. Len(log) : k < l => log[k] < log[l]
       /\ handler = "process" => \A k \in 1 .. Len(log) : log[k] < buffer'[cur]
  BY <1>6 DEF Ordered
<1> QED
  BY <1>1, <1>7, <1>8, <1>11, <1>12, <1>13, <1>14 DEF Ordered

(* URBs without a message join the completed ones: nothing is out of order.*)
LEMMA EmptyOrdered ==
  ASSUME TypeInv, Ordered, arrived' \in Nat, arrived <= arrived',
         UNCHANGED <<buffer, log, handler, cur>>, Len(done') \in Nat,
         Len(done) <= Len(done'),
         \A j \in 1 .. Len(done) : done'[j] = done[j],
         \A j \in Len(done) + 1 .. Len(done') : done'[j].status # "ok"
  PROVE  Ordered'
<1>1. /\ Len(done) \in Nat /\ arrived \in Nat
      /\ \A v \in Urbs : buffer[v] \in Nat
      /\ \A k \in 1 .. Len(log) : log[k] \in Nat
  BY RingTyped
<1>2. \A j \in 1 .. Len(done') :
        Filled(j)' => j \in 1 .. Len(done) /\ done'[j] = done[j] /\ Filled(j)
  BY <1>1 DEF Filled
<1>3. \A v \in Urbs : buffer[v] <= arrived'
  BY <1>1 DEF Ordered
<1>4. \A k \in 1 .. Len(log) : log[k] <= arrived'
  BY <1>1 DEF Ordered
<1> QED
  BY <1>2, <1>3, <1>4 DEF Ordered

(* The oldest of the completed URBs is taken: its message is older than    *)
(* those behind it.                                                        *)
LEMMA BeginOrdered ==
  ASSUME TypeInv, Ordered, ReadFatal \/ ReadStart
  PROVE  Ordered'
<1> DEFINE m == Len(done)
<1>1. /\ m \in Nat \ {0} /\ Len(done') = m - 1
      /\ \A j \in 1 .. m - 1 : done'[j] = done[j + 1]
      /\ UNCHANGED <<buffer, arrived, log>>
  BY Begins
<1>2. \/ handler' = "process" /\ cur' = done[1].urb /\ Filled(1)
      \/ handler' # "process"
  BY Begins DEF ReadFatal, ReadStart, Filled
<1>3. \A j \in 1 .. m - 1 : /\ Filled(j)' => Filled(j + 1)
                            /\ j + 1 \in 1 .. m
                            /\ done'[j].urb = done[j + 1].urb
  BY <1>1 DEF Filled
<1>4. 1 \in 1 .. m
  BY <1>1
<1>5. /\ \A i, j \in 1 .. m : i < j /\ Filled(i) /\ Filled(j) =>
           buffer[done[i].urb] < buffer[done[j].urb]
      /\ \A i \in 1 .. m, k \in 1 .. Len(log) :
           Filled(i) => log[k] < buffer[done[i].urb]
  BY DEF Ordered
<1> HIDE DEF m
<1>6. \A i, j \in 1 .. m - 1 : i < j /\ Filled(i)' /\ Filled(j)' =>
        buffer[done'[i].urb] < buffer[done'[j].urb]
  <2> SUFFICES ASSUME NEW i \in 1 .. m - 1, NEW j \in 1 .. m - 1,
                      i < j, Filled(i)', Filled(j)'
               PROVE  buffer[done'[i].urb] < buffer[done'[j].urb]
    OBVIOUS
  <2>1. i + 1 \in 1 .. m /\ j + 1 \in 1 .. m /\ i + 1 < j + 1
    BY <1>1
  <2> QED
    BY <1>3, <1>5, <2>1
<1>7. \A i \in 1 .. m - 1, k \in 1 .. Len(log) :
        Filled(i)' => log[k] < buffer[done'[i].urb]
  BY <1>3, <1>5
<1>8. handler' = "process" =>
        /\ \A i \in 1 .. m - 1 : Filled(i)' => buffer[cur'] < buffer[done'[i].urb]
        /\ \A k \in 1 .. Len(log) : log[k] < buffer[cur']
  <2> SUFFICES ASSUME handler' = "process"
               PROVE  /\ \A i \in 1 .. m - 1 :
                           Filled(i)' => buffer[cur'] < buffer[done'[i].urb]
                      /\ \A k \in 1 .. Len(log) : log[k] < buffer[cur']
    OBVIOUS
  <2>1. \A i \in 1 .. m - 1 : 1 < i + 1
    BY <1>1
  <2> QED
    BY <1>2, <1>3, <1>4, <1>5, <2>1
<1> QED
  BY <1>1, <1>6, <1>7, <1>8 DEF Ordered

(* The message dispatched is newer than those before, and older than those *)
(* that wait.                                                              *)
LEMMA DispatchOrdered ==
  ASSUME TypeInv, Handling, Ordered, canguru_process_msg_list
  PROVE  Ordered'
<1> DEFINE n == Len(log)
<1>1. /\ handler = "process" /\ handler' = "resubmit"
      /\ cur \in Urbs /\ log' = Append(log, buffer[cur])
      /\ UNCHANGED <<done, buffer, arrived>>
  BY DEF canguru_process_msg_list, Handling
<1>2. /\ n \in Nat /\ log \in Seq(Nat) /\ buffer[cur] \in Nat
      /\ \A v \in Urbs : buffer[v] \in Nat
      /\ \A j \in 1 .. Len(done) : done[j].urb \in Urbs
      /\ \A k \in 1 .. n : log[k] \in Nat
  BY <1>1, RingTyped
<1>3. /\ Len(log') = n + 1 /\ log'[n + 1] = buffer[cur]
      /\ \A k \in 1 .. n : log'[k] = log[k]
  BY <1>1, <1>2, Appended
<1>4. /\ \A i \in 1 .. Len(done) : Filled(i) => buffer[cur] < buffer[done[i].urb]
      /\ \A k \in 1 .. n : log[k] < buffer[cur]
      /\ buffer[cur] <= arrived
      /\ \A k \in 1 .. n : log[k] <= arrived
      /\ \A k, l \in 1 .. n : k < l => log[k] < log[l]
      /\ \A i \in 1 .. Len(done), k \in 1 .. n :
           Filled(i) => log[k] < buffer[done[i].urb]
  BY <1>1 DEF Ordered
<1> HIDE DEF n
<1>5. \A k \in 1 .. n + 1 : k \in 1 .. n \/ k = n + 1
  BY <1>2
<1>6. \A k \in 1 .. n + 1 : log'[k] <= arrived
  BY <1>3, <1>4, <1>5
<1>7. \A k, l \in 1 .. n + 1 : k < l => log'[k] < log'[l]
  BY <1>2, <1>3, <1>4
<1>8. \A i \in 1 .. Len(done), k \in 1 .. n + 1 :
        Filled(i) => log'[k] < buffer[done[i].urb]
  BY <1>3, <1>4, <1>5
<1>9. \A i \in 1 .. Len(done) : Filled(i)' <=> Filled(i)
  BY <1>1 DEF Filled
<1>10. /\ \A u \in Urbs : buffer[u] <= arrived
       /\ \A i, j \in 1 .. Len(done) : i < j /\ Filled(i) /\ Filled(j) =>
            buffer[done[i].urb] < buffer[done[j].urb]
  BY DEF Ordered
<1> QED
  BY <1>1, <1>3, <1>6, <1>7, <1>8, <1>9, <1>10 DEF Ordered

(* Every step keeps the messages under way in order.                       *)
LEMMA OrderedStep ==
  ASSUME TypeInv, Handling, Placed, Ordered, [Next]_vars
  PROVE  Ordered'
<1>1. CASE Aside
  BY <1>1, AsideKeeps DEF Ordered, Filled
<1>2. CASE TransferFails
  <2>1. PICK status \in RxStatus : status # "ok" /\ Complete(status)
    BY <1>2 DEF TransferFails, RxStatus
  <2>2. /\ Len(done') = Len(done) + 1 /\ done'[Len(done) + 1].status # "ok"
        /\ \A j \in 1 .. Len(done) : done'[j] = done[j]
        /\ UNCHANGED <<buffer, log, handler, cur>>
        /\ Len(done) \in Nat /\ arrived \in Nat
    BY <1>2, <2>1, Completes, RingTyped DEF TransferFails
  <2>3. arrived' \in Nat /\ arrived <= arrived'
    BY <1>2, <2>2 DEF TransferFails
  <2>4. \A j \in Len(done) + 1 .. Len(done') : j = Len(done) + 1
    BY <2>2
  <2> QED
    BY <2>2, <2>3, <2>4, EmptyOrdered
<1>3. CASE CoreDisable
  <2>1. /\ Len(done') = Len(done) + Len(queue)
        /\ \A j \in 1 .. Len(done) : done'[j] = done[j]
        /\ \A j \in Len(done) + 1 .. Len(done) + Len(queue) :
             done'[j].status = "fatal"
        /\ UNCHANGED <<buffer, log, arrived, handler, cur>>
        /\ Len(done) \in Nat /\ Len(queue) \in Nat /\ arrived \in Nat
    BY <1>3, Disables, RingTyped
  <2>2. Len(done) <= Len(done') /\ Len(done') \in Nat /\ arrived <= arrived'
    BY <2>1
  <2> QED
    BY <2>1, <2>2, EmptyOrdered
<1>4. CASE Resubmit
  <2>1. handler' = "idle" /\ UNCHANGED <<done, buffer, arrived, log>>
    BY <1>4 DEF Resubmit
  <2> QED
    BY <2>1 DEF Ordered, Filled
<1>5. CASE RxInitUrb
  BY <1>5 DEF RxInitUrb, Ordered, Filled
<1>6. CASE UNCHANGED vars
  BY <1>6 DEF vars, Ordered, Filled
<1> QED
  BY <1>1, <1>2, <1>3, <1>4, <1>5, <1>6, TransferOrdered, BeginOrdered,
     DispatchOrdered DEF Next, Aside, ReadHandler

-----------------------------------------------------------------------------
(* What the buffers outside the pipeline hold.                             *)

(* The controller holds no message that was not read.                      *)
LEMMA QueueSeen ==
  ASSUME TypeInv, Placed, Read
  PROVE  \A i \in 1 .. Len(queue) : queue[i] \in Urbs /\ Seen(queue[i])
<1> SUFFICES ASSUME NEW i \in 1 .. Len(queue)
             PROVE  queue[i] \in Urbs /\ Seen(queue[i])
  OBVIOUS
<1>1. queue[i] \in Urbs
  BY RingTyped
<1>2. queue[i] # cur /\ \A j \in 1 .. Len(done) : done[j].urb # queue[i]
  BY DEF Placed
<1> QED
  BY <1>1, <1>2 DEF Read

(* URBs that are completed without a message were read before.             *)
LEMMA CompletedRead ==
  ASSUME TypeInv, Placed, Read, UNCHANGED <<buffer, log, handler, cur>>,
         Len(done) \in Nat, Len(done') \in Nat, Len(done) <= Len(done'),
         \A j \in 1 .. Len(done) : done'[j] = done[j],
         \A j \in Len(done) + 1 .. Len(done') :
           \E i \in 1 .. Len(queue) : done'[j].urb = queue[i]
  PROVE  Read'
<1>1. \A u \in Urbs : Seen(u)' <=> Seen(u)
  BY DEF Seen
<1>2. \A j \in 1 .. Len(done) : j \in 1 .. Len(done')
  OBVIOUS
<1>3. \A u \in Urbs :
        Seen(u)' \/ u = cur' \/ \E j \in 1 .. Len(done') : done'[j].urb = u
  BY <1>1, <1>2 DEF Read
<1>4. \A j \in 1 .. Len(done') : ~Filled(j)' => Seen(done[j].urb)'
  <2> SUFFICES ASSUME NEW j \in 1 .. Len(done'), ~Filled(j)'
               PROVE  Seen(done[j].urb)'
    OBVIOUS
  <2>1. CASE j \in 1 .. Len(done)
    <3>1. ~Filled(j) /\ done'[j] = done[j]
      BY <2>1 DEF Filled
    <3>2. Seen(done[j].urb) /\ done[j].urb \in Urbs
      BY <2>1, <3>1, RingTyped DEF Read
    <3> QED
      BY <3>1, <3>2 DEF Seen
  <2>2. CASE j \in Len(done) + 1 .. Len(done')
    <3>1. PICK i \in 1 .. Len(queue) : done'[j].urb = queue[i]
      BY <2>2
    <3>2. Seen(queue[i])
      BY QueueSeen
    <3> QED
      BY <3>1, <3>2 DEF Seen
  <2> QED
    BY <2>1, <2>2
<1>5. handler' = "resubmit" => Seen(cur)'
  BY DEF Read, Seen
<1> QED
  BY <1>3, <1>4, <1>5 DEF Read

(* A new message waits in the buffer of an URB that is completed.          *)
LEMMA TransferRead ==
  ASSUME TypeInv, Handling, Placed, Read, Transfer
  PROVE  Read'
<1> DEFINE u == queue[1]
           m == Len(done)
<1>1. /\ m \in Nat /\ Len(done') = m + 1
      /\ done'[m + 1].urb = u /\ done'[m + 1].status = "ok"
      /\ \A j \in 1 .. m : done'[j] = done[j]
      /\ u \in Urbs /\ Head(queue) = u /\ Len(queue) \in Nat \ {0}
      /\ UNCHANGED <<handler, cur, log>>
  BY Completes, RingTyped DEF Transfer, RxStatus
<1>2. buffer' = [buffer EXCEPT ![u] = arrived + 1]
  BY <1>1 DEF Transfer
<1>3. /\ \A v \in Urbs : v # u => buffer'[v] = buffer[v]
      /\ \A j \in 1 .. m : done[j].urb \in Urbs
  BY <1>1, <1>2, RingTyped DEF TypeInv
<1>4. \A v \in Urbs : v # u => (Seen(v)' <=> Seen(v))
  BY <1>1, <1>3 DEF Seen
<1>5. cur # u /\ \A j \in 1 .. m : done[j].urb # u
  BY <1>1 DEF Placed
<1>6. m + 1 \in 1 .. m + 1 /\ \A j \in 1 .. m : j \in 1 .. m + 1
  BY <1>1
<1>7. \A v \in Urbs : Seen(v)' \/ v = cur \/ \E j \in 1 .. m + 1 : done'[j].urb = v
  <2> SUFFICES ASSUME NEW v \in Urbs
               PROVE  Seen(v)' \/ v = cur \/ \E j \in 1 .. m + 1 : done'[j].urb = v
    OBVIOUS
  <2>1. CASE v = u
    BY <1>1, <1>6, <2>1
  <2>2. CASE v # u
    BY <1>1, <1>4, <1>6, <2>2 DEF Read
  <2> QED
    BY <2>1, <2>2
<1>8. \A j \in 1 .. m + 1 : ~Filled(j)' => Seen(done[j].urb)'
  <2> SUFFICES ASSUME NEW j \in 1 .. m + 1, ~Filled(j)'
               PROVE  Seen(done[j].urb)'
    OBVIOUS
  <2>1. j \in 1 .. m
    BY <1>1 DEF Filled
  <2>2. Seen(done[j].urb)
    BY <1>1, <2>1 DEF Read, Filled
  <2> QED
    BY <1>1, <1>3, <1>4, <1>5, <2>1, <2>2
<1>9. handler' = "resubmit" => Seen(cur)'
  BY <1>1, <1>4, <1>5 DEF Read, Handling
<1> QED
  BY <1>1, <1>7, <1>8, <1>9 DEF Read

(* An URB that leaves the completed ones goes to the handler, or holds no  *)
(* message.                                                                *)
LEMMA BeginRead ==
  ASSUME TypeInv, Handling, Placed, Read, ReadFatal \/ ReadStart
  PROVE  Read'
<1> DEFINE m == Len(done)
<1>1. /\ m \in Nat \ {0} /\ Len(done') = m - 1
      /\ \A j \in 1 .. m - 1 : done'[j] = done[j + 1]
      /\ cur = 0 /\ Head(done) = done[1]
      /\ UNCHANGED <<buffer, log>>
  BY Begins DEF Handling
<1>2. \A v : Seen(v)' <=> Seen(v)
  BY <1>1 DEF Seen
<1>3. 1 \in 1 .. m /\ (~Filled(1) => Seen(done[1].urb))
  BY <1>1 DEF Read
<1>4. \/ cur' = done[1].urb /\ (handler' = "resubmit" => ~Filled(1))
      \/ cur' = cur /\ handler' = "idle" /\ ~Filled(1)
  BY <1>1, Begins DEF ReadFatal, ReadStart, Filled
<1>5. \A v \in Urbs : Seen(v) \/ \E j \in 1 .. m : done[j].urb = v
  <2>1. \A v \in Urbs : v # cur
    BY <1>1, RingTyped
  <2> QED
    BY <2>1 DEF Read
<1> HIDE DEF m
<1>6. \A v \in Urbs : Seen(v) \/ v = cur' \/ \E j \in 1 .. m - 1 : done'[j].urb = v
  <2> SUFFICES ASSUME NEW v \in Urbs, ~Seen(v), v # cur'
               PROVE  \E j \in 1 .. m - 1 : done'[j].urb = v
    OBVIOUS
  <2>1. PICK j \in 1 .. m : done[j].urb = v
    BY <1>5
  <2>2. j # 1
    BY <1>3, <1>4, <2>1
  <2>3. j - 1 \in 1 .. m - 1 /\ done'[j - 1] = done[j]
    BY <1>1, <2>2
  <2> QED
    BY <2>1, <2>3
<1>7. \A j \in 1 .. m - 1 : ~Filled(j)' => Seen(done'[j].urb)
  <2> SUFFICES ASSUME NEW j \in 1 .. m - 1, ~Filled(j)'
               PROVE  Seen(done'[j].urb)
    OBVIOUS
  <2>1. j + 1 \in 1 .. m /\ done'[j] = done[j + 1] /\ ~Filled(j + 1)
    BY <1>1 DEF Filled
  <2> QED
    BY <2>1 DEF Read, m
<1>8. handler' = "resubmit" => Seen(cur')
  BY <1>3, <1>4
<1> QED
  BY <1>1, <1>2, <1>6, <1>7, <1>8 DEF Read

(* The message of the handler is in the log now.                           *)
LEMMA DispatchRead ==
  ASSUME TypeInv, Handling, Read, canguru_process_msg_list
  PROVE  Read'
<1>1. /\ cur \in Urbs /\ log' = Append(log, buffer[cur])
      /\ UNCHANGED <<cur, done, buffer>>
  BY DEF canguru_process_msg_list, Handling
<1>2. /\ Len(log) \in Nat /\ Len(log') = Len(log) + 1
      /\ log'[Len(log) + 1] = buffer[cur]
      /\ \A k \in 1 .. Len(log) : log'[k] = log[k]
  BY <1>1, RingTyped, Appended
<1>3. \A v : Seen(v) => Seen(v)'
  <2>1. \A k \in 1 .. Len(log) : k \in 1 .. Len(log')
    BY <1>2
  <2> QED
    BY <1>1, <1>2, <2>1 DEF Seen
<1>4. Seen(cur)'
  <2>1. Len(log) + 1 \in 1 .. Len(log')
    BY <1>2
  <2> QED
    BY <1>1, <1>2, <2>1 DEF Seen
<1>5. \A j \in 1 .. Len(done) : Filled(j)' <=> Filled(j)
  BY <1>1 DEF Filled
<1> QED
  BY <1>1, <1>3, <1>4, <1>5 DEF Read

(* Every step keeps unread messages out of reach of the controller.        *)
LEMMA ReadStep ==
  ASSUME TypeInv, Handling, Placed, Read, [Next]_vars
  PROVE  Read'
<1>1. CASE Aside
  BY <1>1, AsideKeeps DEF Read, Filled, Seen
<1>2. CASE TransferFails
  <2>1. PICK status \in RxStatus : Complete(status)
    BY <1>2 DEF TransferFails, RxStatus
  <2>2. /\ Len(done') = Len(done) + 1 /\ done'[Len(done) + 1].urb = queue[1]
        /\ \A j \in 1 .. Len(done) : done'[j] = done[j]
        /\ UNCHANGED <<buffer, log, handler, cur>>
        /\ Len(done) \in Nat /\ Len(queue) \in Nat \ {0}
    BY <1>2, <2>1, Completes, RingTyped DEF TransferFails
  <2>3. /\ Len(done) <= Len(done') /\ Len(done') \in Nat /\ 1 \in 1 .. Len(queue)
        /\ \A j \in Len(done) + 1 .. Len(done') : j = Len(done) + 1
    BY <2>2
  <2> QED
    BY <2>2, <2>3, CompletedRead
<1>3. CASE CoreDisable
  <2>1. /\ Len(done') = Len(done) + Len(queue)
        /\ \A j \in 1 .. Len(done) : done'[j] = done[j]
        /\ \A j \in Len(done) + 1 .. Len(done) + Len(queue) :
             /\ j - Len(done) \in 1 .. Len(queue)
             /\ done'[j].urb = queue[j - Len(done)]
        /\ UNCHANGED <<buffer, log, handler, cur>>
        /\ Len(done) \in Nat /\ Len(queue) \in Nat
    BY <1>3, Disables, RingTyped
  <2>2. Len(done) <= Len(done') /\ Len(done') \in Nat
    BY <2>1
  <2> QED
    BY <2>1, <2>2, CompletedRead
<1>4. CASE Resubmit
  <2>1. /\ handler = "resubmit" /\ handler' = "idle"
        /\ UNCHANGED <<done, buffer, log>>
    BY <1>4 DEF Resubmit
  <2>2. Seen(cur)
    BY <2>1 DEF Read
  <2> QED
    BY <2>1, <2>2 DEF Read, Filled, Seen
<1>5. CASE RxInitUrb
  BY <1>5 DEF RxInitUrb, Read, Filled, Seen
<1>6. CASE UNCHANGED vars
  BY <1>6 DEF vars, Read, Filled, Seen
<1> QED
  BY <1>1, <1>2, <1>3, <1>4, <1>5, <1>6, TransferRead, BeginRead, DispatchRead
     DEF Next, Aside, ReadHandler

-----------------------------------------------------------------------------
(* The theorems.                                                           *)

(* Every step of the probe, of the controller, of canguru_read_bulk_       *)
(* callback and of the disconnect keeps the invariant.                     *)
THEOREM Inductive == Spec => []IInv
<1>1. Init => IInv
  BY InitHolds
<1>2. IInv /\ [Next]_vars => IInv'
  BY TypeStep, HandlingStep, PlacedStep, TallyStep, OrderedStep, ReadStep,
     ReleasedStep DEF IInv
<1> QED
  BY <1>1, <1>2, PTL DEF Spec

(* The state of the transport is well typed.                               *)
THEOREM TypeCorrect == Spec => []TypeInv
<1>1. IInv => TypeInv
  BY DEF IInv
<1> QED
  BY <1>1, Inductive, PTL

(* RX URBs are lost only to a fatal status or a failed submit; the others  *)
(* are in one place each, and curr_msg_data never points into a buffer of  *)
(* the controller.                                                         *)
THEOREM ConservesRing == Spec => []RingConserved
<1>1. IInv => RingConserved
  <2> SUFFICES ASSUME IInv PROVE RingConserved
    OBVIOUS
  <2> USE DEF IInv
  <2>1. /\ DOMAIN queue = 1 .. Len(queue) /\ DOMAIN done = 1 .. Len(done)
        /\ \A j \in 1 .. Len(done) : done[j].urb >= 1
        /\ \A i \in 1 .. Len(queue) : queue[i] >= 1
    BY RingTyped, LenProperties
  <2>2. /\ ToSet(queue) = {queue[i] : i \in 1 .. Len(queue)}
        /\ Completed = {done[j].urb : j \in 1 .. Len(done)}
    BY <2>1 DEF ToSet, Completed
  <2>3. IsInjective(queue)
    BY <2>1 DEF IsInjective, Placed
  <2>4. \A i, j \in DOMAIN done : done[i].urb = done[j].urb => i = j
    BY <2>1 DEF Placed
  <2>5. ToSet(queue) \cap Completed = {}
    BY <2>2 DEF Placed
  <2>6. (ToSet(queue) \cup Completed) \cap InHandler = {}
    BY <2>2 DEF Placed, InHandler
  <2>7. Cardinality(InHandler) = IF handler = "idle" THEN 0 ELSE 1
    BY FS_EmptySet, FS_Singleton DEF InHandler
  <2>8. idx = Len(queue) + Cardinality({i \in DOMAIN done : done[i].status # "fatal"})
              + Cardinality(InHandler) + faults
    BY <2>7 DEF Tally, Live
  <2>9. curr_msg \notin ToSet(queue)
    BY <2>1, <2>2 DEF Placed, Handling, TypeInv
  <2> QED
    BY <2>3, <2>4, <2>5, <2>6, <2>8, <2>9 DEF RingConserved
<1> QED
  BY <1>1, Inductive, PTL

(* Messages are dispatched in the order the device sent them, none twice.  *)
THEOREM DispatchesInOrder == Spec => []InOrder
<1>1. IInv => InOrder
  <2> SUFFICES ASSUME IInv, NEW i \in 2 .. Len(log)
               PROVE  log[i - 1] < log[i]
    BY DEF InOrder
  <2>1. Len(log) \in Nat
    BY RingTyped DEF IInv
  <2>2. i - 1 \in 1 .. Len(log) /\ i \in 1 .. Len(log) /\ i - 1 < i
    BY <2>1
  <2> QED
    BY <2>2 DEF IInv, Ordered
<1> QED
  BY <1>1, Inductive, PTL

(* No buffer is given back to the controller before its message was read.  *)
THEOREM ReadsBeforeResubmit == Spec => []NotOverwritten
<1>1. IInv => NotOverwritten
  <2> SUFFICES ASSUME IInv, NEW u \in Urbs \ (Completed \cup InHandler), buffer[u] # 0
               PROVE  buffer[u] \in ToSet(log)
    BY DEF NotOverwritten
  <2>1. DOMAIN done = 1 .. Len(done) /\ DOMAIN log = 1 .. Len(log) /\ u # 0
    BY RingTyped, LenProperties DEF IInv
  <2>2. \A j \in 1 .. Len(done) : done[j].urb # u
    BY <2>1 DEF Completed
  <2>3. u # cur
    BY <2>1 DEF InHandler, IInv, Handling
  <2>4. Seen(u)
    BY <2>2, <2>3 DEF IInv, Read
  <2> QED
    BY <2>1, <2>4 DEF Seen, ToSet
<1> QED
  BY <1>1, Inductive, PTL

(* The released structure is used only after a probe that failed, or by an *)
(* URB that had been resubmitted.                                          *)
THEOREM OutlivedOnlySo == Spec => []Lifetime
<1>1. IInv => Lifetime
  BY DEF IInv, Released, Lifetime
<1> QED
  BY <1>1, Inductive, PTL
=============================================================================
