---------------------------- MODULE GuruBootProofs ----------------------------
(***************************************************************************)
(* Proofs about the boot devices, for any adapters, any number of minors   *)
(* and any files, whether or not adapters come and go at the same time;    *)
(* and about loading and unloading the driver around them.  There are      *)
(* three inductive invariants, each of which rests on the first: IInv,     *)
(* about nodes and table; OneByOne, about adapters that come and go one at *)
(* a time; CdevInv, about the cdevs and the files.                         *)
(***************************************************************************)
EXTENDS GuruDrv, SequenceTheorems, FiniteSetTheorems, TLAPS

(* The types of what the table and the nodes depend on.                    *)
Typed ==
  /\ at \in [Guru -> Steps]
  /\ minor_num \in [Guru -> Minors]
  /\ guru_boot_table \in [Minors -> Guru \cup {NULL}]
  /\ node \in [Minors -> Guru \cup {NULL}]

IInv == Typed /\ NodeKept /\ NoStranger

(* Nobody is there yet.                                                    *)
LEMMA InitHolds == Init => IInv
<1> SUFFICES ASSUME Init PROVE IInv
  OBVIOUS
<1> USE BootAssumption DEF Init
<1>1. 0 \in Minors
  BY DEF Minors
<1>2. Typed
  BY <1>1 DEF Typed, Steps
<1>3. NodeKept /\ NoStranger
  BY DEF NodeKept, NoStranger, HasNode
<1> QED
  BY <1>2, <1>3 DEF IInv

(* A step that moves one adapter, and neither the nodes nor the table: it  *)
(* may not come to hold a node, nor leave the steps of one in the table.   *)
LEMMA MoveStep ==
  ASSUME IInv, NEW g \in Guru, NEW step \in Steps, Goto(g, step),
         UNCHANGED <<node, guru_boot_table>>,
         minor_num' \in [Guru -> Minors],
         \A h \in Guru : h # g => minor_num'[h] = minor_num[h],
         step \in HasNode => at[g] \in HasNode /\ minor_num'[g] = minor_num[g],
         at[g] \in {"serial", "live", "undevice", "untable"} =>
           /\ step \in {"serial", "live", "undevice", "untable"}
           /\ minor_num'[g] = minor_num[g]
  PROVE  IInv'
<1>1. /\ at' \in [Guru -> Steps] /\ at'[g] = step
      /\ \A h \in Guru : h # g => at'[h] = at[h]
  BY DEF Goto, IInv, Typed
<1>2. Typed'
  BY <1>1 DEF IInv, Typed
<1>3. NodeKept'
  BY <1>1 DEF IInv, NodeKept
<1>4. NoStranger'
  <2> SUFFICES ASSUME NEW m \in Minors, guru_boot_table[m] # NULL
               PROVE  /\ at'[guru_boot_table[m]] \in
                           {"serial", "live", "undevice", "untable"}
                      /\ minor_num'[guru_boot_table[m]] = m
    BY DEF NoStranger
  <2>1. PICK h \in Guru : h = guru_boot_table[m]
    BY DEF IInv, Typed
  <2>2. at[h] \in {"serial", "live", "undevice", "untable"} /\ minor_num[h] = m
    BY <2>1 DEF IInv, NoStranger
  <2> QED
    BY <1>1, <2>1, <2>2
<1> QED
  BY <1>2, <1>3, <1>4 DEF IInv

(* The steps of an adapter that is in the middle of the scan.              *)
LEMMA ScanStep ==
  ASSUME IInv, NEW g \in Guru, Scan(g)
  PROVE  IInv'
<1> USE DEF Scan
<1>1. CASE minor_num' = minor_num
  <2>1. PICK step \in {"cdev", "out"} : Goto(g, step)
    BY <1>1, BootAssumption DEF IInv, Typed, Minors
  <2> QED
    BY <1>1, <2>1, MoveStep DEF IInv, Typed, HasNode, Steps
<1>2. CASE /\ minor_num[g] < GURU_DEV_MAX - 1
           /\ minor_num' = [minor_num EXCEPT ![g] = @ + 1]
           /\ UNCHANGED at
  <2>1. minor_num[g] + 1 \in Minors
    BY <1>2, BootAssumption DEF IInv, Typed, Minors
  <2>2. /\ minor_num' \in [Guru -> Minors]
        /\ \A h \in Guru : h # g => minor_num'[h] = minor_num[h]
    BY <1>2, <2>1 DEF IInv, Typed
  <2>3. Goto(g, "scan")
    BY <1>2 DEF Goto, IInv, Typed
  <2> QED
    BY <2>2, <2>3, MoveStep DEF HasNode, Steps
<1> QED
  BY <1>1, <1>2

(* A node is created only where there is none.                             *)
LEMMA CreateStep ==
  ASSUME IInv, NEW g \in Guru, device_create(g)
  PROVE  IInv'
<1> USE DEF device_create
<1>1. CASE /\ node[minor_num[g]] = NULL
           /\ node' = [node EXCEPT ![minor_num[g]] = g]
           /\ Goto(g, "table")
  <2>1. /\ at' \in [Guru -> Steps] /\ at'[g] = "table" /\ minor_num[g] \in Minors
        /\ \A h \in Guru : h # g => at'[h] = at[h]
    BY <1>1 DEF Goto, IInv, Typed, Steps
  <2>2. /\ node' \in [Minors -> Guru \cup {NULL}] /\ node'[minor_num[g]] = g
        /\ \A m \in Minors : m # minor_num[g] => node'[m] = node[m]
    BY <1>1, <2>1 DEF IInv, Typed
  <2>3. Typed'
    BY <2>1, <2>2 DEF IInv, Typed
  <2>4. \A h \in Guru : h # g /\ at[h] \in HasNode => minor_num[h] # minor_num[g]
    BY <1>1, BootAssumption DEF IInv, NodeKept
  <2>5. \A h \in Guru : minor_num[h] \in Minors
    BY DEF IInv, Typed
  <2>6. NodeKept'
    BY <2>1, <2>2, <2>4, <2>5 DEF IInv, NodeKept
  <2>7. \A m \in Minors : guru_boot_table[m] # g
    BY BootAssumption DEF IInv, NoStranger
  <2>8. NoStranger'
    BY <2>1, <2>7 DEF IInv, Typed, NoStranger
  <2> QED
    BY <2>3, <2>6, <2>8 DEF IInv
<1>2. CASE Goto(g, "out") /\ UNCHANGED node
  BY <1>2, MoveStep DEF IInv, Typed, HasNode, Steps
<1> QED
  BY <1>1, <1>2

(* The adapter is entered under its own number.                            *)
LEMMA EnterStep ==
  ASSUME IInv, NEW g \in Guru, EnterTable(g)
  PROVE  IInv'
<1> USE DEF EnterTable
<1>1. /\ at' \in [Guru -> Steps] /\ at'[g] = "serial" /\ minor_num[g] \in Minors
      /\ \A h \in Guru : h # g => at'[h] = at[h]
  BY DEF Goto, IInv, Typed, Steps
<1>2. /\ guru_boot_table' \in [Minors -> Guru \cup {NULL}]
      /\ guru_boot_table'[minor_num[g]] = g
      /\ \A m \in Minors : m # minor_num[g] =>
           guru_boot_table'[m] = guru_boot_table[m]
  BY <1>1 DEF IInv, Typed
<1>3. Typed'
  BY <1>1, <1>2 DEF IInv, Typed
<1>4. NodeKept'
  BY <1>1 DEF IInv, NodeKept, HasNode
<1>5. NoStranger'
  <2> SUFFICES ASSUME NEW m \in Minors, guru_boot_table'[m] # NULL
               PROVE  /\ at'[guru_boot_table'[m]] \in
                           {"serial", "live", "undevice", "untable"}
                      /\ minor_num[guru_boot_table'[m]] = m
    BY DEF NoStranger
  <2>1. CASE m = minor_num[g]
    BY <1>1, <1>2, <2>1
  <2>2. CASE m # minor_num[g]
    <3>1. PICK h \in Guru : h = guru_boot_table[m] /\ h = guru_boot_table'[m]
      BY <1>2, <2>2 DEF IInv, Typed
    <3>2. /\ at[h] \in {"serial", "live", "undevice", "untable"}
          /\ minor_num[h] = m
      BY <1>2, <2>2, <3>1 DEF IInv, NoStranger
    <3> QED
      BY <1>1, <2>2, <3>1, <3>2
  <2> QED
    BY <2>1, <2>2
<1> QED
  BY <1>3, <1>4, <1>5 DEF IInv

(* The node destroyed is the adapter's own: nobody else had the number.    *)
LEMMA DestroyStep ==
  ASSUME IInv, NEW g \in Guru, device_destroy(g)
  PROVE  IInv'
<1> USE DEF device_destroy
<1>1. /\ at' \in [Guru -> Steps] /\ at'[g] = "untable" /\ minor_num[g] \in Minors
      /\ \A h \in Guru : h # g => at'[h] = at[h]
  BY DEF Goto, IInv, Typed, Steps
<1>2. /\ node' \in [Minors -> Guru \cup {NULL}]
      /\ \A m \in Minors : m # minor_num[g] => node'[m] = node[m]
  BY <1>1 DEF IInv, Typed
<1>3. Typed'
  BY <1>1, <1>2 DEF IInv, Typed
<1>4. \A h \in Guru : h # g /\ at[h] \in HasNode => minor_num[h] # minor_num[g]
  BY DEF IInv, NodeKept, HasNode
<1>5. \A h \in Guru : minor_num[h] \in Minors
  BY DEF IInv, Typed
<1>6. NodeKept'
  BY <1>1, <1>2, <1>4, <1>5 DEF IInv, NodeKept, HasNode
<1>7. NoStranger'
  <2> SUFFICES ASSUME NEW m \in Minors, guru_boot_table[m] # NULL
               PROVE  /\ at'[guru_boot_table[m]] \in
                           {"serial", "live", "undevice", "untable"}
                      /\ minor_num[guru_boot_table[m]] = m
    BY DEF NoStranger
  <2>1. PICK h \in Guru : h = guru_boot_table[m]
    BY DEF IInv, Typed
  <2> QED
    BY <1>1, <2>1 DEF IInv, NoStranger
<1> QED
  BY <1>3, <1>6, <1>7 DEF IInv

(* The entry under the adapter's number is erased, and with it the only    *)
(* one that can be its own.                                                *)
LEMMA LeaveStep ==
  ASSUME IInv, NEW g \in Guru, LeaveTable(g)
  PROVE  IInv'
<1> USE DEF LeaveTable
<1>1. /\ at' \in [Guru -> Steps] /\ at'[g] = "uncdev" /\ minor_num[g] \in Minors
      /\ \A h \in Guru : h # g => at'[h] = at[h]
  BY DEF Goto, IInv, Typed, Steps
<1>2. /\ guru_boot_table' \in [Minors -> Guru \cup {NULL}]
      /\ guru_boot_table'[minor_num[g]] = NULL
      /\ \A m \in Minors : m # minor_num[g] =>
           guru_boot_table'[m] = guru_boot_table[m]
  BY <1>1 DEF IInv, Typed
<1>3. Typed'
  BY <1>1, <1>2 DEF IInv, Typed
<1>4. NodeKept'
  BY <1>1 DEF IInv, NodeKept, HasNode
<1>5. NoStranger'
  <2> SUFFICES ASSUME NEW m \in Minors, guru_boot_table'[m] # NULL
               PROVE  /\ at'[guru_boot_table'[m]] \in
                           {"serial", "live", "undevice", "untable"}
                      /\ minor_num[guru_boot_table'[m]] = m
    BY DEF NoStranger
  <2>1. m # minor_num[g] /\ guru_boot_table'[m] = guru_boot_table[m]
    BY <1>2
  <2>2. PICK h \in Guru : h = guru_boot_table[m]
    BY <2>1 DEF IInv, Typed
  <2>3. at[h] \in {"serial", "live", "undevice", "untable"} /\ minor_num[h] = m
    BY <2>1, <2>2 DEF IInv, NoStranger
  <2> QED
    BY <1>1, <2>1, <2>2, <2>3
<1> QED
  BY <1>3, <1>4, <1>5 DEF IInv

(* The steps that move an adapter and touch neither nodes nor table.       *)
LEMMA OtherStep ==
  ASSUME IInv, NEW g \in Guru,
         \/ guru_boot_create(g) \/ cdev_add(g) \/ guru_sn_init(g)
         \/ guru_boot_destroy(g) \/ DeleteCdev(g)
  PROVE  IInv'
<1>1. CASE guru_boot_create(g)
  <2>1. 0 \in Minors
    BY BootAssumption DEF Minors
  <2>2. /\ minor_num' \in [Guru -> Minors]
        /\ \A h \in Guru : h # g => minor_num'[h] = minor_num[h]
    BY <1>1, <2>1 DEF guru_boot_create, IInv, Typed
  <2> QED
    BY <1>1, <2>2, MoveStep DEF guru_boot_create, HasNode, Steps
<1>2. CASE cdev_add(g)
  <2>1. PICK step \in {"device", "out"} : Goto(g, step)
    BY <1>2 DEF cdev_add
  <2> QED
    BY <1>2, <2>1, MoveStep DEF cdev_add, IInv, Typed, HasNode, Steps
<1>3. CASE guru_sn_init(g)
  <2>1. PICK step \in {"live", "undevice"} : Goto(g, step)
    BY <1>3 DEF guru_sn_init
  <2> QED
    BY <1>3, <2>1, MoveStep DEF guru_sn_init, IInv, Typed, HasNode, Steps
<1>4. CASE guru_boot_destroy(g)
  BY <1>4, MoveStep DEF guru_boot_destroy, IInv, Typed, HasNode, Steps
<1>5. CASE DeleteCdev(g)
  BY <1>5, MoveStep DEF DeleteCdev, IInv, Typed, HasNode, Steps
<1> QED
  BY <1>1, <1>2, <1>3, <1>4, <1>5

(* IInv is inductive.                                                      *)
THEOREM Inductive == Spec => []IInv
<1>1. IInv /\ [Next]_vars => IInv'
  <2> SUFFICES ASSUME IInv, [Next]_vars PROVE IInv'
    OBVIOUS
  <2>1. CASE UNCHANGED vars
    BY <2>1 DEF IInv, vars, Typed, NodeKept, NoStranger
  <2>2. CASE Arrive \/ Proceed
    BY <2>2, ScanStep, CreateStep, EnterStep, DestroyStep, LeaveStep, OtherStep
       DEF Arrive, Proceed
  <2>3. CASE \E f \in File : guru_boot_open(f) \/ Close(f)
    BY <2>3 DEF guru_boot_open, Close, IInv, Typed, NodeKept, NoStranger
  <2> QED
    BY <2>1, <2>2, <2>3 DEF Next
<1> QED
  BY <1>1, InitHolds, PTL DEF Spec

(* An adapter keeps its device node, and so its number, until it destroys  *)
(* it itself, however probes and disconnects interleave.                   *)
THEOREM KeepsNode == Spec => []NodeKept
  BY Inductive, PTL DEF IInv

(* guru_boot_table never points at an adapter that is gone.                *)
THEOREM KnowsNoStranger == Spec => []NoStranger
  BY Inductive, PTL DEF IInv

-----------------------------------------------------------------------------
(* Adapters that come and go one at a time.                                *)

(* At most one is at work.                                                 *)
Alone ==
  \A g, h \in Guru : g # h => at[g] \in {"out", "live"} \/ at[h] \in {"out", "live"}

(* The table differs from the nodes only at the number of an adapter that  *)
(* has changed one of the two and not yet the other.                       *)
Behind ==
  \A m \in Minors : \/ guru_boot_table[m] = node[m]
                    \/ \E g \in Guru : /\ at[g] \in {"table", "untable"}
                                       /\ minor_num[g] = m

(* On its way out an adapter has destroyed its node ...                    *)
Unnoded == \A g \in Guru : at[g] = "untable" => node[minor_num[g]] = NULL

(* ... and on its way in it has passed over entries in use only.           *)
Scanned ==
  \A g \in Guru : at[g] = "scan" =>
    \A m \in Minors : m < minor_num[g] => guru_boot_table[m] # NULL

OneByOne == ~overlapped => Alone /\ Behind /\ Unnoded /\ Scanned

(* Who moves while nobody else is at work.                                 *)
LEMMA AloneStep ==
  ASSUME IInv, Alone, NEW g \in Guru, NEW step \in Steps, Goto(g, step),
         at[g] \notin {"out", "live"} \/ ~Busy
  PROVE  /\ Alone'
         /\ at'[g] = step
         /\ \A h \in Guru : h # g => at'[h] = at[h] /\ at[h] \in {"out", "live"}
<1>1. /\ at'[g] = step
      /\ \A h \in Guru : h # g => at'[h] = at[h]
  BY DEF Goto, IInv, Typed
<1>2. \A h \in Guru : h # g => at[h] \in {"out", "live"}
  BY DEF Alone, Busy
<1> QED
  BY <1>1, <1>2 DEF Alone

(* The two steps that begin, and those that leave table and nodes alone:   *)
(* the mover changes neither side of any entry.                            *)
LEMMA KeepStep ==
  ASSUME IInv, Alone, Behind, Unnoded, Scanned,
         NEW g \in Guru, NEW step \in Steps, Goto(g, step),
         at[g] \notin {"out", "live"} \/ ~Busy,
         UNCHANGED <<node, guru_boot_table>>,
         at[g] \notin {"table", "untable"}, step # "untable",
         step = "scan" =>
           \A m \in Minors : m < minor_num'[g] => guru_boot_table[m] # NULL
  PROVE  Alone' /\ Behind' /\ Unnoded' /\ Scanned'
<1>1. /\ Alone' /\ at'[g] = step
      /\ \A h \in Guru : h # g => at'[h] = at[h] /\ at[h] \in {"out", "live"}
  BY AloneStep
<1>2. \A m \in Minors : guru_boot_table[m] = node[m]
  BY <1>1 DEF Behind
<1> QED
  BY <1>1, <1>2 DEF Behind, Unnoded, Scanned

(* An adapter at work alone keeps table and nodes in agreement.            *)
LEMMA OneByOneStep ==
  ASSUME IInv, OneByOne, NEW g \in Guru, ~overlapped',
         \/ guru_boot_create(g) \/ Scan(g) \/ cdev_add(g) \/ device_create(g)
         \/ EnterTable(g) \/ guru_sn_init(g) \/ guru_boot_destroy(g)
         \/ device_destroy(g) \/ LeaveTable(g) \/ DeleteCdev(g)
  PROVE  Alone' /\ Behind' /\ Unnoded' /\ Scanned'
<1>1. ~overlapped
  BY DEF guru_boot_create, Scan, cdev_add, device_create, EnterTable, opened,
         guru_sn_init, guru_boot_destroy, device_destroy, LeaveTable, DeleteCdev
<1>2. Alone /\ Behind /\ Unnoded /\ Scanned
  BY <1>1 DEF OneByOne
<1>3. minor_num \in [Guru -> Minors] /\ minor_num[g] \in Minors
  BY DEF IInv, Typed
<1>4. CASE guru_boot_create(g)
  <2>1. ~Busy /\ Goto(g, "scan") /\ at[g] = "out" /\ minor_num'[g] = 0
    BY <1>3, <1>4 DEF guru_boot_create
  <2>2. \A m \in Minors : ~(m < 0)
    BY DEF Minors
  <2> QED
    BY <1>2, <1>4, <2>1, <2>2, KeepStep DEF guru_boot_create, Steps
<1>5. CASE Scan(g)
  <2>1. CASE minor_num' = minor_num
    <3>1. PICK step \in {"cdev", "out"} : Goto(g, step)
      BY <1>3, <1>5, <2>1, BootAssumption DEF Scan, Minors
    <3> QED
      BY <1>2, <1>5, <3>1, KeepStep DEF Scan, Steps
  <2>2. CASE /\ guru_boot_table[minor_num[g]] # NULL
             /\ minor_num' = [minor_num EXCEPT ![g] = @ + 1]
             /\ UNCHANGED at
    <3>1. minor_num'[g] = minor_num[g] + 1 /\ Goto(g, "scan") /\ at[g] = "scan"
      BY <1>3, <1>5, <2>2 DEF Goto, Scan, IInv, Typed
    <3>2. \A m \in Minors : m < minor_num[g] + 1 => m < minor_num[g] \/ m = minor_num[g]
      BY <1>3 DEF Minors
    <3>3. \A m \in Minors : m < minor_num'[g] => guru_boot_table[m] # NULL
      BY <1>2, <2>2, <3>1, <3>2 DEF Scanned
    <3> QED
      BY <1>2, <1>5, <3>1, <3>3, KeepStep DEF Scan, Steps
  <2> QED
    BY <1>5, <2>1, <2>2 DEF Scan
<1>6. CASE cdev_add(g)
  <2>1. PICK step \in {"device", "out"} : Goto(g, step)
    BY <1>6 DEF cdev_add
  <2> QED
    BY <1>2, <1>6, <2>1, KeepStep DEF cdev_add, Steps
<1>7. CASE device_create(g)
  <2>1. CASE Goto(g, "out") /\ UNCHANGED node
    BY <1>2, <1>7, <2>1, KeepStep DEF device_create, Steps
  <2>2. CASE node' = [node EXCEPT ![minor_num[g]] = g] /\ Goto(g, "table")
    <3>1. /\ Alone' /\ at'[g] = "table"
          /\ \A h \in Guru : h # g => at'[h] = at[h] /\ at[h] \in {"out", "live"}
      BY <1>2, <1>7, <2>2, AloneStep DEF device_create, Steps
    <3>2. \A m \in Minors : m # minor_num[g] => node'[m] = node[m]
      BY <1>3, <2>2 DEF IInv, Typed
    <3>3. UNCHANGED <<minor_num, guru_boot_table>> /\ at[g] = "device"
      BY <1>7 DEF device_create
    <3>4. Behind'
      BY <1>2, <3>1, <3>2, <3>3 DEF Behind
    <3>5. Unnoded' /\ Scanned'
      BY <3>1 DEF Unnoded, Scanned
    <3> QED
      BY <3>1, <3>4, <3>5
  <2> QED
    BY <1>7, <2>1, <2>2 DEF device_create
<1>8. CASE EnterTable(g) \/ LeaveTable(g)
  <2>1. PICK step \in {"serial", "uncdev"} :
          /\ Goto(g, step)
          /\ at[g] \in {"table", "untable"}
          /\ guru_boot_table' =
               [guru_boot_table EXCEPT ![minor_num[g]] = node[minor_num[g]]]
          /\ UNCHANGED <<minor_num, node>>
    <3>1. at[g] = "table" => node[minor_num[g]] = g
      BY DEF IInv, NodeKept, HasNode
    <3>2. at[g] = "untable" => node[minor_num[g]] = NULL
      BY <1>2 DEF Unnoded
    <3> QED
      BY <1>8, <3>1, <3>2 DEF EnterTable, LeaveTable
  <2>2. /\ Alone' /\ at'[g] = step
        /\ \A h \in Guru : h # g => at'[h] = at[h] /\ at[h] \in {"out", "live"}
    BY <1>2, <2>1, AloneStep DEF Steps
  <2>3. \A m \in Minors : guru_boot_table'[m] = node[m]
    BY <1>2, <1>3, <2>1, <2>2 DEF Behind, IInv, Typed
  <2>4. Behind'
    BY <2>1, <2>3 DEF Behind
  <2>5. Unnoded' /\ Scanned'
    BY <2>1, <2>2 DEF Unnoded, Scanned
  <2> QED
    BY <2>2, <2>4, <2>5
<1>9. CASE guru_sn_init(g)
  <2>1. PICK step \in {"live", "undevice"} : Goto(g, step)
    BY <1>9 DEF guru_sn_init
  <2> QED
    BY <1>2, <1>9, <2>1, KeepStep DEF guru_sn_init, Steps
<1>10. CASE guru_boot_destroy(g)
  BY <1>2, <1>10, KeepStep DEF guru_boot_destroy, Steps
<1>11. CASE device_destroy(g)
  <2>1. /\ Alone' /\ at'[g] = "untable" /\ at[g] = "undevice"
        /\ \A h \in Guru : h # g => at'[h] = at[h] /\ at[h] \in {"out", "live"}
    BY <1>2, <1>11, AloneStep DEF device_destroy, Steps
  <2>2. /\ node'[minor_num[g]] = NULL
        /\ \A m \in Minors : m # minor_num[g] => node'[m] = node[m]
        /\ UNCHANGED <<minor_num, guru_boot_table>>
    BY <1>3, <1>11 DEF device_destroy, IInv, Typed
  <2>3. Behind'
    BY <1>2, <2>1, <2>2 DEF Behind
  <2>4. Unnoded' /\ Scanned'
    BY <2>1, <2>2 DEF Unnoded, Scanned
  <2> QED
    BY <2>1, <2>3, <2>4
<1>12. CASE DeleteCdev(g)
  BY <1>2, <1>12, KeepStep DEF DeleteCdev, Steps
<1> QED
  BY <1>4, <1>5, <1>6, <1>7, <1>8, <1>9, <1>10, <1>11, <1>12

(* So they agree as long as adapters come and go one at a time.            *)
LEMMA OneByOneInvariant == Spec => []OneByOne
<1>1. Init => OneByOne
  BY BootAssumption DEF Init, OneByOne, Alone, Behind, Unnoded, Scanned
<1>2. IInv /\ OneByOne /\ [Next]_vars => OneByOne'
  <2> SUFFICES ASSUME IInv, OneByOne, [Next]_vars PROVE OneByOne'
    OBVIOUS
  <2>1. CASE UNCHANGED vars
    BY <2>1 DEF vars, opened, OneByOne, Alone, Behind, Unnoded, Scanned
  <2>2. CASE Arrive \/ Proceed
    BY <2>2, OneByOneStep DEF Arrive, Proceed, OneByOne
  <2>3. CASE \E f \in File : guru_boot_open(f) \/ Close(f)
    BY <2>3 DEF guru_boot_open, Close, OneByOne, Alone, Behind, Unnoded, Scanned
  <2> QED
    BY <2>1, <2>2, <2>3 DEF Next
<1> QED
  BY <1>1, <1>2, Inductive, PTL DEF Spec

(* The table holds the numbers in use whenever nobody is at work, provided *)
(* no two adapters came or went at the same time.                          *)
THEOREM AgreesWithNodes == Spec => []TableAgrees
<1>1. IInv /\ OneByOne => TableAgrees
  <2> SUFFICES ASSUME IInv, OneByOne, ~overlapped, ~Busy
               PROVE  guru_boot_table = node
    BY DEF TableAgrees
  <2>1. \A m \in Minors : guru_boot_table[m] = node[m]
    BY DEF OneByOne, Behind, Busy
  <2> QED
    BY <2>1 DEF IInv, Typed
<1> QED
  BY <1>1, Inductive, OneByOneInvariant, PTL

(* An adapter is refused only when all numbers are in use.                 *)
THEOREM RefusesWhenFull == Spec => RefusedOnlyWhenFull
<1> DEFINE Full == ~overlapped => \A g \in Guru : at[g] = "scan" /\ at'[g] = "out" =>
                     \A m \in Minors : node[m] # NULL
<1>1. IInv /\ OneByOne /\ [Next]_vars => [Full]_vars
  <2> SUFFICES ASSUME IInv, OneByOne, Next, ~overlapped, NEW g \in Guru,
                      at[g] = "scan", at'[g] = "out", NEW m \in Minors
               PROVE  node[m] # NULL
    OBVIOUS
  <2>1. Alone /\ Behind /\ Scanned
    BY DEF OneByOne
  <2>2. Scan(g)
    BY DEF Next, Arrive, Proceed, guru_boot_create, Scan, cdev_add, device_create,
           EnterTable, guru_sn_init, guru_boot_destroy, device_destroy, LeaveTable,
           DeleteCdev, guru_boot_open, Close, Goto, IInv, Typed
  <2>3. minor_num[g] = GURU_DEV_MAX - 1 /\ guru_boot_table[minor_num[g]] # NULL
    BY <2>2 DEF Scan, Goto, IInv, Typed
  <2>4. guru_boot_table[m] # NULL
    BY <2>1, <2>3, BootAssumption DEF Scanned, Minors
  <2>5. guru_boot_table[m] = node[m]
    BY <2>1 DEF Alone, Behind
  <2> QED
    BY <2>4, <2>5
<1> QED
  BY <1>1, Inductive, OneByOneInvariant, PTL DEF Spec, RefusedOnlyWhenFull

-----------------------------------------------------------------------------
(* The cdevs, and the files that are open.                                 *)

Present == {g \in Guru : at[g] \in HasCdev}

CdevTyped ==
  /\ cdev_map \in Seq(Guru)
  /\ i_cdev \in Guru \cup {NULL}
  /\ private_data \in [File -> Guru \cup {NULL}]
  /\ overtaken \in BOOLEAN /\ overlapped \in BOOLEAN

(* There are as many cdevs as adapters that have added one, whosever they  *)
(* are: there is always one to delete.                                     *)
Counted == Len(cdev_map) = Cardinality(Present)

(* An adapter with files open is not being probed anew.                    *)
Held ==
  \A f \in File : private_data[f] # NULL => at[private_data[f]] \notin {"scan", "cdev"}

(* The inode remembers a cdev that is registered, or that its open files   *)
(* keep.                                                                   *)
Remembered == i_cdev # NULL => at[i_cdev] \in HasCdev \/ OpenFiles(i_cdev) # {}

CdevInv == CdevTyped /\ Counted /\ MapSound /\ Held /\ Remembered

(* Removing the foremost of a sequence without repetitions.                *)
LEMMA TailOfInjective ==
  ASSUME NEW S, NEW s \in Seq(S), s # <<>>, IsInjective(s)
  PROVE  IsInjective(Tail(s)) /\ ToSet(Tail(s)) = ToSet(s) \ {Head(s)}
<1>1. /\ Tail(s) \in Seq(S) /\ Len(Tail(s)) = Len(s) - 1 /\ Len(s) \in Nat
      /\ Head(s) = s[1]
      /\ \A i \in 1 .. Len(Tail(s)) : Tail(s)[i] = s[i + 1]
  BY HeadTailProperties
<1>2. DOMAIN s = 1 .. Len(s) /\ DOMAIN Tail(s) = 1 .. Len(Tail(s))
  BY <1>1
<1>3. \A i, j \in 1 .. Len(s) : s[i] = s[j] => i = j
  BY <1>2 DEF IsInjective
<1>4. IsInjective(Tail(s))
  <2> SUFFICES ASSUME NEW i \in 1 .. Len(Tail(s)), NEW j \in 1 .. Len(Tail(s)),
                      Tail(s)[i] = Tail(s)[j]
               PROVE  i = j
    BY <1>2 DEF IsInjective
  <2>1. i + 1 \in 1 .. Len(s) /\ j + 1 \in 1 .. Len(s) /\ s[i + 1] = s[j + 1]
    BY <1>1
  <2>2. i + 1 = j + 1
    BY <1>3, <2>1
  <2> QED
    BY <2>2
<1>5. ASSUME NEW x \in ToSet(Tail(s)) PROVE x \in ToSet(s) \ {Head(s)}
  <2>1. PICK i \in 1 .. Len(Tail(s)) : x = Tail(s)[i]
    BY <1>2, <1>5 DEF ToSet
  <2>2. i + 1 \in 1 .. Len(s) /\ 1 \in 1 .. Len(s) /\ i + 1 # 1 /\ x = s[i + 1]
    BY <1>1, <2>1
  <2>3. s[i + 1] # s[1]
    BY <1>3, <2>2
  <2> QED
    BY <1>1, <1>2, <2>2, <2>3 DEF ToSet
<1>6. ASSUME NEW x \in ToSet(s) \ {Head(s)} PROVE x \in ToSet(Tail(s))
  <2>1. PICK i \in 1 .. Len(s) : x = s[i]
    BY <1>2, <1>6 DEF ToSet
  <2>2. i # 1
    BY <1>1, <1>6, <2>1
  <2>3. i - 1 \in 1 .. Len(Tail(s)) /\ (i - 1) + 1 = i
    BY <1>1, <2>1, <2>2
  <2>4. Tail(s)[i - 1] = x
    BY <1>1, <2>1, <2>3
  <2> QED
    BY <1>2, <2>3, <2>4 DEF ToSet
<1> QED
  BY <1>4, <1>5, <1>6

(* Adding to the front one that is not there yet.                          *)
LEMMA FrontOfInjective ==
  ASSUME NEW S, NEW s \in Seq(S), NEW x \in S
  PROVE  /\ <<x>> \o s \in Seq(S) /\ Len(<<x>> \o s) = Len(s) + 1
         /\ IsInjective(s) /\ x \notin ToSet(s) =>
              IsInjective(<<x>> \o s) /\ ToSet(<<x>> \o s) = ToSet(s) \cup {x}
<1>1. <<x>> \in Seq(S) /\ Len(<<x>>) = 1 /\ <<x>>[1] = x /\ Len(s) \in Nat
  OBVIOUS
<1>2. PICK t \in Seq(S) : t = <<x>> \o s
  BY <1>1, ConcatProperties
<1>3. /\ Len(t) = Len(s) + 1
      /\ \A i \in 1 .. Len(s) + 1 : t[i] = IF i <= 1 THEN x ELSE s[i - 1]
  BY <1>1, <1>2, ConcatProperties
<1>4. DOMAIN t = 1 .. Len(s) + 1 /\ DOMAIN s = 1 .. Len(s)
  BY <1>3
<1>5. t[1] = x /\ \A i \in 1 .. Len(s) : t[i + 1] = s[i]
  BY <1>1, <1>3
<1>6. \A i \in 1 .. Len(s) + 1 : i = 1 \/ \E k \in 1 .. Len(s) : i = k + 1
  <2> SUFFICES ASSUME NEW i \in 1 .. Len(s) + 1, i # 1
               PROVE  \E k \in 1 .. Len(s) : i = k + 1
    OBVIOUS
  <2>1. i - 1 \in 1 .. Len(s) /\ i = (i - 1) + 1
    BY <1>1
  <2> QED
    BY <2>1
<1>7. ASSUME IsInjective(s), x \notin ToSet(s)
      PROVE  IsInjective(t) /\ ToSet(t) = ToSet(s) \cup {x}
  <2>1. \A k \in 1 .. Len(s) : s[k] # x
    BY <1>4, <1>7 DEF ToSet
  <2>2. ASSUME NEW i \in 1 .. Len(s) + 1, NEW j \in 1 .. Len(s) + 1, t[i] = t[j]
        PROVE  i = j
    <3>1. \A k, l \in 1 .. Len(s) : s[k] = s[l] => k = l
      BY <1>4, <1>7 DEF IsInjective
    <3>2. CASE i = 1
      BY <1>5, <1>6, <2>1, <2>2, <3>2
    <3>3. CASE j = 1
      BY <1>5, <1>6, <2>1, <2>2, <3>3
    <3>4. CASE i # 1 /\ j # 1
      <4>1. PICK k \in 1 .. Len(s), l \in 1 .. Len(s) : i = k + 1 /\ j = l + 1
        BY <1>6, <3>4
      <4>2. s[k] = s[l]
        BY <1>5, <2>2, <4>1
      <4> QED
        BY <3>1, <4>1, <4>2
    <3> QED
      BY <3>2, <3>3, <3>4
  <2>3. IsInjective(t)
    BY <1>4, <2>2 DEF IsInjective
  <2>4. ToSet(t) \subseteq ToSet(s) \cup {x}
    <3> SUFFICES ASSUME NEW i \in 1 .. Len(s) + 1 PROVE t[i] \in ToSet(s) \cup {x}
      BY <1>4 DEF ToSet
    <3> QED
      BY <1>4, <1>5, <1>6 DEF ToSet
  <2>5. ToSet(s) \cup {x} \subseteq ToSet(t)
    <3>1. \A k \in 1 .. Len(s) : k + 1 \in 1 .. Len(s) + 1
      BY <1>1
    <3>2. 1 \in 1 .. Len(s) + 1
      BY <1>1
    <3> QED
      BY <1>4, <1>5, <3>1, <3>2 DEF ToSet
  <2> QED
    BY <2>3, <2>4, <2>5
<1> QED
  BY <1>2, <1>3, <1>7

(* A step of an adapter that neither adds nor deletes a cdev.              *)
LEMMA SamePresent ==
  ASSUME IInv, CdevInv, NEW g \in Guru, NEW step \in Steps, Goto(g, step),
         UNCHANGED <<cdev_map, overtaken, private_data>>,
         at[g] \in HasCdev <=> step \in HasCdev,
         step \in {"scan", "cdev"} =>
           OpenFiles(g) = {} \/ at[g] \in {"scan", "cdev"},
         i_cdev' \in {i_cdev, NULL},
         overlapped' \in BOOLEAN
  PROVE  CdevInv'
<1>1. /\ at'[g] = step
      /\ \A h \in Guru : h # g => at'[h] = at[h]
  BY DEF Goto, IInv, Typed
<1>2. \A h \in Guru : at'[h] \in HasCdev <=> at[h] \in HasCdev
  BY <1>1
<1>3. Present' = Present
  BY <1>2 DEF Present
<1>4. CdevTyped'
  BY DEF CdevInv, CdevTyped
<1>5. Counted'
  BY <1>3 DEF CdevInv, Counted
<1>6. MapSound'
  BY <1>2 DEF CdevInv, MapSound
<1>7. Held'
  <2> SUFFICES ASSUME NEW f \in File, private_data[f] # NULL
               PROVE  at'[private_data[f]] \notin {"scan", "cdev"}
    BY DEF Held
  <2>1. private_data[f] \in Guru /\ at[private_data[f]] \notin {"scan", "cdev"}
    BY DEF CdevInv, CdevTyped, Held
  <2>2. private_data[f] = g => OpenFiles(g) # {}
    BY DEF OpenFiles
  <2> QED
    BY <1>1, <2>1, <2>2
<1>8. Remembered'
  <2> SUFFICES ASSUME i_cdev' = i_cdev, i_cdev # NULL
               PROVE  at'[i_cdev] \in HasCdev \/ OpenFiles(i_cdev)' # {}
    BY DEF Remembered
  <2>1. OpenFiles(i_cdev)' = OpenFiles(i_cdev) /\ i_cdev \in Guru
    BY DEF OpenFiles, CdevInv, CdevTyped
  <2> QED
    BY <1>2, <2>1 DEF CdevInv, Remembered
<1> QED
  BY <1>4, <1>5, <1>6, <1>7, <1>8 DEF CdevInv

(* The adapters that have a cdev can be counted.                           *)
LEMMA PresentFinite ==
  IsFiniteSet(Present) /\ Cardinality(Present) \in Nat
<1>1. Present \in SUBSET Guru
  BY DEF Present
<1>2. IsFiniteSet(Present)
  BY <1>1, BootAssumption, FS_Subset
<1> QED
  BY <1>2, FS_CardinalityType

(* cdev_add keeps the invariant: the new cdev is the foremost.             *)
LEMMA AddStep ==
  ASSUME IInv, CdevInv, NEW g \in Guru, at[g] = "cdev", Goto(g, "device"),
         cdev_map' = <<g>> \o cdev_map,
         UNCHANGED <<i_cdev, overtaken, private_data, overlapped>>
  PROVE  CdevInv'
<1>1. /\ at'[g] = "device"
      /\ \A h \in Guru : h # g => at'[h] = at[h]
  BY DEF Goto, IInv, Typed
<1>2. Present' = Present \cup {g} /\ g \notin Present
  BY <1>1 DEF Present, HasCdev, HasNode
<1>3. cdev_map' \in Seq(Guru) /\ Len(cdev_map') = Len(cdev_map) + 1
  BY FrontOfInjective DEF CdevInv, CdevTyped
<1>4. CdevTyped'
  BY <1>3 DEF CdevInv, CdevTyped
<1>5. Counted'
  BY <1>2, <1>3, PresentFinite, FS_AddElement DEF CdevInv, Counted
<1>6. MapSound'
  <2> SUFFICES ASSUME ~overtaken
               PROVE  IsInjective(cdev_map') /\ ToSet(cdev_map') = Present'
    BY DEF MapSound, Present
  <2>1. IsInjective(cdev_map) /\ ToSet(cdev_map) = Present
    BY DEF CdevInv, MapSound, Present
  <2> QED
    BY <1>2, <2>1, FrontOfInjective DEF CdevInv, CdevTyped
<1>7. Held'
  BY <1>1 DEF CdevInv, CdevTyped, Held
<1>8. Remembered'
  <2> SUFFICES ASSUME i_cdev # NULL
               PROVE  at'[i_cdev] \in HasCdev \/ OpenFiles(i_cdev)' # {}
    BY DEF Remembered
  <2>1. OpenFiles(i_cdev)' = OpenFiles(i_cdev) /\ i_cdev \in Guru
    BY DEF OpenFiles, CdevInv, CdevTyped
  <2> QED
    BY <1>1, <2>1 DEF CdevInv, Remembered, HasCdev
<1> QED
  BY <1>4, <1>5, <1>6, <1>7, <1>8 DEF CdevInv

(* The cdev deleted is the foremost; the inode forgets that of the adapter *)
(* unless its files are open still.                                        *)
LEMMA DelStep ==
  ASSUME IInv, CdevInv, NEW g \in Guru, at[g] \in HasCdev, Goto(g, "out"),
         cdev_del(g), UNCHANGED opened
  PROVE  CdevInv'
<1>1. /\ at'[g] = "out"
      /\ \A h \in Guru : h # g => at'[h] = at[h]
  BY DEF Goto, IInv, Typed
<1>2. Present' = Present \ {g} /\ g \in Present
  BY <1>1 DEF Present, HasCdev, HasNode
<1>3. Cardinality(Present) # 0
  BY <1>2, PresentFinite, FS_EmptySet
<1>4. cdev_map \in Seq(Guru) /\ cdev_map # <<>>
  BY <1>3 DEF CdevInv, CdevTyped, Counted
<1>5. /\ cdev_map' = Tail(cdev_map) /\ cdev_map' \in Seq(Guru)
      /\ Len(cdev_map') = Len(cdev_map) - 1
  BY <1>4, HeadTailProperties DEF cdev_del
<1>6. CdevTyped'
  BY <1>5 DEF cdev_del, opened, CdevInv, CdevTyped
<1>7. Counted'
  BY <1>2, <1>5, PresentFinite, FS_RemoveElement DEF CdevInv, Counted
<1>8. MapSound'
  <2> SUFFICES ASSUME ~overtaken'
               PROVE  IsInjective(cdev_map') /\ ToSet(cdev_map') = Present'
    BY DEF MapSound, Present
  <2>1. ~overtaken /\ Head(cdev_map) = g
    BY DEF cdev_del
  <2>2. IsInjective(cdev_map) /\ ToSet(cdev_map) = Present
    BY <2>1 DEF CdevInv, MapSound, Present
  <2> QED
    BY <1>2, <1>4, <1>5, <2>1, <2>2, TailOfInjective
<1>9. Held'
  BY <1>1 DEF CdevInv, CdevTyped, Held, opened
<1>10. Remembered'
  <2> SUFFICES ASSUME i_cdev' # NULL
               PROVE  at'[i_cdev'] \in HasCdev \/ OpenFiles(i_cdev)' # {}
    BY DEF Remembered, OpenFiles
  <2>1. /\ i_cdev' = i_cdev /\ i_cdev \in Guru
        /\ i_cdev = g => OpenFiles(g) # {}
    BY DEF cdev_del, CdevInv, CdevTyped
  <2>2. OpenFiles(i_cdev)' = OpenFiles(i_cdev)
    BY <2>1 DEF OpenFiles, opened
  <2> QED
    BY <1>1, <2>1, <2>2 DEF CdevInv, Remembered
<1> QED
  BY <1>6, <1>7, <1>8, <1>9, <1>10 DEF CdevInv

(* Every step of an adapter keeps it.                                      *)
LEMMA CdevStep ==
  ASSUME IInv, CdevInv, NEW g \in Guru,
         \/ guru_boot_create(g) \/ Scan(g) \/ cdev_add(g) \/ device_create(g)
         \/ EnterTable(g) \/ guru_sn_init(g) \/ guru_boot_destroy(g)
         \/ device_destroy(g) \/ LeaveTable(g) \/ DeleteCdev(g)
  PROVE  CdevInv'
<1>1. overlapped \in BOOLEAN /\ Busy \in BOOLEAN
  BY DEF CdevInv, CdevTyped, Busy
<1>2. CASE guru_boot_create(g)
  <2>1. overlapped' \in BOOLEAN
    BY <1>1, <1>2 DEF guru_boot_create
  <2> QED
    BY <1>2, <2>1, SamePresent
       DEF guru_boot_create, cdevVars, Steps, HasCdev, HasNode
<1>3. CASE Scan(g)
  <2>1. PICK step \in {"cdev", "out", "scan"} : Goto(g, step)
    BY <1>3 DEF Scan, Goto, IInv, Typed
  <2> QED
    BY <1>1, <1>3, <2>1, SamePresent
       DEF Scan, cdevVars, opened, Steps, HasCdev, HasNode
<1>4. CASE cdev_add(g)
  <2>1. CASE cdev_map' = <<g>> \o cdev_map /\ Goto(g, "device")
    BY <1>4, <2>1, AddStep DEF cdev_add, opened
  <2>2. CASE UNCHANGED cdev_map /\ Goto(g, "out")
    BY <1>1, <1>4, <2>2, SamePresent
       DEF cdev_add, opened, Steps, HasCdev, HasNode
  <2> QED
    BY <1>4, <2>1, <2>2 DEF cdev_add
<1>5. CASE device_create(g)
  <2>1. CASE Goto(g, "table") /\ UNCHANGED cdevVars
    BY <1>1, <1>5, <2>1, SamePresent
       DEF device_create, cdevVars, opened, Steps, HasCdev, HasNode
  <2>2. CASE Goto(g, "out") /\ cdev_del(g)
    BY <1>5, <2>2, DelStep DEF device_create, HasCdev
  <2> QED
    BY <1>5, <2>1, <2>2 DEF device_create
<1>6. CASE EnterTable(g)
  BY <1>1, <1>6, SamePresent
     DEF EnterTable, cdevVars, opened, Steps, HasCdev, HasNode
<1>7. CASE guru_sn_init(g)
  <2>1. PICK step \in {"live", "undevice"} : Goto(g, step)
    BY <1>7 DEF guru_sn_init
  <2> QED
    BY <1>1, <1>7, <2>1, SamePresent
       DEF guru_sn_init, cdevVars, opened, Steps, HasCdev, HasNode
<1>8. CASE guru_boot_destroy(g)
  <2>1. overlapped' \in BOOLEAN
    BY <1>1, <1>8 DEF guru_boot_destroy
  <2> QED
    BY <1>8, <2>1, SamePresent
       DEF guru_boot_destroy, cdevVars, Steps, HasCdev, HasNode
<1>9. CASE device_destroy(g)
  BY <1>1, <1>9, SamePresent
     DEF device_destroy, opened, Steps, HasCdev, HasNode
<1>10. CASE LeaveTable(g)
  BY <1>1, <1>10, SamePresent
     DEF LeaveTable, cdevVars, opened, Steps, HasCdev, HasNode
<1>11. CASE DeleteCdev(g)
  BY <1>11, DelStep DEF DeleteCdev, HasCdev
<1> QED
  BY <1>2, <1>3, <1>4, <1>5, <1>6, <1>7, <1>8, <1>9, <1>10, <1>11

(* What the node leads to is registered, or remembered.                    *)
LEMMA ReachedPresent ==
  ASSUME IInv, CdevInv, ~overtaken, Reached # NULL
  PROVE  /\ Reached \in Guru
         /\ at[Reached] \in HasCdev \/ OpenFiles(Reached) # {}
<1>1. CASE i_cdev # NULL
  BY <1>1 DEF Reached, CdevInv, CdevTyped, Remembered
<1>2. CASE i_cdev = NULL
  <2>1. cdev_map # <<>> /\ Reached = Head(cdev_map)
    BY <1>2 DEF Reached
  <2>2. 1 \in DOMAIN cdev_map /\ Head(cdev_map) = cdev_map[1]
    BY <2>1 DEF CdevInv, CdevTyped
  <2>3. Reached \in ToSet(cdev_map)
    BY <2>1, <2>2 DEF ToSet
  <2> QED
    BY <2>3 DEF CdevInv, MapSound
<1> QED
  BY <1>1, <1>2

(* Opening and closing a node keeps it.                                    *)
LEMMA FileStep ==
  ASSUME IInv, CdevInv, NEW f \in File, guru_boot_open(f) \/ Close(f)
  PROVE  CdevInv'
<1>1. UNCHANGED <<at, cdev_map, overtaken, overlapped>>
  BY DEF guru_boot_open, Close
<1>2. private_data \in [File -> Guru \cup {NULL}] /\ i_cdev \in Guru \cup {NULL}
  BY DEF CdevInv, CdevTyped
<1>3. Counted' /\ MapSound'
  BY <1>1 DEF CdevInv, Counted, MapSound, Present
<1>4. CASE guru_boot_open(f)
  <2>1. PICK r : r = Reached
    OBVIOUS
  <2>2. /\ ~overtaken /\ r # NULL /\ i_cdev' = r
        /\ private_data' = [private_data EXCEPT ![f] = r]
    BY <1>4, <2>1 DEF guru_boot_open
  <2>3. r \in Guru /\ (at[r] \in HasCdev \/ OpenFiles(r) # {})
    BY <2>1, <2>2, ReachedPresent
  <2>4. /\ private_data' \in [File -> Guru \cup {NULL}] /\ private_data'[f] = r
        /\ \A e \in File : e # f => private_data'[e] = private_data[e]
    BY <1>2, <2>2, <2>3
  <2>5. CdevTyped'
    BY <1>1, <2>2, <2>3, <2>4 DEF CdevInv, CdevTyped
  <2>6. at[r] \notin {"scan", "cdev"}
    BY <2>2, <2>3 DEF OpenFiles, CdevInv, Held, HasCdev, HasNode
  <2>7. Held'
    BY <1>1, <2>4, <2>6 DEF CdevInv, Held
  <2>8. Remembered'
    BY <2>2, <2>4 DEF Remembered, OpenFiles
  <2> QED
    BY <1>3, <2>5, <2>7, <2>8 DEF CdevInv
<1>5. CASE Close(f)
  <2>1. PICK g : g = private_data[f]
    OBVIOUS
  <2>2. /\ g \in Guru /\ private_data' = [private_data EXCEPT ![f] = NULL]
        /\ i_cdev' = IF i_cdev = g /\ at[g] = "out" /\ OpenFiles(g) = {f}
                     THEN NULL ELSE i_cdev
    BY <1>2, <1>5, <2>1 DEF Close
  <2>3. /\ private_data' \in [File -> Guru \cup {NULL}] /\ private_data'[f] = NULL
        /\ \A e \in File : e # f => private_data'[e] = private_data[e]
    BY <1>2, <2>2
  <2>4. CdevTyped'
    BY <1>1, <2>2, <2>3 DEF CdevInv, CdevTyped
  <2>5. Held'
    BY <1>1, <2>3 DEF CdevInv, Held
  <2>6. Remembered'
    <3> SUFFICES ASSUME i_cdev' # NULL
                 PROVE  at[i_cdev] \in HasCdev \/ OpenFiles(i_cdev)' # {}
      BY <1>1, <2>2 DEF Remembered, OpenFiles
    <3>1. CASE i_cdev = g
      <4>1. at[g] \in HasCdev \cup {"out"}
        BY <2>1, <2>2, BootAssumption
           DEF IInv, Typed, CdevInv, Held, Steps, HasCdev, HasNode
      <4>2. CASE at[g] = "out"
        <5>1. OpenFiles(g) # {f} /\ f \in OpenFiles(g)
          BY <2>1, <2>2, <3>1, <4>2 DEF OpenFiles
        <5>2. PICK e \in File : e # f /\ private_data[e] = g
          BY <5>1 DEF OpenFiles
        <5> QED
          BY <2>2, <2>3, <3>1, <5>2 DEF OpenFiles
      <4> QED
        BY <3>1, <4>1, <4>2
    <3>2. CASE i_cdev # g
      BY <2>1, <2>2, <2>3, <3>2 DEF CdevInv, Remembered, OpenFiles
    <3> QED
      BY <3>1, <3>2
  <2> QED
    BY <1>3, <2>4, <2>5, <2>6 DEF CdevInv
<1> QED
  BY <1>4, <1>5

(* So it holds in every reachable state.                                   *)
LEMMA CdevInvariant == Spec => []CdevInv
<1>1. Init => CdevInv
  <2> SUFFICES ASSUME Init PROVE CdevInv
    OBVIOUS
  <2>1. Present = {}
    BY DEF Init, Present, HasCdev, HasNode
  <2>2. CdevTyped
    <3>1. <<>> \in Seq(Guru) /\ FALSE \in BOOLEAN
      OBVIOUS
    <3>2. private_data \in [File -> Guru \cup {NULL}]
      BY DEF Init
    <3> QED
      BY <3>1, <3>2 DEF Init, CdevTyped
  <2>3. Counted
    BY <2>1, FS_EmptySet DEF Init, Counted
  <2>4. MapSound
    BY <2>1 DEF Init, MapSound, Present, IsInjective, ToSet
  <2>5. Held /\ Remembered
    BY DEF Init, Held, Remembered
  <2> QED
    BY <2>2, <2>3, <2>4, <2>5 DEF CdevInv
<1>2. IInv /\ CdevInv /\ [Next]_vars => CdevInv'
  <2> SUFFICES ASSUME IInv, CdevInv, [Next]_vars PROVE CdevInv'
    OBVIOUS
  <2>1. CASE UNCHANGED vars
    BY <2>1 DEF vars, cdevVars, opened, CdevInv, CdevTyped, Counted, Present,
                MapSound, Held, Remembered, OpenFiles
  <2>2. CASE Arrive \/ Proceed
    BY <2>2, CdevStep DEF Arrive, Proceed
  <2>3. CASE \E f \in File : guru_boot_open(f) \/ Close(f)
    BY <2>3, FileStep
  <2> QED
    BY <2>1, <2>2, <2>3 DEF Next
<1> QED
  BY <1>1, <1>2, Inductive, PTL DEF Spec

(* Everything keeps its type; in particular there is a cdev whenever one   *)
(* is deleted, whether or not it is the right one.                         *)
THEOREM TypeCorrect == Spec => []TypeInv
<1>1. IInv /\ CdevInv => TypeInv
  BY DEF IInv, Typed, CdevInv, CdevTyped, TypeInv
<1> QED
  BY <1>1, Inductive, CdevInvariant, PTL

(* The cdevs registered are those of the adapters present.                 *)
THEOREM MapsPresent == Spec => []MapSound
  BY CdevInvariant, PTL DEF CdevInv

(* Opening leads to an adapter that is present, or is still open.          *)
THEOREM OpensPresent == Spec => []OpenReachesPresent
<1>1. IInv /\ CdevInv => OpenReachesPresent
  BY ReachedPresent DEF OpenReachesPresent
<1> QED
  BY <1>1, Inductive, CdevInvariant, PTL

-----------------------------------------------------------------------------
(* Loading and unloading are stutters for the adapters: whatever is proved *)
(* of them alone holds of the driver.                                      *)
THEOREM DriverRunsAdapters == DrvSpec => Spec
<1>1. DrvInit => Init
  BY DEF DrvInit
<1>2. [DrvNext]_<<vars, drvVars>> => [Next]_vars
  <2> SUFFICES ASSUME [DrvNext]_<<vars, drvVars>> PROVE [Next]_vars
    OBVIOUS
  <2>1. CASE \/ class_create \/ guru_boot_init \/ usb_register
             \/ guru_drv_exit \/ usb_deregister \/ guru_boot_exit \/ class_destroy
    <3>1. UNCHANGED vars
      BY <2>1 DEF class_create, guru_boot_init, usb_register, guru_drv_exit,
                  usb_deregister, guru_boot_exit, class_destroy
    <3> QED
      BY <3>1
  <2>2. CASE Arrive \/ Proceed \/ \E f \in File : guru_boot_open(f) \/ Close(f)
    BY <2>2 DEF Next
  <2>3. CASE UNCHANGED <<vars, drvVars>>
    BY <2>3
  <2> QED
    BY <2>1, <2>2, <2>3 DEF DrvNext
<1> QED
  BY <1>1, <1>2, PTL DEF DrvSpec, Spec

(* Adapters and files exist between the two ends of the registration only, *)
(* and while it lasts the class and the region do.                         *)
Registered ==
  /\ module \in {"region", "in", "deregister"} => guru_class /\ region
  /\ module \notin {"in", "deregister"} => \A g \in Guru : at[g] = "out"
  /\ module # "in" => \A f \in File : private_data[f] = NULL

(* Where the loader stands determines what is registered.                  *)
Loaded ==
  /\ module \in {"out", "class", "unclass", "crashed"} => ~region
  /\ module \in {"class", "region", "in", "deregister", "unregion", "unclass"} =>
       guru_class
  /\ module = "out" /\ guru_class => failedAt = "usb_register"

(* A step of the loader: adapters and files stay as they are.              *)
LEMMA LoaderStep ==
  ASSUME Registered, Loaded,
         \/ class_create \/ guru_boot_init \/ usb_register
         \/ guru_drv_exit \/ usb_deregister \/ guru_boot_exit \/ class_destroy
  PROVE  Registered' /\ Loaded'
<1>1. UNCHANGED <<at, private_data>>
  BY DEF class_create, guru_boot_init, usb_register, guru_drv_exit,
         usb_deregister, guru_boot_exit, class_destroy, vars, opened
<1>2. CASE class_create
  BY <1>1, <1>2 DEF class_create, Registered, Loaded
<1>3. CASE guru_boot_init
  <2>1. module = "class" /\ guru_class
    BY <1>3 DEF guru_boot_init, Loaded
  <2>2. CASE region' = TRUE /\ module' = "region" /\ guru_class' = guru_class
    BY <1>1, <2>1, <2>2 DEF Registered, Loaded
  <2>3. CASE /\ module' \in {"crashed", "out"} /\ guru_class' = FALSE
             /\ region' = region
    <3>1. Registered'
      BY <1>1, <2>1, <2>3 DEF Registered
    <3>2. Loaded'
      BY <2>1, <2>3 DEF Loaded
    <3> QED
      BY <3>1, <3>2
  <2> QED
    BY <1>3, <2>2, <2>3 DEF guru_boot_init
<1>4. CASE usb_register
  BY <1>1, <1>4 DEF usb_register, Registered, Loaded
<1>5. CASE guru_drv_exit
  BY <1>1, <1>5 DEF guru_drv_exit, Registered, Loaded
<1>6. CASE usb_deregister
  BY <1>1, <1>6 DEF usb_deregister, Registered, Loaded
<1>7. CASE guru_boot_exit
  BY <1>1, <1>7 DEF guru_boot_exit, Registered, Loaded
<1>8. CASE class_destroy
  BY <1>1, <1>8 DEF class_destroy, Registered, Loaded
<1> QED
  BY <1>2, <1>3, <1>4, <1>5, <1>6, <1>7, <1>8

(* The adapters move only while the driver is registered, and while it is  *)
(* being deregistered no file comes to be open.                            *)
LEMMA AdapterStep ==
  ASSUME Registered, Loaded, UNCHANGED drvVars,
         \/ module \in {"in", "deregister"} /\ Proceed
         \/ /\ module = "in"
            /\ Arrive \/ \E f \in File : guru_boot_open(f) \/ Close(f)
  PROVE  Registered' /\ Loaded'
<1>1. Loaded'
  BY DEF drvVars, Loaded
<1>2. Proceed => UNCHANGED private_data
  BY DEF Proceed, Scan, cdev_add, device_create, EnterTable, guru_sn_init,
         guru_boot_destroy, device_destroy, LeaveTable, DeleteCdev, opened
<1>3. Registered'
  BY <1>2 DEF drvVars, Registered
<1> QED
  BY <1>1, <1>3

(* What is registered in each state of the loader.                         *)
LEMMA DriverInvariant == DrvSpec => [](Registered /\ Loaded)
<1>1. DrvInit => Registered /\ Loaded
  BY DEF DrvInit, Init, Registered, Loaded
<1>2. Registered /\ Loaded /\ [DrvNext]_<<vars, drvVars>> => (Registered /\ Loaded)'
  <2> SUFFICES ASSUME Registered, Loaded, [DrvNext]_<<vars, drvVars>>
               PROVE  Registered' /\ Loaded'
    OBVIOUS
  <2>1. CASE UNCHANGED <<vars, drvVars>>
    BY <2>1 DEF vars, opened, drvVars, Registered, Loaded
  <2>2. CASE DrvNext
    BY <2>2, LoaderStep, AdapterStep DEF DrvNext
  <2> QED
    BY <2>1, <2>2
<1> QED
  BY <1>1, <1>2, PTL DEF DrvSpec

(* The class and the region outlive the adapters and files that use them.  *)
THEOREM ClassOutlivesAdapters == DrvSpec => []NeedsClass
<1>1. Registered /\ Loaded => NeedsClass
  BY DEF Registered, Loaded, NeedsClass
<1> QED
  BY <1>1, DriverInvariant, PTL

(* Unloading leaves nothing behind, nor does a failed load, but for the    *)
(* class after usb_register failed.                                        *)
THEOREM UnloadsClean == DrvSpec => []OutIsClean
<1>1. Loaded => OutIsClean
  BY DEF Loaded, OutIsClean
<1> QED
  BY <1>1, DriverInvariant, PTL
===============================================================================
