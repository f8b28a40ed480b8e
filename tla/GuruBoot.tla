------------------------------- MODULE GuruBoot -------------------------------
(***************************************************************************)
(* The character devices of guru-boot.c: each CAN Guru takes a minor       *)
(* number in guru_boot_table, registers a cdev and creates a device node   *)
(* when it is probed, and gives them back when it is unplugged.  Programs  *)
(* open the node to read the serial number of the adapter.                 *)
(*                                                                         *)
(* The table is a global of the driver and has no lock.  Probes and        *)
(* disconnects of adapters on one hub come one after the other, on         *)
(* different hubs they may run at the same time (overlapped).              *)
(*                                                                         *)
(* External: device_create refuses a number or name in use; cdev_add puts  *)
(* a cdev in front of those with the same number; cdev_del removes the     *)
(* foremost entry with the number of its cdev, whichever cdev it is.       *)
(* guru_boot_create gives every cdev the same number, guru_boot_id, which  *)
(* is that of node 0: no other node can be opened.  The inode of node 0    *)
(* remembers the cdev it was opened for until that cdev is released, which *)
(* its open files delay.                                                   *)
(*                                                                         *)
(* An adapter stands for its structure guru_boot, freed after the          *)
(* disconnect: it is not probed again while anything points at it.  What   *)
(* is opened after a wrong cdev was removed (overtaken) is left out.       *)
(***************************************************************************)
EXTENDS Naturals, FiniteSets, SequencesExt

CONSTANTS
  Guru,           \* the adapters
  GURU_DEV_MAX,   \* minor numbers
  File,           \* the files that programs may have open
  NULL            \* no adapter

ASSUME BootAssumption ==
  /\ IsFiniteSet(Guru) /\ NULL \notin Guru
  /\ GURU_DEV_MAX \in Nat \ {0}

VARIABLES
  at,               \* where guru_boot_create or _destroy of each adapter stands
  minor_num,        \* its minor number, or how far the scan has come
  guru_boot_table,  \* the adapter of each minor number, or NULL
  node,             \* the adapter whose device node has the number, or NULL
  cdev_map,         \* the cdevs registered, foremost first
  i_cdev,           \* the cdev remembered by the inode of node 0, or NULL
  private_data,     \* the adapter each open file refers to, or NULL
  overtaken,        \* ghost: a cdev was deleted that was not the foremost
  overlapped        \* ghost: two adapters came or went at the same time

cdevVars == <<cdev_map, i_cdev, overtaken>>
opened   == <<private_data, overlapped>>
vars     == <<at, minor_num, guru_boot_table, node, cdevVars, opened>>

Minors == 0 .. GURU_DEV_MAX - 1

Steps == {"out", "scan", "cdev", "device", "table", "serial", "live",
          "undevice", "untable", "uncdev"}

Init ==
  /\ at = [g \in Guru |-> "out"]
  /\ minor_num = [g \in Guru |-> 0]
  /\ guru_boot_table = [m \in Minors |-> NULL]
  /\ node = [m \in Minors |-> NULL]
  /\ cdev_map = <<>>
  /\ i_cdev = NULL
  /\ private_data = [f \in File |-> NULL]
  /\ overtaken = FALSE
  /\ overlapped = FALSE

Goto(g, step) == at' = [at EXCEPT ![g] = step]

(* Somebody is in the middle of guru_boot_create or guru_boot_destroy.     *)
Busy == \E g \in Guru : at[g] \notin {"out", "live"}

OpenFiles(g) == {f \in File : private_data[f] = g}

cdev_del(g) ==
  /\ cdev_map' = Tail(cdev_map)
  /\ i_cdev' = IF i_cdev = g /\ OpenFiles(g) = {} THEN NULL ELSE i_cdev
  /\ overtaken' = (overtaken \/ Head(cdev_map) # g)

-----------------------------------------------------------------------------
(* guru_boot_create.                                                       *)

guru_boot_create(g) ==
  /\ at[g] = "out" /\ OpenFiles(g) = {} /\ i_cdev # g
  /\ Goto(g, "scan")
  /\ minor_num' = [minor_num EXCEPT ![g] = 0]
  /\ overlapped' = (overlapped \/ Busy)
  /\ UNCHANGED <<guru_boot_table, node, cdevVars, private_data>>

(* Mutant: the last number is never given out. *)
Scan_short(g) ==
  /\ at[g] = "scan"
  /\ \/ /\ guru_boot_table[minor_num[g]] = NULL
        /\ minor_num[g] < GURU_DEV_MAX - 1
        /\ Goto(g, "cdev")
        /\ UNCHANGED minor_num
     \/ /\ guru_boot_table[minor_num[g]] # NULL
        /\ minor_num[g] < GURU_DEV_MAX - 1
        /\ minor_num' = [minor_num EXCEPT ![g] = @ + 1]
        /\ UNCHANGED at
     \/ /\ minor_num[g] = GURU_DEV_MAX - 1
        /\ Goto(g, "out")
        /\ UNCHANGED minor_num
  /\ UNCHANGED <<guru_boot_table, node, cdevVars, opened>>

(* Mutant: the end of the table is compared with > instead of >=. *)
Scan_over(g) ==
  /\ at[g] = "scan"
  /\ \/ /\ guru_boot_table[minor_num[g]] = NULL
        /\ Goto(g, "cdev")
        /\ UNCHANGED minor_num
     \/ /\ guru_boot_table[minor_num[g]] # NULL
        /\ minor_num' = [minor_num EXCEPT ![g] = @ + 1]
        /\ UNCHANGED at
  /\ UNCHANGED <<guru_boot_table, node, cdevVars, opened>>

(* One entry of the table is looked at: it is free, or the next one is     *)
(* tried, or there is none left (-ENOMEM).                                 *)
Scan(g) ==
  /\ at[g] = "scan"
  /\ \/ /\ guru_boot_table[minor_num[g]] = NULL
        /\ Goto(g, "cdev")
        /\ UNCHANGED minor_num
     \/ /\ guru_boot_table[minor_num[g]] # NULL
        /\ minor_num[g] < GURU_DEV_MAX - 1
        /\ minor_num' = [minor_num EXCEPT ![g] = @ + 1]
        /\ UNCHANGED at
     \/ /\ guru_boot_table[minor_num[g]] # NULL
        /\ minor_num[g] = GURU_DEV_MAX - 1
        /\ Goto(g, "out")
        /\ UNCHANGED minor_num
  /\ UNCHANGED <<guru_boot_table, node, cdevVars, opened>>

cdev_add(g) ==
  /\ at[g] = "cdev"
  /\ \/ /\ cdev_map' = <<g>> \o cdev_map
        /\ Goto(g, "device")
     \/ /\ Goto(g, "out")
        /\ UNCHANGED cdev_map
  /\ UNCHANGED <<minor_num, guru_boot_table, node, i_cdev, overtaken, opened>>

(* Mutant: the cdev stays when there is no device node. *)
device_create_leaves(g) ==
  /\ at[g] = "device"
  /\ \/ /\ node[minor_num[g]] = NULL
        /\ node' = [node EXCEPT ![minor_num[g]] = g]
        /\ Goto(g, "table")
     \/ /\ Goto(g, "out")
        /\ UNCHANGED node
  /\ UNCHANGED <<minor_num, guru_boot_table, cdevVars, opened>>

(* Mutant: the result of device_create is not looked at. *)
device_create_unchecked(g) ==
  /\ at[g] = "device"
  /\ node' = IF node[minor_num[g]] = NULL
             THEN [node EXCEPT ![minor_num[g]] = g] ELSE node
  /\ Goto(g, "table")
  /\ UNCHANGED <<minor_num, guru_boot_table, cdevVars, opened>>

(* device_create fails when the number is in use, and for other reasons.   *)
device_create(g) ==
  /\ at[g] = "device"
  /\ \/ /\ node[minor_num[g]] = NULL
        /\ node' = [node EXCEPT ![minor_num[g]] = g]
        /\ Goto(g, "table")
        /\ UNCHANGED cdevVars
     \/ /\ cdev_del(g)
        /\ Goto(g, "out")
        /\ UNCHANGED node
  /\ UNCHANGED <<minor_num, guru_boot_table, opened>>

EnterTable(g) ==
  /\ at[g] = "table"
  /\ guru_boot_table' = [guru_boot_table EXCEPT ![minor_num[g]] = g]
  /\ Goto(g, "serial")
  /\ UNCHANGED <<minor_num, node, cdevVars, opened>>

(* A serial number of the wrong size undoes everything.                    *)
guru_sn_init(g) ==
  /\ at[g] = "serial"
  /\ Goto(g, "live") \/ Goto(g, "undevice")
  /\ UNCHANGED <<minor_num, guru_boot_table, node, cdevVars, opened>>

-----------------------------------------------------------------------------
(* guru_boot_destroy, called by canguru_dev_deinit or by guru_boot_create. *)

guru_boot_destroy(g) ==
  /\ at[g] = "live"
  /\ Goto(g, "undevice")
  /\ overlapped' = (overlapped \/ Busy)
  /\ UNCHANGED <<minor_num, guru_boot_table, node, cdevVars, private_data>>

device_destroy(g) ==
  /\ at[g] = "undevice"
  /\ node' = [node EXCEPT ![minor_num[g]] = NULL]
  /\ i_cdev' = IF minor_num[g] = 0 THEN NULL ELSE i_cdev
  /\ Goto(g, "untable")
  /\ UNCHANGED <<minor_num, guru_boot_table, cdev_map, overtaken, opened>>

(* Mutant: the entry of the table stays. *)
LeaveTable_stays(g) ==
  /\ at[g] = "untable"
  /\ Goto(g, "uncdev")
  /\ UNCHANGED <<minor_num, guru_boot_table, node, cdevVars, opened>>

LeaveTable(g) ==
  /\ at[g] = "untable"
  /\ guru_boot_table' = [guru_boot_table EXCEPT ![minor_num[g]] = NULL]
  /\ Goto(g, "uncdev")
  /\ UNCHANGED <<minor_num, node, cdevVars, opened>>

DeleteCdev(g) ==
  /\ at[g] = "uncdev"
  /\ cdev_del(g)
  /\ Goto(g, "out")
  /\ UNCHANGED <<minor_num, guru_boot_table, node, opened>>

-----------------------------------------------------------------------------
(* The files.  Reading leaves everything as it is.                         *)

(* The adapter that opening node 0 leads to.                               *)
Reached == IF i_cdev # NULL THEN i_cdev
           ELSE IF cdev_map # <<>> THEN Head(cdev_map) ELSE NULL

guru_boot_open(f) ==
  /\ ~overtaken
  /\ private_data[f] = NULL
  /\ node[0] # NULL /\ Reached # NULL
  /\ private_data' = [private_data EXCEPT ![f] = Reached]
  /\ i_cdev' = Reached
  /\ UNCHANGED <<at, minor_num, guru_boot_table, node, cdev_map, overtaken,
                 overlapped>>

(* The last file of an adapter that is gone releases its cdev.             *)
Close(f) ==
  LET g == private_data[f] IN
  /\ g # NULL
  /\ private_data' = [private_data EXCEPT ![f] = NULL]
  /\ i_cdev' = IF i_cdev = g /\ at[g] = "out" /\ OpenFiles(g) = {f}
               THEN NULL ELSE i_cdev
  /\ UNCHANGED <<at, minor_num, guru_boot_table, node, cdev_map, overtaken,
                 overlapped>>

-----------------------------------------------------------------------------
Arrive == \E g \in Guru : guru_boot_create(g)

Proceed ==
  \E g \in Guru :
    \/ Scan(g) \/ cdev_add(g) \/ device_create(g)
    \/ EnterTable(g) \/ guru_sn_init(g)
    \/ guru_boot_destroy(g) \/ device_destroy(g) \/ LeaveTable(g)
    \/ DeleteCdev(g)

Next ==
  \/ Arrive
  \/ Proceed
  \/ \E f \in File : guru_boot_open(f) \/ Close(f)

Spec == Init /\ [][Next]_vars

-----------------------------------------------------------------------------
TypeInv ==
  /\ at \in [Guru -> Steps]
  /\ minor_num \in [Guru -> Minors]
  /\ guru_boot_table \in [Minors -> Guru \cup {NULL}]
  /\ node \in [Minors -> Guru \cup {NULL}]
  /\ cdev_map \in Seq(Guru)
  /\ i_cdev \in Guru \cup {NULL}
  /\ private_data \in [File -> Guru \cup {NULL}]
  /\ overtaken \in BOOLEAN /\ overlapped \in BOOLEAN

HasNode == {"table", "serial", "live", "undevice"}
HasCdev == HasNode \cup {"device", "untable", "uncdev"}

(* An adapter keeps its device node until it destroys it itself, also when *)
(* several adapters come and go at once: no two ever hold the same number, *)
(* although they may pick the same one in the table.                       *)
NodeKept == \A g \in Guru : at[g] \in HasNode => node[minor_num[g]] = g

(* The table never points at an adapter that is gone or has another number.*)
NoStranger ==
  \A m \in Minors : guru_boot_table[m] # NULL =>
    /\ at[guru_boot_table[m]] \in {"serial", "live", "undevice", "untable"}
    /\ minor_num[guru_boot_table[m]] = m

(* As long as adapters came and went one at a time, the table holds        *)
(* exactly the numbers in use whenever nobody is at work.  With two at a   *)
(* time an adapter on its way out can erase the entry of its successor.    *)
TableAgrees == ~overlapped /\ ~Busy => guru_boot_table = node

(* ... and an adapter is refused for want of a number only when all        *)
(* GURU_DEV_MAX numbers are in use.                                        *)
RefusedOnlyWhenFull ==
  [][~overlapped => \A g \in Guru : at[g] = "scan" /\ at'[g] = "out" =>
       \A m \in Minors : node[m] # NULL]_vars

(* The cdevs registered are those of the adapters present, as long as      *)
(* adapters leave in the reverse of the order they came: all cdevs have    *)
(* one number, and deleting one removes the foremost.                      *)
MapSound ==
  ~overtaken => /\ IsInjective(cdev_map)
                /\ ToSet(cdev_map) = {g \in Guru : at[g] \in HasCdev}

(* Opening leads to an adapter that is present, though with several of     *)
(* them not always to that of the node; to one that is gone only through   *)
(* the inode, while a file opened before it left is open still.            *)
OpenReachesPresent ==
  ~overtaken /\ node[0] # NULL /\ Reached # NULL =>
    at[Reached] \in HasCdev \/ OpenFiles(Reached) # {}
=============================================================================
