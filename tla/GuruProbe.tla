------------------------------- MODULE GuruProbe -------------------------------
(***************************************************************************)
(* How the three products are put together and taken apart:                *)
(* canguru-device.c, linguru-device.c and mbus-device.c, with the part of  *)
(* canguru_net_create, linguru_net_create and of the two msg_net_init that *)
(* decides when an interface and its reply list can be used.               *)
(*                                                                         *)
(* From register_candev on users can open an interface and send, and from  *)
(* guru_dev_init on the RX URBs deliver messages, while the probe is still *)
(* at work on the rest.  The result of net_create is ignored, an interface *)
(* that could not be created stays a NULL pointer.                         *)
(***************************************************************************)
EXTENDS Naturals, Sequences

CONSTANTS
  CANGURU_CHANNEL_COUNT, LINGURU_CHANNEL_COUNT,
  CAN_MBUS_CHANNEL_COUNT, LIN_MBUS_CHANNEL_COUNT

ASSUME ProbeAssumption ==
  /\ CANGURU_CHANNEL_COUNT \in Nat /\ LINGURU_CHANNEL_COUNT \in Nat
  /\ CAN_MBUS_CHANNEL_COUNT \in Nat /\ LIN_MBUS_CHANNEL_COUNT \in Nat

VARIABLES
  product,     \* what was plugged in
  phase,       \* "probing", "bound", "failed", "leaving" or "gone"
  pos,         \* the step of Order, or of Undo, under way
  idx,         \* the loop over the channels: how many are done
  registered,  \* the interfaces whose netdev pointer is set
  list,        \* the buses whose send_reply_list is initialised
  handlers,    \* the buses whose messages are in msg_list
  opened,      \* the interfaces that are up
  talking,     \* the channels for which the device sends what it receives
  boot, volt,  \* whether the boot device and the voltage sensor exist
  failures,    \* ghost: the interfaces that could not be created
  kernel       \* "ok", or which step used a pointer that is not set

netVars  == <<registered, opened, talking, failures>>
msgVars  == <<list, handlers>>
restVars == <<boot, volt>>
vars == <<product, phase, pos, idx, netVars, msgVars, restVars, kernel>>

Products == {"canguru", "linguru", "mbus"}
Buses    == {"can", "lin"}

(* Interfaces are named by bus and channel_idx.                            *)
Count(p, bus) ==
  CASE p = "canguru" /\ bus = "can" -> CANGURU_CHANNEL_COUNT
    [] p = "linguru" /\ bus = "lin" -> LINGURU_CHANNEL_COUNT
    [] p = "mbus" /\ bus = "can"    -> CAN_MBUS_CHANNEL_COUNT
    [] p = "mbus" /\ bus = "lin"    -> LIN_MBUS_CHANNEL_COUNT
    [] OTHER                        -> 0

Nets(p) == UNION {{bus} \X (0 .. Count(p, bus) - 1) : bus \in Buses}

(* What the init function of each product does, in order; mbus_dev_init    *)
(* calls mbus_dev_init_can and mbus_dev_init_lin.                          *)
canguru_dev_init == <<"guru", "can", "can_msg", "boot">>
linguru_dev_init == <<"guru", "lin", "volt", "lin_msg">>
mbus_dev_init_can == <<"can_msg", "can">>
mbus_dev_init_lin == <<"lin", "lin_msg">>

(* Mutant: the CAN interfaces before their reply list, the LIN ones after. *)
mbus_dev_init_late == <<"guru", "can", "can_msg", "lin_msg", "lin">>

mbus_dev_init == <<"guru">> \o mbus_dev_init_can \o mbus_dev_init_lin

Order(p) ==
  CASE p = "canguru" -> canguru_dev_init
    [] p = "linguru" -> linguru_dev_init
    [] p = "mbus"    -> mbus_dev_init

(* What its deinit function does.                                          *)
canguru_dev_deinit == <<"boot", "can">>
linguru_dev_deinit == <<"lin", "volt">>
mbus_dev_deinit    == <<"can", "lin">>

Undo(p) ==
  CASE p = "canguru" -> canguru_dev_deinit
    [] p = "linguru" -> linguru_dev_deinit
    [] p = "mbus"    -> mbus_dev_deinit

MsgOf(bus) == IF bus = "can" THEN "can_msg" ELSE "lin_msg"

At(step) ==
  LET steps == IF phase = "leaving" THEN Undo(product) ELSE Order(product)
  IN  pos <= Len(steps) /\ steps[pos] = step

(* The device talks for some channels when the previous driver could not   *)
(* tell it to stop.                                                        *)
Init ==
  /\ product \in Products
  /\ phase = "probing" /\ pos = 1 /\ idx = 0
  /\ registered = {} /\ opened = {} /\ failures = {}
  /\ talking \in SUBSET Nets(product)
  /\ list = {} /\ handlers = {}
  /\ boot = FALSE /\ volt = FALSE
  /\ kernel = "ok"

Advance == pos' = pos + 1 /\ idx' = 0

Fail == phase' = "failed" /\ UNCHANGED <<pos, idx>>

-----------------------------------------------------------------------------
(* The probe.                                                              *)

guru_dev_init ==
  /\ kernel = "ok" /\ phase = "probing" /\ At("guru")
  /\ \/ Advance /\ UNCHANGED phase
     \/ Fail
  /\ UNCHANGED <<product, netVars, msgVars, restVars, kernel>>

(* Mutant: an interface that cannot be created ends the probe. *)
net_create_strict(bus) ==
  /\ kernel = "ok" /\ phase = "probing" /\ At(bus)
  /\ idx < Count(product, bus)
  /\ \/ /\ idx' = idx + 1
        /\ registered' = registered \cup {<<bus, idx>>}
        /\ talking' = talking \ {<<bus, idx>>}
        /\ UNCHANGED <<phase, failures>>
     \/ /\ failures' = failures \cup {<<bus, idx>>}
        /\ phase' = "failed"
        /\ UNCHANGED <<idx, registered, talking>>
  /\ UNCHANGED <<product, pos, opened, msgVars, restVars, kernel>>

(* One turn of the loop: the reset message silences the channel; whatever  *)
(* fails, the loop goes on.                                                *)
net_create(bus) ==
  /\ kernel = "ok" /\ phase = "probing" /\ At(bus)
  /\ idx < Count(product, bus)
  /\ idx' = idx + 1
  /\ \/ /\ registered' = registered \cup {<<bus, idx>>}
        /\ talking' = talking \ {<<bus, idx>>}
        /\ UNCHANGED failures
     \/ /\ failures' = failures \cup {<<bus, idx>>}
        /\ \/ talking' = talking \ {<<bus, idx>>}
           \/ UNCHANGED talking
        /\ UNCHANGED registered
  /\ UNCHANGED <<product, phase, pos, opened, msgVars, restVars, kernel>>

nets_created(bus) ==
  /\ kernel = "ok" /\ phase = "probing" /\ At(bus)
  /\ idx = Count(product, bus)
  /\ Advance
  /\ UNCHANGED <<product, phase, netVars, msgVars, restVars, kernel>>

(* msg_net_init: first the list head ...                                   *)
init_list(bus) ==
  /\ kernel = "ok" /\ phase = "probing" /\ At(MsgOf(bus))
  /\ bus \notin list
  /\ list' = list \cup {bus}
  /\ UNCHANGED <<product, phase, pos, idx, netVars, handlers, restVars, kernel>>

(* ... then guru_add_msg for each message.                                 *)
add_msgs(bus) ==
  /\ kernel = "ok" /\ phase = "probing" /\ At(MsgOf(bus))
  /\ bus \in list
  /\ handlers' = handlers \cup {bus}
  /\ Advance
  /\ UNCHANGED <<product, phase, netVars, list, restVars, kernel>>

guru_boot_create ==
  /\ kernel = "ok" /\ phase = "probing" /\ At("boot")
  /\ \/ boot' = TRUE /\ Advance /\ UNCHANGED phase
     \/ Fail /\ UNCHANGED boot
  /\ UNCHANGED <<product, netVars, msgVars, volt, kernel>>

linguru_volt_create ==
  /\ kernel = "ok" /\ phase = "probing" /\ At("volt")
  /\ \/ volt' = TRUE /\ Advance /\ UNCHANGED phase
     \/ Fail /\ UNCHANGED volt
  /\ UNCHANGED <<product, netVars, msgVars, boot, kernel>>

Bound ==
  /\ kernel = "ok" /\ phase = "probing" /\ pos > Len(Order(product))
  /\ phase' = "bound"
  /\ UNCHANGED <<product, pos, idx, netVars, msgVars, restVars, kernel>>

-----------------------------------------------------------------------------
(* Meanwhile: the users of the interfaces, and the completion handler.     *)

Alive == kernel = "ok" /\ phase \in {"probing", "bound"}

(* The enable message may be lost.                                         *)
ops_open(net) ==
  /\ Alive /\ net \in registered \ opened
  /\ opened' = opened \cup {net}
  /\ talking' \in {talking, talking \cup {net}}
  /\ UNCHANGED <<product, phase, pos, idx, registered, failures, msgVars,
                 restVars, kernel>>

ops_close(net) ==
  /\ Alive /\ net \in opened
  /\ opened' = opened \ {net}
  /\ talking' \in {talking, talking \ {net}}
  /\ UNCHANGED <<product, phase, pos, idx, registered, failures, msgVars,
                 restVars, kernel>>

(* wait_send_reply links into the list of the bus, ready or not.           *)
start_xmit(net) ==
  /\ Alive /\ net \in opened
  /\ kernel' = IF net[1] \in list THEN "ok" ELSE "xmit"
  /\ UNCHANGED <<product, phase, pos, idx, netVars, msgVars, restVars>>

(* recv_callback of the bus, then net_recv of the interface, set or not.   *)
net_recv(net) ==
  /\ Alive /\ net \in talking /\ net[1] \in handlers
  /\ kernel' = IF net \in registered THEN "ok" ELSE "recv"
  /\ UNCHANGED <<product, phase, pos, idx, netVars, msgVars, restVars>>

-----------------------------------------------------------------------------
(* The disconnect: guru_dev_deinit has stopped the URBs and calls the      *)
(* deinit function of the product.                                         *)

guru_dev_deinit ==
  /\ kernel = "ok" /\ phase = "bound"
  /\ phase' = "leaving" /\ pos' = 1 /\ idx' = 0
  /\ UNCHANGED <<product, netVars, msgVars, restVars, kernel>>

(* Mutant: the last interface is left out. *)
net_destroy_short(bus) ==
  /\ kernel = "ok" /\ phase = "leaving" /\ At(bus)
  /\ \/ /\ idx + 1 < Count(product, bus)
        /\ idx' = idx + 1
        /\ registered' = registered \ {<<bus, idx>>}
        /\ opened' = opened \ {<<bus, idx>>}
        /\ kernel' = IF <<bus, idx>> \in registered THEN "ok" ELSE "destroy"
        /\ UNCHANGED pos
     \/ /\ idx + 1 >= Count(product, bus)
        /\ Advance
        /\ UNCHANGED <<registered, opened, kernel>>
  /\ UNCHANGED <<product, phase, talking, failures, msgVars, restVars>>

(* unregister_candev brings the interface down; it needs the pointer.      *)
net_destroy(bus) ==
  /\ kernel = "ok" /\ phase = "leaving" /\ At(bus)
  /\ \/ /\ idx < Count(product, bus)
        /\ idx' = idx + 1
        /\ registered' = registered \ {<<bus, idx>>}
        /\ opened' = opened \ {<<bus, idx>>}
        /\ kernel' = IF <<bus, idx>> \in registered THEN "ok" ELSE "destroy"
        /\ UNCHANGED pos
     \/ /\ idx = Count(product, bus)
        /\ Advance
        /\ UNCHANGED <<registered, opened, kernel>>
  /\ UNCHANGED <<product, phase, talking, failures, msgVars, restVars>>

guru_boot_destroy ==
  /\ kernel = "ok" /\ phase = "leaving" /\ At("boot")
  /\ boot' = FALSE
  /\ Advance
  /\ UNCHANGED <<product, phase, netVars, msgVars, volt, kernel>>

linguru_volt_destroy ==
  /\ kernel = "ok" /\ phase = "leaving" /\ At("volt")
  /\ volt' = FALSE
  /\ Advance
  /\ UNCHANGED <<product, phase, netVars, msgVars, boot, kernel>>

Gone ==
  /\ kernel = "ok" /\ phase = "leaving" /\ pos > Len(Undo(product))
  /\ phase' = "gone"
  /\ UNCHANGED <<product, pos, idx, netVars, msgVars, restVars, kernel>>

-----------------------------------------------------------------------------
Next ==
  \/ guru_dev_init \/ guru_boot_create \/ linguru_volt_create \/ Bound
  \/ \E bus \in Buses : \/ net_create(bus) \/ nets_created(bus)
                        \/ init_list(bus) \/ add_msgs(bus)
                        \/ net_destroy(bus)
  \/ \E net \in Nets(product) : \/ ops_open(net) \/ ops_close(net)
                                \/ start_xmit(net) \/ net_recv(net)
  \/ guru_dev_deinit \/ guru_boot_destroy \/ linguru_volt_destroy \/ Gone

Spec == Init /\ [][Next]_vars

-----------------------------------------------------------------------------
(* The three ways a pointer that is not set can be used, and no others:    *)
(* start_xmit links into a list head that is still zero, only during the   *)
(* probe and never on the CAN interfaces of the MultiBus, whose reply list *)
(* is prepared first; a message is delivered to a missing interface, only  *)
(* when its creation failed or, on the MultiBus, while the CAN interfaces  *)
(* are being created for a device that is still talking; an interface is   *)
(* destroyed that was never created.                                       *)
UnsetOnlySo ==
  /\ kernel = "xmit" =>
       /\ phase = "probing"
       /\ \E net \in opened : /\ net[1] \notin list
                              /\ ~(product = "mbus" /\ net[1] = "can")
  /\ kernel = "recv" =>
       \/ failures \cap talking # {}
       \/ phase = "probing" /\ product = "mbus" /\ At("can")
  /\ kernel = "destroy" => failures # {}

(* A probe that fails leaves interfaces registered only when it was the    *)
(* boot device or the voltage sensor that could not be created; the        *)
(* MultiBus has neither.                                                   *)
FailedLeaves ==
  phase = "failed" /\ registered # {} => At("boot") \/ At("volt")

(* After a disconnect nothing the probe created is left.                   *)
NothingLeft ==
  phase = "gone" => registered = {} /\ opened = {} /\ ~boot /\ ~volt
=============================================================================
