------------------------------ MODULE GuruConfig ------------------------------
(***************************************************************************)
(* The configuration of one interface: what the user sets with netlink,    *)
(* and what the adapter is told of it by canguru-net.c (bus "can") or by   *)
(* linguru-net.c (bus "lin").                                              *)
(*                                                                         *)
(* External: can_changelink of the kernel.  It handles the attributes of a *)
(* netlink message one after the other and stops at the first error; only  *)
(* termination may be set while the interface is up.  FD is turned on in a *)
(* message that carries both bit rates; turning it off clears the data bit *)
(* rate.  Whether CTRLMODE comes before BITTIMING depends on the kernel.   *)
(* open_candev wants a bit rate, and with FD a data bit rate not below it. *)
(*                                                                         *)
(* Sample points and tq numbers follow from the bit rates and are left     *)
(* out: a timing is the pair of rates it was computed for.  The adapter    *)
(* executes commands in the order they were sent and nothing here waits    *)
(* for it: a command is executed, or lost, in the step that sends it.      *)
(***************************************************************************)
EXTENDS Naturals, Sequences, FiniteSets, TLC

CONSTANTS
  Rates,       \* bit rates
  MaxUnsent    \* bound: commands the adapter may be missing at a time

ASSUME ConfigAssumption ==
  /\ Rates \subseteq Nat \ {0}
  /\ MaxUnsent \in Nat

VARIABLES
  bus,          \* the kind of interface
  can,          \* struct can_priv: what the user has set
  todo,         \* the attributes can_changelink has yet to handle
  device,       \* the configuration of the adapter
  unsent,       \* ghost: commands whose latest did not get through
  changed       \* ghost: the control mode is newer than the bit timing

hostVars == <<bus, can>>
vars     == <<hostVars, todo, device, unsent, changed>>

(* After a reset: no bit rates, no mode.                                   *)
Reset == [conf   |-> IF bus = "can" THEN <<0, 0, FALSE, FALSE>> ELSE <<0, FALSE>>,
          timing |-> <<0, 0>>,
          filter |-> FALSE, ter |-> FALSE, enable |-> FALSE]

Init ==
  /\ bus \in {"can", "lin"}
  /\ can = [bitrate |-> 0, dbitrate |-> 0, listen |-> FALSE, fd |-> FALSE,
            ter |-> FALSE, state |-> "ABSENT"]
  /\ todo = <<>>
  /\ device \in {Reset, [Reset EXCEPT !.enable = TRUE]}
  /\ unsent = {}
  /\ changed = FALSE

-----------------------------------------------------------------------------
(* Commands.                                                               *)

(* The commands cs, a record with a field for each, are sent one after the *)
(* other; the adapter gets those in got.  The others failed to be sent, as *)
(* every command after one that failed, or the transfer failed later,      *)
(* which nobody repeats.                                                   *)
Send(cs, got) ==
  /\ device' = [type \in DOMAIN device |->
                   IF type \in got THEN cs[type] ELSE device[type]]
  /\ unsent' = (unsent \cup DOMAIN cs) \ got
  /\ Cardinality(unsent') <= MaxUnsent

(* struct can_conf_msg and lin_conf_msg, struct can_timing_msg.            *)
Conf(c) == IF bus = "can" THEN <<c.bitrate, c.dbitrate, c.fd, c.listen>>
                          ELSE <<c.bitrate, c.listen>>
Timing(c) == <<c.bitrate, c.dbitrate>>

-----------------------------------------------------------------------------
(* canguru_net_create, linguru_net_create: an error ends the creation.     *)

(* Mutant: the filter is set before the reset. *)
net_create_filterfirst ==
  /\ can.state = "ABSENT"
  /\ \E got \in SUBSET {"reset", "filter"} :
       /\ device' = IF "reset" \in got THEN Reset
                    ELSE [device EXCEPT !.filter = "filter" \in got]
       /\ unsent' = {"reset", "filter"} \ got
       /\ Cardinality(unsent') <= MaxUnsent
  /\ can' = [can EXCEPT !.state = "STOPPED"]
  /\ UNCHANGED <<bus, todo, changed>>

net_create ==
  /\ can.state = "ABSENT"
  /\ \E got \in SUBSET IF bus = "can" THEN {"reset", "filter"} ELSE {"reset"} :
       /\ device' = [IF "reset" \in got THEN Reset ELSE device EXCEPT
                       !.filter = "filter" \in got]
       /\ unsent' = (IF bus = "can" THEN {"reset", "filter"} ELSE {"reset"}) \ got
       /\ Cardinality(unsent') <= MaxUnsent
  /\ can' = [can EXCEPT !.state = "STOPPED"]
  /\ UNCHANGED <<bus, todo, changed>>

-----------------------------------------------------------------------------
(* Netlink.                                                                *)

(* The messages that may be sent while the interface is down; the last two *)
(* are "bitrate r dbitrate d termination 120 fd on" of the README.         *)
Messages ==
  {<<[bitrate |-> r]>> : r \in Rates}
  \cup {<<[listen |-> l]>> : l \in BOOLEAN}
  \cup IF bus = "lin" THEN {} ELSE
       {<<[fd |-> FALSE]>>}
       \cup {<<[fd |-> TRUE], [bitrate |-> r],
               [dbitrate |-> d], [ter |-> TRUE]>> :
               r \in Rates, d \in Rates}
       \cup {<<[bitrate |-> r], [fd |-> TRUE],
               [dbitrate |-> d], [ter |-> TRUE]>> :
               r \in Rates, d \in Rates}

can_changelink ==
  /\ todo = <<>>
  /\ \/ can.state = "STOPPED" /\ todo' \in Messages
     \/ can.state # "ABSENT" /\ \E t \in BOOLEAN : todo' = <<[ter |-> t]>>
  /\ UNCHANGED <<hostVars, device, unsent, changed>>

(* The attribute to be handled has this name.                              *)
Handling(name) == todo # <<>> /\ name \in DOMAIN Head(todo)

(* linguru_set_bittiming: nothing is sent before the interface opens.      *)
linguru_set_bittiming ==
  /\ todo' = Tail(todo)
  /\ UNCHANGED <<device, unsent, changed>>

(* Mutant: the timing is computed from the rates of the arbitration phase. *)
canguru_set_bittiming_nominal(c) ==
  \E err \in BOOLEAN, got \in SUBSET {"conf", "timing"} :
    /\ err => "timing" \notin got
    /\ Send([conf |-> Conf(c), timing |-> <<c.bitrate, c.bitrate>>], got)
    /\ todo' = IF err THEN <<>> ELSE Tail(todo)
    /\ changed' = (changed /\ "conf" \notin got)

(* Configuration and timing; the first error is returned.                  *)
canguru_set_bittiming(c) ==
  \E err \in BOOLEAN, got \in SUBSET {"conf", "timing"} :
    /\ err => "timing" \notin got
    /\ Send([conf |-> Conf(c), timing |-> Timing(c)], got)
    /\ todo' = IF err THEN <<>> ELSE Tail(todo)
    /\ changed' = (changed /\ "conf" \notin got)

SetBitrate ==
  /\ Handling("bitrate")
  /\ can' = [can EXCEPT !.bitrate = Head(todo).bitrate]
  /\ IF bus = "can" THEN canguru_set_bittiming(can') ELSE linguru_set_bittiming
  /\ UNCHANGED bus

(* Mutant: do_set_data_bittiming is not assigned. *)
SetDataBitrate_unhooked ==
  /\ Handling("dbitrate")
  /\ can' = [can EXCEPT !.dbitrate = Head(todo).dbitrate]
  /\ linguru_set_bittiming
  /\ UNCHANGED bus

SetDataBitrate ==
  /\ Handling("dbitrate")
  /\ can' = [can EXCEPT !.dbitrate = Head(todo).dbitrate]
  /\ canguru_set_bittiming(can')
  /\ UNCHANGED bus

(* Control modes have no hook in the driver.                               *)
SetMode ==
  /\ \/ /\ Handling("listen")
        /\ can' = [can EXCEPT !.listen = Head(todo).listen]
     \/ /\ Handling("fd")
        /\ can' = [can EXCEPT !.fd = Head(todo).fd,
                              !.dbitrate = IF Head(todo).fd THEN @ ELSE 0]
  /\ changed' = (changed \/ can' # can)
  /\ todo' = Tail(todo)
  /\ UNCHANGED <<bus, device, unsent>>

(* Mutant: the result of the command is not returned. *)
SetTermination_ignores ==
  /\ Handling("ter")
  /\ device' \in {device, [device EXCEPT !.ter = Head(todo).ter]}
  /\ unsent' = unsent \ {"ter"}
  /\ can' = [can EXCEPT !.ter = Head(todo).ter]
  /\ todo' = Tail(todo)
  /\ UNCHANGED <<bus, changed>>

(* canguru_set_termination, linguru_set_termination: the kernel stores the *)
(* new value only when the command was sent.                               *)
SetTermination ==
  /\ Handling("ter")
  /\ \/ /\ \E got \in SUBSET {"ter"} : Send(Head(todo), got)
        /\ can' = [can EXCEPT !.ter = Head(todo).ter]
        /\ todo' = Tail(todo)
     \/ /\ todo' = <<>>
        /\ UNCHANGED <<can, device, unsent>>
  /\ UNCHANGED <<bus, changed>>

-----------------------------------------------------------------------------
open_candev == /\ can.bitrate # 0
               /\ can.fd => can.dbitrate >= can.bitrate

(* The result of the enable command is ignored.                            *)
canguru_ops_open ==
  /\ bus = "can" /\ can.state = "STOPPED" /\ todo = <<>> /\ open_candev
  /\ \E got \in SUBSET {"enable"} : Send([enable |-> TRUE], got)
  /\ can' = [can EXCEPT !.state = "ERROR_ACTIVE"]
  /\ UNCHANGED <<bus, todo, changed>>

(* Mutant: the result of the configuration is ignored too. *)
linguru_ops_open_ignores ==
  /\ bus = "lin" /\ can.state = "STOPPED" /\ todo = <<>> /\ open_candev
  /\ device' = [device EXCEPT !.enable = TRUE]
  /\ can' = [can EXCEPT !.state = "ERROR_ACTIVE"]
  /\ unsent' = unsent \ {"conf", "enable"}
  /\ changed' = FALSE
  /\ UNCHANGED <<bus, todo>>

(* The configuration, whose error ends the opening, then the enable        *)
(* command.                                                                *)
linguru_ops_open ==
  /\ bus = "lin" /\ can.state = "STOPPED" /\ todo = <<>> /\ open_candev
  /\ \E err \in BOOLEAN, got \in SUBSET {"conf", "enable"} :
       /\ err => got = {}
       /\ Send(IF err THEN [conf |-> Conf(can)]
               ELSE [conf |-> Conf(can), enable |-> TRUE], got)
       /\ can' = [can EXCEPT !.state = IF err THEN @ ELSE "ERROR_ACTIVE"]
       /\ changed' = (changed /\ "conf" \notin got)
  /\ UNCHANGED <<bus, todo>>

(* canguru_ops_close, linguru_ops_close.                                   *)
ops_close ==
  /\ can.state = "ERROR_ACTIVE" /\ todo = <<>>
  /\ \E got \in SUBSET {"enable"} : Send([enable |-> FALSE], got)
  /\ can' = [can EXCEPT !.state = "STOPPED"]
  /\ UNCHANGED <<bus, todo, changed>>

-----------------------------------------------------------------------------
Next ==
  \/ net_create
  \/ can_changelink
  \/ SetBitrate \/ SetDataBitrate \/ SetMode \/ SetTermination
  \/ canguru_ops_open \/ linguru_ops_open \/ ops_close

Spec == Init /\ [][Next]_vars

-----------------------------------------------------------------------------
Up == can.state = "ERROR_ACTIVE"

(* An interface that is up runs with all that the user has set, unless a   *)
(* command did not get through or, on CAN, a control mode was set after    *)
(* the bit rate: it is sent with the bit timing only.                      *)
Configured ==
  Up /\ unsent = {} /\ ~changed =>
    device = [conf   |-> Conf(can),
              timing |-> IF bus = "can" THEN Timing(can) ELSE <<0, 0>>,
              filter |-> bus = "can",
              ter    |-> can.ter,
              enable |-> TRUE]

(* FD reaches the adapter together with its data bit rate whenever the     *)
(* interface comes up, whatever was set in which order; unlike listen-only *)
(* and turning FD off.                                                     *)
FdConfigured ==
  bus = "can" /\ Up /\ can.fd /\ "conf" \notin unsent =>
    /\ device.conf[2] = can.dbitrate
    /\ device.conf[3]

(* Configuration and timing of a CAN bus belong together, except after one *)
(* of the two messages did not get through.                                *)
SameRates ==
  bus = "can" /\ unsent \cap {"conf", "timing", "reset"} = {} =>
    device.timing = <<device.conf[1], device.conf[2]>>

(* A LIN bus that is up has the bit rate and the mode the user set last.   *)
LinConfigured ==
  bus = "lin" /\ Up /\ "conf" \notin unsent => device.conf = Conf(can)

(* The termination reported to the user is that of the adapter, except     *)
(* after a message was lost that the driver had sent.                      *)
TerminationAgrees ==
  can.state # "ABSENT" /\ unsent \cap {"ter", "reset"} = {} =>
    device.ter = can.ter
=============================================================================
