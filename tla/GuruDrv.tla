-------------------------------- MODULE GuruDrv --------------------------------
(***************************************************************************)
(* Loading and unloading the driver (guru_drv_init, guru_drv_exit) around  *)
(* the adapters of GuruBoot: they are probed only while the driver is      *)
(* registered with the USB core, and use its class and its chrdev region.  *)
(*                                                                         *)
(* External: class_create refuses a name in use; usb_deregister returns    *)
(* when every adapter is disconnected; a module with open files is not     *)
(* unloaded (guru_boot_fops.owner).                                        *)
(***************************************************************************)
EXTENDS GuruBoot

VARIABLES
  module,       \* where the loader stands
  guru_class,   \* whether the class is registered
  region,       \* whether the chrdev region is allocated
  failedAt      \* ghost: the call at which the last load failed, or "none"

drvVars == <<module, guru_class, region, failedAt>>

DrvInit ==
  /\ Init
  /\ module = "out"
  /\ guru_class = FALSE /\ region = FALSE
  /\ failedAt = "none"

-----------------------------------------------------------------------------
(* guru_drv_init.                                                          *)

(* -EEXIST with the class of an earlier load left over.                    *)
class_create ==
  /\ module = "out"
  /\ ~guru_class
  /\ guru_class' = TRUE
  /\ module' = "class"
  /\ failedAt' = "none"
  /\ UNCHANGED <<region, vars>>

(* On an error label err_boot destroys the class twice, the second time    *)
(* from freed memory: the machine crashes, or survives it.                 *)
guru_boot_init ==
  /\ module = "class"
  /\ \/ /\ region' = TRUE
        /\ module' = "region"
        /\ UNCHANGED <<guru_class, failedAt>>
     \/ /\ module' \in {"crashed", "out"}
        /\ guru_class' = FALSE
        /\ failedAt' = "guru_boot_init"
        /\ UNCHANGED region
  /\ UNCHANGED vars

(* Mutant: an error returns at once. *)
usb_register_returns ==
  /\ module = "region"
  /\ \/ module' = "in" /\ UNCHANGED failedAt
     \/ /\ module' = "out"
        /\ failedAt' = "usb_register"
  /\ UNCHANGED <<guru_class, region, vars>>

(* On an error label err_usb releases the region; the class stays.         *)
usb_register ==
  /\ module = "region"
  /\ \/ module' = "in" /\ UNCHANGED <<region, failedAt>>
     \/ /\ module' = "out"
        /\ region' = FALSE
        /\ failedAt' = "usb_register"
  /\ UNCHANGED <<guru_class, vars>>

-----------------------------------------------------------------------------
(* guru_drv_exit: calls usb_deregister, which waits for the adapters.      *)

(* Mutant: the USB driver is deregistered last. *)
guru_drv_exit_late ==
  /\ module = "in" /\ \A f \in File : private_data[f] = NULL
  /\ module' = "unregion"
  /\ UNCHANGED <<guru_class, region, failedAt, vars>>

guru_drv_exit ==
  /\ module = "in" /\ \A f \in File : private_data[f] = NULL
  /\ module' = "deregister"
  /\ UNCHANGED <<guru_class, region, failedAt, vars>>

usb_deregister ==
  /\ module = "deregister"
  /\ \A g \in Guru : at[g] = "out"
  /\ module' = "unregion"
  /\ UNCHANGED <<guru_class, region, failedAt, vars>>

guru_boot_exit ==
  /\ module = "unregion"
  /\ region' = FALSE
  /\ module' = "unclass"
  /\ UNCHANGED <<guru_class, failedAt, vars>>

class_destroy ==
  /\ module = "unclass"
  /\ guru_class' = FALSE
  /\ module' = "out"
  /\ UNCHANGED <<region, failedAt, vars>>

-----------------------------------------------------------------------------
DrvNext ==
  \/ class_create \/ guru_boot_init \/ usb_register
  \/ guru_drv_exit \/ usb_deregister \/ guru_boot_exit \/ class_destroy
  \/ /\ module \in {"in", "deregister"}
     /\ Proceed
     /\ UNCHANGED drvVars
  \/ /\ module = "in"
     /\ Arrive \/ \E f \in File : guru_boot_open(f) \/ Close(f)
     /\ UNCHANGED drvVars

DrvSpec == DrvInit /\ [][DrvNext]_<<vars, drvVars>>

-----------------------------------------------------------------------------
(* The class and the region outlive every adapter and every open file that *)
(* uses them, whenever the module is unloaded.                             *)
NeedsClass ==
  (\E g \in Guru : at[g] # "out") \/ (\E f \in File : private_data[f] # NULL) =>
    guru_class /\ region

(* Unloaded, the driver leaves nothing registered; after a failed load at  *)
(* most the class, and only when it was usb_register that failed, since    *)
(* label err_usb does not destroy it.                                      *)
OutIsClean ==
  module = "out" =>
    /\ ~region
    /\ guru_class => failedAt = "usb_register"
=============================================================================
