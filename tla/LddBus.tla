-------------------------------- MODULE LddBus --------------------------------
(***************************************************************************)
(* The virtual ldd bus: ex24 registers the bus, ex25 a device on it and    *)
(* ex26 a driver for it, all three modules that come and go on their own.  *)
(* (ModuleLoad has the resources of each of them by itself.)               *)
(*                                                                         *)
(* From the kernel (outside this repository): ex25 and ex26 call functions *)
(* that ex24 exports, so they load only while ex24 is loaded and keep it   *)
(* loaded.  Registering a device calls the bus's match for every driver    *)
(* on the bus and the other way round; a pair that matches is bound.       *)
(* Registering a second bus or driver of the same name fails.              *)
(***************************************************************************)

VARIABLES
  loaded,         \* modules that are loaded: a subset of {"ex24", "ex25", "ex26"}
  ldd_bus_type,   \* registered: "no", "yes", or "freed": yes, by a module that is gone
  bus_attr,       \* does /sys/bus/ldd/version exist?
  ldd_device,     \* sample_ldd_device is registered: "no" or "yes"
  ldd_driver,     \* sample_ldd_driver is registered: "no", "yes" or "freed"
  bound,          \* the device is bound to the driver
  mishap,         \* history: the registrations that failed half-way
  lcrash          \* memory of a module that is gone was used: the machine is dead

lddvars == <<loaded, ldd_bus_type, bus_attr, ldd_device, ldd_driver, bound, mishap, lcrash>>

LddInit ==
  /\ loaded = {} /\ ldd_bus_type = "no" /\ bus_attr = FALSE
  /\ ldd_device = "no" /\ ldd_driver = "no" /\ bound = FALSE
  /\ mishap = {} /\ lcrash = FALSE

(* Mutant: the device is registered under the name in struct ldd_device. *)
DevName_Own == "ldd sample"

DevName == "ldd0"       \* dev_set_name in ldd_register_device
DriverName == "ldd0"    \* sample_ldd_driver.driver.name

(* A driver matches devices whose name begins with its own. *)
ldd_match(dev, driver) == dev = "yes" /\ driver # "no" /\ DevName = DriverName

(* bus_module_init; when ldd_bus cannot be registered, the bus stays. *)
bus_module_init ==
  /\ ~ lcrash /\ "ex24" \notin loaded
  /\ \/ /\ UNCHANGED <<loaded, ldd_bus_type, bus_attr, mishap>>        \* bus_register fails
     \/ /\ ldd_bus_type = "no"
        /\ bus_attr' \in BOOLEAN
        /\ \/ /\ ldd_bus_type' = "yes" /\ loaded' = loaded \cup {"ex24"}
              /\ UNCHANGED mishap
           \/ /\ ldd_bus_type' = "freed" /\ mishap' = mishap \cup {"ldd_bus"}
              /\ UNCHANGED loaded
  /\ UNCHANGED <<ldd_device, ldd_driver, bound, lcrash>>

(* Unregistering a bus that still has a driver on it leaves the driver with a freed bus. *)
bus_module_exit ==
  /\ ~ lcrash /\ loaded = {"ex24"}
  /\ loaded' = {} /\ ldd_bus_type' = "no" /\ bus_attr' = FALSE
  /\ lcrash' = (ldd_device # "no" \/ ldd_driver # "no")
  /\ UNCHANGED <<ldd_device, ldd_driver, bound, mishap>>

(* Matching reads the name of every driver on the bus. *)
ldd_register_device ==
  /\ ~ lcrash /\ "ex24" \in loaded /\ "ex25" \notin loaded
  /\ \/ UNCHANGED <<loaded, ldd_device, bound, lcrash>>
     \/ /\ ldd_device' = "yes" /\ loaded' = loaded \cup {"ex25"}
        /\ bound' = ldd_match(ldd_device', ldd_driver)
        /\ lcrash' = (ldd_driver = "freed")
  /\ UNCHANGED <<ldd_bus_type, bus_attr, ldd_driver, mishap>>

ldd_unregister_device ==
  /\ ~ lcrash /\ "ex25" \in loaded
  /\ ldd_device' = "no" /\ loaded' = loaded \ {"ex25"} /\ bound' = FALSE
  /\ lcrash' = (bound /\ ldd_driver = "freed")
  /\ UNCHANGED <<ldd_bus_type, bus_attr, ldd_driver, mishap>>

(* When the attribute cannot be created, init fails and the driver stays registered. *)
ldd_register_driver ==
  /\ ~ lcrash /\ "ex24" \in loaded /\ "ex26" \notin loaded
  /\ \/ UNCHANGED <<loaded, ldd_driver, bound, mishap>>                \* driver_register fails
     \/ /\ ldd_driver = "no"
        /\ \/ /\ ldd_driver' = "yes" /\ loaded' = loaded \cup {"ex26"}
              /\ UNCHANGED mishap
           \/ /\ ldd_driver' = "freed" /\ mishap' = mishap \cup {"version_attr"}
              /\ UNCHANGED loaded
        /\ bound' = ldd_match(ldd_device, ldd_driver')
  /\ UNCHANGED <<ldd_bus_type, bus_attr, ldd_device, lcrash>>

(* Mutant: only the attribute is removed. *)
ldd_unregister_driver_NoDriver ==
  /\ ~ lcrash /\ "ex26" \in loaded
  /\ ldd_driver' = "freed" /\ loaded' = loaded \ {"ex26"}
  /\ UNCHANGED <<ldd_bus_type, bus_attr, ldd_device, bound, mishap, lcrash>>

ldd_unregister_driver ==
  /\ ~ lcrash /\ "ex26" \in loaded
  /\ ldd_driver' = "no" /\ loaded' = loaded \ {"ex26"} /\ bound' = FALSE
  /\ UNCHANGED <<ldd_bus_type, bus_attr, ldd_device, mishap, lcrash>>

(* Somebody reads /sys/bus/ldd/version. *)
show_bus_version ==
  /\ ~ lcrash /\ bus_attr
  /\ lcrash' = (ldd_bus_type = "freed")
  /\ UNCHANGED <<loaded, ldd_bus_type, bus_attr, ldd_device, ldd_driver, bound, mishap>>

LddNext ==
  \/ bus_module_init \/ bus_module_exit \/ show_bus_version
  \/ ldd_register_device \/ ldd_unregister_device
  \/ ldd_register_driver \/ ldd_unregister_driver

LddSpec == LddInit /\ [][LddNext]_lddvars
-------------------------------------------------------------------------------
(* The device is bound exactly while both it and a driver are registered,    *)
(* in whatever order the modules come, fail and go, and both are on a bus    *)
(* that is there.                                                            *)
BoundWhileBothRegistered ==
  ~ lcrash => /\ bound <=> (ldd_device = "yes" /\ ldd_driver # "no")
              /\ ldd_device = "yes" \/ ldd_driver # "no" => ldd_bus_type = "yes"

(* No memory of an unloaded module is ever used, unless a registration       *)
(* failed half-way: then ex24 leaves its bus behind (ex24.c:126) or ex26 its *)
(* driver (ex24.c:66).                                                       *)
UnloadedIsUnused == lcrash => mishap # {}
-------------------------------------------------------------------------------
(* The inductive invariant: which module registered what.  An object that    *)
(* outlived its module is there because a registration failed half-way.      *)
LddTypeOK ==
  /\ loaded \subseteq {"ex24", "ex25", "ex26"} /\ ldd_bus_type \in {"no", "yes", "freed"}
  /\ ldd_device \in {"no", "yes"} /\ ldd_driver \in {"no", "yes", "freed"}
  /\ bus_attr \in BOOLEAN /\ bound \in BOOLEAN /\ lcrash \in BOOLEAN
  /\ mishap \subseteq {"ldd_bus", "version_attr"}

OwnerInv ==
  /\ "ex24" \in loaded <=> ldd_bus_type = "yes"
  /\ "ex25" \in loaded <=> ldd_device = "yes"
  /\ "ex26" \in loaded <=> ldd_driver = "yes"
  /\ ldd_device = "yes" \/ ldd_driver # "no" => "ex24" \in loaded
  /\ ldd_bus_type = "freed" \/ ldd_driver = "freed" => mishap # {}
  /\ bound <=> (ldd_device = "yes" /\ ldd_driver # "no")

LddIInv == LddTypeOK /\ (~ lcrash => OwnerInv) /\ UnloadedIsUnused
===============================================================================
