---------------------------- MODULE MCModuleLoad ----------------------------
(***************************************************************************)
(* What comes and goes: the modules with their deferred work, the three    *)
(* modules around the ldd bus, the devices of the PCI and the USB driver.  *)
(* Init picks one of the four; the others stay in an initial state.        *)
(***************************************************************************)
EXTENDS DeferredWork, LddBus, PciDriver, UsbDriver

VARIABLE example   \* the module that runs

comingvars == <<allvars, lddvars, pcivars, usbvars, example>>

Modules == example = "modules" /\ UNCHANGED <<lddvars, pcivars, usbvars, example>>
Ldd     == example = "ldd" /\ UNCHANGED <<allvars, pcivars, usbvars, example>>
Pci     == example = "pci" /\ UNCHANGED <<allvars, lddvars, usbvars, example>>
Usb     == example = "usb" /\ UNCHANGED <<allvars, lddvars, pcivars, example>>

MCInit ==
  /\ InitAll /\ LddInit /\ PciInit /\ UsbInit
  /\ example \in {"modules", "ldd", "pci", "usb"}
  /\ example # "modules" => drv = "ex3" /\ ~ smp
  /\ example # "pci" => \A r \in Region : region[r] = "nobody"

ModuleStep ==
  \/ InitStep /\ Modules
  \/ ExitStep /\ Modules
  \/ Freed /\ Modules
  \/ Other /\ Modules
  \/ Run /\ Modules
  \/ Return /\ Modules
  \/ Crash /\ Modules

LddStep ==
  \/ bus_module_init /\ Ldd
  \/ bus_module_exit /\ Ldd
  \/ show_bus_version /\ Ldd
  \/ ldd_register_device /\ Ldd
  \/ ldd_unregister_device /\ Ldd
  \/ ldd_register_driver /\ Ldd
  \/ ldd_unregister_driver /\ Ldd

PciStep ==
  \/ OtherDriver /\ Pci
  \/ \E d \in PciDev : \/ ProbeStart(d) /\ Pci
                       \/ ProbeBar(d) /\ Pci
                       \/ ProbeEnd(d) /\ Pci
                       \/ sample_pci_driver_remove(d) /\ Pci

UsbStep ==
  \/ \E d \in UsbDev : \/ sample_usb_driver_probe(d) /\ Usb
                       \/ sample_usb_driver_remove(d) /\ Usb
  \/ \E p \in User : \/ pen_drive_open(p) /\ Usb
                     \/ pen_drive_close(p) /\ Usb
                     \/ pen_drive_read(p) /\ Usb
                     \/ pen_drive_write(p) /\ Usb

MCNext == ModuleStep \/ LddStep \/ PciStep \/ UsbStep

(* The fairness of SpecAll *)
MCSpec ==
  /\ MCInit /\ [][MCNext]_comingvars
  /\ SF_comingvars(ExitStep /\ Modules) /\ WF_comingvars(Freed /\ Modules)
  /\ WF_comingvars(Run /\ "irq" \notin held /\ Modules) /\ WF_comingvars(Return /\ Modules)

(* Every example with resources to manage. *)
AllDrivers == DOMAIN Script

(* Those that publish last, and a char driver whose script another one has too. *)
MCEarlyOpen == PublishLast \cup {"ex4"}

(* The second device lacks a BAR that the first one has. *)
MCBars == [d \in PciDev |-> IF d = "pci1" THEN {0, 1} ELSE {1}]
=============================================================================
