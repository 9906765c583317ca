------------------------------ MODULE UsbDriver ------------------------------
(***************************************************************************)
(* The USB driver (src/day_09/ex23.c).  probe stores the new device in the *)
(* global device and registers a minor; remove takes the minor back and    *)
(* leaves device as it is.  read and write of every open file use device   *)
(* and move their data through the one bulk_buf, without a lock.           *)
(*                                                                         *)
(* From the kernel (outside this repository): a usb_device is freed when   *)
(* it has been unplugged (the driver takes no reference); usb_bulk_msg     *)
(* fails on a device that is unplugged under it or that does not answer in *)
(* time; an open file outlives its device.                                 *)
(***************************************************************************)
EXTENDS Naturals, FiniteSets

CONSTANTS
  User,      \* processes
  UsbDev,    \* devices that are plugged in and out
  NoDev      \* no device, no data

ASSUME UsbAssumption == NoDev \notin UsbDev

VARIABLES
  bus,        \* devices that are plugged in
  minors,     \* devices registered with usb_register_dev
  device,     \* the global: a device, or NoDev for NULL
  bulk_buf,   \* the global: the process whose data, or whose answer, it holds
  file,       \* the device whose minor each process has open
  ustep,      \* where each process is
  target,     \* the device its usb_bulk_msg works on
  moved,      \* whose data its call has moved
  overlapped, \* history: processes whose call another call overlapped
  misled,     \* history: processes since whose open a device was probed, or whose
              \* device was not the last one probed when they opened it
  ucrash      \* processes whose call used a freed usb_device: the machine is dead

usbvars == <<bus, minors, device, bulk_buf, file, ustep, target, moved, overlapped,
             misled, ucrash>>

UsbInit ==
  /\ bus = {} /\ minors = {} /\ device = NoDev /\ bulk_buf = NoDev
  /\ file = [p \in User |-> NoDev] /\ ustep = [p \in User |-> "user"]
  /\ target = [p \in User |-> NoDev] /\ moved = [p \in User |-> NoDev]
  /\ overlapped = {} /\ misled = {} /\ ucrash = {}

Busy == {p \in User : ustep[p] \notin {"user", "read", "written"}}
UStep(p, l) == ustep' = [ustep EXCEPT ![p] = l]
Forget(p) ==
  /\ UStep(p, "user") /\ overlapped' = overlapped \ {p}
  /\ target' = [target EXCEPT ![p] = NoDev] /\ moved' = [moved EXCEPT ![p] = NoDev]

(* The global is set before the registration is tried, and stays set if it fails. *)
sample_usb_driver_probe(d) ==
  /\ ucrash = {} /\ d \notin bus
  /\ bus' = bus \cup {d}
  /\ device' = d
  /\ minors' \in {minors, minors \cup {d}}
  /\ misled' = {p \in User : file[p] # NoDev}
  /\ UNCHANGED <<bulk_buf, file, ustep, target, moved, overlapped, ucrash>>

(* Mutant: device is cleared whichever device is removed. *)
sample_usb_driver_remove_Clear(d) ==
  /\ ucrash = {} /\ d \in bus
  /\ bus' = bus \ {d} /\ minors' = minors \ {d} /\ device' = NoDev
  /\ UNCHANGED <<bulk_buf, file, ustep, target, moved, overlapped, misled, ucrash>>

(* The device is unplugged; its minor goes with it, device stays. *)
sample_usb_driver_remove(d) ==
  /\ ucrash = {} /\ d \in bus
  /\ bus' = bus \ {d} /\ minors' = minors \ {d}
  /\ UNCHANGED <<device, bulk_buf, file, ustep, target, moved, overlapped, misled, ucrash>>

pen_drive_open(p) ==
  /\ ucrash = {} /\ file[p] = NoDev
  /\ \E d \in minors : /\ file' = [file EXCEPT ![p] = d]
                       /\ misled' = IF d = device THEN misled ELSE misled \cup {p}
  /\ UNCHANGED <<bus, minors, device, bulk_buf, ustep, target, moved, overlapped, ucrash>>

pen_drive_close(p) ==
  /\ ucrash = {} /\ ustep[p] \in {"user", "read", "written"} /\ file[p] # NoDev
  /\ file' = [file EXCEPT ![p] = NoDev] /\ misled' = misled \ {p}
  /\ Forget(p)
  /\ UNCHANGED <<bus, minors, device, bulk_buf, ucrash>>

(* A new call: the result of the last one is forgotten. *)
Enters(p, l) ==
  /\ ucrash = {} /\ ustep[p] \in {"user", "read", "written"} /\ file[p] # NoDev
  /\ overlapped' = IF Busy = {} THEN overlapped \ {p} ELSE overlapped \cup Busy \cup {p}
  /\ moved' = [moved EXCEPT ![p] = NoDev]
  /\ UStep(p, l)

(* usb_bulk_msg takes device as it is now. *)
usb_bulk_msg(p) ==
  /\ target' = [target EXCEPT ![p] = device]
  /\ ucrash' = IF device \in bus THEN {} ELSE {p}

(* Mutant: the answer is copied out while the transfer is still under way. *)
pen_drive_read_CopyFirst(p) ==
  /\ \/ /\ Enters(p, "recv") /\ usb_bulk_msg(p) /\ UNCHANGED bulk_buf
     \/ /\ ucrash = {} /\ ustep[p] = "recv"
        /\ moved' = [moved EXCEPT ![p] = bulk_buf]
        /\ bulk_buf' = p
        /\ UStep(p, "read") /\ UNCHANGED <<target, overlapped, ucrash>>
  /\ UNCHANGED <<bus, minors, device, file, misled>>

pen_drive_read(p) ==
  /\ \/ /\ Enters(p, "recv")
        /\ usb_bulk_msg(p) /\ UNCHANGED bulk_buf
     \/ /\ ucrash = {} /\ ustep[p] = "recv"                   \* an answer
        /\ target[p] \in bus
        /\ bulk_buf' = p
        /\ UStep(p, "copy") /\ UNCHANGED <<target, moved, overlapped, ucrash>>
     \/ /\ ucrash = {} /\ ustep[p] \in {"recv", "copy"}       \* an error, -EFAULT
        /\ Forget(p) /\ UNCHANGED <<bulk_buf, ucrash>>
     \/ /\ ucrash = {} /\ ustep[p] = "copy"                   \* copy_to_user
        /\ moved' = [moved EXCEPT ![p] = bulk_buf]
        /\ UStep(p, "read") /\ UNCHANGED <<bulk_buf, target, overlapped, ucrash>>
  /\ UNCHANGED <<bus, minors, device, file, misled>>

pen_drive_write(p) ==
  /\ \/ /\ Enters(p, "filled")                             \* copy_from_user
        /\ bulk_buf' = p /\ UNCHANGED <<target, ucrash>>
     \/ /\ ucrash = {} /\ ustep[p] = "filled"
        /\ usb_bulk_msg(p)
        /\ UStep(p, "send") /\ UNCHANGED <<bulk_buf, moved, overlapped>>
     \/ /\ ucrash = {} /\ ustep[p] = "send"                   \* the device takes it
        /\ target[p] \in bus
        /\ moved' = [moved EXCEPT ![p] = bulk_buf]
        /\ UStep(p, "written") /\ UNCHANGED <<bulk_buf, target, overlapped, ucrash>>
     \/ /\ ucrash = {} /\ ustep[p] \in {"filled", "send"}     \* -EFAULT, an error
        /\ Forget(p) /\ UNCHANGED <<bulk_buf, ucrash>>
  /\ UNCHANGED <<bus, minors, device, file, misled>>

UsbNext ==
  \/ \E d \in UsbDev : sample_usb_driver_probe(d) \/ sample_usb_driver_remove(d)
  \/ \E p \in User : pen_drive_open(p) \/ pen_drive_close(p) \/ pen_drive_read(p) \/ pen_drive_write(p)

UsbSpec == UsbInit /\ [][UsbNext]_usbvars
-----------------------------------------------------------------------------
(* A call that no other call overlaps moves its own data, from or to the     *)
(* device that was opened, if no other device was probed after it: device    *)
(* and bulk_buf are shared by all devices and files, and nothing else mixes  *)
(* them up.                                                                  *)
LoneTransferIsOwn ==
  \A p \in User :
    ustep[p] \in {"read", "written"} /\ p \notin overlapped /\ p \notin misled =>
      target[p] = file[p] /\ moved[p] = p

(* A program is not hit by a freed usb_device while its own device is        *)
(* plugged in, unless another one was probed since.                          *)
PluggedIsSafe == \A p \in ucrash : file[p] \notin bus \/ p \in misled
-------------------------------------------------------------------------------
UsbTypeOK ==
  /\ file \in [User -> UsbDev \cup {NoDev}] /\ minors \subseteq UsbDev
  /\ ustep \in [User -> {"user", "recv", "copy", "read", "filled", "send", "written"}]
  /\ target \in [User -> UsbDev \cup {NoDev}] /\ device \in UsbDev \cup {NoDev}
  /\ moved \in [User -> User \cup {NoDev}] /\ bulk_buf \in User \cup {NoDev}
  /\ misled \subseteq User /\ overlapped \subseteq User

(* A process that was not misled has the global device open, and its         *)
(* transfer works on it; one that is alone in its call finds its own data in *)
(* bulk_buf.                                                                 *)
OwnInv ==
  /\ \A p \in User : ustep[p] # "user" => file[p] # NoDev
  /\ \A p \in User \ misled : file[p] # NoDev => file[p] = device
  /\ \A p \in User \ misled :
       ustep[p] \in {"recv", "copy", "read", "send", "written"} => target[p] = file[p]
  /\ \A p, q \in Busy : p # q => p \in overlapped
  /\ \A p \in User \ overlapped : /\ ustep[p] \in {"copy", "filled", "send"} => bulk_buf = p
                                  /\ ustep[p] \in {"read", "written"} => moved[p] = p

(* The inductive invariant of the devices and the calls. *)
UsbIInv == UsbTypeOK /\ OwnInv /\ PluggedIsSafe
=============================================================================
