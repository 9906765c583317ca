------------------------------- MODULE PciDriver -------------------------------
(***************************************************************************)
(* The PCI driver (src/day_08/ex22.c).  probe requests and maps the six    *)
(* regions of a device one by one and notes their addresses in the global  *)
(* iobase; remove releases the regions whose iobase is not 0.  All devices *)
(* share iobase.  (VirtualBaseAddr is only ever assigned: nothing unmaps   *)
(* what it points to.)                                                     *)
(*                                                                         *)
(* From the kernel (outside this repository): requesting a region that the *)
(* device does not have succeeds and does nothing; requesting one that     *)
(* somebody else holds fails; releasing a region takes it from whoever     *)
(* holds it.                                                               *)
(***************************************************************************)
EXTENDS Integers

CONSTANTS
  PciDev,   \* devices that the driver serves
  NBar,     \* number of base address registers (6)
  Bars      \* the BARs that each device implements

ASSUME PciAssumption ==
  /\ NBar \in Nat /\ Bars \in [PciDev -> SUBSET (0 .. NBar - 1)]
  /\ "none" \notin PciDev

Bar == 0 .. NBar - 1

VARIABLES
  pstate,    \* "out", "probe", "bound" or "remove", for each device
  i,         \* the loop index of its probe or remove
  iobase,    \* for each BAR the device whose address was noted last, or "none" for 0
  region,    \* who holds each region: "nobody", "driver" or "other"
  refused,   \* history: regions that the last probe of the device did not get
  disturbed, \* history: devices during or after whose probe another one was probed
  taken      \* history: regions that remove took from another driver

pcivars == <<pstate, i, iobase, region, refused, disturbed, taken>>

Region == {r \in PciDev \X Bar : r[2] \in Bars[r[1]]}

PciInit ==
  /\ pstate = [d \in PciDev |-> "out"] /\ i = [d \in PciDev |-> 0]
  /\ iobase = [b \in Bar |-> "none"]
  /\ region \in [Region -> {"nobody", "other"}]
  /\ refused = {} /\ disturbed = {} /\ taken = {}

(* Another driver requests or releases a region. *)
OtherDriver ==
  /\ \E r \in Region : /\ region[r] # "driver"
                       /\ region' = [region EXCEPT ![r] = IF @ = "other" THEN "nobody" ELSE "other"]
  /\ UNCHANGED <<pstate, i, iobase, refused, disturbed, taken>>

Of(d) == {r \in Region : r[1] = d}

(* pci_enable_device, whose result is not looked at *)
ProbeStart(d) ==
  /\ pstate[d] = "out"
  /\ pstate' = [pstate EXCEPT ![d] = "probe"] /\ i' = [i EXCEPT ![d] = 0]
  /\ refused' = refused \ Of(d) /\ taken' = taken \ Of(d)
  /\ LET others == PciDev \ {d} IN
     disturbed' = UNION {disturbed \ {d}, {e \in others : pstate[e] # "out"},
                         {c \in {d} : \E e \in others : pstate[e] = "probe"}}
  /\ UNCHANGED <<iobase, region>>

(* Mutant: the region is mapped without being requested. *)
ProbeBar_NoRequest(d) ==
  /\ pstate[d] = "probe" /\ i[d] \in Bar
  /\ iobase' = [iobase EXCEPT ![i[d]] = IF <<d, i[d]>> \in Region THEN d ELSE "none"]
  /\ i' = [i EXCEPT ![d] = @ + 1]
  /\ UNCHANGED <<pstate, region, refused, disturbed, taken>>

(* One round of probe's loop: BAR i *)
ProbeBar(d) ==
  LET b == i[d]
      r == <<d, b>>
      got == r \notin Region \/ region[r] = "nobody"
  IN
  /\ pstate[d] = "probe" /\ b \in Bar
  /\ iobase' = [iobase EXCEPT ![b] = IF r \in Region THEN d ELSE "none"]
  /\ region' = IF r \in Region /\ got THEN [region EXCEPT ![r] = "driver"] ELSE region
  /\ refused' = IF got THEN refused ELSE refused \cup {r}
  /\ i' = [i EXCEPT ![d] = b + 1]
  /\ UNCHANGED <<pstate, disturbed, taken>>

ProbeEnd(d) ==
  /\ pstate[d] = "probe" /\ i[d] \notin Bar
  /\ pstate' = [pstate EXCEPT ![d] = "bound"] /\ i' = [i EXCEPT ![d] = 0]
  /\ UNCHANGED <<iobase, region, refused, disturbed, taken>>

sample_pci_driver_probe(d) == ProbeStart(d) \/ ProbeBar(d) \/ ProbeEnd(d)

(* Mutant: the loop starts at BAR 1. *)
First_One == 1

First == 0

(* Does remove take BAR b for one that has an address? *)
Noted(b) == iobase[b] # "none"

sample_pci_driver_remove(d) ==
  /\ \/ /\ pstate[d] = "bound"
        /\ pstate' = [pstate EXCEPT ![d] = "remove"] /\ i' = [i EXCEPT ![d] = First]
        /\ UNCHANGED <<region, taken>>
     \/ /\ pstate[d] = "remove" /\ i[d] \in Bar
        /\ LET r == <<d, i[d]>> IN
           IF Noted(i[d]) /\ r \in Region /\ region[r] # "nobody"
             THEN /\ region' = [region EXCEPT ![r] = "nobody"]
                  /\ taken' = IF region[r] = "other" THEN taken \cup {r} ELSE taken
             ELSE UNCHANGED <<region, taken>>
        /\ i' = [i EXCEPT ![d] = @ + 1] /\ UNCHANGED pstate
     \/ /\ pstate[d] = "remove" /\ i[d] \notin Bar             \* pci_disable_device
        /\ pstate' = [pstate EXCEPT ![d] = "out"] /\ i' = [i EXCEPT ![d] = 0]
        /\ UNCHANGED <<region, taken>>
  /\ UNCHANGED <<iobase, refused, disturbed>>

PciNext ==
  \/ OtherDriver
  \/ \E d \in PciDev : sample_pci_driver_probe(d) \/ sample_pci_driver_remove(d)

PciSpec == PciInit /\ [][PciNext]_pcivars
-------------------------------------------------------------------------------
(* remove gives back every region of its device, unless another device was   *)
(* probed meanwhile: its probe overwrites iobase, and a BAR that it does not *)
(* have stays requested on the device that is removed.                       *)
RemoveReleasesAll ==
  \A r \in Region : pstate[r[1]] = "out" /\ r[1] \notin disturbed => region[r] # "driver"

(* remove takes a region from another driver only if probe's own request for *)
(* it had failed: probe goes on after a failed request, and remove does not  *)
(* know.                                                                     *)
TakenWasRefused == taken \subseteq refused
-------------------------------------------------------------------------------
PciTypeOK ==
  /\ pstate \in [PciDev -> {"out", "probe", "bound", "remove"}]
  /\ i \in [PciDev -> 0 .. NBar]
  /\ iobase \in [Bar -> PciDev \cup {"none"}]
  /\ region \in [Region -> {"nobody", "driver", "other"}]
  /\ disturbed \subseteq PciDev

(* BARs of d that its probe has been through, and those that its remove has  *)
(* still to go through.                                                      *)
Probed(d) == {b \in Bars[d] : pstate[d] = "probe" => b < i[d]}
Pending(d) == {b \in Bars[d] : CASE pstate[d] = "probe"  -> b < i[d]
                                [] pstate[d] = "remove" -> b >= i[d]
                                [] OTHER                -> TRUE}

(* Every region that probe went through is the driver's or was refused.      *)
RequestInv ==
  \A d \in PciDev : pstate[d] # "out" =>
    \A b \in Pending(d) : region[<<d, b>>] = "driver" \/ <<d, b>> \in refused

(* A device that nobody disturbs has iobase to itself, and what its remove   *)
(* has been through is released.                                             *)
AloneInv ==
  \A d \in PciDev \ disturbed :
    /\ pstate[d] # "out" => /\ \A e \in PciDev \ {d} : pstate[e] # "probe"
                           /\ \A b \in Probed(d) : iobase[b] = d
    /\ pstate[d] = "remove" => \A b \in Bars[d] : b < i[d] => region[<<d, b>>] # "driver"

(* The inductive invariant of probe and remove. *)
PciIInv == PciTypeOK /\ RequestInv /\ AloneInv /\ RemoveReleasesAll /\ TakenWasRefused
===============================================================================
