\* Every example; those that publish last are opened as soon as they are published,
\* and ex4, which has the script of ex3, as well.
\* Two devices of each kind; a machine that has crashed has no next state.
SPECIFICATION MCSpec
CONSTANTS
  Drivers <- AllDrivers
  MaxFiles = 2
  EarlyOpen <- MCEarlyOpen
  PciDev = {"pci1", "pci2"}
  NBar = 2
  Bars <- MCBars
  p1 = p1
  p2 = p2
  User = {p1, p2}
  usb1 = usb1
  usb2 = usb2
  UsbDev = {usb1, usb2}
  NoDev = NoDev
CHECK_DEADLOCK FALSE
INVARIANTS
  LoadIInv
  OpenSafe
  ReleaseHeld
  LeaksKnown
  HandlerHasModule
  BoundWhileBothRegistered
  UnloadedIsUnused
  RemoveReleasesAll
  TakenWasRefused
  LoneTransferIsOwn
  PluggedIsSafe
PROPERTIES
  UnloadEnds
