\* A hardware sector of two kernel sectors: the limit cuts the disk in two.
SPECIFICATION Spec
CONSTANTS
  Proc = {p1, p2, p3}
  Val = {0}
  Zero = 0
  nsectors = 4
  hardsect_size = 4
  KERNEL_SECTOR_SIZE = 2
  MaxLen = 4
  CmdTypes = {"FS", "PC"}
INVARIANTS
  IInv
  CopiesInsideDevice
SYMMETRY Symmetry
CHECK_DEADLOCK FALSE
