\* hardsect_size as by default, one kernel sector: transfers are merged in every
\* way, bytes matter and no transfer is given up.
SPECIFICATION FairSpec
CONSTANTS
  Proc = {p1, p2}
  Val = {0, 1}
  Zero = 0
  nsectors = 3
  hardsect_size = 1
  KERNEL_SECTOR_SIZE = 1
  MaxLen = 2
  CmdTypes = {"FS"}
PROPERTIES
  ImplementsDisk
  EveryTransferEnds
CHECK_DEADLOCK FALSE
