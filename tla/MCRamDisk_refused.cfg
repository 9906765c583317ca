\* hardsect_size of two kernel sectors: half of the announced capacity is refused.
SPECIFICATION FairSpec
CONSTANTS
  Proc = {p1, p2, p3}
  Val = {0}
  Zero = 0
  nsectors = 2
  hardsect_size = 2
  KERNEL_SECTOR_SIZE = 1
  MaxLen = 2
  CmdTypes = {"FS"}
PROPERTY EveryTransferEnds
CHECK_DEADLOCK FALSE
