\* kmalloc_size < buffer_len as in the driver; counts below, at and above both.
SPECIFICATION FairSpec
CONSTANTS
  Proc = {p1, p2}
  Byte = {0, 1}
  Zero = 0
  kmalloc_size = 2
  buffer_len = 3
  Counts = {1, 2, 4}
INVARIANT IInv
PROPERTIES
  Linearizable
  EveryCallReturns
\* A copy past the allocation ends the model of that call, with sem held.
CHECK_DEADLOCK FALSE
