\* Two processes on a two-byte buffer; requests that fit.
SPECIFICATION Spec
CONSTANTS
  Proc = {p1, p2}
  Byte = {0, 1}
  Zero = 0
  kmalloc_size = 2
  buffer_len = 2
  Counts = {2}
INVARIANT ReadIsSnapshot
SYMMETRY Symmetry
CHECK_DEADLOCK FALSE
