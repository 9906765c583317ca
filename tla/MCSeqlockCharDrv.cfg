\* Three processes on a one-byte buffer: a read beside two writes.
SPECIFICATION Spec
CONSTANTS
  Proc = {p1, p2, p3}
  Byte = {0, 1}
  Zero = 0
  kmalloc_size = 1
  buffer_len = 2
  Counts = {1, 2}
INVARIANT UnchangedBytesAreRead
SYMMETRY Symmetry
\* A copy past the allocation ends the model of that call.
CHECK_DEADLOCK FALSE
