\* Two processes on one or two CPUs; buffers of two or three cells, requests beyond them;
\* three processes on the completion, so that a newcomer overtakes a woken reader, and three writes.
SPECIFICATION MCSpec
CONSTANTS
  p1 = p1
  p2 = p2
  Task = {p1, p2}
  NoTask = NoTask
  NCpu = 2
  NCell = 2
  Thread = {p1, p2}
  MAX_LENGTH = 3
  MaxRequest = 4
  Client = {"c1", "c2"}
  RecordLen = 2
  Sizes = {1, 2, 3}
  Wrap = 2
  Reader = {p1, p2}
  NoReader = NoReader
  p3 = p3
  Proc = {p1, p2, p3}
  Byte = {a}
  Zero = a
  kmalloc_size = 1
  buffer_len = 2
  Counts = {1}
  MaxWrites = 3
CHECK_DEADLOCK FALSE
INVARIANTS
  MixtureNeedsRace
  CopyInsideBuffer
  PositionIsProgress
  PairNeedsOverlap
  OneConversion
  ReadHasItsWrite
  NoStrandedReader
PROPERTIES
  WaitersReturn
  ReadingEnds
  EventsAreTaken
