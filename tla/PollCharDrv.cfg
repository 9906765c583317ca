\* One process runs polltest, one calls read directly, two write; signals.
SPECIFICATION PollFairSpec
CONSTANTS
  Proc = {t, r, w1, w2}
  Pollers = {t}
  Readers = {r}
  Writers = {w1, w2}
  Signals = TRUE
  Byte = {a}
  Zero = a
  kmalloc_size = 1
  buffer_len = 1
  Counts = {1}
INVARIANTS
  IInv
  NoLostWakeup
  NoReadBeforeWrite
  ReadAfterPollNeverWaits
PROPERTY AnnouncedDataIsRead
CHECK_DEADLOCK FALSE
