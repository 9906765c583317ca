\* Three processes share a port; nothing but a crash and the unload ends the system.
SPECIFICATION FairSpec
CONSTANTS
  p1 = p1
  p2 = p2
  p3 = p3
  Proc = {p1, p2, p3}
  None = None
CHECK_DEADLOCK FALSE
INVARIANTS
  IInv
  OpenCountMatches
  QuietAfterClose
  CrashHasCause
PROPERTIES
  DataArrives
