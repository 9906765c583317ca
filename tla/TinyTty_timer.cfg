\* The claim of the comment in do_close, which del_timer does not keep.
SPECIFICATION Spec
CONSTANTS
  p1 = p1
  p2 = p2
  Proc = {p1, p2}
  None = None
CHECK_DEADLOCK FALSE
INVARIANT
  TimerStopsWithLastClose
