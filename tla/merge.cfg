SPECIFICATION Spec
CONSTANTS
  IDLE = idle
  idle = idle
  ta = ta
  tb = tb
  tc = tc
  td = td
  Task = {idle, ta, tb, tc, td}
  SCHED_PRIORITY_MAX = 3
  RR_TICKS = 1
  MaxPending = 4
INVARIANT LoopComputesMerged
INVARIANT MergeIsStable
