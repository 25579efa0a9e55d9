SPECIFICATION Spec
CONSTANTS
  IDLE = idle
  idle = idle
  ta = ta
  tb = tb
  Task = {idle, ta, tb}
  SCHED_PRIORITY_MAX = 2
  RR_TICKS = 1
  Sig = {1, 2, 3}
  Handled = {1, 2}
  SaMask <- MCSaMask
  IsrSig = {2}
  SetArg = {{}, {2, 3}}
  MaxSends = 3
  BootList <- MCBootList
  BootPrio <- MCBootPrio
CHECK_DEADLOCK FALSE
INVARIANT TakesQueuedAction
