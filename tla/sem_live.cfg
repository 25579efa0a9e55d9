SPECIFICATION FairSpec
CONSTANTS
  IDLE = idle
  idle = idle
  ta = ta
  tb = tb
  tc = tc
  s1 = s1
  s2 = s2
  NULL = NULL
  Task = {idle, ta, tc}
  SCHED_PRIORITY_MAX = 2
  RR_TICKS = 1
  Sem = {s1}
  InitCount <- MCInitCount
  BootList <- MCBootListSmall
  BootPrio <- MCBootPrio
  Manager = {ta}
  PrioArg = {1, 2}
  ResetArg = {0, 1}
  MaxCount = 1
  Calls = {"sem_timedwait", "sem_tickwait", "signal", "sched_lock", "task_restart", "task_delete"}
INVARIANT WatchdogHasCall
PROPERTY TimedWaitEnds
