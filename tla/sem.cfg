SPECIFICATION Spec
CONSTANTS
  IDLE = idle
  idle = idle
  ta = ta
  tb = tb
  tc = tc
  s1 = s1
  s2 = s2
  NULL = NULL
  Task = {idle, ta, tb, tc}
  SCHED_PRIORITY_MAX = 2
  RR_TICKS = 1
  Sem = {s1, s2}
  InitCount <- MCInitCount
  BootList <- MCBootList
  BootPrio <- MCBootPrio
  Manager = {ta}
  PrioArg = {1}
  ResetArg = {1}
  MaxCount = 1
  Calls = {"sem_timedwait", "sem_tickwait", "signal", "sem_reset", "sched_setpriority", "task_restart"}
INVARIANT TypeOK
INVARIANT CountIsWaiters
INVARIANT OutcomeReported
PROPERTY PostWakesMostUrgent
PROPERTY ImplementsAbs
