SPECIFICATION Spec
CONSTANTS
  IDLE = idle
  idle = idle
  mgr = mgr
  ta = ta
  tb = tb
  Task = {idle, mgr, ta, tb}
  Manager = {mgr}
  SCHED_PRIORITY_MAX = 2
  RR_TICKS = 1
  InitPrio = {1}
  RRTask = {ta}
  PrioArg = {0, 2}
  WaitState = {"WAIT_SEM"}
  MaxLock = 1
  Calls = {"sched_lock", "sched_yield", "sched_setparam", "sched_setscheduler", "task_restart", "task_delete", "exit"}
INVARIANT TypeOK
INVARIANT ListsMatchStates
INVARIANT IdleIsLast
INVARIANT ListsSorted
INVARIANT PendingOnlyWhenLocked
INVARIANT StrictPriority
 
INVARIANT TerminatesListedTask
PROPERTY LockKeepsProcessor
