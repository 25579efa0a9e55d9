SPECIFICATION OrderFairSpec
CONSTANTS
  IDLE = idle
  idle = idle
  mgr = mgr
  ta = ta
  tb = tb
  Task = {idle, mgr, ta, tb}
  Manager = {mgr}
  SCHED_PRIORITY_MAX = 2
  RR_TICKS = 2
  InitPrio = {1, 2}
  RRTask = {mgr, ta, tb}
  PrioArg = {1}
  WaitState = {"WAIT_SEM"}
  MaxLock = 1
  Calls = {"sched_lock", "sched_yield"}
INVARIANT EqualPriorityFifo
PROPERTY RoundRobinShares
