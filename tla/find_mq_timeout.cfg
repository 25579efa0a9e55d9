SPECIFICATION Spec
CONSTANTS
  IDLE = idle
  idle = idle
  ta = ta
  tb = tb
  tc = tc
  q1 = q1
  q2 = q2
  NULL = NULL
  Task = {idle, ta, tb, tc}
  SCHED_PRIORITY_MAX = 2
  RR_TICKS = 1
  Queue = {q1}
  MaxMsgs = 2
  MsgPrio = {0}
  NumFixed = 1
  NumIrq = 1
  BootList <- MCBootList
  BootPrio <- MCBootPrio
  Manager = {ta}
  Calls = {"mq_send", "mq_timedreceive"}
CHECK_DEADLOCK FALSE
INVARIANT TimedWaitHasWatchdog
