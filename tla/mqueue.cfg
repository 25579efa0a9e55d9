SPECIFICATION Spec
CONSTANTS
  IDLE = idle
  idle = idle
  ta = ta
  tb = tb
  tc = tc
  q1 = q1
  q2 = q2
  NULL = NULL
  Task = {idle, ta, tb, tc}
  SCHED_PRIORITY_MAX = 2
  RR_TICKS = 1
  Queue = {q1}
  MaxMsgs = 1
  MsgPrio = {0, 1}
  NumFixed = 1
  NumIrq = 1
  BootList <- MCBootList
  BootPrio <- MCBootPrio
  Manager = {ta}
  Calls = {"mq_send", "mq_timedsend", "mq_timedreceive", "isr", "signal", "task_restart"}
CHECK_DEADLOCK FALSE
INVARIANTS TypeOK CountsMatchWaiters   TasksRespectMaxMsgs 
PROPERTY ReceiveTakesMostUrgent
