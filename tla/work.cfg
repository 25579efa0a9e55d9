SPECIFICATION FairSpec
CONSTANTS
  Wd = {d1, d2, d3}
  Prealloc = {d1, d2}
  WDOG_INTRESERVE = 1
  Tm = {x1}
  Owner = {o1}
  TimeArg = {0, 1}
  Work = {k1, k2}
  DelayArg = {0, 1}
  PERIOD = 2
INVARIANTS WorkerWakesInTime QueuedHasWorker
PROPERTIES QueuedWorkRuns
