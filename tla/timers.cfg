SPECIFICATION Spec
CONSTANTS
  Wd = {d1, d2, d3}
  Prealloc = {d1, d2}
  WDOG_INTRESERVE = 1
  Tm = {x1, x2}
  Owner = {o1, o2}
  TimeArg = {0, 2}
  Work = {k1}
  DelayArg = {0, 2}
  PERIOD = 3
INVARIANTS TypeOK 
PROPERTIES ImplementsAbs
