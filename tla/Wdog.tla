-------------------------------- MODULE Wdog --------------------------------
(***************************************************************************)
(* The watchdog timers of Nuttx/nx/nuttx/sched/wdog in the build with a    *)
(* periodic tick.  g_wdactivelist is a delta list: the lag of a watchdog   *)
(* counts from the expiry of the one in front of it.                       *)
(*                                                                         *)
(* Every operator takes the state w of the watchdogs and returns the one   *)
(* that the function of the same name leaves behind:                       *)
(*   w.list    g_wdactivelist                                              *)
(*   w.lag     wdog->lag (0 unless active)                                 *)
(*   w.func    whom the callback serves (NoFunc unless active)             *)
(*   w.unused  the pre-allocated watchdogs on g_wdfreelist and those that  *)
(*             the heap could still provide                                *)
(***************************************************************************)
EXTENDS Integers, FiniteSets, SequencesExt

CONSTANTS
  Wd,            \* the watchdog structures there can be
  Prealloc,      \* those of g_wdfreelist; the others come from the heap
  WDOG_INTRESERVE

ASSUME WdogAssumption ==
  IsFiniteSet(Wd) /\ Prealloc \subseteq Wd /\ WDOG_INTRESERVE \in Nat

VARIABLES
  w,     \* the watchdogs
  isr    \* the timer interrupt is being handled

NoFunc == "none"
NoWdogs ==
  [list |-> <<>>, lag |-> [d \in Wd |-> 0], func |-> [d \in Wd |-> NoFunc], unused |-> Wd]

WDOG_ISACTIVE(ww, d) == d \in ToSet(ww.list)
Position(ww, d) == CHOOSE i \in DOMAIN ww.list : ww.list[i] = d

\* The ticks until each place of the list expires: the sums of the lags.
Remaining(ww) ==
  LET now[i \in 0..Len(ww.list)] == IF i = 0 THEN 0 ELSE now[i - 1] + ww.lag[ww.list[i]]
  IN  now

wd_gettime(ww, d) == IF WDOG_ISACTIVE(ww, d) THEN Remaining(ww)[Position(ww, d)] ELSE 0

\* Fault: the next watchdog does not inherit the remaining ticks.
CancelDropsLag(ww, d) ==
  IF ~WDOG_ISACTIVE(ww, d) THEN ww
  ELSE [ww EXCEPT !.list = RemoveAt(@, Position(ww, d)), !.lag[d] = 0,
                  !.func[d] = NoFunc]

\* The watchdog behind the cancelled one inherits its remaining ticks.
wd_cancel(ww, d) ==
  LET i == Position(ww, d)
  IN  IF ~WDOG_ISACTIVE(ww, d) THEN ww
      ELSE [ww EXCEPT !.list = RemoveAt(@, i), !.func[d] = NoFunc,
                      !.lag = [e \in Wd |-> IF e = d THEN 0
                                            ELSE IF i < Len(ww.list) /\ e = ww.list[i + 1]
                                            THEN @[e] + @[d]
                                            ELSE @[e]]]

\* A task does not take the last watchdogs of the pool: they are reserved for
\* interrupt handlers, and it turns to the heap.  The watchdog that is returned,
\* none if that is NULL; which one is taken makes no difference.
wd_create(ww) ==
  LET pool   == ww.unused \intersect Prealloc
      source == IF Cardinality(pool) > WDOG_INTRESERVE THEN pool ELSE ww.unused \ Prealloc
  IN  IF source = {} THEN {} ELSE {CHOOSE d \in source : TRUE}

\* The chosen watchdog leaves the pool.
Allocated(ww, d) == [ww EXCEPT !.unused = @ \ {d}]

wd_delete(ww, d) == [wd_cancel(ww, d) EXCEPT !.unused = @ \union {d}]

\* wd_start stops an active watchdog, and goes behind every watchdog that
\* expires no later; the one behind it then counts from the new one.  One tick
\* is added because the current one has partly gone by.
wd_start(ww, d, ticks, func) ==
  LET u     == wd_cancel(ww, d)
      delay == IF ticks <= 0 THEN 1 ELSE ticks + 1
      now   == Remaining(u)
      i     == CHOOSE i \in 1..(Len(u.list) + 1) :
                 /\ \A n \in 1..(i - 1) : now[n] <= delay
                 /\ i <= Len(u.list) => now[i] > delay
      lag   == delay - now[i - 1]
  IN  [u EXCEPT !.list = InsertAt(@, i, d), !.func[d] = func,
                !.lag = [e \in Wd |-> IF e = d THEN lag
                                      ELSE IF i <= Len(u.list) /\ e = u.list[i] THEN @[e] - lag
                                      ELSE @[e]]]

\* wd_timer: the tick counts for the head only ...
wd_timer(ww) ==
  IF ww.list = <<>> THEN ww ELSE [ww EXCEPT !.lag[Head(ww.list)] = @ - 1]

\* Fault: a watchdog expires one tick late.
ExpiredLate(ww) == ww.list # <<>> /\ ww.lag[Head(ww.list)] < 0

\* ... and wd_expiration then calls the watchdogs at the head whose time has
\* come, one after the other.
Expired(ww) == ww.list # <<>> /\ ww.lag[Head(ww.list)] <= 0

\* wd_expiration, before the call: the head leaves the list.
TakeExpired(ww) == wd_cancel(ww, Head(ww.list))

\* What the clients of the watchdogs see: the ticks that are left.
Left(ww) == [d \in Wd |-> IF WDOG_ISACTIVE(ww, d) THEN wd_gettime(ww, d) ELSE -1]
=============================================================================
