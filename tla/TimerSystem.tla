----------------------------- MODULE TimerSystem ----------------------------
(***************************************************************************)
(* The clients of the watchdog timers together: POSIX timers and the work  *)
(* queue take their watchdogs from one pool and are served from one list   *)
(* of active watchdogs in the timer interrupt.                             *)
(***************************************************************************)
EXTENDS PosixTimer, WorkQueue

ASSUME TimerSystemAssumption == SIG_TIMEOUT \notin Tm

vars == <<w, isr, pt, call, q, work, kills, hp>>

Init == w = NoWdogs /\ isr = FALSE /\ TimerInit /\ WorkInit

\* The timer interrupt: the clock advances, wd_timer counts ...
TickBegins ==
  /\ ~isr
  /\ isr' = TRUE
  /\ w' = wd_timer(w)
  /\ WorkTick
  /\ UNCHANGED timerVars

\* ... and wd_expiration serves what is due before the interrupt returns.
TickEnds ==
  /\ isr /\ ~Expired(w)
  /\ isr' = FALSE
  /\ UNCHANGED <<w, pt, call, q, work, kills, hp>>

Expiration ==
  \/ \E x \in Tm : TimerExpires(x) /\ UNCHANGED workVars
  \/ SleepExpires /\ UNCHANGED timerVars

Next ==
  \/ TickBegins
  \/ TickEnds
  \/ Expiration
  \/ \E o \in Owner : TimerCall(o) /\ UNCHANGED workVars
  \/ \E k \in Work : WorkCall(k) /\ UNCHANGED timerVars
  \/ Worker /\ UNCHANGED timerVars

Spec == Init /\ [][Next]_vars

\* The timer interrupts, and the worker thread runs when it is not asleep: it has
\* the highest priority.  A task that has queued work goes on to send its signal.
Fairness ==
  /\ WF_vars(TickBegins)
  /\ WF_vars(TickEnds \/ Expiration)
  /\ SF_vars(Worker /\ UNCHANGED timerVars)
  /\ \A k \in Work : SF_vars(WorkKill(k) /\ UNCHANGED timerVars)

FairSpec == Spec /\ Fairness
-----------------------------------------------------------------------------
\* The types of all variables.
TypeOK ==
  /\ isr \in BOOLEAN
  /\ w.list \in Seq(Wd) /\ w.lag \in [Wd -> Nat] /\ w.unused \subseteq Wd
  /\ TimerTypeOK /\ WorkTypeOK

\* A timer from its creation until timer_delete gives its watchdog back.
Live(x) ==
  pt[x].owner # "none" /\ \A o \in Owner : ~(call[o].at = "free" /\ call[o].tm = x)

\* A watchdog is served by one list and one client: an active watchdog is not in
\* the pool, it is the watchdog of the client its callback will reach, and no two
\* clients hold the same one.  Otherwise an expiry would reach a timer that was
\* freed, or a worker that sleeps for something else.
WatchdogHasOneClient ==
  /\ \A d \in ToSet(w.list) :
       /\ d \notin w.unused
       /\ \/ w.func[d] \in Tm /\ Live(w.func[d]) /\ pt[w.func[d]].wd = d
          \/ w.func[d] = SIG_TIMEOUT /\ hp.wd = d /\ hp.at \in {"asleep", "woken"}
  /\ \A x \in Tm : Live(x) =>
       /\ pt[x].wd \notin w.unused /\ pt[x].wd # hp.wd
       /\ \A y \in Tm \ {x} : Live(y) => pt[x].wd # pt[y].wd

\* The worker never oversleeps: while it sleeps its watchdog is running and
\* expires no later than one tick after any queued work becomes ready, unless the
\* signal of that work is still on its way.
WorkerWakesInTime ==
  hp.at = "asleep" =>
    /\ WDOG_ISACTIVE(w, hp.wd)
    /\ \A k \in ToSet(q) \ kills :
         wd_gettime(w, hp.wd) <= work[k].delay - work[k].age + 1

\* The worker function of a work_s is set exactly while it is in the queue, once:
\* what the assertions of work_cancel rely on.
QueuedHasWorker ==
  /\ \A k \in Work : work[k].worker <=> k \in ToSet(q)
  /\ IsInjective(q)

\* The delta list implements independent timers.
Abs == INSTANCE AbsTimers WITH Timer <- Wd, left <- Left(w), serving <- isr
ImplementsAbs == Abs!Spec

\* Queued work is called or cancelled in the end, although other work keeps being
\* queued before and behind it and the pool may have no watchdog for the worker.
QueuedWorkRuns == \A k \in Work : k \in ToSet(q) ~> k \notin ToSet(q)
=============================================================================
