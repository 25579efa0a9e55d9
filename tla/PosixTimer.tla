----------------------------- MODULE PosixTimer -----------------------------
(***************************************************************************)
(* The POSIX timers of Nuttx/nx/nuttx/sched/timer: a timer is a watchdog   *)
(* and the interval pt_delay with which timer_timeout starts it again.     *)
(*                                                                         *)
(* timer_settime is not one critical section: it stops the watchdog, then  *)
(* writes pt_delay, then starts the watchdog, and the timer interrupt may  *)
(* come in between.  timer_delete first deletes the watchdog and then      *)
(* frees the timer.  A timer is used by the task that created it.          *)
(***************************************************************************)
EXTENDS Wdog, FiniteSetsExt

CONSTANTS
  Tm,         \* the timer structures
  Owner,      \* the tasks that use timers
  TimeArg     \* the values of it_value and it_interval, in ticks

ASSUME PosixTimerAssumption == TimeArg \subseteq Nat /\ "none" \notin Owner

VARIABLES
  pt,     \* struct posix_timer_s of the timers in g_alloctimers
  call    \* what each owner is in the middle of

timerVars == <<pt, call>>

NoWd == "no watchdog"
NoTm == "no timer"
FreeTimer == [owner |-> "none", delay |-> 0, wd |-> NoWd]
Idle == [at |-> "idle", tm |-> NoTm, value |-> 0, interval |-> 0]

TimerTypeOK ==
  /\ pt \in [Tm -> [owner : Owner \union {"none"}, delay : Nat, wd : Wd \union {NoWd}]]
  /\ call \in [Owner -> [at : {"idle", "disarmed", "arm", "free"}, tm : Tm \union {NoTm},
                         value : TimeArg \union {0}, interval : TimeArg \union {0}]]

TimerInit ==
  /\ pt = [x \in Tm |-> FreeTimer]
  /\ call = [o \in Owner |-> Idle]

Timers(o) == {x \in Tm : pt[x].owner = o}

\* timer_create takes a watchdog first.  If no timer structure is left it
\* returns EAGAIN, and the watchdog is not given back.
TimerCreate(o) ==
  /\ call[o].at = "idle"
  /\ \E d \in wd_create(w) :
       /\ w' = Allocated(w, d)
       /\ \/ \E x \in Timers("none") :
               pt' = [pt EXCEPT ![x] = [owner |-> o, delay |-> 0, wd |-> d]]
          \/ Timers("none") = {} /\ UNCHANGED pt
  /\ UNCHANGED call

\* timer_settime, up to the test of it_value: the watchdog is stopped.
TimerSettime(o) ==
  /\ call[o].at = "idle"
  /\ \E x \in Timers(o), value \in TimeArg, interval \in TimeArg :
       /\ w' = wd_cancel(w, pt[x].wd)
       /\ call' = IF value = 0 THEN call
                  ELSE [call EXCEPT ![o] = [at |-> "disarmed", tm |-> x,
                                            value |-> value, interval |-> interval]]
  /\ UNCHANGED pt

TimerSetInterval(o) ==
  /\ call[o].at = "disarmed"
  /\ pt' = [pt EXCEPT ![call[o].tm].delay = call[o].interval]
  /\ call' = [call EXCEPT ![o].at = "arm"]
  /\ UNCHANGED w

\* The critical section of timer_settime.  passed: TIMER_ABSTIME was given and
\* the clock has passed it_value, the first interval is taken instead.
TimerArm(o, passed) ==
  LET x     == call[o].tm
      delay == IF passed THEN pt[x].delay ELSE call[o].value
  IN  /\ call[o].at = "arm"
      /\ w' = IF delay > 0 THEN wd_start(w, pt[x].wd, delay, x) ELSE w
      /\ call' = [call EXCEPT ![o] = Idle]
      /\ UNCHANGED pt

\* timer_delete: the reference of timer_create is the last one.
TimerDelete(o) ==
  /\ call[o].at = "idle"
  /\ \E x \in Timers(o) :
       /\ w' = wd_delete(w, pt[x].wd)
       /\ call' = [call EXCEPT ![o] = [Idle EXCEPT !.at = "free", !.tm = x]]
  /\ UNCHANGED pt

TimerFree(o) ==
  /\ call[o].at = "free"
  /\ pt' = [pt EXCEPT ![call[o].tm] = FreeTimer]
  /\ call' = [call EXCEPT ![o] = Idle]
  /\ UNCHANGED w

DeleteWds(ww, D) ==
  FoldSet(LAMBDA d, u : wd_delete(u, d), ww, D)

\* Fault: the timers of the task are freed, their watchdogs are not.
DeleteAllKeepsWds(o) ==
  /\ call[o].at # "free"
  /\ pt' = [x \in Tm |-> IF pt[x].owner = o THEN FreeTimer ELSE pt[x]]
  /\ call' = [call EXCEPT ![o] = Idle]
  /\ UNCHANGED w

\* timer_deleteall, when the owner exits or is deleted, except by another task
\* inside timer_delete; a new task may take its place.
TimerDeleteAll(o) ==
  /\ call[o].at # "free"
  /\ w' = DeleteWds(w, {pt[x].wd : x \in Timers(o)})
  /\ pt' = [x \in Tm |-> IF pt[x].owner = o THEN FreeTimer ELSE pt[x]]
  /\ call' = [call EXCEPT ![o] = Idle]

\* What the owner's task does with its timers, interrupts being enabled.
TimerCall(o) ==
  /\ ~isr
  /\ \/ TimerCreate(o) \/ TimerSettime(o) \/ TimerSetInterval(o)
     \/ TimerArm(o, FALSE) \/ TimerArm(o, TRUE)
     \/ TimerDelete(o) \/ TimerFree(o) \/ TimerDeleteAll(o)
  /\ UNCHANGED isr

\* timer_timeout, from wd_expiration: it holds a reference while it notifies the
\* owner, so that timer_release does not free the timer, and then starts the
\* watchdog again if the timer is periodic.
timer_timeout(x) ==
  w' = IF pt[x].delay > 0 THEN wd_start(TakeExpired(w), pt[x].wd, pt[x].delay, x)
       ELSE TakeExpired(w)

TimerExpires(x) ==
  /\ isr /\ Expired(w) /\ w.func[Head(w.list)] = x
  /\ timer_timeout(x)
  /\ UNCHANGED <<isr, pt, call>>
=============================================================================
