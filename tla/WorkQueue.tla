----------------------------- MODULE WorkQueue ------------------------------
(***************************************************************************)
(* The high-priority work queue of Nuttx/nx/nuttx/sched/wqueue: work_queue *)
(* and work_cancel, and the worker thread that runs work_process for ever. *)
(* Times are relative: age[k] is clock_systimer() - work->qtime and since  *)
(* is the clock minus stick, each counted only as far as it matters.       *)
(*                                                                         *)
(* The worker scans the queue and falls asleep in one critical section     *)
(* that it leaves only to call a worker function.  work_queue adds the     *)
(* entry in a critical section and sends SIGWORK after it.                 *)
(***************************************************************************)
EXTENDS Wdog, FiniteSetsExt

CONSTANTS
  Work,       \* the work_s structures
  DelayArg,   \* the delays work is queued with, in ticks
  PERIOD      \* CONFIG_SCHED_HPWORKPERIOD in ticks

ASSUME WorkQueueAssumption ==
  /\ DelayArg \subseteq Nat /\ IsFiniteSet(DelayArg) /\ DelayArg # {} /\ PERIOD \in Nat \ {0}
  /\ "not waiting" \notin Wd

VARIABLES
  q,       \* g_hpwork.q
  work,    \* the fields of each work_s; worker: the worker function is set
  kills,   \* work that has been queued and whose SIGWORK is still to be sent
  hp       \* the worker thread

workVars == <<q, work, kills, hp>>

SIG_TIMEOUT == "sig_timeout"
NoSleep == "not waiting"
SinceMax == Max(DelayArg \union {PERIOD})

\* Work that is not queued: its delay and time are not read.
NoWork == [worker |-> FALSE, delay |-> 0, age |-> 0]

\* The worker before a call of work_process.
Started == [at |-> "start", next |-> PERIOD, since |-> 0, wd |-> NoSleep]

WorkTypeOK ==
  /\ q \in Seq(Work)
  /\ work \in [Work -> [worker : BOOLEAN, delay : DelayArg \union {0}, age : 0..Max(DelayArg \union {0})]]
  /\ kills \subseteq Work
  /\ hp \in [at : {"start", "calling", "asleep", "woken"},
             next : 0..PERIOD, since : 0..SinceMax, wd : Wd \union {NoSleep}]

WorkInit ==
  /\ q = <<>>
  /\ work = [k \in Work |-> NoWork]
  /\ kills = {}
  /\ hp = Started

\* SIGWORK ends the worker's sleep; it has no effect on a worker that is awake.
work_signal == hp' = IF hp.at = "asleep" THEN [hp EXCEPT !.at = "woken"] ELSE hp

\* work_qqueue: k is not in the queue already.
work_qqueue(k, delay) ==
  /\ ~work[k].worker
  /\ work' = [work EXCEPT ![k] = [worker |-> TRUE, delay |-> delay, age |-> 0]]
  /\ q' = Append(q, k)

\* Called by a task, which may be suspended before it sends the signal ...
WorkQueueCall(k) ==
  /\ ~isr /\ k \notin kills
  /\ \E delay \in DelayArg : work_qqueue(k, delay)
  /\ kills' = kills \union {k}
  /\ UNCHANGED <<w, isr, hp>>

WorkKill(k) ==
  /\ ~isr /\ k \in kills
  /\ work_signal
  /\ kills' = kills \ {k}
  /\ UNCHANGED <<w, isr, q, work>>

\* ... or by an interrupt handler.
WorkQueueFromIsr(k) ==
  /\ ~isr /\ k \notin kills
  /\ \E delay \in DelayArg : work_qqueue(k, delay)
  /\ work_signal
  /\ UNCHANGED <<w, isr, kills>>

\* Fault: the cancelled work keeps its worker function.
CancelKeepsWorker(k) ==
  /\ ~isr /\ work[k].worker
  /\ q' = RemoveFirst(q, k)
  /\ UNCHANGED <<w, isr, work, kills, hp>>

WorkCancel(k) ==
  /\ ~isr /\ work[k].worker
  /\ q' = RemoveFirst(q, k)
  /\ work' = [work EXCEPT ![k] = NoWork]
  /\ UNCHANGED <<w, isr, kills, hp>>
-----------------------------------------------------------------------------
\* work_process.

Ready(k) == work[k].age >= work[k].delay

\* The delay the scan finds for work that is not ready: the ticks since stick
\* are taken off a second time, so the worker wakes up early rather than late.
Remainder(k) == work[k].delay - Min({work[k].delay, work[k].age + hp.since})

\* The work in front of the first that is ready, in queue order.
FirstReady == SelectInSeq(q, Ready)
Passed == IF FirstReady = 0 THEN ToSet(q) ELSE {q[i] : i \in 1..(FirstReady - 1)}
NextDelay == Min({hp.next} \union {Remainder(k) : k \in Passed})

\* The scan begins a call of work_process or follows the return of a worker
\* function.
Scanning == ~isr /\ hp.at \in {"start", "calling"}

\* The first work that is ready leaves the queue and is called, interrupts being
\* enabled; the scan then starts again at the head of the queue.
WorkRun ==
  /\ Scanning /\ FirstReady # 0
  /\ q' = RemoveAt(q, FirstReady)
  /\ work' = [work EXCEPT ![q[FirstReady]] = NoWork]
  /\ hp' = [hp EXCEPT !.at = "calling", !.next = NextDelay]
  /\ UNCHANGED <<w, isr, kills>>

\* Fault: the worker sleeps for the whole period.
SleepWholePeriod == PERIOD

SleepTicks == Min({NextDelay, PERIOD - hp.since})

\* Nothing is ready: usleep, unless the time is up already.  Without a watchdog
\* sigtimedwait returns at once.
WorkSleep ==
  /\ Scanning /\ FirstReady = 0
  /\ \/ /\ hp.since < PERIOD /\ NextDelay > 0
        /\ \E d \in wd_create(w) :
             /\ w' = wd_start(Allocated(w, d), d, SleepTicks, SIG_TIMEOUT)
             /\ hp' = [Started EXCEPT !.at = "asleep", !.wd = d]
     \/ /\ hp.since >= PERIOD \/ NextDelay = 0 \/ wd_create(w) = {}
        /\ hp' = Started
        /\ UNCHANGED w
  /\ UNCHANGED <<isr, q, work, kills>>

\* Fault: the end of the sleep is missed.
SleepExpiresUnseen ==
  /\ isr /\ Expired(w) /\ w.func[Head(w.list)] = SIG_TIMEOUT
  /\ w' = TakeExpired(w)
  /\ UNCHANGED <<isr, q, work, kills, hp>>

\* sig_timeout, from wd_expiration: the worker may have been woken before.
SleepExpires ==
  /\ isr /\ Expired(w) /\ w.func[Head(w.list)] = SIG_TIMEOUT
  /\ w' = TakeExpired(w)
  /\ hp' = IF hp.at = "asleep" THEN [hp EXCEPT !.at = "woken"] ELSE hp
  /\ UNCHANGED <<isr, q, work, kills>>

\* The worker runs again: sigtimedwait deletes the watchdog.
WorkResume ==
  /\ ~isr /\ hp.at = "woken"
  /\ w' = wd_delete(w, hp.wd)
  /\ hp' = Started
  /\ UNCHANGED <<isr, q, work, kills>>

Worker == WorkRun \/ WorkSleep \/ WorkResume

\* The clock of the work queue at a tick.
WorkTick ==
  /\ work' = [k \in Work |-> IF work[k].worker /\ ~Ready(k)
                             THEN [work[k] EXCEPT !.age = @ + 1] ELSE work[k]]
  /\ hp' = IF hp.at = "calling" /\ hp.since < SinceMax
           THEN [hp EXCEPT !.since = @ + 1] ELSE hp
  /\ UNCHANGED <<q, kills>>

WorkCall(k) == WorkQueueCall(k) \/ WorkKill(k) \/ WorkQueueFromIsr(k) \/ WorkCancel(k)
=============================================================================
