----------------------------- MODULE Semaphore ------------------------------
(***************************************************************************)
(* The counting semaphores of Nuttx/nx/nuttx/sched/semaphore on top of the *)
(* task lists of Kernel: waits (plain, non-blocking, with a timeout),      *)
(* posts, the aborts of a wait by a signal or by the watchdog, sem_reset,  *)
(* and what task_restart and task_delete do to a waiting task.             *)
(*                                                                         *)
(* A handler is atomic up to the context switch inside it; the code after  *)
(* the switch runs when the task runs again, still with interrupts off.    *)
(***************************************************************************)
EXTENDS Kernel, FiniteSets

CONSTANTS
  Sem,        \* the semaphores
  InitCount,  \* their initial counts
  BootList,   \* the tasks started at boot, in the order of g_readytorun
  BootPrio,   \* their priorities
  Manager,    \* the tasks that delete and restart others
  PrioArg,    \* the priorities tasks are given later
  ResetArg,   \* the counts passed to sem_reset
  MaxCount,   \* bound on semcount (SEM_VALUE_MAX in the code)
  Calls,      \* the optional calls the tasks of the instance make
  NULL

ASSUME SemaphoreAssumption ==
  /\ IsFiniteSet(Task) /\ NULL \notin Sem \union Task
  /\ MaxCount \in Nat /\ InitCount \in [Sem -> 0..MaxCount]
  /\ BootList \in Seq(Task) \ {<<>>} /\ BootList[Len(BootList)] = IDLE
  /\ BootPrio \in [Task -> 0..SCHED_PRIORITY_MAX] /\ BootPrio[IDLE] = 0
  /\ \A t \in Task \ {IDLE} : InList(BootList, t) => BootPrio[t] \in Priority
  /\ \A i, j \in 1..Len(BootList) :
       i < j => BootList[i] # BootList[j] /\ BootPrio[BootList[i]] >= BootPrio[BootList[j]]
  /\ PrioArg \subseteq Priority /\ ResetArg \subseteq 0..MaxCount

VARIABLES
  z,        \* the kernel state k, semcount, waitsem and errno; the tasks whose
            \* last wait was ended by a post (history)
  pc,       \* where each task is inside a semaphore call
  victim,   \* the task that each task is in the middle of deleting
  waitdog   \* the tasks whose watchdog is running

vars == <<z, pc, victim, waitdog>>

Errno == {"OK", "EINTR", "ETIMEDOUT"}
Label == {"user", "sem_wait", "sem_timedwait", "sem_tickwait", "wd_delete", "exithook"}

Self == this_task(z.k)
Live == {t \in Task : z.k.state[t] # "INVALID"}

TypeOK ==
  /\ z \in [k : KernelState, count : [Sem -> (0 - Cardinality(Task))..MaxCount],
            waitsem : [Task -> Sem \union {NULL}], errno : [Task -> Errno],
            granted : SUBSET Task]
  /\ pc \in [Task -> Label]
  /\ victim \in [Task -> Task \union {NULL}]
  /\ waitdog \subseteq Task

Init ==
  /\ z = [ k |-> [os_start EXCEPT
                    !.list["READYTORUN"] = BootList,
                    !.prio = BootPrio, !.init = BootPrio,
                    !.state = [t \in Task |-> IF t = BootList[1] THEN "RUNNING"
                                              ELSE IF InList(BootList, t) THEN "READYTORUN"
                                              ELSE "INVALID"]],
           count |-> InitCount,
           waitsem |-> [t \in Task |-> NULL],
           errno |-> [t \in Task |-> "OK"],
           granted |-> {} ]
  /\ pc = [t \in Task |-> "user"]
  /\ victim = [t \in Task |-> NULL]
  /\ waitdog = {}
-----------------------------------------------------------------------------
\* The waiter that sem_post finds: the first task of g_waitingforsemaphore
\* that waits for s.
FirstWaiter(zz, s) ==
  LET l == zz.k.list["WAIT_SEM"]
      i == CHOOSE i \in 1..Len(l) : /\ zz.waitsem[l[i]] = s
                                    /\ \A j \in 1..(i - 1) : zz.waitsem[l[j]] # s
  IN  l[i]

HasWaiter(zz, s) == \E t \in Task : InList(zz.k.list["WAIT_SEM"], t) /\ zz.waitsem[t] = s

sem_post(zz, s) ==
  LET y == [zz EXCEPT !.count[s] = @ + 1]
      t == FirstWaiter(zz, s)
  IN  IF y.count[s] <= 0 /\ HasWaiter(zz, s)
      THEN [y EXCEPT !.waitsem[t] = NULL, !.k = up_unblock_task(@, t),
                     !.granted = @ \union {t}]
      ELSE y

\* Fault: errno is not cleared before the wait.
BlockOnKeepsErrno(zz, t, s) ==
  [zz EXCEPT !.count[s] = @ - 1, !.waitsem[t] = s,
             !.k = up_block_task(@, t, "WAIT_SEM"), !.granted = @ \ {t}]

\* sem_wait without a permit: up_block_task and the switch.
BlockOn(zz, t, s) ==
  [zz EXCEPT !.count[s] = @ - 1, !.waitsem[t] = s, !.errno[t] = "OK",
             !.k = up_block_task(@, t, "WAIT_SEM"), !.granted = @ \ {t}]

\* Fault: the aborted wait keeps its place in the count.
WaitirqKeepsCount(zz, t, e) ==
  IF zz.k.state[t] # "WAIT_SEM" THEN zz
  ELSE [zz EXCEPT !.waitsem[t] = NULL, !.errno[t] = e, !.k = up_unblock_task(@, t)]

\* A wait ends without a permit; the caller's errno tells it why.
sem_waitirq(zz, t, e) ==
  IF zz.k.state[t] # "WAIT_SEM" THEN zz
  ELSE [zz EXCEPT !.count[zz.waitsem[t]] = @ + 1, !.waitsem[t] = NULL,
                  !.errno[t] = e, !.k = up_unblock_task(@, t)]

\* Fault: the wait that is given up keeps its place in the count.
RecoverKeepsCount(zz, t) ==
  IF zz.k.state[t] # "WAIT_SEM" THEN zz ELSE [zz EXCEPT !.waitsem[t] = NULL]

\* Called for a task that is restarted or deleted: gives up its wait.
sem_recover(zz, t) ==
  IF zz.k.state[t] # "WAIT_SEM" THEN zz
  ELSE [zz EXCEPT !.count[zz.waitsem[t]] = @ + 1, !.waitsem[t] = NULL]

\* Fault: the count is assigned without waking the waiters.
ResetWithoutPosts(zz, s, n) == [zz EXCEPT !.count[s] = n]

\* The loop of sem_reset: at most n posts, while the count is negative.
Posted(zz, s, n) ==
  LET posted[i \in 0..n] ==
        IF i = 0 THEN zz
        ELSE IF posted[i - 1].count[s] < 0 THEN sem_post(posted[i - 1], s)
        ELSE posted[i - 1]
  IN  posted[n]

\* The posts are made with the scheduler locked; the count that is left is
\* assigned afterwards.
sem_reset(zz, s, n) ==
  LET waiters == IF zz.count[s] < 0 THEN 0 - zz.count[s] ELSE 0
      left    == IF n > waiters THEN n - waiters ELSE 0
      y       == Posted([zz EXCEPT !.k = sched_lock(@)], s, n)
  IN  [y EXCEPT !.count[s] = IF @ >= 0 THEN left ELSE @, !.k = sched_unlock(@)]
-----------------------------------------------------------------------------
InUser == pc[Self] = "user" /\ Self # IDLE

\* A task resumed inside a wait has not yet left its critical section.
InterruptsEnabled == pc[Self] \notin {"sem_wait", "sem_timedwait", "sem_tickwait"}

Finish == pc' = [pc EXCEPT ![Self] = "user"]

\* sem_wait, sem_trywait or the attempt at the start of a timed wait finds a
\* permit.  (A sem_trywait that finds none, and a timed wait whose time is
\* already over, return without changing anything.)
SemTake(s) ==
  /\ InUser /\ z.count[s] > 0
  /\ z' = [z EXCEPT !.count[s] = @ - 1, !.waitsem[Self] = NULL]
  /\ Finish
  /\ UNCHANGED <<victim, waitdog>>

SemWait(s) ==
  /\ InUser /\ z.count[s] <= 0
  /\ z' = BlockOn(z, Self, s)
  /\ pc' = [pc EXCEPT ![Self] = "sem_wait"]
  /\ UNCHANGED <<victim, waitdog>>

\* sem_timedwait and sem_tickwait start the watchdog before they wait.
SemTimedWait(s, call) ==
  /\ InUser /\ z.count[s] <= 0
  /\ z' = BlockOn(z, Self, s)
  /\ waitdog' = waitdog \union {Self}
  /\ pc' = [pc EXCEPT ![Self] = call]
  /\ UNCHANGED victim

\* sem_wait goes on after the switch: errno says how the wait ended.
SemWaitResumed ==
  /\ pc[Self] = "sem_wait"
  /\ Finish
  /\ UNCHANGED <<z, victim, waitdog>>

\* sem_timedwait cancels the watchdog, whatever the outcome.
SemTimedWaitResumed ==
  /\ pc[Self] = "sem_timedwait"
  /\ waitdog' = waitdog \ {Self}
  /\ Finish
  /\ UNCHANGED <<z, victim>>

\* sem_tickwait cancels it on success; on failure it is still running when the
\* critical section is left, until wd_delete.
SemTickWaitResumed ==
  /\ pc[Self] = "sem_tickwait"
  /\ UNCHANGED <<z, victim>>
  /\ IF z.errno[Self] = "OK"
     THEN waitdog' = waitdog \ {Self} /\ Finish
     ELSE pc' = [pc EXCEPT ![Self] = "wd_delete"] /\ UNCHANGED <<victim, waitdog>>

SemTickWaitDelete ==
  /\ pc[Self] = "wd_delete"
  /\ waitdog' = waitdog \ {Self}
  /\ Finish
  /\ UNCHANGED <<z, victim>>

\* By the running task or by an interrupt handler.
SemPost(s) ==
  /\ InterruptsEnabled
  /\ z.count[s] < MaxCount
  /\ z' = sem_post(z, s)
  /\ UNCHANGED <<pc, victim, waitdog>>

SemReset(s, n) ==
  /\ InUser
  /\ z' = sem_reset(z, s, n)
  /\ UNCHANGED <<pc, victim, waitdog>>

\* Fault: the watchdog expires and wakes nobody.
SemTimeoutLost(t) ==
  /\ InterruptsEnabled
  /\ t \in waitdog
  /\ waitdog' = waitdog \ {t}
  /\ UNCHANGED <<z, pc, victim>>

\* The watchdog of t expires: sem_timeout.
SemTimeout(t) ==
  /\ InterruptsEnabled
  /\ t \in waitdog
  /\ waitdog' = waitdog \ {t}
  /\ z' = sem_waitirq(z, t, "ETIMEDOUT")
  /\ UNCHANGED <<pc, victim>>

\* A signal for a waiting task: the end of sig_tcbdispatch.
Signal(t) ==
  /\ InterruptsEnabled
  /\ z.k.state[t] = "WAIT_SEM"
  /\ z' = sem_waitirq(z, t, "EINTR")
  /\ UNCHANGED <<pc, victim, waitdog>>

\* A priority changes while tasks wait (sched_setpriority).
SetPriority(t, p) ==
  /\ InUser /\ t \in Live \ {IDLE} /\ z.k.prio[t] # p
  /\ z' = [z EXCEPT !.k = sched_setpriority(@, t, p)]
  /\ UNCHANGED <<pc, victim, waitdog>>

SchedLock ==
  /\ InUser /\ z.k.lock[Self] = 0
  /\ z' = [z EXCEPT !.k = sched_lock(@)]
  /\ UNCHANGED <<pc, victim, waitdog>>

SchedUnlock ==
  /\ InUser /\ z.k.lock[Self] > 0
  /\ z' = [z EXCEPT !.k = sched_unlock(@)]
  /\ UNCHANGED <<pc, victim, waitdog>>

\* Fault: wd_recover is forgotten.
KeepWatchdog(t) == waitdog

\* wd_recover: the watchdog of a restarted or deleted task is deleted.
wd_recover(t) == waitdog \ {t}

\* task_restart: task_recover (wd_recover, sem_recover) while t is still in
\* its list, then the list change and task_activate.  (The window between
\* the two is in Scheduler.)
TaskRestart(t) ==
  /\ InUser /\ Self \in Manager /\ t \in Live \ {Self, IDLE}
  /\ z' = LET y == sem_recover(z, t)
          IN  [y EXCEPT !.k = up_unblock_task(Restarted(@, t), t)]
  /\ waitdog' = wd_recover(t)
  /\ pc' = [pc EXCEPT ![t] = "user"]
  /\ victim' = [victim EXCEPT ![t] = NULL]

\* task_delete: task_terminate takes t off its list and marks it INVALID ...
TaskDelete(t) ==
  /\ InUser /\ Self \in Manager /\ t \in Live \ {Self, IDLE}
  /\ z' = [z EXCEPT !.k = TakeOffList(@, t)]
  /\ victim' = [victim EXCEPT ![Self] = t]
  /\ pc' = [pc EXCEPT ![Self] = "exithook"]
  /\ UNCHANGED waitdog

\* ... and calls task_exithook, hence task_recover, afterwards.
TaskExitHook ==
  /\ pc[Self] = "exithook"
  /\ z' = sem_recover(z, victim[Self])
  /\ waitdog' = wd_recover(victim[Self])
  /\ victim' = [victim EXCEPT ![Self] = NULL]
  /\ pc' = [pc EXCEPT ![Self] = "user", ![victim[Self]] = "user"]

AppCall ==
  \/ \E s \in Sem : SemTake(s) \/ SemWait(s)
  \/ "sem_timedwait" \in Calls /\ \E s \in Sem : SemTimedWait(s, "sem_timedwait")
  \/ "sem_tickwait" \in Calls /\ \E s \in Sem : SemTimedWait(s, "sem_tickwait")
  \/ "sem_reset" \in Calls /\ \E s \in Sem, n \in ResetArg : SemReset(s, n)
  \/ "sched_setpriority" \in Calls /\ \E t \in Task, p \in PrioArg : SetPriority(t, p)
  \/ "sched_lock" \in Calls /\ (SchedLock \/ SchedUnlock)
  \/ "task_restart" \in Calls /\ \E t \in Task : TaskRestart(t)
  \/ "task_delete" \in Calls /\ \E t \in Task : TaskDelete(t)

Resume == SemWaitResumed \/ SemTimedWaitResumed \/ SemTickWaitResumed \/ SemTickWaitDelete

Next ==
  \/ AppCall \/ Resume \/ TaskExitHook
  \/ \E s \in Sem : SemPost(s)
  \/ \E t \in Task : SemTimeout(t)
  \/ "signal" \in Calls /\ \E t \in Task : Signal(t)

Spec == Init /\ [][Next]_vars

\* A watchdog that was started expires (the timer interrupt stays pending
\* while interrupts are off, so it is enough that they are on again and
\* again), and a task resumed inside a semaphore call goes on.
FairSpec == Spec /\ WF_vars(Resume) /\ \A t \in Task : SF_vars(SemTimeout(t))
-----------------------------------------------------------------------------
Waiting(s) == {t \in Task : z.k.state[t] = "WAIT_SEM" /\ z.waitsem[t] = s}

\* A negative semcount is the number of waiting tasks, whichever of sem_wait,
\* sem_post, sem_waitirq (signal and timeout racing a post), sem_reset and
\* sem_recover changed it last: sem_post wakes a task only on that account.
\* (While a task is being deleted, its exit hook has yet to run.)
CountIsWaiters ==
  (\A t \in Task : victim[t] = NULL) =>
    \A s \in Sem : Cardinality(Waiting(s)) = IF z.count[s] < 0 THEN 0 - z.count[s] ELSE 0

\* A watchdog runs only for a call that is going to cancel it: a later wait
\* of the same task is never cut short by it.
WatchdogHasCall ==
  \A t \in waitdog : pc[t] \in {"sem_timedwait", "sem_tickwait", "wd_delete"}

\* The task a post wakes is the most urgent of the waiters, also after their
\* priorities have changed.
PostWakesMostUrgent ==
  [][\A t \in Task, s \in Sem :
       /\ t \in Waiting(s) /\ t \notin Waiting(s)'
       /\ z'.errno[t] = "OK" /\ z'.count[s] = z.count[s] + 1 /\ pc'[t] = pc[t]
       => \A u \in Waiting(s)' : z.k.prio[u] <= z.k.prio[t]]_vars

\* A timed wait ends.
TimedWaitEnds ==
  \A t \in Task :
    (z.k.state[t] = "WAIT_SEM" /\ pc[t] \in {"sem_timedwait", "sem_tickwait"})
      ~> z.k.state[t] # "WAIT_SEM"

\* A call reports what happened to its wait: when it resumes, its errno is OK
\* exactly if a post ended the wait, and not a signal or the watchdog.
OutcomeReported ==
  \A t \in Task :
    z.k.state[t] # "WAIT_SEM" /\ pc[t] \in {"sem_wait", "sem_timedwait", "sem_tickwait"} =>
      (z.errno[t] = "OK" <=> t \in z.granted)

\* The semaphore as its callers see it.
Abs == INSTANCE AbsSemaphore WITH
  avail  <- [s \in Sem |-> IF z.count[s] > 0 THEN z.count[s] ELSE 0],
  status <- [t \in Task |->
               IF z.k.state[t] = "WAIT_SEM" THEN [phase |-> "waiting", sem |-> z.waitsem[t]]
               ELSE IF pc[t] \in {"user", "exithook"} THEN [phase |-> "idle", sem |-> NULL]
               ELSE IF t \in z.granted THEN [phase |-> "granted", sem |-> NULL]
               ELSE [phase |-> "failed", sem |-> NULL]]

\* Semaphore implements AbsSemaphore: no permit is lost or duplicated by the
\* counting below zero, and a call's errno tells whether a post ended its wait.
ImplementsAbs == Abs!Spec
=============================================================================
