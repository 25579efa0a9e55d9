----------------------------- MODULE Scheduler ------------------------------
(***************************************************************************)
(* The NuttX scheduler as a state machine over the task lists of Kernel:   *)
(* the calls of the running task (scheduler lock, priorities and policies, *)
(* blocking, task creation, deletion, restart and exit) and the interrupts *)
(* (the tick, and handlers that wake a task).                              *)
(*                                                                         *)
(* An action is one stretch of code inside enter/leave_critical_section.   *)
(* A call made of several stretches, or one that goes on after a context   *)
(* switch, keeps its place in pc.                                          *)
(***************************************************************************)
EXTENDS Kernel, FiniteSets

CONSTANTS
  Manager,    \* the tasks that create, delete and restart tasks
  InitPrio,   \* the priorities tasks are created with
  RRTask,     \* the tasks created with policy SCHED_RR (the others: SCHED_FIFO)
  PrioArg,    \* the priorities passed to sched_setparam, out-of-range ones included
  WaitState,  \* the blocking states the tasks use
  MaxLock,    \* bound on nested sched_lock calls
  Calls       \* the optional calls the tasks of the instance make

ASSUME SchedulerAssumption ==
  /\ Manager \subseteq Task \ {IDLE}
  /\ RRTask \subseteq Task \ {IDLE}
  /\ InitPrio \subseteq Priority
  /\ PrioArg \subseteq Nat
  /\ WaitState \subseteq BlockedState \ {"INACTIVE"}
  /\ MaxLock \in Nat

VARIABLES
  k,     \* the kernel state
  pids,  \* the tasks that g_pidhash maps to their TCB
  pc     \* where each task is inside a kernel call, with the call's arguments

vars == <<k, pids, pc>>

Label == {"bringup", "user", "unlock_rr", "setparam", "setparam_unlock",
          "activate", "reactivate", "terminate", "exithook"}

At(l, t, p) == [at |-> l, who |-> t, prio |-> p]
User == At("user", IDLE, 0)
Self == this_task(k)

TypeOK ==
  /\ k \in KernelState
  /\ pids \subseteq Task
  /\ pc \in [Task -> [at : Label, who : Task, prio : PrioArg \union {0}]]

Init ==
  /\ k = os_start
  /\ pids = {IDLE}
  /\ pc = [t \in Task |-> IF t = IDLE THEN At("bringup", IDLE, 0) ELSE User]

Goto(c) == pc' = [pc EXCEPT ![Self] = c]
-----------------------------------------------------------------------------
\* sched_lock and sched_unlock

SchedLock ==
  /\ pc[Self] = User
  /\ k.lock[Self] < MaxLock
  /\ k' = sched_lock(k)
  /\ UNCHANGED <<pids, pc>>

\* The end of sched_unlock, after up_release_pending has returned to r.
unlock_rr(kk, r) ==
  IF r \in kk.rr /\ kk.slice[r] = 0 /\ r # this_task(kk)
  THEN [kk EXCEPT !.slice[r] = RR_TICKS]
  ELSE kk

\* If up_release_pending switches to another task, the end of the call waits
\* until the caller runs again.
Unlock ==
  LET a == sched_unlock(k) IN
    IF this_task(a) = Self
    THEN /\ k' = IF a.lock[Self] = 0 THEN unlock_rr(a, Self) ELSE a
         /\ Goto(User)
    ELSE k' = a /\ Goto(At("unlock_rr", IDLE, 0))

SchedUnlock ==
  /\ pc[Self] = User
  /\ Unlock
  /\ UNCHANGED pids

UnlockResumed ==
  /\ pc[Self].at = "unlock_rr"
  /\ k' = unlock_rr(k, Self)
  /\ Goto(User)
  /\ UNCHANGED pids
-----------------------------------------------------------------------------
\* sched_yield, sched_setparam, sched_setscheduler

SchedYield ==
  /\ pc[Self] = User /\ Self # IDLE
  /\ k' = sched_setpriority(k, Self, k.prio[Self])
  /\ UNCHANGED <<pids, pc>>

SchedSetParam(t, p) ==
  /\ pc[Self] = User /\ Self # IDLE
  /\ k' = sched_lock(k)
  /\ Goto(At("setparam", t, p))
  /\ UNCHANGED pids

\* The policy is changed in a critical section of its own, then the priority
\* as in sched_setparam.
SchedSetScheduler(t, p, rr) ==
  /\ pc[Self] = User /\ Self # IDLE
  /\ t \in pids
  /\ k' = LET a == sched_lock(k) IN
            [a EXCEPT !.rr = IF rr THEN @ \union {t} ELSE @ \ {t},
                      !.slice[t] = IF rr THEN RR_TICKS ELSE 0]
  /\ Goto(At("setparam", t, p))
  /\ UNCHANGED pids

\* sched_gettcb, then sched_reprioritize (sched_setpriority in this build).
Reprioritize ==
  /\ pc[Self].at = "setparam"
  /\ k' = IF pc[Self].who \in pids
          THEN sched_setpriority(k, pc[Self].who, pc[Self].prio)
          ELSE k      \* ESRCH
  /\ Goto(At("setparam_unlock", IDLE, 0))
  /\ UNCHANGED pids

SetParamUnlock ==
  /\ pc[Self].at = "setparam_unlock"
  /\ Unlock
  /\ UNCHANGED pids
-----------------------------------------------------------------------------
\* Blocking and waking

Block(s) ==
  /\ pc[Self] = User /\ Self # IDLE
  /\ k' = up_block_task(k, Self, s)
  /\ UNCHANGED <<pids, pc>>

InterruptsEnabled == pc[Self].at # "unlock_rr"

\* A waiting task is woken by an interrupt handler or by the running task.
Unblock(t) ==
  /\ InterruptsEnabled
  /\ k.state[t] \in WaitState
  /\ k' = up_unblock_task(k, t)
  /\ UNCHANGED <<pids, pc>>

\* sched_process_timer, apart from the watchdogs.
Tick ==
  /\ InterruptsEnabled
  /\ Self \in k.rr
  /\ k' = sched_roundrobin_process(k)
  /\ UNCHANGED <<pids, pc>>
-----------------------------------------------------------------------------
\* Task creation, restart, deletion and exit

\* task_create up to the return of thread_schedsetup (pthread_create sets the
\* policy and the time slice before it): by the idle task in os_bringup, by a
\* manager afterwards.
TaskCreate(t, p) ==
  /\ t \notin pids
  /\ \/ pc[Self].at = "bringup" /\ t \in Manager
     \/ pc[Self] = User /\ Self \in Manager
  /\ k' = AddInactive([k EXCEPT !.prio[t] = p, !.init[t] = p,
                               !.rr = IF t \in RRTask THEN @ \union {t} ELSE @,
                               !.slice[t] = IF t \in RRTask THEN RR_TICKS ELSE 0], t)
  /\ pids' = pids \union {t}
  /\ Goto(At("activate", t, 0))

\* up_unblock_task asserts that its task is blocked; PANIC otherwise.
TaskActivate ==
  /\ pc[Self].at \in {"activate", "reactivate"}
  /\ k.state[pc[Self].who] \in BlockedState
  /\ k' = up_unblock_task(k, pc[Self].who)
  /\ Goto(User)
  /\ UNCHANGED pids

\* The tasks whose pid a manager can have: task_create has returned it.
Known == {t \in pids \ {IDLE} : \A u \in Task : pc[u] # At("activate", t, 0)}

\* task_restart: the critical section; task_activate follows outside it.
TaskRestart(t) ==
  /\ pc[Self] = User /\ Self \in Manager
  /\ t \in Known \ {Self} /\ k.state[t] # "INVALID"
  /\ k' = Restarted(k, t)
  /\ pc' = [pc EXCEPT ![t] = User, ![Self] = At("reactivate", t, 0)]
  /\ UNCHANGED pids

\* Fault: the pid of a dead task stays in g_pidhash.
KeepPid(t) == pids

\* sched_releasepid, called by sched_releasetcb.
sched_releasepid(t) == pids \ {t}

\* task_delete of another task up to the call of task_terminate.
TaskDelete(t) ==
  /\ pc[Self] = User /\ Self \in Manager
  /\ t \in Known \ {Self}
  /\ Goto(At("terminate", t, 0))
  /\ UNCHANGED <<k, pids>>

\* task_terminate(pid, false): the critical section ...
TaskTerminate ==
  LET t == pc[Self].who IN
    /\ pc[Self].at = "terminate"
    /\ UNCHANGED pids
    /\ \/ /\ t \notin pids      \* ESRCH
          /\ Goto(User) /\ UNCHANGED k
       \/ /\ t \in pids /\ k.state[t] # "INVALID"
          /\ k' = TakeOffList(k, t)
          /\ Goto(At("exithook", t, 0))

\* ... and, after task_exithook, sched_releasetcb.
TaskRelease ==
  LET t == pc[Self].who IN
    /\ pc[Self].at = "exithook"
    /\ k' = sched_releasetcb(k, t)
    /\ pids' = sched_releasepid(t)
    /\ pc' = [pc EXCEPT ![t] = User, ![Self] = User]

\* _exit: task_exit in a critical section.
TaskExit(W) ==
  /\ pc[Self] = User /\ Self # IDLE
  /\ k' = task_exit(k, W)
  /\ pids' = sched_releasepid(Self)
  /\ Goto(User)

\* The tasks task_exithook can wake wait for a semaphore; one at most.
ExitWakes == {W \in SUBSET {t \in Task : k.state[t] = "WAIT_SEM"} : Cardinality(W) <= 1}
-----------------------------------------------------------------------------
\* What the application calls is a parameter of the instance.
AppCall ==
  \/ "sched_lock" \in Calls /\ (SchedLock \/ SchedUnlock)
  \/ "sched_yield" \in Calls /\ SchedYield
  \/ "sched_setparam" \in Calls
       /\ \E t \in Task \ {IDLE}, p \in PrioArg : SchedSetParam(t, p)
  \/ "sched_setscheduler" \in Calls
       /\ \E t \in Task \ {IDLE}, p \in PrioArg, rr \in BOOLEAN : SchedSetScheduler(t, p, rr)
  \/ \E s \in WaitState : Block(s)
  \/ "task_restart" \in Calls /\ \E t \in Task : TaskRestart(t)
  \/ "task_delete" \in Calls /\ \E t \in Task : TaskDelete(t)
  \/ "exit" \in Calls /\ \E W \in ExitWakes : TaskExit(W)

Next ==
  \/ \E t \in Task \ {IDLE}, p \in InitPrio : TaskCreate(t, p)
  \/ TaskActivate
  \/ AppCall
  \/ UnlockResumed \/ Reprioritize \/ SetParamUnlock
  \/ TaskTerminate \/ TaskRelease
  \/ \E t \in Task : Unblock(t)
  \/ Tick

Spec == Init /\ [][Next]_vars

\* The steps a running task takes to finish a kernel call it is in.
FinishCall == TaskActivate \/ UnlockResumed \/ Reprioritize \/ SetParamUnlock
                \/ TaskTerminate \/ TaskRelease

\* The timer interrupt keeps coming, and a running task does not stop halfway
\* through a kernel call.
FairSpec == Spec /\ WF_vars(Tick) /\ WF_vars(FinishCall)
-----------------------------------------------------------------------------
\* Every task is in exactly the list its task_state names, once; only the head
\* of g_readytorun is RUNNING.  dq_rem trusts this: it unlinks a TCB from
\* whatever list the state names.
ListsMatchStates ==
  /\ \A l \in ListName : \A i, j \in 1..Len(k.list[l]) :
       k.list[l][i] = k.list[l][j] => i = j
  /\ \A l \in ListName : \A i \in 1..Len(k.list[l]) :
       k.state[k.list[l][i]] = IF l = "READYTORUN" /\ i = 1 THEN "RUNNING" ELSE l
  /\ \A t \in Task : k.state[t] # "INVALID" => InList(k.list[TLIST_HEAD(k.state[t])], t)

\* The idle task, the only one of priority 0, is always runnable: it is the
\* last of g_readytorun, which sched_mergepending asserts it never runs past.
IdleIsLast ==
  LET R == k.list["READYTORUN"] IN Len(R) > 0 /\ R[Len(R)] = IDLE

\* sched_mergepending and the waiters' wake-up order rely on every prioritized
\* list being sorted, whatever priorities are changed in place.
ListsSorted ==
  \A l \in ListName : TLIST_ISPRIORITIZED(l) =>
    \A i, j \in 1..Len(k.list[l]) : i < j => k.prio[k.list[l][i]] >= k.prio[k.list[l][j]]

\* No task is stranded on g_pendingtasks: whenever it is not empty the running
\* task holds the lock, so that its sched_unlock, blocking or exit releases it.
PendingOnlyWhenLocked == Pending(k) => k.lock[Self] > 0

\* Strict priority scheduling: no runnable task is more urgent than the running
\* one, unless the running one holds the scheduler lock.
StrictPriority ==
  \A t \in Task : k.state[t] \in {"READYTORUN", "PENDING"} /\ k.prio[t] > k.prio[Self] =>
    k.state[t] = "PENDING" /\ k.lock[Self] > 0

\* A task that holds the lock keeps the processor, whatever interrupts wake and
\* whatever tasks it creates, until it unlocks, blocks, exits, or asks to be
\* requeued itself (sched_yield, or a change of its own priority).
LockKeepsProcessor ==
  [][k.lock[Self] > 0 /\ Self' # Self =>
       \/ k'.lock[Self] = 0
       \/ k'.state[Self] # "READYTORUN"
       \/ SchedYield
       \/ pc[Self].at = "setparam" /\ pc[Self].who = Self]_vars

\* task_activate is outside the critical section of task_create and of
\* task_restart: when it gets to run, its task is still blocked, as
\* up_unblock_task asserts.
ActivatesBlockedTask ==
  \A t \in Task : pc[t].at \in {"activate", "reactivate"} => k.state[pc[t].who] \in BlockedState

\* task_terminate unlinks the TCB that the pid maps to from the list that its
\* state names; there is such a list.
TerminatesListedTask ==
  \A t \in Task : pc[t].at = "terminate" /\ pc[t].who \in pids => k.state[pc[t].who] # "INVALID"

\* Round robin: where all tasks are time-sliced and no task keeps the scheduler
\* lock for ever, no task stays ready for ever without running while no other
\* task outranks it.
RoundRobinShares ==
  \A t \in Task \ {IDLE} :
    <>[](\A u \in Task : k.lock[u] = 0) =>
      []<>~(k.state[t] = "READYTORUN" /\ \A u \in Task : k.prio[u] <= k.prio[t])
=============================================================================
