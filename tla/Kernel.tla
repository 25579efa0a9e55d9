------------------------------- MODULE Kernel -------------------------------
(***************************************************************************)
(* The task lists of the NuttX kernel (Nuttx/nx/nuttx/sched/sched and      *)
(* arch/arm/src/armv7-m) for the single-CPU build of Nuttx/configs.        *)
(*                                                                         *)
(* Every operator takes a kernel state k and returns the one the function  *)
(* of the same name leaves behind, so that the handlers of the modules     *)
(* above are compositions of them:                                         *)
(*   k.list   the lists of g_tasklisttable, as sequences of tasks          *)
(*   k.state  tcb->task_state                                              *)
(*   k.prio   tcb->sched_priority       k.init   tcb->init_priority        *)
(*   k.lock   tcb->lockcount            k.slice  tcb->timeslice            *)
(*   k.rr     the tasks whose policy is SCHED_RR (the others: SCHED_FIFO)  *)
(* A context switch is a change of the head of the ready-to-run list.      *)
(***************************************************************************)
EXTENDS Integers, Sequences

CONSTANTS
  Task,                \* the TCBs
  IDLE,                \* the TCB of the idle task
  SCHED_PRIORITY_MAX,
  RR_TICKS             \* MSEC2TICK(CONFIG_RR_INTERVAL)

SCHED_PRIORITY_MIN == 1

ASSUME KernelAssumption ==
  /\ IDLE \in Task
  /\ SCHED_PRIORITY_MAX \in Nat /\ SCHED_PRIORITY_MAX >= SCHED_PRIORITY_MIN
  /\ RR_TICKS \in Nat /\ RR_TICKS > 0

Priority == SCHED_PRIORITY_MIN..SCHED_PRIORITY_MAX

\* The states in which a task is in a list of blocked tasks (it waits for
\* activation, a semaphore, a signal or a message queue).
BlockedState == {"INACTIVE", "WAIT_SEM", "WAIT_SIG", "WAIT_MQNOTEMPTY", "WAIT_MQNOTFULL"}
ListName  == {"READYTORUN", "PENDING"} \union BlockedState
TaskState == {"INVALID", "RUNNING"} \union ListName

\* g_tasklisttable: the list of a state, and whether it is kept by priority.
TLIST_HEAD(s) == IF s = "RUNNING" THEN "READYTORUN" ELSE s
TLIST_ISPRIORITIZED(s) == s \notin {"INVALID", "INACTIVE", "WAIT_SIG"}

KernelState ==
  [ list  : [ListName -> Seq(Task)],
    state : [Task -> TaskState],
    prio  : [Task -> 0..SCHED_PRIORITY_MAX],
    init  : [Task -> 0..SCHED_PRIORITY_MAX],
    lock  : [Task -> Nat],
    slice : [Task -> 0..RR_TICKS],
    rr    : SUBSET Task ]

\* os_start: only the idle task exists, at the head of g_readytorun.
os_start ==
  [ list  |-> [l \in ListName |-> IF l = "READYTORUN" THEN <<IDLE>> ELSE <<>>],
    state |-> [t \in Task |-> IF t = IDLE THEN "RUNNING" ELSE "INVALID"],
    prio  |-> [t \in Task |-> 0],
    init  |-> [t \in Task |-> 0],
    lock  |-> [t \in Task |-> 0],
    slice |-> [t \in Task |-> 0],
    rr    |-> {} ]
-----------------------------------------------------------------------------
\* Doubly linked lists: removal of t, insertion of t at position i.
InList(l, t) == \E n \in 1..Len(l) : l[n] = t

dq_rem(t, l) ==
  LET i == CHOOSE n \in 1..Len(l) : l[n] = t
  IN  [n \in 1..(Len(l) - 1) |-> IF n < i THEN l[n] ELSE l[n + 1]]

InsertAtPos(l, i, t) ==
  [n \in 1..(Len(l) + 1) |-> IF n < i THEN l[n] ELSE IF n = i THEN t ELSE l[n - 1]]

\* Fault: a task goes before the tasks of its own priority.
InsertPosBeforeEqual(l, prio, p) ==
  CHOOSE i \in 1..(Len(l) + 1) :
    /\ \A n \in 1..(i - 1) : p < prio[l[n]]
    /\ i <= Len(l) => prio[l[i]] <= p

\* Where a task of priority p goes: before the first task of lower priority,
\* behind every task of the same priority.
InsertPos(l, prio, p) ==
  CHOOSE i \in 1..(Len(l) + 1) :
    /\ \A n \in 1..(i - 1) : p <= prio[l[n]]
    /\ i <= Len(l) => prio[l[i]] < p

\* Fault: the search does not stop before the idle task.
AddAtTail(l, prio, t) == Append(l, t)

AddPrioritized(l, prio, t) == InsertAtPos(l, InsertPos(l, prio, prio[t]), t)

this_task(k) == k.list["READYTORUN"][1]
Pending(k) == k.list["PENDING"] # <<>>

sched_addprioritized(k, t, l) ==
  [k EXCEPT !.list[l] = AddPrioritized(@, k.prio, t)]

\* Fault: the preempted task keeps the state RUNNING.
AddReadyKeepsRunning(k, t) ==
  LET r == this_task(k)
      a == sched_addprioritized(k, t, "READYTORUN")
  IN  IF k.lock[r] > 0 /\ k.prio[r] < k.prio[t]
      THEN [sched_addprioritized(k, t, "PENDING") EXCEPT !.state[t] = "PENDING"]
      ELSE IF this_task(a) = t THEN [a EXCEPT !.state[t] = "RUNNING"]
      ELSE [a EXCEPT !.state[t] = "READYTORUN"]

\* A task that would preempt a running task holding the scheduler lock is
\* parked on g_pendingtasks; otherwise it joins g_readytorun and runs at once
\* if it becomes the head.
sched_addreadytorun(k, t) ==
  LET r == this_task(k)
      a == sched_addprioritized(k, t, "READYTORUN")
  IN  IF k.lock[r] > 0 /\ k.prio[r] < k.prio[t]
      THEN [sched_addprioritized(k, t, "PENDING") EXCEPT !.state[t] = "PENDING"]
      ELSE IF this_task(a) = t
      THEN [a EXCEPT !.state = [@ EXCEPT ![t] = "RUNNING", ![r] = "READYTORUN"]]
      ELSE [a EXCEPT !.state[t] = "READYTORUN"]

\* Removing the head makes the task behind it the running one.
sched_removereadytorun(k, t) ==
  LET a == [k EXCEPT !.list["READYTORUN"] = dq_rem(t, @), !.state[t] = "INVALID"]
  IN  IF this_task(k) = t THEN [a EXCEPT !.state[this_task(a)] = "RUNNING"] ELSE a

\* sched_mergepending walks both lists once.  Pending task number i ends up
\* behind the i-1 pending tasks before it and behind every ready task that
\* is at least as urgent; the ready tasks fill the remaining places.
MergedPos(P, R, prio, i) == i + InsertPos(R, prio, prio[P[i]]) - 1
Merged(P, R, prio) ==
  [n \in 1..(Len(P) + Len(R)) |->
     IF \E i \in 1..Len(P) : MergedPos(P, R, prio, i) = n
     THEN P[CHOOSE i \in 1..Len(P) : MergedPos(P, R, prio, i) = n]
     ELSE R[CHOOSE j \in 1..Len(R) :
              \E m \in 0..Len(P) : /\ j = n - m
                                   /\ m > 0 => MergedPos(P, R, prio, m) < n
                                   /\ m < Len(P) => n < MergedPos(P, R, prio, m + 1)]]

sched_mergepending(k) ==
  LET r == this_task(k)
      P == k.list["PENDING"]
      R == Merged(P, k.list["READYTORUN"], k.prio)
  IN  [k EXCEPT !.list  = [@ EXCEPT !["READYTORUN"] = R, !["PENDING"] = <<>>],
                !.state = [t \in Task |-> IF t = R[1] THEN "RUNNING"
                                          ELSE IF t = r \/ InList(P, t) THEN "READYTORUN"
                                          ELSE @[t]]]

\* Fault: the pending tasks are forgotten.
NoMerge(k) == k

MergeIfPending(k) == IF Pending(k) THEN sched_mergepending(k) ELSE k
-----------------------------------------------------------------------------
sched_addblocked(k, t, s) ==
  LET a == IF TLIST_ISPRIORITIZED(s) THEN sched_addprioritized(k, t, s)
           ELSE [k EXCEPT !.list[s] = Append(@, t)]
  IN  [a EXCEPT !.state[t] = s]

sched_removeblocked(k, t) ==
  [k EXCEPT !.list[k.state[t]] = dq_rem(t, @), !.state[t] = "INVALID"]

up_block_task(k, t, s) ==
  MergeIfPending(sched_addblocked(sched_removereadytorun(k, t), t, s))

up_unblock_task(k, t) == sched_addreadytorun(sched_removeblocked(k, t), t)

up_release_pending(k) == sched_mergepending(k)

\* The pending tasks are merged only if the head of g_readytorun changed: t
\* was the head (removal returned true) xor t is the head (insertion did).
up_reprioritize_rtr(k, t, p) ==
  LET a == sched_addreadytorun([sched_removereadytorun(k, t) EXCEPT !.prio[t] = p], t)
  IN  IF (this_task(k) = t) # (this_task(a) = t) THEN MergeIfPending(a) ELSE a

sched_running_setpriority(k, t, p) ==
  IF p <= k.prio[k.list["READYTORUN"][2]]
  THEN up_reprioritize_rtr(k, t, p)
  ELSE [k EXCEPT !.prio[t] = p]

\* Fault: the task keeps its place in its list.
SetPrioInPlace(k, t, p) == [k EXCEPT !.prio[t] = p]

sched_readytorun_setpriority(k, t, p) ==
  IF p > k.prio[this_task(k)]
  THEN up_reprioritize_rtr(k, t, p)
  ELSE sched_addreadytorun([sched_removereadytorun(k, t) EXCEPT !.prio[t] = p], t)

\* PENDING is treated like the blocked states: the task stays in its list.
sched_blocked_setpriority(k, t, p) ==
  LET s == k.state[t]
      a == [k EXCEPT !.list[s] = dq_rem(t, @), !.prio[t] = p]
  IN  IF TLIST_ISPRIORITIZED(s) THEN sched_addprioritized(a, t, s)
      ELSE [k EXCEPT !.prio[t] = p]

sched_setpriority(k, t, p) ==
  IF p \notin Priority THEN k          \* EINVAL
  ELSE CASE k.state[t] = "RUNNING"    -> sched_running_setpriority(k, t, p)
         [] k.state[t] = "READYTORUN" -> sched_readytorun_setpriority(k, t, p)
         [] OTHER                     -> sched_blocked_setpriority(k, t, p)

sched_lock(k) == [k EXCEPT !.lock[this_task(k)] = @ + 1]

\* The first part of sched_unlock, up to the return of up_release_pending.
sched_unlock(k) ==
  LET r == this_task(k)
      a == [k EXCEPT !.lock[r] = IF @ > 0 THEN @ - 1 ELSE 0]
  IN  IF a.lock[r] = 0 /\ Pending(a) THEN up_release_pending(a) ELSE a

\* Fault: a time slice that is used up under the lock is decremented further.
SliceUnderflow(k) ==
  LET r    == this_task(k)
      left == k.slice[r] - 1
      a    == [k EXCEPT !.slice[r] = RR_TICKS]
      R    == k.list["READYTORUN"]
  IN  IF left > 0 \/ k.lock[r] > 0 THEN [k EXCEPT !.slice[r] = left]
      ELSE IF Len(R) > 1 /\ k.prio[R[2]] >= k.prio[r]
      THEN up_reprioritize_rtr(a, r, k.prio[r])
      ELSE a

\* Fault: the time slice expires although the task holds the lock.
SliceIgnoringLock(k) ==
  LET r == this_task(k)
      R == k.list["READYTORUN"]
  IN  IF k.slice[r] > 1 THEN [k EXCEPT !.slice[r] = @ - 1]
      ELSE IF Len(R) > 1 /\ k.prio[R[2]] >= k.prio[r]
      THEN up_reprioritize_rtr(k, r, k.prio[r])
      ELSE k

\* sched_roundrobin_process(tcb, 1, false) on the running task.
sched_roundrobin_process(k) ==
  LET r    == this_task(k)
      left == IF k.slice[r] > 0 THEN k.slice[r] - 1 ELSE 0
      a    == [k EXCEPT !.slice[r] = RR_TICKS]
      R    == k.list["READYTORUN"]
  IN  IF left > 0 \/ k.lock[r] > 0 THEN [k EXCEPT !.slice[r] = left]
      ELSE IF Len(R) > 1 /\ k.prio[R[2]] >= k.prio[r]
      THEN up_reprioritize_rtr(a, r, k.prio[r])
      ELSE a
-----------------------------------------------------------------------------
\* The kernel-list half of creating, restarting and deleting a task.

\* A TCB becomes a task that is not yet activated.
AddInactive(k, t) ==
  [k EXCEPT !.list["INACTIVE"] = <<t>> \o @, !.state[t] = "INACTIVE"]

\* task_terminate and task_restart take t off the list its state names.
TakeOffList(k, t) ==
  [k EXCEPT !.list[TLIST_HEAD(k.state[t])] = dq_rem(t, @), !.state[t] = "INVALID"]

\* Fault: the task is not put on g_inactivetasks.
RestartedOffList(k, t) == [TakeOffList(k, t) EXCEPT !.prio[t] = k.init[t], !.lock[t] = 0]

\* The critical section of task_restart, after task_recover.
Restarted(k, t) ==
  AddInactive([TakeOffList(k, t) EXCEPT !.prio[t] = k.init[t], !.lock[t] = 0], t)

\* The TCB is freed (a new one is zeroed).
sched_releasetcb(k, t) ==
  [k EXCEPT !.prio[t] = 0, !.init[t] = 0, !.lock[t] = 0, !.slice[t] = 0, !.rr = @ \ {t}]

\* task_exit, with the task_terminate in it.  The next task to run gets a lock
\* count meanwhile, so that the tasks W that task_exithook wakes are parked on
\* g_pendingtasks.
task_exit(k, W) ==
  LET t == this_task(k)
      a == sched_removereadytorun(k, t)
      r == this_task(a)
      b == sched_addblocked([a EXCEPT !.lock[r] = @ + 1, !.state[r] = "READYTORUN"],
                            t, "INACTIVE")
      c == TakeOffList(b, t)
      d == IF W = {} THEN c ELSE up_unblock_task(c, CHOOSE w \in W : TRUE)
      e == sched_releasetcb(d, t)
  IN  MergeIfPending([e EXCEPT !.state[r] = "RUNNING", !.lock[r] = @ - 1])
=============================================================================
