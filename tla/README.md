# A TLA+ model of the schedulers in this repository

The repository collects operating-system material around one real kernel,
NuttX 7.20 (`Nuttx/nx/nuttx`, built for an ARMv7-M board by `Nuttx/configs`),
and two schedulers of its own (`scheduling/`).  This project models the part
of that code in which tasks, interrupts and time meet: the NuttX task lists and
everything that moves a task between them, the services built on them
(counting semaphores, message queues, signals), the watchdog timers with the
POSIX timers and the work queue that live on them, and the cooperative scheduler
of `hello_world.c`.  Paths below are
relative to `Nuttx/nx/nuttx` unless they start with `scheduling/`.

The build that is modelled is that of `Nuttx/configs/_config*`: one CPU, flat
memory, periodic tick, `CONFIG_RR_INTERVAL` = 200, no sporadic server, no
priority inheritance, no cancellation points, `DEBUGASSERT` empty, `ASSERT`
always on.

## Inventory

| Component | State | Operations | Correct if |
|---|---|---|---|
| Task lists (`sched/sched/sched_add*.c`, `sched_remove*.c`, `sched_mergepending.c`, `arch/arm/src/armv7-m/up_*task.c`, `up_re*.c`) | `g_readytorun`, `g_pendingtasks`, `g_inactivetasks`, one list per blocked state; `task_state`, `sched_priority` of each TCB | block, unblock, reprioritize, release pending | each task is in the list its state names, lists are sorted, the head of `g_readytorun` runs, idle is last |
| Scheduler lock (`sched_lock.c`, `sched_unlock.c`) | `lockcount` | lock, unlock | nothing preempts the holder, and no pending task is forgotten |
| Priorities and policies (`sched_setpriority.c`, `sched_setparam.c`, `sched_setscheduler.c`, `sched_yield.c`) | priority, policy flags | set, yield | strict priority order at all times |
| Time slicing (`sched_roundrobin.c`, `sched_processtimer.c`) | `timeslice` | tick | equals share the processor |
| Task life cycle (`sched/task`, `sched_releasetcb.c`) | `g_pidhash`, TCBs | create, activate, restart, delete, exit | calls of several critical sections survive what happens between them |
| Semaphores (`sched/semaphore`) | `semcount`, `waitsem`, errno, `waitdog` | wait, trywait, timedwait, tickwait, post, reset, abort by signal or timeout, recover | permits are neither lost nor duplicated |
| Cooperative scheduler (`scheduling/NonPreemtiveScheduler/sources/hello_world.c`) | task table, counters | scan, run | tasks run to completion by priority |
| FIFO scheduler (`scheduling/fifo_scheduler/fifo_scheduler.c`) | none | walk a constant ring | (not modelled: no state, no decision) |
| Watchdogs (`sched/wdog`) | free pool, delta list `g_wdactivelist` | create, start, cancel, delete, gettime, timer interrupt | each watchdog expires when its own time is up, whatever is done to the others |
| POSIX timers (`sched/timer`) | `g_alloctimers`, `pt_delay`, `pt_wdog` | create, settime, delete, end of the owner, expiry | an expiry reaches the timer it was started for |
| Work queue (`sched/wqueue/kwork_*.c`) | `g_hpwork.q`, `work_s` | queue, cancel, `work_process` | queued work is called, in time |
| Message queues (`sched/mqueue`) | messages, `nwaitnotempty`, `nwaitnotfull`, two pools | send, receive, both timed; send from an interrupt; abort by signal, timeout, restart | no message and no wake-up is lost |
| Signals (`sched/signal`, `arch/arm/src/armv7-m/up_sig*.c`, `up_schedulesigaction.c`) | masks, pending signals, queued actions, `xcp.sigdeliver` | kill, dispatch, deliver, sigprocmask, sigsuspend, sigtimedwait | no signal is missed, each action is delivered once, masks come back |
| pthreads, task groups, pipes, heap, priority inheritance | | | not modelled, see below |
| File systems, network, drivers, SMP, paging, SDK code, `edbg/`, `msp/` | | | not modelled, see below |

Components meet in the task lists.  A call that waits for a semaphore, a
message or a signal blocks and wakes tasks through `up_block_task` and
`up_unblock_task`; an interrupt (tick, watchdog,
device) can do so between any two critical sections of a call of the running
task; the scheduler lock holds the effect back until `sched_unlock`.  The second
meeting place is the list of active watchdogs, which one interrupt serves for
all timers, timed waits and the sleep of the worker thread.  The hard
behaviour is in those combinations, and `PROJECT.json` lists the places
(`hazards`).

## Modules

`Kernel` holds the functional core.  A kernel state `k` is a record of the
lists (as sequences of tasks), states, priorities, lock counts, time slices
and policies; each operator has the name of a C function and maps the state
before the call to the state after it.  "The running task" is the head of
`g_readytorun` (`this_task`), as in the code, so that a context switch is a
change of that head.  `Merged` is the closed form of `sched_mergepending`.
Operators whose comment starts with *Fault* are deliberate errors, used to see
that each property notices one; no specification refers to them.

`Scheduler` turns the core into a state machine.  One action is one stretch of
code under `enter_critical_section`; calls of several stretches
(`sched_setparam`, `task_create`, `task_restart`, `task_delete`, the part of
`sched_unlock` behind a context switch) keep their place in `pc`, and
interrupts (`Unblock`, `Tick`) come between them.  A task that has been
switched out inside such a critical section resumes with interrupts off
(`InterruptsEnabled`).  `pids` is `g_pidhash`.  Only the calls in the constant
`Calls` are made, so that each run can ask its own question.

`ReadyOrder` adds a history variable to `Scheduler`: `ahead`, the pairs of
runnable tasks of which the first became so before the second.  A task that
yields, uses up its time slice or gets a priority is recorded behind the others.

`MergePending` is the loop of `sched_mergepending`, one pending task per step,
with its cursor; it is compared with `Merged`.

`Semaphore` puts `sched/semaphore` on top of `Kernel`.  `z.count` is
`semcount`, negative for waiters; `pc` says inside which wait a task is
switched out; `waitdog` is the set of running watchdogs.  A watchdog may expire
at any time while interrupts are on.  `z.granted` is history.
`AbsSemaphore` is what a counting semaphore promises: free permits, and for
each task an idle, waiting, granted or failed call.  `ImplementsAbs` maps
positive counts to free permits and task states to call states.

`Mqueue` puts `sched/mqueue` on top of `Kernel` in the same way.  A send is five
critical sections (test for room, allocation, insertion, waking a receiver, and
the wait in between), a receive four; the scheduler is locked throughout, except
while the task waits, so that only interrupts come between them.  A message is
its priority and the pool its structure came from.  `panic` records a failed
`ASSERT`, after which nothing happens any more.

`Signal` puts `sched/signal` on top of `Kernel`.  Handlers nest, and run inside
the calls that wait, so each task has a stack of frames; a frame is a call at a
point where an interrupt can come between: `kill` between the queueing of an
action and `up_schedule_sigaction`, `sig_addpendingsignal` between its search and
its insertion, `sig_deliver` before a handler, in it and before the structure is
freed, `sig_unmaskpendingsignal` between two signals, the two waits.
`z.sigdeliver` is the set of tasks that will continue in `up_sigdeliver`.
`corrupt` becomes true when `sig_deliver` takes an action that is already freed;
what happens then is undefined, and the model stops.  `own` is history.

`Wdog` is `sched/wdog` as functions on the pool and the delta list; `PosixTimer`
and `WorkQueue` are its clients, each with the steps of its own calls, and
`TimerSystem` composes them with the timer interrupt: `TickBegins` counts down
the head of the list, one `Expiration` per watchdog that is due calls its client
back, `TickEnds`.  The worker thread sleeps in `sigtimedwait`, with a watchdog
of the common pool; times in `WorkQueue` are relative to the clock and counted
only as far as a comparison can tell them apart.  `AbsTimers` is what a set of
timers promises: each counts down by itself and fires in the tick its count
reaches zero.  `ImplementsAbs` maps the sums of the lags to the counts.

`NonPreemptive` is `hello_world.c`: one action, a turn of `main`'s loop.  The
priorities of the table are arbitrary, `cnt` wraps at the width of `size_t`.
`current_task`, which is written and never read, is left out.

`MC*` modules declare the model values of the instances.

`KernelProofs`, `SchedulerProofs`, `MergePendingProofs`, `SemaphoreProofs`,
`MqueueProofs`, `SignalProofs`, `TimerProofs` and `NonPreemptiveProofs` hold the
proofs.

## Runs

| Run | Question | Instance |
|---|---|---|
| `sched` | consistency, order, strict priority and the lock, and the windows in create, restart, delete and exit, under every interleaving of one manager with priority and policy changes, locks, yields, waits, slices and interrupts | 3 tasks and idle, created with priority 1, changed to 2 or 0 (rejected), one of them round-robin |
| `order` | equals run first in, first out while priorities stay as they are; round robin starves nobody | 3 round-robin tasks and idle, slices of 2 ticks |
| `merge` | the loop of `sched_mergepending` computes `Merged` | every sorted split of 5 tasks |
| `sem` | waits of every kind against posts, resets, signals, watchdogs, restarts and priority changes; the refinement of `AbsSemaphore` | 3 tasks, 2 semaphores in one waiting list |
| `sem_live` | timed waits end and leave no watchdog behind, also when the waiter is restarted or deleted | 2 tasks, 1 semaphore, the scheduler lock |
| `timers` | the delta list implements independent timers, expiries reach their client | 3 watchdogs (2 pre-allocated, 1 of them reserved for interrupts), 2 POSIX timers of 2 tasks, 1 piece of work, times 0 and 2, a worker period of 3 |
| `work` | the worker never oversleeps and all work is served | 2 pieces of work, delays 0 and 1, 1 POSIX timer, a period of 2 |
| `mqueue` | counts, wake-ups and message structures | 3 tasks, 1 queue of 1 message, 2 message priorities, one message in each pool |
| `signal` | signals are noticed and delivered, masks restored | 2 tasks, 3 signals (2 with handlers, 1 also sent by interrupts), 3 sends |
| `np_tables` | run to completion, termination | every table of 4 tasks with priorities 0 to 3 |
| `find_mq_timeout`, `find_sig_deliver` | violations, see below | as `mqueue` and `signal` |

Three tasks are the smallest instance in which two tasks of equal priority
compete under a third that locks, wakes or manages; the lists then have
beginning, middle and end.  The bounds `MaxLock` (nesting of `sched_lock` by an
application) and `MaxCount` (posts in advance) cut counters that no guard
compares with anything but zero; kernel calls lock on top of an application's
lock, so nesting happens.  `MaxMsgs` = 1 makes the queue full and empty with one
message; with one structure in each pool, the fallback to the heap and an
exhausted interrupt pool happen.  `MaxSends` = 3 is enough for a signal that is
delivered while another is, and one that is pending beneath them; the wrong
sequences that the deliberate errors lead to, and the one the finding shows,
take two or three.  Three watchdogs give the delta list a front, a middle and
an end; two can be due in one tick.  `SIZE_MOD` = 8 with `PRINT_LIM` = 2 lets
`cnt` wrap.

Deadlock is checked except in `mqueue`, which stops at a failed `ASSERT`, and
`signal`, where all tasks may be waiting when the sends are used up.

Fairness.  `order` assumes that ticks keep coming (the timer is periodic
hardware) and that a running task goes on inside a kernel call (the code there
does not wait).  `sem_live` assumes the latter and strong fairness of each
watchdog: the timer interrupt stays pending while interrupts are off.  `work`
assumes that ticks come and are handled, that the worker thread runs when it is
awake (it has the highest priority; strongly, because the interrupts that
interleave with it are not its doing), and that a caller of `work_queue`, having
queued its work, goes on to send the signal.  `np_tables` assumes that `main`'s
loop goes on.  No run assumes that application tasks unlock, post, send or wait,
and only `work` assumes that something of the application ends: the work
functions.

## Findings

Violation runs show where the code differs from what its comments say;
`findings` in `PROJECT.json` quotes the text.

* `find_sig_deliver`: `sig_deliver` reads the next action before it calls a
  handler with interrupts on.  A signal that arrives then runs a nested
  `sig_deliver`, which handles and frees all actions; the outer loop goes on with
  one that is freed.
* `find_mq_timeout`: a timed receive (or send) that is woken and whose watchdog
  expires before it runs waits again, without a watchdog, if the message has
  been taken by a more urgent task in the meantime.

Other behaviour met while modelling, which no run states:

* Task management.  `task_terminate.c:163` makes the task INVALID before
  `sem_recover` and `mq_recover` look at its state: a deleted waiter never gives
  back its place in the count and a later post is lost.  `sem` and `mqueue` leave
  `task_delete` of a waiter out for that reason (`CountIsWaiters` fails with it).
  Two managers that restart the same task make `up_unblock_task` fail its
  `ASSERT` (`task_restart.c:210`), and a second `task_delete` between the critical
  section of `task_terminate` and `sched_releasetcb` finds a TCB in no list: the
  runs have one manager.
* Scheduler.  `sched_yield` and a change of its own priority take the processor
  from a lock holder (`sched_setpriority.c:160`, while `sched_lock.c:130` promises
  otherwise); `LockKeepsProcessor` is about all other steps.  A slice that runs
  out under the lock is not acted on at unlock but at the next tick.  With
  changing priorities a pending task can be overtaken by a later one of its
  priority (`EqualPriorityFifo` with `"sched_setparam"` in `order.cfg`).
* Timers.  `timer_create` does not give its watchdog back when no timer structure
  is left.  `timer_settime` with an absolute time in the past and no interval
  starts nothing.  `wd_start` adds a tick, so a periodic timer fires every
  `it_interval` + 1 ticks.  `timer_gettime` reports `pt_last` as the interval.
  A task deleted inside `timer_delete` has its watchdog deleted twice.
* Work queue.  With no watchdog left `sigtimedwait` returns at once and the
  worker thread, the most urgent there is, polls.
* Message queues.  `mq_doreceive` reads `nwaitnotfull` outside the critical
  section in which it then asserts that a sender waits; a signal or a timeout in
  between makes the `ASSERT` fail (`mq_rcvinternal.c:278`; `panic` is reachable in
  `Mqueue`).  A task restarted while it waits in `mq_timedsend` loses the message
  structure it holds, and a woken sender that then fails for lack of memory does
  not pass its wake-up on.
* Signals.  Two sends of a masked signal that interleave in
  `sig_addpendingsignal` leave two entries, of which `sig_unmaskpendingsignal`
  dispatches one.  `sigsuspend` discards a pending signal that its mask unblocks
  without calling the handler.  Handlers of signals a task sends itself, and
  those that run inside a wait, run with interrupts off.
* `hello_world.c` goes on running the task that ended last.

## Proofs

All theorems are checked by TLAPS for every value of the constants that
satisfies the assumptions of the modules: `KernelAssumption` (the idle task is
a task, there is a valid priority, a slice is at least a tick),
`SchedulerAssumption` (tasks are created with valid priorities, the idle task
is not created, deleted or time-sliced; priorities *passed* to
`sched_setparam` are arbitrary naturals), `SemaphoreAssumption`,
`MqueueAssumption` and `SignalAssumption` (the tasks start in a sorted ready list
with the idle task last, and are finitely many where they are counted; pools and
limits are numbers; signals are finitely many positive numbers, every handler has
its `sa_mask`), `PosixTimerAssumption`,
`WorkQueueAssumption` and `TimerSystemAssumption` (times are numbers, the worker's
period is at least a tick, the model values that stand for "none" are not among
the objects) and `TableAssumption`.  `Calls` is any set of calls, except where a
hypothesis of the theorem says otherwise.

**The scheduler.**  `SchedulerProofs` proves of `Spec`, with any number of
tasks, priorities and nested locks and any set of calls:

| Theorem | Property |
|---|---|
| `TypeCorrect` | `TypeOK` |
| `ListsMatchStatesAlways` | `ListsMatchStates`: every TCB is once on the list its state names |
| `ListsSortedAlways` | `ListsSorted` |
| `IdleIsLastAlways` | `IdleIsLast` |
| `NoneStranded` | `PendingOnlyWhenLocked` |
| `StrictPriorityAlways` | `StrictPriority` |
| `LockKeepsProcessorAlways` | `LockKeepsProcessor`, an action property |
| `ActivatesBlockedTaskAlways`, `TerminatesListedTaskAlways` | `ActivatesBlockedTask`, `TerminatesListedTask`, for one manager |
| `EqualPriorityAlwaysFifo` | `EqualPriorityFifo`, of `ReadyOrder`'s `OrderSpec`, if no call changes a priority |

None of them is inductive alone: an insertion keeps a list sorted only if it
was sorted, the removal of the head leaves a task to run only because the idle
task is behind it, that the idle task is behind it follows from the order and
from every other listed task having a priority of at least 1, and unlinking is
right only if the state names the list.  `Inv` joins them and adds what the
calls of several critical sections need:

* `Sound(k)` (`KernelProofs`): list and state agree (`ListsHold`), prioritized
  lists are sorted, the idle task is ready with priority 0 and not time-sliced,
  listed tasks have valid priorities, only the head is RUNNING and the head is,
  and somebody holds the lock while somebody is pending.
* `PidsCover`: a task without a pid is on no list, so that `task_create` links
  a TCB that is not linked already.
* `GoodCalls`: no call in progress is about the idle task, and no
  `task_terminate` is about its caller.
* `ExitsPending`: a task between the two critical sections of its deletion is
  INVALID, keeps its pid, and is being deleted by one call only, so that
  nothing frees or reuses its TCB in between.

The argument has three layers.  The first part of `KernelProofs` is about sequences: removal,
insertion by priority and `Merged` keep a list duplicate-free, sorted and with
the right members; for `Merged` this takes the fact that the positions of the
pending tasks increase, and that the remaining places are exactly filled by the
ready tasks in order.  The second part lifts this to the kernel functions.
Between two list operations the kernel is only `Consistent` (the head may not
be RUNNING yet, pending tasks may have nobody to release them); each whole call
restores `Sound`.  The interesting cases are `up_reprioritize_rtr`, which
merges only if the head changed (if it did not change, the lock that justified
the pending tasks is still held), storing the running task's priority in place
(allowed because it stays above the second ready task), and `task_exit`, where
the lock count given to the next task keeps the tasks woken by `task_exithook`
off the processor.  `SchedulerProofs` has one lemma per group of actions.

`LockKeepsProcessor` needs no more than `Inv`: for each kernel function, either
the lock of the running task is held and everything woken goes to
`g_pendingtasks`, or the running task itself gave the processor up.  The two
window properties are false with two managers, and the theorems say so in a
hypothesis, `SoleManager` (one task makes the management calls).  `SoleInv` adds
that only the manager, or the idle task at boot, is inside such a call, that the
task it activates is still inactive, and that a task with a pid and no list is
between the two halves of its deletion.

`EqualPriorityAlwaysFifo` rests on `InOrder`: tasks of equal priority are in the
recorded order on `g_readytorun` and on `g_pendingtasks`, and every pending task is
strictly more urgent than every ready one (`Above`).  The last part is what the
merge needs: it puts a pending task behind the ready tasks of its priority, so an
equal that became ready later would overtake it.  A task that may go to `g_readytorun`
while others are pending is at most as urgent as the running one, which is why
`Above` survives wake-ups; `sched_yield`, the tick and `task_exit` merge before the
next wake-up if they change the head.  Operations that only take tasks off the two
lists are handled by one fact (`Thins`: what is left is in the old order), the
others by what they insert.  The hypothesis, neither `sched_setparam` nor
`sched_setscheduler` in `Calls`, is needed: a pending task whose priority is lowered
stays on `g_pendingtasks`, may then have equals on `g_readytorun`, and is overtaken by
one that yields before the unlock.  The run `order` makes neither call.

**The merge.**  `MergePendingProofs`, for sorted lists of any length
(`MergePendingAssumption`: finitely many tasks, `MaxPending` a number):
`LoopAlwaysComputesMerged` (`LoopComputesMerged`) and `MergeIsAlwaysStable`
(`MergeIsStable`).  `Kernel` and all proofs above it use the closed form `Merged`; the
first theorem shows that the loop of the code computes it.  The loop invariant `Walked`:
up to the cursor the list is the merged list already, behind it still the old
`g_readytorun`, and `ret` says whether the first pending task went to the front.  The
idle task at the end of the list is why the search always finds a place.

**Semaphores.**  `SemaphoreProofs`, for any numbers of tasks and semaphores:

| Theorem | Property | Hypothesis |
|---|---|---|
| `TypeCorrect` | `TypeOK`, with the bounds of the counts | |
| `WatchdogAlwaysHasCall` | `WatchdogHasCall` | |
| `PostAlwaysWakesMostUrgent` | `PostWakesMostUrgent`, an action property | |
| `CountAlwaysIsWaiters` | `CountIsWaiters` | `NoDeletion` |
| `OutcomeAlwaysReported` | `OutcomeReported` | `NoDeletion` |
| `ImplementsAbsSemaphore` | `ImplementsAbs`, the refinement | `NoDeletion` |

The core of `Inv` is the `Ledger`: for each semaphore the deficit of its count is
at least the number of tasks asleep on it, and at most that of the tasks whose
`waitsem` names it, which are asleep or were deleted in their sleep.  It is stated on the count, `waitsem` and two sets of tasks only, so that
each kernel function is used through one fact (which task it wakes or puts to
sleep, `Sleeping`).  Beside it stand `Sound(z.k)`, that a sleeping task is inside a
wait, that errno says what ended the wait, and that a task being deleted is dead.
`NoDeletion` (`task_delete` is not called) makes the two bounds meet (`ExactInv`); without it the three properties are false
(`task_terminate.c:163`, above).  The loop of `sem_reset`, a recursive function, is
handled by counting up: the i-th value is the result of i posts as long as
somebody waited.

**Message queues.**  `MqueueProofs`, for any numbers of tasks, queues, messages per
queue and structures in the pools:

| Theorem | Property |
|---|---|
| `TypeCorrect` | `TypeOK`, with the bounds of the pools |
| `CountsAlwaysMatchWaiters` | `CountsMatchWaiters` |
| `ReceiveAlwaysTakesMostUrgent` | `ReceiveTakesMostUrgent`, an action property |
| `TasksAlwaysRespectMaxMsgs` | `TasksRespectMaxMsgs` |
| `MessagesAlwaysConserved` | `MessagesConserved` |
| `ReceiversNeverForgotten` | `ReceiversNotForgotten` |
| `SendersNeverForgotten` | `SendersNotForgotten`, if no allocation fails |

`Core` is the invariant of the tasks: the kernel state is `Sound`, the two counters
match the sleepers, a sleeper is at a place of its call that waits (`Placed`), and
a task between two critical sections of a send or a receive holds the lock and
therefore runs (`LockHeld`, `BusyRuns`); this is what makes "only interrupts come
between them" a fact instead of an assumption.  `StepEffect` then says once what a
step can do to queues, pools, calls and sleepers (`Effect`, a disjunction of eight
cases), and the other invariants are proved from `Effect` alone: messages in
order of priority (`MsgsSorted`); a task that has seen room still has it when it
inserts (`RoomLeft`); free structures, held structures and queued messages of a
pool add up (`Conserved`); while receivers wait there are at most as many messages
as tasks on their way to take one or to wake somebody who will (`ReceiversServed`),
and the same for senders and free places.  The latter needs `"ENOMEM" \notin Calls`:
a woken `mq_send` whose allocation fails does not pass its wake-up on, and TLC
finds the forgotten sender when the call is allowed.

**Timers.**  `TimerProofs`, for any numbers of watchdogs, timers, tasks and pieces of
work and any times:

| Theorem | Property |
|---|---|
| `TypeCorrect` | `TypeOK` |
| `WatchdogAlwaysHasOneClient` | `WatchdogHasOneClient` |
| `ImplementsAbsTimers` | `ImplementsAbs`, the refinement of `AbsTimers` |
| `QueuedAlwaysHasWorker` | `QueuedHasWorker` |
| `WorkerAlwaysWakesInTime` | `WorkerWakesInTime` |

The time left of a watchdog is the sum of the lags up to it.  The first part of the
module shows that the sums exist and are unique, and what cutting an element out
of the delta list or putting one in does to them; from then on `wd_start`,
`wd_cancel`, `wd_delete`, `wd_timer` and the loop of `timer_deleteall` are known by
what they do to `Left` alone.  `TimerInv` says that nothing is due outside the
interrupt, that an active watchdog serves the timer or the sleep that holds it, that
live timers hold different watchdogs, that a call in progress is about a timer of
its caller, and what the worker holds while it sleeps; every step keeps it and is a
step of `AbsTimers` or none.  `WorkInv` is about the queue; `InTime`, the
invariant behind `WorkerWakesInTime`, bounds the time left of the worker's watchdog
by that of each piece of work whose signal has been sent.

**Signals.**  `SignalProofs`, for any numbers of tasks, signals, handlers and sends
and any nesting of handlers:

| Theorem | Property |
|---|---|
| `TypeCorrect` | `TypeOK`, with the lock count of every task |
| `MasksAlwaysRestored` | `MaskRestored` |
| `NoSignalEverMissed` | `NoSignalMissed` |
| `QueuedActionsOnWay` | `ActionsWillBeDelivered` |

The state of a call is a stack of frames, so the invariants are about stacks.  `Base`
says that the lists are sound, that a task's lock count is the number of its frames
that hold the scheduler lock, that the outermost frame holds it and a wait is
outermost (`Shape`), that only the running task is inside a call and the others are at
a wait, and that going down the stack from the mask of now, every frame putting
back the mask it saved, ends at the mask the program has set (`Framed`, with the masks
of all `Levels`).  `TypeCorrect` and `MasksAlwaysRestored` follow.

`Clear` adds the pending signals: what is about to be added to the pending signals of
another task is masked there and not waited for, no sleeper has missed one, and
the calls of every task see to those with a handler (`SeenTo`).  The last is claimed
only of stacks with no frame that has replaced the mask: such a frame looks at all
pending signals when it returns.

For the queued actions, `OnWay` claims less than the property and is inductive: the task
will continue in `up_sigdeliver`, or the running task is about to see to that, or the
*head* of the queue is the `next` of a frame, and since `sig_deliver` goes through the
queue in order, that is enough for the whole of it.  It needs `Uniq`: a send is in only
one place, in a queue, in a list of pending signals, or in a call that is about to add
it there, so that taking one action from a queue leaves all others in it.  The finding
about `TakesQueuedAction` is not in the way: there the action taken is gone, and the
theorem is about those that are still in the queue.

**The cooperative scheduler.**  `NonPreemptiveProofs`: `TypeCorrect` and
`RunToCompletion`, for every table, `PRINT_LIM` and width of `size_t`.
`RunsToCompletion` alone is not inductive: a finished task whose counter wraps
becomes `TASK_RDY` again.  `IInv` adds that a task is not finished before those
served before it, and that when all are finished the task that ran last is the
last in the order, so that the only task that can come back has nobody behind
it.  The scan is handled by three lemmas: it finds a task if one is eligible,
it selects the last it marked, and no eligible task is served before that one.

Three modules that share no parameters (`KernelProofs`, `TimerProofs`,
`NonPreemptiveProofs`) each begin with what they need of least and greatest elements of
sets of naturals and of counting up, from the library's well-foundedness of `<`.

**Only model-checked.**  Liveness (fairness and ENABLED are out of the prover's
reach): `RoundRobinShares`, `TimedWaitEnds`, `QueuedWorkRuns` and
`AllTerminate`.  Every other property of a passing run is stated by a theorem.

## Not modelled

* pthreads, task groups and `waitpid`, pipes: protocols over the semaphores of
  `Semaphore`; later modules.  The heap: address arithmetic on a free list under
  one semaphore; a later module.
* Priority inheritance, the low-priority work queue, SMP, tickless operation,
  the sporadic server and paging: not compiled in `Nuttx/configs`.
* In the modelled parts: `mq_notify`, names and descriptors of message queues,
  `sigaction` while signals are sent, shared groups, exhausted signal pools,
  stacks, arguments, atexit functions and standard I/O of tasks.
* `fifo_scheduler.c` follows a constant ring: no state and no decision.
* The rest of the tree (drivers, network, file systems, other architectures and
  boards, applications, the vendor's SDK, host tools) is third-party code around
  the kernel that is studied here: most of it register access and I/O, and not
  part of the configured build.

## Plan

1. Done: `Kernel`, `Scheduler`, `ReadyOrder`, `MergePending`, `Semaphore` with
   `AbsSemaphore`, `NonPreemptive`.
2. Done: `Wdog` with `AbsTimers`, `PosixTimer`, `WorkQueue`, `TimerSystem`;
   `Mqueue`; `Signal`.
3. `Pthread` (mutex, condition variable, barrier, join) over `AbsSemaphore`;
   `Pipe`; `Heap` (the free list covers what is not allocated, neighbours are
   merged).
4. Proofs.  Done: `Scheduler`, `MergePending`, `Semaphore`, `Mqueue`, `Signal`, `TimerSystem` and
   `NonPreemptive`, with both refinements; `ReadyOrder`.  Next: the modules of 3.
