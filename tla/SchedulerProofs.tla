-------------------------- MODULE SchedulerProofs ---------------------------
(***************************************************************************)
(* Every reachable state of Scheduler is sound, whatever the tasks, the    *)
(* priorities, the bound on nested locks and the calls the tasks make.     *)
(* Tasks of equal priority stay first in, first out where no call changes  *)
(* a priority.                                                             *)
(***************************************************************************)
EXTENDS ReadyOrder, KernelProofs

CallState == [at : Label, who : Task, prio : PrioArg \union {0}]

\* A task never deletes itself through task_terminate, and the idle task is
\* the object of no call.
GoodCall(u, c) ==
  /\ c \in CallState
  /\ c.at \in {"setparam", "activate", "reactivate", "terminate", "exithook"} => c.who # IDLE
  /\ c.at = "terminate" => c.who # u

GoodCalls == pc \in [Task -> CallState] /\ \A u \in Task : GoodCall(u, pc[u])

\* Every task on a list has a pid.
PidsCover ==
  pids \subseteq Task /\ IDLE \in pids /\ \A t \in Task \ pids : k.state[t] = "INVALID"

\* A task between the two critical sections of its deletion is on no list and
\* keeps its pid, so that its TCB cannot be created again before it is freed;
\* one call frees it.
ExitsPending ==
  /\ \A u \in Task : pc[u].at = "exithook" =>
       pc[u].who \in pids /\ k.state[pc[u].who] = "INVALID"
  /\ \A u, v \in Task : pc[u].at = "exithook" /\ pc[v].at = "exithook" /\ pc[u].who = pc[v].who
                          => u = v

\* The inductive invariant.
Inv == Sound(k) /\ GoodCalls /\ PidsCover /\ ExitsPending

\* The running task is a task that is on its list.
LEMMA SelfRuns ==
  ASSUME Inv
  PROVE  /\ Self \in Task /\ k.state[Self] = "RUNNING" /\ Self \in pids
         /\ k.state \in [Task -> TaskState] /\ IDLE \notin k.rr /\ k \in KernelState
         /\ pc[Self] \in CallState /\ GoodCall(Self, pc[Self]) /\ pc \in [Task -> CallState]
<1>1. Self \in Task /\ k.state[Self] = "RUNNING"
  BY ReadyHead DEF Inv, Sound, HeadRuns, Self
<1>2. k \in KernelState /\ IDLE \notin k.rr
  BY DEF Inv, Sound, Consistent, IdleReady
<1>3. k.state \in [Task -> TaskState]
  BY <1>2 DEF KernelState
<1>4. Self \in pids
  BY <1>1 DEF Inv, PidsCover
<1> QED  BY <1>1, <1>2, <1>3, <1>4 DEF Inv, GoodCalls

\* The places in a kernel call that tasks go to.
LEMMA CallPlaces ==
  /\ User \in CallState /\ \A u \in Task : GoodCall(u, User)
  /\ \A l \in Label, t \in Task, p \in PrioArg \union {0} : At(l, t, p) \in CallState
<1>1. User \in CallState
  BY KernelAssumption DEF User, At, CallState, Label
<1>2. User.at = "user"
  BY DEF User, At
<1>3. \A l \in Label, t \in Task, p \in PrioArg \union {0} : At(l, t, p) \in CallState
  BY DEF At, CallState
<1> QED  BY <1>1, <1>2, <1>3 DEF GoodCall

\* The pc of the running task moves to c, if it moves.
MovesTo(c) == pc' = pc \/ (pc' = [pc EXCEPT ![Self] = c] /\ GoodCall(Self, c) /\ c.at # "exithook")

\* A step that takes no task off the lists for good and starts no deletion.
LEMMA PlainStep ==
  ASSUME Inv, SoundStep(k, k'), pids' = pids, NEW c, MovesTo(c)
  PROVE  Inv'
<1>1. Sound(k') /\ \A t \in Task : k'.state[t] = "INVALID" <=> k.state[t] = "INVALID"
  BY DEF SoundStep, SameListed
<1>2. PidsCover'
  BY <1>1 DEF Inv, PidsCover
<1>3. /\ pc' \in [Task -> CallState] /\ \A u \in Task : GoodCall(u, pc'[u])
      /\ \A u \in Task : pc'[u].at = "exithook" => pc'[u] = pc[u]
  BY SelfRuns DEF MovesTo, GoodCalls, Inv, GoodCall
<1>4. GoodCalls'
  BY <1>3 DEF GoodCalls
<1>5. ExitsPending'
  <2>1. \A u \in Task : pc'[u] \in CallState /\ pc[u] \in CallState
    BY <1>3 DEF Inv, GoodCalls
  <2>2. \A u \in Task : pc[u].who \in Task
    BY <2>1 DEF CallState
  <2> QED  BY <1>1, <1>3, <2>2 DEF Inv, ExitsPending
<1> QED  BY <1>1, <1>2, <1>4, <1>5 DEF Inv

\* os_start leaves only the idle task, running.
LEMMA InitInv == Init => Inv
<1> SUFFICES ASSUME Init PROVE Inv
  OBVIOUS
<1> USE KernelAssumption
<1> DEFINE s == k
<1>1. k = os_start
  BY DEF Init
<1>2. /\ s.list = [l \in ListName |-> IF l = "READYTORUN" THEN <<IDLE>> ELSE <<>>]
      /\ s.state = [t \in Task |-> IF t = IDLE THEN "RUNNING" ELSE "INVALID"]
      /\ s.prio = [t \in Task |-> 0] /\ s.init = [t \in Task |-> 0]
      /\ s.lock = [t \in Task |-> 0] /\ s.slice = [t \in Task |-> 0] /\ s.rr = {}
  BY <1>1 DEF os_start
<1>3. s \in KernelState
  <2>1. s.list \in [ListName -> Seq(Task)]
    BY <1>2
  <2>2. s.state \in [Task -> TaskState]
    BY <1>2 DEF TaskState
  <2>3. /\ s.prio \in [Task -> 0..SCHED_PRIORITY_MAX] /\ s.init \in [Task -> 0..SCHED_PRIORITY_MAX]
        /\ s.lock \in [Task -> Nat] /\ s.slice \in [Task -> 0..RR_TICKS] /\ s.rr \subseteq Task
    BY <1>2 DEF SCHED_PRIORITY_MIN
  <2> QED  BY <1>1, <2>1, <2>2, <2>3 DEF KernelState, os_start
<1>4. "READYTORUN" \in ListName /\ this_task(k) = IDLE /\ k.list["PENDING"] = <<>>
      /\ k.list["READYTORUN"] = <<IDLE>>
  BY <1>2 DEF this_task, ListName
<1>5. ListsHold(k)
  <2> SUFFICES ASSUME NEW l \in ListName PROVE Lists(k.list[l], On(k, l))
    BY DEF ListsHold
  <2>1. CASE l = "READYTORUN"
    <3>1. On(k, l) = {IDLE} /\ k.list[l] = <<IDLE>>
      BY <1>2, <2>1 DEF On, TLIST_HEAD
    <3> DEFINE m == k.list[l]
    <3>2. m \in Seq(Task) /\ Len(m) = 1 /\ m[1] = IDLE /\ On(k, l) = {IDLE}
      BY <3>1
    <3> HIDE DEF m
    <3>3. /\ \A t \in Task : InList(m, t) <=> t = IDLE
          /\ \A i, j \in 1..Len(m) : m[i] = m[j] => i = j
      BY <3>2 DEF InList
    <3>4. Lists(m, On(k, l))
      BY <3>2, <3>3 DEF Lists
    <3> QED  BY <3>4 DEF m
  <2>2. CASE l # "READYTORUN"
    <3>1. l # "INVALID"
      BY DEF ListName, BlockedState
    <3>2. On(k, l) = {} /\ k.list[l] = <<>>
      <4>1. k.list[l] = <<>>
        BY <1>2, <2>2
      <4>2. \A t \in Task : TLIST_HEAD(k.state[t]) \in {"READYTORUN", "INVALID"}
        BY <1>2 DEF TLIST_HEAD
      <4> QED  BY <2>2, <3>1, <4>1, <4>2 DEF On
    <3> DEFINE m == k.list[l]
    <3>3. m \in Seq(Task) /\ Len(m) = 0 /\ On(k, l) = {}
      BY <3>2
    <3> HIDE DEF m
    <3>4. Lists(m, On(k, l))
      BY <3>3 DEF Lists, InList
    <3> QED  BY <3>4 DEF m
  <2> QED  BY <2>1, <2>2
<1>6. PrioritizedSorted(k)
  <2>1. \A l \in ListName : Len(k.list[l]) <= 1
    BY <1>2
  <2>2. \A l \in ListName : \A i, j \in 1..Len(k.list[l]) : ~(i < j)
    BY <2>1, <1>5, LenProperties DEF ListsHold, Lists
  <2> QED  BY <2>2 DEF PrioritizedSorted, Sorted
<1>7. Consistent(k)
  BY <1>2, <1>3, <1>4, <1>5, <1>6
     DEF Consistent, IdleReady, PrioritiesValid, OnlyHeadRuns
<1>8. Sound(k)
  BY <1>2, <1>4, <1>7 DEF Sound, HeadRuns, PendingReleased, Pending
<1>9. pids = {IDLE} /\ \A t \in Task : pc[t] = IF t = IDLE THEN At("bringup", IDLE, 0) ELSE User
  BY DEF Init
<1>10. pc \in [Task -> CallState] /\ \A u \in Task : pc[u].at \in {"bringup", "user"}
  BY <1>9, CallPlaces DEF Init, At, User, Label
<1>11. GoodCalls
  BY <1>10 DEF GoodCalls, GoodCall
<1>12. ExitsPending
  BY <1>10 DEF ExitsPending
<1>13. PidsCover
  BY <1>2, <1>9 DEF PidsCover
<1> QED  BY <1>8, <1>11, <1>12, <1>13 DEF Inv

-----------------------------------------------------------------------------
\* The end of sched_unlock only refills a time slice.
LEMMA UnlockRR ==
  ASSUME NEW a, Sound(a), NEW r \in Task
  PROVE  QuietStep(a, unlock_rr(a, r)) /\ this_task(unlock_rr(a, r)) = this_task(a)
<1>1. RR_TICKS \in 0..RR_TICKS
  BY KernelAssumption
<1>2. QuietStep(a, a)
  BY DEF QuietStep, SoundStep, SameListed, SameBlocked
<1> DEFINE b == [a EXCEPT !.slice[r] = RR_TICKS]
<1>3. QuietStep(a, b) /\ this_task(b) = this_task(a)
  BY <1>1, SliceSound DEF this_task
<1>4. unlock_rr(a, r) = b \/ unlock_rr(a, r) = a
  BY DEF unlock_rr
<1> HIDE DEF b
<1> QED  BY <1>2, <1>3, <1>4

\* sched_unlock, whether or not it switches to another task.
LEMMA UnlockInv ==
  ASSUME Inv, Unlock, UNCHANGED pids
  PROVE  /\ Inv' /\ QuietStep(k, k')
         /\ Self' # Self => k'.lock[Self] = 0
         /\ Goto(User) \/ Goto(At("unlock_rr", IDLE, 0))
<1> DEFINE a == sched_unlock(k)
           c == At("unlock_rr", IDLE, 0)
<1>1. /\ QuietStep(k, a) /\ Self \in Task /\ Sound(a)
      /\ this_task(a) # Self => a.lock[Self] = 0
  BY UnlockSound, SelfRuns DEF Inv, QuietStep, SoundStep, Self
<1>2. QuietStep(a, unlock_rr(a, Self)) /\ this_task(unlock_rr(a, Self)) = this_task(a)
  BY <1>1, UnlockRR
<1>3. QuietStep(k, unlock_rr(a, Self))
  BY <1>1, <1>2, QuietChain DEF QuietStep, SoundStep
<1>4. k' = a \/ k' = unlock_rr(a, Self)
  BY DEF Unlock
<1>5. MovesTo(User) \/ MovesTo(c)
  <2>1. GoodCall(Self, c) /\ c.at # "exithook"
    BY CallPlaces, KernelAssumption DEF GoodCall, Label, At
  <2>2. GoodCall(Self, User) /\ User.at # "exithook"
    BY <1>1, CallPlaces DEF User, At
  <2>3. Goto(User) \/ Goto(c)
    BY DEF Unlock
  <2> QED  BY <2>1, <2>2, <2>3 DEF MovesTo, Goto
<1>6. SoundStep(k, k') /\ QuietStep(k, k')
  BY <1>1, <1>3, <1>4 DEF QuietStep
<1>7. Self' # Self => k'.lock[Self] = 0
  BY <1>1, <1>2 DEF Unlock, Self
<1> QED  BY <1>5, <1>6, <1>7, PlainStep DEF Unlock

\* sched_setscheduler changes only the policy and the time slice after
\* sched_lock.
LEMMA SetPolicy ==
  ASSUME Inv, NEW t \in Task \ {IDLE}, NEW rr \in BOOLEAN,
         k' = LET a == sched_lock(k) IN
                [a EXCEPT !.rr = IF rr THEN @ \union {t} ELSE @ \ {t},
                          !.slice[t] = IF rr THEN RR_TICKS ELSE 0]
  PROVE  QuietStep(k, k') /\ this_task(k') = this_task(k)
<1> DEFINE a == sched_lock(k)
           q == IF rr THEN a.rr \union {t} ELSE a.rr \ {t}
           n == IF rr THEN RR_TICKS ELSE 0
           b == [a EXCEPT !.rr = q, !.slice[t] = n]
           f == [a.slice EXCEPT ![t] = n]
<1>1. QuietStep(k, a) /\ Tuned(k, a)
  BY Lock DEF Inv
<1>2. k' = b
  OBVIOUS
<1> HIDE DEF a
<1>3. a \in KernelState /\ IDLE \notin a.rr /\ Sound(a)
  BY <1>1 DEF Tuned, QuietStep, SoundStep
<1>4. a.rr \subseteq Task /\ a.slice \in [Task -> 0..RR_TICKS]
  BY <1>3 DEF KernelState
<1>5. q \subseteq Task /\ IDLE \notin q /\ n \in 0..RR_TICKS
  BY <1>3, <1>4, KernelAssumption
<1> HIDE DEF q, n
<1>6. f \in [Task -> 0..RR_TICKS] /\ b = [a EXCEPT !.rr = q, !.slice = f]
  BY <1>4, <1>5
<1> HIDE DEF f, b
<1>7. /\ b \in KernelState /\ b.list = a.list /\ b.state = a.state /\ b.prio = a.prio
      /\ b.init = a.init /\ b.lock = a.lock /\ b.rr = q
  BY <1>3, <1>5, <1>6 DEF KernelState
<1>8. Tuned(a, b)
  BY <1>5, <1>7 DEF Tuned
<1>9. QuietStep(a, b)
  BY <1>3, <1>7, <1>8, Tune DEF Sound, PendingReleased
<1>10. this_task(b) = this_task(k)
  BY <1>1, <1>7 DEF this_task, Tuned
<1> QED  BY <1>1, <1>2, <1>9, <1>10, QuietChain DEF QuietStep, SoundStep

\* The calls that only change priorities, policies, lock counts or time slices,
\* that block the caller, or that wake a task.
LEMMA PlainCalls ==
  ASSUME Inv,
         \/ SchedLock \/ SchedUnlock \/ UnlockResumed \/ SchedYield
         \/ \E t \in Task \ {IDLE}, p \in PrioArg : SchedSetParam(t, p)
         \/ \E t \in Task \ {IDLE}, p \in PrioArg, rr \in BOOLEAN : SchedSetScheduler(t, p, rr)
         \/ Reprioritize \/ SetParamUnlock
         \/ \E s \in WaitState : Block(s)
         \/ \E t \in Task : Unblock(t)
         \/ Tick \/ TaskActivate
  PROVE  Inv'
<1> USE SelfRuns
<1>0. Sound(k)
  BY DEF Inv
<1>1. GoodCall(Self, User) /\ User.at # "exithook"
  BY CallPlaces DEF User, At
<1>2. CASE SchedLock
  BY <1>0, <1>2, Lock, PlainStep DEF SchedLock, MovesTo, QuietStep
<1>3. CASE SchedUnlock
  BY <1>3, UnlockInv DEF SchedUnlock
<1>4. CASE UnlockResumed
  <2>1. SoundStep(k, k')
    BY <1>0, <1>4, UnlockRR DEF UnlockResumed, QuietStep
  <2> QED  BY <1>1, <1>4, <2>1, PlainStep DEF UnlockResumed, MovesTo, Goto
<1>5. CASE SchedYield
  <2>1. SoundStep(k, k')
    BY <1>0, <1>5, SetPrioritySound DEF SchedYield, PriorityChanged, QuietStep
  <2> QED  BY <1>5, <2>1, PlainStep DEF SchedYield, MovesTo
<1>6. ASSUME NEW t \in Task \ {IDLE}, NEW p \in PrioArg
      PROVE  LET c == At("setparam", t, p) IN GoodCall(Self, c) /\ c.at # "exithook"
  <2>1. At("setparam", t, p) \in CallState
    BY CallPlaces DEF Label
  <2> QED  BY <2>1 DEF GoodCall, At
<1>7. ASSUME NEW t \in Task \ {IDLE}, NEW p \in PrioArg, SchedSetParam(t, p)
      PROVE  Inv'
  <2>1. SoundStep(k, k')
    BY <1>0, <1>7, Lock DEF SchedSetParam, QuietStep
  <2>2. MovesTo(At("setparam", t, p))
    BY <1>6, <1>7 DEF SchedSetParam, MovesTo, Goto
  <2> QED  BY <1>7, <2>1, <2>2, PlainStep DEF SchedSetParam
<1>8. ASSUME NEW t \in Task \ {IDLE}, NEW p \in PrioArg, NEW rr \in BOOLEAN,
             SchedSetScheduler(t, p, rr)
      PROVE  Inv'
  <2>1. SoundStep(k, k')
    BY <1>8, SetPolicy DEF SchedSetScheduler, QuietStep
  <2>2. MovesTo(At("setparam", t, p))
    BY <1>6, <1>8 DEF SchedSetScheduler, MovesTo, Goto
  <2> QED  BY <1>8, <2>1, <2>2, PlainStep DEF SchedSetScheduler
<1>9. CASE Reprioritize
  <2> DEFINE t == pc[Self].who
             p == pc[Self].prio
             c == At("setparam_unlock", IDLE, 0)
  <2>1. t \in Task \ {IDLE}
    BY <1>9 DEF Reprioritize, GoodCall, CallState
  <2>2. SoundStep(k, sched_setpriority(k, t, p)) /\ SoundStep(k, k)
    BY <1>0, <2>1, SetPrioritySound DEF PriorityChanged, QuietStep, SoundStep, SameListed
  <2>3. k' = sched_setpriority(k, t, p) \/ k' = k
    BY <1>9 DEF Reprioritize
  <2>4. c \in CallState /\ c.at = "setparam_unlock"
    BY CallPlaces, KernelAssumption DEF Label, At
  <2>5. GoodCall(Self, c) /\ c.at # "exithook"
    BY <2>4 DEF GoodCall
  <2>6. MovesTo(c) /\ pids' = pids
    BY <1>9, <2>5 DEF Reprioritize, MovesTo, Goto
  <2> QED  BY <2>2, <2>3, <2>6, PlainStep
<1>10. CASE SetParamUnlock
  BY <1>10, UnlockInv DEF SetParamUnlock
<1>11. ASSUME NEW s \in WaitState, Block(s)
       PROVE  Inv'
  <2>1. s \in BlockedState
    BY SchedulerAssumption
  <2>2. SoundStep(k, k')
    BY <1>0, <1>11, <2>1, BlockTask DEF Block, Self, TaskBlocked
  <2> QED  BY <1>11, <2>2, PlainStep DEF Block, MovesTo
<1>12. ASSUME NEW t \in Task, Unblock(t)
       PROVE  Inv'
  <2>1. k.state[t] \in BlockedState
    BY <1>12, SchedulerAssumption DEF Unblock
  <2>2. SoundStep(k, k')
    BY <1>0, <1>12, <2>1, UnblockSound DEF Unblock, TaskWoken
  <2> QED  BY <1>12, <2>2, PlainStep DEF Unblock, MovesTo
<1>13. CASE Tick
  <2>1. SoundStep(k, k')
    BY <1>0, <1>13, RoundRobin DEF Tick, Self, QuietStep
  <2> QED  BY <1>13, <2>1, PlainStep DEF Tick, MovesTo
<1>14. CASE TaskActivate
  <2>1. pc[Self].who \in Task
    BY DEF CallState
  <2>2. SoundStep(k, k')
    BY <1>0, <1>14, <2>1, UnblockSound DEF TaskActivate, TaskWoken
  <2> QED  BY <1>1, <1>14, <2>2, PlainStep DEF TaskActivate, MovesTo, Goto
<1> QED  BY <1>2, <1>3, <1>4, <1>5, <1>7, <1>8, <1>9, <1>10, <1>11, <1>12, <1>13, <1>14

-----------------------------------------------------------------------------
\* task_create: the new TCB has no pid, so it is on no list and no deletion of
\* it is under way.
LEMMA CreateInv ==
  ASSUME Inv, NEW t \in Task \ {IDLE}, NEW p \in InitPrio, TaskCreate(t, p)
  PROVE  Inv'
<1> DEFINE q == IF t \in RRTask THEN k.rr \union {t} ELSE k.rr
           n == IF t \in RRTask THEN RR_TICKS ELSE 0
           c == NewTcb(k, t, p, q, n)
           x == At("activate", t, 0)
<1>1. k' = AddInactive(c, t) /\ t \notin pids /\ pids' = pids \union {t} /\ pc' = [pc EXCEPT ![Self] = x]
  BY DEF TaskCreate, Goto, NewTcb
<1>2. q \in SUBSET Task /\ IDLE \notin q /\ n \in 0..RR_TICKS /\ p \in Priority
  BY SelfRuns, SchedulerAssumption, KernelAssumption DEF KernelState
<1>3. k.state[t] = "INVALID" /\ Sound(k)
  BY <1>1 DEF Inv, PidsCover
<1> HIDE DEF q, n
<1>4. MadeInactive(k, t, AddInactive(c, t))
  BY <1>2, <1>3, CreateSound
<1> HIDE DEF c
<1>5. Sound(k') /\ k'.state = [k.state EXCEPT ![t] = "INACTIVE"]
  BY <1>1, <1>4 DEF MadeInactive
<1>6. GoodCall(Self, x) /\ x.at # "exithook" /\ x \in CallState
  <2>1. x \in CallState /\ x.at = "activate" /\ x.who = t
    BY CallPlaces DEF Label, At
  <2> QED  BY <2>1 DEF GoodCall
<1> HIDE DEF x
<1>7. /\ pc' \in [Task -> CallState] /\ \A u \in Task : GoodCall(u, pc'[u])
      /\ \A u \in Task : pc'[u].at = "exithook" => pc'[u] = pc[u]
  BY <1>1, <1>6, SelfRuns DEF Inv, GoodCalls
<1>8. GoodCalls'
  BY <1>7 DEF GoodCalls
<1>9. PidsCover'
  BY <1>1, <1>5, SelfRuns DEF Inv, PidsCover
<1>10. ExitsPending'
  <2>1. \A u \in Task \ {t} : k'.state[u] = k.state[u]
    BY <1>5, SelfRuns
  <2>2. \A u \in Task : pc[u].at = "exithook" =>
          pc[u].who \in pids /\ k.state[pc[u].who] = "INVALID" /\ pc[u].who \in Task \ {t}
    BY <1>1 DEF Inv, ExitsPending, PidsCover
  <2> QED  BY <1>1, <1>7, <2>1, <2>2 DEF Inv, ExitsPending
<1> QED  BY <1>5, <1>8, <1>9, <1>10 DEF Inv

\* task_restart: the task is listed, so no deletion of it is under way.
LEMMA RestartInv ==
  ASSUME Inv, NEW t \in Task, TaskRestart(t)
  PROVE  Inv'
<1> DEFINE x == At("reactivate", t, 0)
<1>1. /\ t \in Task \ {IDLE, Self} /\ k.state[t] # "INVALID" /\ t \in pids /\ k' = Restarted(k, t)
      /\ pc' = [pc EXCEPT ![t] = User, ![Self] = x] /\ pids' = pids
  BY DEF TaskRestart, Known
<1>2. Removable(k, t) /\ Sound(k)
  BY <1>1 DEF Removable, Inv, Sound, Self
<1>3. Sound(k') /\ k'.state = [k.state EXCEPT ![t] = "INACTIVE"]
  BY <1>1, <1>2, RestartSound DEF MadeInactive
<1>4. GoodCall(Self, x) /\ x.at # "exithook" /\ x \in CallState
  <2>1. x \in CallState /\ x.at = "reactivate" /\ x.who = t
    BY CallPlaces DEF Label, At
  <2> QED  BY <1>1, <2>1 DEF GoodCall
<1>5. GoodCall(t, User) /\ User.at # "exithook" /\ User \in CallState
  BY CallPlaces DEF User, At
<1> HIDE DEF x
<1>6. /\ pc' \in [Task -> CallState] /\ \A u \in Task : GoodCall(u, pc'[u])
      /\ \A u \in Task : pc'[u].at = "exithook" => pc'[u] = pc[u]
  <2>1. Self \in Task /\ pc \in [Task -> CallState] /\ \A u \in Task : GoodCall(u, pc[u])
    BY SelfRuns DEF Inv, GoodCalls
  <2> HIDE DEF x
  <2>2. pc' \in [Task -> CallState] /\ pc'[t] = User /\ pc'[Self] = x
        /\ \A u \in Task \ {t, Self} : pc'[u] = pc[u]
    BY <1>1, <1>4, <1>5, <2>1
  <2> QED  BY <1>4, <1>5, <2>1, <2>2
<1>7. GoodCalls'
  BY <1>6 DEF GoodCalls
<1>8. PidsCover'
  BY <1>1, <1>3, SelfRuns DEF Inv, PidsCover
<1>9. ExitsPending'
  <2>1. \A u \in Task \ {t} : k'.state[u] = k.state[u]
    BY <1>3, SelfRuns
  <2>2. \A u \in Task : pc[u].at = "exithook" =>
          pc[u].who \in pids /\ k.state[pc[u].who] = "INVALID" /\ pc[u].who \in Task \ {t}
    BY <1>1 DEF Inv, ExitsPending, PidsCover
  <2> QED  BY <1>1, <1>6, <2>1, <2>2 DEF Inv, ExitsPending
<1> QED  BY <1>3, <1>7, <1>8, <1>9 DEF Inv

\* task_delete of another task: nothing but the place of the caller changes.
LEMMA DeleteInv ==
  ASSUME Inv, NEW t \in Task, TaskDelete(t)
  PROVE  Inv'
<1> DEFINE x == At("terminate", t, 0)
<1>1. /\ t \in Task \ {IDLE, Self} /\ k' = k /\ pids' = pids
      /\ pc' = [pc EXCEPT ![Self] = x]
  BY DEF TaskDelete, Known, Goto
<1>2. x \in CallState /\ x.at = "terminate" /\ x.who = t
  BY CallPlaces DEF Label, At
<1>3. MovesTo(x)
  BY <1>1, <1>2 DEF MovesTo, GoodCall
<1>4. SoundStep(k, k')
  BY <1>1 DEF SoundStep, SameListed, Inv
<1> QED  BY <1>1, <1>3, <1>4, PlainStep

\* The first critical section of task_terminate takes a listed task off its
\* list; nobody else is between the two critical sections with it.
LEMMA TerminateInv ==
  ASSUME Inv, TaskTerminate
  PROVE  Inv'
<1> DEFINE t == pc[Self].who
           x == At("exithook", t, 0)
<1>1. pc[Self].at = "terminate" /\ pids' = pids
  BY DEF TaskTerminate
<1>2. t \in Task \ {IDLE, Self}
  BY <1>1, SelfRuns DEF GoodCall, CallState
<1>3. CASE t \notin pids
  <2>1. k' = k /\ pc' = [pc EXCEPT ![Self] = User]
    BY <1>3 DEF TaskTerminate, Goto
  <2>2. User.at # "exithook" /\ GoodCall(Self, User)
    BY CallPlaces, SelfRuns DEF User, At
  <2>3. MovesTo(User) /\ SoundStep(k, k')
    BY <2>1, <2>2 DEF MovesTo, SoundStep, SameListed, Inv
  <2> QED  BY <1>1, <2>3, PlainStep
<1>4. CASE t \in pids
  <2>1. k.state[t] # "INVALID" /\ k' = TakeOffList(k, t) /\ pc' = [pc EXCEPT ![Self] = x]
    BY <1>4 DEF TaskTerminate, Goto
  <2>2. Removable(k, t) /\ Sound(k)
    BY <1>2, <2>1 DEF Removable, Inv, Sound, Self
  <2>3. Sound(k') /\ k'.state = [k.state EXCEPT ![t] = "INVALID"]
    BY <2>1, <2>2, TakeOffSound DEF TakenOff
  <2>4. x \in CallState /\ x.at = "exithook" /\ x.who = t
    BY <1>2, CallPlaces DEF Label, At
  <2>5. GoodCall(Self, x)
    BY <1>2, <2>4 DEF GoodCall
  <2> HIDE DEF t, x
  <2>6. pc' \in [Task -> CallState] /\ \A u \in Task : GoodCall(u, pc'[u])
    BY <2>1, <2>4, <2>5, SelfRuns DEF Inv, GoodCalls
  <2>7. GoodCalls'
    BY <2>6 DEF GoodCalls
  <2>8. PidsCover'
    BY <1>1, <1>2, <1>4, <2>3, SelfRuns DEF Inv, PidsCover
  <2>9. \A u \in Task : pc[u].at = "exithook" =>
          pc[u].who \in pids /\ k.state[pc[u].who] = "INVALID" /\ pc[u].who \in Task \ {t}
    BY <2>1 DEF Inv, ExitsPending, PidsCover
  <2>10. /\ \A u \in Task \ {Self} : pc'[u] = pc[u]
         /\ pc'[Self] = x /\ k'.state[t] = "INVALID"
         /\ \A u \in Task \ {t} : k'.state[u] = k.state[u]
    BY <1>2, <2>1, <2>3, SelfRuns
  <2>11. ExitsPending'
    BY <1>1, <1>4, <2>4, <2>9, <2>10 DEF Inv, ExitsPending
  <2> QED  BY <2>3, <2>7, <2>8, <2>11 DEF Inv
<1> QED  BY <1>3, <1>4

\* The second critical section of task_terminate frees the TCB and its pid.
LEMMA ReleaseInv ==
  ASSUME Inv, TaskRelease
  PROVE  Inv'
<1> DEFINE t == pc[Self].who
           a == sched_releasetcb(k, t)
<1>1. /\ pc[Self].at = "exithook" /\ k' = a /\ pids' = pids \ {t}
      /\ pc' = [pc EXCEPT ![t] = User, ![Self] = User]
  BY DEF TaskRelease, sched_releasepid
<1>2. t \in Task \ {IDLE} /\ t \in pids /\ k.state[t] = "INVALID" /\ t # Self
  BY <1>1, SelfRuns DEF GoodCall, CallState, Inv, ExitsPending
<1>3. Sound(k) /\ Consistent(k) /\ k.lock \in [Task -> Nat]
  BY SelfRuns DEF Inv, Sound, KernelState
<1> HIDE DEF t
<1>4. /\ Consistent(a) /\ SameHead(k, a) /\ a.state = k.state /\ a.lock = [k.lock EXCEPT ![t] = 0]
  BY <1>2, <1>3, ReleaseTcb
<1> HIDE DEF a
<1>5. Sound(k') /\ k'.state = k.state
  BY <1>1, <1>2, <1>3, <1>4 DEF Sound, SameHead, PendingReleased, Self
<1>6. /\ pc' \in [Task -> CallState] /\ pc'[t] = User /\ pc'[Self] = User
      /\ \A u \in Task \ {t, Self} : pc'[u] = pc[u]
  BY <1>1, <1>2, SelfRuns, CallPlaces
<1>7. User.at # "exithook" /\ \A u \in Task : GoodCall(u, User)
  BY CallPlaces DEF User, At
<1>8. GoodCalls'
  BY <1>6, <1>7 DEF Inv, GoodCalls
<1>9. PidsCover'
  BY <1>1, <1>2, <1>5 DEF Inv, PidsCover
<1>10. ExitsPending'
  <2>1. \A u \in Task : pc'[u].at = "exithook" =>
          /\ pc[u].at = "exithook" /\ pc'[u] = pc[u]
          /\ pc[u].who \in pids /\ k.state[pc[u].who] = "INVALID" /\ pc[u].who # t
    <3> SUFFICES ASSUME NEW u \in Task, pc'[u].at = "exithook"
                 PROVE  /\ pc[u].at = "exithook" /\ pc'[u] = pc[u]
                        /\ pc[u].who \in pids /\ k.state[pc[u].who] = "INVALID" /\ pc[u].who # t
      OBVIOUS
    <3>1. u \notin {t, Self}
      BY <1>6, <1>7
    <3>2. pc'[u] = pc[u] /\ pc[u].at = "exithook"
      BY <1>6, <3>1
    <3>3. pc[u].who # t
      <4>1. pc[Self].who = t /\ Self \in Task
        BY SelfRuns DEF t
      <4>2. \A v \in Task : pc[u].at = "exithook" /\ pc[v].at = "exithook"
                              /\ pc[u].who = pc[v].who => u = v
        BY DEF Inv, ExitsPending
      <4> QED  BY <1>1, <3>1, <3>2, <4>1, <4>2
    <3> QED  BY <3>2, <3>3 DEF Inv, ExitsPending
  <2>2. \A u \in Task : pc'[u].at = "exithook" =>
          pc'[u].who \in pids' /\ k'.state[pc'[u].who] = "INVALID"
    <3>1. pids' = pids \ {t} /\ k'.state = k.state
      BY <1>1, <1>5
    <3> QED  BY <2>1, <3>1
  <2>3. \A u, v \in Task : pc'[u].at = "exithook" /\ pc'[v].at = "exithook"
                             /\ pc'[u].who = pc'[v].who => u = v
    BY <2>1 DEF Inv, ExitsPending
  <2> QED  BY <2>2, <2>3 DEF ExitsPending
<1> QED  BY <1>5, <1>8, <1>9, <1>10 DEF Inv

\* _exit: the running task leaves the lists and loses its pid at once.
LEMMA ExitInv ==
  ASSUME Inv, NEW W \in ExitWakes, TaskExit(W)
  PROVE  Inv'
<1>1. /\ Self # IDLE /\ k' = task_exit(k, W) /\ pids' = pids \ {Self}
      /\ pc' = [pc EXCEPT ![Self] = User]
  BY DEF TaskExit, sched_releasepid, Goto
<1>2. \A w \in W : w \in Task /\ k.state[w] = "WAIT_SEM"
  BY DEF ExitWakes
<1>3. Sound(k) /\ this_task(k) # IDLE
  BY <1>1 DEF Inv, Self
<1>4. /\ Sound(k')
      /\ \A u \in Task : k'.state[u] = "INVALID" <=> u = Self \/ k.state[u] = "INVALID"
  BY <1>1, <1>2, <1>3, ExitSound DEF Self
<1>5. User.at # "exithook" /\ (\A u \in Task : GoodCall(u, User)) /\ User \in CallState
  BY CallPlaces DEF User, At
<1>6. /\ pc' \in [Task -> CallState] /\ pc'[Self] = User
      /\ \A u \in Task \ {Self} : pc'[u] = pc[u]
  BY <1>1, <1>5, SelfRuns
<1>7. GoodCalls'
  BY <1>5, <1>6 DEF Inv, GoodCalls
<1>8. PidsCover'
  BY <1>1, <1>4 DEF Inv, PidsCover
<1>9. ExitsPending'
  <2>1. \A u \in Task : pc'[u].at = "exithook" =>
          /\ pc[u].at = "exithook" /\ pc'[u] = pc[u]
          /\ pc[u].who \in pids /\ k.state[pc[u].who] = "INVALID" /\ pc[u].who # Self
          /\ pc[u].who \in Task
    BY <1>5, <1>6, SelfRuns DEF Inv, ExitsPending, PidsCover
  <2> QED  BY <1>1, <1>4, <2>1 DEF Inv, ExitsPending
<1> QED  BY <1>4, <1>7, <1>8, <1>9 DEF Inv

\* Every step preserves the invariant.
LEMMA NextInv == Inv /\ [Next]_vars => Inv'
<1> SUFFICES ASSUME Inv, [Next]_vars PROVE Inv'
  OBVIOUS
<1>1. CASE UNCHANGED vars
  BY <1>1 DEF vars, Inv, GoodCalls, PidsCover, ExitsPending
<1>2. ASSUME NEW t \in Task \ {IDLE}, NEW p \in InitPrio, TaskCreate(t, p) PROVE Inv'
  BY <1>2, CreateInv
<1>3. CASE AppCall
  BY <1>3, PlainCalls, RestartInv, DeleteInv, ExitInv DEF AppCall
<1>4. CASE TaskActivate \/ UnlockResumed \/ Reprioritize \/ SetParamUnlock \/ Tick
             \/ \E t \in Task : Unblock(t)
  BY <1>4, PlainCalls
<1>5. CASE TaskTerminate \/ TaskRelease
  BY <1>5, TerminateInv, ReleaseInv
<1> QED  BY <1>1, <1>2, <1>3, <1>4, <1>5 DEF Next

-----------------------------------------------------------------------------
\* The inductive invariant holds in every reachable state.
THEOREM Invariance == Spec => []Inv
BY InitInv, NextInv, PTL DEF Spec

\* The idle task is the last of g_readytorun, by its priority.
LEMMA IdleLast ==
  ASSUME Inv
  PROVE  IdleIsLast
<1> DEFINE R == k.list["READYTORUN"]
<1>1. "READYTORUN" \in ListName /\ TLIST_ISPRIORITIZED("READYTORUN") /\ Consistent(k)
  BY DEF ListName, TLIST_ISPRIORITIZED, Inv, Sound
<1>2. Lists(R, On(k, "READYTORUN")) /\ Sorted(R, k.prio) /\ k \in KernelState
  BY <1>1 DEF Consistent, ListsHold, PrioritizedSorted
<1>3. R \in Seq(Task) /\ Len(R) \in Nat \ {0} /\ R \in [1..Len(R) -> Task]
  BY <1>1, ReadyHead, LenProperties
<1> HIDE DEF R
<1>4. PICK i \in 1..Len(R) : R[i] = IDLE
  <2>1. IDLE \in On(k, "READYTORUN")
    BY <1>1, KernelAssumption DEF On, TLIST_HEAD, Consistent, IdleReady
  <2> QED  BY <1>2, <2>1, KernelAssumption DEF Lists, InList
<1>5. R[Len(R)] \in Task /\ k.prio[R[Len(R)]] <= 0
  <2>1. Len(R) \in 1..Len(R) /\ R[Len(R)] \in Task /\ k.prio[IDLE] = 0
    BY <1>1, <1>3 DEF Consistent, IdleReady
  <2>2. i = Len(R) \/ i < Len(R)
    <3> DEFINE n == Len(R)
    <3>1. n \in Nat /\ i \in 1..n
      BY <1>3, <1>4
    <3> HIDE DEF n
    <3>2. i = n \/ i < n
      BY <3>1
    <3> QED  BY <3>2 DEF n
  <2>3. k.prio[R[Len(R)]] \in Int
    <3>1. k.prio \in [Task -> 0..SCHED_PRIORITY_MAX]
      BY <1>2 DEF KernelState
    <3> QED  BY <2>1, <3>1
  <2>4. CASE i < Len(R)
    <3>1. k.prio[R[i]] >= k.prio[R[Len(R)]]
      BY <1>2, <2>1, <2>4 DEF Sorted
    <3> QED  BY <1>4, <2>1, <2>3, <3>1
  <2>5. CASE i = Len(R)
    BY <1>4, <2>1, <2>5
  <2> QED  BY <2>2, <2>4, <2>5
<1>6. k.state[R[Len(R)]] # "INVALID"
  <2>1. Len(R) \in 1..Len(R)
    BY <1>3
  <2>2. InList(R, R[Len(R)])
    BY <2>1 DEF InList
  <2> QED  BY <1>2, <1>5, <2>2 DEF Lists, On, TLIST_HEAD
<1>7. R[Len(R)] = IDLE
  <2> SUFFICES ASSUME R[Len(R)] # IDLE PROVE FALSE
    OBVIOUS
  <2>1. k.prio[R[Len(R)]] \in Priority
    BY <1>1, <1>5, <1>6 DEF Consistent, PrioritiesValid
  <2> QED  BY <1>5, <2>1, KernelAssumption DEF Priority, SCHED_PRIORITY_MIN
<1> QED  BY <1>3, <1>7 DEF IdleIsLast, R

\* Membership of a list and the state of a task say the same.
LEMMA StatesMatch ==
  ASSUME Inv
  PROVE  ListsMatchStates
<1>1. Consistent(k) /\ ListsHold(k) /\ k \in KernelState /\ HeadRuns(k)
  BY DEF Inv, Sound, Consistent
<1>2. k.state \in [Task -> TaskState] /\ "INVALID" \notin ListName /\ "RUNNING" \notin ListName
  BY <1>1 DEF KernelState, ListName, BlockedState
<1>3. ASSUME NEW l \in ListName, NEW i \in 1..Len(k.list[l])
      PROVE  k.state[k.list[l][i]] = IF l = "READYTORUN" /\ i = 1 THEN "RUNNING" ELSE l
  <2> DEFINE m == k.list[l]
             t == m[i]
  <2>1. Lists(m, On(k, l))
    BY <1>1 DEF ListsHold
  <2>2. t \in Task /\ Len(m) \in Nat
    <3>1. m \in Seq(Task)
      BY <2>1 DEF Lists
    <3>2. m \in [1..Len(m) -> Task] /\ Len(m) \in Nat
      BY <3>1, LenProperties
    <3> QED  BY <3>2
  <2>3. TLIST_HEAD(k.state[t]) = l
    BY <2>1, <2>2 DEF Lists, InList, On
  <2>4. CASE i = 1 /\ l = "READYTORUN"
    BY <1>1, <2>4 DEF HeadRuns, this_task
  <2>5. CASE ~(i = 1 /\ l = "READYTORUN")
    <3>1. k.state[t] # "RUNNING"
      <4> SUFFICES ASSUME k.state[t] = "RUNNING" PROVE FALSE
        OBVIOUS
      <4>1. l = "READYTORUN"
        BY <2>3 DEF TLIST_HEAD
      <4>2. t = m[1]
        BY <1>1, <2>2, <4>1 DEF Consistent, OnlyHeadRuns, this_task
      <4>3. i = 1
        BY <2>1, <2>2, <4>2 DEF Lists
      <4> QED  BY <2>5, <4>1, <4>3
    <3>2. k.state[t] = l
      BY <2>3, <3>1 DEF TLIST_HEAD
    <3> QED  BY <2>5, <3>2
  <2> QED  BY <2>4, <2>5
<1>4. \A l \in ListName : \A i, j \in 1..Len(k.list[l]) : k.list[l][i] = k.list[l][j] => i = j
  BY <1>1 DEF ListsHold, Lists
<1>5. ASSUME NEW t \in Task, k.state[t] # "INVALID"
      PROVE  InList(k.list[TLIST_HEAD(k.state[t])], t)
  <2>1. TLIST_HEAD(k.state[t]) \in ListName
    BY <1>2, <1>5 DEF TaskState, ListName, TLIST_HEAD
  <2> QED  BY <1>1, <2>1 DEF ListsHold, Lists, On
<1> QED  BY <1>3, <1>4, <1>5 DEF ListsMatchStates

\* The kernel state and the places in the calls keep their types, for any
\* number of tasks and any priorities.
THEOREM TypeCorrect == Spec => []TypeOK
<1>1. Inv => TypeOK
  BY SelfRuns DEF TypeOK, Inv, PidsCover, CallState
<1> QED  BY <1>1, Invariance, PTL

\* dq_rem never unlinks a TCB from a list it is not on: whatever the tasks and
\* the interrupts do, every TCB is once on the list its task_state names.
THEOREM ListsMatchStatesAlways == Spec => []ListsMatchStates
<1>1. Inv => ListsMatchStates
  BY StatesMatch
<1> QED  BY <1>1, Invariance, PTL

\* The prioritized lists stay sorted, whatever priorities are changed while
\* tasks are ready, pending or blocked.
THEOREM ListsSortedAlways == Spec => []ListsSorted
<1>1. Inv => ListsSorted
  BY DEF Inv, Sound, Consistent, PrioritizedSorted, Sorted, ListsSorted
<1> QED  BY <1>1, Invariance, PTL

\* The idle task is always the last of g_readytorun.
THEOREM IdleIsLastAlways == Spec => []IdleIsLast
<1>1. Inv => IdleIsLast
  BY IdleLast
<1> QED  BY <1>1, Invariance, PTL

\* A task on g_pendingtasks has a lock holder that will release it.
THEOREM NoneStranded == Spec => []PendingOnlyWhenLocked
<1>1. Inv => PendingOnlyWhenLocked
  BY DEF Inv, Sound, PendingReleased, PendingOnlyWhenLocked, Self
<1> QED  BY <1>1, Invariance, PTL

\* The most urgent runnable task runs, or the running task holds the scheduler
\* lock and the more urgent ones are on g_pendingtasks.
THEOREM StrictPriorityAlways == Spec => []StrictPriority
<1>1. ASSUME Inv PROVE StrictPriority
  <2>1. Consistent(k) /\ k \in KernelState /\ ListsHold(k) /\ PendingReleased(k)
    BY <1>1 DEF Inv, Sound, Consistent
  <2> SUFFICES ASSUME NEW t \in Task, k.state[t] \in {"READYTORUN", "PENDING"},
                      k.prio[t] > k.prio[Self]
               PROVE  k.state[t] = "PENDING" /\ k.lock[Self] > 0
    BY DEF StrictPriority
  <2>2. Self \in Task /\ k.prio \in [Task -> 0..SCHED_PRIORITY_MAX]
    BY <1>1, SelfRuns DEF KernelState
  <2>3. k.prio[t] \in Int /\ k.prio[Self] \in Int
    BY <2>2, KernelAssumption
  <2>4. k.state[t] = "PENDING"
    BY <2>1, <2>3, ReadyHead DEF Self
  <2>5. InList(k.list["PENDING"], t)
    BY <2>1, <2>4 DEF ListsHold, Lists, On, TLIST_HEAD, ListName
  <2>6. Pending(k)
    BY <2>5 DEF Pending, InList
  <2> QED  BY <2>1, <2>4, <2>6 DEF PendingReleased, Self
<1> QED  BY <1>1, Invariance, PTL
-----------------------------------------------------------------------------
\* What the running task must have done for another one to run, if it held the
\* lock.
KeepsProcessor ==
  k.lock[Self] > 0 /\ Self' # Self =>
    \/ k'.lock[Self] = 0
    \/ k'.state[Self] # "READYTORUN"
    \/ SchedYield
    \/ pc[Self].at = "setparam" /\ pc[Self].who = Self

\* Only sched_unlock, blocking, exit, sched_yield and a change of its own
\* priority take the processor from a task that holds the lock.
LEMMA NextKeepsProcessor ==
  ASSUME Inv, [Next]_vars
  PROVE  KeepsProcessor
<1> USE SelfRuns
<1>0. Sound(k) /\ this_task(k) = Self /\ (k.lock[Self] > 0 => k.lock[this_task(k)] > 0)
  BY DEF Inv, Self
<1>1. CASE UNCHANGED vars
  BY <1>1 DEF vars, Self, KeepsProcessor
<1>2. ASSUME NEW t \in Task \ {IDLE}, NEW p \in InitPrio, TaskCreate(t, p)
      PROVE  KeepsProcessor
  <2> DEFINE q == IF t \in RRTask THEN k.rr \union {t} ELSE k.rr
             n == IF t \in RRTask THEN RR_TICKS ELSE 0
             c == NewTcb(k, t, p, q, n)
  <2>1. k' = AddInactive(c, t) /\ t \notin pids
    BY <1>2 DEF TaskCreate, NewTcb
  <2>2. q \in SUBSET Task /\ IDLE \notin q /\ n \in 0..RR_TICKS /\ p \in Priority
    BY SchedulerAssumption, KernelAssumption DEF KernelState
  <2>3. k.state[t] = "INVALID"
    BY <2>1 DEF Inv, PidsCover
  <2> HIDE DEF q, n
  <2>4. this_task(AddInactive(c, t)) = this_task(k)
    <3>1. MadeInactive(k, t, AddInactive(c, t))
      BY <1>0, <2>2, <2>3, CreateSound
    <3> QED  BY <3>1 DEF MadeInactive
  <2> HIDE DEF c
  <2> QED  BY <2>1, <2>4 DEF KeepsProcessor, Self
<1>3. CASE TaskActivate
  BY <1>0, <1>3, UnblockSound DEF TaskActivate, TaskWoken, KeepsProcessor, Self, CallState
<1>4. CASE SchedLock \/ UnlockResumed
  <2>1. this_task(sched_lock(k)) = Self /\ this_task(unlock_rr(k, Self)) = Self
    BY <1>0, Lock, UnlockRR DEF Tuned, this_task
  <2> QED  BY <1>4, <2>1 DEF SchedLock, UnlockResumed, KeepsProcessor, Self
<1>5. CASE SchedUnlock \/ SetParamUnlock
  BY <1>5, UnlockInv DEF SchedUnlock, SetParamUnlock, KeepsProcessor
<1>6. CASE SchedYield
  BY <1>6 DEF KeepsProcessor
<1>7. ASSUME NEW t \in Task \ {IDLE}, NEW p \in PrioArg, SchedSetParam(t, p)
      PROVE  KeepsProcessor
  <2>1. this_task(sched_lock(k)) = Self
    BY <1>0, Lock DEF Tuned, this_task
  <2> QED  BY <1>7, <2>1 DEF SchedSetParam, KeepsProcessor, Self
<1>8. ASSUME NEW t \in Task \ {IDLE}, NEW p \in PrioArg, NEW rr \in BOOLEAN,
             SchedSetScheduler(t, p, rr)
      PROVE  KeepsProcessor
  <2>1. this_task(k') = this_task(k)
    BY <1>8, SetPolicy DEF SchedSetScheduler
  <2> QED  BY <2>1 DEF KeepsProcessor, Self
<1>9. CASE Reprioritize
  <2> DEFINE t == pc[Self].who
             p == pc[Self].prio
  <2>1. t \in Task \ {IDLE} /\ pc[Self].at = "setparam"
    BY <1>9 DEF Reprioritize, GoodCall, CallState
  <2>2. PriorityChanged(k, t, sched_setpriority(k, t, p))
    BY <1>0, <2>1, SetPrioritySound
  <2>3. k' = sched_setpriority(k, t, p) \/ k' = k
    BY <1>9 DEF Reprioritize
  <2>4. t = Self \/ (k.lock[Self] > 0 => Self' = Self)
    BY <1>0, <2>2, <2>3 DEF PriorityChanged, Self
  <2> QED  BY <2>1, <2>4 DEF KeepsProcessor
<1>10. ASSUME NEW s \in WaitState, Block(s)
       PROVE  KeepsProcessor
  <2>1. s \in BlockedState /\ s # "READYTORUN"
    BY SchedulerAssumption DEF BlockedState
  <2>2. TaskBlocked(k, Self, s, k')
    BY <1>0, <1>10, <2>1, BlockTask DEF Block
  <2>3. k'.state[Self] = s
    BY <2>2 DEF TaskBlocked
  <2> QED  BY <2>1, <2>3 DEF KeepsProcessor
<1>11. ASSUME NEW t \in Task, Unblock(t)
       PROVE  KeepsProcessor
  <2>1. k.state[t] \in BlockedState
    BY <1>11, SchedulerAssumption DEF Unblock
  <2> QED  BY <1>0, <1>11, <2>1, UnblockSound DEF Unblock, TaskWoken, KeepsProcessor, Self
<1>12. CASE Tick
  BY <1>0, <1>12, RoundRobin DEF Tick, KeepsProcessor, Self
<1>13. ASSUME NEW t \in Task, TaskRestart(t)
       PROVE  KeepsProcessor
  <2>1. t \in Task \ {IDLE, Self} /\ k.state[t] # "INVALID" /\ k' = Restarted(k, t)
    BY <1>13 DEF TaskRestart, Known
  <2>2. Removable(k, t)
    BY <1>0, <2>1 DEF Removable, Sound
  <2> QED  BY <1>0, <2>1, <2>2, RestartSound DEF MadeInactive, KeepsProcessor, Self
<1>14. ASSUME NEW t \in Task, TaskDelete(t)
       PROVE  KeepsProcessor
  BY <1>14 DEF TaskDelete, KeepsProcessor, Self
<1>15. CASE TaskTerminate
  <2> DEFINE t == pc[Self].who
  <2>1. t \in Task \ {IDLE, Self}
    BY <1>15 DEF TaskTerminate, GoodCall, CallState
  <2>2. CASE k' = k
    BY <2>2 DEF KeepsProcessor, Self
  <2>3. CASE k.state[t] # "INVALID" /\ k' = TakeOffList(k, t)
    <3>1. Removable(k, t)
      BY <1>0, <2>1, <2>3 DEF Removable, Sound
    <3> QED  BY <1>0, <2>3, <3>1, TakeOffSound DEF TakenOff, KeepsProcessor, Self
  <2> QED  BY <1>15, <2>2, <2>3 DEF TaskTerminate
<1>16. CASE TaskRelease
  <2> DEFINE t == pc[Self].who
  <2>1. t \in Task \ {IDLE} /\ k.state[t] = "INVALID" /\ Consistent(k)
    BY <1>0, <1>16 DEF TaskRelease, GoodCall, CallState, Inv, ExitsPending, Sound
  <2>2. SameHead(k, sched_releasetcb(k, t))
    BY <2>1, ReleaseTcb
  <2> QED  BY <1>16, <2>2 DEF TaskRelease, SameHead, KeepsProcessor, Self
<1>17. ASSUME NEW W \in ExitWakes, TaskExit(W)
       PROVE  KeepsProcessor
  <2>1. \A w \in W : w \in Task /\ k.state[w] = "WAIT_SEM"
    BY DEF ExitWakes
  <2>2. k'.state[Self] = "INVALID"
    BY <1>0, <1>17, <2>1, ExitSound DEF TaskExit, Self
  <2> QED  BY <2>2 DEF KeepsProcessor
<1>18. CASE AppCall
  BY <1>4, <1>5, <1>6, <1>7, <1>8, <1>10, <1>13, <1>14, <1>17, <1>18 DEF AppCall
<1> QED  BY <1>1, <1>2, <1>3, <1>4, <1>5, <1>9, <1>11, <1>12, <1>15, <1>16, <1>18 DEF Next

\* The scheduler lock does what it is for: a task that holds it is preempted by
\* nothing that interrupts or other tasks do.
THEOREM LockKeepsProcessorAlways == Spec => LockKeepsProcessor
<1>1. Inv /\ [Next]_vars =>
        [k.lock[Self] > 0 /\ Self' # Self =>
           \/ k'.lock[Self] = 0
           \/ k'.state[Self] # "READYTORUN"
           \/ SchedYield
           \/ pc[Self].at = "setparam" /\ pc[Self].who = Self]_vars
  BY NextKeepsProcessor DEF KeepsProcessor
<1> QED  BY <1>1, Invariance, PTL DEF Spec, LockKeepsProcessor
-----------------------------------------------------------------------------
\* With a second manager, a task could be deleted between task_create and its
\* task_activate, or by two calls of task_terminate at once; with one it cannot.
SoleManager == \A m, n \in Manager : m = n

\* The managers, and the idle task at boot, create, restart and delete tasks.
CallersManage ==
  \A u \in Task : pc[u].at \in {"activate", "reactivate", "terminate", "exithook"} =>
    u \in Manager \/ (u = IDLE /\ pc[u].at = "activate")

\* Until os_bringup has activated the first task, nobody else runs.
BootFirst ==
  /\ \A u \in Task : pc[u].at = "bringup" => u = IDLE
  /\ pc[IDLE].at = "bringup" => pids = {IDLE} /\ \A u \in Task \ {IDLE} : pc[u] = User
  /\ pc[IDLE].at = "activate" =>
       pids = {IDLE, pc[IDLE].who} /\ \A u \in Task \ {IDLE} : pc[u] = User

ActivatesInactive ==
  \A u \in Task : pc[u].at \in {"activate", "reactivate"} => k.state[pc[u].who] = "INACTIVE"

\* A task with a pid and no list is between the two halves of its deletion.
InvalidExits ==
  \A t \in pids : k.state[t] = "INVALID" =>
    \E u \in Task : pc[u].at = "exithook" /\ pc[u].who = t

\* The inductive invariant of an instance with one manager.
SoleInv == Inv /\ CallersManage /\ BootFirst /\ ActivatesInactive /\ InvalidExits

\* While the idle task boots the system, it is the task that runs.
LEMMA BootRuns ==
  ASSUME SoleInv, pc[IDLE].at \in {"bringup", "activate"}
  PROVE  Self = IDLE
<1>1. Self \in Task /\ Self \in pids /\ k.state[Self] = "RUNNING"
  BY SelfRuns DEF SoleInv
<1>2. pc[IDLE].at = "activate" => k.state[pc[IDLE].who] = "INACTIVE"
  BY KernelAssumption DEF SoleInv, ActivatesInactive
<1> QED  BY <1>1, <1>2 DEF SoleInv, BootFirst

\* The places of a call that concerns no creation, restart or deletion.
Ordinary == {"user", "unlock_rr", "setparam", "setparam_unlock"}

OrdinaryMove ==
  \/ pc' = pc
  \/ /\ pc[Self].at \in Ordinary
     /\ \E c \in CallState : c.at \in Ordinary /\ pc' = [pc EXCEPT ![Self] = c]

\* A step of such a call.
LEMMA SolePlain ==
  ASSUME SoleInv, Inv', OrdinaryMove, pids' = pids, SameListed(k, k'),
         \A u \in Task : k.state[u] = "INACTIVE" => k'.state[u] = "INACTIVE"
  PROVE  SoleInv'
<1>1. /\ Self \in Task /\ pc \in [Task -> CallState] /\ pids \subseteq Task /\ Inv
      /\ \A u \in Task : pc[u].who \in Task
  BY SelfRuns DEF SoleInv, Inv, GoodCalls, CallState, PidsCover
<1>2. CASE pc' = pc
  <2>1. CallersManage' /\ BootFirst'
    BY <1>2 DEF SoleInv, CallersManage, BootFirst
  <2>2. ActivatesInactive' /\ InvalidExits'
    BY <1>1, <1>2 DEF SoleInv, ActivatesInactive, InvalidExits, SameListed
  <2> QED  BY <2>1, <2>2 DEF SoleInv
<1>3. ASSUME pc[Self].at \in Ordinary, NEW c \in CallState, c.at \in Ordinary,
             pc' = [pc EXCEPT ![Self] = c]
      PROVE  SoleInv'
  <2>1. pc'[Self] = c /\ \A u \in Task \ {Self} : pc'[u] = pc[u]
    BY <1>1, <1>3
  <2>2. pc[IDLE].at \notin {"bringup", "activate"} /\ pc'[IDLE].at \notin {"bringup", "activate"}
    <3>1. pc[IDLE].at \notin {"bringup", "activate"}
      BY <1>3, BootRuns DEF Ordinary
    <3> QED  BY <1>3, <2>1, <3>1, KernelAssumption DEF Ordinary
  <2>3. CallersManage' /\ BootFirst'
    BY <1>3, <2>1, <2>2 DEF SoleInv, CallersManage, BootFirst, Ordinary
  <2>4. \A u \in Task : pc'[u].at \in {"activate", "reactivate"} => pc'[u] = pc[u]
    BY <1>3, <2>1 DEF Ordinary
  <2>5. ActivatesInactive'
    BY <1>1, <2>4 DEF SoleInv, ActivatesInactive
  <2>6. \A u \in Task : pc[u].at = "exithook" => pc'[u] = pc[u]
    BY <1>3, <2>1 DEF Ordinary
  <2>7. InvalidExits'
    BY <1>1, <2>6 DEF SoleInv, InvalidExits, SameListed
  <2> QED  BY <2>3, <2>5, <2>7 DEF SoleInv
<1> QED  BY <1>2, <1>3 DEF OrdinaryMove

\* A step that blocks or wakes tasks of X only leaves the inactive tasks alone.
LEMMA InactiveStay ==
  ASSUME NEW X, SameBlocked(k, k', X), \A u \in X : u \in Task => k.state[u] # "INACTIVE"
  PROVE  \A u \in Task : k.state[u] = "INACTIVE" => k'.state[u] = "INACTIVE"
BY DEF SameBlocked, BlockedState

\* The calls of SolePlain.
LEMMA SolePlainCalls ==
  ASSUME SoleInv,
         \/ SchedLock \/ SchedUnlock \/ UnlockResumed \/ SchedYield
         \/ \E t \in Task \ {IDLE}, p \in PrioArg : SchedSetParam(t, p)
         \/ \E t \in Task \ {IDLE}, p \in PrioArg, rr \in BOOLEAN : SchedSetScheduler(t, p, rr)
         \/ Reprioritize \/ SetParamUnlock
         \/ \E s \in WaitState : Block(s)
         \/ \E t \in Task : Unblock(t)
         \/ Tick
  PROVE  SoleInv'
<1>0. Inv /\ Sound(k) /\ this_task(k) = Self /\ Inv'
  BY PlainCalls DEF SoleInv, Inv, Self
<1> USE SelfRuns
<1>1. /\ User \in CallState /\ User.at = "user"
      /\ \A l \in Ordinary : At(l, IDLE, 0) \in CallState /\ At(l, IDLE, 0).at = l
      /\ \A t \in Task, p \in PrioArg : At("setparam", t, p) \in CallState
                                        /\ At("setparam", t, p).at = "setparam"
  BY CallPlaces, KernelAssumption DEF User, At, Ordinary, Label
<1>2. ASSUME NEW l \in Ordinary, pc[Self].at \in Ordinary, Goto(User) \/ Goto(At(l, IDLE, 0))
      PROVE  OrdinaryMove
  BY <1>1, <1>2 DEF OrdinaryMove, Goto, Ordinary
<1>3. ASSUME QuietStep(k, k'), OrdinaryMove, pids' = pids
      PROVE  SoleInv'
  BY <1>0, <1>3, SolePlain, InactiveStay DEF QuietStep, SoundStep
<1>4. QuietStep(k, k)
  BY <1>0 DEF QuietStep, SoundStep, SameListed, SameBlocked
<1>5. CASE SchedLock
  BY <1>0, <1>3, <1>5, Lock DEF SchedLock, OrdinaryMove
<1>6. CASE SchedUnlock \/ SetParamUnlock
  <2>1. QuietStep(k, k') /\ pids' = pids /\ (Goto(User) \/ Goto(At("unlock_rr", IDLE, 0)))
    BY <1>0, <1>6, UnlockInv DEF SchedUnlock, SetParamUnlock
  <2>2. pc[Self].at \in Ordinary
    BY <1>1, <1>6 DEF SchedUnlock, SetParamUnlock, Ordinary
  <2> QED  BY <1>2, <1>3, <2>1, <2>2 DEF Ordinary
<1>7. CASE UnlockResumed
  <2>1. QuietStep(k, k') /\ pids' = pids /\ Goto(User)
    BY <1>0, <1>7, UnlockRR DEF UnlockResumed
  <2> QED  BY <1>2, <1>3, <1>7, <2>1 DEF UnlockResumed, Ordinary
<1>8. CASE SchedYield
  BY <1>0, <1>3, <1>8, SetPrioritySound DEF SchedYield, PriorityChanged, OrdinaryMove
<1>9. ASSUME NEW t \in Task \ {IDLE}, NEW p \in PrioArg, pc[Self] = User,
             Goto(At("setparam", t, p))
      PROVE  OrdinaryMove
  BY <1>1, <1>9 DEF OrdinaryMove, Goto, Ordinary
<1>10. ASSUME NEW t \in Task \ {IDLE}, NEW p \in PrioArg, SchedSetParam(t, p)
       PROVE  SoleInv'
  BY <1>0, <1>3, <1>9, <1>10, Lock DEF SchedSetParam
<1>11. ASSUME NEW t \in Task \ {IDLE}, NEW p \in PrioArg, NEW rr \in BOOLEAN,
              SchedSetScheduler(t, p, rr)
       PROVE  SoleInv'
  <2>1. QuietStep(k, k')
    BY <1>0, <1>11, SetPolicy DEF SchedSetScheduler
  <2> QED  BY <1>3, <1>9, <1>11, <2>1 DEF SchedSetScheduler
<1>12. CASE Reprioritize
  <2> DEFINE t == pc[Self].who
             p == pc[Self].prio
  <2>1. t \in Task \ {IDLE} /\ pc[Self].at = "setparam"
    BY <1>0, <1>12 DEF Reprioritize, GoodCall, CallState
  <2>2. QuietStep(k, sched_setpriority(k, t, p))
    BY <1>0, <2>1, SetPrioritySound DEF PriorityChanged
  <2>3. QuietStep(k, k') /\ pids' = pids /\ Goto(At("setparam_unlock", IDLE, 0))
    BY <1>4, <1>12, <2>2 DEF Reprioritize
  <2> QED  BY <1>2, <1>3, <2>1, <2>3 DEF Ordinary
<1>13. ASSUME NEW s \in WaitState, Block(s)
       PROVE  SoleInv'
  <2>1. s \in BlockedState
    BY SchedulerAssumption
  <2>2. TaskBlocked(k, Self, s, k')
    BY <1>0, <1>13, <2>1, BlockTask DEF Block
  <2>3. \A u \in Task : k.state[u] = "INACTIVE" => k'.state[u] = "INACTIVE"
    BY <1>0, <2>2, InactiveStay DEF TaskBlocked
  <2> QED  BY <1>0, <1>13, <2>2, <2>3, SolePlain DEF Block, OrdinaryMove, TaskBlocked, SoundStep
<1>14. ASSUME NEW t \in Task, Unblock(t)
       PROVE  SoleInv'
  <2>1. k.state[t] \in BlockedState /\ k.state[t] # "INACTIVE"
    BY <1>14, SchedulerAssumption DEF Unblock
  <2>2. TaskWoken(k, t, k')
    BY <1>0, <1>14, <2>1, UnblockSound DEF Unblock
  <2>3. \A u \in Task : k.state[u] = "INACTIVE" => k'.state[u] = "INACTIVE"
    BY <2>1, <2>2, InactiveStay DEF TaskWoken
  <2> QED  BY <1>0, <1>14, <2>2, <2>3, SolePlain DEF Unblock, OrdinaryMove, TaskWoken, SoundStep
<1>15. CASE Tick
  BY <1>0, <1>3, <1>15, RoundRobin DEF Tick, OrdinaryMove
<1> QED  BY <1>5, <1>6, <1>7, <1>8, <1>10, <1>11, <1>12, <1>13, <1>14, <1>15
Managing == {"activate", "reactivate", "terminate", "exithook"}

\* While a manager runs, or the system boots, nobody else is creating,
\* restarting or deleting a task.
LEMMA Alone ==
  ASSUME SoleManager, SoleInv, Self \in Manager \/ pc[IDLE].at \in {"bringup", "activate"}
  PROVE  /\ \A u \in Task \ {Self} : pc[u].at \notin Managing
         /\ Self \in Manager =>
              pc[IDLE].at \notin {"bringup", "activate"} /\ Self # IDLE
<1>1. Self \in Manager => pc[IDLE].at \notin {"bringup", "activate"} /\ Self # IDLE
  BY BootRuns, SchedulerAssumption
<1>2. CASE Self \in Manager
  BY <1>1, <1>2 DEF SoleManager, SoleInv, CallersManage, Managing
<1>3. CASE pc[IDLE].at \in {"bringup", "activate"}
  <2>1. Self = IDLE /\ User.at = "user"
    BY <1>3, BootRuns DEF User, At
  <2> QED  BY <1>1, <1>3, <2>1 DEF SoleInv, BootFirst, Managing
<1> QED  BY <1>1, <1>2, <1>3

\* A task that is at one of these places is a manager, or the idle task at boot.
LEMMA ManagerRuns ==
  ASSUME SoleInv, pc[Self].at \in Managing
  PROVE  Self \in Manager \/ (Self = IDLE /\ pc[IDLE].at = "activate")
<1>1. Self \in Task
  BY SelfRuns DEF SoleInv
<1> QED  BY <1>1 DEF SoleInv, CallersManage, Managing

\* The pc of the running task moves to x while it is alone.
LEMMA SoleMove ==
  ASSUME SoleManager, SoleInv, Inv', NEW x \in CallState,
         Self \in Manager \/ pc[IDLE].at \in {"bringup", "activate"},
         \A u \in Task \ {Self} : pc'[u] = pc[u] \/ pc'[u] = User,
         pc'[Self] = x, x.at # "bringup",
         Self # IDLE => Self \in Manager,
         Self = IDLE => \/ x.at = "user"
                        \/ x.at = "activate" /\ pids' = {IDLE, x.who} /\ pc[IDLE].at = "bringup",
         x.at \in {"activate", "reactivate"} => k'.state[x.who] = "INACTIVE",
         \A t \in pids' : k'.state[t] = "INVALID" => x.at = "exithook" /\ x.who = t
  PROVE  SoleInv'
<1>0. /\ User.at = "user" /\ Self \in Task /\ IDLE \in Task
      /\ \A u \in Task \ {Self} : pc[u].at \notin Managing
      /\ Self \in Manager => pc[IDLE].at \notin {"bringup", "activate"} /\ Self # IDLE
  BY Alone, SelfRuns, KernelAssumption DEF User, At, SoleInv
<1>1. \A u \in Task \ {Self} : pc'[u].at \notin Managing
  BY <1>0 DEF Managing
<1>2. CallersManage'
  BY <1>0, <1>1 DEF CallersManage, Managing
<1>3. BootFirst'
  <2>1. \A u \in Task \ {Self} : pc'[u].at = "bringup" => pc[u].at = "bringup"
    BY <1>0
  <2>2. \A u \in Task : pc'[u].at = "bringup" => u = IDLE
    BY <2>1 DEF SoleInv, BootFirst
  <2>3. CASE Self # IDLE
    <3>1. pc'[IDLE].at \notin {"bringup", "activate"}
      BY <1>0, <2>3
    <3> QED  BY <2>2, <3>1 DEF BootFirst
  <2>4. CASE Self = IDLE
    <3>1. pc'[IDLE] = x
      BY <2>4
    <3>2. pc[IDLE].at = "bringup" => \A u \in Task \ {IDLE} : pc'[u] = User
      BY <2>4 DEF SoleInv, BootFirst
    <3> QED  BY <2>2, <2>4, <3>1, <3>2 DEF BootFirst
  <2> QED  BY <2>3, <2>4
<1>4. ActivatesInactive'
  BY <1>1 DEF ActivatesInactive, Managing
<1>5. InvalidExits'
  BY <1>0 DEF InvalidExits
<1> QED  BY <1>2, <1>3, <1>4, <1>5 DEF SoleInv

\* No task with a pid is off the lists, unless the running manager is deleting it.
LEMMA SoleListed ==
  ASSUME SoleManager, SoleInv, Self \in Manager \/ pc[IDLE].at \in {"bringup", "activate"},
         NEW t \in pids, k.state[t] = "INVALID"
  PROVE  pc[Self].at = "exithook" /\ pc[Self].who = t
<1>1. \A u \in Task \ {Self} : pc[u].at \notin Managing
  BY Alone
<1>2. PICK u \in Task : pc[u].at = "exithook" /\ pc[u].who = t
  BY DEF SoleInv, InvalidExits
<1> QED  BY <1>1, <1>2 DEF Managing

\* task_create and task_activate.
LEMMA SoleCreate ==
  ASSUME SoleManager, SoleInv, NEW t \in Task \ {IDLE}, NEW p \in InitPrio, TaskCreate(t, p)
  PROVE  SoleInv'
<1> DEFINE q == IF t \in RRTask THEN k.rr \union {t} ELSE k.rr
           n == IF t \in RRTask THEN RR_TICKS ELSE 0
           c == NewTcb(k, t, p, q, n)
           x == At("activate", t, 0)
<1>0. Inv /\ Inv' /\ Sound(k) /\ pids \subseteq Task
  BY CreateInv DEF SoleInv, Inv, PidsCover
<1>1. k' = AddInactive(c, t) /\ t \notin pids /\ pids' = pids \union {t} /\ pc' = [pc EXCEPT ![Self] = x]
  BY DEF TaskCreate, Goto, NewTcb
<1>2. q \in SUBSET Task /\ IDLE \notin q /\ n \in 0..RR_TICKS /\ p \in Priority
  BY <1>0, SelfRuns, SchedulerAssumption, KernelAssumption DEF KernelState
<1>3. k.state[t] = "INVALID"
  BY <1>0, <1>1 DEF Inv, PidsCover
<1> HIDE DEF q, n
<1>4. MadeInactive(k, t, AddInactive(c, t))
  BY <1>0, <1>2, <1>3, CreateSound
<1> HIDE DEF c
<1>5. k'.state = [k.state EXCEPT ![t] = "INACTIVE"]
  BY <1>1, <1>4 DEF MadeInactive
<1>6. x \in CallState /\ x.at = "activate" /\ x.who = t
  BY CallPlaces DEF Label, At
<1>7. Self \in Task /\ pc \in [Task -> CallState] /\ k.state \in [Task -> TaskState]
  BY <1>0, SelfRuns
<1>8. (pc[Self].at = "bringup" /\ Self = IDLE) \/ (pc[Self] = User /\ Self \in Manager)
  BY <1>7 DEF TaskCreate, SoleInv, BootFirst
<1>9. pc[Self].at # "exithook"
  BY <1>8 DEF User, At
<1> HIDE DEF x
<1>10. \A u \in pids' : k'.state[u] # "INVALID"
  <2>1. \A u \in pids : k.state[u] # "INVALID"
    BY <1>8, <1>9, SoleListed
  <2> QED  BY <1>0, <1>1, <1>5, <1>7, <2>1
<1>11. Self = IDLE => pids' = {IDLE, t} /\ pc[IDLE].at = "bringup"
  <2>1. Self = IDLE => pc[IDLE].at = "bringup"
    BY <1>8, SchedulerAssumption
  <2> QED  BY <1>1, <2>1 DEF SoleInv, BootFirst
<1>12. pc'[Self] = x /\ \A u \in Task \ {Self} : pc'[u] = pc[u]
  BY <1>1, <1>6, <1>7
<1>13. k'.state[x.who] = "INACTIVE" /\ x.at # "bringup"
  BY <1>5, <1>6, <1>7
<1> QED  BY <1>0, <1>6, <1>8, <1>10, <1>11, <1>12, <1>13, SoleMove

\* task_activate, with nobody else creating, restarting or deleting.
LEMMA SoleActivate ==
  ASSUME SoleManager, SoleInv, TaskActivate
  PROVE  SoleInv'
<1> DEFINE t == pc[Self].who
<1>0. Inv /\ Inv' /\ Sound(k) /\ pids \subseteq Task
  BY PlainCalls DEF SoleInv, Inv, PidsCover
<1>1. Self \in Task /\ pc \in [Task -> CallState] /\ t \in Task /\ User \in CallState /\ User.at = "user"
  BY <1>0, SelfRuns, CallPlaces DEF CallState, User, At
<1>2. pc[Self].at \in {"activate", "reactivate"} /\ pids' = pids /\ pc' = [pc EXCEPT ![Self] = User]
  BY DEF TaskActivate, Goto
<1>3. TaskWoken(k, t, k')
  BY <1>0, <1>1, UnblockSound DEF TaskActivate
<1>4. Self \in Manager \/ (Self = IDLE /\ pc[IDLE].at = "activate")
  BY <1>2, ManagerRuns DEF Managing
<1>5. \A u \in pids' : k'.state[u] # "INVALID"
  <2>1. \A u \in pids : k.state[u] # "INVALID"
    BY <1>2, <1>4, SoleListed
  <2> QED  BY <1>0, <1>2, <1>3, <2>1 DEF TaskWoken, SoundStep, SameListed
<1>6. pc'[Self] = User /\ \A u \in Task \ {Self} : pc'[u] = pc[u]
  BY <1>1, <1>2
<1> QED  BY <1>0, <1>1, <1>4, <1>5, <1>6, SoleMove

\* The critical section of task_restart.
LEMMA SoleRestart ==
  ASSUME SoleManager, SoleInv, NEW t \in Task, TaskRestart(t)
  PROVE  SoleInv'
<1> DEFINE x == At("reactivate", t, 0)
<1>0. Inv /\ Inv' /\ Sound(k) /\ pids \subseteq Task
  BY RestartInv DEF SoleInv, Inv, PidsCover
<1>1. /\ t \in Task \ {IDLE, Self} /\ k.state[t] # "INVALID" /\ k' = Restarted(k, t)
      /\ pc' = [pc EXCEPT ![t] = User, ![Self] = x] /\ pids' = pids
      /\ pc[Self] = User /\ Self \in Manager
  BY DEF TaskRestart, Known
<1>2. Removable(k, t)
  BY <1>0, <1>1 DEF Removable, Sound, Self
<1>3. k'.state = [k.state EXCEPT ![t] = "INACTIVE"]
  BY <1>0, <1>1, <1>2, RestartSound DEF MadeInactive
<1>4. x \in CallState /\ x.at = "reactivate" /\ x.who = t
  BY CallPlaces DEF Label, At
<1>5. Self \in Task /\ pc \in [Task -> CallState] /\ k.state \in [Task -> TaskState]
  BY <1>0, SelfRuns
<1> HIDE DEF x
<1>6. /\ pc'[Self] = x
      /\ \A u \in Task \ {Self} : pc'[u] = pc[u] \/ pc'[u] = User
  BY <1>1, <1>5
<1>7. \A u \in pids' : k'.state[u] # "INVALID"
  <2>1. User.at # "exithook"
    BY DEF User, At
  <2>2. \A u \in pids : k.state[u] # "INVALID"
    BY <1>1, <2>1, SoleListed
  <2> QED  BY <1>0, <1>1, <1>3, <1>5, <2>2
<1>8. k'.state[x.who] = "INACTIVE" /\ Self # IDLE
  BY <1>1, <1>3, <1>4, <1>5, SchedulerAssumption
<1> QED  BY <1>0, <1>1, <1>4, <1>6, <1>7, <1>8, SoleMove

\* task_delete, and the two critical sections of task_terminate.
LEMMA SoleDelete ==
  ASSUME SoleManager, SoleInv,
         (\E t \in Task : TaskDelete(t)) \/ TaskTerminate \/ TaskRelease
  PROVE  SoleInv'
<1>0. Inv /\ Inv' /\ Sound(k) /\ pids \subseteq Task
  BY DeleteInv, TerminateInv, ReleaseInv DEF SoleInv, Inv, PidsCover
<1>1. /\ Self \in Task /\ pc \in [Task -> CallState] /\ k.state \in [Task -> TaskState]
      /\ User \in CallState /\ User.at = "user" /\ GoodCall(Self, pc[Self])
  BY <1>0, SelfRuns, CallPlaces DEF User, At
<1>2. Self \in Manager /\ Self # IDLE
  BY ManagerRuns, SchedulerAssumption DEF TaskDelete, TaskTerminate, TaskRelease, Managing
<1>3. ASSUME NEW t \in Task, TaskDelete(t)
      PROVE  SoleInv'
  <2> DEFINE x == At("terminate", t, 0)
  <2>1. pc[Self] = User /\ pc' = [pc EXCEPT ![Self] = x] /\ k' = k /\ pids' = pids
    BY <1>3 DEF TaskDelete, Goto
  <2>2. x \in CallState /\ x.at = "terminate"
    BY CallPlaces DEF Label, At
  <2> HIDE DEF x
  <2>3. pc'[Self] = x /\ \A u \in Task \ {Self} : pc'[u] = pc[u]
    BY <1>1, <2>1
  <2>4. \A u \in pids' : k'.state[u] # "INVALID"
    BY <1>1, <1>2, <2>1, SoleListed
  <2> QED  BY <1>0, <1>2, <2>2, <2>3, <2>4, SoleMove
<1>4. CASE TaskTerminate
  <2> DEFINE t == pc[Self].who
             x == At("exithook", t, 0)
  <2>1. pc[Self].at = "terminate" /\ pids' = pids /\ t \in Task \ {IDLE, Self}
    BY <1>1, <1>4 DEF TaskTerminate, GoodCall, CallState
  <2>2. \A u \in pids : k.state[u] # "INVALID"
    BY <1>2, <2>1, SoleListed
  <2>3. CASE k' = k /\ pc' = [pc EXCEPT ![Self] = User]
    <3>1. pc'[Self] = User /\ \A u \in Task \ {Self} : pc'[u] = pc[u]
      BY <1>1, <2>3
    <3> QED  BY <1>0, <1>1, <1>2, <2>1, <2>2, <2>3, <3>1, SoleMove
  <2>4. CASE k.state[t] # "INVALID" /\ k' = TakeOffList(k, t) /\ pc' = [pc EXCEPT ![Self] = x]
    <3>1. Removable(k, t)
      BY <1>0, <2>1, <2>4 DEF Removable, Sound, Self
    <3>2. k'.state = [k.state EXCEPT ![t] = "INVALID"]
      BY <1>0, <2>4, <3>1, TakeOffSound DEF TakenOff
    <3>3. x \in CallState /\ x.at = "exithook" /\ x.who = t
      BY <2>1, CallPlaces DEF Label, At
    <3> HIDE DEF x, t
    <3>4. pc'[Self] = x /\ \A u \in Task \ {Self} : pc'[u] = pc[u]
      BY <1>1, <2>4
    <3>5. \A u \in pids' : k'.state[u] = "INVALID" => u = t
      BY <1>0, <1>1, <2>1, <2>2, <3>2
    <3> QED  BY <1>0, <1>2, <3>3, <3>4, <3>5, SoleMove
  <2> QED  BY <1>4, <2>3, <2>4 DEF TaskTerminate, Goto
<1>5. CASE TaskRelease
  <2> DEFINE t == pc[Self].who
  <2>1. /\ pc[Self].at = "exithook" /\ k' = sched_releasetcb(k, t) /\ pids' = pids \ {t}
        /\ pc' = [pc EXCEPT ![t] = User, ![Self] = User]
    BY <1>5 DEF TaskRelease, sched_releasepid
  <2>2. t \in Task \ {IDLE} /\ k.state[t] = "INVALID"
    BY <1>0, <1>1, <2>1 DEF GoodCall, CallState, Inv, ExitsPending
  <2>3. k'.state = k.state
    BY <1>0, <2>1, <2>2, ReleaseTcb DEF Sound
  <2>4. pc'[Self] = User /\ \A u \in Task \ {Self} : pc'[u] = pc[u] \/ pc'[u] = User
    BY <1>1, <2>1
  <2>5. \A u \in pids' : k'.state[u] # "INVALID"
    BY <1>2, <2>1, <2>3, SoleListed
  <2> QED  BY <1>0, <1>1, <1>2, <2>4, <2>5, SoleMove
<1> QED  BY <1>3, <1>4, <1>5

\* _exit leaves the inactive tasks and the calls of the manager alone.
LEMMA SoleExit ==
  ASSUME SoleInv, NEW W \in ExitWakes, TaskExit(W)
  PROVE  SoleInv'
<1>0. Inv /\ Inv' /\ Sound(k) /\ pids \subseteq Task /\ \A u \in Task : pc[u].who \in Task
  BY ExitInv DEF SoleInv, Inv, PidsCover, GoodCalls, CallState
<1>1. /\ Self # IDLE /\ k' = task_exit(k, W) /\ pids' = pids \ {Self}
      /\ pc' = [pc EXCEPT ![Self] = User] /\ pc[Self] = User
  BY DEF TaskExit, sched_releasepid, Goto
<1>2. \A w \in W : w \in Task /\ k.state[w] = "WAIT_SEM"
  BY DEF ExitWakes
<1>3. /\ \A u \in Task : k'.state[u] = "INVALID" <=> u = Self \/ k.state[u] = "INVALID"
      /\ SameBlocked(k, k', W \union {Self})
  BY <1>0, <1>1, <1>2, ExitSound DEF Self
<1>4. /\ Self \in Task /\ k.state[Self] = "RUNNING" /\ pc \in [Task -> CallState] /\ User.at = "user"
  BY <1>0, SelfRuns DEF User, At
<1>5. \A u \in Task : k.state[u] = "INACTIVE" => k'.state[u] = "INACTIVE"
  BY <1>2, <1>3, <1>4, InactiveStay
<1>6. pc' = pc
  BY <1>1, <1>4
<1>7. pc[IDLE].at \notin {"bringup", "activate"}
  BY <1>1, BootRuns
<1>8. CallersManage' /\ BootFirst'
  BY <1>6, <1>7 DEF SoleInv, CallersManage, BootFirst
<1>9. ActivatesInactive'
  BY <1>0, <1>5, <1>6 DEF SoleInv, ActivatesInactive
<1>10. InvalidExits'
  BY <1>0, <1>1, <1>3, <1>6 DEF SoleInv, InvalidExits
<1> QED  BY <1>0, <1>8, <1>9, <1>10 DEF SoleInv

\* Every step of an instance with one manager preserves its invariant.
LEMMA SoleNext ==
  ASSUME SoleManager, SoleInv, [Next]_vars
  PROVE  SoleInv'
<1>1. CASE UNCHANGED vars
  <2>1. Inv'
    BY <1>1, NextInv DEF SoleInv
  <2> QED  BY <1>1, <2>1 DEF vars, SoleInv, CallersManage, BootFirst, ActivatesInactive, InvalidExits
<1>2. CASE AppCall
  BY <1>2, SolePlainCalls, SoleRestart, SoleDelete, SoleExit DEF AppCall
<1>3. CASE UnlockResumed \/ Reprioritize \/ SetParamUnlock \/ Tick \/ \E t \in Task : Unblock(t)
  BY <1>3, SolePlainCalls
<1>4. CASE TaskActivate \/ TaskTerminate \/ TaskRelease
  BY <1>4, SoleActivate, SoleDelete
<1> QED  BY <1>1, <1>2, <1>3, <1>4, SoleCreate DEF Next

\* The system boots with no call under way.
LEMMA SoleInit == Init => SoleInv
<1> SUFFICES ASSUME Init PROVE SoleInv
  OBVIOUS
<1>1. Inv /\ pids = {IDLE} /\ IDLE \in Task
  BY InitInv, KernelAssumption DEF Init
<1>2. pc[IDLE].at = "bringup" /\ \A u \in Task \ {IDLE} : pc[u] = User /\ pc[u].at = "user"
  BY <1>1 DEF Init, At, User
<1>3. CallersManage /\ BootFirst /\ ActivatesInactive
  BY <1>1, <1>2 DEF CallersManage, BootFirst, ActivatesInactive
<1>4. InvalidExits
  BY <1>1 DEF InvalidExits, Inv, Sound, Consistent, IdleReady
<1> QED  BY <1>1, <1>3, <1>4 DEF SoleInv

\* The inductive invariant of an instance with one manager.
LEMMA SoleInvariance ==
  ASSUME SoleManager
  PROVE  Spec => []SoleInv
<1>1. SoleInv /\ [Next]_vars => SoleInv'
  BY SoleNext
<1> QED  BY <1>1, SoleInit, PTL DEF Spec

\* task_activate always finds its task blocked, if one task manages the others.
THEOREM ActivatesBlockedTaskAlways ==
  ASSUME SoleManager
  PROVE  Spec => []ActivatesBlockedTask
<1>1. SoleInv => ActivatesBlockedTask
  BY DEF SoleInv, ActivatesInactive, ActivatesBlockedTask, BlockedState
<1> QED  BY <1>1, SoleInvariance, PTL

\* task_terminate always finds its task on a list, if one task manages the others.
THEOREM TerminatesListedTaskAlways ==
  ASSUME SoleManager
  PROVE  Spec => []TerminatesListedTask
<1>1. SoleInv => TerminatesListedTask
  <2> SUFFICES ASSUME SoleInv, NEW t \in Task, pc[t].at = "terminate", pc[t].who \in pids,
                      k.state[pc[t].who] = "INVALID"
               PROVE  FALSE
    BY DEF TerminatesListedTask
  <2>1. PICK u \in Task : pc[u].at = "exithook" /\ pc[u].who = pc[t].who
    BY DEF SoleInv, InvalidExits
  <2>2. t \in Manager /\ u \in Manager
    BY <2>1 DEF SoleInv, CallersManage
  <2> QED  BY <2>1, <2>2 DEF SoleManager
<1> QED  BY <1>1, SoleInvariance, PTL

-----------------------------------------------------------------------------
\* In the list l tasks of equal priority are in the order A.
Fifo(l, prio, A) ==
  \A i, j \in 1..Len(l) : i < j /\ prio[l[i]] = prio[l[j]] => <<l[i], l[j]>> \in A

\* m is l without some of its tasks.
Sublist(m, l) ==
  /\ \A i \in 1..Len(m) : \E x \in 1..Len(l) : m[i] = l[x]
  /\ \A i, j \in 1..Len(m) : i < j => \E x, y \in 1..Len(l) : x < y /\ m[i] = l[x] /\ m[j] = l[y]

\* dq_rem leaves the other tasks in their order.
LEMMA RemovalKeepsOrder ==
  ASSUME NEW l, NEW S, Lists(l, S), NEW t \in S, S \subseteq Task
  PROVE  Sublist(dq_rem(t, l), l)
<1> DEFINE i == CHOOSE n \in 1..Len(l) : l[n] = t
           m == dq_rem(t, l)
<1>1. Len(l) \in Nat
  BY LenProperties DEF Lists
<1>2. i \in 1..Len(l) /\ l[i] = t
  BY DEF Lists, InList
<1>3. m = [n \in 1..(Len(l) - 1) |-> IF n < i THEN l[n] ELSE l[n + 1]]
  BY DEF dq_rem
<1>4. Len(m) = Len(l) - 1
  BY Removal
<1> HIDE DEF i, m
<1> DEFINE f(n) == IF n < i THEN n ELSE n + 1
<1>5. \A n \in 1..Len(m) : f(n) \in 1..Len(l) /\ m[n] = l[f(n)]
  BY <1>1, <1>2, <1>3, <1>4
<1>6. \A n, o \in 1..Len(m) : n < o => f(n) < f(o)
  BY <1>1, <1>2, <1>4
<1> HIDE DEF f
<1>7. Sublist(m, l)
  BY <1>5, <1>6 DEF Sublist
<1> QED  BY <1>7 DEF m

\* Tasks that become fewer, or whose order is recorded anew, stay in order.
LEMMA SublistFifo ==
  ASSUME NEW l, NEW m, Sublist(m, l), NEW prio, NEW q, NEW A, NEW B, Fifo(l, prio, A),
         \A i \in 1..Len(m) : q[m[i]] = prio[m[i]],
         \A i, j \in 1..Len(m) : <<m[i], m[j]>> \in A => <<m[i], m[j]>> \in B
  PROVE  Fifo(m, q, B)
<1> SUFFICES ASSUME NEW i \in 1..Len(m), NEW j \in 1..Len(m), i < j, q[m[i]] = q[m[j]]
             PROVE  <<m[i], m[j]>> \in B
  BY DEF Fifo
<1>1. PICK x, y \in 1..Len(l) : x < y /\ m[i] = l[x] /\ m[j] = l[y]
  BY DEF Sublist
<1>2. prio[l[x]] = prio[l[y]]
  BY <1>1
<1>3. <<l[x], l[y]>> \in A
  BY <1>1, <1>2 DEF Fifo
<1> QED  BY <1>1, <1>3

\* A list is a part of itself.
LEMMA SublistItself ==
  ASSUME NEW l
  PROVE  Sublist(l, l)
BY DEF Sublist

\* sched_addprioritized puts a task behind its equals.
LEMMA InsertionFifo ==
  ASSUME NEW l, NEW S, NEW prio, NEW t, Insertable(l, S, prio, t), NEW A, Fifo(l, prio, A),
         \A i \in 1..Len(l) : <<l[i], t>> \in A
  PROVE  Fifo(AddPrioritized(l, prio, t), prio, A)
<1> DEFINE m == AddPrioritized(l, prio, t)
           p == InsertPos(l, prio, prio[t])
<1>0. Lists(l, S) /\ prio \in PrioFcn /\ Sorted(l, prio) /\ t \in Task \ S
  BY DEF Insertable
<1>1. l \in Seq(Task) /\ Len(l) \in Nat /\ l \in [1..Len(l) -> Task]
  BY <1>0, LenProperties DEF Lists
<1>2. prio[t] \in Nat /\ \A n \in 1..Len(l) : prio[l[n]] \in Nat
  BY <1>0, <1>1, KernelAssumption DEF PrioFcn
<1>3. p \in 1..(Len(l) + 1) /\ (p <= Len(l) => prio[l[p]] < prio[t])
  BY <1>0, <1>1, <1>2, InsertPosFound
<1>4. m = InsertAtPos(l, p, t)
  BY DEF AddPrioritized
<1> HIDE DEF m, p
<1>5. Len(m) = Len(l) + 1
  <2>1. p \in 1..(Len(l) + 1)
    BY <1>3
  <2> QED  BY <1>0, <1>4, <2>1, Insertion, Zenon
<1>6. \A n \in 1..Len(m) : m[n] = IF n < p THEN l[n] ELSE IF n = p THEN t ELSE l[n - 1]
  BY <1>4, <1>5 DEF InsertAtPos
<1>7. ASSUME NEW i \in 1..Len(m), NEW j \in 1..Len(m), i < j, prio[m[i]] = prio[m[j]]
      PROVE  <<m[i], m[j]>> \in A
  <2>1. CASE j = p
    <3>1. m[j] = t /\ i \in 1..Len(l) /\ m[i] = l[i]
      BY <1>1, <1>3, <1>5, <1>6, <1>7, <2>1
    <3> QED  BY <3>1
  <2>2. CASE i = p
    <3>1. m[i] = t /\ j - 1 \in 1..Len(l) /\ m[j] = l[j - 1] /\ p <= Len(l) /\ p <= j - 1 /\ p \in 1..Len(l)
      BY <1>1, <1>3, <1>5, <1>6, <1>7, <2>2
    <3>2. prio[l[p]] >= prio[l[j - 1]]
      BY <1>0, <1>2, <3>1 DEF Sorted
    <3>3. prio[l[p]] < prio[t] /\ prio[l[p]] \in Nat /\ prio[l[j - 1]] \in Nat /\ prio[t] \in Nat
      BY <1>2, <1>3, <3>1
    <3>4. prio[t] = prio[l[j - 1]]
      BY <1>7, <3>1
    <3> QED  BY ONLY <3>2, <3>3, <3>4
  <2>3. CASE i # p /\ j # p
    <3> DEFINE a == IF i < p THEN i ELSE i - 1
               b == IF j < p THEN j ELSE j - 1
    <3>1. a \in 1..Len(l) /\ b \in 1..Len(l) /\ a < b
      BY <1>1, <1>3, <1>5, <1>7, <2>3
    <3>2. m[i] = l[a] /\ m[j] = l[b]
      BY <1>6, <2>3
    <3> HIDE DEF a, b
    <3> QED  BY <1>7, <3>1, <3>2 DEF Fifo
  <2> QED  BY <2>1, <2>2, <2>3
<1>8. Fifo(m, prio, A)
  BY <1>7 DEF Fifo
<1> QED  BY <1>8 DEF m

\* Every pending task is more urgent than every ready one.
Above(P, R, prio) == \A i \in 1..Len(P), j \in 1..Len(R) : prio[P[i]] > prio[R[j]]

\* sched_mergepending keeps the order of both lists.
LEMMA MergeFifo ==
  ASSUME NEW P, NEW R, NEW S, NEW T, NEW prio, MergeInput(P, R, S, T, prio), NEW A,
         Fifo(P, prio, A), Fifo(R, prio, A), Above(P, R, prio)
  PROVE  Fifo(Merged(P, R, prio), prio, A)
<1> DEFINE L == Merged(P, R, prio)
           N == Len(P)
           M == Len(R)
           pos == Positions(P, R, prio)
<1>1. /\ N \in Nat /\ M \in Nat /\ Places(pos, N, M)
      /\ \A i \in 1..N : prio[P[i]] \in Nat
      /\ \A j \in 1..M : prio[R[j]] \in Nat
  BY PositionsIncrease DEF Places
<1>2. Len(L) = N + M
  BY MergeLists DEF MergeOutput
<1>3. /\ \A m \in 1..(N + M), i \in 1..N : FromPending(pos, N, m, i) => L[m] = P[i]
      /\ \A m \in 1..(N + M), j \in 1..M : FromReady(pos, N, M, m, j) => L[m] = R[j]
  BY MergedPlaces
<1>4. \A m \in 1..(N + M) : \/ \E i \in 1..N : FromPending(pos, N, m, i)
                            \/ \E j \in 1..M : FromReady(pos, N, M, m, j)
  BY <1>1, PlacesFilled
<1>5. \A i \in 1..N, j \in 1..M : prio[P[i]] # prio[R[j]]
  BY <1>1 DEF Above
<1>6. ASSUME NEW n \in 1..Len(L), NEW o \in 1..Len(L), n < o, prio[L[n]] = prio[L[o]]
      PROVE  <<L[n], L[o]>> \in A
  <2>1. n \in 1..(N + M) /\ o \in 1..(N + M) /\ n \in Int /\ o \in Int
    BY <1>2
  <2>2. /\ \A i, j \in 1..N : FromPending(pos, N, n, i) /\ FromPending(pos, N, o, j) /\ n < o => i < j
        /\ \A i, j \in 1..M : FromReady(pos, N, M, n, i) /\ FromReady(pos, N, M, o, j) /\ n < o => i < j
    BY <1>1, <2>1, PlacesOrdered
  <2> HIDE DEF L, N, M, pos
  <2>3. CASE \E i, j \in 1..N : FromPending(pos, N, n, i) /\ FromPending(pos, N, o, j)
    <3>1. PICK i, j \in 1..N : FromPending(pos, N, n, i) /\ FromPending(pos, N, o, j)
      BY <2>3
    <3>2. L[n] = P[i] /\ L[o] = P[j] /\ i < j
      BY <1>3, <1>6, <2>1, <2>2, <3>1
    <3> QED  BY <1>6, <3>2 DEF Fifo, N
  <2>4. CASE \E i, j \in 1..M : FromReady(pos, N, M, n, i) /\ FromReady(pos, N, M, o, j)
    <3>1. PICK i, j \in 1..M : FromReady(pos, N, M, n, i) /\ FromReady(pos, N, M, o, j)
      BY <2>4
    <3>2. L[n] = R[i] /\ L[o] = R[j] /\ i < j
      BY <1>3, <1>6, <2>1, <2>2, <3>1
    <3> QED  BY <1>6, <3>2 DEF Fifo, M
  <2>5. CASE \E i \in 1..N, j \in 1..M : FromPending(pos, N, n, i) /\ FromReady(pos, N, M, o, j)
    BY <1>3, <1>5, <1>6, <2>1, <2>5
  <2>6. CASE \E i \in 1..N, j \in 1..M : FromPending(pos, N, o, i) /\ FromReady(pos, N, M, n, j)
    BY <1>3, <1>5, <1>6, <2>1, <2>6
  <2> QED  BY <1>4, <2>1, <2>3, <2>4, <2>5, <2>6
<1> HIDE DEF L
<1>7. Fifo(L, prio, A)
  BY <1>6 DEF Fifo
<1> QED  BY <1>7 DEF L

-----------------------------------------------------------------------------
\* Tasks of equal priority are in the order A on g_readytorun and on
\* g_pendingtasks, and no pending task has an equal on g_readytorun.
InOrder(kk, A) ==
  /\ Fifo(kk.list["READYTORUN"], kk.prio, A)
  /\ Fifo(kk.list["PENDING"], kk.prio, A)
  /\ Above(kk.list["PENDING"], kk.list["READYTORUN"], kk.prio)

\* The operation adds no task to the two lists and leaves the others in order.
Thins(kk, a) == \A l \in {"READYTORUN", "PENDING"} : Sublist(a.list[l], kk.list[l])

\* A part of a part of a list is a part of it.
LEMMA SublistChain ==
  ASSUME NEW l, NEW m, NEW o, Sublist(m, l), Sublist(o, m)
  PROVE  Sublist(o, l)
<1>1. \A i \in 1..Len(o) : \E x \in 1..Len(l) : o[i] = l[x]
  BY DEF Sublist
<1>2. ASSUME NEW i \in 1..Len(o), NEW j \in 1..Len(o), i < j
      PROVE  \E x, y \in 1..Len(l) : x < y /\ o[i] = l[x] /\ o[j] = l[y]
  <2>1. PICK p, q \in 1..Len(m) : p < q /\ o[i] = m[p] /\ o[j] = m[q]
    BY <1>2 DEF Sublist
  <2>2. PICK x, y \in 1..Len(l) : x < y /\ m[p] = l[x] /\ m[q] = l[y]
    BY <2>1 DEF Sublist
  <2> QED  BY <2>1, <2>2
<1> QED  BY <1>1, <1>2 DEF Sublist

\* Two such operations make one.
LEMMA ThinsChain ==
  ASSUME NEW kk, NEW b, NEW a, Thins(kk, b), Thins(b, a)
  PROVE  Thins(kk, a)
<1> SUFFICES ASSUME NEW l \in {"READYTORUN", "PENDING"} PROVE Sublist(a.list[l], kk.list[l])
  BY DEF Thins
<1>1. Sublist(b.list[l], kk.list[l]) /\ Sublist(a.list[l], b.list[l])
  BY DEF Thins
<1> QED  BY ONLY <1>1, SublistChain

\* The members of the two lists are the runnable tasks.
LEMMA OnQueue ==
  ASSUME NEW kk, Consistent(kk), NEW l \in {"READYTORUN", "PENDING"}, NEW i \in 1..Len(kk.list[l])
  PROVE  LET t == kk.list[l][i] IN
         t \in Task /\ t \in Runnable(kk) /\ TLIST_HEAD(kk.state[t]) = l /\ kk.prio[t] \in Nat
<1> DEFINE t == kk.list[l][i]
<1>1. Lists(kk.list[l], On(kk, l)) /\ kk.prio \in [Task -> 0..SCHED_PRIORITY_MAX]
  BY DEF Consistent, ListsHold, ListName, KernelState
<1>2. t \in Task
  BY <1>1, ElementOfSeq DEF Lists
<1>3. t \in On(kk, l)
  BY <1>1, <1>2 DEF Lists, InList
<1>4. kk.prio[t] \in Nat
  BY <1>1, <1>2, KernelAssumption
<1> QED  BY <1>2, <1>3, <1>4 DEF On, Runnable, TLIST_HEAD

\* Fewer tasks of the same priorities are in order, whatever is recorded about
\* the others.
LEMMA ThinsInOrder ==
  ASSUME NEW kk, NEW a, Consistent(a), Thins(kk, a), NEW A, NEW B, InOrder(kk, A),
         \A t \in Runnable(a) : a.prio[t] = kk.prio[t],
         \A u, v \in Runnable(a) : <<u, v>> \in A => <<u, v>> \in B
  PROVE  InOrder(a, B)
<1>1. ASSUME NEW l \in {"READYTORUN", "PENDING"}
      PROVE  Fifo(a.list[l], a.prio, B)
  <2>1. Sublist(a.list[l], kk.list[l]) /\ Fifo(kk.list[l], kk.prio, A)
    BY DEF Thins, InOrder
  <2>2. \A i \in 1..Len(a.list[l]) : a.list[l][i] \in Runnable(a)
    BY OnQueue
  <2> QED  BY <2>1, <2>2, SublistFifo
<1>2. Above(a.list["PENDING"], a.list["READYTORUN"], a.prio)
  <2> SUFFICES ASSUME NEW i \in 1..Len(a.list["PENDING"]), NEW j \in 1..Len(a.list["READYTORUN"])
               PROVE  a.prio[a.list["PENDING"][i]] > a.prio[a.list["READYTORUN"][j]]
    BY DEF Above
  <2>1. a.list["PENDING"][i] \in Runnable(a) /\ a.list["READYTORUN"][j] \in Runnable(a)
    BY OnQueue
  <2>2. PICK x \in 1..Len(kk.list["PENDING"]) : a.list["PENDING"][i] = kk.list["PENDING"][x]
    BY DEF Thins, Sublist
  <2>3. PICK y \in 1..Len(kk.list["READYTORUN"]) : a.list["READYTORUN"][j] = kk.list["READYTORUN"][y]
    BY DEF Thins, Sublist
  <2>4. kk.prio[kk.list["PENDING"][x]] > kk.prio[kk.list["READYTORUN"][y]]
    BY DEF InOrder, Above
  <2> QED  BY <2>1, <2>2, <2>3, <2>4
<1> QED  BY <1>1, <1>2 DEF InOrder

\* An operation that leaves the two lists alone.
LEMMA SameQueues ==
  ASSUME NEW kk, NEW a, a.list["READYTORUN"] = kk.list["READYTORUN"],
         a.list["PENDING"] = kk.list["PENDING"]
  PROVE  Thins(kk, a)
BY SublistItself DEF Thins

\* sched_removereadytorun
LEMMA RemoveReadyThins ==
  ASSUME NEW kk, NEW t, RemovableReady(kk, t)
  PROVE  Thins(kk, sched_removereadytorun(kk, t))
<1> DEFINE a == sched_removereadytorun(kk, t)
           R == kk.list["READYTORUN"]
<1>1. Lists(R, On(kk, "READYTORUN")) /\ t \in On(kk, "READYTORUN") /\ On(kk, "READYTORUN") \subseteq Task
  BY DEF RemovableReady, Consistent, ListsHold, ListName, On, TLIST_HEAD
<1>2. Sublist(dq_rem(t, R), R)
  BY <1>1, RemovalKeepsOrder
<1>3. kk \in KernelState /\ "READYTORUN" \in ListName /\ "PENDING" \in ListName
  BY DEF RemovableReady, Consistent, ListName
<1>4. a.list["READYTORUN"] = dq_rem(t, R)
  <2> DEFINE b == [kk EXCEPT !.list["READYTORUN"] = dq_rem(t, @), !.state[t] = "INVALID"]
  <2>1. b.list["READYTORUN"] = dq_rem(t, R)
    BY <1>3 DEF KernelState
  <2>2. [b EXCEPT !.state[this_task(b)] = "RUNNING"].list = b.list
    BY <1>3 DEF KernelState
  <2>3. a = b \/ a = [b EXCEPT !.state[this_task(b)] = "RUNNING"]
    BY DEF sched_removereadytorun
  <2> HIDE DEF a, b
  <2> QED  BY <2>1, <2>2, <2>3
<1>5. a.list["PENDING"] = kk.list["PENDING"]
  BY RemoveReady DEF RemovedReady
<1> HIDE DEF a
<1>6. Thins(kk, a)
  BY <1>2, <1>4, <1>5, SublistItself DEF Thins
<1> QED  BY <1>6 DEF a

\* task_terminate, task_restart and sched_removeblocked
LEMMA TakeOffThins ==
  ASSUME NEW kk, NEW t, Removable(kk, t)
  PROVE  Thins(kk, TakeOffList(kk, t))
<1> DEFINE a == TakeOffList(kk, t)
           l == TLIST_HEAD(kk.state[t])
           m == dq_rem(t, kk.list[l])
<1>1. /\ kk \in KernelState /\ kk.list \in [ListName -> Seq(Task)] /\ kk.state \in [Task -> TaskState]
      /\ l \in ListName /\ {"READYTORUN", "PENDING"} \subseteq ListName
  BY DEF Removable, Consistent, KernelState, ListName, TaskState, TLIST_HEAD
<1>2. Lists(kk.list[l], On(kk, l)) /\ t \in On(kk, l) /\ On(kk, l) \subseteq Task
  BY <1>1 DEF Removable, Consistent, ListsHold, On
<1>3. Sublist(m, kk.list[l])
  BY <1>2, RemovalKeepsOrder
<1>4. a.list = [kk.list EXCEPT ![l] = m]
  BY <1>1 DEF TakeOffList, KernelState
<1> HIDE DEF a, m, l
<1>5. \A q \in {"READYTORUN", "PENDING"} : a.list[q] = IF q = l THEN m ELSE kk.list[q]
  BY <1>1, <1>4
<1>6. Thins(kk, a)
  BY <1>3, <1>5, SublistItself DEF Thins
<1> QED  BY <1>6 DEF a

\* The order of the two lists, in terms of their members.
LEMMA AboveMembers ==
  ASSUME NEW P, NEW R, NEW S \in SUBSET Task, NEW T \in SUBSET Task, Lists(P, S), Lists(R, T), NEW prio
  PROVE  Above(P, R, prio) <=> \A u \in S, v \in T : prio[u] > prio[v]
<1>1. /\ \A i \in 1..Len(P) : P[i] \in S
      /\ \A j \in 1..Len(R) : R[j] \in T
  <2>1. ASSUME NEW i \in 1..Len(P) PROVE P[i] \in S
    <3>1. P[i] \in Task
      BY ElementOfSeq DEF Lists
    <3> QED  BY <3>1 DEF Lists, InList
  <2>2. ASSUME NEW j \in 1..Len(R) PROVE R[j] \in T
    <3>1. R[j] \in Task
      BY ElementOfSeq DEF Lists
    <3> QED  BY <3>1 DEF Lists, InList
  <2> QED  BY <2>1, <2>2
<1>2. /\ \A u \in S : \E i \in 1..Len(P) : P[i] = u
      /\ \A v \in T : \E j \in 1..Len(R) : R[j] = v
  BY DEF Lists, InList
<1> QED  BY <1>1, <1>2 DEF Above

\* What sched_addreadytorun does to the two lists.
LEMMA AddReadyLists ==
  ASSUME NEW kk, NEW t, Addable(kk, t), NEW a, a = sched_addreadytorun(kk, t),
         NEW P, P = kk.list["PENDING"], NEW R, R = kk.list["READYTORUN"]
  PROVE  \/ /\ kk.prio[this_task(kk)] < kk.prio[t]
            /\ a.list["PENDING"] = AddPrioritized(P, kk.prio, t)
            /\ a.list["READYTORUN"] = R
         \/ /\ kk.lock[this_task(kk)] > 0 => ~(kk.prio[this_task(kk)] < kk.prio[t])
            /\ a.list["PENDING"] = P
            /\ a.list["READYTORUN"] = AddPrioritized(R, kk.prio, t)
<1> DEFINE r == this_task(kk)
           b == sched_addprioritized(kk, t, "READYTORUN")
           c == sched_addprioritized(kk, t, "PENDING")
<1>1. kk \in KernelState /\ "READYTORUN" \in ListName /\ "PENDING" \in ListName
  BY DEF Addable, Consistent, ListName
<1>2. b.list["PENDING"] = P /\ b.list["READYTORUN"] = AddPrioritized(R, kk.prio, t)
  BY <1>1 DEF sched_addprioritized, KernelState
<1>3. c.list["PENDING"] = AddPrioritized(P, kk.prio, t) /\ c.list["READYTORUN"] = R
  BY <1>1 DEF sched_addprioritized, KernelState
<1>4. /\ [b EXCEPT !.state = [@ EXCEPT ![t] = "RUNNING", ![r] = "READYTORUN"]].list = b.list
      /\ [b EXCEPT !.state[t] = "READYTORUN"].list = b.list
      /\ [c EXCEPT !.state[t] = "PENDING"].list = c.list
  BY <1>1 DEF sched_addprioritized, KernelState
<1>5. CASE kk.lock[r] > 0 /\ kk.prio[r] < kk.prio[t]
  <2>1. a = [c EXCEPT !.state[t] = "PENDING"]
    BY <1>5 DEF sched_addreadytorun
  <2> HIDE DEF b, c
  <2> QED  BY <1>3, <1>4, <1>5, <2>1
<1>6. CASE ~(kk.lock[r] > 0 /\ kk.prio[r] < kk.prio[t])
  <2>1. \/ a = [b EXCEPT !.state = [@ EXCEPT ![t] = "RUNNING", ![r] = "READYTORUN"]]
        \/ a = [b EXCEPT !.state[t] = "READYTORUN"]
    BY <1>6 DEF sched_addreadytorun
  <2> HIDE DEF b, c
  <2> QED  BY <1>2, <1>4, <1>6, <2>1
<1> QED  BY <1>5, <1>6

\* sched_addreadytorun puts a task behind its equals, and a task that it does
\* not park on g_pendingtasks has no equal there.
LEMMA AddReadyInOrder ==
  ASSUME NEW kk, NEW t, Addable(kk, t), NEW A, InOrder(kk, A),
         \A u \in Runnable(kk) : <<u, t>> \in A,
         \/ kk.lock[this_task(kk)] > 0
         \/ \A u \in On(kk, "PENDING") : kk.prio[u] > kk.prio[t]
  PROVE  InOrder(sched_addreadytorun(kk, t), A)
<1> DEFINE a == sched_addreadytorun(kk, t)
           r == this_task(kk)
           P == kk.list["PENDING"]
           R == kk.list["READYTORUN"]
           S == On(kk, "PENDING")
           T == On(kk, "READYTORUN")
           p == AddPrioritized(P, kk.prio, t)
           m == AddPrioritized(R, kk.prio, t)
<1>1. /\ Consistent(kk) /\ t \in Task \ {IDLE} /\ kk.state[t] = "INVALID"
      /\ kk.prio \in PrioFcn /\ \A u \in Task : kk.prio[u] \in Nat
  BY KernelAssumption DEF Addable, Consistent, KernelState, PrioFcn
<1>2. /\ S \subseteq Task /\ T \subseteq Task /\ t \notin S /\ t \notin T
      /\ Lists(P, S) /\ Lists(R, T)
      /\ Insertable(P, S, kk.prio, t) /\ Insertable(R, T, kk.prio, t)
  BY <1>1 DEF Consistent, ListsHold, PrioritizedSorted, TLIST_ISPRIORITIZED, On, TLIST_HEAD, Insertable, ListName
<1>3. Lists(p, S \union {t}) /\ Lists(m, T \union {t})
  <2>1. Inserted(P, S, kk.prio, t, p) /\ Inserted(R, T, kk.prio, t, m)
    BY <1>2, PrioritizedInsertion
  <2> QED  BY <2>1 DEF Inserted
<1>4. /\ r \in T /\ \A u \in T : kk.prio[u] <= kk.prio[r]
  BY <1>1, ReadyHead DEF On, TLIST_HEAD
<1>5. Fifo(P, kk.prio, A) /\ Fifo(R, kk.prio, A) /\ \A u \in S, v \in T : kk.prio[u] > kk.prio[v]
  BY <1>2, AboveMembers DEF InOrder
<1>6. /\ \A i \in 1..Len(P) : <<P[i], t>> \in A
      /\ \A i \in 1..Len(R) : <<R[i], t>> \in A
  BY <1>1, OnQueue
<1>7. Fifo(p, kk.prio, A) /\ Fifo(m, kk.prio, A)
  BY <1>2, <1>5, <1>6, InsertionFifo
<1>8. a.prio = kk.prio
  BY AddReady DEF AddedReady, SameFields
<1>9. \/ kk.prio[r] < kk.prio[t] /\ a.list["PENDING"] = p /\ a.list["READYTORUN"] = R
      \/ /\ kk.lock[r] > 0 => ~(kk.prio[r] < kk.prio[t])
         /\ a.list["PENDING"] = P /\ a.list["READYTORUN"] = m
  BY AddReadyLists
<1> HIDE DEF a, r, p, m, P, R, S, T
<1>10. kk.prio[t] \in Nat /\ kk.prio[r] \in Nat /\ r \in T
       /\ (\A u \in T : kk.prio[u] \in Nat) /\ (\A u \in S : kk.prio[u] \in Nat)
  BY <1>1, <1>2, <1>4
<1>11. CASE kk.prio[r] < kk.prio[t] /\ a.list["PENDING"] = p /\ a.list["READYTORUN"] = R
  <2>1. \A u \in S \union {t}, v \in T : kk.prio[u] > kk.prio[v]
    BY <1>4, <1>5, <1>10, <1>11
  <2>2. S \union {t} \in SUBSET Task /\ T \in SUBSET Task
    BY <1>1, <1>2
  <2>3. Above(p, R, kk.prio)
    BY <1>2, <1>3, <2>1, <2>2, AboveMembers
  <2> QED  BY <1>5, <1>7, <1>8, <1>11, <2>3 DEF InOrder, a
<1>12. CASE /\ kk.lock[r] > 0 => ~(kk.prio[r] < kk.prio[t])
            /\ a.list["PENDING"] = P /\ a.list["READYTORUN"] = m
  <2>1. \A u \in S : kk.prio[u] > kk.prio[t]
    <3>1. CASE kk.lock[r] > 0
      <4>1. kk.prio[t] <= kk.prio[r]
        BY <1>10, <1>12, <3>1
      <4> QED  BY <1>5, <1>10, <4>1
    <3>2. CASE ~(kk.lock[r] > 0)
      BY <3>2 DEF r, S
    <3> QED  BY <3>1, <3>2
  <2>2. \A u \in S, v \in T \union {t} : kk.prio[u] > kk.prio[v]
    BY <1>5, <2>1
  <2>3. S \in SUBSET Task /\ T \union {t} \in SUBSET Task
    BY <1>1, <1>2
  <2>4. Above(P, m, kk.prio)
    BY <1>2, <1>3, <2>2, <2>3, AboveMembers
  <2> QED  BY <1>5, <1>7, <1>8, <1>12, <2>4 DEF InOrder, a
<1> QED  BY <1>9, <1>11, <1>12

\* sched_mergepending keeps the tasks in order.
LEMMA MergeInOrder ==
  ASSUME NEW kk, Consistent(kk), NEW A, InOrder(kk, A)
  PROVE  InOrder(sched_mergepending(kk), A)
<1> DEFINE a == sched_mergepending(kk)
           P == kk.list["PENDING"]
           R == kk.list["READYTORUN"]
           S == On(kk, "PENDING")
           T == On(kk, "READYTORUN")
           L == Merged(P, R, kk.prio)
<1>1. MergeInput(P, R, S, T, kk.prio)
  <2>1. Lists(P, S) /\ Lists(R, T) /\ Sorted(P, kk.prio) /\ Sorted(R, kk.prio) /\ kk.prio \in PrioFcn
    BY DEF Consistent, ListsHold, PrioritizedSorted, TLIST_ISPRIORITIZED, ListName, KernelState, PrioFcn
  <2>2. S \subseteq Task /\ T \subseteq Task /\ S \cap T = {}
    BY DEF On
  <2> QED  BY <2>1, <2>2 DEF MergeInput
<1>2. Fifo(L, kk.prio, A)
  BY <1>1, MergeFifo DEF InOrder
<1>3. kk \in KernelState /\ "READYTORUN" \in ListName /\ "PENDING" \in ListName
  BY DEF Consistent, ListName
<1>4. a.list["READYTORUN"] = L /\ a.list["PENDING"] = <<>>
  BY <1>3 DEF sched_mergepending, KernelState
<1>5. a.prio = kk.prio
  BY Merge DEF MergedInto, SameFields
<1> HIDE DEF a, L
<1>6. InOrder(a, A)
  BY <1>2, <1>4, <1>5 DEF InOrder, Fifo, Above
<1> QED  BY <1>6 DEF a

\* The same at the end of up_block_task, up_reprioritize_rtr and task_exit.
LEMMA MergePendingInOrder ==
  ASSUME NEW kk, Consistent(kk), NEW A, InOrder(kk, A)
  PROVE  InOrder(MergeIfPending(kk), A)
BY MergeInOrder DEF MergeIfPending

\* sched_addblocked and the links to g_inactivetasks leave the two lists alone.
LEMMA BlockedElsewhere ==
  ASSUME NEW kk \in KernelState, NEW t \in Task, NEW s \in BlockedState,
         NEW a, a = sched_addblocked(kk, t, s) \/ a = AddInactive(kk, t)
  PROVE  Thins(kk, a) /\ a.prio = kk.prio
<1>1. /\ s \notin {"READYTORUN", "PENDING"} /\ "READYTORUN" \in ListName /\ "PENDING" \in ListName
      /\ "INACTIVE" \notin {"READYTORUN", "PENDING"}
  BY DEF BlockedState, ListName
<1>2. CASE a = sched_addblocked(kk, t, s)
  <2> DEFINE b == IF TLIST_ISPRIORITIZED(s) THEN sched_addprioritized(kk, t, s)
                  ELSE [kk EXCEPT !.list[s] = Append(@, t)]
             m == IF TLIST_ISPRIORITIZED(s) THEN AddPrioritized(kk.list[s], kk.prio, t)
                  ELSE Append(kk.list[s], t)
  <2>1. b = [kk EXCEPT !.list[s] = m]
    BY DEF sched_addprioritized
  <2>2. a = [b EXCEPT !.state[t] = s]
    BY <1>2 DEF sched_addblocked
  <2> HIDE DEF b, m
  <2>3. a.list = [kk.list EXCEPT ![s] = m] /\ a.prio = kk.prio
    BY <2>1, <2>2 DEF KernelState
  <2>4. kk.list \in [ListName -> Seq(Task)]
    BY DEF KernelState
  <2>5. a.list["READYTORUN"] = kk.list["READYTORUN"] /\ a.list["PENDING"] = kk.list["PENDING"]
    BY <1>1, <2>3, <2>4
  <2> QED  BY <2>3, <2>5, SameQueues
<1>3. CASE a = AddInactive(kk, t)
  <2> DEFINE m == <<t>> \o kk.list["INACTIVE"]
  <2>1. a = [kk EXCEPT !.list["INACTIVE"] = m, !.state[t] = "INACTIVE"]
    BY <1>3 DEF AddInactive
  <2> HIDE DEF m
  <2>2. a.list = [kk.list EXCEPT !["INACTIVE"] = m] /\ a.prio = kk.prio
    BY <2>1 DEF KernelState
  <2>3. kk.list \in [ListName -> Seq(Task)]
    BY DEF KernelState
  <2>4. a.list["READYTORUN"] = kk.list["READYTORUN"] /\ a.list["PENDING"] = kk.list["PENDING"]
    BY <1>1, <2>2, <2>3
  <2> QED  BY <2>2, <2>4, SameQueues
<1> QED  BY <1>2, <1>3

\* up_block_task: the others stay in order.
LEMMA BlockInOrder ==
  ASSUME NEW kk, Sound(kk), NEW t, t = this_task(kk), t # IDLE, NEW s \in BlockedState,
         NEW A, InOrder(kk, A)
  PROVE  InOrder(up_block_task(kk, t, s), A)
<1> DEFINE b == sched_removereadytorun(kk, t)
           c == sched_addblocked(b, t, s)
<1>1. t \in Task \ {IDLE} /\ kk.state[t] = "RUNNING" /\ Consistent(kk) /\ HeadRuns(kk)
  BY ReadyHead DEF Sound, HeadRuns
<1>2. RemovableReady(kk, t)
  BY <1>1 DEF RemovableReady
<1>3. RemovedReady(kk, t, b) /\ Thins(kk, b)
  BY <1>2, RemoveReady, RemoveReadyThins
<1> HIDE DEF b
<1>4. Addable(b, t) /\ b \in KernelState
  BY <1>1, <1>3 DEF Addable, RemovedReady, Consistent, PrioritiesValid, SameFields
<1>5. Blocked(b, t, s, c)
  BY <1>4, AddBlocked
<1>6. Thins(b, c)
  BY <1>1, <1>4, BlockedElsewhere
<1> HIDE DEF c
<1>7. Consistent(c) /\ c.prio = kk.prio /\ Thins(kk, c)
  BY <1>3, <1>5, <1>6, ThinsChain DEF Blocked, RemovedReady, SameFields
<1>8. InOrder(c, A)
  BY <1>7, ThinsInOrder
<1>9. InOrder(MergeIfPending(c), A)
  BY <1>7, <1>8, MergePendingInOrder
<1> QED  BY <1>9 DEF up_block_task, b, c

\* up_unblock_task: the task goes behind those that were runnable before.
LEMMA UnblockInOrder ==
  ASSUME NEW kk, Consistent(kk), PendingReleased(kk), NEW t \in Task, kk.state[t] \in BlockedState,
         NEW A, NEW B, InOrder(kk, A),
         \A u, v \in Runnable(kk) : <<u, v>> \in A => <<u, v>> \in B,
         \A u \in Runnable(kk) : <<u, t>> \in B
  PROVE  InOrder(up_unblock_task(kk, t), B)
<1> DEFINE b == TakeOffList(kk, t)
<1>1. b = sched_removeblocked(kk, t)
  BY DEF TakeOffList, sched_removeblocked, TLIST_HEAD, BlockedState
<1>2. t # IDLE /\ t # this_task(kk) /\ kk.state[t] # "INVALID"
  BY ReadyHead DEF Consistent, IdleReady, BlockedState
<1>3. Removable(kk, t)
  BY <1>2 DEF Removable
<1>4. TakenOff(kk, t, b) /\ Thins(kk, b)
  BY <1>3, TakeOff, TakeOffThins
<1>5. up_unblock_task(kk, t) = sched_addreadytorun(b, t)
  BY <1>1 DEF up_unblock_task
<1> HIDE DEF b
<1>6. Addable(b, t)
  BY <1>2, <1>4 DEF Addable, TakenOff, Consistent, PrioritiesValid, SameFields
<1>7. \A u \in Runnable(b) : u \in Runnable(kk)
  BY <1>4 DEF TakenOff, Runnable
<1>8. b.prio = kk.prio /\ b.lock = kk.lock /\ this_task(b) = this_task(kk)
      /\ (Pending(b) => Pending(kk)) /\ Consistent(b)
  BY <1>4 DEF TakenOff, SameFields
<1>9. InOrder(b, B)
  BY <1>4, <1>7, <1>8, ThinsInOrder
<1>10. b.lock[this_task(b)] > 0 \/ On(b, "PENDING") = {}
  <2>1. CASE Pending(b)
    BY <1>8, <2>1 DEF PendingReleased
  <2>2. CASE ~Pending(b)
    <3>1. Lists(<<>>, On(b, "PENDING"))
      BY <1>8, <2>2 DEF Pending, Consistent, ListsHold, ListName
    <3>2. \A u \in Task : ~InList(<<>>, u)
      BY DEF InList
    <3> QED  BY <3>1, <3>2 DEF Lists, On
  <2> QED  BY <2>1, <2>2
<1> QED  BY <1>5, <1>6, <1>7, <1>9, <1>10, AddReadyInOrder

\* What a step that sends the running task t back makes of the recorded order:
\* the others keep theirs, and t is behind all of them.
BehindOthers(kk, t, A, B) ==
  /\ \A u, v \in Runnable(kk) \ {t} : <<u, v>> \in A => <<u, v>> \in B
  /\ \A u \in Runnable(kk) \ {t} : <<u, t>> \in B

\* The running task t is taken off the head of g_readytorun and put back, no
\* more urgent than the new head.
LEMMA RequeueInOrder ==
  ASSUME NEW kk, NEW t, NEW p, Requeueable(kk, t, p), t = this_task(kk), p = kk.prio[t],
         NEW A, NEW B, InOrder(kk, A), BehindOthers(kk, t, A, B)
  PROVE  LET a == Requeued(kk, t, p)
         IN  InOrder(a, B) /\ a.prio[t] <= a.prio[this_task(a)]
<1> DEFINE b == sched_removereadytorun(kk, t)
           c == [b EXCEPT !.prio[t] = p]
<1>1. /\ Consistent(kk) /\ HeadRuns(kk) /\ t \in Task \ {IDLE}
      /\ kk.state[t] \in {"RUNNING", "READYTORUN"} /\ p \in Priority
  BY DEF Requeueable, Sound
<1>2. RemovableReady(kk, t)
  BY <1>1 DEF RemovableReady
<1>3. RemovedReady(kk, t, b) /\ Thins(kk, b)
  BY <1>2, RemoveReady, RemoveReadyThins
<1> HIDE DEF b
<1>4. /\ b \in KernelState /\ b.prio = kk.prio /\ b.state[t] = "INVALID" /\ Consistent(b)
      /\ b.list["PENDING"] = kk.list["PENDING"]
  BY <1>3 DEF RemovedReady, Consistent, SameFields
<1>5. c = b
  BY <1>4 DEF KernelState
<1>6. Requeued(kk, t, p) = sched_addreadytorun(b, t)
  BY <1>5 DEF Requeued, b
<1> HIDE DEF c
<1>7. \A u \in Runnable(b) : u \in Runnable(kk) \ {t}
  <2>1. \A u \in Task \ {t} : TLIST_HEAD(b.state[u]) = TLIST_HEAD(kk.state[u])
    BY <1>3 DEF RemovedReady, SameLists
  <2> QED  BY <1>4, <2>1 DEF Runnable, TLIST_HEAD
<1>8. InOrder(b, B)
  BY <1>3, <1>4, <1>7, ThinsInOrder DEF BehindOthers
<1>9. Addable(b, t)
  <2>1. b.init = kk.init
    BY <1>3 DEF RemovedReady, SameFields
  <2> QED  BY <1>1, <1>4, <2>1 DEF Addable, Consistent, PrioritiesValid
<1>10. \A u \in On(b, "PENDING") : b.prio[u] > b.prio[t]
  <2> SUFFICES ASSUME NEW u \in On(b, "PENDING") PROVE kk.prio[u] > kk.prio[t]
    BY <1>4
  <2>1. Lists(kk.list["PENDING"], On(b, "PENDING"))
    BY <1>4 DEF Consistent, ListsHold, ListName
  <2>2. PICK i \in 1..Len(kk.list["PENDING"]) : kk.list["PENDING"][i] = u
    BY <2>1 DEF Lists, InList, On
  <2>3. 1 \in 1..Len(kk.list["READYTORUN"]) /\ kk.list["READYTORUN"][1] = t
    BY <1>1, ReadyHead DEF this_task
  <2> QED  BY <2>2, <2>3 DEF InOrder, Above
<1>11. \A u \in Runnable(b) : <<u, t>> \in B
  BY <1>7 DEF BehindOthers
<1>12. InOrder(sched_addreadytorun(b, t), B)
  BY <1>8, <1>9, <1>10, <1>11, AddReadyInOrder
<1>13. b.prio[t] <= b.prio[this_task(b)]
  BY <1>3, <1>4 DEF RemovedReady, Requeueable
<1> DEFINE a == sched_addreadytorun(b, t)
<1>14. AddedReady(b, t, a)
  BY <1>9, AddReady
<1> HIDE DEF a
<1>15. a.prio[t] <= a.prio[this_task(a)]
  BY <1>13, <1>14 DEF AddedReady, SameFields
<1> QED  BY <1>6, <1>12, <1>15 DEF a

\* The running task gives way: it is ready, and behind its equals.
LEMMA GiveWayInOrder ==
  ASSUME NEW kk, NEW t, NEW p, Requeueable(kk, t, p), t = this_task(kk), p = kk.prio[t],
         NEW A, NEW B, InOrder(kk, A), BehindOthers(kk, t, A, B)
  PROVE  LET d == up_reprioritize_rtr(kk, t, p)
         IN  InOrder(d, B) /\ d.state[t] = "READYTORUN"
<1> DEFINE a == Requeued(kk, t, p)
           d == MergeIfPending(a)
<1>1. IsRequeued(kk, t, a) /\ InOrder(a, B) /\ a.prio[t] <= a.prio[this_task(a)]
  BY Requeue, RequeueInOrder
<1>2. up_reprioritize_rtr(kk, t, p) = d
  BY <1>1 DEF up_reprioritize_rtr, Requeued, IsRequeued
<1> HIDE DEF a
<1>3. Consistent(a) /\ HeadRuns(a) /\ this_task(a) # t /\ SameListed(kk, a) /\ SameBlocked(kk, a, {})
  BY <1>1 DEF IsRequeued
<1>4. MergedInto(a, d) /\ InOrder(d, B)
  BY <1>1, <1>3, MergeWhenPending, MergePendingInOrder
<1>5. d = a \/ Pending(a)
  BY DEF MergeIfPending
<1> HIDE DEF d
<1>6. Consistent(d) /\ ~Pending(d) /\ d.prio = a.prio /\ SameListed(a, d) /\ SameBlocked(a, d, {})
  BY <1>4 DEF MergedInto, SameFields
<1>7. t \in Task /\ kk.state[t] \in {"RUNNING", "READYTORUN"}
  BY DEF Requeueable
<1>8. ASSUME NEW u \in Task, u \in Runnable(a) PROVE d.state[u] \in {"RUNNING", "READYTORUN"}
  <2>1. a.state[u] \notin BlockedState \union {"INVALID"}
    BY <1>8 DEF Runnable, BlockedState
  <2>2. d.state[u] \notin BlockedState \union {"INVALID"} /\ d.state[u] \in TaskState
    BY <1>6, <2>1 DEF SameListed, SameBlocked, Consistent, KernelState
  <2>3. d.state[u] # "PENDING"
    <3>1. Lists(<<>>, On(d, "PENDING"))
      BY <1>6 DEF Pending, Consistent, ListsHold, ListName
    <3>2. ~InList(<<>>, u)
      BY DEF InList
    <3> QED  BY <3>1, <3>2 DEF Lists, On, TLIST_HEAD
  <2> QED  BY <2>2, <2>3 DEF TaskState, ListName
<1>9. t \in Runnable(a) /\ a.state[t] \in TaskState
  <2>1. a.state[t] \notin BlockedState \union {"INVALID"} /\ a.state[t] \in TaskState
    BY <1>3, <1>7 DEF SameListed, SameBlocked, Consistent, KernelState, BlockedState
  <2> QED  BY <1>7, <2>1 DEF Runnable, TaskState, ListName
<1>10. this_task(d) # t
  <2>1. CASE d = a
    BY <1>3, <2>1
  <2>2. CASE Pending(a) /\ d # a
    <3> DEFINE P == a.list["PENDING"]
               R == a.list["READYTORUN"]
    <3>1. Lists(P, On(a, "PENDING")) /\ Lists(R, On(a, "READYTORUN")) /\ P # <<>>
      BY <1>3, <2>2 DEF Pending, Consistent, ListsHold, ListName
    <3>2. 1 \in 1..Len(P)
      BY <3>1, EmptySeq, LenProperties DEF Lists
    <3>3. P[1] \in Task /\ P[1] \in Runnable(a) /\ a.prio[P[1]] \in Nat
      BY <1>3, <3>2, OnQueue
    <3>4. d.state[P[1]] \in {"RUNNING", "READYTORUN"}
      BY <1>8, <3>3
    <3>5. a.prio[P[1]] <= a.prio[this_task(d)]
      BY <1>6, <3>3, <3>4, ReadyHead
    <3>6. SUFFICES ASSUME this_task(d) = t PROVE FALSE
      OBVIOUS
    <3>7. CASE a.state[t] = "PENDING"
      <4>1. t \in On(a, "PENDING")
        BY <1>7, <3>7 DEF On, TLIST_HEAD
      <4>2. PICK i \in 1..Len(P) : P[i] = t
        BY <1>7, <3>1, <4>1 DEF Lists, InList
      <4>3. 1 \in 1..Len(R) /\ R[1] = this_task(a)
        BY <1>3, ReadyHead DEF this_task
      <4>4. a.prio[t] > a.prio[this_task(a)] /\ a.prio[t] \in Nat /\ a.prio[this_task(a)] \in Nat
        BY <1>1, <1>3, <4>2, <4>3, OnQueue DEF InOrder, Above
      <4> QED  BY <1>1, <4>4
    <3>8. CASE a.state[t] # "PENDING"
      <4>1. t \in On(a, "READYTORUN")
        BY <1>9, <3>8 DEF Runnable, On, TLIST_HEAD
      <4>2. PICK j \in 1..Len(R) : R[j] = t
        BY <1>7, <3>1, <4>1 DEF Lists, InList
      <4>3. a.prio[P[1]] > a.prio[t] /\ a.prio[t] \in Nat
        BY <1>1, <1>3, <3>2, <4>2, OnQueue DEF InOrder, Above
      <4> QED  BY <3>3, <3>5, <3>6, <4>3
    <3> QED  BY <3>7, <3>8
  <2> QED  BY <1>5, <2>1, <2>2
<1>11. d.state[t] = "READYTORUN"
  BY <1>6, <1>7, <1>8, <1>9, <1>10 DEF Consistent, OnlyHeadRuns
<1> QED  BY <1>2, <1>4, <1>11

\* What a step of the running task t that may give way makes of the kernel:
\* nothing of note, or t is ready, behind its equals.
MayGiveWay(kk, t, A, d) ==
  \/ d.list = kk.list /\ d.prio = kk.prio /\ d.state = kk.state
  \/ /\ d.state[t] = "READYTORUN"
     /\ \A B : BehindOthers(kk, t, A, B) => InOrder(d, B)

\* up_reprioritize_rtr of the running task, with the priority it has.
LEMMA GiveWay ==
  ASSUME NEW kk, NEW t, NEW p, Requeueable(kk, t, p), t = this_task(kk), p = kk.prio[t],
         NEW A, InOrder(kk, A)
  PROVE  MayGiveWay(kk, t, A, up_reprioritize_rtr(kk, t, p))
<1> DEFINE d == up_reprioritize_rtr(kk, t, p)
<1>1. ASSUME NEW B, BehindOthers(kk, t, A, B)
      PROVE  InOrder(d, B) /\ d.state[t] = "READYTORUN"
  BY <1>1, GiveWayInOrder
<1> HIDE DEF d
<1>2. t \in Task
  BY DEF Requeueable
<1>3. BehindOthers(kk, t, A, Task \X Task)
  BY <1>2 DEF BehindOthers, Runnable
<1>4. d.state[t] = "READYTORUN"
  BY <1>1, <1>3
<1>5. MayGiveWay(kk, t, A, d)
  BY <1>1, <1>4 DEF MayGiveWay
<1> QED  BY <1>5 DEF d

\* sched_yield
LEMMA YieldInOrder ==
  ASSUME NEW kk, Sound(kk), NEW t, t = this_task(kk), t # IDLE, NEW A, InOrder(kk, A)
  PROVE  MayGiveWay(kk, t, A, sched_setpriority(kk, t, kk.prio[t]))
<1> DEFINE p == kk.prio[t]
           d == sched_setpriority(kk, t, p)
<1>1. t \in Task \ {IDLE} /\ kk.state[t] = "RUNNING" /\ p \in Priority /\ kk \in KernelState
  BY ReadyHead DEF Sound, HeadRuns, Consistent, PrioritiesValid
<1>2. d = sched_running_setpriority(kk, t, p)
  BY <1>1 DEF sched_setpriority
<1>3. CASE p <= kk.prio[kk.list["READYTORUN"][2]]
  <2>1. d = up_reprioritize_rtr(kk, t, p)
    BY <1>2, <1>3 DEF sched_running_setpriority
  <2>2. Requeueable(kk, t, p)
    BY <1>1, <1>3 DEF Requeueable
  <2> HIDE DEF d
  <2> QED  BY <2>1, <2>2, GiveWay DEF d
<1>4. CASE ~(p <= kk.prio[kk.list["READYTORUN"][2]])
  <2>1. d = [kk EXCEPT !.prio[t] = kk.prio[t]]
    BY <1>2, <1>4 DEF sched_running_setpriority
  <2>2. d = kk
    BY <1>1, <2>1 DEF KernelState
  <2> QED  BY <2>2 DEF MayGiveWay
<1> QED  BY <1>3, <1>4

\* sched_roundrobin_process
LEMMA RoundRobinInOrder ==
  ASSUME NEW kk, Sound(kk), NEW t, t = this_task(kk), t \in kk.rr, NEW A, InOrder(kk, A)
  PROVE  MayGiveWay(kk, t, A, sched_roundrobin_process(kk))
<1> DEFINE left == IF kk.slice[t] > 0 THEN kk.slice[t] - 1 ELSE 0
           a == [kk EXCEPT !.slice[t] = RR_TICKS]
           c == [kk EXCEPT !.slice[t] = left]
           R == kk.list["READYTORUN"]
           p == kk.prio[t]
<1>1. /\ t \in Task \ {IDLE} /\ kk \in KernelState /\ Consistent(kk) /\ kk.state[t] = "RUNNING"
      /\ left \in 0..RR_TICKS /\ RR_TICKS \in 0..RR_TICKS
  <2>1. t \in Task \ {IDLE} /\ kk \in KernelState /\ Consistent(kk) /\ kk.state[t] = "RUNNING"
    BY ReadyHead DEF Sound, Consistent, IdleReady, HeadRuns
  <2>2. kk.slice[t] \in 0..RR_TICKS
    BY <2>1 DEF KernelState
  <2> QED  BY <2>1, <2>2, KernelAssumption
<1>2. sched_roundrobin_process(kk)
        = IF left > 0 \/ kk.lock[t] > 0 THEN c
          ELSE IF Len(R) > 1 /\ kk.prio[R[2]] >= p THEN up_reprioritize_rtr(a, t, p)
          ELSE a
  BY DEF sched_roundrobin_process
<1>3. QuietStep(kk, c) /\ c.list = kk.list /\ c.state = kk.state /\ c.prio = kk.prio
  BY <1>1, SliceSound
<1>4. QuietStep(kk, a) /\ a.list = kk.list /\ a.state = kk.state /\ a.prio = kk.prio
  BY <1>1, SliceSound
<1> HIDE DEF a, c, left
<1>5. MayGiveWay(kk, t, A, a) /\ MayGiveWay(kk, t, A, c)
  BY <1>3, <1>4 DEF MayGiveWay
<1>6. ASSUME Len(R) > 1 /\ kk.prio[R[2]] >= p
      PROVE  MayGiveWay(kk, t, A, up_reprioritize_rtr(a, t, p))
  <2>1. p \in Priority /\ p \in Int
    BY <1>1, KernelAssumption DEF Consistent, PrioritiesValid, Priority, SCHED_PRIORITY_MIN
  <2>2. R[2] \in Task
    BY <1>1, SecondReady DEF this_task
  <2>3. kk.prio[R[2]] \in Int
    BY <1>1, <2>2, KernelAssumption DEF KernelState
  <2>4. Requeueable(a, t, p) /\ t = this_task(a) /\ p = a.prio[t] /\ InOrder(a, A)
    BY <1>1, <1>4, <1>6, <2>1, <2>3 DEF Requeueable, QuietStep, SoundStep, this_task, InOrder
  <2>5. MayGiveWay(a, t, A, up_reprioritize_rtr(a, t, p))
    BY <2>4, GiveWay
  <2> QED  BY <1>4, <2>5 DEF MayGiveWay, BehindOthers, Runnable
<1> QED  BY <1>2, <1>5, <1>6

\* sched_unlock
LEMMA UnlockInOrder ==
  ASSUME NEW kk, Sound(kk), NEW A, InOrder(kk, A)
  PROVE  InOrder(sched_unlock(kk), A)
<1> DEFINE r == this_task(kk)
           a == [kk EXCEPT !.lock[r] = IF @ > 0 THEN @ - 1 ELSE 0]
<1>1. kk \in KernelState /\ r \in Task /\ kk.lock \in [Task -> Nat]
  BY ReadyHead DEF Sound, Consistent, KernelState
<1>2. /\ a \in KernelState /\ a.list = kk.list /\ a.state = kk.state /\ a.prio = kk.prio
      /\ a.init = kk.init /\ a.rr = kk.rr
  <2> DEFINE n == IF kk.lock[r] > 0 THEN kk.lock[r] - 1 ELSE 0
  <2>1. a = [kk EXCEPT !.lock[r] = n] /\ n \in Nat
    BY <1>1 DEF KernelState
  <2> HIDE DEF n, a, r
  <2> QED  BY <1>1, <2>1 DEF KernelState
<1>3. sched_unlock(kk) = a \/ sched_unlock(kk) = sched_mergepending(a)
  BY DEF sched_unlock, up_release_pending
<1> HIDE DEF a
<1>4. Consistent(a)
  <2>1. Retuned(kk, a)
    BY <1>2 DEF Retuned, Sound, Consistent, IdleReady
  <2> QED  BY <2>1, Retune
<1>5. InOrder(a, A)
  BY <1>2 DEF InOrder
<1> QED  BY <1>3, <1>4, <1>5, MergeInOrder

\* The kernel state in task_exit when the exiting task is off every list and
\* the next one has the scheduler lock.
TaskGone(kk, t) ==
  LET a == sched_removereadytorun(kk, t)
      r == this_task(a)
      x == [a EXCEPT !.lock[r] = @ + 1, !.state[r] = "READYTORUN"]
  IN  TakeOffList(sched_addblocked(x, t, "INACTIVE"), t)

\* task_exit before task_exithook: the caller is off g_readytorun, and nothing
\* else happened to the two lists.
LEMMA ExitBeginsInOrder ==
  ASSUME NEW kk, Sound(kk), NEW t, t = this_task(kk), t # IDLE
  PROVE  Thins(kk, TaskGone(kk, t)) /\ TaskGone(kk, t).prio = kk.prio
<1> DEFINE a == sched_removereadytorun(kk, t)
           r == this_task(a)
           x == [a EXCEPT !.lock[r] = @ + 1, !.state[r] = "READYTORUN"]
           c == TakeOffList(sched_addblocked(x, t, "INACTIVE"), t)
<1>1. c = TaskGone(kk, t)
  BY DEF TaskGone
<1>2. /\ a = sched_removereadytorun(kk, t)
       /\ x = [a EXCEPT !.lock[r] = @ + 1, !.state[r] = "READYTORUN"]
       /\ c = TakeOffList(sched_addblocked(x, t, "INACTIVE"), t)
  OBVIOUS
<1> HIDE DEF a, r, x, c
<1> DEFINE b == sched_addblocked(x, t, "INACTIVE")
           m == Append(a.list["INACTIVE"], t)
<1>3. t \in Task \ {IDLE} /\ kk.state[t] = "RUNNING" /\ Consistent(kk) /\ HeadRuns(kk)
  BY ReadyHead DEF Sound, HeadRuns
<1>4. RemovableReady(kk, t)
  BY <1>3 DEF RemovableReady
<1>5. RemovedReady(kk, t, a) /\ Thins(kk, a)
  BY <1>2, <1>4, RemoveReady, RemoveReadyThins
<1>6. a \in KernelState /\ a.prio = kk.prio /\ a.state \in [Task -> TaskState]
      /\ a.list \in [ListName -> Seq(Task)]
  BY <1>5 DEF RemovedReady, Consistent, SameFields, KernelState
<1>7. /\ x.list = a.list /\ x.prio = a.prio /\ x.state = [a.state EXCEPT ![r] = "READYTORUN"]
      /\ DOMAIN x = DOMAIN a
  BY ONLY <1>2, <1>6 DEF KernelState
<1>8. "list" \in DOMAIN x /\ "state" \in DOMAIN x /\ "prio" \in DOMAIN x
  BY <1>6, <1>7 DEF KernelState
<1>9. b = [[x EXCEPT !.list["INACTIVE"] = m] EXCEPT !.state[t] = "INACTIVE"]
  BY <1>7 DEF sched_addblocked, TLIST_ISPRIORITIZED
<1> HIDE DEF b, m
<1>10. /\ b.list = [a.list EXCEPT !["INACTIVE"] = m] /\ b.prio = a.prio
      /\ b.state = [x.state EXCEPT ![t] = "INACTIVE"]
      /\ "list" \in DOMAIN b /\ "state" \in DOMAIN b /\ "prio" \in DOMAIN b
  BY ONLY <1>7, <1>8, <1>9
<1>11. b.state[t] = "INACTIVE"
  BY <1>3, <1>6, <1>7, <1>10
<1> DEFINE o == dq_rem(t, b.list["INACTIVE"])
<1>12. c = [b EXCEPT !.list["INACTIVE"] = o, !.state[t] = "INVALID"]
  BY <1>2, <1>11 DEF TakeOffList, TLIST_HEAD, b
<1> HIDE DEF o
<1>13. c.list = [b.list EXCEPT !["INACTIVE"] = o] /\ c.prio = b.prio
  BY ONLY <1>10, <1>12
<1>14. "READYTORUN" \in ListName /\ "PENDING" \in ListName
  BY DEF ListName
<1>15. c.list["READYTORUN"] = a.list["READYTORUN"] /\ c.list["PENDING"] = a.list["PENDING"]
  BY ONLY <1>6, <1>10, <1>13, <1>14
<1>16. Thins(a, c)
  BY ONLY <1>15, SameQueues
<1>17. Thins(kk, c)
  BY ONLY <1>5, <1>16, ThinsChain
<1> QED  BY ONLY <1>1, <1>6, <1>10, <1>13, <1>17

\* task_exit: the others stay in order, and the task that task_exithook wakes
\* goes behind its equals.
LEMMA ExitInOrder ==
  ASSUME NEW kk, Sound(kk), NEW t, t = this_task(kk), t # IDLE, NEW W,
         \A w \in W : w \in Task /\ kk.state[w] = "WAIT_SEM",
         NEW A, NEW B, InOrder(kk, A),
         \A u, v \in Runnable(kk) \ {t} : <<u, v>> \in A => <<u, v>> \in B,
         W # {} => \A u \in Runnable(kk) \ {t} : <<u, CHOOSE w \in W : TRUE>> \in B
  PROVE  InOrder(task_exit(kk, W), B)
<1> DEFINE a == sched_removereadytorun(kk, t)
           r == this_task(a)
           x == [a EXCEPT !.lock[r] = @ + 1, !.state[r] = "READYTORUN"]
           c == TakeOffList(sched_addblocked(x, t, "INACTIVE"), t)
           w == CHOOSE y \in W : TRUE
           d == IF W = {} THEN c ELSE up_unblock_task(c, w)
           e == sched_releasetcb(d, t)
           f == [e EXCEPT !.state[r] = "RUNNING", !.lock[r] = @ - 1]
<1>1. t \in Task \ {IDLE} /\ kk.state[t] = "RUNNING" /\ W # {} => w \in W
  BY ReadyHead DEF Sound, HeadRuns
<1>2. Leaving(kk, t, r, c)
  BY ExitBegins
<1>3. Thins(kk, c) /\ c.prio = kk.prio
  <2>1. c = TaskGone(kk, t)
    BY DEF TaskGone
  <2> HIDE DEF c
  <2> QED  BY <2>1, ExitBeginsInOrder
<1>4. task_exit(kk, W) = MergeIfPending(f)
  BY DEF task_exit
<1> HIDE DEF a, r, x, c, w
<1>5. Consistent(c) /\ PendingReleased(c) /\ \A u \in Runnable(c) : u \in Runnable(kk) \ {t}
  BY <1>2 DEF Leaving, PendingReleased, Runnable, TLIST_HEAD
<1>6. InOrder(c, B)
  BY <1>3, <1>5, ThinsInOrder
<1>7. /\ InOrder(d, B) /\ Consistent(d) /\ this_task(d) = r /\ d.lock[r] > 0 /\ r \in Task \ {t}
      /\ d.state[t] = "INVALID" /\ d.state[r] = "READYTORUN"
  <2>1. CASE W = {}
    BY <1>2, <1>6, <2>1 DEF Leaving
  <2>2. CASE W # {}
    <3>1. w \in Task /\ kk.state[w] = "WAIT_SEM" /\ t \in Task /\ kk.state[t] = "RUNNING"
      BY <1>1, <2>2, ReadyHead DEF Sound, HeadRuns, w
    <3>2. d = up_unblock_task(c, w)
      BY <2>2
    <3> HIDE DEF d
    <3>3. StillLeaving(c, t, r, w, d)
      BY <1>2, <3>1, <3>2, ExitWakesOne
    <3>4. c.state[w] \in BlockedState
      BY <1>2, <3>1 DEF Leaving, TLIST_HEAD, BlockedState
    <3>5. \A u \in Runnable(c) : <<u, w>> \in B
      BY <1>5, <2>2 DEF w
    <3>6. InOrder(d, B)
      BY <1>5, <1>6, <3>1, <3>2, <3>4, <3>5, UnblockInOrder
    <3> QED  BY <1>2, <3>3, <3>6 DEF StillLeaving, Leaving
  <2> QED  BY <2>1, <2>2
<1> HIDE DEF d
<1>8. t \in Task \ {IDLE}
  BY ReadyHead DEF Sound
<1>9. Consistent(f) /\ SameListed(d, f) /\ f.list = d.list /\ f.prio = e.prio
  <2>1. e = sched_releasetcb(d, t) /\ f = [e EXCEPT !.state[r] = "RUNNING", !.lock[r] = @ - 1]
    OBVIOUS
  <2>2. /\ Consistent(d) /\ this_task(d) = r /\ d.lock[r] > 0 /\ r \in Task \ {t}
        /\ d.state[t] = "INVALID" /\ d.state[r] = "READYTORUN"
    BY <1>7
  <2> HIDE DEF e, f
  <2>3. Consistent(f) /\ HeadRuns(f) /\ SameListed(d, f) /\ SameBlocked(d, f, {})
    BY ONLY <1>8, <2>1, <2>2, ExitEnds
  <2>4. e.list = d.list /\ e \in KernelState
    BY <1>8, <2>1, <2>2, ReleaseTcb DEF Consistent
  <2>5. f.list = e.list /\ f.prio = e.prio
    BY ONLY <2>1, <2>4 DEF KernelState
  <2> QED  BY <2>3, <2>4, <2>5
<1>10. e.prio = [d.prio EXCEPT ![t] = 0] /\ d.prio \in [Task -> 0..SCHED_PRIORITY_MAX]
  <2>1. d \in KernelState
    BY <1>7 DEF Consistent
  <2> QED  BY <2>1 DEF sched_releasetcb, KernelState
<1> HIDE DEF e, f
<1>11. \A u \in Runnable(f) : f.prio[u] = d.prio[u]
  <2>1. f.state[t] = "INVALID"
    BY <1>7, <1>8, <1>9 DEF SameListed
  <2> QED  BY <1>9, <1>10, <2>1 DEF Runnable
<1>12. InOrder(f, B)
  <2>1. Thins(d, f)
    BY <1>9, SameQueues
  <2> QED  BY <1>7, <1>9, <1>11, <2>1, ThinsInOrder
<1> QED  BY <1>4, <1>9, <1>12, MergePendingInOrder

\* The task that task_exithook wakes is runnable when task_exit is over.
LEMMA ExitWakesRunnable ==
  ASSUME NEW kk, Sound(kk), NEW t, t = this_task(kk), t # IDLE, NEW W, W # {},
         \A w \in W : w \in Task /\ kk.state[w] = "WAIT_SEM"
  PROVE  (CHOOSE w \in W : TRUE) \in Runnable(task_exit(kk, W))
<1> DEFINE a == sched_removereadytorun(kk, t)
           r == this_task(a)
           x == [a EXCEPT !.lock[r] = @ + 1, !.state[r] = "READYTORUN"]
           c == TakeOffList(sched_addblocked(x, t, "INACTIVE"), t)
           w == CHOOSE y \in W : TRUE
           d == up_unblock_task(c, w)
           e == sched_releasetcb(d, t)
           f == [e EXCEPT !.state[r] = "RUNNING", !.lock[r] = @ - 1]
           g == MergeIfPending(f)
<1>1. t \in Task \ {IDLE} /\ kk.state[t] = "RUNNING" /\ t \in Task
  BY ReadyHead DEF Sound, HeadRuns
<1>2. w \in Task /\ kk.state[w] = "WAIT_SEM"
  <2>1. w \in W
    OBVIOUS
  <2> QED  BY <2>1
<1>3. Leaving(kk, t, r, c)
  BY ExitBegins
<1>4. task_exit(kk, W) = g
  BY DEF task_exit
<1> HIDE DEF a, r, x, c, w
<1>5. StillLeaving(c, t, r, w, d)
  BY <1>1, <1>2, <1>3, ExitWakesOne
<1>6. c.state[w] \in BlockedState /\ Consistent(c) /\ r \in Task \ {t}
  BY <1>1, <1>2, <1>3 DEF Leaving, TLIST_HEAD, BlockedState
<1>7. d.state[w] \in {"PENDING", "READYTORUN", "RUNNING"}
  BY <1>2, <1>6, UnblockTask DEF AddedReady
<1> HIDE DEF d
<1>8. Consistent(f) /\ HeadRuns(f) /\ SameListed(d, f) /\ SameBlocked(d, f, {})
  <2>1. e = sched_releasetcb(d, t) /\ f = [e EXCEPT !.state[r] = "RUNNING", !.lock[r] = @ - 1]
    OBVIOUS
  <2> HIDE DEF e, f
  <2> QED  BY <1>1, <1>5, <1>6, <2>1, ExitEnds DEF StillLeaving
<1> HIDE DEF e, f
<1>9. MergedInto(f, g)
  BY <1>8, MergeWhenPending
<1> HIDE DEF g
<1>10. g.state[w] \notin BlockedState \union {"INVALID"} /\ g.state[w] \in TaskState
  <2>1. d.state[w] \notin BlockedState \union {"INVALID"}
    BY <1>7 DEF BlockedState
  <2>2. f.state[w] \notin BlockedState \union {"INVALID"}
    BY <1>2, <1>8, <2>1 DEF SameListed, SameBlocked
  <2> QED  BY <1>2, <1>9, <2>2 DEF MergedInto, SameListed, SameBlocked, Consistent, KernelState
<1>11. w \in Runnable(g)
  BY <1>2, <1>10 DEF Runnable, TaskState, ListName
<1> QED  BY <1>4, <1>11 DEF w

\* A task made inactive by task_create or task_restart, with the priority it is
\* created with, is on neither of the two lists.
LEMMA InactiveElsewhere ==
  ASSUME NEW kk \in KernelState, NEW t \in Task, NEW c \in KernelState, NEW p,
         c.list = kk.list, c.prio = [kk.prio EXCEPT ![t] = p]
  PROVE  LET a == AddInactive(c, t)
         IN  Thins(kk, a) /\ \A u \in Task \ {t} : a.prio[u] = kk.prio[u]
<1> DEFINE a == AddInactive(c, t)
<1>1. Thins(c, a) /\ a.prio = c.prio
  BY BlockedElsewhere DEF BlockedState
<1>2. Thins(kk, c)
  BY SameQueues
<1>3. kk.prio \in [Task -> 0..SCHED_PRIORITY_MAX]
  BY DEF KernelState
<1> HIDE DEF a
<1>4. \A u \in Task \ {t} : a.prio[u] = kk.prio[u]
  BY <1>1, <1>3
<1> QED  BY <1>1, <1>2, <1>4, ThinsChain DEF a

\* task_restart
LEMMA RestartThins ==
  ASSUME NEW kk, NEW t, Removable(kk, t)
  PROVE  LET a == Restarted(kk, t)
         IN  Thins(kk, a) /\ \A u \in Task \ {t} : a.prio[u] = kk.prio[u]
<1> DEFINE b == TakeOffList(kk, t)
           c == [b EXCEPT !.prio[t] = kk.init[t], !.lock[t] = 0]
           a == AddInactive(c, t)
<1>1. TakenOff(kk, t, b) /\ Thins(kk, b)
  BY TakeOff, TakeOffThins
<1>2. Restarted(kk, t) = a
  BY DEF Restarted
<1> HIDE DEF b
<1>3. b \in KernelState /\ kk \in KernelState /\ b.prio = kk.prio /\ t \in Task
  BY <1>1 DEF TakenOff, Consistent, SameFields, Removable
<1>4. kk.init[t] \in 0..SCHED_PRIORITY_MAX
  BY <1>3 DEF KernelState
<1>5. c \in KernelState /\ c.list = b.list /\ c.prio = [b.prio EXCEPT ![t] = kk.init[t]]
  BY <1>3, <1>4 DEF KernelState
<1> HIDE DEF c
<1>6. Thins(b, a) /\ \A u \in Task \ {t} : a.prio[u] = b.prio[u]
  BY <1>3, <1>5, InactiveElsewhere
<1> HIDE DEF a
<1>7. Thins(kk, a)
  BY <1>1, <1>6, ThinsChain
<1> QED  BY <1>2, <1>3, <1>6, <1>7

\* task_create
LEMMA CreateThins ==
  ASSUME NEW kk \in KernelState, NEW t \in Task, NEW p \in Priority, NEW q \in SUBSET Task,
         NEW n \in 0..RR_TICKS
  PROVE  LET a == AddInactive(NewTcb(kk, t, p, q, n), t)
         IN  Thins(kk, a) /\ \A u \in Task \ {t} : a.prio[u] = kk.prio[u]
<1> DEFINE c == NewTcb(kk, t, p, q, n)
<1>1. p \in 0..SCHED_PRIORITY_MAX
  BY KernelAssumption DEF Priority, SCHED_PRIORITY_MIN
<1>2. c \in KernelState /\ c.list = kk.list /\ c.prio = [kk.prio EXCEPT ![t] = p]
  BY <1>1 DEF KernelState, NewTcb
<1> HIDE DEF c
<1>3. LET a == AddInactive(c, t)
      IN  Thins(kk, a) /\ \A u \in Task \ {t} : a.prio[u] = kk.prio[u]
  BY <1>2, InactiveElsewhere
<1> QED  BY <1>3 DEF c

\* sched_releasetcb
LEMMA ReleaseThins ==
  ASSUME NEW kk \in KernelState, NEW t \in Task
  PROVE  LET a == sched_releasetcb(kk, t)
         IN  Thins(kk, a) /\ \A u \in Task \ {t} : a.prio[u] = kk.prio[u]
<1> DEFINE a == sched_releasetcb(kk, t)
<1>1. /\ a.list = kk.list /\ a.prio = [kk.prio EXCEPT ![t] = 0]
      /\ kk.prio \in [Task -> 0..SCHED_PRIORITY_MAX]
  BY DEF sched_releasetcb, KernelState
<1> HIDE DEF a
<1>2. \A u \in Task \ {t} : a.prio[u] = kk.prio[u]
  BY <1>1
<1>3. Thins(kk, a)
  BY <1>1, SameQueues
<1> QED  BY <1>2, <1>3 DEF a

-----------------------------------------------------------------------------
\* A task that is neither put on a list of blocked tasks nor taken off one, and
\* that exists before and after a step, is runnable before iff it is after.
LEMMA SameRunnable ==
  ASSUME NEW kk, NEW a, kk.state \in [Task -> TaskState], a.state \in [Task -> TaskState],
         NEW X, SameBlocked(kk, a, X),
         \A u \in Task \ X : a.state[u] = "INVALID" <=> kk.state[u] = "INVALID"
  PROVE  \A u \in Task \ X : u \in Runnable(a) <=> u \in Runnable(kk)
<1>1. \A s \in TaskState : s \in {"RUNNING", "READYTORUN", "PENDING"} <=>
                              s \notin BlockedState /\ s # "INVALID"
  BY DEF TaskState, ListName, BlockedState
<1>2. \A u \in Task \ X : a.state[u] \in BlockedState <=> kk.state[u] \in BlockedState
  BY DEF SameBlocked
<1> QED  BY <1>1, <1>2 DEF Runnable

\* What Record does to the order: the tasks that stay keep theirs, and are
\* ahead of the others.
LEMMA Recorded ==
  ASSUME Record
  PROVE  LET stay == (Runnable(k) \cap Runnable(k')) \ SentBack IN
         /\ \A u, v \in stay : <<u, v>> \in ahead => <<u, v>> \in ahead'
         /\ \A u \in stay, v \in Runnable(k') \ stay : <<u, v>> \in ahead'
BY DEF Record

\* No step but sched_yield, the tick and a change of priority sends a task back.
LEMMA NoneSentBack ==
  ASSUME pc[Self].at # "setparam",
         pc' # pc \/ k'.state[Self] # "READYTORUN" \/ Runnable(k') # Runnable(k)
  PROVE  SentBack = {}
BY DEF SentBack

\* A step after which the same tasks or fewer are runnable, in the recorded order.
LEMMA StaysInOrder ==
  ASSUME Record, SentBack = {}, Consistent(k'), Runnable(k') \subseteq Runnable(k),
         InOrder(k', ahead)
  PROVE  InOrder(k', ahead')
<1>1. \A u, v \in Runnable(k') : <<u, v>> \in ahead => <<u, v>> \in ahead'
  BY Recorded
<1>2. Thins(k', k')
  BY SameQueues
<1> QED  BY <1>1, <1>2, ThinsInOrder

\* A step that takes tasks off the two lists, while the running task stays.
LEMMA ThinningStep ==
  ASSUME Record, pc[Self].at # "setparam", Consistent(k'), k'.state[Self] # "READYTORUN",
         Runnable(k') \subseteq Runnable(k), Thins(k, k'),
         \A u \in Runnable(k') : k'.prio[u] = k.prio[u], InOrder(k, ahead)
  PROVE  InOrder(k', ahead')
<1>1. SentBack = {}
  BY NoneSentBack
<1>2. \A u, v \in Runnable(k') : <<u, v>> \in ahead => <<u, v>> \in ahead'
  BY <1>1, Recorded
<1> QED  BY <1>2, ThinsInOrder

-----------------------------------------------------------------------------
\* No call that changes priorities is under way.
NoReprio == \A u \in Task : pc[u].at # "setparam"

\* The inductive invariant for the order.
FifoInv == Inv /\ NoReprio /\ InOrder(k, ahead)

\* What FifoInv says of the running task.
LEMMA FifoSelf ==
  ASSUME FifoInv
  PROVE  /\ Inv /\ Sound(k) /\ Consistent(k) /\ InOrder(k, ahead) /\ pc[Self].at # "setparam"
         /\ Self \in Task /\ Self = this_task(k) /\ k.state[Self] = "RUNNING"
         /\ k \in KernelState /\ k.state \in [Task -> TaskState]
BY SelfRuns DEF FifoInv, NoReprio, Inv, Sound, Self

\* What a step leaves is well formed.
LEMMA FifoNext ==
  ASSUME Inv'
  PROVE  Consistent(k') /\ k'.state \in [Task -> TaskState] /\ HeadRuns(k')
<1>1. Consistent(k') /\ HeadRuns(k')
  BY DEF Inv, Sound
<1>2. k' \in KernelState
  BY <1>1 DEF Consistent
<1> QED  BY <1>1, <1>2 DEF KernelState

\* A step that leaves lists, states and priorities alone.
LEMMA IdleOrder ==
  ASSUME FifoInv, Inv', Record, k'.list = k.list, k'.state = k.state, k'.prio = k.prio
  PROVE  InOrder(k', ahead')
<1>1. Thins(k, k') /\ Runnable(k') = Runnable(k)
  BY SameQueues DEF Runnable
<1> QED  BY <1>1, FifoSelf, FifoNext, ThinningStep

\* sched_lock, the end of sched_unlock, and task_delete up to task_terminate.
LEMMA QuietOrder ==
  ASSUME FifoInv, Inv', Record, SchedLock \/ UnlockResumed \/ \E t \in Task : TaskDelete(t)
  PROVE  InOrder(k', ahead')
<1>1. CASE SchedLock
  BY <1>1, FifoSelf, Lock, IdleOrder DEF SchedLock, Tuned
<1>2. CASE UnlockResumed
  <2>1. k' = k \/ k' = [k EXCEPT !.slice[Self] = RR_TICKS]
    BY <1>2 DEF UnlockResumed, unlock_rr
  <2>2. k'.list = k.list /\ k'.state = k.state /\ k'.prio = k.prio
    BY <2>1, FifoSelf DEF KernelState
  <2> QED  BY <2>2, IdleOrder
<1>3. CASE \E t \in Task : TaskDelete(t)
  BY <1>3, IdleOrder DEF TaskDelete
<1> QED  BY <1>1, <1>2, <1>3

\* sched_unlock: the merged tasks are in order, and a caller that loses the
\* processor is not sent back.
LEMMA UnlockOrder ==
  ASSUME FifoInv, Inv', Record, SchedUnlock \/ SetParamUnlock
  PROVE  InOrder(k', ahead')
<1> DEFINE a == sched_unlock(k)
           c == At("unlock_rr", IDLE, 0)
<1>1. Unlock /\ UNCHANGED pids /\ pc[Self].at # "unlock_rr"
  BY DEF SchedUnlock, SetParamUnlock, User, At
<1>2. QuietStep(k, k')
  BY <1>1, UnlockInv, FifoSelf
<1>3. InOrder(a, ahead) /\ a \in KernelState
  BY FifoSelf, UnlockInOrder, UnlockSound DEF QuietStep, SoundStep, Sound, Consistent
<1>4. k' = a \/ k' = unlock_rr(a, Self)
  BY <1>1 DEF Unlock
<1>5. \/ this_task(a) = Self
      \/ pc' = [pc EXCEPT ![Self] = c]
  BY <1>1 DEF Unlock, Goto
<1> HIDE DEF a
<1>6. k' = a \/ k' = [a EXCEPT !.slice[Self] = RR_TICKS]
  BY <1>4 DEF unlock_rr
<1>7. k'.list = a.list /\ k'.prio = a.prio
  BY ONLY <1>3, <1>6 DEF KernelState
<1>8. InOrder(k', ahead)
  BY <1>3, <1>7 DEF InOrder
<1>9. Runnable(k') = Runnable(k)
  <2>1. \A u \in Task : u \in Runnable(k') <=> u \in Runnable(k)
    BY <1>2, FifoSelf, FifoNext, SameRunnable DEF QuietStep, SoundStep, SameListed
  <2> QED  BY <2>1 DEF Runnable
<1>10. SentBack = {}
  <2>1. CASE this_task(a) = Self
    <3>1. k'.state[Self] = "RUNNING"
      BY <1>7, <2>1, FifoNext DEF HeadRuns, this_task
    <3> QED  BY <3>1, FifoSelf, NoneSentBack
  <2>2. CASE pc' = [pc EXCEPT ![Self] = c]
    <3>1. pc'[Self].at = "unlock_rr"
      BY <2>2, FifoSelf, SelfRuns DEF At
    <3> QED  BY <1>1, <3>1, FifoSelf, NoneSentBack
  <2> QED  BY <1>5, <2>1, <2>2
<1> QED  BY <1>8, <1>9, <1>10, FifoNext, StaysInOrder

\* sched_yield and the tick: the running task goes behind its equals, in the
\* lists and in the record.
LEMMA GiveWayOrder ==
  ASSUME FifoInv, Inv', Record, SchedYield \/ Tick
  PROVE  InOrder(k', ahead')
<1>1. pc' = pc
  BY DEF SchedYield, Tick
<1>2. QuietStep(k, k') /\ MayGiveWay(k, Self, ahead, k')
  <2>1. CASE SchedYield
    BY <2>1, FifoSelf, SetPrioritySound, YieldInOrder DEF SchedYield, PriorityChanged
  <2>2. CASE Tick
    BY <2>2, FifoSelf, RoundRobin, RoundRobinInOrder DEF Tick
  <2> QED  BY <2>1, <2>2
<1>3. Runnable(k') = Runnable(k)
  <2>1. \A u \in Task : u \in Runnable(k') <=> u \in Runnable(k)
    BY <1>2, FifoSelf, FifoNext, SameRunnable DEF QuietStep, SoundStep, SameListed
  <2> QED  BY <2>1 DEF Runnable
<1>4. CASE k'.list = k.list /\ k'.prio = k.prio /\ k'.state = k.state
  BY <1>4, IdleOrder
<1>5. CASE /\ k'.state[Self] = "READYTORUN"
           /\ \A B : BehindOthers(k, Self, ahead, B) => InOrder(k', B)
  <2>1. SentBack = {Self}
    BY <1>1, <1>3, <1>5, FifoSelf DEF SentBack
  <2>2. Self \in Runnable(k)
    BY FifoSelf DEF Runnable
  <2>3. BehindOthers(k, Self, ahead, ahead')
    BY <1>3, <2>1, <2>2, Recorded DEF BehindOthers
  <2> QED  BY <1>5, <2>3
<1> QED  BY <1>2, <1>4, <1>5 DEF MayGiveWay

\* A task that blocks leaves the others in order.
LEMMA BlockOrder ==
  ASSUME FifoInv, Inv', Record, NEW s \in WaitState, Block(s)
  PROVE  InOrder(k', ahead')
<1>1. k' = up_block_task(k, Self, s) /\ Self # IDLE /\ s \in BlockedState
  BY SchedulerAssumption DEF Block
<1>2. TaskBlocked(k, Self, s, k') /\ InOrder(k', ahead)
  BY <1>1, FifoSelf, BlockTask, BlockInOrder
<1>3. k'.state[Self] \in BlockedState
  BY <1>1, <1>2 DEF TaskBlocked
<1>4. Runnable(k') \subseteq Runnable(k)
  <2>1. \A u \in Task \ {Self} : u \in Runnable(k') <=> u \in Runnable(k)
    BY <1>2, FifoSelf, FifoNext, SameRunnable DEF TaskBlocked, SoundStep, SameListed
  <2>2. Self \notin Runnable(k')
    BY <1>3 DEF Runnable, BlockedState
  <2> QED  BY <2>1, <2>2 DEF Runnable
<1>5. SentBack = {}
  BY <1>3, FifoSelf, NoneSentBack DEF BlockedState
<1> QED  BY <1>2, <1>4, <1>5, FifoNext, StaysInOrder

\* A task that is woken or activated goes behind the runnable ones.
LEMMA WakeOrder ==
  ASSUME FifoInv, Inv', Record, NEW t \in Task, k.state[t] \in BlockedState,
         k' = up_unblock_task(k, t)
  PROVE  InOrder(k', ahead')
<1>1. TaskWoken(k, t, k')
  BY FifoSelf, UnblockSound
<1>2. t \in Runnable(k') /\ t \notin Runnable(k)
  BY <1>1 DEF TaskWoken, Runnable, BlockedState
<1>3. Runnable(k) \subseteq Runnable(k')
  <2>1. \A u \in Task \ {t} : u \in Runnable(k') <=> u \in Runnable(k)
    BY <1>1, FifoSelf, FifoNext, SameRunnable DEF TaskWoken, SoundStep, SameListed
  <2> QED  BY <1>2, <2>1 DEF Runnable
<1>4. SentBack = {}
  BY <1>2, FifoSelf, NoneSentBack
<1>5. /\ \A u, v \in Runnable(k) : <<u, v>> \in ahead => <<u, v>> \in ahead'
      /\ \A u \in Runnable(k) : <<u, t>> \in ahead'
  BY <1>2, <1>3, <1>4, Recorded
<1>6. PendingReleased(k)
  BY FifoSelf DEF Sound
<1> QED  BY <1>5, <1>6, FifoSelf, UnblockInOrder

\* task_create and task_restart: the new task is inactive, on neither list.
LEMMA InactiveOrder ==
  ASSUME FifoInv, Inv', Record, NEW t \in Task \ {Self},
         k'.state = [k.state EXCEPT ![t] = "INACTIVE"], Thins(k, k'),
         \A u \in Task \ {t} : k'.prio[u] = k.prio[u]
  PROVE  InOrder(k', ahead')
<1>1. k'.state[t] = "INACTIVE" /\ \A u \in Task \ {t} : k'.state[u] = k.state[u]
  BY FifoSelf
<1>2. Runnable(k') \subseteq Runnable(k) \ {t}
  BY <1>1 DEF Runnable
<1>3. k'.state[Self] # "READYTORUN"
  BY <1>1, FifoSelf
<1>4. \A u \in Runnable(k') : k'.prio[u] = k.prio[u]
  BY <1>2 DEF Runnable
<1> QED  BY <1>2, <1>3, <1>4, FifoSelf, FifoNext, ThinningStep

\* task_create
LEMMA CreateOrder ==
  ASSUME FifoInv, Inv', Record, NEW t \in Task \ {IDLE}, NEW p \in InitPrio, TaskCreate(t, p)
  PROVE  InOrder(k', ahead')
<1> DEFINE q == IF t \in RRTask THEN k.rr \union {t} ELSE k.rr
           n == IF t \in RRTask THEN RR_TICKS ELSE 0
           c == NewTcb(k, t, p, q, n)
<1>1. k' = AddInactive(c, t) /\ t \notin pids
  BY DEF TaskCreate, NewTcb
<1>2. q \in SUBSET Task /\ IDLE \notin q /\ n \in 0..RR_TICKS /\ p \in Priority
  BY FifoSelf, SelfRuns, SchedulerAssumption, KernelAssumption DEF KernelState
<1>3. k.state[t] = "INVALID" /\ t # Self
  BY <1>1, FifoSelf DEF Inv, PidsCover
<1> HIDE DEF q, n
<1>4. MadeInactive(k, t, AddInactive(c, t))
  BY <1>2, <1>3, FifoSelf, CreateSound
<1>5. Thins(k, AddInactive(c, t)) /\ \A u \in Task \ {t} : AddInactive(c, t).prio[u] = k.prio[u]
  BY <1>2, FifoSelf, CreateThins
<1> HIDE DEF c
<1> QED  BY <1>1, <1>3, <1>4, <1>5, InactiveOrder DEF MadeInactive

\* task_restart
LEMMA RestartOrder ==
  ASSUME FifoInv, Inv', Record, NEW t \in Task, TaskRestart(t)
  PROVE  InOrder(k', ahead')
<1>1. t \in Task \ {IDLE, Self} /\ k.state[t] # "INVALID" /\ k' = Restarted(k, t)
  BY DEF TaskRestart, Known
<1>2. Removable(k, t)
  BY <1>1, FifoSelf DEF Removable
<1>3. MadeInactive(k, t, k') /\ Thins(k, k') /\ \A u \in Task \ {t} : k'.prio[u] = k.prio[u]
  BY <1>1, <1>2, FifoSelf, RestartSound, RestartThins
<1> QED  BY <1>1, <1>3, InactiveOrder DEF MadeInactive

\* task_terminate up to task_exithook.
LEMMA TerminateOrder ==
  ASSUME FifoInv, Inv', Record, TaskTerminate
  PROVE  InOrder(k', ahead')
<1> DEFINE t == pc[Self].who
<1>1. t \in Task \ {IDLE, Self}
  BY FifoSelf, SelfRuns DEF GoodCall, CallState, TaskTerminate
<1>2. CASE k' = k
  BY <1>2, IdleOrder
<1>3. CASE k.state[t] # "INVALID" /\ k' = TakeOffList(k, t)
  <2> HIDE DEF t
  <2>1. Removable(k, t)
    BY <1>1, <1>3, FifoSelf DEF Removable
  <2>2. TakenOff(k, t, k') /\ Thins(k, k')
    BY <1>3, <2>1, TakeOff, TakeOffThins
  <2>3. k'.state = [k.state EXCEPT ![t] = "INVALID"] /\ k'.prio = k.prio
    BY <2>2 DEF TakenOff, SameFields
  <2>4. k'.state[t] = "INVALID" /\ \A u \in Task \ {t} : k'.state[u] = k.state[u]
    BY <1>1, <2>3, FifoSelf
  <2>5. Runnable(k') \subseteq Runnable(k)
    BY <2>4 DEF Runnable
  <2>6. k'.state[Self] # "READYTORUN"
    BY <1>1, <2>4, FifoSelf
  <2> QED  BY <2>2, <2>3, <2>5, <2>6, FifoSelf, FifoNext, ThinningStep
<1> QED  BY <1>2, <1>3 DEF TaskTerminate

\* The end of task_terminate: the task it frees is on no list.
LEMMA ReleaseOrder ==
  ASSUME FifoInv, Inv', Record, TaskRelease
  PROVE  InOrder(k', ahead')
<1> DEFINE t == pc[Self].who
<1>1. pc[Self].at = "exithook" /\ k' = sched_releasetcb(k, t)
  BY DEF TaskRelease
<1>2. t \in Task \ {IDLE} /\ k.state[t] = "INVALID" /\ t # Self
  BY <1>1, FifoSelf, SelfRuns DEF GoodCall, CallState, Inv, ExitsPending
<1> HIDE DEF t
<1>3. k'.state = k.state
  BY <1>1, <1>2, FifoSelf, ReleaseTcb
<1>4. Thins(k, k') /\ \A u \in Task \ {t} : k'.prio[u] = k.prio[u]
  BY <1>1, <1>2, FifoSelf, ReleaseThins
<1>5. Runnable(k') \subseteq Runnable(k) \ {t}
  BY <1>2, <1>3 DEF Runnable
<1>6. \A u \in Runnable(k') : k'.prio[u] = k.prio[u]
  BY <1>4, <1>5 DEF Runnable
<1> QED  BY <1>3, <1>4, <1>5, <1>6, FifoSelf, FifoNext, ThinningStep

\* _exit: the others stay in order, and the task that is woken goes behind them.
LEMMA ExitOrder ==
  ASSUME FifoInv, Inv', Record, NEW W \in ExitWakes, TaskExit(W)
  PROVE  InOrder(k', ahead')
<1> DEFINE w == CHOOSE x \in W : TRUE
<1>1. Self # IDLE /\ k' = task_exit(k, W)
  BY DEF TaskExit
<1>2. \A x \in W : x \in Task /\ k.state[x] = "WAIT_SEM"
  BY DEF ExitWakes
<1>3. /\ \A u \in Task : k'.state[u] = "INVALID" <=> u = Self \/ k.state[u] = "INVALID"
      /\ SameBlocked(k, k', W \union {Self})
  BY <1>1, <1>2, FifoSelf, ExitSound
<1>4. \A u \in Task \ (W \union {Self}) : u \in Runnable(k') <=> u \in Runnable(k)
  BY <1>3, FifoSelf, FifoNext, SameRunnable
<1>5. \A u \in W : u \notin Runnable(k)
  BY <1>2 DEF Runnable
<1>6. Runnable(k) \ {Self} \subseteq Runnable(k')
  BY <1>4, <1>5 DEF Runnable
<1>7. k'.state[Self] = "INVALID"
  BY <1>3, FifoSelf
<1>8. SentBack = {}
  BY <1>7, FifoSelf, NoneSentBack
<1>9. \A u, v \in Runnable(k) \ {Self} : <<u, v>> \in ahead => <<u, v>> \in ahead'
  BY <1>6, <1>8, Recorded
<1>10. W # {} => \A u \in Runnable(k) \ {Self} : <<u, w>> \in ahead'
  <2>1. SUFFICES ASSUME W # {} PROVE \A u \in Runnable(k) \ {Self} : <<u, w>> \in ahead'
    OBVIOUS
  <2>2. w \in W
    BY <2>1
  <2>3. w \in Runnable(k')
    BY <1>1, <1>2, <2>1, FifoSelf, ExitWakesRunnable
  <2> HIDE DEF w
  <2>4. w \notin Runnable(k)
    BY <1>5, <2>2
  <2> QED  BY <1>6, <1>8, <2>3, <2>4, Recorded
<1>11. Sound(k) /\ Self = this_task(k) /\ InOrder(k, ahead)
  BY FifoSelf
<1>12. InOrder(task_exit(k, W), ahead')
  BY <1>1, <1>2, <1>9, <1>10, <1>11, ExitInOrder
<1> QED  BY <1>1, <1>12

\* No call of an instance without sched_setparam and sched_setscheduler is on
\* its way to change a priority.
LEMMA NoReprioKept ==
  ASSUME FifoInv, Next, "sched_setparam" \notin Calls, "sched_setscheduler" \notin Calls
  PROVE  NoReprio'
<1> DEFINE Other == {c \in CallState : c.at # "setparam"}
<1>1. pc \in [Task -> Other] /\ Self \in Task
  BY FifoSelf, SelfRuns DEF FifoInv, NoReprio
<1>2. SUFFICES pc' \in [Task -> Other]
  BY DEF NoReprio
<1>3. \A l \in Label \ {"setparam"}, t \in Task : At(l, t, 0) \in Other
  BY CallPlaces DEF At
<1>4. User \in Other /\ At("unlock_rr", IDLE, 0) \in Other
  BY <1>3, KernelAssumption DEF User, Label
<1>5. \A c \in Other : [pc EXCEPT ![Self] = c] \in [Task -> Other]
  BY <1>1
<1> HIDE DEF Other
<1>6. ASSUME NEW t \in Task
      PROVE  /\ At("activate", t, 0) \in Other /\ At("reactivate", t, 0) \in Other
             /\ At("terminate", t, 0) \in Other /\ At("exithook", t, 0) \in Other
  BY <1>3 DEF Label
<1>7. pc[Self].who \in Task
  BY <1>1, SelfRuns, FifoSelf DEF CallState
<1>8. CASE \/ SchedLock \/ SchedYield \/ Tick \/ (\E s \in WaitState : Block(s))
           \/ \E t \in Task : Unblock(t)
  BY <1>1, <1>8 DEF SchedLock, SchedYield, Tick, Block, Unblock
<1>9. CASE SchedUnlock \/ SetParamUnlock \/ UnlockResumed \/ TaskActivate
           \/ \E W \in ExitWakes : TaskExit(W)
  BY <1>4, <1>5, <1>9
     DEF SchedUnlock, SetParamUnlock, Unlock, UnlockResumed, TaskActivate, TaskExit, Goto
<1>10. CASE \/ \E t \in Task \ {IDLE}, p \in InitPrio : TaskCreate(t, p)
            \/ \E t \in Task : TaskDelete(t)
  BY <1>5, <1>6, <1>10 DEF TaskCreate, TaskDelete, Goto
<1>11. CASE TaskTerminate
  BY <1>4, <1>5, <1>6, <1>7, <1>11 DEF TaskTerminate, Goto
<1>12. CASE TaskRelease
  BY <1>1, <1>4, <1>12 DEF TaskRelease
<1>13. CASE \E t \in Task : TaskRestart(t)
  BY <1>1, <1>4, <1>6, <1>13 DEF TaskRestart
<1>14. ~Reprioritize
  BY FifoSelf DEF Reprioritize
<1> QED  BY <1>8, <1>9, <1>10, <1>11, <1>12, <1>13, <1>14 DEF Next, AppCall

\* Every step keeps the order.
LEMMA FifoStep ==
  ASSUME FifoInv, OrderNext, "sched_setparam" \notin Calls, "sched_setscheduler" \notin Calls
  PROVE  FifoInv'
<1>1. Inv' /\ Record /\ Next
  BY FifoSelf, NextInv DEF OrderNext
<1>2. NoReprio'
  BY <1>1, NoReprioKept
<1>3. InOrder(k', ahead')
  <2>1. CASE SchedLock \/ UnlockResumed \/ \E t \in Task : TaskDelete(t)
    BY <1>1, <2>1, QuietOrder
  <2>2. CASE SchedUnlock \/ SetParamUnlock
    BY <1>1, <2>2, UnlockOrder
  <2>3. CASE SchedYield \/ Tick
    BY <1>1, <2>3, GiveWayOrder
  <2>4. CASE \E s \in WaitState : Block(s)
    BY <1>1, <2>4, BlockOrder
  <2>5. CASE \E t \in Task : Unblock(t)
    <3>1. PICK t \in Task : Unblock(t)
      BY <2>5
    <3>2. k.state[t] \in BlockedState /\ k' = up_unblock_task(k, t)
      BY <3>1, SchedulerAssumption DEF Unblock
    <3> QED  BY <1>1, <3>2, WakeOrder
  <2>6. CASE TaskActivate
    <3>1. pc[Self].who \in Task
      BY FifoSelf, SelfRuns DEF CallState
    <3> QED  BY <1>1, <2>6, <3>1, WakeOrder DEF TaskActivate
  <2>7. CASE \E t \in Task \ {IDLE}, p \in InitPrio : TaskCreate(t, p)
    BY <1>1, <2>7, CreateOrder
  <2>8. CASE \E t \in Task : TaskRestart(t)
    BY <1>1, <2>8, RestartOrder
  <2>9. CASE TaskTerminate
    BY <1>1, <2>9, TerminateOrder
  <2>10. CASE TaskRelease
    BY <1>1, <2>10, ReleaseOrder
  <2>11. CASE \E W \in ExitWakes : TaskExit(W)
    BY <1>1, <2>11, ExitOrder
  <2>12. ~Reprioritize
    BY FifoSelf DEF Reprioritize
  <2> QED  BY <1>1, <2>1, <2>2, <2>3, <2>4, <2>5, <2>6, <2>7, <2>8, <2>9, <2>10, <2>11, <2>12
           DEF Next, AppCall
<1> QED  BY <1>1, <1>2, <1>3 DEF FifoInv

\* At first the idle task is alone.
LEMMA FifoStart == OrderInit => FifoInv
<1> SUFFICES ASSUME OrderInit PROVE FifoInv
  OBVIOUS
<1>1. Inv /\ k = os_start
  BY InitInv DEF OrderInit, Init
<1>2. NoReprio
  BY DEF OrderInit, Init, NoReprio, User, At
<1>3. k.list["READYTORUN"] = <<IDLE>> /\ k.list["PENDING"] = <<>>
  BY <1>1 DEF os_start, ListName
<1>4. InOrder(k, ahead)
  BY <1>3 DEF InOrder, Fifo, Above
<1> QED  BY <1>1, <1>2, <1>4 DEF FifoInv

\* Tasks of equal priority are scheduled first in, first out, whatever the
\* tasks, the priorities, the bound on nested locks and the calls they make
\* that do not change a priority: sched_lock, sched_yield, blocking, the tick,
\* task creation, restart, deletion and exit.  (sched_setparam of a task that
\* waits on g_pendingtasks leaves it there with a priority that a task on
\* g_readytorun may have: their order is then lost.)
THEOREM EqualPriorityAlwaysFifo ==
  ASSUME "sched_setparam" \notin Calls, "sched_setscheduler" \notin Calls
  PROVE  OrderSpec => []EqualPriorityFifo
<1>1. FifoInv /\ [OrderNext]_<<vars, ahead>> => FifoInv'
  <2> SUFFICES ASSUME FifoInv, [OrderNext]_<<vars, ahead>> PROVE FifoInv'
    OBVIOUS
  <2>1. CASE OrderNext
    BY <2>1, FifoStep
  <2>2. CASE UNCHANGED <<vars, ahead>>
    <3>1. Inv'
      BY <2>2, FifoSelf, NextInv
    <3> QED  BY <2>2, <3>1 DEF vars, FifoInv, NoReprio, InOrder
  <2> QED  BY <2>1, <2>2
<1>2. FifoInv => EqualPriorityFifo
  BY DEF FifoInv, InOrder, Fifo, EqualPriorityFifo
<1> QED  BY FifoStart, <1>1, <1>2, PTL DEF OrderSpec
=============================================================================
