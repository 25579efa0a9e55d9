-------------------------- MODULE SemaphoreProofs ---------------------------
(***************************************************************************)
(* The semaphores' promises, for any number of tasks and semaphores: what  *)
(* the counts say of the waiters, what a resumed wait reports, whom a post *)
(* wakes, and that Semaphore implements AbsSemaphore.                      *)
(***************************************************************************)
EXTENDS Semaphore, KernelProofs, FiniteSetTheorems

\* The ledger of the semaphores: counts c, recorded waits w, the tasks A that
\* are asleep and the tasks D that are on no list.
Deficit(n) == IF n < 0 THEN 0 - n ELSE 0
WaitsOn(w, A, s) == {t \in A : w[t] = s}

\* A count below zero owes a permit to every task asleep, and to tasks that
\* recorded a wait only: those asleep and those deleted in their sleep.
Balanced(c, w, A, s) ==
  /\ Cardinality(WaitsOn(w, A, s)) <= Deficit(c[s])
  /\ Deficit(c[s]) <= Cardinality(WaitsOn(w, Task, s))

Ledger(c, w, A, D) ==
  /\ c \in [Sem -> Int] /\ w \in [Task -> Sem \union {NULL}] /\ A \subseteq Task
  /\ \A s \in Sem : Balanced(c, w, A, s)
  /\ \A t \in A : w[t] \in Sem
  /\ \A t \in Task : w[t] # NULL => t \in A \union D

\* Sets of tasks are finite.
LEMMA TasksFinite ==
  ASSUME NEW S \in SUBSET Task
  PROVE  /\ IsFiniteSet(S) /\ Cardinality(S) \in Nat
         /\ Cardinality(S) = 0 <=> S = {}
<1>1. IsFiniteSet(S)
  BY SemaphoreAssumption, FS_Subset
<1> QED  BY <1>1, FS_CardinalityType, FS_EmptySet

\* A set with one task less, or one more, has a cardinality one less or more.
LEMMA OneLess ==
  ASSUME NEW S \in SUBSET Task, NEW t \in S
  PROVE  Cardinality(S \ {t}) = Cardinality(S) - 1
BY TasksFinite, FS_RemoveElement

\* A set with one task more has a cardinality one more.
LEMMA OneMore ==
  ASSUME NEW S \in SUBSET Task, NEW t \in Task \ S
  PROVE  Cardinality(S \union {t}) = Cardinality(S) + 1
BY TasksFinite, FS_AddElement

\* A wait ends without the permit going elsewhere (sem_post to a waiter,
\* sem_waitirq, sem_recover): the count goes up as the task leaves.
LEMMA WaitEnds ==
  ASSUME NEW c, NEW w, NEW A, NEW D, Ledger(c, w, A, D), NEW t \in A
  PROVE  Ledger([c EXCEPT ![w[t]] = @ + 1], [w EXCEPT ![t] = NULL], A \ {t}, D)
<1> DEFINE e == [c EXCEPT ![w[t]] = @ + 1]
           v == [w EXCEPT ![t] = NULL]
<1>1. /\ c \in [Sem -> Int] /\ w \in [Task -> Sem \union {NULL}] /\ A \subseteq Task
      /\ w[t] \in Sem /\ t \in Task /\ NULL \notin Sem
  BY SemaphoreAssumption DEF Ledger
<1>2. e \in [Sem -> Int] /\ v \in [Task -> Sem \union {NULL}]
  BY <1>1
<1>3. ASSUME NEW s \in Sem PROVE Balanced(e, v, A \ {t}, s)
  <2> DEFINE W == WaitsOn(w, A, s)
             R == WaitsOn(w, Task, s)
  <2>1. W \in SUBSET Task /\ R \in SUBSET Task /\ Balanced(c, w, A, s)
    BY <1>1 DEF Ledger, WaitsOn
  <2>0. Cardinality(W) <= Deficit(c[s]) /\ Deficit(c[s]) <= Cardinality(R)
    BY <2>1 DEF Balanced
  <2>2. CASE s = w[t]
    <3>1. /\ WaitsOn(v, A \ {t}, s) = W \ {t} /\ t \in W
          /\ WaitsOn(v, Task, s) = R \ {t} /\ t \in R
      BY <1>1, <2>2 DEF WaitsOn
    <3>2. /\ Cardinality(W \ {t}) = Cardinality(W) - 1 /\ Cardinality(W) \in Nat
          /\ Cardinality(R \ {t}) = Cardinality(R) - 1 /\ Cardinality(R) \in Nat
          /\ Cardinality(W) # 0
      BY <2>1, <3>1, OneLess, TasksFinite
    <3>3. e[s] = c[s] + 1 /\ c[s] \in Int
      BY <1>1, <2>2
    <3> HIDE DEF W, R, e, v
    <3>4. Cardinality(W) - 1 <= Deficit(e[s]) /\ Deficit(e[s]) <= Cardinality(R) - 1
      BY <2>0, <3>2, <3>3 DEF Deficit
    <3> QED  BY <3>1, <3>2, <3>4 DEF Balanced
  <2>3. CASE s # w[t]
    <3>1. WaitsOn(v, A \ {t}, s) = W /\ WaitsOn(v, Task, s) = R /\ e[s] = c[s]
      BY <1>1, <2>3 DEF WaitsOn
    <3> QED  BY <2>1, <3>1 DEF Balanced
  <2> QED  BY <2>2, <2>3
<1>4. /\ \A u \in A \ {t} : v[u] \in Sem
      /\ \A u \in Task : v[u] # NULL => u \in (A \ {t}) \union D
  BY <1>1 DEF Ledger
<1> QED  BY <1>1, <1>2, <1>3, <1>4 DEF Ledger

\* A wait begins (sem_wait without a permit).
LEMMA WaitBegins ==
  ASSUME NEW c, NEW w, NEW A, NEW D, Ledger(c, w, A, D),
         NEW t \in Task \ (A \union D), NEW s \in Sem, c[s] <= 0
  PROVE  Ledger([c EXCEPT ![s] = @ - 1], [w EXCEPT ![t] = s], A \union {t}, D)
<1> DEFINE e == [c EXCEPT ![s] = @ - 1]
           v == [w EXCEPT ![t] = s]
<1>1. /\ c \in [Sem -> Int] /\ w \in [Task -> Sem \union {NULL}] /\ A \subseteq Task
      /\ w[t] = NULL /\ NULL \notin Sem
  BY SemaphoreAssumption DEF Ledger
<1>2. e \in [Sem -> Int] /\ v \in [Task -> Sem \union {NULL}]
  BY <1>1
<1>3. ASSUME NEW q \in Sem PROVE Balanced(e, v, A \union {t}, q)
  <2> DEFINE W == WaitsOn(w, A, q)
             R == WaitsOn(w, Task, q)
  <2>1. W \in SUBSET Task /\ R \in SUBSET Task /\ Balanced(c, w, A, q)
    BY <1>1 DEF Ledger, WaitsOn
  <2>0. Cardinality(W) <= Deficit(c[q]) /\ Deficit(c[q]) <= Cardinality(R)
    BY <2>1 DEF Balanced
  <2>2. CASE q = s
    <3>1. /\ WaitsOn(v, A \union {t}, q) = W \union {t} /\ t \notin W
          /\ WaitsOn(v, Task, q) = R \union {t} /\ t \notin R
      BY <1>1, <2>2 DEF WaitsOn
    <3>2. /\ Cardinality(W \union {t}) = Cardinality(W) + 1 /\ Cardinality(W) \in Nat
          /\ Cardinality(R \union {t}) = Cardinality(R) + 1 /\ Cardinality(R) \in Nat
      BY <2>1, <3>1, OneMore, TasksFinite
    <3>3. e[q] = c[q] - 1 /\ c[q] \in Int /\ c[q] <= 0
      BY <1>1, <2>2
    <3> HIDE DEF W, R, e, v
    <3>4. Cardinality(W) + 1 <= Deficit(e[q]) /\ Deficit(e[q]) <= Cardinality(R) + 1
      BY <2>0, <3>2, <3>3 DEF Deficit
    <3> QED  BY <3>1, <3>2, <3>4 DEF Balanced
  <2>3. CASE q # s
    <3>1. WaitsOn(v, A \union {t}, q) = W /\ WaitsOn(v, Task, q) = R /\ e[q] = c[q]
      BY <1>1, <2>3 DEF WaitsOn
    <3> QED  BY <2>1, <3>1 DEF Balanced
  <2> QED  BY <2>2, <2>3
<1>4. /\ \A u \in A \union {t} : v[u] \in Sem
      /\ \A u \in Task : v[u] # NULL => u \in (A \union {t}) \union D
  BY <1>1 DEF Ledger
<1> QED  BY <1>1, <1>2, <1>3, <1>4 DEF Ledger

\* The count changes and nobody waits: a permit is taken, posted or assigned.
LEMMA NobodyWaits ==
  ASSUME NEW c, NEW w, NEW A, NEW D, Ledger(c, w, A, D), NEW s \in Sem, NEW n \in Int,
         WaitsOn(w, A, s) = {}, n >= 0 \/ n >= c[s]
  PROVE  Ledger([c EXCEPT ![s] = n], w, A, D)
<1> DEFINE e == [c EXCEPT ![s] = n]
<1>1. /\ c \in [Sem -> Int] /\ w \in [Task -> Sem \union {NULL}] /\ A \subseteq Task
  BY DEF Ledger
<1>2. ASSUME NEW q \in Sem PROVE Balanced(e, w, A, q)
  <2>1. Balanced(c, w, A, q)
    BY DEF Ledger
  <2>2. CASE q = s
    <3>1. WaitsOn(w, Task, q) \in SUBSET Task /\ WaitsOn(w, A, q) \in SUBSET Task
      BY <1>1 DEF WaitsOn
    <3>2. Cardinality(WaitsOn(w, Task, q)) \in Nat /\ Cardinality(WaitsOn(w, A, q)) = 0
      BY <2>2, <3>1, TasksFinite
    <3>3. e[q] = n /\ c[q] \in Int
      BY <1>1, <2>2
    <3> QED  BY <2>1, <2>2, <3>2, <3>3 DEF Balanced, Deficit
  <2>3. CASE q # s
    BY <1>1, <2>1, <2>3 DEF Balanced
  <2> QED  BY <2>2, <2>3
<1> QED  BY <1>1, <1>2 DEF Ledger

\* A permit may exist only while nobody is asleep for it.
LEMMA PermitMeansNobody ==
  ASSUME NEW c, NEW w, NEW A, NEW D, Ledger(c, w, A, D), NEW s \in Sem, c[s] >= 0
  PROVE  WaitsOn(w, A, s) = {}
<1>1. WaitsOn(w, A, s) \in SUBSET Task /\ c[s] \in Int /\ Balanced(c, w, A, s)
  BY DEF Ledger, WaitsOn
<1>2. Cardinality(WaitsOn(w, A, s)) = 0
  BY <1>1, TasksFinite DEF Balanced, Deficit
<1> QED  BY <1>1, <1>2, TasksFinite

\* A task is taken off its list while it sleeps: its wait stays recorded.
LEMMA SleeperDies ==
  ASSUME NEW c, NEW w, NEW A, NEW D, Ledger(c, w, A, D), NEW t \in Task
  PROVE  Ledger(c, w, A \ {t}, D \union {t})
<1>1. /\ c \in [Sem -> Int] /\ w \in [Task -> Sem \union {NULL}] /\ A \subseteq Task
  BY DEF Ledger
<1>2. ASSUME NEW s \in Sem PROVE Balanced(c, w, A \ {t}, s)
  <2>1. /\ WaitsOn(w, A, s) \in SUBSET Task /\ Balanced(c, w, A, s) /\ c[s] \in Int
        /\ WaitsOn(w, A \ {t}, s) \in SUBSET WaitsOn(w, A, s)
    BY <1>1 DEF Ledger, WaitsOn
  <2>2. /\ Cardinality(WaitsOn(w, A \ {t}, s)) <= Cardinality(WaitsOn(w, A, s))
        /\ Cardinality(WaitsOn(w, A \ {t}, s)) \in Nat /\ Cardinality(WaitsOn(w, A, s)) \in Nat
    BY <2>1, TasksFinite, FS_Subset
  <2> QED  BY <2>1, <2>2 DEF Balanced, Deficit
<1> QED  BY <1>1, <1>2 DEF Ledger
-----------------------------------------------------------------------------
\* The tasks asleep on a semaphore, and those on no list.
Asleep(k) == {t \in Task : k.state[t] = "WAIT_SEM"}
Dead(k) == {t \in Task : k.state[t] = "INVALID"}
Sleeping(k, a, A) == Asleep(a) = A /\ Dead(a) = Dead(k)

\* up_block_task puts one task to sleep.
LEMMA BlockSleeps ==
  ASSUME NEW k, NEW a, NEW t \in Task, TaskBlocked(k, t, "WAIT_SEM", a)
  PROVE  Sleeping(k, a, Asleep(k) \union {t})
BY DEF TaskBlocked, SoundStep, SameListed, SameBlocked, Sleeping, Asleep, Dead, BlockedState

\* up_unblock_task wakes one.
LEMMA WokenAwake ==
  ASSUME NEW k, NEW a, NEW t \in Task, TaskWoken(k, t, a)
  PROVE  Sleeping(k, a, Asleep(k) \ {t})
BY DEF TaskWoken, SoundStep, SameListed, SameBlocked, Sleeping, Asleep, Dead, BlockedState

\* Locks, priorities and time slices put nobody to sleep and wake nobody.
LEMMA QuietSleep ==
  ASSUME NEW k, NEW a, QuietStep(k, a)
  PROVE  Sleeping(k, a, Asleep(k))
BY DEF QuietStep, SoundStep, SameListed, SameBlocked, Sleeping, Asleep, Dead, BlockedState

\* A restarted task is awake.
LEMMA RestartAwake ==
  ASSUME NEW k, NEW b, NEW a, NEW t \in Task, k \in KernelState, k.state[t] # "INVALID",
         MadeInactive(k, t, b), TaskWoken(b, t, a)
  PROVE  Sleeping(k, a, Asleep(k) \ {t})
<1>1. Sleeping(b, a, Asleep(b) \ {t})
  BY WokenAwake
<1>2. b.state = [k.state EXCEPT ![t] = "INACTIVE"] /\ k.state \in [Task -> TaskState]
  BY DEF MadeInactive, KernelState
<1>3. Asleep(b) \ {t} = Asleep(k) \ {t} /\ Dead(b) = Dead(k)
  BY <1>2 DEF Asleep, Dead
<1> QED  BY <1>1, <1>3 DEF Sleeping

\* A deleted task is on no list.
LEMMA DeletedDead ==
  ASSUME NEW k, NEW a, NEW t \in Task, TakenOff(k, t, a)
  PROVE  Asleep(a) = Asleep(k) \ {t} /\ Dead(a) = Dead(k) \union {t}
<1>1. a.state = [k.state EXCEPT ![t] = "INVALID"] /\ k.state \in [Task -> TaskState]
  BY DEF TakenOff
<1> QED  BY <1>1 DEF Asleep, Dead

SemState ==
  [ k : KernelState, count : [Sem -> Int], waitsem : [Task -> Sem \union {NULL}],
    errno : [Task -> Errno], granted : SUBSET Task ]

LedgerOf(zz) == Ledger(zz.count, zz.waitsem, Asleep(zz.k), Dead(zz.k))

\* What the semaphore functions rely on and keep: the task lists are sound,
\* the ledger is balanced, and a task asleep has no outcome yet.
SemSound(zz) ==
  /\ zz \in SemState /\ Sound(zz.k) /\ LedgerOf(zz)
  /\ \A t \in Asleep(zz.k) : zz.errno[t] = "OK" /\ t \notin zz.granted

\* A semaphore state with the given fields.
Entry(zz, a, c, w, e, g) ==
  [zz EXCEPT !.k = a, !.count = c, !.waitsem = w, !.errno = e, !.granted = g]

IsEntry(y, a, c, w, e, g) ==
  /\ y \in SemState
  /\ y.k = a /\ y.count = c /\ y.waitsem = w /\ y.errno = e /\ y.granted = g

\* The fields of such a state are the ones given.
LEMMA EntryFields ==
  ASSUME NEW zz \in SemState, NEW a \in KernelState, NEW c \in [Sem -> Int],
         NEW w \in [Task -> Sem \union {NULL}], NEW e \in [Task -> Errno],
         NEW g \in SUBSET Task
  PROVE  IsEntry(Entry(zz, a, c, w, e, g), a, c, w, e, g)
BY DEF SemState, Entry, IsEntry

\* The tasks of W are handed the permits that were posted on s: no more
\* urgent waiter is left behind.
Handed(zz, s, y, W) ==
  /\ SemSound(y) /\ W \subseteq WaitsOn(zz.waitsem, Asleep(zz.k), s)
  /\ Sleeping(zz.k, y.k, Asleep(zz.k) \ W)
  /\ y.waitsem = [t \in Task |-> IF t \in W THEN NULL ELSE zz.waitsem[t]]
  /\ y.errno = zz.errno /\ y.granted = zz.granted \union W /\ y.k.prio = zz.k.prio
  /\ \A q \in Sem \ {s} : y.count[q] = zz.count[q]
  /\ \A t \in W, u \in WaitsOn(y.waitsem, Asleep(y.k), s) : zz.k.prio[u] <= zz.k.prio[t]

\* The search of sem_post finds the first, hence the most urgent, waiter.
LEMMA FirstWaiterFound ==
  ASSUME NEW zz, SemSound(zz), NEW s, HasWaiter(zz, s)
  PROVE  /\ FirstWaiter(zz, s) \in WaitsOn(zz.waitsem, Asleep(zz.k), s)
         /\ \A u \in WaitsOn(zz.waitsem, Asleep(zz.k), s) :
              zz.k.prio[u] <= zz.k.prio[FirstWaiter(zz, s)]
<1> DEFINE l == zz.k.list["WAIT_SEM"]
           First(i) == /\ zz.waitsem[l[i]] = s
                       /\ \A j \in 1..(i - 1) : zz.waitsem[l[j]] # s
           f == CHOOSE i \in 1..Len(l) : First(i)
           T == {i \in 1..Len(l) : zz.waitsem[l[i]] = s}
<1>1. /\ zz.k \in KernelState /\ "WAIT_SEM" \in ListName /\ TLIST_ISPRIORITIZED("WAIT_SEM")
      /\ Lists(l, On(zz.k, "WAIT_SEM")) /\ Sorted(l, zz.k.prio)
  BY DEF SemSound, Sound, Consistent, ListsHold, PrioritizedSorted, ListName, BlockedState,
         TLIST_ISPRIORITIZED
<1>2. /\ l \in Seq(Task) /\ Len(l) \in Nat /\ l \in [1..Len(l) -> Task]
      /\ \A t \in Task : InList(l, t) <=> t \in Asleep(zz.k)
  BY <1>1, LenProperties DEF Lists, On, Asleep, TLIST_HEAD
<1> HIDE DEF l
<1>3. T \in SUBSET Nat /\ T # {}
  <2>1. PICK t \in Task : InList(l, t) /\ zz.waitsem[t] = s
    BY DEF HasWaiter, l
  <2>2. PICK n \in 1..Len(l) : l[n] = t
    BY <2>1 DEF InList
  <2> QED  BY <1>2, <2>1, <2>2
<1>4. PICK m \in T : \A n \in T : m <= n
  BY <1>3, LeastElement
<1>5. First(m) /\ m \in 1..Len(l)
  BY <1>2, <1>4
<1>6. f \in 1..Len(l) /\ First(f)
  BY <1>5
<1>7. FirstWaiter(zz, s) = l[f]
  BY DEF FirstWaiter, l
<1> HIDE DEF f
<1>8. l[f] \in Task /\ InList(l, l[f])
  BY <1>2, <1>6 DEF InList
<1>9. l[f] \in WaitsOn(zz.waitsem, Asleep(zz.k), s)
  BY <1>2, <1>6, <1>8 DEF WaitsOn
<1>10. ASSUME NEW u \in WaitsOn(zz.waitsem, Asleep(zz.k), s)
       PROVE  zz.k.prio[u] <= zz.k.prio[l[f]]
  <2>1. u \in Task /\ InList(l, u) /\ zz.waitsem[u] = s
    BY <1>2 DEF WaitsOn, Asleep
  <2>2. PICK n \in 1..Len(l) : l[n] = u
    BY <2>1 DEF InList
  <2>3. f <= n
    BY <1>2, <1>6, <2>1, <2>2
  <2>4. zz.k.prio[u] \in Int /\ zz.k.prio[l[f]] \in Int
    BY <1>1, <1>8, <2>1, KernelAssumption DEF KernelState
  <2> QED  BY <1>1, <1>2, <1>6, <2>2, <2>3, <2>4 DEF Sorted
<1> QED  BY <1>7, <1>9, <1>10

\* sem_post finds a waiter exactly if a task is asleep on the semaphore.
LEMMA HasWaiterMeans ==
  ASSUME NEW zz, SemSound(zz), NEW s
  PROVE  HasWaiter(zz, s) <=> WaitsOn(zz.waitsem, Asleep(zz.k), s) # {}
<1>1. Lists(zz.k.list["WAIT_SEM"], On(zz.k, "WAIT_SEM"))
  BY DEF SemSound, Sound, Consistent, ListsHold, ListName, BlockedState
<1>2. \A t \in Task : InList(zz.k.list["WAIT_SEM"], t) <=> t \in Asleep(zz.k)
  BY <1>1 DEF Lists, On, Asleep, TLIST_HEAD
<1> QED  BY <1>2 DEF HasWaiter, WaitsOn, Asleep

\* One task leaves: the state after up_unblock_task.
LEMMA Wakes ==
  ASSUME NEW zz, SemSound(zz), NEW t \in Asleep(zz.k)
  PROVE  /\ Sound(up_unblock_task(zz.k, t)) /\ up_unblock_task(zz.k, t) \in KernelState
         /\ up_unblock_task(zz.k, t).prio = zz.k.prio
         /\ Sleeping(zz.k, up_unblock_task(zz.k, t), Asleep(zz.k) \ {t})
<1> DEFINE a == up_unblock_task(zz.k, t)
<1>1. t \in Task /\ zz.k.state[t] \in BlockedState /\ Sound(zz.k)
  BY DEF Asleep, BlockedState, SemSound
<1>2. TaskWoken(zz.k, t, a)
  BY <1>1, UnblockSound
<1> HIDE DEF a
<1>3. Sound(a) /\ a.prio = zz.k.prio /\ Sleeping(zz.k, a, Asleep(zz.k) \ {t})
  BY <1>1, <1>2, WokenAwake DEF TaskWoken, SoundStep, SameFields
<1> QED  BY <1>3 DEF Sound, Consistent, a

IsPosted(zz, s, y, W) ==
  /\ Handed(zz, s, y, W) /\ y.count[s] = zz.count[s] + 1
  /\ \/ W = {} /\ WaitsOn(zz.waitsem, Asleep(zz.k), s) = {}
     \/ \E t : W = {t}

\* sem_post gives its permit to one waiter, if there is one.
LEMMA PostSound ==
  ASSUME NEW zz, SemSound(zz), NEW s \in Sem
  PROVE  \E W : IsPosted(zz, s, sem_post(zz, s), W)
<1> DEFINE y == sem_post(zz, s)
           c == [zz.count EXCEPT ![s] = @ + 1]
           t == FirstWaiter(zz, s)
           A == Asleep(zz.k)
<1>0. /\ zz \in SemState /\ zz.k \in KernelState /\ zz.count \in [Sem -> Int]
      /\ zz.waitsem \in [Task -> Sem \union {NULL}] /\ zz.errno \in [Task -> Errno]
      /\ zz.granted \subseteq Task /\ LedgerOf(zz) /\ A \subseteq Task /\ Sound(zz.k)
  BY DEF SemSound, SemState, Asleep
<1>1. CASE c[s] <= 0 /\ HasWaiter(zz, s)
  <2> DEFINE a == up_unblock_task(zz.k, t)
             w == [zz.waitsem EXCEPT ![t] = NULL]
             g == zz.granted \union {t}
  <2>1. /\ t \in WaitsOn(zz.waitsem, A, s)
        /\ \A u \in WaitsOn(zz.waitsem, A, s) : zz.k.prio[u] <= zz.k.prio[t]
    BY <1>1, FirstWaiterFound
  <2> HIDE DEF t
  <2>2. t \in A /\ t \in Task /\ zz.waitsem[t] = s
    BY <1>0, <2>1 DEF WaitsOn
  <2>3. /\ Sound(a) /\ a \in KernelState /\ a.prio = zz.k.prio
        /\ Sleeping(zz.k, a, A \ {t})
    BY <2>2, Wakes
  <2>4. c \in [Sem -> Int] /\ w \in [Task -> Sem \union {NULL}] /\ g \in SUBSET Task
    BY <1>0, <2>2
  <2>5. y = Entry(zz, a, c, w, zz.errno, g)
    BY <1>0, <1>1 DEF sem_post, Entry, t, SemState
  <2>6. Ledger(c, w, A \ {t}, Dead(zz.k))
    BY <1>0, <2>2, WaitEnds DEF LedgerOf
  <2>7. c[s] = zz.count[s] + 1 /\ \A q \in Sem \ {s} : c[q] = zz.count[q]
    BY <1>0
  <2>8. /\ w = [u \in Task |-> IF u \in {t} THEN NULL ELSE zz.waitsem[u]]
        /\ WaitsOn(w, A \ {t}, s) \subseteq WaitsOn(zz.waitsem, A, s)
    BY <1>0, <2>2 DEF WaitsOn
  <2> HIDE DEF a, c, w, g, y, A
  <2>9. IsEntry(y, a, c, w, zz.errno, g)
    BY <1>0, <2>3, <2>4, <2>5, EntryFields
  <2>10. /\ y \in SemState /\ y.k = a /\ y.count = c /\ y.waitsem = w
         /\ y.errno = zz.errno /\ y.granted = zz.granted \union {t}
         /\ Asleep(y.k) = A \ {t} /\ Dead(y.k) = Dead(zz.k)
    BY <2>3, <2>9 DEF IsEntry, g, Sleeping
  <2>11. SemSound(y)
    BY <2>3, <2>6, <2>10 DEF SemSound, LedgerOf, A
  <2>12. Handed(zz, s, y, {t})
    BY <2>1, <2>3, <2>7, <2>8, <2>10, <2>11 DEF Handed, A
  <2> QED  BY <2>7, <2>10, <2>12 DEF IsPosted, y
<1>2. CASE ~(c[s] <= 0 /\ HasWaiter(zz, s))
  <2>1. c \in [Sem -> Int] /\ c[s] = zz.count[s] + 1 /\ zz.count[s] \in Int
        /\ c = [zz.count EXCEPT ![s] = zz.count[s] + 1]
        /\ \A q \in Sem \ {s} : c[q] = zz.count[q]
    BY <1>0
  <2>2. WaitsOn(zz.waitsem, A, s) = {}
    <3>1. CASE ~HasWaiter(zz, s)
      BY <3>1, HasWaiterMeans
    <3>2. CASE ~(c[s] <= 0)
      <4>1. zz.count[s] >= 0
        BY <2>1, <3>2
      <4> QED  BY <1>0, <4>1, PermitMeansNobody DEF LedgerOf
    <3> QED  BY <1>2, <3>1, <3>2
  <2>3. y = Entry(zz, zz.k, c, zz.waitsem, zz.errno, zz.granted)
    BY <1>0, <1>2, <2>1 DEF sem_post, Entry, SemState
  <2>4. Ledger(c, zz.waitsem, A, Dead(zz.k))
    BY <1>0, <2>1, <2>2, NobodyWaits DEF LedgerOf
  <2> HIDE DEF c, y, t
  <2>5. IsEntry(y, zz.k, c, zz.waitsem, zz.errno, zz.granted)
    BY <1>0, <2>1, <2>3, EntryFields
  <2>6. SemSound(y)
    BY <1>0, <2>4, <2>5 DEF SemSound, LedgerOf, IsEntry
  <2>7. zz.waitsem = [u \in Task |-> IF u \in {} THEN NULL ELSE zz.waitsem[u]]
    BY <1>0
  <2>8. Handed(zz, s, y, {})
    BY <2>1, <2>5, <2>6, <2>7 DEF Handed, IsEntry, Sleeping
  <2> QED  BY <2>1, <2>2, <2>5, <2>8 DEF IsPosted, IsEntry, y
<1> QED  BY <1>1, <1>2

\* Posts add up.
LEMMA HandedChain ==
  ASSUME NEW zz, NEW y, NEW x, NEW s, NEW V, NEW W, SemSound(zz),
         Handed(zz, s, y, V), Handed(y, s, x, W)
  PROVE  Handed(zz, s, x, V \union W)
<1>1. /\ Asleep(x.k) = Asleep(zz.k) \ (V \union W) /\ Dead(x.k) = Dead(zz.k)
      /\ Asleep(y.k) = Asleep(zz.k) \ V /\ Asleep(x.k) \subseteq Asleep(y.k)
  BY DEF Handed, Sleeping
<1>2. /\ x.waitsem = [t \in Task |-> IF t \in V \union W THEN NULL ELSE zz.waitsem[t]]
      /\ \A t \in Asleep(zz.k) \ V : y.waitsem[t] = zz.waitsem[t]
      /\ \A t \in Asleep(y.k) \ W : y.waitsem[t] = x.waitsem[t]
  <2>1. /\ y.waitsem = [t \in Task |-> IF t \in V THEN NULL ELSE zz.waitsem[t]]
        /\ x.waitsem = [t \in Task |-> IF t \in W THEN NULL ELSE y.waitsem[t]]
    BY DEF Handed
  <2>2. \A t \in Task : x.waitsem[t] = IF t \in V \union W THEN NULL ELSE zz.waitsem[t]
    BY <2>1
  <2>3. x.waitsem = [t \in Task |-> IF t \in V \union W THEN NULL ELSE zz.waitsem[t]]
    BY <2>1, <2>2
  <2> QED  BY <2>1, <2>3 DEF Asleep
<1>3. W \subseteq WaitsOn(zz.waitsem, Asleep(zz.k), s)
  BY <1>1, <1>2 DEF Handed, WaitsOn
<1>4. WaitsOn(x.waitsem, Asleep(x.k), s) \subseteq WaitsOn(y.waitsem, Asleep(y.k), s)
  BY <1>1, <1>2 DEF Handed, WaitsOn, Sleeping
<1>5. \A t \in V \union W, u \in WaitsOn(x.waitsem, Asleep(x.k), s) : zz.k.prio[u] <= zz.k.prio[t]
  BY <1>4 DEF Handed
<1>6. /\ x.errno = zz.errno /\ x.granted = zz.granted \union (V \union W) /\ x.k.prio = zz.k.prio
      /\ \A q \in Sem \ {s} : x.count[q] = zz.count[q]
  BY DEF Handed
<1> QED  BY <1>1, <1>2, <1>3, <1>5, <1>6 DEF Handed, Sleeping

\* The loop of sem_reset: the values its variable takes exist, ...
LoopStep(y, s) == IF y.count[s] < 0 THEN sem_post(y, s) ELSE y

LoopOf(zz, s, n, f) == f = [i \in 0..n |-> IF i = 0 THEN zz ELSE LoopStep(f[i - 1], s)]

\* The loop of sem_reset as a sequence of states, one per post.
LEMMA LoopDefined ==
  ASSUME NEW zz, NEW s, NEW n \in Nat
  PROVE  \E f : LoopOf(zz, s, n, f)
<1> DEFINE S == {m \in Nat : \E f : LoopOf(zz, s, m, f)}
<1>1. 0 \in S
  <2> DEFINE f == [i \in 0..0 |-> zz]
  <2>1. f = [i \in 0..0 |-> IF i = 0 THEN zz ELSE LoopStep(f[i - 1], s)]
    OBVIOUS
  <2> HIDE DEF f
  <2> QED  BY <2>1 DEF LoopOf
<1>2. ASSUME NEW m \in Nat, m \in S PROVE m + 1 \in S
  <2>1. PICK f : LoopOf(zz, s, m, f)
    BY <1>2
  <2>2. f = [i \in 0..m |-> IF i = 0 THEN zz ELSE LoopStep(f[i - 1], s)]
    BY <2>1 DEF LoopOf
  <2> DEFINE g == [i \in 0..(m + 1) |-> IF i = m + 1 THEN LoopStep(f[m], s) ELSE f[i]]
             h == [i \in 0..(m + 1) |-> IF i = 0 THEN zz ELSE LoopStep(g[i - 1], s)]
  <2>3. ASSUME NEW i \in 0..(m + 1) PROVE g[i] = h[i]
    <3>1. CASE i = m + 1
      BY <3>1
    <3>2. CASE i # m + 1
      <4>1. i \in 0..m /\ g[i] = f[i]
        BY <3>2
      <4>2. i # 0 => i - 1 \in 0..(m + 1) /\ g[i - 1] = f[i - 1]
        BY <4>1
      <4>3. f[i] = IF i = 0 THEN zz ELSE LoopStep(f[i - 1], s)
        BY <2>2, <4>1
      <4>4. h[i] = IF i = 0 THEN zz ELSE LoopStep(g[i - 1], s)
        OBVIOUS
      <4> HIDE DEF g, h
      <4> QED  BY <4>1, <4>2, <4>3, <4>4
    <3> QED  BY <3>1, <3>2
  <2>4. g = h
    BY <2>3
  <2>5. LoopOf(zz, s, m + 1, g)
    BY <2>4 DEF LoopOf
  <2> HIDE DEF g
  <2> QED  BY <2>5
<1> HIDE DEF S
<1>3. n \in S
  BY <1>1, <1>2, CountingUp
<1> QED  BY <1>3 DEF S

\* ... and each of them is the result of that many posts, as long as the count
\* was negative.
AfterPosts(zz, s, i, y) ==
  /\ \E W : Handed(zz, s, y, W)
  /\ y.count[s] = IF zz.count[s] >= 0 THEN zz.count[s]
                  ELSE IF zz.count[s] + i < 0 THEN zz.count[s] + i ELSE 0

\* The loop of sem_reset: it ends with the posts made or nobody waiting.
LEMMA PostedSound ==
  ASSUME NEW zz, SemSound(zz), NEW s \in Sem, NEW n \in Nat
  PROVE  AfterPosts(zz, s, n, Posted(zz, s, n))
<1> DEFINE posted == CHOOSE f : LoopOf(zz, s, n, f)
           S == {i \in Nat : i <= n => AfterPosts(zz, s, i, posted[i])}
<1>1. Posted(zz, s, n) = posted[n]
  BY DEF Posted, LoopStep, LoopOf
<1>2. LoopOf(zz, s, n, posted)
  BY LoopDefined
<1>3. posted = [i \in 0..n |-> IF i = 0 THEN zz ELSE LoopStep(posted[i - 1], s)]
  BY <1>2 DEF LoopOf
<1> HIDE DEF posted
<1>4. /\ posted[0] = zz
      /\ \A i \in 0..(n - 1) : posted[i + 1] = LoopStep(posted[i], s)
  BY <1>3
<1>5. zz.count[s] \in Int /\ zz.waitsem \in [Task -> Sem \union {NULL}]
  BY DEF SemSound, SemState
<1>6. 0 \in S
  <2>1. zz.waitsem = [t \in Task |-> IF t \in {} THEN NULL ELSE zz.waitsem[t]]
    BY <1>5
  <2>2. Handed(zz, s, zz, {})
    BY <2>1 DEF Handed, Sleeping
  <2>3. AfterPosts(zz, s, 0, zz)
    BY <1>5, <2>2 DEF AfterPosts
  <2> QED  BY <1>4, <2>3
<1>7. ASSUME NEW i \in Nat, i \in S PROVE i + 1 \in S
  <2> SUFFICES ASSUME i + 1 <= n PROVE AfterPosts(zz, s, i + 1, posted[i + 1])
    OBVIOUS
  <2> DEFINE y == posted[i]
             x == posted[i + 1]
  <2>1. AfterPosts(zz, s, i, y) /\ x = LoopStep(y, s)
    BY <1>4, <1>7
  <2>2. PICK V : Handed(zz, s, y, V)
    BY <2>1 DEF AfterPosts
  <2>3. SemSound(y) /\ y.count[s] \in Int
    BY <2>2 DEF Handed, SemSound, SemState
  <2> HIDE DEF x, y, S
  <2>4. CASE y.count[s] < 0
    <3>1. PICK W : IsPosted(y, s, x, W)
      BY <2>1, <2>3, <2>4, PostSound DEF LoopStep
    <3>2. Handed(zz, s, x, V \union W) /\ x.count[s] = y.count[s] + 1
      BY <2>2, <3>1, HandedChain DEF IsPosted
    <3>3. \E U : Handed(zz, s, x, U)
      BY <3>2
    <3>4. x.count[s] = IF zz.count[s] >= 0 THEN zz.count[s]
                       ELSE IF zz.count[s] + (i + 1) < 0 THEN zz.count[s] + (i + 1) ELSE 0
      BY <1>5, <2>1, <2>4, <3>2 DEF AfterPosts
    <3> QED  BY <3>3, <3>4 DEF AfterPosts, x
  <2>5. CASE ~(y.count[s] < 0)
    <3>1. x = y
      BY <2>1, <2>5 DEF LoopStep
    <3>2. x.count[s] = IF zz.count[s] >= 0 THEN zz.count[s]
                       ELSE IF zz.count[s] + (i + 1) < 0 THEN zz.count[s] + (i + 1) ELSE 0
      BY <1>5, <2>1, <2>3, <2>5, <3>1 DEF AfterPosts
    <3> QED  BY <2>2, <3>1, <3>2 DEF AfterPosts, x
  <2> QED  BY <2>4, <2>5
<1> HIDE DEF S
<1>8. n \in S
  BY <1>6, <1>7, CountingUp
<1> QED  BY <1>1, <1>8 DEF S

\* The kernel changes locks or priorities: the ledger does not.
SameLedger(zz, y) ==
  /\ y.count = zz.count /\ y.waitsem = zz.waitsem /\ y.errno = zz.errno /\ y.granted = zz.granted

\* Locks and priorities leave the ledger of the semaphores alone.
LEMMA QuietKernel ==
  ASSUME NEW zz, SemSound(zz), NEW a, QuietStep(zz.k, a)
  PROVE  LET y == [zz EXCEPT !.k = a]
         IN  SemSound(y) /\ y.k = a /\ Sleeping(zz.k, y.k, Asleep(zz.k)) /\ SameLedger(zz, y)
<1> DEFINE y == [zz EXCEPT !.k = a]
<1>1. Sound(a) /\ a \in KernelState /\ Sleeping(zz.k, a, Asleep(zz.k)) /\ zz \in SemState
  BY QuietSleep DEF QuietStep, SoundStep, Sound, Consistent, SemSound
<1>2. y \in SemState /\ y.k = a /\ SameLedger(zz, y)
  BY <1>1 DEF SemState, SameLedger
<1> HIDE DEF y
<1>3. SemSound(y)
  BY <1>1, <1>2 DEF SemSound, LedgerOf, Sleeping, SameLedger
<1> QED  BY <1>1, <1>2, <1>3 DEF y

IsReset(zz, s, n, y, W) ==
  /\ Handed(zz, s, y, W)
  /\ y.count[s] = IF zz.count[s] >= 0 THEN n ELSE zz.count[s] + n

\* sched_unlock changes no priority.
LEMMA UnlockPrio ==
  ASSUME NEW k, Sound(k)
  PROVE  sched_unlock(k).prio = k.prio
<1>1. k \in KernelState
  BY DEF Sound, Consistent
<1> QED  BY <1>1 DEF sched_unlock, up_release_pending, sched_mergepending, KernelState

\* sem_reset hands permits to the waiters, and what is left replaces the count.
LEMMA ResetSound ==
  ASSUME NEW zz, SemSound(zz), NEW s \in Sem, NEW n \in Nat
  PROVE  \E W : IsReset(zz, s, n, sem_reset(zz, s, n), W)
<1> DEFINE l == [zz EXCEPT !.k = sched_lock(@)]
           y == Posted(l, s, n)
           d == IF zz.count[s] < 0 THEN 0 - zz.count[s] ELSE 0
           m == IF n > d THEN n - d ELSE 0
           j == IF y.count[s] >= 0 THEN m ELSE y.count[s]
           a == sched_unlock(y.k)
           c == [y.count EXCEPT ![s] = j]
           x == sem_reset(zz, s, n)
<1>1. zz \in SemState /\ zz.count[s] \in Int /\ zz.waitsem \in [Task -> Sem \union {NULL}] /\ Sound(zz.k)
  BY DEF SemSound, SemState
<1>2. /\ SemSound(l) /\ Sleeping(zz.k, l.k, Asleep(zz.k)) /\ SameLedger(zz, l)
      /\ l.k.prio = zz.k.prio
  <2>1. QuietStep(zz.k, sched_lock(zz.k)) /\ Tuned(zz.k, sched_lock(zz.k))
    BY <1>1, Lock
  <2>2. l = [zz EXCEPT !.k = sched_lock(zz.k)]
    OBVIOUS
  <2>3. l.k = sched_lock(zz.k)
    BY <1>1 DEF SemState
  <2> HIDE DEF l
  <2> QED  BY <2>1, <2>2, <2>3, QuietKernel DEF Tuned
<1> HIDE DEF l
<1>3. Handed(zz, s, l, {})
  <2>1. zz.waitsem = [t \in Task |-> IF t \in {} THEN NULL ELSE zz.waitsem[t]]
    BY <1>1
  <2> QED  BY <1>2, <2>1 DEF Handed, SameLedger
<1>4. AfterPosts(l, s, n, y)
  BY <1>2, PostedSound
<1>5. PICK W : Handed(l, s, y, W)
  BY <1>4 DEF AfterPosts
<1>6. Handed(zz, s, y, W)
  <2>1. Handed(zz, s, y, {} \union W)
    BY <1>3, <1>5, HandedChain
  <2>2. {} \union W = W
    OBVIOUS
  <2> QED  BY <2>1, <2>2
<1>7. x = [y EXCEPT !.count[s] = IF @ >= 0 THEN m ELSE @, !.k = sched_unlock(@)]
  BY DEF sem_reset, l
<1> HIDE DEF y, x
<1>8. y \in SemState /\ y.count \in [Sem -> Int] /\ Sound(y.k) /\ LedgerOf(y) /\ SemSound(y)
  BY <1>6 DEF Handed, SemSound, SemState
<1>9. x = Entry(y, a, c, y.waitsem, y.errno, y.granted)
  BY <1>7, <1>8 DEF Entry, SemState
<1>10. QuietStep(y.k, a) /\ a.prio = y.k.prio
  BY <1>8, UnlockSound, UnlockPrio
<1> HIDE DEF a
<1>11. Sound(a) /\ a \in KernelState /\ Sleeping(y.k, a, Asleep(y.k))
  BY <1>10, QuietSleep DEF QuietStep, SoundStep, Sound, Consistent
<1>12. m \in Nat /\ j \in Int /\ (zz.count[s] >= 0 => m = n) /\ y.count[s] \in Int
  BY <1>1, <1>8
<1>13. c[s] = j /\ c \in [Sem -> Int] /\ \A q \in Sem \ {s} : c[q] = y.count[q]
  BY <1>8, <1>12
<1>14. j = IF zz.count[s] >= 0 THEN n ELSE zz.count[s] + n
  BY <1>1, <1>2, <1>4, <1>12 DEF AfterPosts, SameLedger
<1>15. Ledger(c, y.waitsem, Asleep(y.k), Dead(y.k))
  <2>1. CASE y.count[s] >= 0
    <3>1. WaitsOn(y.waitsem, Asleep(y.k), s) = {}
      BY <1>8, <2>1, PermitMeansNobody DEF LedgerOf
    <3>2. j >= 0
      BY <1>12, <2>1
    <3> HIDE DEF j
    <3> QED  BY <1>8, <1>12, <3>1, <3>2, NobodyWaits DEF LedgerOf
  <2>2. CASE ~(y.count[s] >= 0)
    <3>1. c = y.count
      BY <1>8, <2>2
    <3> QED  BY <1>8, <3>1 DEF LedgerOf
  <2> QED  BY <2>1, <2>2
<1> HIDE DEF c, j, m
<1>16. IsEntry(x, a, c, y.waitsem, y.errno, y.granted)
  <2>1. y.waitsem \in [Task -> Sem \union {NULL}] /\ y.errno \in [Task -> Errno] /\ y.granted \in SUBSET Task
    BY <1>8 DEF SemState
  <2> QED  BY <1>8, <1>9, <1>11, <1>13, <2>1, EntryFields
<1>17. /\ x \in SemState /\ x.k = a /\ x.count = c /\ x.waitsem = y.waitsem
       /\ x.errno = y.errno /\ x.granted = y.granted
       /\ Asleep(x.k) = Asleep(y.k) /\ Dead(x.k) = Dead(y.k)
  BY <1>11, <1>16 DEF IsEntry, Sleeping
<1>18. SemSound(x)
  BY <1>8, <1>11, <1>15, <1>17 DEF SemSound, LedgerOf
<1>19. Handed(zz, s, x, W)
  BY <1>6, <1>10, <1>13, <1>17, <1>18 DEF Handed, Sleeping
<1> QED  BY <1>13, <1>14, <1>17, <1>19 DEF IsReset, x

\* The fields of a semaphore state.
LEMMA SemFields ==
  ASSUME NEW zz, SemSound(zz)
  PROVE  /\ zz \in SemState /\ zz.k \in KernelState /\ zz.count \in [Sem -> Int]
         /\ zz.waitsem \in [Task -> Sem \union {NULL}] /\ zz.errno \in [Task -> Errno]
         /\ zz.granted \in SUBSET Task /\ Asleep(zz.k) \subseteq Task
         /\ Ledger(zz.count, zz.waitsem, Asleep(zz.k), Dead(zz.k)) /\ Sound(zz.k)
         /\ \A t \in Asleep(zz.k) : zz.waitsem[t] \in Sem
         /\ \A t \in Task \ (Asleep(zz.k) \union Dead(zz.k)) : zz.waitsem[t] = NULL
         /\ Asleep(zz.k) \intersect Dead(zz.k) = {}
BY DEF SemSound, SemState, LedgerOf, Ledger, Asleep, Dead

\* A wait begins.
IsBlocked(zz, t, s, y) ==
  /\ SemSound(y) /\ Sleeping(zz.k, y.k, Asleep(zz.k) \union {t})
  /\ y.count = [zz.count EXCEPT ![s] = @ - 1] /\ y.waitsem = [zz.waitsem EXCEPT ![t] = s]
  /\ y.errno = [zz.errno EXCEPT ![t] = "OK"] /\ y.granted = zz.granted \ {t}

\* A wait without a permit keeps the state sound: one task falls asleep.
LEMMA BlockSound ==
  ASSUME NEW zz, SemSound(zz), NEW t, t = this_task(zz.k), t # IDLE,
         NEW s \in Sem, zz.count[s] <= 0
  PROVE  IsBlocked(zz, t, s, BlockOn(zz, t, s))
<1> DEFINE y == BlockOn(zz, t, s)
           a == up_block_task(zz.k, t, "WAIT_SEM")
           c == [zz.count EXCEPT ![s] = @ - 1]
           w == [zz.waitsem EXCEPT ![t] = s]
           e == [zz.errno EXCEPT ![t] = "OK"]
           g == zz.granted \ {t}
<1>1. /\ zz \in SemState /\ zz.k \in KernelState /\ zz.count \in [Sem -> Int]
      /\ zz.waitsem \in [Task -> Sem \union {NULL}] /\ zz.errno \in [Task -> Errno]
      /\ zz.granted \in SUBSET Task /\ Asleep(zz.k) \subseteq Task
      /\ Ledger(zz.count, zz.waitsem, Asleep(zz.k), Dead(zz.k)) /\ Sound(zz.k)
  BY SemFields
<1>2. t \in Task \ (Asleep(zz.k) \union Dead(zz.k)) /\ "WAIT_SEM" \in BlockedState
  BY <1>1, ReadyHead DEF Sound, Asleep, Dead, BlockedState
<1>3. TaskBlocked(zz.k, t, "WAIT_SEM", a)
  BY <1>1, <1>2, BlockTask
<1>4. /\ c \in [Sem -> Int] /\ w \in [Task -> Sem \union {NULL}] /\ e \in [Task -> Errno]
      /\ g \in SUBSET Task
  BY <1>1, <1>2 DEF Errno
<1>5. y = Entry(zz, a, c, w, e, g)
  BY <1>1 DEF BlockOn, Entry, SemState
<1> HIDE DEF a
<1>6. Sound(a) /\ a \in KernelState /\ Sleeping(zz.k, a, Asleep(zz.k) \union {t})
  BY <1>2, <1>3, BlockSleeps DEF TaskBlocked, SoundStep, Sound, Consistent
<1>7. Ledger(c, w, Asleep(zz.k) \union {t}, Dead(zz.k))
  BY <1>1, <1>2, WaitBegins
<1>8. \A u \in Asleep(zz.k) \union {t} : e[u] = "OK" /\ u \notin g
  BY <1>1, <1>2 DEF SemSound
<1> HIDE DEF c, w, e, g, y
<1>9. IsEntry(y, a, c, w, e, g)
  BY <1>1, <1>4, <1>5, <1>6, EntryFields
<1>10. SemSound(y)
  BY <1>6, <1>7, <1>8, <1>9 DEF SemSound, LedgerOf, IsEntry, Sleeping
<1> QED  BY <1>6, <1>9, <1>10 DEF IsBlocked, IsEntry, c, w, e, g, y

\* A wait ends without a permit.
IsAborted(zz, t, o, y) ==
  /\ SemSound(y) /\ Sleeping(zz.k, y.k, Asleep(zz.k) \ {t})
  /\ y.count = [zz.count EXCEPT ![zz.waitsem[t]] = @ + 1]
  /\ y.waitsem = [zz.waitsem EXCEPT ![t] = NULL]
  /\ y.errno = [zz.errno EXCEPT ![t] = o] /\ y.granted = zz.granted

\* sem_waitirq on a task asleep ends its wait and returns its place.
LEMMA WaitirqSound ==
  ASSUME NEW zz, SemSound(zz), NEW t \in Asleep(zz.k), NEW o \in Errno
  PROVE  IsAborted(zz, t, o, sem_waitirq(zz, t, o))
<1> DEFINE y == sem_waitirq(zz, t, o)
           a == up_unblock_task(zz.k, t)
           c == [zz.count EXCEPT ![zz.waitsem[t]] = @ + 1]
           w == [zz.waitsem EXCEPT ![t] = NULL]
           e == [zz.errno EXCEPT ![t] = o]
<1>1. /\ zz \in SemState /\ zz.count \in [Sem -> Int]
      /\ zz.waitsem \in [Task -> Sem \union {NULL}] /\ zz.errno \in [Task -> Errno]
      /\ zz.granted \in SUBSET Task /\ t \in Task /\ zz.waitsem[t] \in Sem
      /\ Ledger(zz.count, zz.waitsem, Asleep(zz.k), Dead(zz.k)) /\ zz.k.state[t] = "WAIT_SEM"
  BY SemFields DEF Asleep
<1>2. Sound(a) /\ a \in KernelState /\ Sleeping(zz.k, a, Asleep(zz.k) \ {t})
  BY Wakes
<1>3. c \in [Sem -> Int] /\ w \in [Task -> Sem \union {NULL}] /\ e \in [Task -> Errno]
  BY <1>1
<1>4. y = Entry(zz, a, c, w, e, zz.granted)
  BY <1>1 DEF sem_waitirq, Entry, SemState
<1>5. Ledger(c, w, Asleep(zz.k) \ {t}, Dead(zz.k))
  BY <1>1, WaitEnds
<1>6. \A u \in Asleep(zz.k) \ {t} : e[u] = "OK" /\ u \notin zz.granted
  BY <1>1 DEF SemSound, Asleep
<1> HIDE DEF a, c, w, e, y
<1>7. IsEntry(y, a, c, w, e, zz.granted)
  BY <1>1, <1>2, <1>3, <1>4, EntryFields
<1>8. SemSound(y)
  BY <1>2, <1>5, <1>6, <1>7 DEF SemSound, LedgerOf, IsEntry, Sleeping
<1> QED  BY <1>2, <1>7, <1>8 DEF IsAborted, IsEntry, c, w, e, y

\* A task is restarted: it gives up the wait it was in.
IsRestarted(zz, t, y) ==
  /\ SemSound(y) /\ Sleeping(zz.k, y.k, Asleep(zz.k) \ {t})
  /\ y.count = IF t \in Asleep(zz.k) THEN [zz.count EXCEPT ![zz.waitsem[t]] = @ + 1]
               ELSE zz.count
  /\ y.waitsem = [zz.waitsem EXCEPT ![t] = NULL]
  /\ y.errno = zz.errno /\ y.granted = zz.granted

Revived(zz, t) ==
  LET y == sem_recover(zz, t)
  IN  [y EXCEPT !.k = up_unblock_task(Restarted(@, t), t)]

\* task_restart: sem_recover and the list changes end the wait of t.
LEMMA RestartGivesUp ==
  ASSUME NEW zz, SemSound(zz), NEW t \in Task \ {IDLE}, t \notin Dead(zz.k), t # this_task(zz.k)
  PROVE  IsRestarted(zz, t, Revived(zz, t))
<1> DEFINE y == Revived(zz, t)
           b == Restarted(zz.k, t)
           a == up_unblock_task(b, t)
           c == IF t \in Asleep(zz.k) THEN [zz.count EXCEPT ![zz.waitsem[t]] = @ + 1]
                ELSE zz.count
           w == [zz.waitsem EXCEPT ![t] = NULL]
<1>1. /\ zz \in SemState /\ zz.count \in [Sem -> Int] /\ zz.k \in KernelState
      /\ zz.waitsem \in [Task -> Sem \union {NULL}] /\ zz.errno \in [Task -> Errno]
      /\ zz.granted \in SUBSET Task /\ Sound(zz.k)
      /\ Ledger(zz.count, zz.waitsem, Asleep(zz.k), Dead(zz.k))
      /\ t \in Asleep(zz.k) => zz.waitsem[t] \in Sem
      /\ t \notin Asleep(zz.k) => zz.waitsem[t] = NULL
  BY SemFields
<1>2. zz.k.state[t] # "INVALID" /\ (t \in Asleep(zz.k) <=> zz.k.state[t] = "WAIT_SEM")
  BY DEF Dead, Asleep
<1>3. MadeInactive(zz.k, t, b)
  <2>1. Removable(zz.k, t)
    BY <1>1, <1>2 DEF Removable, Sound
  <2> QED  BY <1>1, <2>1, RestartSound
<1>4. TaskWoken(b, t, a)
  <2>1. Sound(b) /\ b.state[t] \in BlockedState
    BY <1>1, <1>3 DEF MadeInactive, BlockedState, KernelState
  <2> QED  BY <2>1, UnblockSound
<1>5. c \in [Sem -> Int] /\ w \in [Task -> Sem \union {NULL}]
  BY <1>1
<1>6. y = Entry(zz, a, c, w, zz.errno, zz.granted)
  <2>1. CASE t \in Asleep(zz.k)
    BY <1>1, <1>2, <2>1 DEF Revived, sem_recover, Entry, SemState
  <2>2. CASE t \notin Asleep(zz.k)
    <3>1. w = zz.waitsem /\ c = zz.count
      BY <1>1, <2>2
    <3>2. y = [zz EXCEPT !.k = a]
      BY <1>1, <1>2, <2>2 DEF Revived, sem_recover, SemState
    <3> HIDE DEF w, c, y, a
    <3> QED  BY <1>1, <3>1, <3>2 DEF Entry, SemState
  <2> QED  BY <2>1, <2>2
<1> HIDE DEF a, b
<1>7. Sound(a) /\ a \in KernelState /\ Sleeping(zz.k, a, Asleep(zz.k) \ {t})
  BY <1>1, <1>2, <1>3, <1>4, RestartAwake DEF TaskWoken, SoundStep, Sound, Consistent
<1>8. Ledger(c, w, Asleep(zz.k) \ {t}, Dead(zz.k))
  <2>1. CASE t \in Asleep(zz.k)
    BY <1>1, <2>1, WaitEnds
  <2>2. CASE t \notin Asleep(zz.k)
    <3>1. w = zz.waitsem /\ c = zz.count /\ Asleep(zz.k) \ {t} = Asleep(zz.k)
      BY <1>1, <2>2
    <3> QED  BY <1>1, <3>1
  <2> QED  BY <2>1, <2>2
<1> HIDE DEF c, w, y
<1>9. IsEntry(y, a, c, w, zz.errno, zz.granted)
  BY <1>1, <1>5, <1>6, <1>7, EntryFields
<1>10. SemSound(y)
  BY <1>7, <1>8, <1>9 DEF SemSound, LedgerOf, IsEntry, Sleeping
<1> QED  BY <1>7, <1>9, <1>10 DEF IsRestarted, IsEntry, c, w, y

\* A task is taken off its list and leaves its wait in the ledger.
IsDeleted(zz, t, y) ==
  /\ SemSound(y) /\ SameLedger(zz, y)
  /\ Asleep(y.k) = Asleep(zz.k) \ {t} /\ Dead(y.k) = Dead(zz.k) \union {t}

\* task_terminate leaves the ledger of a deleted waiter to the exit hook.
LEMMA DeleteSound ==
  ASSUME NEW zz, SemSound(zz), NEW t \in Task \ {IDLE}, t \notin Dead(zz.k), t # this_task(zz.k)
  PROVE  IsDeleted(zz, t, [zz EXCEPT !.k = TakeOffList(@, t)])
<1> DEFINE y == [zz EXCEPT !.k = TakeOffList(@, t)]
           a == TakeOffList(zz.k, t)
<1>1. zz \in SemState /\ Sound(zz.k) /\ Ledger(zz.count, zz.waitsem, Asleep(zz.k), Dead(zz.k))
  BY SemFields
<1>2. Sound(a) /\ TakenOff(zz.k, t, a)
  <2>1. Removable(zz.k, t)
    BY <1>1 DEF Removable, Sound, Dead
  <2> QED  BY <1>1, <2>1, TakeOffSound
<1>3. y = [zz EXCEPT !.k = a]
  OBVIOUS
<1> HIDE DEF a, y
<1>4. a \in KernelState /\ Asleep(a) = Asleep(zz.k) \ {t} /\ Dead(a) = Dead(zz.k) \union {t}
  BY <1>2, DeletedDead DEF Sound, Consistent
<1>5. y \in SemState /\ y.k = a /\ SameLedger(zz, y)
  BY <1>1, <1>3, <1>4 DEF SemState, SameLedger
<1>6. LedgerOf(y)
  BY <1>1, <1>4, <1>5, SleeperDies DEF LedgerOf, SameLedger
<1>7. SemSound(y)
  BY <1>2, <1>4, <1>5, <1>6 DEF SemSound, SameLedger
<1> QED  BY <1>4, <1>5, <1>7 DEF IsDeleted, y

\* A permit is taken.
IsTaken(zz, s, y) ==
  /\ SemSound(y) /\ y.k = zz.k /\ y.count = [zz.count EXCEPT ![s] = @ - 1]
  /\ y.waitsem = zz.waitsem /\ y.errno = zz.errno /\ y.granted = zz.granted

\* Taking a permit is a count less.
LEMMA TakeSound ==
  ASSUME NEW zz, SemSound(zz), NEW t, t = this_task(zz.k), NEW s \in Sem, zz.count[s] > 0
  PROVE  IsTaken(zz, s, [zz EXCEPT !.count[s] = @ - 1, !.waitsem[t] = NULL])
<1> DEFINE y == [zz EXCEPT !.count[s] = @ - 1, !.waitsem[t] = NULL]
           c == [zz.count EXCEPT ![s] = @ - 1]
<1>1. /\ zz \in SemState /\ zz.count \in [Sem -> Int] /\ zz.k \in KernelState
      /\ zz.waitsem \in [Task -> Sem \union {NULL}] /\ zz.errno \in [Task -> Errno]
      /\ zz.granted \in SUBSET Task /\ Sound(zz.k)
      /\ Ledger(zz.count, zz.waitsem, Asleep(zz.k), Dead(zz.k))
      /\ \A u \in Task \ (Asleep(zz.k) \union Dead(zz.k)) : zz.waitsem[u] = NULL
  BY SemFields
<1>2. t \in Task \ (Asleep(zz.k) \union Dead(zz.k))
  BY <1>1, ReadyHead DEF Sound, Asleep, Dead
<1>3. [zz.waitsem EXCEPT ![t] = NULL] = zz.waitsem /\ zz.count[s] - 1 \in Int
  BY <1>1, <1>2
<1>4. c \in [Sem -> Int] /\ c = [zz.count EXCEPT ![s] = zz.count[s] - 1]
  BY <1>1
<1>5. y = Entry(zz, zz.k, c, zz.waitsem, zz.errno, zz.granted)
  BY <1>1, <1>3 DEF Entry, SemState
<1>6. Ledger(c, zz.waitsem, Asleep(zz.k), Dead(zz.k))
  <2>1. WaitsOn(zz.waitsem, Asleep(zz.k), s) = {}
    BY <1>1, PermitMeansNobody
  <2>2. zz.count[s] - 1 >= 0
    BY <1>1
  <2> QED  BY <1>1, <1>3, <1>4, <2>1, <2>2, NobodyWaits
<1> HIDE DEF c, y
<1>7. IsEntry(y, zz.k, c, zz.waitsem, zz.errno, zz.granted)
  BY <1>1, <1>4, <1>5, EntryFields
<1>8. SemSound(y)
  BY <1>1, <1>6, <1>7 DEF SemSound, LedgerOf, IsEntry
<1> QED  BY <1>7, <1>8 DEF IsTaken, IsEntry, c, y

-----------------------------------------------------------------------------
\* The inductive invariant, whatever the tasks of the instance may call: a
\* task asleep is inside a wait, a wait that is over has its outcome, and the
\* task that a caller is deleting is off the lists.
WaitLabel == {"sem_wait", "sem_timedwait", "sem_tickwait"}

CountsBounded == \A s \in Sem : z.count[s] <= MaxCount
PlacesValid ==
  /\ pc \in [Task -> Label] /\ victim \in [Task -> Task \union {NULL}] /\ waitdog \subseteq Task
AsleepInCall == \A t \in Asleep(z.k) : pc[t] \in WaitLabel
LiveReported ==
  \A t \in Task \ (Asleep(z.k) \union Dead(z.k)) :
    pc[t] \in WaitLabel => (z.errno[t] = "OK" <=> t \in z.granted)
VictimDead == \A t \in Task : pc[t] = "exithook" => victim[t] \in Dead(z.k)

Inv ==
  /\ SemSound(z) /\ CountsBounded /\ PlacesValid
  /\ AsleepInCall /\ LiveReported /\ WatchdogHasCall /\ VictimDead

\* The running task is awake.
LEMMA SelfAwake ==
  ASSUME SemSound(z)
  PROVE  Self \in Task \ (Asleep(z.k) \union Dead(z.k))
BY SemFields, ReadyHead DEF Self, Sound, Asleep, Dead

\* A count with a waiter is negative.
LEMMA WaiterMeansNegative ==
  ASSUME NEW zz, SemSound(zz), NEW t \in Asleep(zz.k)
  PROVE  zz.waitsem[t] \in Sem /\ zz.count[zz.waitsem[t]] \in Int /\ zz.count[zz.waitsem[t]] < 0
<1> DEFINE s == zz.waitsem[t]
<1>1. s \in Sem /\ zz.count[s] \in Int /\ Ledger(zz.count, zz.waitsem, Asleep(zz.k), Dead(zz.k))
  BY SemFields
<1>2. t \in WaitsOn(zz.waitsem, Asleep(zz.k), s)
  BY DEF WaitsOn
<1> HIDE DEF s
<1>3. ~(zz.count[s] >= 0)
  BY <1>1, <1>2, PermitMeansNobody
<1> QED  BY <1>1, <1>3 DEF s

\* Permits are handed out; no call changes its place.
LEMMA HandedInv ==
  ASSUME Inv, NEW s, NEW W, Handed(z, s, z', W), z'.count[s] <= MaxCount,
         UNCHANGED <<pc, victim, waitdog>>
  PROVE  Inv'
<1>1. /\ SemSound(z') /\ W \subseteq Asleep(z.k)
      /\ Asleep(z'.k) = Asleep(z.k) \ W /\ Dead(z'.k) = Dead(z.k)
      /\ z'.errno = z.errno /\ z'.granted = z.granted \union W
  BY DEF Handed, Sleeping, WaitsOn
<1>2. CountsBounded'
  BY DEF Inv, CountsBounded, Handed
<1>3. LiveReported'
  BY <1>1 DEF Inv, LiveReported, SemSound
<1>4. PlacesValid' /\ AsleepInCall' /\ WatchdogHasCall' /\ VictimDead'
  BY <1>1 DEF Inv, PlacesValid, AsleepInCall, WatchdogHasCall, VictimDead
<1> QED  BY <1>1, <1>2, <1>3, <1>4 DEF Inv

\* The calling task goes to sleep at the place l of its call.
LEMMA BlockInv ==
  ASSUME Inv, InUser, NEW s \in Sem, IsBlocked(z, Self, s, z'), NEW l \in WaitLabel,
         pc' = [pc EXCEPT ![Self] = l], victim' = victim, waitdog' \subseteq Task,
         \A t \in waitdog' \ waitdog : t = Self /\ l # "sem_wait"
  PROVE  Inv'
<1> DEFINE r == Self
<1>1. /\ SemSound(z') /\ Asleep(z'.k) = Asleep(z.k) \union {r} /\ Dead(z'.k) = Dead(z.k)
      /\ z'.count = [z.count EXCEPT ![s] = @ - 1]
      /\ z'.errno = [z.errno EXCEPT ![r] = "OK"] /\ z'.granted = z.granted \ {r}
  BY DEF IsBlocked, Sleeping
<1>2. /\ r \in Task \ (Asleep(z.k) \union Dead(z.k)) /\ pc[r] = "user"
      /\ z.count \in [Sem -> Int] /\ z.errno \in [Task -> Errno] /\ pc \in [Task -> Label]
  BY SelfAwake, SemFields DEF Inv, InUser, PlacesValid
<1> HIDE DEF r
<1>a. pc' = [pc EXCEPT ![r] = l]
  BY DEF r
<1>3. CountsBounded'
  BY <1>1, <1>2, SemaphoreAssumption DEF Inv, CountsBounded
<1>4. PlacesValid'
  BY <1>2, <1>a DEF Inv, PlacesValid, Label, WaitLabel
<1>5. AsleepInCall'
  BY <1>1, <1>2, <1>a DEF Inv, AsleepInCall
<1>6. LiveReported'
  BY <1>1, <1>2, <1>a DEF Inv, LiveReported
<1>7. WatchdogHasCall'
  <2> SUFFICES ASSUME NEW t \in waitdog' PROVE pc'[t] \in {"sem_timedwait", "sem_tickwait", "wd_delete"}
    BY DEF WatchdogHasCall
  <2>1. CASE t \in waitdog
    <3>1. t # r
      BY <1>2, <2>1 DEF Inv, WatchdogHasCall
    <3> QED  BY <1>2, <1>a, <2>1, <3>1 DEF Inv, WatchdogHasCall, PlacesValid
  <2>2. CASE t \notin waitdog
    BY <1>2, <1>a, <2>2 DEF WaitLabel, r
  <2> QED  BY <2>1, <2>2
<1>8. VictimDead'
  BY <1>1, <1>2, <1>a DEF Inv, VictimDead, WaitLabel
<1> QED  BY <1>1, <1>3, <1>4, <1>5, <1>6, <1>7, <1>8 DEF Inv

\* A wait is cut short by a signal or its watchdog.
LEMMA AbortInv ==
  ASSUME Inv, NEW t \in Asleep(z.k), NEW o \in Errno \ {"OK"}, IsAborted(z, t, o, z'),
         UNCHANGED <<pc, victim>>, waitdog' \subseteq waitdog
  PROVE  Inv'
<1>1. /\ SemSound(z') /\ Asleep(z'.k) = Asleep(z.k) \ {t} /\ Dead(z'.k) = Dead(z.k)
      /\ z'.count = [z.count EXCEPT ![z.waitsem[t]] = @ + 1]
      /\ z'.errno = [z.errno EXCEPT ![t] = o] /\ z'.granted = z.granted
  BY DEF IsAborted, Sleeping
<1>2. /\ t \in Task /\ z.waitsem[t] \in Sem /\ z.count[z.waitsem[t]] < 0
      /\ z.count \in [Sem -> Int] /\ z.errno \in [Task -> Errno] /\ t \notin z.granted
  BY SemFields, WaiterMeansNegative DEF Inv, SemSound
<1>3. CountsBounded'
  <2> SUFFICES ASSUME NEW q \in Sem PROVE z'.count[q] <= MaxCount
    BY DEF CountsBounded
  <2>1. q = z.waitsem[t] => z'.count[q] = z.count[q] + 1
    BY <1>1, <1>2
  <2>2. q # z.waitsem[t] => z'.count[q] = z.count[q]
    BY <1>1, <1>2
  <2>3. z.count[q] \in Int /\ z.count[q] <= MaxCount
    BY <1>2 DEF Inv, CountsBounded
  <2> QED  BY <1>2, <2>1, <2>2, <2>3, SemaphoreAssumption
<1>4. PlacesValid' /\ AsleepInCall' /\ WatchdogHasCall' /\ VictimDead'
  BY <1>1 DEF Inv, PlacesValid, AsleepInCall, WatchdogHasCall, VictimDead
<1>5. LiveReported'
  BY <1>1, <1>2 DEF Inv, LiveReported
<1> QED  BY <1>1, <1>3, <1>4, <1>5 DEF Inv

\* A call changes nothing but the place of the running task, which is awake,
\* and cancels its watchdog before it is back in user code.
LEMMA ReturnInv ==
  ASSUME Inv, NEW l \in {"user", "wd_delete"}, z' = z, victim' = victim,
         pc' = [pc EXCEPT ![Self] = l], waitdog' \subseteq waitdog,
         l = "user" => Self \notin waitdog'
  PROVE  Inv'
<1> DEFINE r == Self
<1>1. r \in Task \ (Asleep(z.k) \union Dead(z.k)) /\ pc \in [Task -> Label]
  BY SelfAwake DEF Inv, PlacesValid
<1>2. pc' = [pc EXCEPT ![r] = l] /\ (l = "user" => r \notin waitdog')
  OBVIOUS
<1> HIDE DEF r
<1>3. SemSound(z') /\ CountsBounded' /\ PlacesValid'
  BY <1>1, <1>2 DEF Inv, CountsBounded, PlacesValid, Label
<1>4. AsleepInCall' /\ VictimDead' /\ LiveReported'
  BY <1>1, <1>2 DEF Inv, AsleepInCall, VictimDead, LiveReported, WaitLabel
<1>5. WatchdogHasCall'
  BY <1>1, <1>2 DEF Inv, WatchdogHasCall
<1> QED  BY <1>3, <1>4, <1>5 DEF Inv

\* The kernel changes priorities or locks.
LEMMA QuietInv ==
  ASSUME Inv, NEW a, QuietStep(z.k, a), z' = [z EXCEPT !.k = a],
         UNCHANGED <<pc, victim, waitdog>>
  PROVE  Inv'
<1>1. SemSound(z') /\ Sleeping(z.k, z'.k, Asleep(z.k)) /\ SameLedger(z, z')
  BY QuietKernel DEF Inv
<1>2. Asleep(z'.k) = Asleep(z.k) /\ Dead(z'.k) = Dead(z.k) /\ z'.count = z.count
      /\ z'.errno = z.errno /\ z'.granted = z.granted
  BY <1>1 DEF Sleeping, SameLedger
<1>3. CountsBounded' /\ PlacesValid' /\ WatchdogHasCall'
  BY <1>2 DEF Inv, CountsBounded, PlacesValid, WatchdogHasCall
<1>4. AsleepInCall' /\ VictimDead' /\ LiveReported'
  BY <1>2 DEF Inv, AsleepInCall, VictimDead, LiveReported
<1> QED  BY <1>1, <1>3, <1>4 DEF Inv

\* The calling task takes a permit.
LEMMA TakeInv ==
  ASSUME Inv, NEW s \in Sem, SemTake(s)
  PROVE  Inv' /\ IsTaken(z, s, z') /\ pc' = pc
<1>1. IsTaken(z, s, z')
  BY TakeSound DEF Inv, SemTake, Self
<1>2. pc' = pc /\ victim' = victim /\ waitdog' = waitdog
  BY SelfAwake DEF Inv, SemTake, InUser, Finish, PlacesValid
<1>3. /\ SemSound(z') /\ z'.k = z.k /\ z'.count = [z.count EXCEPT ![s] = @ - 1]
      /\ z'.errno = z.errno /\ z'.granted = z.granted /\ z.count \in [Sem -> Int]
  BY <1>1, SemFields DEF IsTaken, Inv
<1>4. CountsBounded'
  BY <1>3, SemaphoreAssumption DEF Inv, CountsBounded
<1>5. PlacesValid' /\ AsleepInCall' /\ LiveReported' /\ WatchdogHasCall' /\ VictimDead'
  BY <1>2, <1>3 DEF Inv, PlacesValid, AsleepInCall, LiveReported, WatchdogHasCall, VictimDead
<1> QED  BY <1>1, <1>2, <1>3, <1>4, <1>5 DEF Inv

\* task_restart and task_delete choose a task that is alive and does not run.
LEMMA TargetAlive ==
  ASSUME Inv, NEW t \in Live \ {Self, IDLE}
  PROVE  t \in Task \ {IDLE} /\ t \notin Dead(z.k) /\ t # this_task(z.k)
BY DEF Live, Dead, Self

\* A restart keeps the invariant.
LEMMA RestartInv ==
  ASSUME Inv, NEW t, TaskRestart(t)
  PROVE  Inv' /\ IsRestarted(z, t, z')
<1>1. t \in Task \ {IDLE} /\ t \notin Dead(z.k) /\ t # this_task(z.k)
  BY TargetAlive DEF TaskRestart
<1>2. IsRestarted(z, t, z')
  BY <1>1, RestartGivesUp DEF Inv, TaskRestart, Revived
<1>3. /\ SemSound(z') /\ Asleep(z'.k) = Asleep(z.k) \ {t} /\ Dead(z'.k) = Dead(z.k)
      /\ z'.count = IF t \in Asleep(z.k) THEN [z.count EXCEPT ![z.waitsem[t]] = @ + 1] ELSE z.count
      /\ z'.errno = z.errno /\ z'.granted = z.granted
  BY <1>2 DEF IsRestarted, Sleeping
<1>4. /\ pc' = [pc EXCEPT ![t] = "user"] /\ victim' = [victim EXCEPT ![t] = NULL]
      /\ waitdog' = waitdog \ {t} /\ pc \in [Task -> Label]
      /\ victim \in [Task -> Task \union {NULL}]
  BY DEF TaskRestart, wd_recover, Inv, PlacesValid
<1>5. CountsBounded'
  <2> SUFFICES ASSUME NEW q \in Sem PROVE z'.count[q] <= MaxCount
    BY DEF CountsBounded
  <2>1. z.count[q] \in Int /\ z.count[q] <= MaxCount /\ z.count \in [Sem -> Int]
    BY SemFields DEF Inv, CountsBounded
  <2>2. CASE t \in Asleep(z.k)
    <3>1. z.waitsem[t] \in Sem /\ z.count[z.waitsem[t]] < 0
      BY <2>2, WaiterMeansNegative DEF Inv
    <3>2. q = z.waitsem[t] => z'.count[q] = z.count[q] + 1
      BY <1>3, <2>1, <2>2, <3>1
    <3>3. q # z.waitsem[t] => z'.count[q] = z.count[q]
      BY <1>3, <2>1, <2>2, <3>1
    <3> QED  BY <2>1, <3>1, <3>2, <3>3, SemaphoreAssumption
  <2>3. CASE t \notin Asleep(z.k)
    BY <1>3, <2>1, <2>3
  <2> QED  BY <2>2, <2>3
<1>6. PlacesValid'
  BY <1>4 DEF Inv, PlacesValid, Label
<1>7. AsleepInCall' /\ LiveReported' /\ WatchdogHasCall' /\ VictimDead'
  BY <1>1, <1>3, <1>4
     DEF Inv, AsleepInCall, LiveReported, WatchdogHasCall, VictimDead, WaitLabel, PlacesValid, Asleep
<1> QED  BY <1>2, <1>3, <1>5, <1>6, <1>7 DEF Inv

\* The first half of task_delete keeps the invariant.
LEMMA DeleteInv ==
  ASSUME Inv, NEW t, TaskDelete(t)
  PROVE  Inv'
<1> DEFINE r == Self
<1>1. t \in Task \ {IDLE} /\ t \notin Dead(z.k) /\ t # this_task(z.k)
  BY TargetAlive DEF TaskDelete
<1>2. IsDeleted(z, t, z')
  BY <1>1, DeleteSound DEF Inv, TaskDelete
<1>3. /\ SemSound(z') /\ Asleep(z'.k) = Asleep(z.k) \ {t} /\ Dead(z'.k) = Dead(z.k) \union {t}
      /\ z'.count = z.count /\ z'.errno = z.errno /\ z'.granted = z.granted
  BY <1>2 DEF IsDeleted, SameLedger
<1>4. /\ pc' = [pc EXCEPT ![r] = "exithook"] /\ victim' = [victim EXCEPT ![r] = t]
      /\ waitdog' = waitdog /\ pc[r] = "user" /\ pc \in [Task -> Label]
      /\ victim \in [Task -> Task \union {NULL}] /\ r \in Task \ (Asleep(z.k) \union Dead(z.k))
  BY SelfAwake DEF TaskDelete, Inv, PlacesValid, InUser
<1> HIDE DEF r
<1>5. CountsBounded' /\ PlacesValid'
  BY <1>1, <1>3, <1>4 DEF Inv, CountsBounded, PlacesValid, Label
<1>6. AsleepInCall' /\ LiveReported'
  BY <1>3, <1>4 DEF Inv, AsleepInCall, LiveReported, WaitLabel
<1>7. WatchdogHasCall' /\ VictimDead'
  BY <1>3, <1>4 DEF Inv, WatchdogHasCall, VictimDead
<1> QED  BY <1>3, <1>5, <1>6, <1>7 DEF Inv

\* The exit hook of a deleted task finds it off the lists: sem_recover does
\* nothing.
LEMMA ExitHookInv ==
  ASSUME Inv, TaskExitHook
  PROVE  Inv' /\ z' = z
<1> DEFINE r == Self
           d == victim[r]
<1>1. r \in Task \ (Asleep(z.k) \union Dead(z.k)) /\ pc[r] = "exithook"
  BY SelfAwake DEF Inv, TaskExitHook
<1>2. d \in Dead(z.k) /\ d \in Task /\ z.k.state[d] = "INVALID"
  BY <1>1 DEF Inv, VictimDead, Dead
<1>3. z' = z
  BY <1>2 DEF TaskExitHook, sem_recover
<1>4. /\ pc' = [pc EXCEPT ![r] = "user", ![d] = "user"] /\ victim' = [victim EXCEPT ![r] = NULL]
      /\ waitdog' = waitdog \ {d} /\ pc \in [Task -> Label]
      /\ victim \in [Task -> Task \union {NULL}]
  BY DEF TaskExitHook, wd_recover, Inv, PlacesValid
<1> HIDE DEF r, d
<1>5. \A u \in Task : pc'[u] = IF u \in {r, d} THEN "user" ELSE pc[u]
  BY <1>1, <1>2, <1>4
<1>6. SemSound(z') /\ CountsBounded' /\ PlacesValid'
  BY <1>1, <1>2, <1>3, <1>4 DEF Inv, CountsBounded, PlacesValid, Label
<1>7. AsleepInCall' /\ LiveReported'
  BY <1>1, <1>2, <1>3, <1>5 DEF Inv, AsleepInCall, LiveReported, WaitLabel, Asleep, Dead
<1>8. WatchdogHasCall' /\ VictimDead'
  BY <1>1, <1>2, <1>3, <1>4, <1>5 DEF Inv, WatchdogHasCall, VictimDead, PlacesValid
<1> QED  BY <1>3, <1>6, <1>7, <1>8 DEF Inv

\* What each of the other steps does to the semaphores.
LEMMA WaitStep ==
  ASSUME Inv, NEW s \in Sem, SemWait(s) \/ SemTimedWait(s, "sem_timedwait") \/ SemTimedWait(s, "sem_tickwait")
  PROVE  IsBlocked(z, Self, s, z') /\ z.count[s] <= 0 /\ InUser
<1>1. /\ z' = BlockOn(z, Self, s) /\ InUser /\ z.count[s] <= 0
  BY DEF SemWait, SemTimedWait
<1> QED  BY <1>1, BlockSound DEF Inv, InUser, Self

\* A timeout or a signal ends the wait of a task asleep, or does nothing.
LEMMA AbortStep ==
  ASSUME Inv, NEW t \in Task, SemTimeout(t) \/ Signal(t)
  PROVE  \/ z' = z /\ pc' = pc
         \/ t \in Asleep(z.k) /\ pc' = pc /\ \E o \in Errno \ {"OK"} : IsAborted(z, t, o, z')
<1>1. CASE z.k.state[t] = "WAIT_SEM"
  <2>1. t \in Asleep(z.k)
    BY <1>1 DEF Asleep
  <2>2. \A o \in Errno : IsAborted(z, t, o, sem_waitirq(z, t, o))
    BY <2>1, WaitirqSound DEF Inv
  <2>3. "ETIMEDOUT" \in Errno \ {"OK"} /\ "EINTR" \in Errno \ {"OK"}
    BY DEF Errno
  <2> QED  BY <2>1, <2>2, <2>3 DEF SemTimeout, Signal
<1>2. CASE z.k.state[t] # "WAIT_SEM"
  BY <1>2 DEF SemTimeout, Signal, sem_waitirq
<1> QED  BY <1>1, <1>2

\* A priority, or the caller's lock count, changes.
Tuning == SchedLock \/ SchedUnlock \/ \E t \in Task, p \in PrioArg : SetPriority(t, p)

\* Such a step is quiet.
LEMMA TuningStep ==
  ASSUME Inv, Tuning
  PROVE  /\ \E a : QuietStep(z.k, a) /\ z' = [z EXCEPT !.k = a]
         /\ UNCHANGED <<pc, victim, waitdog>>
<1>1. Sound(z.k) /\ z \in SemState
  BY SemFields DEF Inv
<1>2. CASE SchedLock
  BY <1>1, <1>2, Lock DEF SchedLock
<1>3. CASE SchedUnlock
  BY <1>1, <1>3, UnlockSound DEF SchedUnlock
<1>4. CASE \E t \in Task, p \in PrioArg : SetPriority(t, p)
  <2>1. PICK t \in Task, p \in PrioArg : SetPriority(t, p)
    BY <1>4
  <2>2. t \in Task \ {IDLE}
    BY <2>1 DEF SetPriority
  <2>3. PriorityChanged(z.k, t, sched_setpriority(z.k, t, p))
    BY <1>1, <2>2, SetPrioritySound
  <2> QED  BY <2>1, <2>3 DEF SetPriority, PriorityChanged
<1> QED  BY <1>2, <1>3, <1>4 DEF Tuning

\* The boot starts every semaphore with its permits and nobody asleep.
LEMMA InitInv == Init => Inv
<1> SUFFICES ASSUME Init PROVE Inv
  OBVIOUS
<1>1. BootOrder(BootList, BootPrio)
  BY SemaphoreAssumption DEF BootOrder
<1>2. z.k = Booted(BootList, BootPrio) /\ z.count = InitCount
      /\ z.waitsem = [t \in Task |-> NULL] /\ z.errno = [t \in Task |-> "OK"] /\ z.granted = {}
  BY DEF Init, Booted, BootState
<1>3. Sound(z.k) /\ z.k.state = BootState(BootList)
  BY <1>1, <1>2, BootSound
<1>4. InitCount \in [Sem -> Int] /\ \A s \in Sem : InitCount[s] >= 0 /\ InitCount[s] <= MaxCount
  BY SemaphoreAssumption
<1>5. z \in SemState
  <2> DEFINE kk == z.k
             ww == [t \in Task |-> NULL]
             ee == [t \in Task |-> "OK"]
  <2>1. kk \in KernelState /\ ww \in [Task -> Sem \union {NULL}] /\ ee \in [Task -> Errno]
    BY <1>3 DEF Sound, Consistent, Errno
  <2>2. z = [k |-> kk, count |-> InitCount, waitsem |-> ww, errno |-> ee, granted |-> {}]
    BY DEF Init
  <2> HIDE DEF kk, ww, ee
  <2> QED  BY <1>4, <2>1, <2>2 DEF SemState
<1>6. Asleep(z.k) = {}
  BY <1>3 DEF Asleep, BootState
<1>7. LedgerOf(z)
  <2> DEFINE w == [t \in Task |-> NULL]
  <2>1. ASSUME NEW s \in Sem PROVE Balanced(InitCount, w, {}, s)
    <3>1. WaitsOn(w, {}, s) = {} /\ WaitsOn(w, Task, s) = {}
      BY SemaphoreAssumption DEF WaitsOn
    <3> QED  BY <1>4, <3>1, FS_EmptySet DEF Balanced, Deficit
  <2> QED  BY <1>2, <1>4, <1>6, <2>1 DEF LedgerOf, Ledger
<1>8. SemSound(z)
  BY <1>3, <1>5, <1>6, <1>7 DEF SemSound
<1>9. CountsBounded /\ PlacesValid
  BY <1>2, <1>4 DEF CountsBounded, PlacesValid, Init, Label
<1>10. AsleepInCall /\ LiveReported /\ WatchdogHasCall /\ VictimDead
  BY <1>6 DEF AsleepInCall, LiveReported, WatchdogHasCall, VictimDead, Init, WaitLabel
<1> QED  BY <1>8, <1>9, <1>10 DEF Inv

\* A stuttering step keeps the invariant.
LEMMA StutterInv == ASSUME Inv, UNCHANGED vars PROVE Inv'
BY DEF Inv, vars, CountsBounded, PlacesValid, AsleepInCall, LiveReported, WatchdogHasCall, VictimDead

\* The calls of the tasks keep the invariant, ...
LEMMA AppCallInv ==
  ASSUME Inv, AppCall
  PROVE  Inv'
<1>1. CASE \E s \in Sem : SemTake(s)
  BY <1>1, TakeInv
<1>2. ASSUME NEW s \in Sem, SemWait(s) PROVE Inv'
  BY <1>2, WaitStep, BlockInv DEF SemWait, WaitLabel, Inv, PlacesValid
<1>3. ASSUME NEW s \in Sem, NEW l \in {"sem_timedwait", "sem_tickwait"}, SemTimedWait(s, l) PROVE Inv'
  <2>1. IsBlocked(z, Self, s, z') /\ InUser
    BY <1>3, WaitStep
  <2>2. Self \in Task /\ l \in WaitLabel /\ l # "sem_wait" /\ waitdog \subseteq Task
    BY SelfAwake DEF Inv, WaitLabel, PlacesValid
  <2> QED  BY <1>3, <2>1, <2>2, BlockInv DEF SemTimedWait
<1>4. ASSUME NEW s \in Sem, NEW n \in ResetArg, SemReset(s, n) PROVE Inv'
  <2>1. n \in Nat /\ n <= MaxCount /\ MaxCount \in Nat
    BY SemaphoreAssumption
  <2>2. PICK W : IsReset(z, s, n, z', W)
    BY <1>4, <2>1, ResetSound DEF Inv, SemReset
  <2>3. z.count[s] \in Int
    BY SemFields DEF Inv
  <2>4. z'.count[s] <= MaxCount
    BY <2>1, <2>2, <2>3 DEF IsReset
  <2> QED  BY <1>4, <2>2, <2>4, HandedInv DEF IsReset, SemReset
<1>5. CASE Tuning
  <2>1. PICK a : QuietStep(z.k, a) /\ z' = [z EXCEPT !.k = a]
    BY <1>5, TuningStep
  <2> QED  BY <1>5, <2>1, TuningStep, QuietInv
<1>6. CASE \E t \in Task : TaskRestart(t)
  BY <1>6, RestartInv
<1>7. CASE \E t \in Task : TaskDelete(t)
  BY <1>7, DeleteInv
<1> QED  BY <1>1, <1>2, <1>3, <1>4, <1>5, <1>6, <1>7 DEF AppCall, Tuning

\* ... and so do the others.
LEMMA NextInv == Inv /\ [Next]_vars => Inv'
<1> SUFFICES ASSUME Inv, [Next]_vars PROVE Inv'
  OBVIOUS
<1>1. CASE AppCall
  BY <1>1, AppCallInv
<1>2. CASE Resume
  <2>1. waitdog \subseteq Task
    BY DEF Inv, PlacesValid
  <2>2. pc[Self] = "sem_wait" => Self \notin waitdog
    BY DEF Inv, WatchdogHasCall
  <2>3. z' = z /\ victim' = victim /\ waitdog' \subseteq waitdog
        /\ \E l \in {"user", "wd_delete"} : /\ pc' = [pc EXCEPT ![Self] = l]
                                            /\ l = "user" => Self \notin waitdog'
    BY <1>2, <2>2 DEF Resume, SemWaitResumed, SemTimedWaitResumed, SemTickWaitResumed, SemTickWaitDelete, Finish
  <2> QED  BY <2>3, ReturnInv
<1>3. CASE TaskExitHook
  BY <1>3, ExitHookInv
<1>4. ASSUME NEW s \in Sem, SemPost(s) PROVE Inv'
  <2>1. PICK W : IsPosted(z, s, z', W)
    BY <1>4, PostSound DEF Inv, SemPost
  <2>2. z.count[s] \in Int /\ MaxCount \in Nat
    BY SemFields, SemaphoreAssumption DEF Inv
  <2>3. z'.count[s] <= MaxCount
    BY <1>4, <2>1, <2>2 DEF IsPosted, SemPost
  <2> QED  BY <1>4, <2>1, <2>3, HandedInv DEF IsPosted, SemPost
<1>5. ASSUME NEW t \in Task, SemTimeout(t) \/ Signal(t) PROVE Inv'
  <2>1. waitdog' \subseteq waitdog /\ victim' = victim /\ pc' = pc
    BY <1>5 DEF SemTimeout, Signal
  <2>2. CASE z' = z
    BY <2>1, <2>2 DEF Inv, CountsBounded, PlacesValid, AsleepInCall, LiveReported, WatchdogHasCall, VictimDead
  <2>3. CASE t \in Asleep(z.k) /\ \E o \in Errno \ {"OK"} : IsAborted(z, t, o, z')
    BY <2>1, <2>3, AbortInv
  <2> QED  BY <1>5, <2>2, <2>3, AbortStep
<1>6. CASE UNCHANGED vars
  BY <1>6, StutterInv
<1> QED  BY <1>1, <1>2, <1>3, <1>4, <1>5, <1>6 DEF Next

\* The inductive invariant holds in every reachable state.
LEMMA InvAlways == Spec => []Inv
BY InitInv, NextInv, PTL DEF Spec

\* The counts stay between minus the number of tasks and MaxCount, and every
\* TCB and every call keeps its type, whatever the tasks call.
THEOREM TypeCorrect == Spec => []TypeOK
<1>1. Inv => TypeOK
  <2> SUFFICES ASSUME Inv PROVE TypeOK
    OBVIOUS
  <2>1. /\ z \in SemState /\ z.count \in [Sem -> Int]
        /\ Ledger(z.count, z.waitsem, Asleep(z.k), Dead(z.k))
    BY SemFields DEF Inv
  <2>2. ASSUME NEW s \in Sem PROVE z.count[s] \in (0 - Cardinality(Task))..MaxCount
    <3>1. WaitsOn(z.waitsem, Task, s) \in SUBSET Task /\ Deficit(z.count[s]) <= Cardinality(WaitsOn(z.waitsem, Task, s))
      BY <2>1 DEF Ledger, Balanced, WaitsOn
    <3>2. /\ Cardinality(WaitsOn(z.waitsem, Task, s)) \in Nat /\ Cardinality(Task) \in Nat
          /\ Cardinality(WaitsOn(z.waitsem, Task, s)) <= Cardinality(Task)
      BY <3>1, TasksFinite, FS_Subset, SemaphoreAssumption
    <3>3. z.count[s] \in Int /\ z.count[s] <= MaxCount /\ MaxCount \in Nat
      BY <2>1, SemaphoreAssumption DEF Inv, CountsBounded
    <3> QED  BY <3>1, <3>2, <3>3 DEF Deficit
  <2>3. z.count \in [Sem -> (0 - Cardinality(Task))..MaxCount]
    BY <2>1, <2>2
  <2>4. z \in [k : KernelState, count : [Sem -> (0 - Cardinality(Task))..MaxCount],
               waitsem : [Task -> Sem \union {NULL}], errno : [Task -> Errno],
               granted : SUBSET Task]
    BY <2>1, <2>3 DEF SemState
  <2> QED  BY <2>4 DEF TypeOK, Inv, PlacesValid
<1> QED  BY <1>1, InvAlways, PTL

\* A watchdog runs only for a call that is going to cancel it: no later wait
\* of the same task is cut short by it, also when the task was restarted or
\* deleted inside the call.
THEOREM WatchdogAlwaysHasCall == Spec => []WatchdogHasCall
<1>1. Inv => WatchdogHasCall
  BY DEF Inv
<1> QED  BY <1>1, InvAlways, PTL

-----------------------------------------------------------------------------
\* Waiting(s) in the terms of the ledger.
LEMMA WaitingIs ==
  ASSUME NEW s
  PROVE  Waiting(s) = WaitsOn(z.waitsem, Asleep(z.k), s)
BY DEF Waiting, WaitsOn, Asleep

\* The same for the next state.
LEMMA WaitingNextIs ==
  ASSUME NEW s
  PROVE  Waiting(s)' = WaitsOn(z'.waitsem, Asleep(z'.k), s)
BY DEF Waiting, WaitsOn, Asleep

\* What a post may do: the body of PostWakesMostUrgent.
UrgentWoken ==
  \A t \in Task, s \in Sem :
    /\ t \in Waiting(s) /\ t \notin Waiting(s)'
    /\ z'.errno[t] = "OK" /\ z'.count[s] = z.count[s] + 1 /\ pc'[t] = pc[t]
    => \A u \in Waiting(s)' : z.k.prio[u] <= z.k.prio[t]

\* Whoever is handed a permit was at least as urgent as those left behind.
LEMMA HandedUrgent ==
  ASSUME SemSound(z), NEW q \in Sem, NEW W, Handed(z, q, z', W)
  PROVE  UrgentWoken
<1> SUFFICES ASSUME NEW t \in Task, NEW s \in Sem, t \in Waiting(s), t \notin Waiting(s)',
                    z'.count[s] = z.count[s] + 1, NEW u \in Waiting(s)'
             PROVE  z.k.prio[u] <= z.k.prio[t]
  BY DEF UrgentWoken
<1>1. z.count[s] \in Int /\ z.waitsem \in [Task -> Sem \union {NULL}]
  BY SemFields
<1>2. s = q
  BY <1>1 DEF Handed
<1>3. /\ Asleep(z'.k) = Asleep(z.k) \ W
      /\ z'.waitsem = [x \in Task |-> IF x \in W THEN NULL ELSE z.waitsem[x]]
      /\ t \in WaitsOn(z.waitsem, Asleep(z.k), s) /\ t \notin WaitsOn(z'.waitsem, Asleep(z'.k), s)
      /\ u \in WaitsOn(z'.waitsem, Asleep(z'.k), q)
  BY <1>2, WaitingIs, WaitingNextIs DEF Handed, Sleeping
<1>4. t \in W
  BY <1>3 DEF WaitsOn, Asleep
<1> QED  BY <1>3, <1>4 DEF Handed

\* A step that raises no count wakes nobody by a post.
LEMMA NoPost ==
  ASSUME SemSound(z), \A s \in Sem : z'.count[s] \in {z.count[s], z.count[s] - 1}
  PROVE  UrgentWoken
<1>1. \A s \in Sem : z.count[s] \in Int
  BY SemFields
<1>2. \A s \in Sem : z'.count[s] # z.count[s] + 1
  BY <1>1
<1> QED  BY <1>2 DEF UrgentWoken

\* One task leaves, by an abort or a restart: it is not reported as a post.
LEMMA OneLeaves ==
  ASSUME SemSound(z), NEW x \in Asleep(z.k), Asleep(z'.k) = Asleep(z.k) \ {x},
         z'.waitsem = [z.waitsem EXCEPT ![x] = NULL],
         z'.errno[x] # "OK" \/ pc'[x] # pc[x]
  PROVE  UrgentWoken
<1> SUFFICES ASSUME NEW t \in Task, NEW s \in Sem, t \in Waiting(s), t \notin Waiting(s)'
             PROVE  t = x
  BY DEF UrgentWoken
<1>1. z.waitsem \in [Task -> Sem \union {NULL}] /\ x \in Task
  BY SemFields DEF Asleep
<1>2. /\ t \in WaitsOn(z.waitsem, Asleep(z.k), s) /\ t \notin WaitsOn(z'.waitsem, Asleep(z'.k), s)
  BY WaitingIs, WaitingNextIs
<1> QED  BY <1>1, <1>2 DEF WaitsOn

\* Every step wakes the most urgent waiter, if it posts to one.
LEMMA StepUrgent == Inv /\ [Next]_vars => UrgentWoken
<1> SUFFICES ASSUME Inv, [Next]_vars PROVE UrgentWoken
  OBVIOUS
<1>0. SemSound(z) /\ z.count \in [Sem -> Int] /\ z.errno \in [Task -> Errno] /\ z \in SemState
  BY SemFields DEF Inv
<1>1. CASE AppCall
  <2>1. ASSUME NEW s \in Sem, SemTake(s) PROVE UrgentWoken
    <3>1. z'.count = [z.count EXCEPT ![s] = @ - 1]
      BY <2>1, TakeInv DEF IsTaken
    <3> QED  BY <1>0, <3>1, NoPost
  <2>2. ASSUME NEW s \in Sem, SemWait(s) \/ SemTimedWait(s, "sem_timedwait") \/ SemTimedWait(s, "sem_tickwait")
        PROVE  UrgentWoken
    <3>1. z'.count = [z.count EXCEPT ![s] = @ - 1]
      BY <2>2, WaitStep DEF IsBlocked
    <3> QED  BY <1>0, <3>1, NoPost
  <2>3. ASSUME NEW s \in Sem, NEW n \in ResetArg, SemReset(s, n) PROVE UrgentWoken
    <3>1. n \in Nat
      BY SemaphoreAssumption
    <3>2. PICK W : IsReset(z, s, n, z', W)
      BY <1>0, <2>3, <3>1, ResetSound DEF SemReset
    <3> QED  BY <1>0, <3>2, HandedUrgent DEF IsReset
  <2>4. CASE Tuning
    <3>1. PICK a : QuietStep(z.k, a) /\ z' = [z EXCEPT !.k = a]
      BY <2>4, TuningStep
    <3>2. z'.count = z.count
      BY <1>0, <3>1 DEF SemState
    <3> QED  BY <1>0, <3>2, NoPost
  <2>5. ASSUME NEW t \in Task, TaskRestart(t) PROVE UrgentWoken
    <3>1. IsRestarted(z, t, z') /\ pc' = [pc EXCEPT ![t] = "user"] /\ pc \in [Task -> Label]
      BY <2>5, RestartInv DEF TaskRestart, Inv, PlacesValid
    <3>2. CASE t \in Asleep(z.k)
      <4>1. pc[t] \in WaitLabel /\ pc'[t] # pc[t]
        BY <3>1, <3>2 DEF Inv, AsleepInCall, WaitLabel
      <4> QED  BY <1>0, <3>1, <3>2, <4>1, OneLeaves DEF IsRestarted, Sleeping
    <3>3. CASE t \notin Asleep(z.k)
      BY <1>0, <3>1, <3>3, NoPost DEF IsRestarted
    <3> QED  BY <3>2, <3>3
  <2>6. ASSUME NEW t \in Task, TaskDelete(t) PROVE UrgentWoken
    <3>1. z'.count = z.count
      BY <1>0, <2>6 DEF TaskDelete, SemState
    <3> QED  BY <1>0, <3>1, NoPost
  <2> QED  BY <1>1, <2>1, <2>2, <2>3, <2>4, <2>5, <2>6 DEF AppCall, Tuning
<1>2. CASE z' = z
  BY <1>0, <1>2, NoPost
<1>3. CASE Resume \/ UNCHANGED vars
  BY <1>2, <1>3 DEF Resume, SemWaitResumed, SemTimedWaitResumed, SemTickWaitResumed, SemTickWaitDelete, vars
<1>4. CASE TaskExitHook
  BY <1>2, <1>4, ExitHookInv
<1>5. ASSUME NEW s \in Sem, SemPost(s) PROVE UrgentWoken
  <2>1. PICK W : IsPosted(z, s, z', W)
    BY <1>0, <1>5, PostSound DEF SemPost
  <2> QED  BY <1>0, <2>1, HandedUrgent DEF IsPosted
<1>6. ASSUME NEW t \in Task, SemTimeout(t) \/ Signal(t) PROVE UrgentWoken
  <2>1. CASE t \in Asleep(z.k) /\ \E o \in Errno \ {"OK"} : IsAborted(z, t, o, z')
    <3>1. PICK o \in Errno \ {"OK"} : IsAborted(z, t, o, z')
      BY <2>1
    <3>2. z'.errno[t] # "OK"
      BY <1>0, <3>1 DEF IsAborted
    <3> QED  BY <1>0, <2>1, <3>1, <3>2, OneLeaves DEF IsAborted, Sleeping
  <2> QED  BY <1>2, <1>6, <2>1, AbortStep
<1> QED  BY <1>1, <1>3, <1>4, <1>5, <1>6 DEF Next

\* The task that sem_post or sem_reset wakes is the most urgent of the waiters
\* of its semaphore, whatever has happened to their priorities since they
\* went to sleep.
THEOREM PostAlwaysWakesMostUrgent == Spec => PostWakesMostUrgent
<1>1. Inv /\ [Next]_vars => [UrgentWoken]_vars
  BY StepUrgent
<1>2. PostWakesMostUrgent <=> [][UrgentWoken]_vars
  BY DEF PostWakesMostUrgent, UrgentWoken
<1> QED  BY <1>1, <1>2, InvAlways, PTL DEF Spec

-----------------------------------------------------------------------------
\* Without task_delete no task dies inside a wait, and the counts are exact.
\* (task_terminate marks the task INVALID before its exit hook runs, so that
\* sem_recover does not give its place in the count back.)
NoDeletion == "task_delete" \notin Calls

DeadAreIdle == \A t \in Dead(z.k) : z.waitsem[t] = NULL /\ pc[t] = "user"
NoVictims == \A t \in Task : victim[t] = NULL /\ pc[t] # "exithook"

ExactInv == Inv /\ DeadAreIdle /\ NoVictims

\* A step under which the dead stay dead and are left alone.
LEMMA DeadLeftAlone ==
  ASSUME ExactInv, Dead(z'.k) = Dead(z.k),
         \A t \in Dead(z.k) : z'.waitsem[t] = z.waitsem[t] /\ pc'[t] \in {pc[t], "user"}
  PROVE  DeadAreIdle'
BY DEF ExactInv, DeadAreIdle

\* So is a step that changes the place of the running task only.
LEMMA SelfMoves ==
  ASSUME ExactInv, Dead(z'.k) = Dead(z.k), \A t \in Dead(z.k) : z'.waitsem[t] = z.waitsem[t],
         NEW l \in Label \ {"exithook"}, pc' = pc \/ pc' = [pc EXCEPT ![Self] = l], victim' = victim
  PROVE  DeadAreIdle' /\ NoVictims'
<1> DEFINE r == Self
<1>1. r \in Task \ Dead(z.k) /\ pc \in [Task -> Label] /\ Dead(z.k) \subseteq Task
  BY SelfAwake DEF ExactInv, Inv, PlacesValid, Dead
<1>2. pc' = pc \/ pc' = [pc EXCEPT ![r] = l]
  OBVIOUS
<1> HIDE DEF r
<1>3. \A t \in Dead(z.k) : pc'[t] = pc[t]
  BY <1>1, <1>2
<1>4. \A t \in Task : pc'[t] # "exithook"
  BY <1>1, <1>2 DEF ExactInv, NoVictims
<1> QED  BY <1>3, <1>4, DeadLeftAlone DEF ExactInv, NoVictims

\* Without deletions the stronger invariant is inductive.
LEMMA ExactStep == NoDeletion => (ExactInv /\ [Next]_vars => ExactInv')
<1> SUFFICES ASSUME NoDeletion, ExactInv, [Next]_vars PROVE DeadAreIdle' /\ NoVictims'
  BY NextInv DEF ExactInv
<1>0. /\ Inv /\ SemSound(z) /\ z.waitsem \in [Task -> Sem \union {NULL}] /\ z \in SemState
      /\ Dead(z.k) \subseteq Task /\ Asleep(z.k) \intersect Dead(z.k) = {}
      /\ Self \in Task \ (Asleep(z.k) \union Dead(z.k)) /\ pc \in [Task -> Label]
      /\ "user" \in Label \ {"exithook"}
  BY SemFields, SelfAwake DEF ExactInv, Inv, Dead, PlacesValid, Label
<1>1. ASSUME NEW s, NEW W, Handed(z, s, z', W), pc' = pc, victim' = victim
      PROVE  DeadAreIdle' /\ NoVictims'
  <2>1. Dead(z'.k) = Dead(z.k) /\ W \subseteq Asleep(z.k)
        /\ z'.waitsem = [t \in Task |-> IF t \in W THEN NULL ELSE z.waitsem[t]]
    BY <1>1 DEF Handed, Sleeping, WaitsOn
  <2>2. \A t \in Dead(z.k) : z'.waitsem[t] = z.waitsem[t]
    BY <1>0, <2>1
  <2> QED  BY <1>0, <1>1, <2>1, <2>2, SelfMoves
<1>2. CASE AppCall
  <2>1. ASSUME NEW s \in Sem, SemTake(s) PROVE DeadAreIdle' /\ NoVictims'
    <3>1. z'.k = z.k /\ z'.waitsem = z.waitsem /\ pc' = pc
      BY <1>0, <2>1, TakeInv DEF IsTaken
    <3> QED  BY <1>0, <2>1, <3>1, SelfMoves DEF SemTake
  <2>2. ASSUME NEW s \in Sem, SemWait(s) \/ SemTimedWait(s, "sem_timedwait") \/ SemTimedWait(s, "sem_tickwait")
        PROVE  DeadAreIdle' /\ NoVictims'
    <3>1. Dead(z'.k) = Dead(z.k) /\ z'.waitsem = [z.waitsem EXCEPT ![Self] = s]
      BY <1>0, <2>2, WaitStep DEF IsBlocked, Sleeping
    <3>2. \A t \in Dead(z.k) : z'.waitsem[t] = z.waitsem[t]
      BY <1>0, <3>1
    <3>3. victim' = victim /\ \E l \in Label \ {"exithook"} : pc' = [pc EXCEPT ![Self] = l]
      BY <2>2 DEF SemWait, SemTimedWait, Label
    <3> QED  BY <1>0, <3>1, <3>2, <3>3, SelfMoves
  <2>3. ASSUME NEW s \in Sem, NEW n \in ResetArg, SemReset(s, n) PROVE DeadAreIdle' /\ NoVictims'
    <3>1. n \in Nat
      BY SemaphoreAssumption
    <3>2. PICK W : IsReset(z, s, n, z', W)
      BY <1>0, <2>3, <3>1, ResetSound DEF SemReset
    <3> QED  BY <1>1, <2>3, <3>2 DEF IsReset, SemReset
  <2>4. CASE Tuning
    <3>1. PICK a : QuietStep(z.k, a) /\ z' = [z EXCEPT !.k = a]
      BY <1>0, <2>4, TuningStep
    <3>2. Dead(z'.k) = Dead(z.k) /\ z'.waitsem = z.waitsem
      BY <1>0, <3>1, QuietKernel DEF Sleeping, SameLedger
    <3> QED  BY <1>0, <2>4, <3>2, TuningStep, SelfMoves
  <2>5. ASSUME NEW t \in Task, TaskRestart(t) PROVE DeadAreIdle' /\ NoVictims'
    <3>1. /\ Dead(z'.k) = Dead(z.k) /\ z'.waitsem = [z.waitsem EXCEPT ![t] = NULL]
          /\ pc' = [pc EXCEPT ![t] = "user"] /\ victim' = [victim EXCEPT ![t] = NULL]
          /\ victim \in [Task -> Task \union {NULL}] /\ t \notin Dead(z.k)
      BY <1>0, <2>5, RestartInv, TargetAlive DEF TaskRestart, IsRestarted, Sleeping, Inv, PlacesValid
    <3>2. \A u \in Dead(z.k) : z'.waitsem[u] = z.waitsem[u] /\ pc'[u] = pc[u]
      BY <1>0, <3>1
    <3>3. NoVictims'
      BY <1>0, <3>1 DEF ExactInv, NoVictims
    <3> QED  BY <3>1, <3>2, <3>3, DeadLeftAlone
  <2> QED  BY <1>2, <2>1, <2>2, <2>3, <2>4, <2>5 DEF AppCall, NoDeletion, Tuning
<1>3. CASE Resume
  <2>1. z' = z /\ victim' = victim /\ \E l \in Label \ {"exithook"} : pc' = [pc EXCEPT ![Self] = l]
    BY <1>3 DEF Resume, SemWaitResumed, SemTimedWaitResumed, SemTickWaitResumed, SemTickWaitDelete, Finish, Label
  <2> QED  BY <1>0, <2>1, SelfMoves
<1>4. CASE TaskExitHook
  BY <1>0, <1>4 DEF TaskExitHook, ExactInv, NoVictims
<1>5. ASSUME NEW s \in Sem, SemPost(s) PROVE DeadAreIdle' /\ NoVictims'
  <2>1. PICK W : IsPosted(z, s, z', W)
    BY <1>0, <1>5, PostSound DEF SemPost
  <2> QED  BY <1>1, <1>5, <2>1 DEF IsPosted, SemPost
<1>6. ASSUME NEW t \in Task, SemTimeout(t) \/ Signal(t) PROVE DeadAreIdle' /\ NoVictims'
  <2>1. pc' = pc /\ victim' = victim
    BY <1>6 DEF SemTimeout, Signal
  <2>2. CASE z' = z
    BY <1>0, <2>1, <2>2, SelfMoves
  <2>3. CASE t \in Asleep(z.k) /\ \E o \in Errno \ {"OK"} : IsAborted(z, t, o, z')
    <3>1. Dead(z'.k) = Dead(z.k) /\ z'.waitsem = [z.waitsem EXCEPT ![t] = NULL]
      BY <2>3 DEF IsAborted, Sleeping
    <3>2. \A u \in Dead(z.k) : z'.waitsem[u] = z.waitsem[u]
      BY <1>0, <2>3, <3>1
    <3> QED  BY <1>0, <2>1, <3>1, <3>2, SelfMoves
  <2> QED  BY <1>0, <1>6, <2>2, <2>3, AbortStep
<1>7. CASE UNCHANGED vars
  BY <1>0, <1>7, SelfMoves DEF vars
<1> QED  BY <1>2, <1>3, <1>4, <1>5, <1>6, <1>7 DEF Next

\* It holds initially.
LEMMA ExactInit == Init => ExactInv
<1> SUFFICES ASSUME Init PROVE DeadAreIdle /\ NoVictims
  BY InitInv DEF ExactInv
<1> QED  BY DEF Init, DeadAreIdle, NoVictims, Dead

\* It holds in every reachable state.
LEMMA ExactAlways == ASSUME NoDeletion PROVE Spec => []ExactInv
<1>1. ExactInv /\ [Next]_vars => ExactInv'
  BY ExactStep
<1> QED  BY <1>1, ExactInit, PTL DEF Spec

\* Without deletions the deficit is the number of waiters.
LEMMA CountsExact ==
  ASSUME NEW c, NEW w, NEW A, NEW D, Ledger(c, w, A, D), \A t \in D : w[t] = NULL,
         NEW s \in Sem
  PROVE  Cardinality(WaitsOn(w, A, s)) = Deficit(c[s])
<1>1. WaitsOn(w, A, s) = WaitsOn(w, Task, s)
  BY SemaphoreAssumption DEF Ledger, WaitsOn
<1>2. WaitsOn(w, A, s) \in SUBSET Task /\ c[s] \in Int
  BY DEF Ledger, WaitsOn
<1>3. Cardinality(WaitsOn(w, A, s)) \in Nat
  BY <1>2, TasksFinite
<1>4. Balanced(c, w, A, s)
  BY DEF Ledger
<1> QED  BY <1>1, <1>2, <1>3, <1>4 DEF Balanced, Deficit

\* A negative semcount is the number of waiting tasks, whichever of sem_wait,
\* sem_post, sem_waitirq, sem_reset and sem_recover changed it last, as long
\* as no waiting task is deleted.
THEOREM CountAlwaysIsWaiters == ASSUME NoDeletion PROVE Spec => []CountIsWaiters
<1>1. ExactInv => CountIsWaiters
  <2> SUFFICES ASSUME ExactInv, NEW s \in Sem
               PROVE  Cardinality(Waiting(s)) = IF z.count[s] < 0 THEN 0 - z.count[s] ELSE 0
    BY DEF CountIsWaiters
  <2>1. Cardinality(WaitsOn(z.waitsem, Asleep(z.k), s)) = Deficit(z.count[s])
    BY CountsExact, SemFields DEF ExactInv, Inv, DeadAreIdle
  <2> QED  BY <2>1, WaitingIs DEF Deficit
<1> QED  BY <1>1, ExactAlways, PTL

\* A call that resumes reports what ended its wait: errno is OK exactly if a
\* post did, and not a signal or the watchdog.
THEOREM OutcomeAlwaysReported == ASSUME NoDeletion PROVE Spec => []OutcomeReported
<1>1. ExactInv => OutcomeReported
  <2> SUFFICES ASSUME ExactInv, NEW t \in Task, z.k.state[t] # "WAIT_SEM",
                      pc[t] \in {"sem_wait", "sem_timedwait", "sem_tickwait"}
               PROVE  z.errno[t] = "OK" <=> t \in z.granted
    BY DEF OutcomeReported
  <2>1. t \notin Asleep(z.k) /\ t \notin Dead(z.k)
    BY DEF ExactInv, DeadAreIdle, Asleep
  <2> QED  BY <2>1 DEF ExactInv, Inv, LiveReported, WaitLabel
<1> QED  BY <1>1, ExactAlways, PTL

-----------------------------------------------------------------------------
\* The refinement mapping of Semaphore!Abs, as operators.
AvailOf(zz) == [s \in Sem |-> IF zz.count[s] > 0 THEN zz.count[s] ELSE 0]

Phase(f, s) == [phase |-> f, sem |-> s]

StatusOf(zz, p) ==
  [t \in Task |->
     IF zz.k.state[t] = "WAIT_SEM" THEN Phase("waiting", zz.waitsem[t])
     ELSE IF p[t] \in {"user", "exithook"} THEN Phase("idle", NULL)
     ELSE IF t \in zz.granted THEN Phase("granted", NULL)
     ELSE Phase("failed", NULL)]

SameAvail == AvailOf(z') = AvailOf(z)
SameStatus == StatusOf(z', pc') = StatusOf(z, pc)
NewStatus(t, p) == StatusOf(z', pc') = [StatusOf(z, pc) EXCEPT ![t] = p]
Granting(W) ==
  StatusOf(z', pc') = [t \in Task |-> IF t \in W THEN Phase("granted", NULL) ELSE StatusOf(z, pc)[t]]

\* Two phases are the same only if their names and semaphores are.
LEMMA PhasesDiffer ==
  ASSUME NEW f, NEW g, NEW a, NEW b, Phase(f, a) = Phase(g, b)
  PROVE  f = g /\ a = b
<1>1. Phase(f, a).phase = f /\ Phase(g, b).phase = g /\ Phase(f, a).sem = a /\ Phase(g, b).sem = b
  BY DEF Phase
<1> QED  BY <1>1

\* The status of a task, in the terms of the ledger.
LEMMA StatusAt ==
  ASSUME NEW zz, NEW p, NEW t \in Task
  PROVE  /\ t \in Asleep(zz.k) => StatusOf(zz, p)[t] = Phase("waiting", zz.waitsem[t])
         /\ t \notin Asleep(zz.k) /\ p[t] = "user" => StatusOf(zz, p)[t] = Phase("idle", NULL)
         /\ t \notin Asleep(zz.k) /\ p[t] \notin {"user", "exithook"} =>
              StatusOf(zz, p)[t] = IF t \in zz.granted THEN Phase("granted", NULL) ELSE Phase("failed", NULL)
BY DEF StatusOf, Asleep

\* The tasks that wait for s, to the abstract specification.
LEMMA AbsWaitersIs ==
  ASSUME NEW s
  PROVE  Abs!Waiters(s) = WaitsOn(z.waitsem, Asleep(z.k), s)
<1>1. Abs!Waiters(s) = {t \in Task : StatusOf(z, pc)[t] = Phase("waiting", s)}
  BY DEF Abs!Waiters, StatusOf, Phase
<1>2. ASSUME NEW t \in Task
      PROVE  StatusOf(z, pc)[t] = Phase("waiting", s) <=> t \in Asleep(z.k) /\ z.waitsem[t] = s
  <2>1. CASE t \in Asleep(z.k)
    BY <2>1, StatusAt, PhasesDiffer
  <2>2. CASE t \notin Asleep(z.k)
    <3>1. \E f \in {"idle", "granted", "failed"} : StatusOf(z, pc)[t] = Phase(f, NULL)
      BY <2>2 DEF StatusOf, Asleep
    <3> QED  BY <2>2, <3>1, PhasesDiffer
  <2> QED  BY <2>1, <2>2
<1> QED  BY <1>1, <1>2 DEF WaitsOn, Asleep

\* The abstract actions under the mapping.
LEMMA TakeIs ==
  ASSUME NEW t, NEW s, StatusOf(z, pc)[t] = Phase("idle", NULL), AvailOf(z)[s] > 0,
         AvailOf(z') = [AvailOf(z) EXCEPT ![s] = @ - 1], SameStatus
  PROVE  Abs!Take(t, s)
BY DEF Abs!Take, Abs!Idle, AvailOf, StatusOf, Phase, SameStatus

\* The abstract wait, in the terms of AvailOf and StatusOf.
LEMMA WaitIs ==
  ASSUME NEW t, NEW s, StatusOf(z, pc)[t] = Phase("idle", NULL), AvailOf(z)[s] = 0,
         SameAvail, NewStatus(t, Phase("waiting", s))
  PROVE  Abs!Wait(t, s)
BY DEF Abs!Wait, Abs!Idle, AvailOf, StatusOf, Phase, SameAvail, NewStatus

\* The abstract hand-over, likewise.
LEMMA GrantIs ==
  ASSUME NEW W, Granting(W)
  PROVE  Abs!Grant(W)
BY DEF Abs!Grant, Granting, StatusOf, Phase

\* The abstract post, likewise.
LEMMA PostIs ==
  ASSUME NEW s,
         \/ /\ Abs!Waiters(s) = {} /\ SameStatus
            /\ AvailOf(z') = [AvailOf(z) EXCEPT ![s] = @ + 1]
         \/ \E t \in Abs!Waiters(s) : Granting({t}) /\ SameAvail
  PROVE  Abs!Post(s)
<1>1. CASE Abs!Waiters(s) = {} /\ SameStatus /\ AvailOf(z') = [AvailOf(z) EXCEPT ![s] = @ + 1]
  BY <1>1 DEF Abs!Post, AvailOf, StatusOf, Phase, SameStatus
<1>2. CASE \E t \in Abs!Waiters(s) : Granting({t}) /\ SameAvail
  <2>1. PICK t \in Abs!Waiters(s) : Abs!Grant({t}) /\ SameAvail
    BY <1>2, GrantIs
  <2> QED  BY <2>1 DEF Abs!Post, SameAvail, AvailOf
<1> QED  BY <1>1, <1>2

\* Both modules count with the same operator of FiniteSets.
LEMMA AbsCardinality ==
  ASSUME NEW W
  PROVE  Abs!Cardinality(W) = Cardinality(W)
BY DEF Abs!Cardinality, Cardinality

\* The abstract reset, likewise.
LEMMA ResetIs ==
  ASSUME NEW s, NEW n, NEW W, W \subseteq Abs!Waiters(s), Cardinality(W) <= n,
         Cardinality(W) < n => W = Abs!Waiters(s), Granting(W),
         AvailOf(z') = IF W = Abs!Waiters(s) THEN [AvailOf(z) EXCEPT ![s] = n - Cardinality(W)]
                       ELSE AvailOf(z)
  PROVE  Abs!Reset(s, n)
<1>1. Abs!Grant(W)
  BY GrantIs
<1> QED  BY <1>1, AbsCardinality DEF Abs!Reset, AvailOf

\* The abstract abort, likewise.
LEMMA AbortIs ==
  ASSUME NEW t, StatusOf(z, pc)[t].phase = "waiting", SameAvail, NewStatus(t, Phase("failed", NULL))
  PROVE  Abs!Abort(t)
BY DEF Abs!Abort, AvailOf, StatusOf, Phase, SameAvail, NewStatus

\* The abstract return, likewise.
LEMMA ReturnIs ==
  ASSUME NEW t, StatusOf(z, pc)[t].phase \in {"granted", "failed"}, SameAvail,
         NewStatus(t, Phase("idle", NULL))
  PROVE  Abs!Return(t)
BY DEF Abs!Return, Abs!Idle, AvailOf, StatusOf, Phase, SameAvail, NewStatus

\* The abstract restart, likewise.
LEMMA RestartIs ==
  ASSUME NEW t, SameAvail, NewStatus(t, Phase("idle", NULL))
  PROVE  Abs!Restart(t)
BY DEF Abs!Restart, Abs!Idle, AvailOf, StatusOf, Phase, SameAvail, NewStatus

\* A step that changes neither is not seen.
LEMMA SameIs ==
  ASSUME SameAvail, SameStatus
  PROVE  UNCHANGED Abs!vars
BY DEF Abs!vars, AvailOf, StatusOf, Phase, SameAvail, SameStatus

\* The status of a task depends on its sleep, its place and its permit only.
LEMMA StatusKept ==
  ASSUME NEW t \in Task, t \in Asleep(z'.k) <=> t \in Asleep(z.k), z'.waitsem[t] = z.waitsem[t],
         t \in z'.granted <=> t \in z.granted, pc'[t] = pc[t]
  PROVE  StatusOf(z', pc')[t] = StatusOf(z, pc)[t]
BY DEF StatusOf, Asleep

\* A change of one task's status.
LEMMA OneStatus ==
  ASSUME NEW t \in Task, NEW p, StatusOf(z', pc')[t] = p,
         \A u \in Task \ {t} : StatusOf(z', pc')[u] = StatusOf(z, pc)[u]
  PROVE  NewStatus(t, p)
BY DEF NewStatus, StatusOf

\* No permits appear or vanish while a count is negative or unchanged.
LEMMA AvailKept ==
  ASSUME \A s \in Sem : z'.count[s] = z.count[s] \/ (~(z.count[s] > 0) /\ ~(z'.count[s] > 0))
  PROVE  SameAvail
BY DEF SameAvail, AvailOf

\* One count takes a value that is not negative.
LEMMA AvailSet ==
  ASSUME NEW s \in Sem, NEW n \in Nat, z'.count[s] = n, \A q \in Sem \ {s} : z'.count[q] = z.count[q]
  PROVE  AvailOf(z') = [AvailOf(z) EXCEPT ![s] = n]
<1>1. ASSUME NEW q \in Sem
      PROVE  AvailOf(z')[q] = [AvailOf(z) EXCEPT ![s] = n][q]
  <2>1. CASE q = s
    BY <2>1 DEF AvailOf
  <2>2. CASE q # s
    BY <2>2 DEF AvailOf
  <2> QED  BY <2>1, <2>2
<1> QED  BY <1>1 DEF AvailOf

\* One count stays below one.
LEMMA AvailNegative ==
  ASSUME NEW s \in Sem, ~(z.count[s] > 0), ~(z'.count[s] > 0),
         \A q \in Sem \ {s} : z'.count[q] = z.count[q]
  PROVE  SameAvail
<1>1. ASSUME NEW q \in Sem
      PROVE  z'.count[q] = z.count[q] \/ (~(z.count[q] > 0) /\ ~(z'.count[q] > 0))
  <2>1. CASE q = s
    BY <2>1
  <2>2. CASE q # s
    BY <2>2
  <2> QED  BY <2>1, <2>2
<1> QED  BY <1>1, AvailKept

AbsStep == Abs!Next \/ UNCHANGED Abs!vars

\* The waiters of s are counted by its deficit.
LEMMA WaitersCounted ==
  ASSUME NEW zz, SemSound(zz), \A t \in Dead(zz.k) : zz.waitsem[t] = NULL, NEW s \in Sem
  PROVE  /\ WaitsOn(zz.waitsem, Asleep(zz.k), s) \in SUBSET Task
         /\ Cardinality(WaitsOn(zz.waitsem, Asleep(zz.k), s)) = Deficit(zz.count[s])
         /\ zz.count[s] \in Int
BY SemFields, CountsExact DEF WaitsOn

\* The waits that the posts of W end are granted, the others go on.
LEMMA HandedGrants ==
  ASSUME ExactInv, NEW s, NEW W, Handed(z, s, z', W), pc' = pc
  PROVE  Granting(W) /\ (W = {} => SameStatus)
<1>1. /\ W \subseteq Asleep(z.k) /\ Asleep(z'.k) = Asleep(z.k) \ W
      /\ z'.waitsem = [t \in Task |-> IF t \in W THEN NULL ELSE z.waitsem[t]]
      /\ z'.granted = z.granted \union W
  BY DEF Handed, Sleeping, WaitsOn
<1>2. ASSUME NEW t \in Task
      PROVE  StatusOf(z', pc')[t] = IF t \in W THEN Phase("granted", NULL) ELSE StatusOf(z, pc)[t]
  <2>1. CASE t \in W
    <3>1. t \notin Asleep(z'.k) /\ t \in z'.granted /\ pc'[t] \notin {"user", "exithook"}
      BY <1>1, <2>1 DEF ExactInv, Inv, AsleepInCall, WaitLabel
    <3> QED  BY <2>1, <3>1, StatusAt
  <2>2. CASE t \notin W
    <3>1. /\ t \in Asleep(z'.k) <=> t \in Asleep(z.k)
          /\ z'.waitsem[t] = z.waitsem[t] /\ (t \in z'.granted <=> t \in z.granted) /\ pc'[t] = pc[t]
      BY <1>1, <2>2
    <3> QED  BY <2>2, <3>1, StatusKept
  <2> QED  BY <2>1, <2>2
<1>3. Granting(W)
  BY <1>2 DEF Granting, StatusOf
<1>4. W = {} => SameStatus
  BY <1>2 DEF SameStatus, StatusOf
<1> QED  BY <1>3, <1>4

\* sem_post is an abstract post.
LEMMA PostAbs ==
  ASSUME ExactInv, NEW s \in Sem, SemPost(s)
  PROVE  Abs!Post(s)
<1>0. SemSound(z) /\ z.count \in [Sem -> Int] /\ pc' = pc
  BY SemFields DEF ExactInv, Inv, SemPost
<1>1. PICK W : IsPosted(z, s, z', W)
  BY <1>0, PostSound DEF SemPost
<1>2. Handed(z, s, z', W) /\ z'.count[s] = z.count[s] + 1 /\ \A q \in Sem \ {s} : z'.count[q] = z.count[q]
  BY <1>1 DEF IsPosted, Handed
<1>3. Granting(W) /\ (W = {} => SameStatus)
  BY <1>0, <1>2, HandedGrants
<1>4. /\ Abs!Waiters(s) = WaitsOn(z.waitsem, Asleep(z.k), s)
      /\ Cardinality(Abs!Waiters(s)) = Deficit(z.count[s]) /\ Abs!Waiters(s) \in SUBSET Task
  BY <1>0, AbsWaitersIs, WaitersCounted DEF ExactInv, DeadAreIdle
<1>5. CASE W = {} /\ Abs!Waiters(s) = {}
  <2>1. z.count[s] >= 0
    BY <1>0, <1>4, <1>5, FS_EmptySet DEF Deficit
  <2>2. AvailOf(z') = [AvailOf(z) EXCEPT ![s] = @ + 1]
    <3>1. z'.count[s] \in Nat /\ AvailOf(z)[s] + 1 = z'.count[s]
      BY <1>0, <1>2, <2>1 DEF AvailOf
    <3>2. AvailOf(z') = [AvailOf(z) EXCEPT ![s] = z'.count[s]]
      BY <1>2, <3>1, AvailSet
    <3> QED  BY <3>1, <3>2
  <2> QED  BY <1>3, <1>5, <2>2, PostIs
<1>6. CASE \E t : W = {t}
  <2>1. PICK t : W = {t}
    BY <1>6
  <2>2. t \in Abs!Waiters(s)
    BY <1>2, <1>4, <2>1 DEF Handed
  <2>3. Cardinality(Abs!Waiters(s)) # 0
    BY <1>4, <2>2, TasksFinite
  <2>4. z.count[s] < 0
    BY <1>0, <1>4, <2>3 DEF Deficit
  <2>5. SameAvail
    <3>1. ~(z.count[s] > 0) /\ ~(z'.count[s] > 0)
      BY <1>0, <1>2, <2>4
    <3> QED  BY <1>2, <3>1, AvailNegative
  <2> QED  BY <1>3, <2>1, <2>2, <2>5, PostIs
<1> QED  BY <1>1, <1>4, <1>5, <1>6 DEF IsPosted

\* sem_reset is an abstract reset.
LEMMA ResetAbs ==
  ASSUME ExactInv, ExactInv', NEW s \in Sem, NEW n \in ResetArg, SemReset(s, n)
  PROVE  Abs!Reset(s, n)
<1> DEFINE V == WaitsOn(z.waitsem, Asleep(z.k), s)
           U == WaitsOn(z'.waitsem, Asleep(z'.k), s)
           c == z.count[s]
<1>0. SemSound(z) /\ SemSound(z') /\ z.count \in [Sem -> Int] /\ pc' = pc /\ n \in Nat /\ c \in Int
      /\ (\A t \in Dead(z.k) : z.waitsem[t] = NULL) /\ (\A t \in Dead(z'.k) : z'.waitsem[t] = NULL)
  BY SemFields, SemaphoreAssumption DEF ExactInv, Inv, SemReset, DeadAreIdle
<1>1. PICK W : IsReset(z, s, n, z', W)
  BY <1>0, ResetSound DEF SemReset
<1>2. /\ Handed(z, s, z', W) /\ z'.count[s] = IF c >= 0 THEN n ELSE c + n
      /\ \A q \in Sem \ {s} : z'.count[q] = z.count[q]
  BY <1>1 DEF IsReset, Handed
<1>3. Granting(W)
  BY <1>0, <1>2, HandedGrants
<1>4. /\ Abs!Waiters(s) = V /\ V \in SUBSET Task /\ Cardinality(V) = Deficit(c)
      /\ U \in SUBSET Task /\ Cardinality(U) = Deficit(z'.count[s])
  BY <1>0, AbsWaitersIs, WaitersCounted
<1>5. U = V \ W /\ W \subseteq V
  BY <1>2 DEF Handed, Sleeping, WaitsOn, Asleep
<1>6. Cardinality(W) = Deficit(c) - Deficit(z'.count[s])
  <2>1. /\ IsFiniteSet(V) /\ V \intersect W = W /\ Cardinality(W) \in Nat
        /\ Cardinality(V) \in Nat /\ Cardinality(U) \in Nat
    BY <1>4, <1>5, TasksFinite
  <2>2. Cardinality(V \ W) = Cardinality(V) - Cardinality(V \intersect W)
    BY <2>1, FS_Difference
  <2> HIDE DEF V, U
  <2> QED  BY <1>4, <1>5, <2>1, <2>2
<1>7. W = V <=> Deficit(z'.count[s]) = 0
  BY <1>4, <1>5, TasksFinite
<1> HIDE DEF V, U, c
<1>8. CASE c >= 0
  <2>1. Cardinality(W) = 0 /\ W = V
    BY <1>0, <1>2, <1>6, <1>7, <1>8 DEF Deficit
  <2>2. AvailOf(z') = [AvailOf(z) EXCEPT ![s] = n]
    BY <1>0, <1>2, <1>8, AvailSet
  <2>3. n - Cardinality(W) = n /\ Cardinality(W) <= n
    BY <1>0, <2>1
  <2> QED  BY <1>3, <1>4, <1>5, <2>1, <2>2, <2>3, ResetIs
<1>9. CASE c < 0 /\ c + n >= 0
  <2>1. Cardinality(W) = 0 - c /\ W = V /\ z'.count[s] = n - Cardinality(W) /\ z'.count[s] >= 0
    BY <1>0, <1>2, <1>6, <1>7, <1>9 DEF Deficit
  <2>2. AvailOf(z') = [AvailOf(z) EXCEPT ![s] = n - Cardinality(W)]
    <3>1. n - Cardinality(W) \in Nat /\ z'.count[s] = n - Cardinality(W)
      BY <1>0, <1>9, <2>1
    <3> QED  BY <1>2, <3>1, AvailSet
  <2>3. Cardinality(W) <= n
    BY <1>0, <1>9, <2>1
  <2> QED  BY <1>3, <1>4, <1>5, <2>1, <2>2, <2>3, ResetIs
<1>10. CASE c < 0 /\ c + n < 0
  <2>1. Cardinality(W) = n /\ W # V /\ z'.count[s] < 0
    BY <1>0, <1>2, <1>6, <1>7, <1>10 DEF Deficit
  <2>2. SameAvail
    <3>1. ~(z.count[s] > 0) /\ ~(z'.count[s] > 0)
      BY <1>0, <1>2, <1>10, <2>1 DEF c
    <3> QED  BY <1>2, <3>1, AvailNegative
  <2>3. Cardinality(W) <= n /\ ~(Cardinality(W) < n)
    BY <1>0, <2>1
  <2> QED  BY <1>3, <1>4, <1>5, <2>1, <2>2, <2>3, ResetIs DEF SameAvail
<1> QED  BY <1>0, <1>8, <1>9, <1>10

\* The other steps of Semaphore are steps of AbsSemaphore, or change nothing
\* that it can see.
LEMMA WaitAbs ==
  ASSUME ExactInv, NEW s \in Sem, SemWait(s) \/ SemTimedWait(s, "sem_timedwait") \/ SemTimedWait(s, "sem_tickwait")
  PROVE  Abs!Wait(Self, s)
<1> DEFINE r == Self
<1>1. IsBlocked(z, r, s, z') /\ z.count[s] <= 0 /\ pc[r] = "user"
  BY WaitStep DEF ExactInv, InUser
<1>2. /\ r \in Task \ (Asleep(z.k) \union Dead(z.k)) /\ pc \in [Task -> Label]
      /\ z.count \in [Sem -> Int] /\ z.waitsem \in [Task -> Sem \union {NULL}]
  BY SelfAwake, SemFields DEF ExactInv, Inv, PlacesValid
<1>3. \E l : pc' = [pc EXCEPT ![r] = l]
  BY DEF SemWait, SemTimedWait
<1> HIDE DEF r
<1>4. /\ Asleep(z'.k) = Asleep(z.k) \union {r} /\ z'.count = [z.count EXCEPT ![s] = @ - 1]
      /\ z'.waitsem = [z.waitsem EXCEPT ![r] = s] /\ z'.granted = z.granted \ {r}
  BY <1>1 DEF IsBlocked, Sleeping
<1>5. StatusOf(z, pc)[r] = Phase("idle", NULL) /\ StatusOf(z', pc')[r] = Phase("waiting", s)
  BY <1>1, <1>2, <1>4, StatusAt
<1>6. ASSUME NEW u \in Task \ {r} PROVE StatusOf(z', pc')[u] = StatusOf(z, pc)[u]
  <2>1. /\ u \in Asleep(z'.k) <=> u \in Asleep(z.k)
        /\ z'.waitsem[u] = z.waitsem[u] /\ (u \in z'.granted <=> u \in z.granted) /\ pc'[u] = pc[u]
    BY <1>2, <1>3, <1>4
  <2> QED  BY <2>1, StatusKept
<1>7. NewStatus(r, Phase("waiting", s))
  BY <1>2, <1>5, <1>6, OneStatus
<1>8. z.count[s] \in Int /\ z'.count[s] = z.count[s] - 1 /\ \A q \in Sem \ {s} : z'.count[q] = z.count[q]
  BY <1>2, <1>4
<1>9. SameAvail /\ AvailOf(z)[s] = 0
  <2>1. ~(z.count[s] > 0) /\ ~(z'.count[s] > 0)
    BY <1>1, <1>8
  <2> QED  BY <1>8, <2>1, AvailNegative DEF AvailOf
<1> QED  BY <1>5, <1>7, <1>9, WaitIs DEF r

\* A wait that ends without a permit, or is given up.
LEMMA LeaveAbs ==
  ASSUME ExactInv, NEW t \in Asleep(z.k), Asleep(z'.k) = Asleep(z.k) \ {t},
         z'.count = [z.count EXCEPT ![z.waitsem[t]] = @ + 1],
         z'.waitsem = [z.waitsem EXCEPT ![t] = NULL], z'.granted = z.granted,
         \A u \in Task \ {t} : pc'[u] = pc[u]
  PROVE  /\ SameAvail /\ StatusOf(z, pc)[t].phase = "waiting"
         /\ \A u \in Task \ {t} : StatusOf(z', pc')[u] = StatusOf(z, pc)[u]
<1>1. /\ t \in Task /\ z.waitsem[t] \in Sem /\ z.count[z.waitsem[t]] \in Int
      /\ z.count[z.waitsem[t]] < 0 /\ z.count \in [Sem -> Int]
      /\ z.waitsem \in [Task -> Sem \union {NULL}]
  BY SemFields, WaiterMeansNegative DEF ExactInv, Inv
<1>2. SameAvail
  <2> DEFINE s == z.waitsem[t]
  <2>1. s \in Sem /\ z'.count[s] = z.count[s] + 1 /\ \A q \in Sem \ {s} : z'.count[q] = z.count[q]
    BY <1>1
  <2>2. ~(z.count[s] > 0) /\ ~(z'.count[s] > 0)
    BY <1>1, <2>1
  <2> HIDE DEF s
  <2> QED  BY <2>1, <2>2, AvailNegative
<1>3. StatusOf(z, pc)[t].phase = "waiting"
  <2>1. StatusOf(z, pc)[t] = Phase("waiting", z.waitsem[t])
    BY <1>1, StatusAt
  <2> QED  BY <2>1 DEF Phase
<1>4. ASSUME NEW u \in Task \ {t} PROVE StatusOf(z', pc')[u] = StatusOf(z, pc)[u]
  <2>1. /\ u \in Asleep(z'.k) <=> u \in Asleep(z.k)
        /\ z'.waitsem[u] = z.waitsem[u] /\ (u \in z'.granted <=> u \in z.granted) /\ pc'[u] = pc[u]
    BY <1>1
  <2> QED  BY <2>1, StatusKept
<1> QED  BY <1>2, <1>3, <1>4

\* A step that leaves the counts, the sleepers, their records and the permits
\* alone, and every place but t's.
LEMMA PlaceAbs ==
  ASSUME NEW t \in Task, z'.count = z.count, Asleep(z'.k) = Asleep(z.k), z'.waitsem = z.waitsem,
         z'.granted = z.granted, \A u \in Task \ {t} : pc'[u] = pc[u]
  PROVE  /\ SameAvail
         /\ \A u \in Task \ {t} : StatusOf(z', pc')[u] = StatusOf(z, pc)[u]
<1>1. SameAvail
  BY AvailKept
<1>2. ASSUME NEW u \in Task \ {t} PROVE StatusOf(z', pc')[u] = StatusOf(z, pc)[u]
  <2>1. pc'[u] = pc[u] /\ z'.waitsem[u] = z.waitsem[u]
    OBVIOUS
  <2> QED  BY <2>1, StatusKept
<1> QED  BY <1>1, <1>2

\* task_restart is an abstract restart.
LEMMA RestartAbs ==
  ASSUME ExactInv, NEW t \in Task, TaskRestart(t)
  PROVE  Abs!Restart(t)
<1>1. IsRestarted(z, t, z') /\ t \notin Dead(z.k)
  BY RestartInv, TargetAlive DEF ExactInv, TaskRestart
<1>2. pc' = [pc EXCEPT ![t] = "user"] /\ pc \in [Task -> Label]
      /\ z.waitsem \in [Task -> Sem \union {NULL}]
  BY SemFields DEF ExactInv, Inv, PlacesValid, TaskRestart
<1>3. \A u \in Task \ {t} : pc'[u] = pc[u]
  BY <1>2
<1>4. /\ Asleep(z'.k) = Asleep(z.k) \ {t} /\ z'.waitsem = [z.waitsem EXCEPT ![t] = NULL]
      /\ z'.granted = z.granted
      /\ z'.count = IF t \in Asleep(z.k) THEN [z.count EXCEPT ![z.waitsem[t]] = @ + 1] ELSE z.count
  BY <1>1 DEF IsRestarted, Sleeping
<1>5. SameAvail /\ \A u \in Task \ {t} : StatusOf(z', pc')[u] = StatusOf(z, pc)[u]
  <2>1. CASE t \in Asleep(z.k)
    BY <1>3, <1>4, <2>1, LeaveAbs
  <2>2. CASE t \notin Asleep(z.k)
    <3>1. z.waitsem[t] = NULL
      BY <1>1, <2>2, SemFields DEF ExactInv, Inv
    <3>2. z'.count = z.count /\ Asleep(z'.k) = Asleep(z.k) /\ z'.waitsem = z.waitsem
      BY <1>2, <1>4, <2>2, <3>1
    <3> QED  BY <1>3, <1>4, <3>2, PlaceAbs
  <2> QED  BY <2>1, <2>2
<1>6. StatusOf(z', pc')[t] = Phase("idle", NULL)
  <2>1. pc'[t] = "user" /\ t \notin Asleep(z'.k)
    BY <1>2, <1>4
  <2> QED  BY <2>1, StatusAt
<1> QED  BY <1>5, <1>6, OneStatus, RestartIs

\* A timeout or a signal is an abstract abort, or is not seen.
LEMMA AbortAbs ==
  ASSUME ExactInv, NEW t \in Task, SemTimeout(t) \/ Signal(t)
  PROVE  Abs!Abort(t) \/ UNCHANGED Abs!vars
<1>1. CASE z' = z /\ pc' = pc
  BY <1>1, SameIs DEF SameAvail, SameStatus
<1>2. CASE t \in Asleep(z.k) /\ pc' = pc /\ \E o \in Errno \ {"OK"} : IsAborted(z, t, o, z')
  <2>1. /\ Asleep(z'.k) = Asleep(z.k) \ {t} /\ z'.waitsem = [z.waitsem EXCEPT ![t] = NULL]
        /\ z'.granted = z.granted /\ z'.count = [z.count EXCEPT ![z.waitsem[t]] = @ + 1]
    BY <1>2 DEF IsAborted, Sleeping
  <2>2. /\ SameAvail /\ StatusOf(z, pc)[t].phase = "waiting"
        /\ \A u \in Task \ {t} : StatusOf(z', pc')[u] = StatusOf(z, pc)[u]
    BY <1>2, <2>1, LeaveAbs
  <2>3. t \notin z'.granted /\ pc'[t] \notin {"user", "exithook"} /\ t \notin Asleep(z'.k)
    BY <1>2, <2>1 DEF ExactInv, Inv, SemSound, AsleepInCall, WaitLabel
  <2>4. StatusOf(z', pc')[t] = Phase("failed", NULL)
    BY <2>3, StatusAt
  <2> QED  BY <2>2, <2>4, OneStatus, AbortIs
<1> QED  BY <1>1, <1>2, AbortStep DEF ExactInv

\* A resumed call returns, or goes on to delete its watchdog unseen.
LEMMA ResumeAbs ==
  ASSUME ExactInv, Resume, NEW r \in Task, r = Self
  PROVE  Abs!Return(r) \/ UNCHANGED Abs!vars
<1>1. r \in Task \ Asleep(z.k) /\ pc \in [Task -> Label] /\ z' = z
  BY SelfAwake DEF ExactInv, Inv, PlacesValid, Resume, SemWaitResumed, SemTimedWaitResumed,
                   SemTickWaitResumed, SemTickWaitDelete
<1>2. pc[r] \notin {"user", "exithook"} /\ \E l \in {"user", "wd_delete"} : pc' = [pc EXCEPT ![r] = l]
  BY DEF Resume, SemWaitResumed, SemTimedWaitResumed, SemTickWaitResumed, SemTickWaitDelete, Finish
<1>3. StatusOf(z, pc)[r] = IF r \in z.granted THEN Phase("granted", NULL) ELSE Phase("failed", NULL)
  BY <1>1, <1>2, StatusAt
<1>4. SameAvail /\ \A u \in Task \ {r} : StatusOf(z', pc')[u] = StatusOf(z, pc)[u]
  BY <1>1, <1>2, PlaceAbs
<1>5. CASE pc' = [pc EXCEPT ![r] = "user"]
  <2>1. StatusOf(z', pc')[r] = Phase("idle", NULL)
    <3>1. pc'[r] = "user" /\ r \notin Asleep(z'.k)
      BY <1>1, <1>5
    <3> QED  BY <1>1, <3>1, StatusAt
  <2>2. StatusOf(z, pc)[r].phase \in {"granted", "failed"}
    BY <1>3 DEF Phase
  <2>3. NewStatus(r, Phase("idle", NULL))
    BY <1>1, <1>4, <2>1, OneStatus
  <2>4. Abs!Return(r)
    BY <1>4, <2>2, <2>3, ReturnIs
  <2> QED  BY <2>4
<1>6. CASE pc' = [pc EXCEPT ![r] = "wd_delete"]
  <2>1. StatusOf(z', pc')[r] = StatusOf(z, pc)[r]
    <3>1. pc'[r] \notin {"user", "exithook"} /\ r \notin Asleep(z'.k) /\ z'.granted = z.granted
      BY <1>1, <1>6
    <3> QED  BY <1>1, <1>3, <3>1, StatusAt
  <2>2. SameStatus
    BY <1>4, <2>1 DEF SameStatus, StatusOf
  <2> QED  BY <1>4, <2>2, SameIs
<1> QED  BY <1>2, <1>5, <1>6

\* A permit taken at once is an abstract take.
LEMMA TakeAbs ==
  ASSUME ExactInv, NEW s \in Sem, SemTake(s)
  PROVE  Abs!Take(Self, s)
<1>1. /\ z'.k = z.k /\ z'.count = [z.count EXCEPT ![s] = @ - 1] /\ z'.waitsem = z.waitsem
      /\ z'.granted = z.granted /\ pc' = pc
  BY TakeInv DEF ExactInv, IsTaken
<1>2. Self \in Task \ Asleep(z.k) /\ pc[Self] = "user" /\ z.count[s] > 0 /\ z.count \in [Sem -> Int]
  BY SelfAwake, SemFields DEF ExactInv, Inv, SemTake, InUser
<1>3. SameStatus
  BY <1>1 DEF SameStatus, StatusOf
<1>4. AvailOf(z)[s] = z.count[s] /\ z'.count[s] = z.count[s] - 1 /\ z'.count[s] \in Nat
      /\ \A q \in Sem \ {s} : z'.count[q] = z.count[q]
  BY <1>1, <1>2 DEF AvailOf
<1>5. AvailOf(z') = [AvailOf(z) EXCEPT ![s] = z'.count[s]]
  BY <1>4, AvailSet
<1>6. StatusOf(z, pc)[Self] = Phase("idle", NULL)
  BY <1>2, StatusAt
<1>7. AvailOf(z)[s] > 0 /\ AvailOf(z') = [AvailOf(z) EXCEPT ![s] = @ - 1]
  BY <1>2, <1>4, <1>5
<1> QED  BY <1>3, <1>6, <1>7, TakeIs

\* A change of priorities or of the scheduler lock is not seen.
LEMMA TuningAbs ==
  ASSUME ExactInv, Tuning
  PROVE  UNCHANGED Abs!vars
<1>0. Inv /\ SemSound(z) /\ z \in SemState
  BY SemFields DEF ExactInv, Inv
<1>1. PICK a : QuietStep(z.k, a) /\ z' = [z EXCEPT !.k = a]
  BY <1>0, TuningStep
<1>2. /\ Asleep(z'.k) = Asleep(z.k) /\ z'.waitsem = z.waitsem
      /\ z'.count = z.count /\ z'.granted = z.granted /\ pc' = pc
  BY <1>0, <1>1, QuietKernel, TuningStep DEF Sleeping, SameLedger
<1>3. SameAvail
  BY <1>2, AvailKept
<1>4. \A t \in Task : StatusOf(z', pc')[t] = StatusOf(z, pc)[t]
  BY <1>2, StatusKept
<1>5. SameStatus
  BY <1>4 DEF SameStatus, StatusOf
<1> QED  BY <1>3, <1>5, SameIs

\* The initial states show the initial permits and idle tasks.
LEMMA InitAbs == Init => Abs!Init
<1> SUFFICES ASSUME Init PROVE Abs!Init
  OBVIOUS
<1>1. InitCount \in [Sem -> Nat]
  BY SemaphoreAssumption
<1>2. z.count = InitCount /\ pc = [t \in Task |-> "user"]
  BY DEF Init
<1>3. \A t \in Task : t \notin Asleep(z.k)
  <2>1. z.k.state = [t \in Task |-> IF t = BootList[1] THEN "RUNNING"
                                    ELSE IF InList(BootList, t) THEN "READYTORUN" ELSE "INVALID"]
    BY DEF Init, os_start
  <2> QED  BY <2>1 DEF Asleep
<1>4. AvailOf(z) = InitCount
  <2>1. \A s \in Sem : AvailOf(z)[s] = InitCount[s]
    <3> SUFFICES ASSUME NEW s \in Sem PROVE AvailOf(z)[s] = InitCount[s]
      OBVIOUS
    <3>1. InitCount[s] \in Nat /\ z.count[s] = InitCount[s]
      BY <1>1, <1>2
    <3> QED  BY <3>1 DEF AvailOf
  <2> QED  BY <1>1, <2>1 DEF AvailOf
<1>5. \A t \in Task : StatusOf(z, pc)[t] = Phase("idle", NULL)
  BY <1>2, <1>3, StatusAt
<1>6. StatusOf(z, pc) = [t \in Task |-> Phase("idle", NULL)]
  BY <1>5 DEF StatusOf
<1> QED  BY <1>4, <1>6 DEF Abs!Init, Abs!Idle, AvailOf, StatusOf, Phase

\* Every step is a step of the abstract semaphore or is not seen.
LEMMA StepAbs ==
  ASSUME NoDeletion, ExactInv, ExactInv', [Next]_vars
  PROVE  AbsStep
<1>0. Self \in Task
  BY SelfAwake DEF ExactInv, Inv
<1>1. CASE AppCall
  <2>1. ASSUME NEW s \in Sem, SemTake(s) PROVE AbsStep
    BY <1>0, <2>1, TakeAbs DEF AbsStep, Abs!Next
  <2>2. ASSUME NEW s \in Sem, SemWait(s) \/ SemTimedWait(s, "sem_timedwait") \/ SemTimedWait(s, "sem_tickwait")
        PROVE  AbsStep
    BY <1>0, <2>2, WaitAbs DEF AbsStep, Abs!Next
  <2>3. ASSUME NEW s \in Sem, NEW n \in ResetArg, SemReset(s, n) PROVE AbsStep
    BY <2>3, ResetAbs DEF AbsStep, Abs!Next
  <2>4. CASE Tuning
    BY <2>4, TuningAbs DEF AbsStep
  <2>5. ASSUME NEW t \in Task, TaskRestart(t) PROVE AbsStep
    BY <2>5, RestartAbs DEF AbsStep, Abs!Next
  <2> QED  BY <1>1, <2>1, <2>2, <2>3, <2>4, <2>5 DEF AppCall, NoDeletion, Tuning
<1>2. CASE Resume
  <2>1. PICK r \in Task : r = Self
    BY <1>0
  <2>2. Abs!Return(r) \/ UNCHANGED Abs!vars
    BY <1>2, <2>1, ResumeAbs
  <2> QED  BY <2>2 DEF AbsStep, Abs!Next
<1>3. CASE TaskExitHook
  BY <1>0, <1>3 DEF TaskExitHook, ExactInv, NoVictims
<1>4. ASSUME NEW s \in Sem, SemPost(s) PROVE AbsStep
  BY <1>4, PostAbs DEF AbsStep, Abs!Next
<1>5. ASSUME NEW t \in Task, SemTimeout(t) \/ Signal(t) PROVE AbsStep
  BY <1>5, AbortAbs DEF AbsStep, Abs!Next
<1>6. CASE UNCHANGED vars
  BY <1>6, SameIs DEF AbsStep, SameAvail, SameStatus, vars
<1> QED  BY <1>1, <1>2, <1>3, <1>4, <1>5, <1>6 DEF Next

\* The semaphores implement AbsSemaphore for any number of tasks and
\* semaphores: counting below zero, the list of waiters, aborts that race a
\* post, sem_reset and task_restart neither lose nor duplicate a permit, and
\* a wait that a post did not end is not told that it has one.  (ImplementsAbs)
THEOREM ImplementsAbsSemaphore == ASSUME NoDeletion PROVE Spec => ImplementsAbs
<1>1. ExactInv /\ ExactInv' /\ [Next]_vars => [Abs!Next]_(Abs!vars)
  BY StepAbs DEF AbsStep
<1> QED  BY <1>1, InitAbs, ExactAlways, PTL DEF Spec, ImplementsAbs, Abs!Spec
=============================================================================
