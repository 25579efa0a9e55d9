---------------------------- MODULE KernelProofs ----------------------------
(***************************************************************************)
(* What every function of Kernel preserves: the TCBs are in the lists their *)
(* states name, the prioritized lists are sorted, the idle task stays      *)
(* ready, and a task on g_pendingtasks has someone who will release it.    *)
(*                                                                         *)
(* First, what the list operations do to a list that holds each task of a  *)
(* set S once, and to its order: removal, insertion by priority, and the   *)
(* merge of g_pendingtasks into g_readytorun.                              *)
(***************************************************************************)
EXTENDS Kernel, WellFoundedInduction, SequenceTheorems, TLAPS

\* Every search from the front of a list finds a first element.
LEMMA LeastElement ==
  ASSUME NEW S \in SUBSET Nat, S # {}
  PROVE  \E m \in S : \A n \in S : m <= n
<1>1. \E m \in S : \A n \in S : <<n, m>> \notin OpToRel(<, Nat)
  BY NatLessThanWellFounded, WFMin
<1>2. PICK m \in S : \A n \in S : <<n, m>> \notin OpToRel(<, Nat)
  BY <1>1
<1>3. \A n \in S : m <= n
  <2> SUFFICES ASSUME NEW n \in S, ~(m <= n) PROVE FALSE
    OBVIOUS
  <2>1. n \in Nat /\ m \in Nat /\ n < m
    OBVIOUS
  <2>2. <<n, m>> \in OpToRel(<, Nat)
    BY <2>1, Zenon DEF OpToRel
  <2> QED  BY <2>2, <1>2
<1> QED  BY <1>3

\* Every search from the back of a bounded range finds a last element.
LEMMA GreatestElement ==
  ASSUME NEW b \in Nat, NEW S \in SUBSET (0..b), S # {}
  PROVE  \E m \in S : \A n \in S : n <= m
<1> DEFINE T == {n \in Nat : b - n \in S}
<1>1. T \in SUBSET Nat /\ T # {}
  <2>1. PICK s \in S : TRUE
    OBVIOUS
  <2>2. b - s \in T
    BY <2>1
  <2> QED  BY <2>2
<1>2. PICK m \in T : \A n \in T : m <= n
  BY <1>1, LeastElement
<1>3. \A n \in S : n <= b - m
  <2> SUFFICES ASSUME NEW n \in S PROVE n <= b - m
    OBVIOUS
  <2>1. b - n \in T
    OBVIOUS
  <2> QED  BY <2>1, <1>2
<1> QED  BY <1>2, <1>3

\* Counting up from 0 reaches every natural: what the loops of the modelled
\* code rest on.
LEMMA CountingUp ==
  ASSUME NEW S, 0 \in S, \A i \in Nat : i \in S => i + 1 \in S
  PROVE  \A n \in Nat : n \in S
<1> SUFFICES ASSUME NEW n \in Nat, n \notin S PROVE FALSE
  OBVIOUS
<1> DEFINE T == {i \in Nat : i \notin S}
<1>1. PICK m \in T : \A i \in T : m <= i
  <2>1. T \in SUBSET Nat /\ n \in T
    OBVIOUS
  <2> HIDE DEF T
  <2> QED  BY <2>1, LeastElement
<1>2. m # 0 /\ m \in Nat /\ m - 1 \in Nat
  OBVIOUS
<1>3. m - 1 \notin T
  BY <1>1, <1>2
<1> QED  BY <1>2, <1>3

\* l holds exactly the tasks in S, each once.
Lists(l, S) ==
  /\ l \in Seq(Task)
  /\ \A t \in Task : InList(l, t) <=> t \in S
  /\ \A i, j \in 1..Len(l) : l[i] = l[j] => i = j

Sorted(l, prio) ==
  \A i, j \in 1..Len(l) : i < j => prio[l[i]] >= prio[l[j]]

PrioFcn == [Task -> 0..SCHED_PRIORITY_MAX]

\* A function on 1..n is a sequence of length n.
LEMMA FcnIsSeq ==
  ASSUME NEW S, NEW n \in Nat, NEW f \in [1..n -> S]
  PROVE  f \in Seq(S) /\ Len(f) = n
<1>1. f \in Seq(S)
  BY SeqDef
<1>2. Len(f) \in Nat /\ DOMAIN f = 1..Len(f)
  BY <1>1, LenProperties
<1>3. DOMAIN f = 1..n
  OBVIOUS
<1> QED  BY <1>1, <1>2, <1>3

\* Unlinking a task: the others keep their order.
LEMMA Removal ==
  ASSUME NEW l, NEW S, Lists(l, S), NEW t \in S, S \subseteq Task
  PROVE  LET m == dq_rem(t, l) IN
         /\ Lists(m, S \ {t})
         /\ Len(l) \in Nat \ {0} /\ Len(m) = Len(l) - 1
         /\ l[1] # t => m # <<>> /\ m[1] = l[1]
         /\ l[1] = t /\ Len(l) > 1 => m # <<>> /\ m[1] = l[2]
         /\ \A prio \in PrioFcn : Sorted(l, prio) => Sorted(m, prio)
<1> DEFINE i == CHOOSE n \in 1..Len(l) : l[n] = t
           m == dq_rem(t, l)
<1>1. l \in Seq(Task) /\ Len(l) \in Nat /\ l \in [1..Len(l) -> Task]
  BY LenProperties DEF Lists
<1>2. i \in 1..Len(l) /\ l[i] = t
  BY DEF Lists, InList
<1>3. m = [n \in 1..(Len(l) - 1) |-> IF n < i THEN l[n] ELSE l[n + 1]]
  BY DEF dq_rem
<1> HIDE DEF i, m
<1>4. \A n \in 1..(Len(l) - 1) : n + 1 \in 1..Len(l) /\ n \in 1..Len(l)
  BY <1>1
<1>5. m \in [1..(Len(l) - 1) -> Task] /\ Len(l) - 1 \in Nat
  BY <1>1, <1>2, <1>3, <1>4
<1>6. m \in Seq(Task) /\ Len(m) = Len(l) - 1
  BY <1>5, FcnIsSeq
<1>7. \A n \in 1..Len(m) : m[n] = IF n < i THEN l[n] ELSE l[n + 1]
  BY <1>3, <1>6
<1>8. ASSUME NEW u \in Task PROVE InList(m, u) <=> u \in S \ {t}
  <2>1. ASSUME InList(m, u) PROVE u \in S \ {t}
    <3>1. PICK n \in 1..Len(m) : m[n] = u
      BY <2>1 DEF InList
    <3>2. PICK x \in 1..Len(l) : l[x] = u /\ x # i
      BY <1>1, <1>2, <1>4, <1>6, <1>7, <3>1
    <3> QED  BY <1>2, <3>2 DEF Lists, InList
  <2>2. ASSUME u \in S \ {t} PROVE InList(m, u)
    <3>1. PICK x \in 1..Len(l) : l[x] = u
      BY <2>2 DEF Lists, InList
    <3>2. x # i
      BY <1>2, <2>2, <3>1
    <3> DEFINE y == IF x < i THEN x ELSE x - 1
    <3>3. y \in 1..Len(m) /\ m[y] = u
      BY <1>1, <1>2, <1>6, <1>7, <3>1, <3>2
    <3> QED  BY <3>3 DEF InList
  <2> QED  BY <2>1, <2>2
<1>9. \A x, y \in 1..Len(m) : m[x] = m[y] => x = y
  BY <1>1, <1>2, <1>6, <1>7 DEF Lists
<1>10. Lists(m, S \ {t})
  BY <1>6, <1>8, <1>9 DEF Lists
<1>11. ASSUME l[1] # t PROVE m # <<>> /\ m[1] = l[1]
  <2>1. 1 < i
    BY <1>1, <1>2, <1>11
  <2> QED  BY <1>1, <1>2, <1>6, <1>7, <2>1, EmptySeq
<1>12. ASSUME l[1] = t, Len(l) > 1 PROVE m # <<>> /\ m[1] = l[2]
  <2>1. i = 1
    BY <1>1, <1>2, <1>12 DEF Lists
  <2> QED  BY <1>1, <1>2, <1>6, <1>7, <1>12, <2>1, EmptySeq
<1>13. ASSUME NEW prio \in PrioFcn, Sorted(l, prio) PROVE Sorted(m, prio)
  <2> SUFFICES ASSUME NEW x \in 1..Len(m), NEW y \in 1..Len(m), x < y
               PROVE  prio[m[x]] >= prio[m[y]]
    BY DEF Sorted
  <2> DEFINE a == IF x < i THEN x ELSE x + 1
             b == IF y < i THEN y ELSE y + 1
  <2>1. a \in 1..Len(l) /\ b \in 1..Len(l) /\ a < b
    BY <1>1, <1>2, <1>6
  <2>2. m[x] = l[a] /\ m[y] = l[b]
    BY <1>7
  <2> QED  BY <1>13, <2>1, <2>2 DEF Sorted
<1> QED  BY <1>1, <1>2, <1>6, <1>10, <1>11, <1>12, <1>13 DEF m

\* Putting a task anywhere into a list.
LEMMA Insertion ==
  ASSUME NEW l, NEW S, Lists(l, S), NEW t \in Task \ S, NEW p \in 1..(Len(l) + 1),
         NEW m, m = InsertAtPos(l, p, t)
  PROVE  /\ Lists(m, S \union {t})
         /\ Len(l) \in Nat /\ Len(m) = Len(l) + 1
         /\ \A n \in 1..Len(m) : m[n] = IF n < p THEN l[n] ELSE IF n = p THEN t ELSE l[n - 1]
<1>1. l \in Seq(Task) /\ Len(l) \in Nat /\ l \in [1..Len(l) -> Task]
  BY LenProperties DEF Lists
<1>2. m = [n \in 1..(Len(l) + 1) |-> IF n < p THEN l[n] ELSE IF n = p THEN t ELSE l[n - 1]]
  BY DEF InsertAtPos
<1>3. \A n \in 1..(Len(l) + 1) : (n < p => n \in 1..Len(l)) /\ (p < n => n - 1 \in 1..Len(l))
  BY <1>1
<1>4. m \in [1..(Len(l) + 1) -> Task] /\ Len(l) + 1 \in Nat
  BY <1>1, <1>2, <1>3
<1>5. m \in Seq(Task) /\ Len(m) = Len(l) + 1
  BY <1>4, FcnIsSeq
<1>6. \A n \in 1..Len(m) : m[n] = IF n < p THEN l[n] ELSE IF n = p THEN t ELSE l[n - 1]
  BY <1>2, <1>5
<1>7. \A n \in 1..Len(l) : l[n] # t
  BY <1>1 DEF Lists, InList
<1>8. ASSUME NEW u \in Task PROVE InList(m, u) <=> u \in S \union {t}
  <2>1. ASSUME InList(m, u) PROVE u \in S \union {t}
    <3>1. PICK n \in 1..Len(m) : m[n] = u
      BY <2>1 DEF InList
    <3>2. CASE n = p
      BY <1>6, <3>1, <3>2
    <3>3. CASE n # p
      <4>1. \E x \in 1..Len(l) : l[x] = u
        BY <1>1, <1>3, <1>5, <1>6, <3>1, <3>3
      <4> QED  BY <4>1 DEF Lists, InList
    <3> QED  BY <3>2, <3>3
  <2>2. ASSUME u \in S PROVE InList(m, u)
    <3>1. PICK x \in 1..Len(l) : l[x] = u
      BY <2>2 DEF Lists, InList
    <3> DEFINE y == IF x < p THEN x ELSE x + 1
    <3>2. y \in 1..Len(m) /\ m[y] = u
      BY <1>1, <1>5, <1>6, <3>1
    <3> QED  BY <3>2 DEF InList
  <2>3. InList(m, t)
    <3>1. p \in 1..Len(m) /\ m[p] = t
      BY <1>1, <1>5, <1>6
    <3> QED  BY <3>1 DEF InList
  <2> QED  BY <2>1, <2>2, <2>3
<1>9. \A x, y \in 1..Len(m) : m[x] = m[y] => x = y
  BY <1>1, <1>3, <1>5, <1>6, <1>7 DEF Lists
<1> QED  BY <1>1, <1>5, <1>6, <1>8, <1>9 DEF Lists

\* The search of sched_addprioritized ends, whatever the list.
LEMMA InsertPosFound ==
  ASSUME NEW l \in Seq(Task), NEW prio \in PrioFcn, NEW p \in Nat
  PROVE  LET i == InsertPos(l, prio, p) IN
         /\ i \in 1..(Len(l) + 1)
         /\ \A n \in 1..(i - 1) : p <= prio[l[n]]
         /\ i <= Len(l) => prio[l[i]] < p
<1> DEFINE F == {n \in 1..(Len(l) + 1) : n <= Len(l) => prio[l[n]] < p}
           Q(i) == /\ \A n \in 1..(i - 1) : p <= prio[l[n]]
                   /\ i <= Len(l) => prio[l[i]] < p
<1>1. Len(l) \in Nat /\ \A n \in 1..Len(l) : prio[l[n]] \in Nat
  BY LenProperties, KernelAssumption DEF PrioFcn
<1>2. F \in SUBSET Nat /\ Len(l) + 1 \in F
  BY <1>1
<1>3. PICK i \in F : \A n \in F : i <= n
  BY <1>2, LeastElement
<1>4. Q(i)
  <2>1. ASSUME NEW n \in 1..(i - 1) PROVE p <= prio[l[n]]
    <3>1. n \in 1..Len(l) /\ n \notin F
      BY <1>1, <1>2, <1>3
    <3> QED  BY <1>1, <3>1
  <2> QED  BY <1>3, <2>1
<1>5. \E j \in 1..(Len(l) + 1) : Q(j)
  BY <1>3, <1>4
<1> QED  BY <1>5 DEF InsertPos

\* sched_addprioritized keeps a sorted list sorted; the task becomes the
\* head exactly if it is more urgent than all others.
Insertable(l, S, prio, t) ==
  Lists(l, S) /\ prio \in PrioFcn /\ Sorted(l, prio) /\ t \in Task \ S

Inserted(l, S, prio, t, m) ==
  /\ Lists(m, S \union {t})
  /\ Sorted(m, prio)
  /\ m # <<>>
  /\ m[1] = IF l # <<>> /\ prio[t] <= prio[l[1]] THEN l[1] ELSE t

\* sched_addprioritized keeps a sorted list sorted and adds just its task.
LEMMA PrioritizedInsertion ==
  ASSUME NEW l, NEW S, NEW prio, NEW t, Insertable(l, S, prio, t)
  PROVE  Inserted(l, S, prio, t, AddPrioritized(l, prio, t))
<1> DEFINE m == AddPrioritized(l, prio, t)
<1> SUFFICES Inserted(l, S, prio, t, m)
  OBVIOUS
<1>0. Lists(l, S) /\ prio \in PrioFcn /\ Sorted(l, prio) /\ t \in Task \ S
  BY DEF Insertable
<1> DEFINE p == InsertPos(l, prio, prio[t])
<1>1. l \in Seq(Task) /\ Len(l) \in Nat /\ l \in [1..Len(l) -> Task]
  BY <1>0, LenProperties DEF Lists
<1>2. prio[t] \in Nat /\ \A n \in 1..Len(l) : prio[l[n]] \in Nat
  BY <1>0, <1>1, KernelAssumption DEF PrioFcn
<1>3. /\ p \in 1..(Len(l) + 1)
      /\ \A n \in 1..(p - 1) : prio[t] <= prio[l[n]]
      /\ p <= Len(l) => prio[l[p]] < prio[t]
  BY <1>0, <1>1, <1>2, InsertPosFound
<1>4. m = InsertAtPos(l, p, t)
  BY DEF AddPrioritized
<1> HIDE DEF p, m
<1>5. /\ Lists(m, S \union {t})
      /\ Len(m) = Len(l) + 1
      /\ \A n \in 1..Len(m) : m[n] = IF n < p THEN l[n] ELSE IF n = p THEN t ELSE l[n - 1]
  <2>1. p \in 1..(Len(l) + 1)
    BY <1>3
  <2>2. Lists(m, S \union {t})
    BY <1>0, <1>4, <2>1, Insertion, Zenon
  <2>3. Len(m) = Len(l) + 1
    BY <1>0, <1>4, <2>1, Insertion, Zenon
  <2>4. \A n \in 1..Len(m) : m[n] = IF n < p THEN l[n] ELSE IF n = p THEN t ELSE l[n - 1]
    BY <1>4, <2>3 DEF InsertAtPos
  <2> QED  BY <2>2, <2>3, <2>4
<1>6. ASSUME NEW x \in 1..Len(m), NEW y \in 1..Len(m), x < y
      PROVE  prio[m[x]] >= prio[m[y]]
  <2>1. CASE y < p
    BY <1>0, <1>1, <1>3, <1>5, <1>6, <2>1 DEF Sorted
  <2>2. CASE y = p
    BY <1>1, <1>2, <1>3, <1>5, <1>6, <2>2
  <2>3. CASE p < y /\ x = p
    <3>1. m[y] = l[y - 1] /\ m[x] = t /\ y - 1 \in 1..Len(l) /\ p <= y - 1 /\ p \in 1..Len(l)
      BY <1>1, <1>3, <1>5, <1>6, <2>3
    <3>2. prio[l[p]] >= prio[l[y - 1]]
      BY <1>0, <1>2, <3>1 DEF Sorted
    <3> QED  BY <1>2, <1>3, <3>1, <3>2
  <2>4. CASE p < y /\ x # p
    <3> DEFINE a == IF x < p THEN x ELSE x - 1
    <3>1. m[y] = l[y - 1] /\ m[x] = l[a]
      BY <1>3, <1>5, <2>4
    <3>2. a \in 1..Len(l) /\ y - 1 \in 1..Len(l) /\ a <= y - 1
      BY <1>1, <1>3, <1>5, <1>6, <2>4
    <3> HIDE DEF a
    <3>3. prio[l[a]] \in Nat /\ (a < y - 1 \/ a = y - 1)
      BY <1>1, <1>2, <3>2
    <3>4. prio[l[a]] >= prio[l[y - 1]]
      BY <1>0, <1>2, <3>2, <3>3 DEF Sorted
    <3> QED  BY <3>1, <3>4
  <2> QED  BY <1>1, <1>3, <1>5, <2>1, <2>2, <2>3, <2>4
<1>7. m # <<>> /\ 1 \in 1..Len(m)
  BY <1>1, <1>5, EmptySeq
<1>8. m[1] = IF l # <<>> /\ prio[t] <= prio[l[1]] THEN l[1] ELSE t
  <2>1. CASE l = <<>>
    <3>1. Len(l) = 0
      BY <2>1
    <3>2. p = 1
      BY <1>3, <3>1
    <3> QED  BY <1>5, <1>7, <2>1, <3>2
  <2>2. CASE l # <<>>
    <3>1. 1 \in 1..Len(l)
      BY <1>1, <2>2, EmptySeq
    <3> QED  BY <1>1, <1>2, <1>3, <1>5, <1>7, <2>2, <3>1
  <2> QED  BY <2>1, <2>2
<1> QED  BY <1>5, <1>6, <1>7, <1>8 DEF Sorted, Inserted

\* g_pendingtasks and g_readytorun before the merge.
MergeInput(P, R, A, B, prio) ==
  /\ Lists(P, A) /\ Lists(R, B) /\ A \subseteq Task /\ B \subseteq Task /\ A \cap B = {}
  /\ prio \in PrioFcn /\ Sorted(P, prio) /\ Sorted(R, prio)

\* pos[i] says before which ready task pending task i is inserted.
Positions(P, R, prio) == [i \in 1..Len(P) |-> InsertPos(R, prio, prio[P[i]])]

\* sched_mergepending inserts the pending tasks at increasing places.
LEMMA PositionsIncrease ==
  ASSUME NEW P, NEW R, NEW A, NEW B, NEW prio, MergeInput(P, R, A, B, prio)
  PROVE  LET pos == Positions(P, R, prio) IN
         /\ P \in Seq(Task) /\ R \in Seq(Task) /\ Len(P) \in Nat /\ Len(R) \in Nat
         /\ P \in [1..Len(P) -> Task] /\ R \in [1..Len(R) -> Task]
         /\ \A i \in 1..Len(P) : prio[P[i]] \in Nat
         /\ \A j \in 1..Len(R) : prio[R[j]] \in Nat
         /\ pos \in [1..Len(P) -> 1..(Len(R) + 1)]
         /\ \A i, j \in 1..Len(P) : i <= j => pos[i] <= pos[j]
         /\ \A i \in 1..Len(P) : \A j \in 1..Len(R) :
              /\ j < pos[i] => prio[P[i]] <= prio[R[j]]
              /\ pos[i] <= j => prio[R[j]] < prio[P[i]]
<1> DEFINE pos == Positions(P, R, prio)
<1>1. /\ P \in Seq(Task) /\ R \in Seq(Task) /\ Len(P) \in Nat /\ Len(R) \in Nat
      /\ P \in [1..Len(P) -> Task] /\ R \in [1..Len(R) -> Task] /\ prio \in PrioFcn
  BY LenProperties DEF MergeInput, Lists
<1>2. /\ \A i \in 1..Len(P) : prio[P[i]] \in Nat
      /\ \A j \in 1..Len(R) : prio[R[j]] \in Nat
  BY <1>1, KernelAssumption DEF PrioFcn
<1>3. ASSUME NEW i \in 1..Len(P)
      PROVE  /\ pos[i] \in 1..(Len(R) + 1)
             /\ \A n \in 1..(pos[i] - 1) : prio[P[i]] <= prio[R[n]]
             /\ pos[i] <= Len(R) => prio[R[pos[i]]] < prio[P[i]]
  BY <1>1, <1>2, InsertPosFound DEF Positions
<1>4. pos \in [1..Len(P) -> 1..(Len(R) + 1)]
  BY <1>3 DEF Positions
<1> HIDE DEF pos
<1>5. ASSUME NEW i \in 1..Len(P), NEW j \in 1..Len(R), j < pos[i]
      PROVE  prio[P[i]] <= prio[R[j]]
  <2>1. pos[i] \in 1..(Len(R) + 1) /\ \A n \in 1..(pos[i] - 1) : prio[P[i]] <= prio[R[n]]
    BY <1>3
  <2>2. j \in 1..(pos[i] - 1)
    BY <1>1, <1>5, <2>1
  <2> QED  BY <2>1, <2>2
<1>6. ASSUME NEW i \in 1..Len(P), NEW j \in 1..Len(R), pos[i] <= j
      PROVE  prio[R[j]] < prio[P[i]]
  <2>1. pos[i] \in 1..Len(R) /\ prio[R[pos[i]]] < prio[P[i]]
    BY <1>1, <1>3, <1>6
  <2>2. prio[R[pos[i]]] >= prio[R[j]]
    BY <1>2, <1>6, <2>1 DEF MergeInput, Sorted
  <2> QED  BY <1>2, <2>1, <2>2
<1>7. ASSUME NEW i \in 1..Len(P), NEW j \in 1..Len(P), i <= j
      PROVE  pos[i] <= pos[j]
  <2> SUFFICES ASSUME pos[j] < pos[i] PROVE FALSE
    BY <1>3
  <2>1. pos[j] \in 1..Len(R)
    BY <1>1, <1>3
  <2>2. prio[P[i]] >= prio[P[j]]
    BY <1>2, <1>7 DEF MergeInput, Sorted
  <2>3. prio[P[i]] <= prio[R[pos[j]]] /\ prio[R[pos[j]]] < prio[P[j]]
    BY <1>3, <1>5, <1>6, <2>1
  <2> QED  BY <1>2, <2>1, <2>2, <2>3
<1> QED  BY <1>1, <1>2, <1>4, <1>5, <1>6, <1>7 DEF pos

\* Place n of the merged list holds pending task i, or ready task j.
FromPending(pos, N, n, i) == i \in 1..N /\ n = i + pos[i] - 1
FromReady(pos, N, M, n, j) ==
  /\ j \in 1..M
  /\ n - j \in 0..N
  /\ n - j > 0 => pos[n - j] <= j
  /\ n - j < N => j < pos[n - j + 1]

Places(pos, N, M) ==
  /\ N \in Nat /\ M \in Nat
  /\ pos \in [1..N -> 1..(M + 1)]
  /\ \A i, j \in 1..N : i <= j => pos[i] <= pos[j]

\* Every place of the merged list is filled, and every task has a place.
LEMMA PlacesFilled ==
  ASSUME NEW pos, NEW N, NEW M, Places(pos, N, M)
  PROVE  /\ \A n \in 1..(N + M) : \/ \E i \in 1..N : FromPending(pos, N, n, i)
                                  \/ \E j \in 1..M : FromReady(pos, N, M, n, j)
         /\ \A i \in 1..N : \E n \in 1..(N + M) : FromPending(pos, N, n, i)
         /\ \A j \in 1..M : \E n \in 1..(N + M) : FromReady(pos, N, M, n, j)
<1>1. /\ N \in Nat /\ M \in Nat
      /\ \A i \in 1..N : pos[i] \in 1..(M + 1)
  BY DEF Places
<1>2. ASSUME NEW n \in 1..(N + M), \A i \in 1..N : ~FromPending(pos, N, n, i)
      PROVE  \E j \in 1..M : FromReady(pos, N, M, n, j)
  <2> DEFINE G == {m \in 0..N : m > 0 => m + pos[m] - 1 < n}
  <2>1. G \in SUBSET (0..N) /\ 0 \in G
    BY <1>1
  <2>2. PICK m \in G : \A g \in G : g <= m
    BY <1>1, <2>1, GreatestElement
  <2>3. m > 0 => pos[m] <= n - m
    BY <1>1, <2>2
  <2>4. ASSUME m < N PROVE n - m < pos[m + 1]
    <3>1. m + 1 \in 1..N /\ m + 1 \notin G
      BY <1>1, <2>2, <2>4
    <3>2. n # (m + 1) + pos[m + 1] - 1
      BY <1>2, <3>1 DEF FromPending
    <3> QED  BY <1>1, <3>1, <3>2
  <2>5. n - m \in 1..M
    <3>1. CASE m = N
      BY <1>1, <2>2, <2>3, <3>1
    <3>2. CASE m < N
      BY <1>1, <2>2, <2>3, <2>4, <3>2
    <3> QED  BY <1>1, <2>2, <3>1, <3>2
  <2>6. n - (n - m) = m
    BY <1>1, <2>2
  <2>7. FromReady(pos, N, M, n, n - m)
    BY <1>1, <2>2, <2>3, <2>4, <2>5, <2>6 DEF FromReady
  <2> QED  BY <2>5, <2>7
<1>3. ASSUME NEW i \in 1..N PROVE \E n \in 1..(N + M) : FromPending(pos, N, n, i)
  <2>1. i + pos[i] - 1 \in 1..(N + M)
    BY <1>1
  <2> QED  BY <2>1 DEF FromPending
<1>4. ASSUME NEW j \in 1..M PROVE \E n \in 1..(N + M) : FromReady(pos, N, M, n, j)
  <2> DEFINE G == {m \in 0..N : m > 0 => pos[m] <= j}
  <2>1. G \in SUBSET (0..N) /\ 0 \in G
    BY <1>1
  <2>2. PICK m \in G : \A g \in G : g <= m
    BY <1>1, <2>1, GreatestElement
  <2>3. ASSUME m < N PROVE j < pos[m + 1]
    <3>1. m + 1 \in 1..N /\ m + 1 \notin G
      BY <1>1, <2>2, <2>3
    <3> QED  BY <1>1, <3>1
  <2>4. (m + j) - j = m /\ m + j \in 1..(N + M)
    BY <1>1, <2>2
  <2>5. FromReady(pos, N, M, m + j, j)
    BY <1>1, <2>2, <2>3, <2>4 DEF FromReady
  <2> QED  BY <2>4, <2>5
<1> QED  BY <1>2, <1>3, <1>4

\* The places are in the order of both lists; a pending task is before
\* exactly the ready tasks from its position on.
LEMMA PlacesOrdered ==
  ASSUME NEW pos, NEW N, NEW M, Places(pos, N, M), NEW n \in Int, NEW o \in Int
  PROVE  /\ \A i, j \in 1..N : FromPending(pos, N, n, i) /\ FromPending(pos, N, o, j) =>
              (i = j => n = o) /\ (n = o => i = j) /\ (n < o => i < j)
         /\ \A i, j \in 1..M : FromReady(pos, N, M, n, i) /\ FromReady(pos, N, M, o, j) =>
              (i = j => n = o) /\ (n = o => i = j) /\ (n < o => i < j)
         /\ \A i \in 1..N, j \in 1..M : FromPending(pos, N, n, i) /\ FromReady(pos, N, M, o, j) =>
              n # o /\ (n < o => pos[i] <= j) /\ (o < n => j < pos[i])
<1>1. /\ N \in Nat /\ M \in Nat
      /\ \A i \in 1..N : pos[i] \in 1..(M + 1)
      /\ \A i, j \in 1..N : i <= j => pos[i] <= pos[j]
  BY DEF Places
<1>2. ASSUME NEW i \in 1..N, NEW j \in 1..N,
             FromPending(pos, N, n, i), FromPending(pos, N, o, j)
      PROVE  (i = j => n = o) /\ (n = o => i = j) /\ (n < o => i < j)
  <2>1. pos[i] \in Int /\ pos[j] \in Int /\ n = i + pos[i] - 1 /\ o = j + pos[j] - 1
    BY <1>1, <1>2 DEF FromPending
  <2>2. (i <= j => pos[i] <= pos[j]) /\ (j <= i => pos[j] <= pos[i])
    BY <1>1
  <2> QED  BY <1>1, <2>1, <2>2
<1>3. ASSUME NEW i \in 1..M, NEW j \in 1..M,
             FromReady(pos, N, M, n, i), FromReady(pos, N, M, o, j)
      PROVE  (i = j => n = o) /\ (n = o => i = j) /\ (n < o => i < j)
  <2> DEFINE a == n - i
             b == o - j
  <2>1. /\ a \in 0..N /\ b \in 0..N /\ n = a + i /\ o = b + j
        /\ (a > 0 => pos[a] <= i) /\ (a < N => i < pos[a + 1])
        /\ (b > 0 => pos[b] <= j) /\ (b < N => j < pos[b + 1])
    BY <1>1, <1>3 DEF FromReady
  <2> HIDE DEF a, b
  <2>2. CASE a = b
    BY <1>1, <2>1, <2>2
  <2>3. CASE a < b
    <3>1. a + 1 \in 1..N /\ b \in 1..N /\ pos[a + 1] <= pos[b]
      BY <1>1, <2>1, <2>3
    <3>2. i < j
      BY <1>1, <2>1, <2>3, <3>1
    <3> QED  BY <1>1, <2>1, <2>3, <3>2
  <2>4. CASE b < a
    <3>1. b + 1 \in 1..N /\ a \in 1..N /\ pos[b + 1] <= pos[a]
      BY <1>1, <2>1, <2>4
    <3>2. j < i
      BY <1>1, <2>1, <2>4, <3>1
    <3> QED  BY <1>1, <2>1, <2>4, <3>2
  <2> QED  BY <1>1, <2>1, <2>2, <2>3, <2>4
<1>4. ASSUME NEW i \in 1..N, NEW j \in 1..M,
             FromPending(pos, N, n, i), FromReady(pos, N, M, o, j)
      PROVE  n # o /\ (n < o => pos[i] <= j) /\ (o < n => j < pos[i])
  <2> DEFINE m == o - j
  <2>1. /\ m \in 0..N /\ o = m + j /\ n = i + pos[i] - 1 /\ pos[i] \in Int
        /\ (m > 0 => pos[m] <= j) /\ (m < N => j < pos[m + 1])
    BY <1>1, <1>4 DEF FromReady, FromPending
  <2> HIDE DEF m
  <2>2. CASE i <= m
    <3>1. m \in 1..N /\ pos[i] <= pos[m] /\ pos[m] \in Int
      BY <1>1, <2>1, <2>2
    <3> QED  BY <1>1, <2>1, <2>2, <3>1
  <2>3. CASE m < i
    <3>1. m + 1 \in 1..N /\ m < N /\ pos[m + 1] <= pos[i] /\ pos[m + 1] \in Int
      BY <1>1, <2>1, <2>3
    <3> QED  BY <1>1, <2>1, <2>3, <3>1
  <2> QED  BY <1>1, <2>1, <2>2, <2>3
<1> QED  BY <1>2, <1>3, <1>4

\* What the closed form of the merge puts where: the places of the pending and of the
\* ready tasks.
LEMMA MergedPlaces ==
  ASSUME NEW P, NEW R, NEW A, NEW B, NEW prio, MergeInput(P, R, A, B, prio)
  PROVE  LET L == Merged(P, R, prio)
             pos == Positions(P, R, prio)
             N == Len(P)
             M == Len(R)
         IN  /\ L = [n \in 1..(N + M) |-> L[n]]
             /\ \A n \in 1..(N + M), i \in 1..N : FromPending(pos, N, n, i) => L[n] = P[i]
             /\ \A n \in 1..(N + M), j \in 1..M : FromReady(pos, N, M, n, j) => L[n] = R[j]
<1> SUFFICES ASSUME NEW L, L = Merged(P, R, prio)
             PROVE  LET pos == Positions(P, R, prio)
                        N == Len(P)
                        M == Len(R)
                    IN  /\ L = [n \in 1..(N + M) |-> L[n]]
                        /\ \A n \in 1..(N + M), i \in 1..N : FromPending(pos, N, n, i) => L[n] = P[i]
                        /\ \A n \in 1..(N + M), j \in 1..M : FromReady(pos, N, M, n, j) => L[n] = R[j]
  OBVIOUS
<1> DEFINE N == Len(P)
           M == Len(R)
           pos == Positions(P, R, prio)
           FP(n, i) == FromPending(pos, N, n, i)
           FR(n, j) == FromReady(pos, N, M, n, j)
<1>1. /\ P \in Seq(Task) /\ R \in Seq(Task) /\ N \in Nat /\ M \in Nat
      /\ P \in [1..N -> Task] /\ R \in [1..M -> Task]
      /\ \A i \in 1..N : prio[P[i]] \in Nat
      /\ \A j \in 1..M : prio[R[j]] \in Nat
      /\ pos \in [1..N -> 1..(M + 1)]
      /\ \A i, j \in 1..N : i <= j => pos[i] <= pos[j]
      /\ \A i \in 1..N : \A j \in 1..M :
           /\ j < pos[i] => prio[P[i]] <= prio[R[j]]
           /\ pos[i] <= j => prio[R[j]] < prio[P[i]]
  BY PositionsIncrease
<1>2. Places(pos, N, M)
  BY <1>1 DEF Places
<1>3. \A i \in 1..N : MergedPos(P, R, prio, i) = i + pos[i] - 1
  BY DEF MergedPos, Positions
<1> DEFINE Slot(n, i) == MergedPos(P, R, prio, i) = n
           Fills(n, j) == \E m \in 0..N : /\ j = n - m
                                          /\ m > 0 => MergedPos(P, R, prio, m) < n
                                          /\ m < N => n < MergedPos(P, R, prio, m + 1)
<1>4. /\ L = [n \in 1..(N + M) |-> IF \E i \in 1..N : Slot(n, i)
                                   THEN P[CHOOSE i \in 1..N : Slot(n, i)]
                                   ELSE R[CHOOSE j \in 1..M : Fills(n, j)]]
      /\ \A n \in 1..(N + M) : \A i \in 1..N : FP(n, i) <=> Slot(n, i)
      /\ \A n \in 1..(N + M) : \A j \in 1..M : FR(n, j) <=> Fills(n, j)
  <2>1. ASSUME NEW n \in 1..(N + M), NEW i \in 1..N
        PROVE  FP(n, i) <=> Slot(n, i)
    BY <1>3 DEF FromPending
  <2>2. ASSUME NEW n \in 1..(N + M), NEW j \in 1..M
        PROVE  FR(n, j) <=> Fills(n, j)
    <3>1. ASSUME NEW m \in 0..N, j = n - m
          PROVE  /\ n - j = m
                 /\ m > 0 => (MergedPos(P, R, prio, m) < n <=> pos[m] <= j)
                 /\ m < N => (n < MergedPos(P, R, prio, m + 1) <=> j < pos[m + 1])
      <4>1. ASSUME m > 0 PROVE MergedPos(P, R, prio, m) < n <=> pos[m] <= j
        BY <1>1, <1>3, <3>1, <4>1
      <4>2. ASSUME m < N PROVE n < MergedPos(P, R, prio, m + 1) <=> j < pos[m + 1]
        <5>1. m + 1 \in 1..N /\ pos[m + 1] \in Int
          BY <1>1, <4>2
        <5> QED  BY <1>1, <1>3, <3>1, <5>1
      <4> QED  BY <1>1, <3>1, <4>1, <4>2
    <3>2. ASSUME FR(n, j) PROVE n - j \in 0..N /\ j = n - (n - j)
      BY <1>1, <3>2 DEF FromReady
    <3>3. ASSUME FR(n, j) PROVE Fills(n, j)
      <4>1. \E m \in 0..N : m = n - j /\ j = n - m
        BY <3>2, <3>3
      <4> QED  BY <3>1, <3>3, <4>1 DEF FromReady
    <3>4. ASSUME Fills(n, j) PROVE FR(n, j)
      BY <3>1, <3>4 DEF FromReady
    <3> QED  BY <3>3, <3>4
  <2> QED  BY <2>1, <2>2 DEF Merged
<1>5. /\ \A n \in 1..(N + M) : (\E i \in 1..N : FP(n, i)) \/ (\E j \in 1..M : FR(n, j))
      /\ \A i \in 1..N : \E n \in 1..(N + M) : FP(n, i)
      /\ \A j \in 1..M : \E n \in 1..(N + M) : FR(n, j)
  BY <1>2, PlacesFilled
<1>6. ASSUME NEW n \in 1..(N + M), NEW o \in 1..(N + M)
      PROVE  /\ \A i, j \in 1..N : FP(n, i) /\ FP(o, j) =>
                   (i = j => n = o) /\ (n = o => i = j) /\ (n < o => i < j)
             /\ \A i, j \in 1..M : FR(n, i) /\ FR(o, j) =>
                   (i = j => n = o) /\ (n = o => i = j) /\ (n < o => i < j)
             /\ \A i \in 1..N, j \in 1..M : FP(n, i) /\ FR(o, j) =>
                   n # o /\ (n < o => pos[i] <= j) /\ (o < n => j < pos[i])
  <2>1. n \in Int /\ o \in Int
    BY <1>1
  <2> QED  BY <1>2, <2>1, PlacesOrdered
<1> HIDE DEF FP, FR, pos, Slot, Fills
<1>7. ASSUME NEW n \in 1..(N + M), NEW i \in 1..N, FP(n, i) PROVE L[n] = P[i]
  <2>1. \A j \in 1..N : Slot(n, j) => j = i
    BY <1>4, <1>6, <1>7
  <2>2. (\E j \in 1..N : Slot(n, j)) /\ i = CHOOSE j \in 1..N : Slot(n, j)
    BY <1>4, <1>7, <2>1
  <2> QED  BY <1>4, <2>2
<1>8. ASSUME NEW n \in 1..(N + M), NEW j \in 1..M, FR(n, j) PROVE L[n] = R[j]
  <2>1. ~ \E i \in 1..N : Slot(n, i)
    BY <1>4, <1>6, <1>8
  <2>2. \A i \in 1..M : Fills(n, i) => i = j
    BY <1>4, <1>6, <1>8
  <2>3. j = CHOOSE i \in 1..M : Fills(n, i)
    BY <1>4, <1>8, <2>2
  <2> QED  BY <1>4, <2>1, <2>3
<1>9. L = [n \in 1..(N + M) |-> L[n]]
  BY <1>4
<1> QED  BY <1>7, <1>8, <1>9 DEF FP, FR, pos

\* sched_mergepending: the merged list holds the tasks of both lists, each
\* once, and is sorted.
MergeOutput(P, R, A, B, prio, L) ==
  Lists(L, A \union B) /\ Sorted(L, prio) /\ Len(L) = Len(P) + Len(R)

\* The merged list is sorted and holds the tasks of both lists, once.
LEMMA MergeLists ==
  ASSUME NEW P, NEW R, NEW A, NEW B, NEW prio, MergeInput(P, R, A, B, prio)
  PROVE  MergeOutput(P, R, A, B, prio, Merged(P, R, prio))
<1> SUFFICES ASSUME NEW L, L = Merged(P, R, prio) PROVE MergeOutput(P, R, A, B, prio, L)
  OBVIOUS
<1> DEFINE N == Len(P)
           M == Len(R)
           pos == Positions(P, R, prio)
           FP(n, i) == FromPending(pos, N, n, i)
           FR(n, j) == FromReady(pos, N, M, n, j)
<1>1. /\ P \in Seq(Task) /\ R \in Seq(Task) /\ N \in Nat /\ M \in Nat
      /\ P \in [1..N -> Task] /\ R \in [1..M -> Task]
      /\ \A i \in 1..N : prio[P[i]] \in Nat
      /\ \A j \in 1..M : prio[R[j]] \in Nat
      /\ pos \in [1..N -> 1..(M + 1)]
      /\ \A i, j \in 1..N : i <= j => pos[i] <= pos[j]
      /\ \A i \in 1..N : \A j \in 1..M :
           /\ j < pos[i] => prio[P[i]] <= prio[R[j]]
           /\ pos[i] <= j => prio[R[j]] < prio[P[i]]
  BY PositionsIncrease
<1>2. Places(pos, N, M)
  BY <1>1 DEF Places
<1>4. /\ L = [n \in 1..(N + M) |-> L[n]]
      /\ \A n \in 1..(N + M), i \in 1..N : FP(n, i) => L[n] = P[i]
      /\ \A n \in 1..(N + M), j \in 1..M : FR(n, j) => L[n] = R[j]
  BY MergedPlaces
<1>5. /\ \A n \in 1..(N + M) : (\E i \in 1..N : FP(n, i)) \/ (\E j \in 1..M : FR(n, j))
      /\ \A i \in 1..N : \E n \in 1..(N + M) : FP(n, i)
      /\ \A j \in 1..M : \E n \in 1..(N + M) : FR(n, j)
  BY <1>2, PlacesFilled
<1>6. ASSUME NEW n \in 1..(N + M), NEW o \in 1..(N + M)
      PROVE  /\ \A i, j \in 1..N : FP(n, i) /\ FP(o, j) =>
                   (i = j => n = o) /\ (n = o => i = j) /\ (n < o => i < j)
             /\ \A i, j \in 1..M : FR(n, i) /\ FR(o, j) =>
                   (i = j => n = o) /\ (n = o => i = j) /\ (n < o => i < j)
             /\ \A i \in 1..N, j \in 1..M : FP(n, i) /\ FR(o, j) =>
                   n # o /\ (n < o => pos[i] <= j) /\ (o < n => j < pos[i])
  <2>1. n \in Int /\ o \in Int
    BY <1>1
  <2> QED  BY <1>2, <2>1, PlacesOrdered
<1> HIDE DEF FP, FR, pos
<1>7. ASSUME NEW n \in 1..(N + M), NEW i \in 1..N, FP(n, i) PROVE L[n] = P[i]
  BY <1>4, <1>7
<1>8. ASSUME NEW n \in 1..(N + M), NEW j \in 1..M, FR(n, j) PROVE L[n] = R[j]
  BY <1>4, <1>8
<1>9. ASSUME NEW n \in 1..(N + M)
      PROVE  \/ \E i \in 1..N : FP(n, i) /\ L[n] = P[i]
             \/ \E j \in 1..M : FR(n, j) /\ L[n] = R[j]
  BY <1>5, <1>7, <1>8
<1>10. L \in Seq(Task) /\ Len(L) = N + M
  <2>1. N + M \in Nat /\ DOMAIN L = 1..(N + M)
    BY <1>1, <1>4
  <2>2. \A n \in 1..(N + M) : L[n] \in Task
    BY <1>1, <1>9
  <2>3. L \in [1..(N + M) -> Task]
    BY <1>4, <2>1, <2>2
  <2> QED  BY <2>1, <2>3, FcnIsSeq
<1>11. /\ \A t \in Task : t \in A <=> \E i \in 1..N : P[i] = t
       /\ \A t \in Task : t \in B <=> \E j \in 1..M : R[j] = t
       /\ \A i, j \in 1..N : P[i] = P[j] => i = j
       /\ \A i, j \in 1..M : R[i] = R[j] => i = j
       /\ \A i \in 1..N, j \in 1..M : P[i] # R[j]
  BY <1>1 DEF MergeInput, Lists, InList
<1>12. ASSUME NEW t \in Task PROVE InList(L, t) <=> t \in A \union B
  <2>1. ASSUME InList(L, t) PROVE t \in A \union B
    BY <1>9, <1>10, <1>11, <2>1 DEF InList
  <2>2. ASSUME t \in A PROVE InList(L, t)
    <3>1. PICK i \in 1..N : P[i] = t
      BY <1>11, <2>2
    <3>2. PICK n \in 1..(N + M) : FP(n, i)
      BY <1>5
    <3> QED  BY <1>7, <1>10, <3>1, <3>2 DEF InList
  <2>3. ASSUME t \in B PROVE InList(L, t)
    <3>1. PICK j \in 1..M : R[j] = t
      BY <1>11, <2>3
    <3>2. PICK n \in 1..(N + M) : FR(n, j)
      BY <1>5
    <3> QED  BY <1>8, <1>10, <3>1, <3>2 DEF InList
  <2> QED  BY <2>1, <2>2, <2>3
<1>13. ASSUME NEW n \in 1..(N + M), NEW o \in 1..(N + M), L[n] = L[o] PROVE n = o
  <2>1. CASE \E i \in 1..N : FP(n, i) /\ L[n] = P[i]
    <3>1. PICK i \in 1..N : FP(n, i) /\ L[n] = P[i]
      BY <2>1
    <3>2. PICK j \in 1..N : FP(o, j) /\ L[o] = P[j]
      <4>1. ~ \E j \in 1..M : L[o] = R[j]
        BY ONLY <1>11, <1>13, <3>1
      <4> QED  BY <1>9, <4>1
    <3>3. i = j
      <4>1. P[i] = P[j]
        BY ONLY <1>13, <3>1, <3>2
      <4> QED  BY ONLY <1>11, <4>1, Zenon
    <3> QED  BY <1>6, <3>1, <3>2, <3>3
  <2>2. CASE \E j \in 1..M : FR(n, j) /\ L[n] = R[j]
    <3>1. PICK i \in 1..M : FR(n, i) /\ L[n] = R[i]
      BY <2>2
    <3>2. PICK j \in 1..M : FR(o, j) /\ L[o] = R[j]
      <4>1. ~ \E j \in 1..N : L[o] = P[j]
        BY ONLY <1>11, <1>13, <3>1
      <4> QED  BY <1>9, <4>1
    <3>3. i = j
      <4>1. R[i] = R[j]
        BY ONLY <1>13, <3>1, <3>2
      <4> QED  BY ONLY <1>11, <4>1, Zenon
    <3> QED  BY <1>6, <3>1, <3>2, <3>3
  <2> QED  BY <1>9, <2>1, <2>2
<1>14. ASSUME NEW n \in 1..(N + M), NEW o \in 1..(N + M), n < o
       PROVE  prio[L[n]] >= prio[L[o]]
  <2>1. ASSUME NEW i \in 1..N, NEW j \in 1..N, FP(n, i), L[n] = P[i], FP(o, j), L[o] = P[j]
        PROVE  prio[L[n]] >= prio[L[o]]
    BY <1>6, <1>14, <2>1 DEF MergeInput, Sorted
  <2>2. ASSUME NEW i \in 1..M, NEW j \in 1..M, FR(n, i), L[n] = R[i], FR(o, j), L[o] = R[j]
        PROVE  prio[L[n]] >= prio[L[o]]
    BY <1>6, <1>14, <2>2 DEF MergeInput, Sorted
  <2>3. ASSUME NEW i \in 1..N, NEW j \in 1..M, FP(n, i), L[n] = P[i], FR(o, j), L[o] = R[j]
        PROVE  prio[L[n]] >= prio[L[o]]
    <3>1. pos[i] <= j
      BY <1>6, <1>14, <2>3
    <3>2. prio[P[i]] \in Nat /\ prio[R[j]] \in Nat /\ prio[R[j]] < prio[P[i]]
      BY <1>1, <3>1
    <3> QED  BY <2>3, <3>2
  <2>4. ASSUME NEW i \in 1..M, NEW j \in 1..N, FR(n, i), L[n] = R[i], FP(o, j), L[o] = P[j]
        PROVE  prio[L[n]] >= prio[L[o]]
    <3>1. i < pos[j]
      BY <1>6, <1>14, <2>4
    <3> QED  BY <1>1, <2>4, <3>1
  <2>5. CASE \E i \in 1..N : FP(n, i) /\ L[n] = P[i]
    BY <1>9, <2>1, <2>3, <2>5
  <2>6. CASE \E i \in 1..M : FR(n, i) /\ L[n] = R[i]
    BY <1>9, <2>2, <2>4, <2>6
  <2> QED  BY <1>9, <2>5, <2>6
<1>15. Lists(L, A \union B)
  BY <1>10, <1>12, <1>13 DEF Lists
<1> QED  BY <1>10, <1>14, <1>15 DEF Sorted, MergeOutput

\* Among equals the ready tasks stay ahead of the pending ones.
LEMMA MergeStable ==
  ASSUME NEW P, NEW R, NEW A, NEW B, NEW prio, MergeInput(P, R, A, B, prio),
         NEW L, L = Merged(P, R, prio), NEW n \in 1..Len(L), NEW o \in 1..Len(L),
         n < o, prio[L[n]] = prio[L[o]], InList(R, L[o])
  PROVE  InList(R, L[n])
<1> DEFINE N == Len(P)
           M == Len(R)
           pos == Positions(P, R, prio)
<1>1. /\ N \in Nat /\ M \in Nat /\ Places(pos, N, M)
      /\ \A i \in 1..N : prio[P[i]] \in Nat
      /\ \A j \in 1..M : prio[R[j]] \in Nat
      /\ \A i \in 1..N : \A j \in 1..M : pos[i] <= j => prio[R[j]] < prio[P[i]]
  BY PositionsIncrease DEF Places
<1>2. Len(L) = N + M /\ n \in 1..(N + M) /\ o \in 1..(N + M) /\ n \in Int /\ o \in Int
  <2>1. MergeOutput(P, R, A, B, prio, L)
    BY MergeLists
  <2>2. Len(L) = N + M
    BY <2>1 DEF MergeOutput
  <2> HIDE DEF N, M
  <2> QED  BY <1>1, <2>2
<1>3. /\ \A m \in 1..(N + M), i \in 1..N : FromPending(pos, N, m, i) => L[m] = P[i]
      /\ \A m \in 1..(N + M), j \in 1..M : FromReady(pos, N, M, m, j) => L[m] = R[j]
  BY MergedPlaces
<1>4. \A m \in 1..(N + M) : \/ \E i \in 1..N : FromPending(pos, N, m, i)
                            \/ \E j \in 1..M : FromReady(pos, N, M, m, j)
  BY <1>1, PlacesFilled
<1>5. \A i \in 1..N, j \in 1..M : P[i] # R[j]
  <2> SUFFICES ASSUME NEW i \in 1..N, NEW j \in 1..M, P[i] = R[j] PROVE FALSE
    OBVIOUS
  <2>1. P[i] \in Task
    BY PositionsIncrease
  <2>2. InList(P, P[i]) /\ InList(R, P[i])
    BY DEF InList
  <2> QED  BY <2>1, <2>2 DEF MergeInput, Lists
<1>6. \A i \in 1..N, j \in 1..M : FromPending(pos, N, n, i) /\ FromReady(pos, N, M, o, j) /\ n < o => pos[i] <= j
  BY <1>1, <1>2, PlacesOrdered
<1> HIDE DEF N, M, pos
<1>7. PICK j \in 1..M : FromReady(pos, N, M, o, j) /\ L[o] = R[j]
  <2>1. PICK m \in 1..M : L[o] = R[m]
    BY DEF InList, M
  <2>2. ~ \E i \in 1..N : FromPending(pos, N, o, i)
    BY <1>2, <1>3, <1>5, <2>1
  <2> QED  BY <1>2, <1>3, <1>4, <2>2
<1>8. CASE \E i \in 1..M : FromReady(pos, N, M, n, i)
  BY <1>2, <1>3, <1>8 DEF InList, M
<1>9. CASE \E i \in 1..N : FromPending(pos, N, n, i)
  <2>1. PICK i \in 1..N : FromPending(pos, N, n, i)
    BY <1>9
  <2>2. L[n] = P[i] /\ prio[R[j]] < prio[P[i]]
    BY <1>1, <1>2, <1>3, <1>6, <1>7, <2>1
  <2>3. prio[P[i]] \in Nat /\ prio[R[j]] \in Nat /\ prio[P[i]] = prio[R[j]]
    BY <1>1, <1>7, <2>2
  <2> QED  BY <2>2, <2>3
<1> QED  BY <1>2, <1>4, <1>8, <1>9

\* dq_addlast and dq_addfirst are insertions at the ends.
LEMMA EndInsertion ==
  ASSUME NEW l \in Seq(Task), NEW t \in Task
  PROVE  /\ Append(l, t) = InsertAtPos(l, Len(l) + 1, t)
         /\ <<t>> \o l = InsertAtPos(l, 1, t)
<1>1. Len(l) \in Nat /\ l \in [1..Len(l) -> Task]
  BY LenProperties
<1>2. Append(l, t) = InsertAtPos(l, Len(l) + 1, t)
  <2> DEFINE m == Append(l, t)
  <2>1. /\ m \in Seq(Task) /\ Len(m) = Len(l) + 1
        /\ \A n \in 1..Len(l) : m[n] = l[n]
        /\ m[Len(l) + 1] = t
    BY AppendProperties
  <2>2. m \in [1..(Len(l) + 1) -> Task]
    BY <2>1, LenProperties
  <2>3. InsertAtPos(l, Len(l) + 1, t)
          = [n \in 1..(Len(l) + 1) |-> IF n < Len(l) + 1 THEN l[n] ELSE t]
    BY <1>1 DEF InsertAtPos
  <2> HIDE DEF m
  <2>4. \A n \in 1..(Len(l) + 1) : m[n] = IF n < Len(l) + 1 THEN l[n] ELSE t
    BY <1>1, <2>1
  <2>5. m = InsertAtPos(l, Len(l) + 1, t)
    BY <2>2, <2>3, <2>4
  <2> QED  BY <2>5 DEF m
<1>3. <<t>> \o l = InsertAtPos(l, 1, t)
  <2>1. <<t>> \in Seq(Task) /\ Len(<<t>>) = 1 /\ <<t>>[1] = t
    OBVIOUS
  <2>2. Len(<<t>> \o l) = Len(l) + 1 /\ <<t>> \o l \in Seq(Task)
    BY <1>1, <2>1
  <2>3. <<t>> \o l \in [1..(Len(l) + 1) -> Task]
    BY <2>2, LenProperties
  <2>4. \A n \in 1..(Len(l) + 1) : (<<t>> \o l)[n] = IF n = 1 THEN t ELSE l[n - 1]
    BY <1>1, <2>1
  <2>5. InsertAtPos(l, 1, t) = [n \in 1..(Len(l) + 1) |-> IF n = 1 THEN t ELSE l[n - 1]]
    BY <1>1 DEF InsertAtPos
  <2> QED  BY <2>3, <2>4, <2>5
<1> QED  BY <1>2, <1>3

-----------------------------------------------------------------------------
\* The kernel functions.

\* The tasks whose state names the list l.
On(k, l) == {t \in Task : TLIST_HEAD(k.state[t]) = l}

ListsHold(k) == \A l \in ListName : Lists(k.list[l], On(k, l))

PrioritizedSorted(k) ==
  \A l \in ListName : TLIST_ISPRIORITIZED(l) => Sorted(k.list[l], k.prio)

IdleReady(k) ==
  k.state[IDLE] \in {"RUNNING", "READYTORUN"} /\ k.prio[IDLE] = 0 /\ IDLE \notin k.rr

PrioritiesValid(k) ==
  \A t \in Task \ {IDLE} :
    k.state[t] # "INVALID" => k.prio[t] \in Priority /\ k.init[t] \in Priority

OnlyHeadRuns(k) == \A t \in Task : k.state[t] = "RUNNING" => t = this_task(k)

\* What holds between any two list operations; the state of a task that is
\* off every list is TSTATE_TASK_INVALID meanwhile.
Consistent(k) ==
  /\ k \in KernelState
  /\ ListsHold(k)
  /\ PrioritizedSorted(k)
  /\ IdleReady(k)
  /\ PrioritiesValid(k)
  /\ OnlyHeadRuns(k)

HeadRuns(k) == k.state[this_task(k)] = "RUNNING"

PendingReleased(k) == Pending(k) => k.lock[this_task(k)] > 0

\* What holds whenever interrupts are enabled.
Sound(k) == Consistent(k) /\ HeadRuns(k) /\ PendingReleased(k)

\* The operation leaves the same tasks without a list.
SameListed(k, a) == \A t \in Task : a.state[t] = "INVALID" <=> k.state[t] = "INVALID"

\* The operation blocks and wakes no task, except those of X.
SameBlocked(k, a, X) ==
  \A u \in Task \ X :
    k.state[u] \in BlockedState \/ a.state[u] \in BlockedState => a.state[u] = k.state[u]

\* Two such steps make one.
LEMMA BlockedChain ==
  ASSUME NEW k, NEW b, NEW a, NEW X, NEW Y, SameBlocked(k, b, X), SameBlocked(b, a, Y)
  PROVE  SameBlocked(k, a, X \union Y)
BY DEF SameBlocked

\* Tasks that stay on their lists stay blocked or ready.
LEMMA ListsBlocked ==
  ASSUME NEW k, NEW a, NEW X, \A u \in Task \ X : TLIST_HEAD(a.state[u]) = TLIST_HEAD(k.state[u])
  PROVE  SameBlocked(k, a, X)
BY DEF SameBlocked, TLIST_HEAD, BlockedState

\* g_readytorun is never empty, and its head is the most urgent task on it.
LEMMA ReadyHead ==
  ASSUME NEW k, Consistent(k)
  PROVE  /\ k.list["READYTORUN"] \in Seq(Task) /\ Len(k.list["READYTORUN"]) \in Nat \ {0}
         /\ this_task(k) \in Task /\ k.state[this_task(k)] \in {"RUNNING", "READYTORUN"}
         /\ \A t \in Task : k.state[t] \in {"RUNNING", "READYTORUN"} =>
              k.prio[t] <= k.prio[this_task(k)]
<1> DEFINE R == k.list["READYTORUN"]
<1>1. "READYTORUN" \in ListName /\ TLIST_ISPRIORITIZED("READYTORUN")
  BY DEF ListName, TLIST_ISPRIORITIZED
<1>2. k \in KernelState /\ Lists(R, On(k, "READYTORUN")) /\ Sorted(R, k.prio)
  BY <1>1 DEF Consistent, ListsHold, PrioritizedSorted
<1>3. R \in Seq(Task) /\ Len(R) \in Nat /\ R \in [1..Len(R) -> Task]
  BY <1>2, LenProperties DEF Lists
<1> HIDE DEF R
<1>4. ASSUME NEW t \in Task, k.state[t] \in {"RUNNING", "READYTORUN"}
      PROVE  \E n \in 1..Len(R) : R[n] = t
  BY <1>2, <1>4 DEF Lists, InList, On, TLIST_HEAD
<1>5. Len(R) # 0 /\ 1 \in 1..Len(R)
  <2>1. \E n \in 1..Len(R) : R[n] = IDLE
    BY <1>4, KernelAssumption DEF Consistent, IdleReady
  <2> QED  BY <1>3, <2>1
<1>6. R[1] \in Task /\ k.state[R[1]] \in {"RUNNING", "READYTORUN"}
  BY <1>2, <1>3, <1>5 DEF Lists, InList, On, TLIST_HEAD, KernelState, TaskState, ListName
<1>7. ASSUME NEW t \in Task, k.state[t] \in {"RUNNING", "READYTORUN"}
      PROVE  k.prio[t] <= k.prio[R[1]]
  <2>1. PICK n \in 1..Len(R) : R[n] = t
    BY <1>4, <1>7
  <2>2. k.prio[R[1]] \in Int /\ k.prio[t] \in Int
    BY <1>2, <1>6, KernelAssumption DEF KernelState
  <2> QED  BY <1>2, <1>3, <1>5, <2>1, <2>2 DEF Sorted
<1> QED  BY <1>3, <1>5, <1>6, <1>7 DEF this_task, R

SameFields(k, a) ==
  /\ a.prio = k.prio /\ a.init = k.init
  /\ a.lock = k.lock /\ a.slice = k.slice /\ a.rr = k.rr

\* The lists and the states change, the rest of the TCBs does not.
Relisted(k, f, g) == [k EXCEPT !.list = f, !.state = g]

ListMap  == [ListName -> Seq(Task)]
StateMap == [Task -> TaskState]

HasLists(k, f, g, a) == a \in KernelState /\ SameFields(k, a) /\ a.list = f /\ a.state = g

\* Replacing the lists and the states leaves the other fields of the TCBs alone.
LEMMA Relist ==
  ASSUME NEW k, k \in KernelState, NEW f, f \in ListMap, NEW g, g \in StateMap
  PROVE  HasLists(k, f, g, Relisted(k, f, g))
BY DEF KernelState, SameFields, Relisted, HasLists, ListMap, StateMap

\* t goes from no list into list l, which becomes m.
LinkedTo(k, t, l, m, a) ==
  /\ Consistent(k) /\ t \in Task \ {IDLE} /\ k.state[t] = "INVALID"
  /\ k.prio[t] \in Priority /\ k.init[t] \in Priority
  /\ l \in ListName /\ Lists(m, On(k, l) \union {t})
  /\ TLIST_ISPRIORITIZED(l) => Sorted(m, k.prio)
  /\ a \in KernelState /\ a.list = [k.list EXCEPT ![l] = m] /\ SameFields(k, a)
  /\ TLIST_HEAD(a.state[t]) = l
  /\ \A u \in Task \ {t} : TLIST_HEAD(a.state[u]) = TLIST_HEAD(k.state[u])
  /\ OnlyHeadRuns(a)

\* Linking a task into the list that its new state names keeps the lists
\* consistent.
LEMMA LinkConsistent ==
  ASSUME NEW k, NEW t, NEW l, NEW m, NEW a, LinkedTo(k, t, l, m, a)
  PROVE  Consistent(a)
<1> USE DEF LinkedTo
<1>1. k \in KernelState /\ ListsHold(k) /\ k.list \in [ListName -> Seq(Task)]
  BY DEF Consistent, KernelState
<1>2. ListsHold(a)
  <2>1. "INVALID" \notin ListName
    BY DEF ListName, BlockedState
  <2> SUFFICES ASSUME NEW q \in ListName PROVE Lists(a.list[q], On(a, q))
    BY DEF ListsHold
  <2>2. CASE q = l
    <3>1. On(a, q) = On(k, l) \union {t}
      BY <2>2 DEF On
    <3> QED  BY <1>1, <2>2, <3>1
  <2>3. CASE q # l
    <3>1. On(a, q) = On(k, q)
      BY <2>1, <2>3 DEF On, TLIST_HEAD
    <3> QED  BY <1>1, <2>3, <3>1 DEF ListsHold
  <2> QED  BY <2>2, <2>3
<1>3. PrioritizedSorted(a)
  BY <1>1 DEF Consistent, PrioritizedSorted, SameFields
<1>4. IdleReady(a)
  <2>1. IDLE \in Task \ {t} /\ a.state[IDLE] \in TaskState
    BY KernelAssumption DEF KernelState
  <2>2. TLIST_HEAD(a.state[IDLE]) = "READYTORUN"
    BY <2>1 DEF Consistent, IdleReady, TLIST_HEAD
  <2> QED  BY <2>1, <2>2 DEF Consistent, IdleReady, SameFields, TLIST_HEAD
<1>5. PrioritiesValid(a)
  <2> SUFFICES ASSUME NEW u \in Task \ {IDLE}, a.state[u] # "INVALID"
               PROVE  k.prio[u] \in Priority /\ k.init[u] \in Priority
    BY DEF PrioritiesValid, SameFields
  <2>1. u = t \/ k.state[u] # "INVALID"
    BY DEF TLIST_HEAD
  <2> QED  BY <2>1 DEF Consistent, PrioritiesValid
<1> QED  BY <1>2, <1>3, <1>4, <1>5 DEF Consistent

\* sched_addreadytorun.  A running task that holds the lock, or that is at
\* least as urgent, is not preempted.
Addable(k, t) ==
  /\ Consistent(k) /\ t \in Task \ {IDLE} /\ k.state[t] = "INVALID"
  /\ k.prio[t] \in Priority /\ k.init[t] \in Priority

SameLists(k, a, t) == \A u \in Task \ {t} : TLIST_HEAD(a.state[u]) = TLIST_HEAD(k.state[u])

AddedReady(k, t, a) ==
  /\ Consistent(a) /\ SameFields(k, a) /\ SameLists(k, a, t)
  /\ HeadRuns(k) => HeadRuns(a)
  /\ PendingReleased(k) => PendingReleased(a)
  /\ a.state[t] \in {"PENDING", "READYTORUN", "RUNNING"}
  /\ k.lock[this_task(k)] > 0 \/ k.prio[t] <= k.prio[this_task(k)] =>
       /\ this_task(a) = this_task(k)
       /\ \A u \in Task \ {t} : a.state[u] = k.state[u]

\* sched_addreadytorun: the task is ready, running or pending, and the head of
\* g_readytorun changes only if no lock is held.
LEMMA AddReady ==
  ASSUME NEW k, NEW t, Addable(k, t)
  PROVE  AddedReady(k, t, sched_addreadytorun(k, t))
<1> DEFINE a == sched_addreadytorun(k, t)
<1> SUFFICES AddedReady(k, t, a)
  OBVIOUS
<1>0. /\ Consistent(k) /\ t \in Task \ {IDLE} /\ k.state[t] = "INVALID"
      /\ k.prio[t] \in Priority /\ k.init[t] \in Priority
  BY DEF Addable
<1> USE <1>0
<1> HIDE DEF a
<1> DEFINE r == this_task(k)
           p == AddPrioritized(k.list["PENDING"], k.prio, t)
           m == AddPrioritized(k.list["READYTORUN"], k.prio, t)
           R == k.list["READYTORUN"]
<1>1. /\ k \in KernelState /\ "PENDING" \in ListName /\ "READYTORUN" \in ListName
      /\ k.list \in [ListName -> Seq(Task)] /\ k.state \in [Task -> TaskState]
      /\ k.prio \in PrioFcn /\ k.lock \in [Task -> Nat]
      /\ "PENDING" \in TaskState /\ "READYTORUN" \in TaskState /\ "RUNNING" \in TaskState
  BY DEF Consistent, KernelState, ListName, TaskState, PrioFcn
<1>2. /\ r \in Task /\ k.state[r] \in {"RUNNING", "READYTORUN"} /\ r # t
      /\ R \in Seq(Task) /\ R # <<>> /\ k.prio[r] \in Nat /\ k.prio[t] \in Nat
  BY <1>1, ReadyHead, EmptySeq, KernelAssumption DEF PrioFcn
<1>3. /\ Insertable(k.list["PENDING"], On(k, "PENDING"), k.prio, t)
      /\ Insertable(R, On(k, "READYTORUN"), k.prio, t)
  BY <1>1 DEF Consistent, ListsHold, PrioritizedSorted, TLIST_ISPRIORITIZED, On, TLIST_HEAD, Insertable
<1>4. Lists(p, On(k, "PENDING") \union {t}) /\ Sorted(p, k.prio) /\ p \in Seq(Task)
  <2>1. Inserted(k.list["PENDING"], On(k, "PENDING"), k.prio, t, p)
    BY <1>3, PrioritizedInsertion
  <2> QED  BY <2>1 DEF Inserted, Lists
<1>5. /\ Lists(m, On(k, "READYTORUN") \union {t}) /\ Sorted(m, k.prio) /\ m \in Seq(Task)
      /\ m[1] = IF k.prio[t] <= k.prio[r] THEN r ELSE t
  <2>1. Inserted(R, On(k, "READYTORUN"), k.prio, t, m)
    BY <1>3, PrioritizedInsertion
  <2> HIDE DEF m
  <2> QED  BY <1>2, <2>1 DEF Inserted, Lists, this_task
<1> HIDE DEF p, m, R
<1>6. CASE k.lock[r] > 0 /\ k.prio[r] < k.prio[t]
  <2> DEFINE f == [k.list EXCEPT !["PENDING"] = p]
             g == [k.state EXCEPT ![t] = "PENDING"]
  <2>0. f \in ListMap /\ g \in StateMap
    BY <1>1, <1>2, <1>4, <1>5 DEF ListMap, StateMap
  <2>1. a = Relisted(k, f, g)
    BY <1>1, <1>6 DEF sched_addreadytorun, sched_addprioritized, p, KernelState, Relisted, a
  <2> HIDE DEF f, g
  <2>2. /\ a \in KernelState /\ SameFields(k, a)
        /\ a.list = [k.list EXCEPT !["PENDING"] = p]
        /\ a.state = [k.state EXCEPT ![t] = "PENDING"]
    <3>1. HasLists(k, f, g, a)
      BY <1>1, <2>0, <2>1, Relist
    <3> QED  BY <3>1 DEF f, g, HasLists
  <2>3. this_task(a) = r
    BY <1>1, <2>2 DEF this_task
  <2>4. OnlyHeadRuns(a)
    BY <1>1, <2>2, <2>3 DEF OnlyHeadRuns, Consistent
  <2>5. TLIST_HEAD(a.state[t]) = "PENDING"
    BY <1>1, <2>2 DEF TLIST_HEAD
  <2>6. \A u \in Task \ {t} : a.state[u] = k.state[u]
    BY <1>1, <2>2
  <2>7. \A u \in Task \ {t} : TLIST_HEAD(a.state[u]) = TLIST_HEAD(k.state[u])
    BY <2>6
  <2>8. Consistent(a)
    <3>1. LinkedTo(k, t, "PENDING", p, a)
      BY <1>1, <1>4, <2>2, <2>4, <2>5, <2>7, Zenon DEF LinkedTo
    <3> QED  BY <3>1, LinkConsistent
  <2> QED  BY <1>1, <1>2, <1>6, <2>2, <2>3, <2>6, <2>7, <2>8 DEF HeadRuns, PendingReleased, SameFields, AddedReady, SameLists
<1>7. CASE ~(k.lock[r] > 0 /\ k.prio[r] < k.prio[t]) /\ m[1] = t
  <2> DEFINE f == [k.list EXCEPT !["READYTORUN"] = m]
             g == [k.state EXCEPT ![t] = "RUNNING", ![r] = "READYTORUN"]
  <2>0. f \in ListMap /\ g \in StateMap
    BY <1>1, <1>2, <1>4, <1>5 DEF ListMap, StateMap
  <2>1. a = Relisted(k, f, g)
    BY <1>1, <1>7 DEF sched_addreadytorun, sched_addprioritized, m, KernelState, this_task, Relisted, a
  <2> HIDE DEF f, g
  <2>2. /\ a \in KernelState /\ SameFields(k, a)
        /\ a.list = [k.list EXCEPT !["READYTORUN"] = m]
        /\ a.state = [k.state EXCEPT ![t] = "RUNNING", ![r] = "READYTORUN"]
    <3>1. HasLists(k, f, g, a)
      BY <1>1, <2>0, <2>1, Relist
    <3> QED  BY <3>1 DEF f, g, HasLists
  <2>3. this_task(a) = t /\ k.prio[r] < k.prio[t] /\ k.lock[r] = 0
    <3>1. this_task(a) = m[1]
      BY <1>1, <2>2 DEF this_task
    <3>2. k.lock[r] \in Nat
      BY <1>1, <1>2
    <3> HIDE DEF r
    <3> QED  BY <1>2, <1>5, <1>7, <3>1, <3>2
  <2>4. OnlyHeadRuns(a)
    BY <1>1, <1>2, <2>2, <2>3 DEF OnlyHeadRuns, Consistent
  <2>5. TLIST_HEAD(a.state[t]) = "READYTORUN" /\ a.state[t] = "RUNNING"
    BY <1>1, <1>2, <2>2 DEF TLIST_HEAD
  <2>6. \A u \in Task \ {t} : TLIST_HEAD(a.state[u]) = TLIST_HEAD(k.state[u])
    BY <1>1, <1>2, <2>2 DEF TLIST_HEAD
  <2>7. Consistent(a)
    <3>1. LinkedTo(k, t, "READYTORUN", m, a)
      BY <1>1, <1>5, <2>2, <2>4, <2>5, <2>6, Zenon DEF LinkedTo
    <3> QED  BY <3>1, LinkConsistent
  <2>8. a.list["PENDING"] = k.list["PENDING"]
    BY <1>1, <2>2
  <2> QED  BY <1>1, <1>2, <2>2, <2>3, <2>5, <2>6, <2>7, <2>8 DEF HeadRuns, PendingReleased, Pending, AddedReady, SameLists
<1>8. CASE ~(k.lock[r] > 0 /\ k.prio[r] < k.prio[t]) /\ m[1] # t
  <2> DEFINE f == [k.list EXCEPT !["READYTORUN"] = m]
             g == [k.state EXCEPT ![t] = "READYTORUN"]
  <2>0. f \in ListMap /\ g \in StateMap
    BY <1>1, <1>2, <1>4, <1>5 DEF ListMap, StateMap
  <2>1. a = Relisted(k, f, g)
    BY <1>1, <1>8 DEF sched_addreadytorun, sched_addprioritized, m, KernelState, this_task, Relisted, a
  <2> HIDE DEF f, g
  <2>2. /\ a \in KernelState /\ SameFields(k, a)
        /\ a.list = [k.list EXCEPT !["READYTORUN"] = m]
        /\ a.state = [k.state EXCEPT ![t] = "READYTORUN"]
    <3>1. HasLists(k, f, g, a)
      BY <1>1, <2>0, <2>1, Relist
    <3> QED  BY <3>1 DEF f, g, HasLists
  <2>3. this_task(a) = r
    BY <1>1, <1>2, <1>5, <1>8, <2>2 DEF this_task
  <2>4. OnlyHeadRuns(a)
    BY <1>1, <1>2, <2>2, <2>3 DEF OnlyHeadRuns, Consistent
  <2>5. TLIST_HEAD(a.state[t]) = "READYTORUN" /\ a.state[t] = "READYTORUN"
    BY <1>1, <2>2 DEF TLIST_HEAD
  <2>6. \A u \in Task \ {t} : a.state[u] = k.state[u]
    BY <1>1, <2>2
  <2>7. \A u \in Task \ {t} : TLIST_HEAD(a.state[u]) = TLIST_HEAD(k.state[u])
    BY <2>6
  <2>8. Consistent(a)
    <3>1. LinkedTo(k, t, "READYTORUN", m, a)
      BY <1>1, <1>5, <2>2, <2>4, <2>5, <2>7, Zenon DEF LinkedTo
    <3> QED  BY <3>1, LinkConsistent
  <2>9. a.list["PENDING"] = k.list["PENDING"] /\ a.lock = k.lock
    BY <1>1, <2>2 DEF SameFields
  <2> QED  BY <1>1, <1>2, <2>2, <2>3, <2>5, <2>6, <2>7, <2>8, <2>9 DEF HeadRuns, PendingReleased, Pending, AddedReady, SameLists
<1> QED  BY <1>6, <1>7, <1>8

\* t goes from the list of its state to no list.
UnlinkedFrom(k, t, l, a) ==
  /\ Consistent(k) /\ t \in Task \ {IDLE} /\ k.state[t] # "INVALID"
  /\ l = TLIST_HEAD(k.state[t])
  /\ a \in KernelState /\ SameFields(k, a)
  /\ a.list = [k.list EXCEPT ![l] = dq_rem(t, k.list[l])]
  /\ a.state[t] = "INVALID" /\ SameLists(k, a, t)
  /\ OnlyHeadRuns(a)

\* Unlinking a task whose new state names no list keeps the lists consistent.
LEMMA UnlinkConsistent ==
  ASSUME NEW k, NEW t, NEW l, NEW a, UnlinkedFrom(k, t, l, a)
  PROVE  Consistent(a)
<1> USE DEF UnlinkedFrom
<1>1. /\ k \in KernelState /\ ListsHold(k) /\ k.list \in [ListName -> Seq(Task)]
      /\ "INVALID" \notin ListName /\ l \in ListName /\ k.prio \in PrioFcn
  BY DEF Consistent, KernelState, ListName, BlockedState, TaskState, TLIST_HEAD, PrioFcn
<1>2. /\ Lists(dq_rem(t, k.list[l]), On(k, l) \ {t})
      /\ Sorted(k.list[l], k.prio) => Sorted(dq_rem(t, k.list[l]), k.prio)
  <2>1. Lists(k.list[l], On(k, l)) /\ t \in On(k, l) /\ On(k, l) \subseteq Task
    BY <1>1 DEF ListsHold, On
  <2> QED  BY <1>1, <2>1, Removal
<1>3. ListsHold(a)
  <2> SUFFICES ASSUME NEW q \in ListName PROVE Lists(a.list[q], On(a, q))
    BY DEF ListsHold
  <2>1. CASE q = l
    <3>1. On(a, q) = On(k, l) \ {t}
      BY <1>1, <2>1 DEF On, TLIST_HEAD, SameLists
    <3> QED  BY <1>1, <1>2, <2>1, <3>1
  <2>2. CASE q # l
    <3>1. On(a, q) = On(k, q)
      BY <1>1, <2>2 DEF On, TLIST_HEAD, SameLists
    <3> QED  BY <1>1, <2>2, <3>1 DEF ListsHold
  <2> QED  BY <2>1, <2>2
<1>4. PrioritizedSorted(a)
  <2> SUFFICES ASSUME NEW q \in ListName, TLIST_ISPRIORITIZED(q) PROVE Sorted(a.list[q], k.prio)
    BY DEF PrioritizedSorted, SameFields
  <2>1. Sorted(k.list[q], k.prio)
    BY DEF Consistent, PrioritizedSorted
  <2> QED  BY <1>1, <1>2, <2>1
<1>5. IdleReady(a)
  <2>1. IDLE \in Task \ {t} /\ a.state[IDLE] \in TaskState
    BY KernelAssumption DEF KernelState
  <2>2. TLIST_HEAD(a.state[IDLE]) = "READYTORUN"
    BY <2>1 DEF Consistent, IdleReady, TLIST_HEAD, SameLists
  <2> QED  BY <2>1, <2>2 DEF Consistent, IdleReady, SameFields, TLIST_HEAD
<1>6. PrioritiesValid(a)
  <2> SUFFICES ASSUME NEW u \in Task \ {IDLE}, a.state[u] # "INVALID"
               PROVE  k.prio[u] \in Priority /\ k.init[u] \in Priority
    BY DEF PrioritiesValid, SameFields
  <2>1. k.state[u] # "INVALID"
    BY DEF TLIST_HEAD, SameLists
  <2> QED  BY <2>1 DEF Consistent, PrioritiesValid
<1> QED  BY <1>3, <1>4, <1>5, <1>6 DEF Consistent

\* The head of g_readytorun and the task behind it.
LEMMA SecondReady ==
  ASSUME NEW k, Consistent(k), NEW t \in Task \ {IDLE}, k.state[t] \in {"RUNNING", "READYTORUN"},
         NEW R, R = k.list["READYTORUN"], NEW m, m = dq_rem(t, R)
  PROVE  /\ m \in Seq(Task)
         /\ R[1] # t => m[1] = R[1]
         /\ R[1] = t => /\ Len(R) > 1 /\ m[1] = R[2] /\ R[2] \in Task \ {t}
                        /\ k.state[R[2]] = "READYTORUN"
<1>1. "READYTORUN" \in ListName /\ k \in KernelState /\ k.state \in [Task -> TaskState]
  BY DEF ListName, Consistent, KernelState
<1>2. Lists(R, On(k, "READYTORUN")) /\ t \in On(k, "READYTORUN") /\ On(k, "READYTORUN") \subseteq Task
  BY <1>1 DEF Consistent, ListsHold, On, TLIST_HEAD
<1>3. R \in Seq(Task) /\ Len(R) \in Nat /\ R \in [1..Len(R) -> Task]
  BY <1>2, LenProperties DEF Lists
<1>4. /\ Lists(m, On(k, "READYTORUN") \ {t}) /\ m \in Seq(Task)
      /\ R[1] # t => m[1] = R[1]
      /\ R[1] = t /\ Len(R) > 1 => m[1] = R[2]
  <2>1. /\ Lists(m, On(k, "READYTORUN") \ {t})
        /\ R[1] # t => m[1] = R[1]
        /\ R[1] = t /\ Len(R) > 1 => m[1] = R[2]
    BY <1>2, Removal
  <2> QED  BY <2>1 DEF Lists
<1>5. ASSUME R[1] = t
      PROVE  Len(R) > 1 /\ R[2] \in Task \ {t} /\ k.state[R[2]] = "READYTORUN"
  <2>1. PICK n \in 1..Len(R) : R[n] = IDLE
    BY <1>2, KernelAssumption DEF Lists, InList, On, TLIST_HEAD, Consistent, IdleReady
  <2>2. Len(R) > 1 /\ 1 \in 1..Len(R) /\ 2 \in 1..Len(R)
    BY <1>3, <1>5, <2>1
  <2>3. R[2] \in Task \ {t}
    BY <1>2, <1>3, <1>5, <2>2 DEF Lists
  <2>4. TLIST_HEAD(k.state[R[2]]) = "READYTORUN"
    BY <1>2, <2>2, <2>3 DEF Lists, InList, On
  <2>5. k.state[R[2]] # "RUNNING"
    BY <1>5, <2>3 DEF Consistent, OnlyHeadRuns, this_task
  <2> QED  BY <1>1, <2>2, <2>3, <2>4, <2>5 DEF TLIST_HEAD
<1> QED  BY <1>4, <1>5

\* Taking a task other than the head of g_readytorun off its list.
Removable(k, t) ==
  Consistent(k) /\ t \in Task \ {IDLE} /\ k.state[t] # "INVALID" /\ t # this_task(k)

TakenOff(k, t, a) ==
  /\ Consistent(a) /\ SameFields(k, a)
  /\ a.state = [k.state EXCEPT ![t] = "INVALID"] /\ k.state \in [Task -> TaskState]
  /\ this_task(a) = this_task(k)
  /\ Pending(a) => Pending(k)
  /\ k.state[t] # "PENDING" => a.list["PENDING"] = k.list["PENDING"]

\* task_terminate and task_restart unlink a task that does not run.
LEMMA TakeOff ==
  ASSUME NEW k, NEW t, Removable(k, t)
  PROVE  TakenOff(k, t, TakeOffList(k, t))
<1> DEFINE a == TakeOffList(k, t)
           l == TLIST_HEAD(k.state[t])
           m == dq_rem(t, k.list[l])
<1> SUFFICES TakenOff(k, t, a)
  OBVIOUS
<1>0. Consistent(k) /\ t \in Task \ {IDLE} /\ k.state[t] # "INVALID" /\ t # this_task(k)
  BY DEF Removable
<1>1. /\ k \in KernelState /\ k.list \in [ListName -> Seq(Task)] /\ k.state \in [Task -> TaskState]
      /\ l \in ListName /\ "INVALID" \in TaskState /\ "READYTORUN" \in ListName
      /\ k.state[t] # "RUNNING"
  BY <1>0 DEF Consistent, KernelState, ListName, TaskState, TLIST_HEAD, OnlyHeadRuns
<1>2. Lists(k.list[l], On(k, l)) /\ t \in On(k, l) /\ On(k, l) \subseteq Task
  BY <1>0, <1>1 DEF Consistent, ListsHold, On
<1>3. m \in Seq(Task)
  <2>1. Lists(m, On(k, l) \ {t})
    BY <1>2, Removal
  <2> QED  BY <2>1 DEF Lists
<1> DEFINE f == [k.list EXCEPT ![l] = m]
           g == [k.state EXCEPT ![t] = "INVALID"]
<1>4. f \in ListMap /\ g \in StateMap
  BY <1>0, <1>1, <1>3 DEF ListMap, StateMap
<1>5. a = Relisted(k, f, g)
  BY <1>1 DEF TakeOffList, Relisted, KernelState
<1> HIDE DEF a, f, g
<1>6. HasLists(k, f, g, a)
  BY <1>1, <1>4, <1>5, Relist
<1>7. a \in KernelState /\ SameFields(k, a) /\ a.list = [k.list EXCEPT ![l] = m]
  BY <1>6 DEF HasLists, f
<1>8. a.state = [k.state EXCEPT ![t] = "INVALID"]
  BY <1>6 DEF HasLists, g
<1> HIDE DEF l, m
<1>9. this_task(a) = this_task(k)
  <2>1. CASE l = "READYTORUN"
    <3>1. k.state[t] \in {"RUNNING", "READYTORUN"}
      BY <1>1, <2>1 DEF TLIST_HEAD, l
    <3>2. m[1] = k.list["READYTORUN"][1]
      <4>1. k.list["READYTORUN"][1] # t /\ m = dq_rem(t, k.list["READYTORUN"])
        BY <1>0, <2>1 DEF this_task, m
      <4> QED  BY <1>0, <3>1, <4>1, SecondReady
    <3> QED  BY <1>1, <1>7, <2>1, <3>2 DEF this_task
  <2>2. CASE l # "READYTORUN"
    BY <1>1, <1>7, <2>2 DEF this_task
  <2> QED  BY <2>1, <2>2
<1>10. OnlyHeadRuns(a) /\ SameLists(k, a, t) /\ a.state[t] = "INVALID"
  BY <1>0, <1>1, <1>8, <1>9 DEF OnlyHeadRuns, SameLists, Consistent
<1>11. Consistent(a)
  <2>1. UnlinkedFrom(k, t, l, a)
    BY <1>0, <1>7, <1>10, Zenon DEF UnlinkedFrom, l, m
  <2> QED  BY <2>1, UnlinkConsistent
<1>12. CASE l = "PENDING"
  <2>1. k.list["PENDING"] # <<>>
    <3>1. InList(k.list["PENDING"], t)
      BY <1>2, <1>12 DEF Lists, On
    <3> QED  BY <3>1 DEF InList
  <2>2. k.state[t] = "PENDING"
    BY <1>1, <1>12 DEF l, TLIST_HEAD
  <2> QED  BY <1>1, <1>7, <1>8, <1>9, <1>11, <2>1, <2>2 DEF TakenOff, Pending
<1>13. CASE l # "PENDING"
  <2>1. a.list["PENDING"] = k.list["PENDING"]
    BY <1>1, <1>7, <1>13 DEF ListName
  <2> QED  BY <1>1, <1>7, <1>8, <1>9, <1>11, <2>1 DEF TakenOff, Pending
<1> QED  BY <1>12, <1>13

\* sched_removereadytorun
RemovableReady(k, t) ==
  /\ Consistent(k) /\ HeadRuns(k)
  /\ t \in Task \ {IDLE} /\ k.state[t] \in {"RUNNING", "READYTORUN"}

RemovedReady(k, t, a) ==
  /\ Consistent(a) /\ HeadRuns(a) /\ SameFields(k, a) /\ SameLists(k, a, t)
  /\ a.state[t] = "INVALID"
  /\ a.list["PENDING"] = k.list["PENDING"]
  /\ this_task(a) = IF this_task(k) = t THEN k.list["READYTORUN"][2] ELSE this_task(k)

\* sched_removereadytorun: after the removal of the head, the next task runs.
LEMMA RemoveReady ==
  ASSUME NEW k, NEW t, RemovableReady(k, t)
  PROVE  RemovedReady(k, t, sched_removereadytorun(k, t))
<1> DEFINE a == sched_removereadytorun(k, t)
           R == k.list["READYTORUN"]
           m == dq_rem(t, R)
<1> SUFFICES RemovedReady(k, t, a)
  OBVIOUS
<1>0. /\ Consistent(k) /\ HeadRuns(k)
      /\ t \in Task \ {IDLE} /\ k.state[t] \in {"RUNNING", "READYTORUN"}
  BY DEF RemovableReady
<1>1. /\ k \in KernelState /\ k.list \in [ListName -> Seq(Task)] /\ k.state \in [Task -> TaskState]
      /\ "READYTORUN" \in ListName /\ "PENDING" \in ListName
      /\ "INVALID" \in TaskState /\ "RUNNING" \in TaskState
  BY <1>0 DEF Consistent, KernelState, ListName, TaskState
<1>2. CASE this_task(k) # t
  <2>1. a = TakeOffList(k, t)
    BY <1>0, <1>2 DEF sched_removereadytorun, TakeOffList, TLIST_HEAD
  <2>2. TakenOff(k, t, a)
    <3>1. Removable(k, t)
      BY <1>0, <1>2 DEF Removable
    <3> QED  BY <2>1, <3>1, TakeOff
  <2> HIDE DEF a
  <2>3. this_task(k) \in Task
    BY <1>0, ReadyHead
  <2>4. SameLists(k, a, t) /\ a.state[t] = "INVALID" /\ HeadRuns(a)
    BY <1>0, <1>2, <2>2, <2>3 DEF TakenOff, SameLists, HeadRuns
  <2> QED  BY <1>0, <1>2, <2>2, <2>4 DEF TakenOff, RemovedReady
<1>3. CASE this_task(k) = t
  <2>1. /\ m \in Seq(Task) /\ m[1] = R[2] /\ R[2] \in Task \ {t}
        /\ k.state[R[2]] = "READYTORUN"
    BY <1>0, <1>3, SecondReady DEF this_task
  <2> DEFINE f == [k.list EXCEPT !["READYTORUN"] = m]
             g == [k.state EXCEPT ![t] = "INVALID", ![R[2]] = "RUNNING"]
  <2>2. f \in ListMap /\ g \in StateMap
    BY <1>0, <1>1, <2>1 DEF ListMap, StateMap
  <2>3. a = Relisted(k, f, g)
    <3> DEFINE b == [k EXCEPT !.list["READYTORUN"] = m, !.state[t] = "INVALID"]
    <3>1. b = Relisted(k, f, [k.state EXCEPT ![t] = "INVALID"])
      BY <1>1 DEF Relisted, KernelState
    <3>2. this_task(b) = R[2]
      BY <1>1, <2>1 DEF this_task, KernelState
    <3>3. a = [b EXCEPT !.state[R[2]] = "RUNNING"]
      BY <1>3, <3>2 DEF sched_removereadytorun
    <3> QED  BY <1>1, <3>1, <3>3 DEF Relisted, KernelState
  <2> HIDE DEF f, g, a
  <2>4. HasLists(k, f, g, a)
    BY <1>1, <2>2, <2>3, Relist
  <2>5. a \in KernelState /\ SameFields(k, a) /\ a.list = [k.list EXCEPT !["READYTORUN"] = m]
    BY <2>4 DEF HasLists, f
  <2>6. a.state = [k.state EXCEPT ![t] = "INVALID", ![R[2]] = "RUNNING"]
    BY <2>4 DEF HasLists, g
  <2> HIDE DEF m
  <2>7. this_task(a) = R[2]
    BY <1>1, <2>1, <2>5 DEF this_task
  <2>8. /\ SameLists(k, a, t) /\ a.state[t] = "INVALID" /\ HeadRuns(a)
        /\ a.list["PENDING"] = k.list["PENDING"]
    BY <1>0, <1>1, <2>1, <2>5, <2>6, <2>7 DEF SameLists, HeadRuns, TLIST_HEAD
  <2>9. OnlyHeadRuns(a)
    BY <1>0, <1>1, <1>3, <2>1, <2>6, <2>7 DEF OnlyHeadRuns, Consistent
  <2>10. Consistent(a)
    <3>1. UnlinkedFrom(k, t, "READYTORUN", a)
      BY <1>0, <2>5, <2>8, <2>9 DEF UnlinkedFrom, TLIST_HEAD, m
    <3> QED  BY <3>1, UnlinkConsistent
  <2> QED  BY <1>3, <2>5, <2>7, <2>8, <2>10 DEF RemovedReady
<1> QED  BY <1>2, <1>3

\* Putting a task that is off every list into a list of tasks not ready to run.
Blockable(k, t, s, m) ==
  /\ Addable(k, t) /\ s \in BlockedState \union {"PENDING"}
  /\ Lists(m, On(k, s) \union {t})
  /\ TLIST_ISPRIORITIZED(s) => Sorted(m, k.prio)

PutOn(k, s, m, t) == Relisted(k, [k.list EXCEPT ![s] = m], [k.state EXCEPT ![t] = s])

Blocked(k, t, s, a) ==
  /\ Consistent(a) /\ SameFields(k, a)
  /\ a.state = [k.state EXCEPT ![t] = s] /\ k.state \in [Task -> TaskState]
  /\ this_task(a) = this_task(k)
  /\ s # "PENDING" => a.list["PENDING"] = k.list["PENDING"]

\* Linking a task into the list of a blocked state.
LEMMA LinkBlocked ==
  ASSUME NEW k, NEW t, NEW s, NEW m, Blockable(k, t, s, m)
  PROVE  Blocked(k, t, s, PutOn(k, s, m, t))
<1> DEFINE a == PutOn(k, s, m, t)
           f == [k.list EXCEPT ![s] = m]
           g == [k.state EXCEPT ![t] = s]
<1> SUFFICES Blocked(k, t, s, a)
  OBVIOUS
<1>0. /\ Addable(k, t) /\ Consistent(k) /\ t \in Task \ {IDLE} /\ k.state[t] = "INVALID"
      /\ s \in BlockedState \union {"PENDING"} /\ Lists(m, On(k, s) \union {t})
  BY DEF Blockable, Addable
<1>1. /\ k \in KernelState /\ k.list \in [ListName -> Seq(Task)] /\ k.state \in [Task -> TaskState]
      /\ s \in ListName /\ s \in TaskState /\ "PENDING" \in ListName /\ "READYTORUN" \in ListName
      /\ s \notin {"RUNNING", "READYTORUN", "INVALID"}
  BY <1>0 DEF Consistent, KernelState, ListName, TaskState, BlockedState
<1>2. f \in ListMap /\ g \in StateMap
  BY <1>0, <1>1 DEF ListMap, StateMap, Lists
<1>3. a = Relisted(k, f, g)
  BY DEF PutOn
<1> HIDE DEF a, f, g
<1>4. HasLists(k, f, g, a)
  BY <1>1, <1>2, <1>3, Relist
<1>5. a \in KernelState /\ SameFields(k, a) /\ a.list = [k.list EXCEPT ![s] = m]
  BY <1>4 DEF HasLists, f
<1>6. a.state = [k.state EXCEPT ![t] = s]
  BY <1>4 DEF HasLists, g
<1>7. /\ this_task(a) = this_task(k)
      /\ s # "PENDING" => a.list["PENDING"] = k.list["PENDING"]
  BY <1>1, <1>5 DEF this_task
<1>8. /\ OnlyHeadRuns(a) /\ TLIST_HEAD(a.state[t]) = s
      /\ \A u \in Task \ {t} : TLIST_HEAD(a.state[u]) = TLIST_HEAD(k.state[u])
  BY <1>0, <1>1, <1>6, <1>7 DEF OnlyHeadRuns, Consistent, TLIST_HEAD
<1>9. Consistent(a)
  <2>1. LinkedTo(k, t, s, m, a)
    BY <1>0, <1>1, <1>5, <1>8, Zenon DEF LinkedTo, Blockable, Addable
  <2> QED  BY <2>1, LinkConsistent
<1> QED  BY <1>1, <1>5, <1>6, <1>7, <1>9 DEF Blocked

\* sched_addblocked, into a prioritized list or at the tail of another.
LEMMA AddBlocked ==
  ASSUME NEW k, NEW t, Addable(k, t), NEW s \in BlockedState
  PROVE  Blocked(k, t, s, sched_addblocked(k, t, s))
<1> DEFINE l == k.list[s]
           S == On(k, s)
<1>1. /\ Consistent(k) /\ t \in Task \ {IDLE} /\ k.state[t] = "INVALID" /\ k \in KernelState
      /\ s \in ListName /\ k.prio \in PrioFcn
  BY DEF Addable, Consistent, KernelState, ListName, PrioFcn
<1>2. /\ Lists(l, S) /\ t \in Task \ S /\ l \in Seq(Task)
      /\ TLIST_ISPRIORITIZED(s) => Sorted(l, k.prio)
  BY <1>1 DEF Consistent, ListsHold, PrioritizedSorted, On, TLIST_HEAD, ListName, BlockedState, Lists
<1>3. CASE TLIST_ISPRIORITIZED(s)
  <2> DEFINE m == AddPrioritized(l, k.prio, t)
  <2>1. Insertable(l, S, k.prio, t)
    BY <1>1, <1>2, <1>3 DEF Insertable
  <2>2. Inserted(l, S, k.prio, t, m)
    BY <2>1, PrioritizedInsertion
  <2>3. sched_addblocked(k, t, s) = PutOn(k, s, m, t)
    BY <1>1, <1>3 DEF sched_addblocked, sched_addprioritized, PutOn, Relisted, KernelState
  <2> HIDE DEF m
  <2>4. Blockable(k, t, s, m)
    BY <2>2 DEF Blockable, Inserted
  <2> QED  BY <2>3, <2>4, LinkBlocked
<1>4. CASE ~TLIST_ISPRIORITIZED(s)
  <2> DEFINE m == Append(l, t)
             p == Len(l) + 1
  <2>1. m = InsertAtPos(l, p, t) /\ p \in 1..(Len(l) + 1)
    <3>1. Len(l) \in Nat /\ t \in Task
      BY <1>1, <1>2, LenProperties
    <3>2. p \in 1..(Len(l) + 1)
      BY <3>1
    <3> QED  BY <1>2, <3>1, <3>2, EndInsertion, Zenon
  <2>2. sched_addblocked(k, t, s) = PutOn(k, s, m, t)
    BY <1>1, <1>4 DEF sched_addblocked, PutOn, Relisted, KernelState
  <2> HIDE DEF m, p
  <2>3. Lists(m, S \union {t})
    BY <1>2, <2>1, Insertion, Zenon
  <2>4. Blockable(k, t, s, m)
    BY <1>4, <2>3 DEF Blockable
  <2> QED  BY <2>2, <2>4, LinkBlocked
<1> QED  BY <1>3, <1>4

\* thread_schedsetup and task_restart put the task at the head of
\* g_inactivetasks.
LEMMA PutInactive ==
  ASSUME NEW k, NEW t, Addable(k, t)
  PROVE  Blocked(k, t, "INACTIVE", AddInactive(k, t))
<1> DEFINE l == k.list["INACTIVE"]
           S == On(k, "INACTIVE")
           m == <<t>> \o l
<1>1. /\ Consistent(k) /\ t \in Task \ {IDLE} /\ k.state[t] = "INVALID" /\ k \in KernelState
      /\ "INACTIVE" \in ListName /\ "INACTIVE" \in BlockedState
      /\ ~TLIST_ISPRIORITIZED("INACTIVE")
  BY DEF Addable, Consistent, KernelState, ListName, BlockedState, TLIST_ISPRIORITIZED
<1>2. Lists(l, S) /\ t \in Task \ S /\ l \in Seq(Task)
  BY <1>1 DEF Consistent, ListsHold, On, TLIST_HEAD, Lists
<1>3. m = InsertAtPos(l, 1, t) /\ 1 \in 1..(Len(l) + 1)
  BY <1>1, <1>2, EndInsertion, LenProperties
<1>4. AddInactive(k, t) = PutOn(k, "INACTIVE", m, t)
  BY <1>1 DEF AddInactive, PutOn, Relisted, KernelState
<1> HIDE DEF m
<1>5. Lists(m, S \union {t})
  BY <1>2, <1>3, Insertion, Zenon
<1>6. Blockable(k, t, "INACTIVE", m)
  BY <1>1, <1>5 DEF Blockable
<1> QED  BY <1>4, <1>6, LinkBlocked

\* sched_mergepending
MergedInto(k, a) ==
  /\ Consistent(a) /\ HeadRuns(a) /\ SameFields(k, a) /\ ~Pending(a)
  /\ SameListed(k, a) /\ SameBlocked(k, a, {})

\* sched_mergepending: nobody is pending afterwards, and the head runs.
LEMMA Merge ==
  ASSUME NEW k, Consistent(k)
  PROVE  MergedInto(k, sched_mergepending(k))
<1> DEFINE a == sched_mergepending(k)
           r == this_task(k)
           P == k.list["PENDING"]
           R == k.list["READYTORUN"]
           A == On(k, "PENDING")
           B == On(k, "READYTORUN")
           L == Merged(P, R, k.prio)
           f == [k.list EXCEPT !["READYTORUN"] = L, !["PENDING"] = <<>>]
           g == [t \in Task |-> IF t = L[1] THEN "RUNNING"
                                ELSE IF t = r \/ InList(P, t) THEN "READYTORUN"
                                ELSE k.state[t]]
<1> SUFFICES MergedInto(k, a)
  OBVIOUS
<1>1. /\ k \in KernelState /\ k.list \in [ListName -> Seq(Task)] /\ k.state \in [Task -> TaskState]
      /\ "READYTORUN" \in ListName /\ "PENDING" \in ListName /\ k.prio \in PrioFcn
      /\ "RUNNING" \in TaskState /\ "READYTORUN" \in TaskState
  BY DEF Consistent, KernelState, ListName, TaskState, PrioFcn
<1>2. r \in Task /\ r \in B /\ R \in Seq(Task) /\ Len(R) \in Nat \ {0}
  BY ReadyHead DEF On, TLIST_HEAD
<1>3. MergeInput(P, R, A, B, k.prio)
  <2>1. Lists(P, A) /\ Lists(R, B) /\ Sorted(P, k.prio) /\ Sorted(R, k.prio)
    BY <1>1 DEF Consistent, ListsHold, PrioritizedSorted, TLIST_ISPRIORITIZED
  <2>2. A \subseteq Task /\ B \subseteq Task /\ A \cap B = {}
    BY DEF On
  <2> QED  BY <1>1, <2>1, <2>2 DEF MergeInput
<1>4. Lists(P, A) /\ Len(P) \in Nat
  <2>1. P \in Seq(Task)
    BY <1>1
  <2> QED  BY <1>3, <2>1, LenProperties DEF MergeInput
<1>5. Lists(L, A \union B) /\ Sorted(L, k.prio) /\ Len(L) = Len(P) + Len(R)
  <2>1. MergeOutput(P, R, A, B, k.prio, L)
    BY <1>3, MergeLists
  <2> QED  BY <2>1 DEF MergeOutput
<1>6. L \in Seq(Task) /\ L[1] \in A \union B /\ L[1] \in Task
  <2> HIDE DEF L, P, R
  <2>1. L \in Seq(Task) /\ 1 \in 1..Len(L)
    BY <1>2, <1>4, <1>5 DEF Lists
  <2>2. L[1] \in Task
    BY <2>1, ElementOfSeq
  <2> QED  BY <1>5, <2>1, <2>2 DEF Lists, InList
<1>7. f \in ListMap /\ g \in StateMap
  <2> HIDE DEF L, P, r
  <2>1. f \in ListMap
    <3> DEFINE h == [k.list EXCEPT !["READYTORUN"] = L]
    <3>1. h \in [ListName -> Seq(Task)] /\ f = [h EXCEPT !["PENDING"] = <<>>]
      BY <1>1, <1>6
    <3>2. <<>> \in Seq(Task)
      OBVIOUS
    <3> HIDE DEF h, f
    <3> QED  BY <3>1, <3>2 DEF ListMap
  <2>2. g \in StateMap
    BY <1>1 DEF StateMap
  <2> QED  BY <2>1, <2>2
<1>8. a = Relisted(k, f, g)
  BY <1>1 DEF sched_mergepending, Relisted, KernelState
<1> HIDE DEF a, f, g, L
<1>9. HasLists(k, f, g, a)
  BY <1>1, <1>7, <1>8, Relist
<1>10. /\ a \in KernelState /\ SameFields(k, a)
       /\ a.list = [k.list EXCEPT !["READYTORUN"] = L, !["PENDING"] = <<>>]
       /\ \A t \in Task : a.state[t] = IF t = L[1] THEN "RUNNING"
                                       ELSE IF t = r \/ t \in A THEN "READYTORUN"
                                       ELSE k.state[t]
  BY <1>4, <1>9 DEF HasLists, f, g, Lists
<1> HIDE DEF r, P, R
<1>11. a.list["READYTORUN"] = L /\ a.list["PENDING"] = <<>> /\ this_task(a) = L[1]
  BY <1>1, <1>10 DEF this_task
<1>12. ASSUME NEW t \in Task
       PROVE  TLIST_HEAD(a.state[t]) = IF t \in A THEN "READYTORUN" ELSE TLIST_HEAD(k.state[t])
  BY <1>2, <1>6, <1>10 DEF TLIST_HEAD, On
<1>13. ListsHold(a)
  <2> SUFFICES ASSUME NEW q \in ListName PROVE Lists(a.list[q], On(a, q))
    BY DEF ListsHold
  <2>1. CASE q = "READYTORUN"
    <3>1. On(a, q) = A \union B
      BY <1>12, <2>1 DEF On
    <3> QED  BY <1>5, <1>11, <2>1, <3>1
  <2>2. CASE q = "PENDING"
    <3>1. On(a, q) = {}
      BY <1>12, <2>2 DEF On
    <3>2. Lists(<<>>, {})
      BY DEF Lists, InList
    <3> QED  BY <1>11, <2>2, <3>1, <3>2
  <2>3. CASE q \notin {"READYTORUN", "PENDING"}
    <3>1. On(a, q) = On(k, q)
      BY <1>12, <2>3 DEF On
    <3>2. a.list[q] = k.list[q]
      BY <1>1, <1>10, <2>3
    <3> QED  BY <3>1, <3>2 DEF Consistent, ListsHold
  <2> QED  BY <2>1, <2>2, <2>3
<1>14. PrioritizedSorted(a)
  <2> SUFFICES ASSUME NEW q \in ListName, TLIST_ISPRIORITIZED(q) PROVE Sorted(a.list[q], k.prio)
    BY <1>10 DEF PrioritizedSorted, SameFields
  <2>1. Sorted(k.list[q], k.prio) /\ Sorted(<<>>, k.prio)
    BY DEF Consistent, PrioritizedSorted, Sorted
  <2> QED  BY <1>1, <1>5, <1>10, <2>1
<1>15. IdleReady(a)
  <2>1. IDLE \in Task /\ IDLE \notin A /\ TLIST_HEAD(k.state[IDLE]) = "READYTORUN"
    BY KernelAssumption DEF Consistent, IdleReady, On, TLIST_HEAD
  <2>2. TLIST_HEAD(a.state[IDLE]) = "READYTORUN"
    BY <1>12, <2>1
  <2> QED  BY <1>10, <2>2 DEF Consistent, IdleReady, SameFields, TLIST_HEAD
<1>16. SameListed(k, a) /\ SameBlocked(k, a, {})
  BY <1>12 DEF SameListed, SameBlocked, BlockedState, TLIST_HEAD, On
<1>17. PrioritiesValid(a)
  BY <1>10, <1>16 DEF PrioritiesValid, Consistent, SameFields, SameListed
<1>18. OnlyHeadRuns(a) /\ HeadRuns(a) /\ ~Pending(a)
  BY <1>6, <1>10, <1>11 DEF OnlyHeadRuns, Consistent, HeadRuns, Pending, r
<1> QED  BY <1>10, <1>13, <1>14, <1>15, <1>16, <1>17, <1>18 DEF Consistent, MergedInto

\* Only fields that the lists do not depend on change; the priority of a task
\* that is off every list is one.
Retuned(k, a) ==
  /\ Consistent(k) /\ a \in KernelState /\ a.list = k.list /\ a.state = k.state
  /\ IDLE \notin a.rr
  /\ \A t \in Task : k.state[t] # "INVALID" => a.prio[t] = k.prio[t] /\ a.init[t] = k.init[t]

SameHead(k, a) ==
  this_task(a) = this_task(k) /\ (HeadRuns(k) => HeadRuns(a)) /\ (Pending(a) <=> Pending(k))

\* Changing fields of tasks on no list, or lock counts and time slices, keeps
\* the lists consistent.
LEMMA Retune ==
  ASSUME NEW k, NEW a, Retuned(k, a)
  PROVE  Consistent(a) /\ SameHead(k, a)
<1> USE DEF Retuned
<1>1. ListsHold(a) /\ OnlyHeadRuns(a) /\ SameHead(k, a)
  BY DEF Consistent, ListsHold, OnlyHeadRuns, On, this_task, SameHead, HeadRuns, Pending
<1>2. PrioritizedSorted(a)
  <2> SUFFICES ASSUME NEW q \in ListName, TLIST_ISPRIORITIZED(q),
                      NEW i \in 1..Len(k.list[q]), NEW j \in 1..Len(k.list[q]), i < j
               PROVE  a.prio[k.list[q][i]] >= a.prio[k.list[q][j]]
    BY DEF PrioritizedSorted, Sorted
  <2>1. k.list[q] \in Seq(Task) /\ Lists(k.list[q], On(k, q)) /\ Sorted(k.list[q], k.prio)
    BY DEF Consistent, ListsHold, PrioritizedSorted, Lists
  <2>2. ASSUME NEW n \in 1..Len(k.list[q])
        PROVE  k.list[q][n] \in Task /\ k.state[k.list[q][n]] # "INVALID"
    <3>1. k.list[q][n] \in Task
      BY <2>1, ElementOfSeq
    <3>2. k.list[q][n] \in On(k, q)
      BY <2>1, <3>1 DEF Lists, InList
    <3> QED  BY <3>1, <3>2 DEF On, TLIST_HEAD, ListName, BlockedState
  <2>3. k.prio[k.list[q][i]] >= k.prio[k.list[q][j]]
    BY <2>1 DEF Sorted
  <2> QED  BY <2>2, <2>3
<1>3. IdleReady(a)
  BY KernelAssumption DEF Consistent, IdleReady
<1>4. PrioritiesValid(a)
  BY DEF Consistent, PrioritiesValid
<1> QED  BY <1>1, <1>2, <1>3, <1>4 DEF Consistent

\* The merge at the end of up_block_task, up_reprioritize_rtr and task_exit.
LEMMA MergeWhenPending ==
  ASSUME NEW k, Consistent(k), HeadRuns(k)
  PROVE  MergedInto(k, MergeIfPending(k))
<1>1. CASE Pending(k)
  BY <1>1, Merge DEF MergeIfPending
<1>2. CASE ~Pending(k)
  BY <1>2 DEF MergeIfPending, MergedInto, SameFields, SameListed, SameBlocked
<1> QED  BY <1>1, <1>2

SoundStep(k, a) == Sound(a) /\ SameListed(k, a)

\* A step that moreover blocks and wakes nobody.
QuietStep(k, a) == SoundStep(k, a) /\ SameBlocked(k, a, {})

\* Two of them make one.
LEMMA QuietChain ==
  ASSUME NEW k, NEW b, NEW a, SameListed(k, b), SameBlocked(k, b, {}), QuietStep(b, a)
  PROVE  QuietStep(k, a)
<1>1. SameBlocked(k, a, {} \union {})
  BY BlockedChain DEF QuietStep
<1> QED  BY <1>1 DEF QuietStep, SoundStep, SameListed

\* The task is off its list; the lists of the others are as before.
LEMMA BackOnList ==
  ASSUME NEW k, NEW b, NEW a, NEW t \in Task, SameLists(k, b, t), SameLists(b, a, t),
         k.state[t] # "INVALID", a.state[t] # "INVALID"
  PROVE  SameListed(k, a)
BY DEF SameLists, SameListed, TLIST_HEAD

\* Two steps that take no task off the lists for good make one.
LEMMA ListedChain ==
  ASSUME NEW k, NEW b, NEW a, SameListed(k, b), SameListed(b, a)
  PROVE  SameListed(k, a)
BY DEF SameListed

\* Task t goes from ready to blocked, or back, and the TCBs are otherwise as
\* they were.
TaskBlocked(k, t, s, a) ==
  SoundStep(k, a) /\ SameFields(k, a) /\ SameBlocked(k, a, {t}) /\ a.state[t] = s

TaskWoken(k, t, a) ==
  /\ SoundStep(k, a) /\ SameFields(k, a) /\ SameBlocked(k, a, {t})
  /\ a.state[t] \in {"PENDING", "READYTORUN", "RUNNING"}
  /\ k.lock[this_task(k)] > 0 => this_task(a) = this_task(k)

\* up_block_task
LEMMA BlockTask ==
  ASSUME NEW k, Sound(k), NEW t, t = this_task(k), t # IDLE, NEW s \in BlockedState
  PROVE  TaskBlocked(k, t, s, up_block_task(k, t, s))
<1> DEFINE b == sched_removereadytorun(k, t)
           c == sched_addblocked(b, t, s)
           a == MergeIfPending(c)
<1>1. t \in Task \ {IDLE} /\ k.state[t] = "RUNNING" /\ Consistent(k) /\ HeadRuns(k)
  BY ReadyHead DEF Sound, HeadRuns
<1>2. RemovedReady(k, t, b)
  <2>1. RemovableReady(k, t)
    BY <1>1 DEF RemovableReady
  <2> QED  BY <2>1, RemoveReady
<1> HIDE DEF b
<1>3. Addable(b, t)
  BY <1>1, <1>2 DEF Addable, RemovedReady, Consistent, PrioritiesValid, SameFields
<1>4. Blocked(b, t, s, c)
  BY <1>3, AddBlocked
<1> HIDE DEF c
<1>5. Consistent(c) /\ HeadRuns(c)
  <2>1. this_task(b) \in Task /\ this_task(b) # t
    BY <1>2, ReadyHead DEF RemovedReady, HeadRuns
  <2> QED  BY <1>2, <1>4, <2>1 DEF RemovedReady, Blocked, HeadRuns
<1>6. MergedInto(c, a)
  BY <1>5, MergeWhenPending
<1> HIDE DEF a
<1>7. SameListed(k, c)
  <2>1. SameLists(b, c, t) /\ c.state[t] = s /\ s # "INVALID"
    BY <1>1, <1>4 DEF Blocked, SameLists, BlockedState
  <2> QED  BY <1>1, <1>2, <2>1, BackOnList DEF RemovedReady
<1>8. Sound(a) /\ SameListed(k, a)
  BY <1>6, <1>7, ListedChain DEF MergedInto, Sound, PendingReleased
<1>9. SameFields(k, a)
  BY <1>2, <1>4, <1>6 DEF RemovedReady, Blocked, MergedInto, SameFields
<1>10. c.state[t] = s /\ SameBlocked(k, c, {t}) /\ SameBlocked(c, a, {})
  <2>1. c.state[t] = s /\ \A u \in Task \ {t} : TLIST_HEAD(c.state[u]) = TLIST_HEAD(k.state[u])
    BY <1>1, <1>2, <1>4 DEF RemovedReady, Blocked, SameLists
  <2> QED  BY <1>6, <2>1, ListsBlocked DEF MergedInto
<1>11. SameBlocked(k, a, {t} \union {}) /\ a.state[t] = s
  BY <1>1, <1>10, BlockedChain DEF SameBlocked
<1> QED  BY <1>8, <1>9, <1>11 DEF SoundStep, TaskBlocked, up_block_task, a, b, c

\* up_unblock_task
LEMMA UnblockTask ==
  ASSUME NEW k, Consistent(k), NEW t \in Task, k.state[t] \in BlockedState
  PROVE  LET b == TakeOffList(k, t)
             a == up_unblock_task(k, t)
         IN  TakenOff(k, t, b) /\ AddedReady(b, t, a) /\ t # IDLE /\ t # this_task(k)
<1> DEFINE b == TakeOffList(k, t)
           a == up_unblock_task(k, t)
<1>1. b = sched_removeblocked(k, t)
  BY DEF TakeOffList, sched_removeblocked, TLIST_HEAD, BlockedState
<1>2. t # IDLE /\ t # this_task(k) /\ k.state[t] # "INVALID"
  BY ReadyHead DEF Consistent, IdleReady, BlockedState
<1>3. TakenOff(k, t, b)
  <2>1. Removable(k, t)
    BY <1>2 DEF Removable
  <2> QED  BY <2>1, TakeOff
<1>4. a = sched_addreadytorun(b, t)
  BY <1>1 DEF up_unblock_task
<1> HIDE DEF a, b
<1>5. Addable(b, t)
  BY <1>2, <1>3 DEF Addable, TakenOff, Consistent, PrioritiesValid, SameFields
<1>6. AddedReady(b, t, a)
  BY <1>4, <1>5, AddReady
<1> QED  BY <1>2, <1>3, <1>6 DEF a, b

\* up_unblock_task on a blocked task leaves a sound kernel.
LEMMA UnblockSound ==
  ASSUME NEW k, Sound(k), NEW t \in Task, k.state[t] \in BlockedState
  PROVE  TaskWoken(k, t, up_unblock_task(k, t))
<1> DEFINE b == TakeOffList(k, t)
           a == up_unblock_task(k, t)
<1>1. TakenOff(k, t, b) /\ AddedReady(b, t, a) /\ t # IDLE /\ t # this_task(k)
  BY UnblockTask DEF Sound
<1> HIDE DEF a, b
<1>2. HeadRuns(b) /\ PendingReleased(b)
  <2>1. this_task(k) \in Task
    BY ReadyHead DEF Sound
  <2> QED  BY <1>1, <2>1 DEF TakenOff, Sound, HeadRuns, PendingReleased, SameFields
<1>3. SameListed(k, a)
  <2>1. SameLists(k, b, t)
    BY <1>1 DEF TakenOff, SameLists
  <2>2. SameLists(b, a, t) /\ a.state[t] # "INVALID" /\ k.state[t] # "INVALID"
    BY <1>1 DEF AddedReady, BlockedState
  <2> QED  BY <2>1, <2>2, BackOnList
<1>4. Sound(a)
  BY <1>1, <1>2 DEF AddedReady, Sound
<1>5. SameFields(k, a) /\ (k.lock[this_task(k)] > 0 => this_task(a) = this_task(k))
  BY <1>1 DEF TakenOff, AddedReady, SameFields
<1>6. SameBlocked(k, a, {t})
  <2>1. \A u \in Task \ {t} : TLIST_HEAD(a.state[u]) = TLIST_HEAD(k.state[u])
    BY <1>1 DEF TakenOff, AddedReady, SameLists
  <2> QED  BY <2>1, ListsBlocked
<1> QED  BY <1>1, <1>3, <1>4, <1>5, <1>6 DEF SoundStep, TaskWoken, AddedReady, a

\* The core of up_reprioritize_rtr and sched_readytorun_setpriority.
Requeued(k, t, p) == sched_addreadytorun([sched_removereadytorun(k, t) EXCEPT !.prio[t] = p], t)

Requeueable(k, t, p) ==
  /\ Sound(k) /\ t \in Task \ {IDLE} /\ k.state[t] \in {"RUNNING", "READYTORUN"}
  /\ p \in Priority
  /\ this_task(k) = t => p <= k.prio[k.list["READYTORUN"][2]]

IsRequeued(k, t, a) ==
  /\ Consistent(a) /\ HeadRuns(a) /\ SameListed(k, a) /\ SameBlocked(k, a, {})
  /\ this_task(k) # t => PendingReleased(a)
  /\ this_task(k) # t /\ k.lock[this_task(k)] > 0 => this_task(a) = this_task(k)
  /\ this_task(k) = t => this_task(a) # t

\* A ready task is taken off g_readytorun and put back with priority p.
LEMMA Requeue ==
  ASSUME NEW k, NEW t, NEW p, Requeueable(k, t, p)
  PROVE  IsRequeued(k, t, Requeued(k, t, p))
<1> DEFINE b == sched_removereadytorun(k, t)
           c == [b EXCEPT !.prio[t] = p]
           a == Requeued(k, t, p)
<1>1. /\ Consistent(k) /\ HeadRuns(k) /\ PendingReleased(k) /\ t \in Task \ {IDLE}
      /\ k.state[t] \in {"RUNNING", "READYTORUN"} /\ p \in Priority
      /\ p \in 0..SCHED_PRIORITY_MAX
  BY KernelAssumption DEF Requeueable, Sound, Priority, SCHED_PRIORITY_MIN
<1>2. RemovedReady(k, t, b)
  <2>1. RemovableReady(k, t)
    BY <1>1 DEF RemovableReady
  <2> QED  BY <2>1, RemoveReady
<1>3. a = sched_addreadytorun(c, t)
  BY DEF Requeued
<1> HIDE DEF a, b
<1>4. b \in KernelState /\ b.state[t] = "INVALID"
  BY <1>2 DEF RemovedReady, Consistent
<1>5. /\ c \in KernelState /\ c.list = b.list /\ c.state = b.state /\ c.init = b.init
      /\ c.lock = b.lock /\ c.rr = b.rr /\ c.prio = [b.prio EXCEPT ![t] = p]
      /\ b.prio \in [Task -> 0..SCHED_PRIORITY_MAX]
  BY <1>1, <1>4 DEF KernelState
<1> HIDE DEF c
<1>6. Consistent(c) /\ SameHead(b, c)
  <2>1. Retuned(b, c)
    BY <1>2, <1>4, <1>5 DEF Retuned, RemovedReady, Consistent, IdleReady
  <2> QED  BY <2>1, Retune
<1>7. Addable(c, t)
  <2>1. k.init[t] \in Priority /\ b.init = k.init
    BY <1>1, <1>2 DEF RemovedReady, SameFields, Consistent, PrioritiesValid
  <2> QED  BY <1>1, <1>4, <1>5, <1>6, <2>1 DEF Addable
<1>8. AddedReady(c, t, a)
  BY <1>3, <1>7, AddReady
<1>9. Consistent(a) /\ HeadRuns(a)
  BY <1>2, <1>6, <1>8 DEF AddedReady, RemovedReady, SameHead
<1>10. SameListed(k, a) /\ SameBlocked(k, a, {})
  <2>1. SameLists(k, b, t) /\ SameLists(b, a, t) /\ a.state[t] # "INVALID" /\ k.state[t] # "INVALID"
    BY <1>1, <1>2, <1>5, <1>8 DEF RemovedReady, AddedReady, SameLists
  <2>2. \A u \in Task \ {t} : TLIST_HEAD(a.state[u]) = TLIST_HEAD(k.state[u])
    BY <2>1 DEF SameLists
  <2>3. k.state[t] \notin BlockedState /\ a.state[t] \notin BlockedState
    BY <1>1, <1>8 DEF AddedReady, BlockedState
  <2>4. SameBlocked(k, a, {t})
    BY <2>2, ListsBlocked
  <2>5. SameBlocked(k, a, {})
    BY <2>3, <2>4 DEF SameBlocked
  <2> QED  BY <1>1, <2>1, <2>5, BackOnList
<1>11. ASSUME this_task(k) # t
       PROVE  /\ PendingReleased(a)
              /\ k.lock[this_task(k)] > 0 => this_task(a) = this_task(k)
  <2>1. this_task(c) = this_task(k) /\ c.lock = k.lock /\ (Pending(c) <=> Pending(k))
    BY <1>2, <1>5, <1>6, <1>11 DEF RemovedReady, SameFields, SameHead, Pending
  <2>2. PendingReleased(c)
    BY <1>1, <2>1 DEF PendingReleased
  <2> QED  BY <1>8, <2>1, <2>2 DEF AddedReady
<1>12. ASSUME this_task(k) = t PROVE this_task(a) # t
  <2>1. this_task(c) = k.list["READYTORUN"][2]
    BY <1>2, <1>6, <1>12 DEF RemovedReady, SameHead
  <2>2. this_task(c) \in Task \ {t}
    BY <1>4, <1>5, <1>6, ReadyHead
  <2>3. c.prio[t] = p /\ c.prio[this_task(c)] = k.prio[this_task(c)]
    BY <1>1, <1>2, <1>5, <2>2 DEF RemovedReady, SameFields
  <2>4. c.prio[t] <= c.prio[this_task(c)]
    BY <1>12, <2>1, <2>3 DEF Requeueable
  <2> QED  BY <1>8, <2>2, <2>4 DEF AddedReady
<1> QED  BY <1>9, <1>10, <1>11, <1>12 DEF IsRequeued, a

\* What a change of t's priority leaves alone.
PriorityChanged(k, t, a) ==
  /\ QuietStep(k, a)
  /\ this_task(k) # t /\ k.lock[this_task(k)] > 0 => this_task(a) = this_task(k)

\* up_reprioritize_rtr
LEMMA ReprioritizeReady ==
  ASSUME NEW k, NEW t, NEW p, Requeueable(k, t, p)
  PROVE  PriorityChanged(k, t, up_reprioritize_rtr(k, t, p))
<1> DEFINE a == Requeued(k, t, p)
<1>1. IsRequeued(k, t, a)
  BY Requeue
<1>2. up_reprioritize_rtr(k, t, p)
        = IF (this_task(k) = t) # (this_task(a) = t) THEN MergeIfPending(a) ELSE a
  BY DEF up_reprioritize_rtr, Requeued
<1> HIDE DEF a
<1>3. MergedInto(a, MergeIfPending(a))
  BY <1>1, MergeWhenPending DEF IsRequeued
<1>4. QuietStep(k, MergeIfPending(a))
  <2>1. QuietStep(a, MergeIfPending(a))
    BY <1>3 DEF MergedInto, QuietStep, SoundStep, Sound, PendingReleased
  <2> QED  BY <1>1, <2>1, QuietChain DEF IsRequeued
<1>5. this_task(k) # t => QuietStep(k, a)
  BY <1>1 DEF IsRequeued, QuietStep, SoundStep, Sound
<1>6. CASE this_task(k) = t
  BY <1>1, <1>2, <1>4, <1>6 DEF IsRequeued, PriorityChanged
<1>7. CASE this_task(k) # t
  BY <1>1, <1>2, <1>4, <1>5, <1>7 DEF IsRequeued, PriorityChanged
<1> QED  BY <1>6, <1>7

\* A priority is stored in place.
Stored(k, t, p) == [k EXCEPT !.prio[t] = p]

\* A priority is stored in place where the lists stay sorted.
LEMMA StorePriority ==
  ASSUME NEW k, Sound(k), NEW t \in Task \ {IDLE}, NEW p \in Priority,
         PrioritizedSorted(Stored(k, t, p))
  PROVE  PriorityChanged(k, t, Stored(k, t, p))
<1> DEFINE a == Stored(k, t, p)
<1>1. k \in KernelState /\ p \in 0..SCHED_PRIORITY_MAX
  BY KernelAssumption DEF Sound, Consistent, Priority, SCHED_PRIORITY_MIN
<1>2. /\ a \in KernelState /\ a.list = k.list /\ a.state = k.state /\ a.init = k.init
      /\ a.lock = k.lock /\ a.rr = k.rr /\ a.prio = [k.prio EXCEPT ![t] = p]
      /\ k.prio \in [Task -> 0..SCHED_PRIORITY_MAX]
  BY <1>1 DEF KernelState, Stored
<1> HIDE DEF a
<1>3. ListsHold(a) /\ OnlyHeadRuns(a)
  BY <1>2 DEF Sound, Consistent, ListsHold, OnlyHeadRuns, On, this_task
<1>4. IdleReady(a) /\ PrioritiesValid(a)
  BY <1>2, KernelAssumption DEF Sound, Consistent, IdleReady, PrioritiesValid
<1>5. /\ HeadRuns(a) /\ PendingReleased(a) /\ SameListed(k, a) /\ SameBlocked(k, a, {})
      /\ this_task(a) = this_task(k)
  BY <1>2 DEF Sound, HeadRuns, PendingReleased, Pending, this_task, SameListed, SameBlocked
<1> QED  BY <1>2, <1>3, <1>4, <1>5 DEF PriorityChanged, QuietStep, SoundStep, Sound, Consistent, a

\* A list that does not hold t is as sorted as before.
LEMMA StoredElsewhere ==
  ASSUME NEW k, Consistent(k), NEW t \in Task, NEW p, NEW q \in ListName, TLIST_ISPRIORITIZED(q),
         TLIST_HEAD(k.state[t]) # q
  PROVE  Sorted(k.list[q], [k.prio EXCEPT ![t] = p])
<1> DEFINE l == k.list[q]
<1>1. l \in Seq(Task) /\ Lists(l, On(k, q)) /\ Sorted(l, k.prio) /\ t \notin On(k, q)
  BY DEF Consistent, ListsHold, PrioritizedSorted, Lists, On
<1>2. k.prio \in [Task -> 0..SCHED_PRIORITY_MAX]
  BY DEF Consistent, KernelState
<1> HIDE DEF l
<1>3. \A n \in 1..Len(l) : l[n] \in Task /\ l[n] # t
  BY <1>1, ElementOfSeq DEF Lists, InList
<1> QED  BY <1>1, <1>2, <1>3 DEF Sorted, l

\* sched_running_setpriority
LEMMA RunningSetPriority ==
  ASSUME NEW k, Sound(k), NEW t \in Task \ {IDLE}, NEW p \in Priority, k.state[t] = "RUNNING"
  PROVE  PriorityChanged(k, t, sched_running_setpriority(k, t, p))
<1> DEFINE R == k.list["READYTORUN"]
<1>1. t = this_task(k) /\ Consistent(k)
  BY DEF Sound, Consistent, OnlyHeadRuns
<1>2. CASE p <= k.prio[R[2]]
  <2>1. Requeueable(k, t, p)
    BY <1>1, <1>2 DEF Requeueable
  <2> QED  BY <1>2, <2>1, ReprioritizeReady DEF sched_running_setpriority
<1>3. CASE ~(p <= k.prio[R[2]])
  <2>1. sched_running_setpriority(k, t, p) = Stored(k, t, p)
    BY <1>3 DEF sched_running_setpriority, Stored
  <2>2. k \in KernelState /\ k.prio \in [Task -> 0..SCHED_PRIORITY_MAX] /\ "READYTORUN" \in ListName
    BY <1>1 DEF Consistent, KernelState, ListName
  <2>3. /\ Len(R) > 1 /\ R[2] \in Task \ {t}
    BY <1>1, SecondReady DEF this_task
  <2>4. /\ R \in Seq(Task) /\ Len(R) \in Nat /\ Lists(R, On(k, "READYTORUN")) /\ Sorted(R, k.prio)
        /\ \A n \in 1..Len(R) : R[n] \in Task
    BY <1>1, <2>2, ElementOfSeq, LenProperties
       DEF Consistent, ListsHold, PrioritizedSorted, TLIST_ISPRIORITIZED, Lists
  <2> HIDE DEF R
  <2>5. R[1] = t /\ \A n \in 1..Len(R) : n > 1 => R[n] # t
    <3>1. R[1] = t
      BY <1>1 DEF this_task, R
    <3> QED  BY <2>4, <3>1 DEF Lists
  <2>6. \A n \in 1..Len(R) : k.prio[R[n]] \in Int
    BY <2>2, <2>4, KernelAssumption
  <2>7. Sorted(R, [k.prio EXCEPT ![t] = p])
    <3> SUFFICES ASSUME NEW i \in 1..Len(R), NEW j \in 1..Len(R), i < j
                 PROVE  [k.prio EXCEPT ![t] = p][R[i]] >= [k.prio EXCEPT ![t] = p][R[j]]
      BY DEF Sorted
    <3>1. k.prio[R[i]] >= k.prio[R[j]]
      BY <2>4 DEF Sorted
    <3>2. R[j] # t /\ [k.prio EXCEPT ![t] = p][R[j]] = k.prio[R[j]]
      BY <2>2, <2>4, <2>5
    <3>3. CASE i = 1
      <4>1. k.prio[R[2]] >= k.prio[R[j]] /\ 2 \in 1..Len(R)
        <5>1. 2 \in 1..Len(R) /\ (j = 2 \/ 2 < j)
          BY <2>3, <2>4, <3>3
        <5> QED  BY <2>4, <2>6, <5>1 DEF Sorted
      <4>2. [k.prio EXCEPT ![t] = p][R[i]] = p /\ p \in Int
        BY <2>2, <2>5, <3>3, KernelAssumption DEF Priority, SCHED_PRIORITY_MIN
      <4> QED  BY <1>3, <2>6, <3>2, <4>1, <4>2
    <3>4. CASE i # 1
      BY <2>2, <2>4, <2>5, <3>1, <3>2, <3>4
    <3> QED  BY <3>3, <3>4
  <2>8. PrioritizedSorted(Stored(k, t, p))
    <3>1. Stored(k, t, p).list = k.list /\ Stored(k, t, p).prio = [k.prio EXCEPT ![t] = p]
      BY <2>2 DEF Stored, KernelState
    <3> HIDE DEF R
    <3>2. ASSUME NEW q \in ListName, TLIST_ISPRIORITIZED(q), q # "READYTORUN"
          PROVE  Sorted(k.list[q], [k.prio EXCEPT ![t] = p])
      <4>1. TLIST_HEAD(k.state[t]) # q
        BY <3>2 DEF TLIST_HEAD
      <4> QED  BY <1>1, <3>2, <4>1, StoredElsewhere
    <3> QED  BY <2>7, <3>1, <3>2 DEF PrioritizedSorted, R
  <2> QED  BY <2>1, <2>8, StorePriority
<1> QED  BY <1>2, <1>3

\* sched_readytorun_setpriority
LEMMA ReadySetPriority ==
  ASSUME NEW k, Sound(k), NEW t \in Task \ {IDLE}, NEW p \in Priority, k.state[t] = "READYTORUN"
  PROVE  PriorityChanged(k, t, sched_readytorun_setpriority(k, t, p))
<1>1. Requeueable(k, t, p) /\ this_task(k) # t
  BY DEF Requeueable, Sound, HeadRuns
<1>2. PriorityChanged(k, t, up_reprioritize_rtr(k, t, p))
  BY <1>1, ReprioritizeReady
<1>3. PriorityChanged(k, t, Requeued(k, t, p))
  BY <1>1, Requeue DEF IsRequeued, PriorityChanged, QuietStep, SoundStep, Sound
<1>4. sched_readytorun_setpriority(k, t, p)
        = IF p > k.prio[this_task(k)] THEN up_reprioritize_rtr(k, t, p) ELSE Requeued(k, t, p)
  BY DEF sched_readytorun_setpriority, Requeued
<1> QED  BY <1>2, <1>3, <1>4

\* sched_blocked_setpriority
LEMMA BlockedSetPriority ==
  ASSUME NEW k, Sound(k), NEW t \in Task \ {IDLE}, NEW p \in Priority,
         k.state[t] \notin {"RUNNING", "READYTORUN"}
  PROVE  PriorityChanged(k, t, sched_blocked_setpriority(k, t, p))
<1> DEFINE s == k.state[t]
<1>1. /\ Consistent(k) /\ k \in KernelState /\ k.state \in [Task -> TaskState]
      /\ k.prio \in [Task -> 0..SCHED_PRIORITY_MAX] /\ TLIST_HEAD(s) = s
      /\ s \in {"INVALID", "PENDING"} \union BlockedState
      /\ p \in 0..SCHED_PRIORITY_MAX
  <2>1. Consistent(k) /\ k \in KernelState
    BY DEF Sound, Consistent
  <2>2. k.state \in [Task -> TaskState] /\ k.prio \in [Task -> 0..SCHED_PRIORITY_MAX]
    BY <2>1 DEF KernelState
  <2>3. s \in {"INVALID", "PENDING"} \union BlockedState /\ TLIST_HEAD(s) = s
    BY <2>2 DEF TaskState, ListName, TLIST_HEAD
  <2>4. p \in 0..SCHED_PRIORITY_MAX
    BY KernelAssumption DEF Priority, SCHED_PRIORITY_MIN
  <2> QED  BY <2>1, <2>2, <2>3, <2>4
<1>2. CASE ~TLIST_ISPRIORITIZED(s)
  <2>1. sched_blocked_setpriority(k, t, p) = Stored(k, t, p)
    BY <1>2 DEF sched_blocked_setpriority, Stored
  <2>2. Stored(k, t, p).list = k.list /\ Stored(k, t, p).prio = [k.prio EXCEPT ![t] = p]
    BY <1>1 DEF Stored, KernelState
  <2>3. ASSUME NEW q \in ListName, TLIST_ISPRIORITIZED(q)
        PROVE  Sorted(k.list[q], [k.prio EXCEPT ![t] = p])
    <3>1. TLIST_HEAD(k.state[t]) # q
      BY <1>1, <1>2, <2>3
    <3> QED  BY <1>1, <2>3, <3>1, StoredElsewhere
  <2>4. PrioritizedSorted(Stored(k, t, p))
    BY <2>2, <2>3 DEF PrioritizedSorted
  <2> QED  BY <2>1, <2>4, StorePriority
<1>3. CASE TLIST_ISPRIORITIZED(s)
  <2> DEFINE b == TakeOffList(k, t)
             c == [b EXCEPT !.prio[t] = p]
             m == AddPrioritized(c.list[s], c.prio, t)
             d == dq_rem(t, k.list[s])
             x == [k EXCEPT !.list[s] = d, !.prio[t] = p]
             a == sched_blocked_setpriority(k, t, p)
  <2>1. s # "INVALID" /\ t # this_task(k) /\ s \in BlockedState \union {"PENDING"} /\ s \in ListName
    BY <1>1, <1>3 DEF TLIST_ISPRIORITIZED, Sound, HeadRuns, ListName
  <2>2. TakenOff(k, t, b)
    <3>1. Removable(k, t)
      BY <1>1, <2>1 DEF Removable
    <3> QED  BY <3>1, TakeOff
  <2>3. b.list = [k.list EXCEPT ![s] = d]
    BY <1>1 DEF TakeOffList, KernelState
  <2> HIDE DEF b, a, m, d
  <2>4. /\ b \in KernelState /\ Consistent(b) /\ b.state[t] = "INVALID"
        /\ SameFields(k, b) /\ b.state = [k.state EXCEPT ![t] = "INVALID"]
    BY <1>1, <2>2 DEF TakenOff, Consistent
  <2>5. /\ c \in KernelState /\ c.list = b.list /\ c.state = b.state /\ c.init = b.init
        /\ c.lock = b.lock /\ c.slice = b.slice /\ c.rr = b.rr /\ c.prio = [b.prio EXCEPT ![t] = p]
        /\ b.prio \in [Task -> 0..SCHED_PRIORITY_MAX] /\ c.prio \in PrioFcn
    BY <1>1, <2>4 DEF KernelState, PrioFcn
  <2> HIDE DEF c
  <2>6. Consistent(c) /\ SameHead(b, c)
    <3>1. Retuned(b, c)
      BY <2>4, <2>5 DEF Retuned, Consistent, IdleReady
    <3> QED  BY <3>1, Retune
  <2>7. Addable(c, t)
    BY <1>1, <2>1, <2>4, <2>5, <2>6 DEF Addable, Consistent, PrioritiesValid, SameFields
  <2>8. Inserted(c.list[s], On(c, s), c.prio, t, m)
    <3>1. Insertable(c.list[s], On(c, s), c.prio, t)
      BY <1>3, <2>1, <2>4, <2>5, <2>6
         DEF Insertable, Consistent, ListsHold, PrioritizedSorted, On, TLIST_HEAD
    <3> QED  BY <3>1, PrioritizedInsertion DEF m
  <2>9. /\ a \in KernelState /\ SameFields(c, a) /\ a.state = k.state
        /\ a.list = [c.list EXCEPT ![s] = m]
    <3>1. d \in Seq(Task) /\ m \in Seq(Task) /\ k.list \in [ListName -> Seq(Task)]
      <4>1. b.list[s] \in Seq(Task) /\ k.list \in [ListName -> Seq(Task)]
        BY <1>1, <2>1, <2>4 DEF KernelState
      <4> QED  BY <2>1, <2>3, <2>8, <4>1 DEF Inserted, Lists
    <3>2. /\ x \in KernelState /\ x.list = [k.list EXCEPT ![s] = d] /\ x.state = k.state
          /\ x.prio = [k.prio EXCEPT ![t] = p] /\ x.init = k.init /\ x.lock = k.lock
          /\ x.slice = k.slice /\ x.rr = k.rr
      BY <1>1, <2>1, <3>1 DEF KernelState
    <3>3. a = [x EXCEPT !.list[s] = AddPrioritized(@, x.prio, t)]
      BY <1>3 DEF sched_blocked_setpriority, sched_addprioritized, a, d
    <3> HIDE DEF x
    <3>4. x.list = c.list /\ SameFields(c, x) /\ x.list[s] = c.list[s]
      BY <2>3, <2>4, <2>5, <3>2 DEF SameFields
    <3>5. a = [x EXCEPT !.list = [c.list EXCEPT ![s] = m]]
      BY <3>2, <3>3, <3>4 DEF m, SameFields, KernelState
    <3> DEFINE F == [c.list EXCEPT ![s] = m]
    <3>6. F \in [ListName -> Seq(Task)]
      BY <2>1, <2>5, <3>1 DEF KernelState
    <3> HIDE DEF F
    <3>7. a \in KernelState /\ a.list = F /\ a.state = x.state /\ SameFields(x, a)
      BY <3>2, <3>5, <3>6 DEF KernelState, SameFields, F
    <3> QED  BY <3>2, <3>4, <3>7 DEF SameFields, F
  <2> HIDE DEF s
  <2>10. this_task(a) = this_task(k) /\ a.lock = k.lock
    <3>1. s # "READYTORUN" /\ "READYTORUN" \in ListName /\ c.list \in [ListName -> Seq(Task)]
      BY <1>1, <2>5 DEF ListName, KernelState, BlockedState
    <3>2. a.list["READYTORUN"] = c.list["READYTORUN"]
      BY <2>9, <3>1
    <3> QED  BY <2>2, <2>4, <2>5, <2>6, <2>9, <3>2 DEF TakenOff, SameHead, SameFields, this_task
  <2>11. Consistent(a)
    <3>1. OnlyHeadRuns(a)
      BY <1>1, <2>9, <2>10 DEF Consistent, OnlyHeadRuns
    <3>2. \A u \in Task \ {t} : TLIST_HEAD(a.state[u]) = TLIST_HEAD(c.state[u])
      BY <1>1, <2>4, <2>5, <2>9
    <3>3. TLIST_HEAD(a.state[t]) = s
      BY <1>1, <2>9 DEF s
    <3>4. LinkedTo(c, t, s, m, a)
      BY <2>1, <2>7, <2>8, <2>9, <3>1, <3>2, <3>3, Zenon DEF LinkedTo, Addable, Inserted
    <3> QED  BY <3>4, LinkConsistent
  <2>12. PendingReleased(a)
    <3>1. CASE s = "PENDING"
      <4>1. InList(k.list["PENDING"], t)
        BY <1>1, <3>1 DEF Consistent, ListsHold, Lists, On, ListName, s
      <4>2. Pending(k)
        BY <4>1 DEF InList, Pending
      <4> QED  BY <2>10, <4>2 DEF Sound, PendingReleased
    <3>2. CASE s # "PENDING"
      <4>1. "PENDING" \in ListName /\ k.list \in [ListName -> Seq(Task)]
        BY <1>1 DEF ListName, KernelState
      <4>2. a.list["PENDING"] = k.list["PENDING"]
        BY <2>1, <2>3, <2>5, <2>9, <3>2, <4>1
      <4> QED  BY <2>10, <4>2 DEF Sound, PendingReleased, Pending
    <3> QED  BY <3>1, <3>2
  <2>13. HeadRuns(a) /\ SameListed(k, a) /\ SameBlocked(k, a, {})
    BY <2>9, <2>10 DEF Sound, HeadRuns, SameListed, SameBlocked
  <2> QED  BY <2>10, <2>11, <2>12, <2>13 DEF PriorityChanged, QuietStep, SoundStep, Sound, a
<1> QED  BY <1>2, <1>3

\* sched_setpriority, whatever the state of the task and the argument.
LEMMA SetPrioritySound ==
  ASSUME NEW k, Sound(k), NEW t \in Task \ {IDLE}, NEW p
  PROVE  PriorityChanged(k, t, sched_setpriority(k, t, p))
<1>1. CASE p \notin Priority
  BY <1>1 DEF sched_setpriority, PriorityChanged, QuietStep, SoundStep, SameListed, SameBlocked
<1>2. CASE p \in Priority /\ k.state[t] = "RUNNING"
  BY <1>2, RunningSetPriority DEF sched_setpriority
<1>3. CASE p \in Priority /\ k.state[t] = "READYTORUN"
  BY <1>3, ReadySetPriority DEF sched_setpriority
<1>4. CASE p \in Priority /\ k.state[t] \notin {"RUNNING", "READYTORUN"}
  BY <1>4, BlockedSetPriority DEF sched_setpriority
<1> QED  BY <1>1, <1>2, <1>3, <1>4

\* Lock counts, time slices and policies may change, as long as the running
\* task keeps the lock while tasks are pending.
Tuned(k, a) ==
  /\ a \in KernelState /\ a.list = k.list /\ a.state = k.state
  /\ a.prio = k.prio /\ a.init = k.init /\ IDLE \notin a.rr

\* A step that changes lock counts, policies and time slices only.
LEMMA Tune ==
  ASSUME NEW k, Sound(k), NEW a, Tuned(k, a), Pending(k) => a.lock[this_task(k)] > 0
  PROVE  QuietStep(k, a)
<1>1. Retuned(k, a)
  BY DEF Retuned, Tuned, Sound
<1>2. Consistent(a) /\ SameHead(k, a)
  BY <1>1, Retune
<1> QED  BY <1>2 DEF Tuned, QuietStep, SoundStep, Sound, SameHead, PendingReleased, SameListed, SameBlocked

\* sched_lock changes one lock count.
LEMMA Lock ==
  ASSUME NEW k, Sound(k)
  PROVE  QuietStep(k, sched_lock(k)) /\ Tuned(k, sched_lock(k))
<1> DEFINE a == sched_lock(k)
<1>1. k \in KernelState /\ this_task(k) \in Task /\ k.lock \in [Task -> Nat]
  BY ReadyHead DEF Sound, Consistent, KernelState
<1>2. /\ a \in KernelState /\ a.list = k.list /\ a.state = k.state /\ a.prio = k.prio
      /\ a.init = k.init /\ a.rr = k.rr /\ a.lock[this_task(k)] > 0
  <2> DEFINE n == k.lock[this_task(k)] + 1
  <2>1. a = [k EXCEPT !.lock[this_task(k)] = n] /\ n \in Nat /\ n > 0
    BY <1>1 DEF sched_lock, KernelState
  <2> HIDE DEF n, a
  <2> QED  BY <1>1, <2>1 DEF KernelState
<1>3. Tuned(k, a)
  BY <1>2 DEF Tuned, Sound, Consistent, IdleReady
<1> QED  BY <1>2, <1>3, Tune

\* sched_unlock, up to the return of up_release_pending.
LEMMA UnlockSound ==
  ASSUME NEW k, Sound(k)
  PROVE  /\ QuietStep(k, sched_unlock(k))
         /\ this_task(sched_unlock(k)) # this_task(k) => sched_unlock(k).lock[this_task(k)] = 0
<1> DEFINE r == this_task(k)
           a == [k EXCEPT !.lock[r] = IF @ > 0 THEN @ - 1 ELSE 0]
<1>1. k \in KernelState /\ r \in Task /\ k.lock \in [Task -> Nat]
  BY ReadyHead DEF Sound, Consistent, KernelState
<1>2. /\ a \in KernelState /\ a.list = k.list /\ a.state = k.state /\ a.prio = k.prio
      /\ a.init = k.init /\ a.rr = k.rr /\ a.lock[r] \in Nat
  <2> DEFINE n == IF k.lock[r] > 0 THEN k.lock[r] - 1 ELSE 0
  <2>1. a = [k EXCEPT !.lock[r] = n] /\ n \in Nat
    BY <1>1 DEF KernelState
  <2> HIDE DEF n, a, r
  <2> QED  BY <1>1, <2>1 DEF KernelState
<1>3. sched_unlock(k) = IF a.lock[r] = 0 /\ Pending(a) THEN sched_mergepending(a) ELSE a
  BY DEF sched_unlock, up_release_pending
<1> HIDE DEF a
<1>4. /\ Tuned(k, a) /\ Consistent(a) /\ (Pending(a) <=> Pending(k)) /\ SameListed(k, a)
      /\ SameBlocked(k, a, {}) /\ this_task(a) = r
  <2>1. Tuned(k, a)
    BY <1>2 DEF Tuned, Sound, Consistent, IdleReady
  <2>2. Retuned(k, a)
    BY <2>1 DEF Retuned, Tuned, Sound
  <2> QED  BY <1>2, <2>1, <2>2, Retune DEF SameHead, SameListed, SameBlocked
<1>5. CASE a.lock[r] = 0 /\ Pending(a)
  <2>1. MergedInto(a, sched_mergepending(a))
    BY <1>4, Merge
  <2>2. QuietStep(a, sched_mergepending(a)) /\ sched_mergepending(a).lock = a.lock
    BY <2>1 DEF MergedInto, QuietStep, SoundStep, Sound, PendingReleased, SameFields
  <2>3. QuietStep(k, sched_mergepending(a))
    BY <1>4, <2>2, QuietChain
  <2> QED  BY <1>3, <1>5, <2>2, <2>3
<1>6. CASE ~(a.lock[r] = 0 /\ Pending(a))
  <2>1. Pending(k) => a.lock[r] > 0
    BY <1>2, <1>4, <1>6
  <2> QED  BY <1>3, <1>4, <1>6, <2>1, Tune
<1> QED  BY <1>5, <1>6

\* A change of a time slice.
LEMMA SliceSound ==
  ASSUME NEW k, Sound(k), NEW t \in Task, NEW n \in 0..RR_TICKS, NEW a, a = [k EXCEPT !.slice[t] = n]
  PROVE  QuietStep(k, a) /\ a.list = k.list /\ a.state = k.state /\ a.prio = k.prio /\ a.rr = k.rr
<1>1. /\ a \in KernelState /\ a.list = k.list /\ a.state = k.state /\ a.prio = k.prio
      /\ a.init = k.init /\ a.rr = k.rr /\ a.lock = k.lock
  BY DEF Sound, Consistent, KernelState
<1>2. Tuned(k, a) /\ (Pending(k) => a.lock[this_task(k)] > 0)
  BY <1>1 DEF Tuned, Sound, Consistent, IdleReady, PendingReleased
<1> QED  BY <1>1, <1>2, Tune

\* sched_roundrobin_process
LEMMA RoundRobin ==
  ASSUME NEW k, Sound(k), this_task(k) \in k.rr
  PROVE  /\ QuietStep(k, sched_roundrobin_process(k))
         /\ k.lock[this_task(k)] > 0 => this_task(sched_roundrobin_process(k)) = this_task(k)
<1> DEFINE r == this_task(k)
           left == IF k.slice[r] > 0 THEN k.slice[r] - 1 ELSE 0
           a == [k EXCEPT !.slice[r] = RR_TICKS]
           c == [k EXCEPT !.slice[r] = left]
           R == k.list["READYTORUN"]
<1>1. /\ r \in Task \ {IDLE} /\ k \in KernelState /\ Consistent(k) /\ k.state[r] = "RUNNING"
      /\ left \in 0..RR_TICKS /\ RR_TICKS \in 0..RR_TICKS
  <2>1. r \in Task \ {IDLE} /\ k \in KernelState /\ Consistent(k) /\ k.state[r] = "RUNNING"
    BY ReadyHead DEF Sound, Consistent, IdleReady, HeadRuns
  <2>2. k.slice[r] \in 0..RR_TICKS
    BY <2>1 DEF KernelState
  <2> QED  BY <2>1, <2>2, KernelAssumption
<1>2. sched_roundrobin_process(k)
        = IF left > 0 \/ k.lock[r] > 0 THEN c
          ELSE IF Len(R) > 1 /\ k.prio[R[2]] >= k.prio[r] THEN up_reprioritize_rtr(a, r, k.prio[r])
          ELSE a
  BY DEF sched_roundrobin_process
<1>3. QuietStep(k, c) /\ c.list = k.list
  BY <1>1, SliceSound
<1>4. QuietStep(k, a) /\ a.list = k.list /\ a.state = k.state /\ a.prio = k.prio
  BY <1>1, SliceSound
<1> HIDE DEF a, c, left
<1>5. ASSUME Len(R) > 1 /\ k.prio[R[2]] >= k.prio[r]
      PROVE  QuietStep(k, up_reprioritize_rtr(a, r, k.prio[r]))
  <2>1. k.prio[r] \in Priority /\ k.prio[r] \in Int
    BY <1>1, KernelAssumption DEF Consistent, PrioritiesValid, Priority, SCHED_PRIORITY_MIN
  <2>2. R[2] \in Task
    BY <1>1, SecondReady DEF this_task
  <2>3. k.prio[R[2]] \in Int
    BY <1>1, <2>2, KernelAssumption DEF KernelState
  <2>4. Requeueable(a, r, k.prio[r])
    BY <1>1, <1>4, <1>5, <2>1, <2>3 DEF Requeueable, QuietStep, SoundStep
  <2>5. QuietStep(a, up_reprioritize_rtr(a, r, k.prio[r]))
    BY <2>4, ReprioritizeReady DEF PriorityChanged
  <2> QED  BY <1>4, <2>5, QuietChain DEF QuietStep, SoundStep
<1> QED  BY <1>2, <1>3, <1>4, <1>5 DEF this_task

\* A task that is being deleted, and does not run, is taken off its list.
LEMMA TakeOffSound ==
  ASSUME NEW k, Sound(k), NEW t, Removable(k, t)
  PROVE  Sound(TakeOffList(k, t)) /\ TakenOff(k, t, TakeOffList(k, t))
<1> DEFINE a == TakeOffList(k, t)
<1>1. TakenOff(k, t, a)
  BY TakeOff
<1> HIDE DEF a
<1>2. this_task(k) \in Task /\ this_task(k) # t
  BY ReadyHead DEF Sound, Removable
<1>3. HeadRuns(a) /\ PendingReleased(a)
  BY <1>1, <1>2 DEF TakenOff, Sound, HeadRuns, PendingReleased, SameFields
<1> QED  BY <1>1, <1>3 DEF TakenOff, Sound, a

\* sched_releasetcb
LEMMA ReleaseTcb ==
  ASSUME NEW k, Consistent(k), NEW t \in Task \ {IDLE}, k.state[t] = "INVALID"
  PROVE  LET a == sched_releasetcb(k, t) IN
         /\ Consistent(a) /\ SameHead(k, a) /\ a.state = k.state /\ a.list = k.list
         /\ a.lock = [k.lock EXCEPT ![t] = 0]
<1> DEFINE a == sched_releasetcb(k, t)
<1>1. k \in KernelState /\ 0 \in 0..SCHED_PRIORITY_MAX /\ 0 \in 0..RR_TICKS
  BY KernelAssumption DEF Consistent
<1>2. /\ a \in KernelState /\ a.list = k.list /\ a.state = k.state
      /\ a.prio = [k.prio EXCEPT ![t] = 0] /\ a.init = [k.init EXCEPT ![t] = 0]
      /\ a.lock = [k.lock EXCEPT ![t] = 0] /\ a.rr = k.rr \ {t}
  BY <1>1 DEF sched_releasetcb, KernelState
<1>3. k.prio \in [Task -> 0..SCHED_PRIORITY_MAX] /\ k.init \in [Task -> 0..SCHED_PRIORITY_MAX]
  BY <1>1 DEF KernelState
<1> HIDE DEF a
<1>4. Retuned(k, a)
  BY <1>2, <1>3 DEF Retuned, Consistent, IdleReady
<1>5. Consistent(a) /\ SameHead(k, a)
  BY <1>4, Retune
<1> QED  BY <1>2, <1>5 DEF a

\* A TCB that is off every list gets its fields and goes to g_inactivetasks.
Initialized(k, t, c) ==
  /\ c \in KernelState /\ c.list = k.list /\ c.state = k.state /\ IDLE \notin c.rr
  /\ c.prio[t] \in Priority /\ c.init[t] \in Priority
  /\ \A u \in Task \ {t} : /\ c.prio[u] = k.prio[u] /\ c.init[u] = k.init[u]
                           /\ c.lock[u] = k.lock[u]

MadeInactive(k, t, a) ==
  Sound(a) /\ a.state = [k.state EXCEPT ![t] = "INACTIVE"] /\ this_task(a) = this_task(k)

\* A TCB that is initialized off the lists goes to g_inactivetasks.
LEMMA MakeInactive ==
  ASSUME NEW k, Sound(k), NEW t \in Task \ {IDLE}, k.state[t] = "INVALID",
         NEW c, Initialized(k, t, c)
  PROVE  MadeInactive(k, t, AddInactive(c, t))
<1> DEFINE a == AddInactive(c, t)
<1>1. Consistent(c) /\ SameHead(k, c)
  <2>1. Retuned(k, c)
    BY DEF Retuned, Initialized, Sound
  <2> QED  BY <2>1, Retune
<1>2. Addable(c, t)
  BY <1>1 DEF Addable, Initialized
<1>3. Blocked(c, t, "INACTIVE", a)
  BY <1>2, PutInactive
<1> HIDE DEF a
<1>4. this_task(k) \in Task /\ this_task(k) # t /\ k.state \in [Task -> TaskState]
  BY ReadyHead DEF Sound, HeadRuns, Consistent, KernelState
<1>5. this_task(a) = this_task(k) /\ a.lock[this_task(k)] = k.lock[this_task(k)]
      /\ (Pending(a) <=> Pending(k)) /\ a.state = [k.state EXCEPT ![t] = "INACTIVE"]
  BY <1>1, <1>3, <1>4 DEF Blocked, SameHead, SameFields, Initialized, Pending
<1>6. HeadRuns(a) /\ PendingReleased(a)
  BY <1>4, <1>5 DEF Sound, HeadRuns, PendingReleased
<1> QED  BY <1>3, <1>5, <1>6 DEF Blocked, Sound, MadeInactive, a

\* The critical section of task_restart.
LEMMA RestartSound ==
  ASSUME NEW k, Sound(k), NEW t, Removable(k, t)
  PROVE  MadeInactive(k, t, Restarted(k, t))
<1> DEFINE b == TakeOffList(k, t)
           c == [b EXCEPT !.prio[t] = k.init[t], !.lock[t] = 0]
<1>1. Sound(b) /\ TakenOff(k, t, b)
  BY TakeOffSound
<1>2. Restarted(k, t) = AddInactive(c, t)
  BY DEF Restarted
<1> HIDE DEF b
<1>3. t \in Task \ {IDLE} /\ b \in KernelState /\ k.init[t] \in Priority /\ SameFields(k, b)
  BY <1>1 DEF Removable, TakenOff, Consistent, PrioritiesValid
<1>4. k.init[t] \in 0..SCHED_PRIORITY_MAX /\ k.state \in [Task -> TaskState] /\ b.init[t] \in Priority
  BY <1>1, <1>3, KernelAssumption DEF Priority, SCHED_PRIORITY_MIN, TakenOff, SameFields
<1>5. /\ c \in KernelState /\ c.list = b.list /\ c.state = b.state /\ c.rr = b.rr
      /\ c.prio = [b.prio EXCEPT ![t] = k.init[t]] /\ c.init = b.init
      /\ c.lock = [b.lock EXCEPT ![t] = 0]
      /\ b.prio \in [Task -> 0..SCHED_PRIORITY_MAX] /\ b.lock \in [Task -> Nat]
  BY <1>3, <1>4 DEF KernelState
<1> HIDE DEF c
<1>6. Initialized(b, t, c)
  BY <1>1, <1>3, <1>4, <1>5 DEF Initialized, Sound, Consistent, IdleReady
<1>7. b.state = [k.state EXCEPT ![t] = "INVALID"]
  BY <1>1 DEF TakenOff
<1>8. b.state[t] = "INVALID"
  BY <1>3, <1>4, <1>7
<1>9. /\ Sound(AddInactive(c, t)) /\ AddInactive(c, t).state = [b.state EXCEPT ![t] = "INACTIVE"]
      /\ this_task(AddInactive(c, t)) = this_task(k)
  BY <1>1, <1>3, <1>6, <1>8, MakeInactive DEF TakenOff, MadeInactive
<1>10. [b.state EXCEPT ![t] = "INACTIVE"] = [k.state EXCEPT ![t] = "INACTIVE"]
  BY <1>4, <1>7
<1> QED  BY <1>2, <1>9, <1>10 DEF MadeInactive

\* The TCB of a new task, before it is linked.
NewTcb(k, t, p, q, n) == [k EXCEPT !.prio[t] = p, !.init[t] = p, !.rr = q, !.slice[t] = n]

\* task_create up to task_activate.
LEMMA CreateSound ==
  ASSUME NEW k, Sound(k), NEW t \in Task \ {IDLE}, k.state[t] = "INVALID",
         NEW p \in Priority, NEW q \in SUBSET Task, IDLE \notin q, NEW n \in 0..RR_TICKS
  PROVE  MadeInactive(k, t, AddInactive(NewTcb(k, t, p, q, n), t))
<1> DEFINE c == NewTcb(k, t, p, q, n)
<1>1. k \in KernelState /\ p \in 0..SCHED_PRIORITY_MAX
  BY KernelAssumption DEF Sound, Consistent, Priority, SCHED_PRIORITY_MIN
<1>2. /\ c \in KernelState /\ c.list = k.list /\ c.state = k.state /\ c.rr = q
      /\ c.prio = [k.prio EXCEPT ![t] = p] /\ c.init = [k.init EXCEPT ![t] = p]
      /\ c.lock = k.lock
      /\ k.prio \in [Task -> 0..SCHED_PRIORITY_MAX] /\ k.init \in [Task -> 0..SCHED_PRIORITY_MAX]
  BY <1>1 DEF KernelState, NewTcb
<1> HIDE DEF c
<1>3. Initialized(k, t, c)
  BY <1>2 DEF Initialized
<1>4. MadeInactive(k, t, AddInactive(c, t))
  BY <1>3, MakeInactive
<1> QED  BY <1>4 DEF c

\* The state of the head is switched between RUNNING and READYTORUN.
Restated(k, a) ==
  /\ Consistent(k) /\ a \in KernelState /\ a.list = k.list
  /\ a.prio = k.prio /\ a.init = k.init /\ a.rr = k.rr
  /\ \A u \in Task : TLIST_HEAD(a.state[u]) = TLIST_HEAD(k.state[u])
  /\ OnlyHeadRuns(a)

\* Switching the state of the head keeps the lists consistent.
LEMMA Restate ==
  ASSUME NEW k, NEW a, Restated(k, a)
  PROVE  Consistent(a) /\ this_task(a) = this_task(k) /\ SameListed(k, a)
<1> USE DEF Restated
<1>1. ListsHold(a) /\ PrioritizedSorted(a) /\ this_task(a) = this_task(k)
  BY DEF Consistent, ListsHold, PrioritizedSorted, On, this_task
<1>2. SameListed(k, a)
  BY DEF SameListed, TLIST_HEAD
<1>3. IdleReady(a)
  <2>1. TLIST_HEAD(a.state[IDLE]) = "READYTORUN"
    BY KernelAssumption DEF Consistent, IdleReady, TLIST_HEAD
  <2> QED  BY <2>1 DEF Consistent, IdleReady, TLIST_HEAD
<1>4. PrioritiesValid(a)
  BY <1>2 DEF Consistent, PrioritiesValid, SameListed
<1> QED  BY <1>1, <1>2, <1>3, <1>4 DEF Consistent

\* The exiting task t is off every list, r is next, and nothing else changed.
Leaving(k, t, r, c) ==
  /\ Consistent(c) /\ this_task(c) = r /\ r \in Task \ {t} /\ c.lock[r] > 0
  /\ c.state[t] = "INVALID" /\ c.state[r] = "READYTORUN"
  /\ \A u \in Task \ {t} : TLIST_HEAD(c.state[u]) = TLIST_HEAD(k.state[u])

\* task_exit before task_exithook.
LEMMA ExitBegins ==
  ASSUME NEW k, Sound(k), NEW t, t = this_task(k), t # IDLE,
         NEW a, a = sched_removereadytorun(k, t), NEW r, r = this_task(a),
         NEW x, x = [a EXCEPT !.lock[r] = @ + 1, !.state[r] = "READYTORUN"]
  PROVE  Leaving(k, t, r, TakeOffList(sched_addblocked(x, t, "INACTIVE"), t))
<1> DEFINE b == sched_addblocked(x, t, "INACTIVE")
           c == TakeOffList(b, t)
<1>1. t \in Task \ {IDLE} /\ k.state[t] = "RUNNING" /\ Consistent(k) /\ HeadRuns(k)
  BY ReadyHead DEF Sound, HeadRuns
<1>2. RemovedReady(k, t, a)
  <2>1. RemovableReady(k, t)
    BY <1>1 DEF RemovableReady
  <2> QED  BY <2>1, RemoveReady
<1>3. /\ Consistent(a) /\ a \in KernelState /\ r \in Task \ {t} /\ a.state[r] = "RUNNING"
      /\ a.state[t] = "INVALID" /\ a.lock \in [Task -> Nat] /\ a.state \in [Task -> TaskState]
  BY <1>1, <1>2, ReadyHead DEF RemovedReady, HeadRuns, Consistent, KernelState
<1>4. /\ x \in KernelState /\ x.list = a.list /\ x.state = [a.state EXCEPT ![r] = "READYTORUN"]
      /\ x.prio = a.prio /\ x.init = a.init /\ x.rr = a.rr /\ x.lock[r] > 0
  <2> DEFINE n == a.lock[r] + 1
  <2>1. n \in Nat /\ n > 0 /\ "READYTORUN" \in TaskState
    BY <1>3 DEF TaskState, ListName
  <2>2. x = [a EXCEPT !.lock[r] = n, !.state[r] = "READYTORUN"]
    OBVIOUS
  <2> HIDE DEF n
  <2>3. x = [a EXCEPT !.lock = [a.lock EXCEPT ![r] = n],
                      !.state = [a.state EXCEPT ![r] = "READYTORUN"]]
    BY <2>2
  <2>4. /\ [a.lock EXCEPT ![r] = n] \in [Task -> Nat] /\ [a.lock EXCEPT ![r] = n][r] = n
        /\ [a.state EXCEPT ![r] = "READYTORUN"] \in [Task -> TaskState]
    BY <1>3, <2>1
  <2> DEFINE L == [a.lock EXCEPT ![r] = n]
             S == [a.state EXCEPT ![r] = "READYTORUN"]
  <2>5. x = [a EXCEPT !.lock = L, !.state = S] /\ L[r] = n /\ L \in [Task -> Nat]
        /\ S \in [Task -> TaskState]
    BY <2>3, <2>4
  <2>6. S = [a.state EXCEPT ![r] = "READYTORUN"]
    OBVIOUS
  <2> HIDE DEF L, S
  <2>7. x \in KernelState /\ x.lock = L /\ x.state = S
    BY <1>3, <2>5 DEF KernelState
  <2>8. x.list = a.list /\ x.prio = a.prio /\ x.init = a.init /\ x.rr = a.rr
    BY <1>3, <2>5 DEF KernelState
  <2> QED  BY <2>1, <2>5, <2>6, <2>7, <2>8
<1>5. Consistent(x) /\ this_task(x) = r
  <2>1. \A u \in Task : TLIST_HEAD(x.state[u]) = TLIST_HEAD(a.state[u])
    BY <1>3, <1>4 DEF TLIST_HEAD
  <2>2. this_task(x) = r
    BY <1>4 DEF this_task
  <2>3. OnlyHeadRuns(x)
    BY <1>3, <1>4, <2>2 DEF OnlyHeadRuns, Consistent
  <2>4. Restated(a, x)
    BY <1>3, <1>4, <2>1, <2>3 DEF Restated
  <2> QED  BY <2>2, <2>4, Restate
<1>6. Addable(x, t)
  <2>1. a.prio = k.prio /\ a.init = k.init
    BY <1>2 DEF RemovedReady, SameFields
  <2>2. k.prio[t] \in Priority /\ k.init[t] \in Priority
    BY <1>1 DEF Consistent, PrioritiesValid
  <2>3. x.prio[t] \in Priority /\ x.init[t] \in Priority
    BY <1>4, <2>1, <2>2
  <2>4. x.state[t] = "INVALID"
    BY <1>1, <1>3, <1>4
  <2> QED  BY <1>1, <1>5, <2>3, <2>4 DEF Addable
<1>7. Blocked(x, t, "INACTIVE", b)
  <2>1. "INACTIVE" \in BlockedState
    BY DEF BlockedState
  <2> QED  BY <1>6, <2>1, AddBlocked
<1> HIDE DEF b
<1>8. Removable(b, t) /\ b.state[t] = "INACTIVE"
  BY <1>1, <1>3, <1>5, <1>7 DEF Removable, Blocked
<1>9. TakenOff(b, t, c)
  BY <1>8, TakeOff
<1> HIDE DEF c
<1>10. this_task(c) = r /\ c.lock[r] > 0
  BY <1>4, <1>5, <1>7, <1>9 DEF Blocked, TakenOff, SameFields
<1>11. c.state[t] = "INVALID" /\ \A u \in Task \ {t} : c.state[u] = x.state[u]
  BY <1>1, <1>7, <1>9 DEF Blocked, TakenOff
<1>12. /\ x.state[r] = "READYTORUN"
       /\ \A u \in Task \ {t} : TLIST_HEAD(x.state[u]) = TLIST_HEAD(k.state[u])
  BY <1>2, <1>3, <1>4 DEF RemovedReady, SameLists, TLIST_HEAD
<1>13. Leaving(k, t, r, c)
  BY <1>3, <1>9, <1>10, <1>11, <1>12 DEF Leaving, TakenOff
<1> QED  BY <1>13 DEF c, b

\* d differs from c by the task that task_exithook woke.
StillLeaving(c, t, r, w, d) ==
  /\ Consistent(d) /\ this_task(d) = r /\ d.lock[r] > 0
  /\ d.state[t] = "INVALID" /\ d.state[r] = "READYTORUN"
  /\ SameListed(c, d) /\ SameBlocked(c, d, {w})

\* A task woken by task_exithook does not become the head.
LEMMA ExitWakesOne ==
  ASSUME NEW k, NEW t, NEW r, NEW c, Leaving(k, t, r, c), NEW w \in Task, k.state[w] = "WAIT_SEM",
         t \in Task, k.state[t] = "RUNNING"
  PROVE  StillLeaving(c, t, r, w, up_unblock_task(c, w))
<1> DEFINE b == TakeOffList(c, w)
           d == up_unblock_task(c, w)
<1>1. w # t /\ c.state[w] = "WAIT_SEM" /\ w # r /\ c.state[w] \in BlockedState
  BY DEF Leaving, TLIST_HEAD, BlockedState
<1>2. TakenOff(c, w, b) /\ AddedReady(b, w, d)
  BY <1>1, UnblockTask DEF Leaving
<1> HIDE DEF b, d
<1>3. this_task(b) = r /\ b.lock = c.lock /\ b.state = [c.state EXCEPT ![w] = "INVALID"]
      /\ c.state \in [Task -> TaskState]
  BY <1>2 DEF TakenOff, Leaving, SameFields
<1>4. this_task(d) = r /\ (\A u \in Task \ {w} : d.state[u] = b.state[u]) /\ d.lock = c.lock
      /\ d.state[w] # "INVALID" /\ Consistent(d)
  BY <1>2, <1>3 DEF AddedReady, Leaving, SameFields
<1>5. \A u \in Task \ {w} : d.state[u] = c.state[u]
  BY <1>3, <1>4
<1>6. StillLeaving(c, t, r, w, d)
  BY <1>1, <1>4, <1>5 DEF Leaving, SameListed, SameBlocked, StillLeaving
<1> QED  BY <1>6 DEF d

\* The end of task_exit, up to the merge: the TCB is freed and r runs.
LEMMA ExitEnds ==
  ASSUME NEW d, NEW t \in Task \ {IDLE}, NEW r \in Task \ {t},
         Consistent(d), this_task(d) = r, d.lock[r] > 0,
         d.state[t] = "INVALID", d.state[r] = "READYTORUN",
         NEW e, e = sched_releasetcb(d, t),
         NEW f, f = [e EXCEPT !.state[r] = "RUNNING", !.lock[r] = @ - 1]
  PROVE  /\ Consistent(f) /\ HeadRuns(f) /\ SameListed(d, f) /\ SameBlocked(d, f, {})
         /\ f.list = d.list /\ f.prio = e.prio
<1>1. /\ Consistent(e) /\ SameHead(d, e) /\ e.state = d.state /\ e.list = d.list
      /\ e.lock = [d.lock EXCEPT ![t] = 0]
  BY ReleaseTcb
<1>2. /\ e \in KernelState /\ e.lock[r] \in Nat /\ e.lock[r] > 0 /\ e.state \in [Task -> TaskState]
      /\ this_task(e) = r
  <2>1. e \in KernelState /\ d \in KernelState /\ this_task(e) = r
    BY <1>1 DEF Consistent, SameHead
  <2>2. d.lock \in [Task -> Nat] /\ e.lock \in [Task -> Nat] /\ e.state \in [Task -> TaskState]
    BY <2>1 DEF KernelState
  <2> QED  BY <1>1, <2>1, <2>2
<1>3. /\ f \in KernelState /\ f.list = e.list /\ f.prio = e.prio /\ f.init = e.init
      /\ f.rr = e.rr /\ f.state = [e.state EXCEPT ![r] = "RUNNING"]
  <2> DEFINE n == e.lock[r] - 1
  <2>1. n \in Nat /\ "RUNNING" \in TaskState
    BY <1>2 DEF TaskState
  <2>2. f = [e EXCEPT !.state[r] = "RUNNING", !.lock[r] = n]
    OBVIOUS
  <2>3. r \in Task
    OBVIOUS
  <2> HIDE DEF n
  <2> QED  BY ONLY <1>2, <2>1, <2>2, <2>3 DEF KernelState
<1>4. this_task(f) = r
  BY <1>2, <1>3 DEF this_task
<1>5. Restated(e, f)
  <2>1. \A u \in Task : TLIST_HEAD(f.state[u]) = TLIST_HEAD(e.state[u])
    BY <1>1, <1>2, <1>3 DEF TLIST_HEAD
  <2>2. OnlyHeadRuns(f)
    BY <1>1, <1>2, <1>3, <1>4 DEF OnlyHeadRuns, Consistent
  <2> QED  BY <1>1, <1>3, <2>1, <2>2 DEF Restated
<1>6. SameBlocked(e, f, {})
  BY <1>5, ListsBlocked DEF Restated
<1>7. Consistent(f) /\ SameListed(e, f) /\ HeadRuns(f)
  BY <1>2, <1>3, <1>4, <1>5, Restate DEF HeadRuns
<1> QED  BY <1>1, <1>3, <1>6, <1>7 DEF SameListed, SameBlocked

\* task_exit as a whole: the caller is off the lists, the others stay on theirs.
LEMMA ExitSound ==
  ASSUME NEW k, Sound(k), this_task(k) # IDLE, NEW W,
         \A w \in W : w \in Task /\ k.state[w] = "WAIT_SEM"
  PROVE  /\ Sound(task_exit(k, W))
         /\ \A u \in Task : task_exit(k, W).state[u] = "INVALID" <=>
                              u = this_task(k) \/ k.state[u] = "INVALID"
         /\ SameBlocked(k, task_exit(k, W), W \union {this_task(k)})
<1> DEFINE t == this_task(k)
           a == sched_removereadytorun(k, t)
           r == this_task(a)
           x == [a EXCEPT !.lock[r] = @ + 1, !.state[r] = "READYTORUN"]
           c == TakeOffList(sched_addblocked(x, t, "INACTIVE"), t)
           d == IF W = {} THEN c ELSE up_unblock_task(c, CHOOSE w \in W : TRUE)
           e == sched_releasetcb(d, t)
           f == [e EXCEPT !.state[r] = "RUNNING", !.lock[r] = @ - 1]
<1>1. t \in Task \ {IDLE} /\ k.state[t] = "RUNNING"
  BY ReadyHead DEF Sound, HeadRuns
<1>2. Leaving(k, t, r, c)
  BY ExitBegins
<1>3. task_exit(k, W) = MergeIfPending(f)
  BY DEF task_exit
<1> HIDE DEF a, r, x, c
<1>4. /\ Consistent(d) /\ this_task(d) = r /\ d.lock[r] > 0 /\ r \in Task \ {t}
      /\ d.state[t] = "INVALID" /\ d.state[r] = "READYTORUN" /\ SameListed(c, d)
      /\ SameBlocked(c, d, W)
  <2>1. CASE W = {}
    BY <1>2, <2>1 DEF Leaving, SameListed, SameBlocked
  <2>2. CASE W # {}
    <3> DEFINE w == CHOOSE y \in W : TRUE
    <3>1. w \in Task /\ k.state[w] = "WAIT_SEM"
      <4>1. w \in W
        BY <2>2
      <4> QED  BY <4>1
    <3>2. d = up_unblock_task(c, w)
      BY <2>2
    <3>3. t \in Task
      BY <1>1
    <3>4. w \in W
      BY <2>2
    <3> HIDE DEF w, t, d
    <3>5. StillLeaving(c, t, r, w, up_unblock_task(c, w))
      BY <1>1, <1>2, <3>1, <3>3, ExitWakesOne
    <3>6. r \in Task \ {t}
      BY <1>2 DEF Leaving
    <3>7. SameBlocked(c, d, W)
      BY <3>2, <3>4, <3>5 DEF StillLeaving, SameBlocked
    <3> QED  BY <3>2, <3>5, <3>6, <3>7 DEF StillLeaving
  <2> QED  BY <2>1, <2>2
<1> HIDE DEF d
<1>5. Consistent(f) /\ HeadRuns(f) /\ SameListed(d, f) /\ SameBlocked(d, f, {})
  <2> HIDE DEF t, e, f
  <2> QED  BY <1>1, <1>4, ExitEnds DEF e, f
<1> HIDE DEF e, f
<1>6. MergedInto(f, MergeIfPending(f))
  BY <1>5, MergeWhenPending
<1>7. Sound(MergeIfPending(f)) /\ SameListed(c, MergeIfPending(f))
  <2>1. SameListed(c, f)
    BY <1>4, <1>5, ListedChain
  <2> QED  BY <1>6, <2>1, ListedChain DEF MergedInto, Sound, PendingReleased
<1>8. \A u \in Task : c.state[u] = "INVALID" <=> u = t \/ k.state[u] = "INVALID"
  BY <1>1, <1>2 DEF Leaving, TLIST_HEAD
<1>9. SameBlocked(k, MergeIfPending(f), W \union {t})
  <2>1. SameBlocked(k, c, {t})
    BY <1>2, ListsBlocked DEF Leaving
  <2>2. SameBlocked(c, d, W)
    BY <1>4
  <2>3. SameBlocked(f, MergeIfPending(f), {})
    BY <1>6 DEF MergedInto
  <2> QED  BY <1>5, <2>1, <2>2, <2>3 DEF SameBlocked
<1> QED  BY <1>3, <1>7, <1>8, <1>9 DEF SameListed

\* The tasks of the list B, started in that order with the priorities P.
BootOrder(B, P) ==
  /\ B \in Seq(Task) \ {<<>>} /\ B[Len(B)] = IDLE
  /\ P \in [Task -> 0..SCHED_PRIORITY_MAX] /\ P[IDLE] = 0
  /\ \A t \in Task \ {IDLE} : InList(B, t) => P[t] \in Priority
  /\ \A i, j \in 1..Len(B) : i < j => B[i] # B[j] /\ P[B[i]] >= P[B[j]]

BootState(B) ==
  [t \in Task |-> IF t = B[1] THEN "RUNNING" ELSE IF InList(B, t) THEN "READYTORUN" ELSE "INVALID"]

Booted(B, P) ==
  [os_start EXCEPT !.list["READYTORUN"] = B, !.prio = P, !.init = P, !.state = BootState(B)]

\* A system that starts with such a list starts sound.
LEMMA BootSound ==
  ASSUME NEW B, NEW P, BootOrder(B, P)
  PROVE  /\ Sound(Booted(B, P)) /\ Booted(B, P).state = BootState(B)
<1> USE KernelAssumption
<1> DEFINE s == Booted(B, P)
<1>1. /\ s.list = [l \in ListName |-> IF l = "READYTORUN" THEN B ELSE <<>>]
      /\ s.state = BootState(B) /\ s.prio = P /\ s.init = P
      /\ s.lock = [t \in Task |-> 0] /\ s.slice = [t \in Task |-> 0] /\ s.rr = {}
  BY DEF Booted, os_start
<1>2. /\ B \in Seq(Task) /\ Len(B) \in Nat \ {0} /\ B \in [1..Len(B) -> Task]
      /\ P \in [Task -> 0..SCHED_PRIORITY_MAX]
  <2>1. B \in Seq(Task) /\ B # <<>> /\ P \in [Task -> 0..SCHED_PRIORITY_MAX]
    BY DEF BootOrder
  <2> QED  BY <2>1, LenProperties, EmptySeq
<1>3. B[1] \in Task /\ InList(B, B[1]) /\ InList(B, IDLE)
  <2>1. 1 \in 1..Len(B) /\ Len(B) \in 1..Len(B)
    BY <1>2
  <2> QED  BY <1>2, <2>1 DEF InList, BootOrder
<1>4. s \in KernelState
  <2>1. s.list \in [ListName -> Seq(Task)]
    BY <1>1, <1>2
  <2>2. s.state \in [Task -> TaskState]
    BY <1>1 DEF TaskState, BootState, ListName
  <2>3. /\ s.prio \in [Task -> 0..SCHED_PRIORITY_MAX] /\ s.init \in [Task -> 0..SCHED_PRIORITY_MAX]
        /\ s.lock \in [Task -> Nat] /\ s.slice \in [Task -> 0..RR_TICKS] /\ s.rr \subseteq Task
    BY <1>1, <1>2
  <2>4. os_start \in KernelState
    <3> DEFINE f == [l \in ListName |-> IF l = "READYTORUN" THEN <<IDLE>> ELSE <<>>]
               g == [t \in Task |-> IF t = IDLE THEN "RUNNING" ELSE "INVALID"]
               n == [t \in Task |-> 0]
    <3>1. f \in [ListName -> Seq(Task)] /\ g \in [Task -> TaskState]
      BY DEF TaskState
    <3>2. n \in [Task -> 0..SCHED_PRIORITY_MAX] /\ n \in [Task -> Nat] /\ n \in [Task -> 0..RR_TICKS]
      OBVIOUS
    <3>3. os_start = [list |-> f, state |-> g, prio |-> n, init |-> n, lock |-> n, slice |-> n, rr |-> {}]
      BY DEF os_start
    <3> HIDE DEF f, g, n
    <3> QED  BY <3>1, <3>2, <3>3 DEF KernelState
  <2>5. s = [os_start EXCEPT !.list = s.list, !.prio = P, !.init = P, !.state = s.state]
    BY <1>1, <2>4 DEF Booted, KernelState
  <2> HIDE DEF s
  <2> QED  BY <1>1, <2>1, <2>2, <2>3, <2>4, <2>5 DEF KernelState
<1> HIDE DEF s
<1>5. /\ "READYTORUN" \in ListName /\ "PENDING" \in ListName
      /\ s.list["READYTORUN"] = B /\ s.list["PENDING"] = <<>> /\ this_task(s) = B[1]
  BY <1>1 DEF this_task, ListName
<1>6. ListsHold(s)
  <2> SUFFICES ASSUME NEW l \in ListName PROVE Lists(s.list[l], On(s, l))
    BY DEF ListsHold
  <2>1. CASE l = "READYTORUN"
    <3>1. \A t \in Task : t \in On(s, l) <=> InList(B, t)
      BY <1>1, <1>3, <2>1 DEF On, TLIST_HEAD, BootState
    <3>2. \A i, j \in 1..Len(B) : B[i] = B[j] => i = j
      BY <1>2 DEF BootOrder
    <3> QED  BY <1>2, <1>5, <2>1, <3>1, <3>2 DEF Lists
  <2>2. CASE l # "READYTORUN"
    <3>1. l # "INVALID"
      BY DEF ListName, BlockedState
    <3>2. On(s, l) = {} /\ s.list[l] = <<>>
      <4>1. s.list[l] = <<>>
        BY <1>1, <2>2
      <4>2. \A t \in Task : TLIST_HEAD(s.state[t]) \in {"READYTORUN", "INVALID"}
        BY <1>1 DEF TLIST_HEAD, BootState
      <4> QED  BY <2>2, <3>1, <4>1, <4>2 DEF On
    <3> DEFINE m == s.list[l]
    <3>3. m \in Seq(Task) /\ Len(m) = 0 /\ On(s, l) = {}
      BY <3>2
    <3> HIDE DEF m
    <3>4. Lists(m, On(s, l))
      BY <3>3 DEF Lists, InList
    <3> QED  BY <3>4 DEF m
  <2> QED  BY <2>1, <2>2
<1>7. PrioritizedSorted(s)
  <2> SUFFICES ASSUME NEW l \in ListName PROVE Sorted(s.list[l], s.prio)
    BY DEF PrioritizedSorted
  <2>1. CASE l = "READYTORUN"
    BY <1>1, <1>5, <2>1 DEF Sorted, BootOrder
  <2>2. CASE l # "READYTORUN"
    <3>1. Len(s.list[l]) = 0
      BY <1>1, <2>2
    <3> QED  BY <3>1 DEF Sorted
  <2> QED  BY <2>1, <2>2
<1>8. Consistent(s)
  <2>1. IdleReady(s)
    BY <1>1, <1>3 DEF IdleReady, BootState, BootOrder
  <2>2. PrioritiesValid(s)
    <3> SUFFICES ASSUME NEW t \in Task \ {IDLE}, s.state[t] # "INVALID"
                 PROVE  P[t] \in Priority
      BY <1>1 DEF PrioritiesValid
    <3>1. InList(B, t)
      BY <1>1, <1>3 DEF BootState
    <3> QED  BY <3>1 DEF BootOrder
  <2>3. OnlyHeadRuns(s)
    BY <1>1, <1>5 DEF OnlyHeadRuns, BootState
  <2> QED  BY <1>4, <1>6, <1>7, <2>1, <2>2, <2>3 DEF Consistent
<1>9. Sound(s)
  BY <1>1, <1>3, <1>5, <1>8 DEF Sound, HeadRuns, PendingReleased, Pending, BootState
<1> QED  BY <1>1, <1>9 DEF s
=============================================================================
