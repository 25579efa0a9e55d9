------------------------- MODULE MergePendingProofs -------------------------
(***************************************************************************)
(* The loop of sched_mergepending computes the closed form Merged that the *)
(* other modules use, for lists of any length: behind its cursor the list  *)
(* is the merged one, in front of it still the old one.                    *)
(***************************************************************************)
EXTENDS MergePending, KernelProofs, FiniteSetTheorems

\* The tasks of a list.
Of(l) == {t \in Task : InList(l, t)}

\* The lists as sched_mergepending finds them.
Input ==
  /\ MergeInput(P0, R0, Of(P0), Of(R0), prio)
  /\ Len(R0) > 0 /\ R0[Len(R0)] = IDLE
  /\ \A t \in Task : prio[t] = 0 <=> t = IDLE

\* The place of the pending task that was moved last.
LastPlace == IF ptcb = 0 THEN 0 ELSE MergedPos(P0, R0, prio, ptcb)

\* The loop invariant.
Walked ==
  /\ ptcb \in 0..Len(P0)
  /\ ready \in Seq(Task) /\ Len(ready) = ptcb + Len(R0)
  /\ \A n \in 1..LastPlace : ready[n] = Merged(P0, R0, prio)[n]
  /\ \A n \in (LastPlace + 1)..Len(ready) : ready[n] = R0[n - ptcb]
  /\ rtcb = IF ptcb = 0 THEN 1 ELSE LastPlace
  /\ ret \in BOOLEAN /\ (ret <=> ptcb > 0 /\ MergedPos(P0, R0, prio, 1) = 1)

LoopInv == Input /\ Walked

\* The two parts of a sequence without repetitions.
LEMMA Halves ==
  ASSUME NEW N \in Nat, NEW s \in [1..N -> Task], \A i, j \in 1..N : s[i] = s[j] => i = j,
         NEW n \in 0..N, NEW P, P = SubSeq(s, 1, n), NEW R, R = SubSeq(s, n + 1, N)
  PROVE  /\ Lists(P, Of(P)) /\ Lists(R, Of(R)) /\ Of(P) \cap Of(R) = {}
         /\ Len(R) = N - n
<1>1. s \in Seq(Task) /\ Len(s) = N
  BY FcnIsSeq
<1>2. P \in Seq(Task) /\ Len(P) = n /\ \A i \in 1..n : P[i] = s[i]
  BY <1>1, SubSeqProperties
<1>3. R \in Seq(Task) /\ Len(R) = N - n /\ \A i \in 1..(N - n) : R[i] = s[n + i]
  BY <1>1, SubSeqProperties
<1>4. Lists(P, Of(P))
  BY <1>2 DEF Lists, Of
<1>5. Lists(R, Of(R))
  <2>1. ASSUME NEW i \in 1..(N - n), NEW j \in 1..(N - n), R[i] = R[j] PROVE i = j
    <3>1. n + i \in 1..N /\ n + j \in 1..N /\ s[n + i] = s[n + j]
      BY <1>3, <2>1
    <3>2. n + i = n + j
      BY <3>1
    <3> QED  BY <3>2
  <2> QED  BY <1>3, <2>1 DEF Lists, Of
<1>6. Of(P) \cap Of(R) = {}
  <2> SUFFICES ASSUME NEW i \in 1..n, NEW j \in 1..(N - n), P[i] = R[j] PROVE FALSE
    BY <1>2, <1>3 DEF Of, InList
  <2>1. i \in 1..N /\ n + j \in 1..N /\ s[i] = s[n + j]
    BY <1>2, <1>3
  <2>2. i = n + j
    BY <2>1
  <2> QED  BY <2>2
<1> QED  BY <1>3, <1>4, <1>5, <1>6

\* sched_mergepending begins.
LEMMA InitLoop ==
  ASSUME Init
  PROVE  LoopInv
<1> DEFINE N == Cardinality(Task)
<1>1. N \in Nat
  BY MergePendingAssumption, FS_CardinalityType
<1>2. PICK order \in [1..N -> Task], n \in 0..MaxPending :
        /\ \A i, j \in DOMAIN order : order[i] = order[j] => i = j
        /\ n < N /\ P0 = SubSeq(order, 1, n) /\ R0 = SubSeq(order, n + 1, N)
  BY DEF Init
<1> HIDE DEF N
<1>3. n \in 0..N /\ \A i, j \in 1..N : order[i] = order[j] => i = j
  BY <1>1, <1>2, MergePendingAssumption
<1>4. Lists(P0, Of(P0)) /\ Lists(R0, Of(R0)) /\ Of(P0) \cap Of(R0) = {} /\ Len(R0) = N - n
  BY <1>1, <1>2, <1>3, Halves
<1>5. prio \in PrioFcn /\ \A t \in Task : prio[t] = 0 <=> t = IDLE
  BY DEF Init, PrioFcn
<1>6. Sorted(P0, prio) /\ Sorted(R0, prio) /\ R0[Len(R0)] = IDLE
  BY DEF Init, InOrder, Sorted
<1>7. Of(P0) \subseteq Task /\ Of(R0) \subseteq Task
  BY DEF Of
<1>8. Input
  BY <1>1, <1>2, <1>4, <1>5, <1>6, <1>7 DEF Input, MergeInput
<1>9. /\ P0 \in Seq(Task) /\ R0 \in Seq(Task) /\ Len(P0) \in Nat /\ Len(R0) \in Nat
      /\ ready = R0 /\ ptcb = 0 /\ rtcb = 1 /\ ret = FALSE
  BY <1>4, LenProperties DEF Lists, Init
<1>10. LastPlace = 0 /\ Len(ready) = Len(R0) /\ \A m \in 1..Len(R0) : ready[m] = R0[m - ptcb]
  BY <1>9 DEF LastPlace
<1>11. ret \in BOOLEAN /\ (ret <=> ptcb > 0 /\ MergedPos(P0, R0, prio, 1) = 1)
  <2>1. ~(ptcb > 0)
    BY <1>9
  <2> QED  BY <1>9, <2>1, Zenon
<1>12. Walked
  BY <1>9, <1>10, <1>11 DEF Walked
<1> QED  BY <1>8, <1>12 DEF LoopInv

\* Where pending task i goes, at i + pos[i] - 1, and what the merged list L has there and in
\* between.
Holds(pos, N, M, L) ==
  /\ N \in Nat /\ M \in Nat \ {0} /\ P0 \in [1..N -> Task] /\ R0 \in [1..M -> Task]
  /\ \A i \in 1..N : prio[P0[i]] \in Nat
  /\ \A j \in 1..M : prio[R0[j]] \in Nat
  /\ \A i \in 1..N : pos[i] \in 1..M /\ MergedPos(P0, R0, prio, i) = i + pos[i] - 1
  /\ \A i, j \in 1..N : i <= j => pos[i] <= pos[j]
  /\ \A i \in 1..N : \A j \in 1..M : j < pos[i] => prio[P0[i]] <= prio[R0[j]]
  /\ \A i \in 1..N : \A j \in 1..M : pos[i] <= j => prio[R0[j]] < prio[P0[i]]
  /\ L \in Seq(Task) /\ Len(L) = N + M /\ Sorted(L, prio)
  /\ \A i \in 1..N : L[i + pos[i] - 1] = P0[i]
  /\ \A c \in 0..N, j \in 1..M : (c > 0 => pos[c] <= j) /\ (c < N => j < pos[c + 1]) => L[c + j] = R0[j]

\* The merged list holds what the places say.
LEMMA MergedHolds ==
  ASSUME Input, NEW pos, pos = Positions(P0, R0, prio), NEW N, N = Len(P0), NEW M, M = Len(R0),
         NEW L, L = Merged(P0, R0, prio)
  PROVE  Holds(pos, N, M, L)
<1>1. MergeInput(P0, R0, Of(P0), Of(R0), prio) /\ M > 0 /\ R0[M] = IDLE
  BY DEF Input
<1>2. /\ N \in Nat /\ M \in Nat \ {0} /\ P0 \in [1..N -> Task] /\ R0 \in [1..M -> Task] /\ R0 \in Seq(Task)
      /\ \A i \in 1..N : prio[P0[i]] \in Nat
      /\ \A j \in 1..M : prio[R0[j]] \in Nat
      /\ pos \in [1..N -> 1..(M + 1)]
      /\ \A i, j \in 1..N : i <= j => pos[i] <= pos[j]
      /\ \A i \in 1..N : \A j \in 1..M : (j < pos[i] => prio[P0[i]] <= prio[R0[j]]) /\ (pos[i] <= j => prio[R0[j]] < prio[P0[i]])
  <2> DEFINE q == Positions(P0, R0, prio)
             n == Len(P0)
             m == Len(R0)
  <2>1. /\ n \in Nat /\ m \in Nat /\ P0 \in [1..n -> Task] /\ R0 \in [1..m -> Task] /\ R0 \in Seq(Task)
        /\ \A i \in 1..n : prio[P0[i]] \in Nat
        /\ \A j \in 1..m : prio[R0[j]] \in Nat
        /\ q \in [1..n -> 1..(m + 1)]
        /\ \A i, j \in 1..n : i <= j => q[i] <= q[j]
        /\ \A i \in 1..n : \A j \in 1..m : (j < q[i] => prio[P0[i]] <= prio[R0[j]]) /\ (q[i] <= j => prio[R0[j]] < prio[P0[i]])
    BY <1>1, PositionsIncrease
  <2>2. q = pos /\ n = N /\ m = M /\ M > 0
    BY <1>1
  <2> HIDE DEF q, n, m
  <2>3. m \in Nat \ {0}
    BY <2>1, <2>2
  <2> QED  BY <2>1, <2>2, <2>3
<1>3. ASSUME NEW i \in 1..N PROVE pos[i] \in 1..M /\ MergedPos(P0, R0, prio, i) = i + pos[i] - 1
  <2>1. MergedPos(P0, R0, prio, i) = i + pos[i] - 1
    BY DEF MergedPos, Positions
  <2>2. pos[i] # M + 1
    <3> SUFFICES ASSUME pos[i] = M + 1 PROVE FALSE
      OBVIOUS
    <3>1. M \in 1..M /\ M < pos[i]
      BY <1>2
    <3>2. prio[P0[i]] <= prio[IDLE] /\ prio[IDLE] = 0 /\ P0[i] \in Task /\ prio[P0[i]] \in Nat
      BY <1>1, <1>2, <3>1, KernelAssumption DEF Input
    <3>3. P0[i] = IDLE
      BY <3>2 DEF Input
    <3>4. InList(P0, IDLE) /\ InList(R0, IDLE)
      BY <1>1, <3>1, <3>3 DEF InList
    <3> QED  BY <1>1, <3>4, KernelAssumption DEF MergeInput, Of
  <2> QED  BY <1>2, <2>1, <2>2
<1>4. MergeOutput(P0, R0, Of(P0), Of(R0), prio, L)
  BY <1>1, MergeLists
<1>5. L \in Seq(Task) /\ Len(L) = N + M /\ Sorted(L, prio)
  BY <1>4 DEF MergeOutput, Lists
<1>6. /\ \A n \in 1..(N + M), i \in 1..N : FromPending(pos, N, n, i) => L[n] = P0[i]
      /\ \A n \in 1..(N + M), j \in 1..M : FromReady(pos, N, M, n, j) => L[n] = R0[j]
  BY <1>1, MergedPlaces
<1>7. ASSUME NEW i \in 1..N PROVE L[i + pos[i] - 1] = P0[i]
  <2>1. i + pos[i] - 1 \in 1..(N + M)
    BY <1>2, <1>3
  <2> QED  BY <1>6, <2>1 DEF FromPending
<1>8. ASSUME NEW c \in 0..N, NEW j \in 1..M, c > 0 => pos[c] <= j, c < N => j < pos[c + 1]
      PROVE  L[c + j] = R0[j]
  <2>1. c + j \in 1..(N + M) /\ (c + j) - j = c
    BY <1>2
  <2>2. FromReady(pos, N, M, c + j, j)
    BY <1>8, <2>1 DEF FromReady
  <2> QED  BY <1>6, <2>1, <2>2
<1> QED  BY <1>2, <1>3, <1>5, <1>7, <1>8 DEF Holds

\* The loop after c turns: its last place is l.
AtTurn(pos, N, M, L, c, l) ==
  /\ pos = Positions(P0, R0, prio) /\ N = Len(P0) /\ M = Len(R0) /\ L = Merged(P0, R0, prio)
  /\ Holds(pos, N, M, L)
  /\ c = ptcb /\ c \in 0..N /\ Len(ready) = c + M /\ ready \in Seq(Task)
  /\ l = LastPlace /\ (c = 0 => l = 0 /\ rtcb = 1)
  /\ c > 0 => c \in 1..N /\ pos[c] \in 1..M /\ l = c + pos[c] - 1 /\ rtcb = l
  /\ l \in 0..(c + M - 1)
  /\ \A n \in 1..l : ready[n] = L[n]
  /\ \A n \in (l + 1)..(c + M) : ready[n] = R0[n - c]

\* The loop invariant, by the places of the tasks.
LEMMA LoopState ==
  ASSUME LoopInv
  PROVE  \E pos, N, M, L, c, l : AtTurn(pos, N, M, L, c, l)
<1>1. PICK pos, N, M, L : pos = Positions(P0, R0, prio) /\ N = Len(P0) /\ M = Len(R0) /\ L = Merged(P0, R0, prio)
  OBVIOUS
<1>2. Holds(pos, N, M, L)
  BY <1>1, MergedHolds DEF LoopInv
<1>3. PICK c, l : c = ptcb /\ l = LastPlace
  OBVIOUS
<1>4. /\ c \in 0..N /\ Len(ready) = c + M /\ ready \in Seq(Task)
      /\ \A n \in 1..l : ready[n] = L[n]
      /\ \A n \in (l + 1)..(c + M) : ready[n] = R0[n - c]
  BY <1>1, <1>3 DEF LoopInv, Walked
<1>5. c = 0 => l = 0 /\ rtcb = 1
  BY <1>3 DEF LoopInv, Walked, LastPlace
<1>6. N \in Nat /\ M \in Nat \ {0}
  BY <1>2 DEF Holds
<1>7. ASSUME c > 0 PROVE c \in 1..N /\ pos[c] \in 1..M /\ l = c + pos[c] - 1 /\ rtcb = l
  <2>1. c \in 1..N /\ c # 0
    BY <1>4, <1>6, <1>7
  <2>2. pos[c] \in 1..M /\ MergedPos(P0, R0, prio, c) = c + pos[c] - 1
    BY <1>2, <2>1 DEF Holds
  <2> QED  BY <1>3, <2>1, <2>2 DEF LoopInv, Walked, LastPlace
<1>8. l \in 0..(c + M - 1)
  BY <1>4, <1>5, <1>6, <1>7
<1>9. AtTurn(pos, N, M, L, c, l)
  BY <1>1, <1>2, <1>3, <1>4, <1>5, <1>7, <1>8 DEF AtTurn
<1> QED  BY <1>9

\* One turn of the loop finds the place that the closed form gives.
LEMMA PlaceFound ==
  ASSUME LoopInv, ptcb < Len(P0)
  PROVE  Place(prio[P0[ptcb + 1]]) = MergedPos(P0, R0, prio, ptcb + 1)
<1>1. PICK pos, N, M, L, c, l : AtTurn(pos, N, M, L, c, l)
  BY LoopState
<1> USE DEF AtTurn
<1>h. Holds(pos, N, M, L)
  BY <1>1
<1>2. N \in Nat /\ M \in Nat /\ c \in Nat /\ l \in Nat /\ c + 1 \in 1..N
  BY <1>1, <1>h DEF Holds
<1>3. PICK e, p, q : e = pos[c + 1] /\ p = prio[P0[c + 1]] /\ q = c + e
  OBVIOUS
<1>4. e \in 1..M /\ p \in Nat /\ q = MergedPos(P0, R0, prio, c + 1)
  <2>1. e \in 1..M /\ p \in Nat /\ MergedPos(P0, R0, prio, c + 1) = (c + 1) + e - 1
    BY <1>h, <1>2, <1>3 DEF Holds
  <2> QED  BY <1>2, <1>3, <2>1
<1>5. c > 0 => pos[c] <= e
  <2> SUFFICES ASSUME c > 0 PROVE pos[c] <= e
    OBVIOUS
  <2>1. c \in 1..N /\ c <= c + 1
    BY <1>1, <1>2
  <2> QED  BY <1>h, <1>2, <1>3, <2>1 DEF Holds
<1>6. rtcb \in 1..q /\ l < q /\ q <= c + M /\ q \in Nat /\ (l < rtcb \/ (c > 0 /\ rtcb = l))
  <2>1. CASE c = 0
    BY <1>1, <1>2, <1>3, <1>4, <2>1
  <2>2. CASE c > 0
    <3>1. PICK d : d = pos[c] /\ d \in 1..M /\ l = c + d - 1 /\ rtcb = l /\ d <= e
      BY <1>1, <1>5, <2>2
    <3>2. /\ c \in Nat /\ c > 0 /\ M \in Nat /\ e \in 1..M /\ d \in 1..M
          /\ d <= e /\ q = c + e /\ l = c + d - 1
      BY <1>2, <1>3, <1>4, <2>2, <3>1
    <3>3. l \in 1..q /\ l < q /\ q <= c + M /\ q \in Nat
      BY ONLY <3>2
    <3> QED  BY <2>2, <3>1, <3>3
  <2> QED  BY <1>2, <2>1, <2>2
<1>7. prio[ready[q]] < p /\ prio[ready[q]] \in Nat
  <2>1. q \in (l + 1)..(c + M) /\ q - c = e
    BY <1>2, <1>3, <1>4, <1>6
  <2>2. ready[q] = R0[e]
    BY <1>1, <2>1
  <2>3. prio[R0[e]] < prio[P0[c + 1]] /\ prio[R0[e]] \in Nat
    <3>1. pos[c + 1] <= e
      BY <1>3, <1>4
    <3> QED  BY <1>h, <1>2, <1>4, <3>1 DEF Holds
  <2> QED  BY <1>3, <2>2, <2>3
<1>8. ASSUME NEW n \in rtcb..(q - 1) PROVE p <= prio[ready[n]] /\ prio[ready[n]] \in Nat
  <2>0. n \in Nat
    BY <1>6
  <2>1. CASE n > l
    <3>1. n \in (l + 1)..(c + M) /\ n < q
      BY <1>2, <1>6, <2>0, <2>1
    <3>2. n - c \in 1..M
      <4>1. CASE c = 0
        BY <1>1, <1>2, <3>1, <4>1
      <4>2. CASE c > 0
        BY <1>1, <1>2, <3>1, <4>2
      <4> QED  BY <1>2, <4>1, <4>2
    <3>3. n - c < e /\ ready[n] = R0[n - c]
      BY <1>1, <1>2, <1>3, <1>4, <3>1
    <3>4. PICK j \in 1..M : j = n - c /\ j < pos[c + 1] /\ ready[n] = R0[j]
      BY <1>3, <3>2, <3>3
    <3>5. prio[P0[c + 1]] <= prio[R0[j]] /\ prio[R0[j]] \in Nat
      BY <1>h, <1>2, <3>4 DEF Holds
    <3> QED  BY <1>3, <3>4, <3>5
  <2>2. CASE ~(n > l)
    <3>1. c > 0 /\ n = l
      BY <1>2, <1>6, <2>0, <2>2
    <3>2. c \in 1..N /\ l = c + pos[c] - 1 /\ pos[c] \in 1..M
      BY <1>1, <3>1
    <3>3. ready[n] = L[l]
      <4>1. l \in 1..l
        BY <1>2, <3>2
      <4> QED  BY <1>1, <3>1, <4>1
    <3>4. L[l] = P0[c] /\ prio[P0[c]] \in Nat
      BY <1>h, <3>2 DEF Holds
    <3>5. prio[P0[c]] >= prio[P0[c + 1]]
      BY <1>1, <1>2, <3>2 DEF LoopInv, Input, MergeInput, Sorted
    <3> QED  BY <1>3, <1>4, <3>3, <3>4, <3>5
  <2> QED  BY <2>1, <2>2
<1>9. ASSUME NEW i \in rtcb..Len(ready), prio[ready[i]] < p, \A n \in rtcb..(i - 1) : p <= prio[ready[n]]
      PROVE  i = q
  <2>1. CASE i < q
    BY <1>4, <1>6, <1>8, <1>9, <2>1
  <2>2. CASE q < i
    BY <1>4, <1>6, <1>7, <1>9, <2>2
  <2> QED  BY <1>6, <2>1, <2>2
<1>10. q \in rtcb..Len(ready)
  BY <1>1, <1>2, <1>6
<1>11. Place(p) = q
  BY <1>7, <1>8, <1>9, <1>10 DEF Place
<1> QED  BY <1>1, <1>3, <1>4, <1>11

\* One turn of the loop keeps the loop invariant.
LEMMA MoveOneLoop ==
  ASSUME LoopInv, MoveOne
  PROVE  LoopInv'
<1>1. PICK pos, N, M, L, c, l : AtTurn(pos, N, M, L, c, l)
  BY LoopState
<1> USE DEF AtTurn
<1>h. Holds(pos, N, M, L)
  BY <1>1
<1>2. N \in Nat /\ M \in Nat /\ c \in Nat /\ l \in Nat /\ c < N /\ c + 1 \in 1..N
  BY <1>1, <1>h DEF Holds, MoveOne
<1>3. PICK e, q, t : e = pos[c + 1] /\ q = c + e /\ t = P0[c + 1]
  OBVIOUS
<1>4. e \in 1..M /\ q = MergedPos(P0, R0, prio, c + 1) /\ t \in Task /\ L[q] = t
  <2>1. e \in 1..M /\ MergedPos(P0, R0, prio, c + 1) = (c + 1) + e - 1 /\ t \in Task /\ L[(c + 1) + e - 1] = t
    BY <1>h, <1>2, <1>3 DEF Holds
  <2>2. (c + 1) + e - 1 = q
    BY <1>2, <1>3, <2>1
  <2> QED  BY <2>1, <2>2
<1>5. c > 0 => pos[c] <= e
  <2> SUFFICES ASSUME c > 0 PROVE pos[c] <= e
    OBVIOUS
  <2>1. c \in 1..N /\ c <= c + 1
    BY <1>1, <1>2
  <2> QED  BY <1>h, <1>2, <1>3, <2>1 DEF Holds
<1>6. l < q /\ q \in 1..(c + M)
  <2>1. CASE c = 0
    BY <1>1, <1>2, <1>3, <1>4, <2>1
  <2>2. CASE c > 0
    <3>1. PICK d : d = pos[c] /\ d \in 1..M /\ l = c + d - 1 /\ d <= e
      BY <1>1, <1>5, <2>2
    <3> QED  BY <1>2, <1>3, <1>4, <2>2, <3>1
  <2> QED  BY <1>2, <2>1, <2>2
<1>7. /\ ready' = InsertAtPos(ready, q, t) /\ rtcb' = q /\ ret' = (ret \/ q = 1) /\ ptcb' = c + 1
      /\ P0' = P0 /\ R0' = R0 /\ prio' = prio
  BY <1>1, <1>2, <1>3, <1>4, PlaceFound DEF MoveOne, NextCursor
<1>8. /\ \A n \in 1..(c + M + 1) : ready'[n] = IF n < q THEN ready[n] ELSE IF n = q THEN t ELSE ready[n - 1]
      /\ ready' \in Seq(Task) /\ Len(ready') = c + M + 1
  <2>1. ready \in [1..(c + M) -> Task]
    BY <1>1, LenProperties
  <2>2. ready' \in [1..(c + M + 1) -> Task]
    <3>1. ready' = [n \in 1..(c + M + 1) |-> IF n < q THEN ready[n] ELSE IF n = q THEN t ELSE ready[n - 1]]
      BY <1>1, <1>7 DEF InsertAtPos
    <3>2. ASSUME NEW n \in 1..(c + M + 1)
          PROVE  (IF n < q THEN ready[n] ELSE IF n = q THEN t ELSE ready[n - 1]) \in Task
      <4>1. (n < q => n \in 1..(c + M)) /\ (~(n < q) /\ n # q => n - 1 \in 1..(c + M))
        BY <1>2, <1>6
      <4> QED  BY <1>4, <2>1, <4>1
    <3> QED  BY <3>1, <3>2
  <2>3. c + M + 1 \in Nat
    BY <1>2
  <2> QED  BY <1>1, <1>7, <2>2, <2>3, FcnIsSeq DEF InsertAtPos
<1>9. Input'
  BY <1>7 DEF LoopInv, Input
<1>10. LastPlace' = q
  BY <1>2, <1>4, <1>7 DEF LastPlace
<1>11. ASSUME NEW n \in 1..q PROVE ready'[n] = L[n]
  <2>1. CASE n = q
    BY <1>2, <1>4, <1>6, <1>8, <2>1
  <2>2. CASE n # q /\ n <= l
    BY <1>1, <1>2, <1>6, <1>8, <2>2
  <2>3. CASE n # q /\ ~(n <= l)
    <3>1. n \in (l + 1)..(c + M) /\ n < q
      BY <1>2, <1>6, <2>3
    <3>2. PICK j \in 1..M : j = n - c /\ (c > 0 => pos[c] <= j) /\ j < e
      <4>1. CASE c = 0
        BY <1>2, <1>3, <1>4, <3>1, <4>1
      <4>2. CASE c > 0
        <5>1. PICK d : d = pos[c] /\ d \in 1..M /\ l = c + d - 1 /\ d <= e
          BY <1>1, <1>5, <4>2
        <5> QED  BY <1>2, <1>3, <1>4, <3>1, <5>1
      <4> QED  BY <1>2, <4>1, <4>2
    <3>3. ready'[n] = R0[j]
      <4>1. n \in 1..(c + M + 1)
        BY <1>2, <3>1
      <4> QED  BY <1>1, <1>8, <3>1, <3>2, <4>1
    <3>4. L[c + j] = R0[j]
      <4>1. c \in 0..N /\ j < pos[c + 1]
        BY <1>2, <1>3, <3>2
      <4> QED  BY <1>h, <3>2, <4>1 DEF Holds
    <3>5. c + j = n
      BY <1>2, <3>1, <3>2
    <3> QED  BY <3>3, <3>4, <3>5
  <2> QED  BY <2>1, <2>2, <2>3
<1>12. ASSUME NEW n \in (q + 1)..(c + M + 1) PROVE ready'[n] = R0[n - (c + 1)]
  <2>1. n \in 1..(c + M + 1) /\ ~(n < q) /\ n # q /\ n - 1 \in (l + 1)..(c + M) /\ (n - 1) - c = n - (c + 1)
    BY <1>2, <1>6
  <2>2. ready'[n] = ready[n - 1]
    BY <1>8, <2>1
  <2> QED  BY <1>1, <2>1, <2>2
<1>13. ret' \in BOOLEAN /\ (ret' <=> c + 1 > 0 /\ MergedPos(P0, R0, prio, 1) = 1)
  <2>1. c + 1 > 0
    BY <1>2
  <2>2. ret \in BOOLEAN /\ (ret <=> c > 0 /\ MergedPos(P0, R0, prio, 1) = 1)
    BY <1>1 DEF LoopInv, Walked
  <2>3. CASE c = 0
    <3>1. c + 1 = 1 /\ ~(c > 0)
      BY <2>3
    <3>2. q = MergedPos(P0, R0, prio, 1)
      BY <1>4, <3>1
    <3> QED  BY <1>7, <2>1, <2>2, <3>1, <3>2, Zenon
  <2>4. CASE c > 0
    <3>1. q # 1
      BY <1>2, <1>3, <1>4, <2>4
    <3> QED  BY <1>7, <2>1, <2>2, <2>4, <3>1, Zenon
  <2> QED  BY <1>2, <2>3, <2>4
<1>14. c + 1 \in 0..N /\ c + M + 1 = (c + 1) + M /\ c + 1 # 0
  BY <1>2
<1>15. Walked'
  BY <1>1, <1>7, <1>8, <1>10, <1>11, <1>12, <1>13, <1>14 DEF Walked
<1> QED  BY <1>9, <1>15 DEF LoopInv

\* The loop invariant holds in every state.
LEMMA LoopInvAlways == Spec => []LoopInv
<1>1. Init => LoopInv
  BY InitLoop
<1>2. LoopInv /\ [Next]_vars => LoopInv'
  <2>1. ASSUME LoopInv, UNCHANGED vars PROVE LoopInv'
    BY <2>1 DEF vars, LoopInv, Input, Walked, LastPlace
  <2> QED  BY <2>1, MoveOneLoop DEF Next, Done
<1> QED  BY <1>1, <1>2, PTL DEF Spec

\* The one pass of sched_mergepending over both lists, with its cursor left on the task
\* inserted last, computes the merge of Kernel, and it reports a new head of g_readytorun
\* exactly when there is one, for all sorted lists of any length.
THEOREM LoopAlwaysComputesMerged == Spec => []LoopComputesMerged
<1>1. LoopInv => LoopComputesMerged
  <2> SUFFICES ASSUME LoopInv, ptcb = Len(P0)
               PROVE  ready = Merged(P0, R0, prio) /\ (ret <=> ready[1] # R0[1])
    BY DEF LoopComputesMerged
  <2>1. PICK pos, N, M, L, c, l : AtTurn(pos, N, M, L, c, l)
    BY LoopState
  <2> USE DEF AtTurn
  <2>h. Holds(pos, N, M, L)
    BY <2>1
  <2>2. N \in Nat /\ M \in Nat \ {0} /\ c = N /\ l \in Nat /\ L \in Seq(Task) /\ Len(L) = N + M
    BY <2>1, <2>h DEF Holds
  <2>3. ASSUME NEW n \in 1..(N + M) PROVE ready[n] = L[n]
    <3>1. CASE n <= l
      BY <2>1, <2>2, <3>1
    <3>2. CASE ~(n <= l)
      <4>1. PICK j \in 1..M : j = n - c /\ (c > 0 => pos[c] <= j)
        <5>1. CASE c = 0
          BY <2>1, <2>2, <3>2, <5>1
        <5>2. CASE c > 0
          <6>1. PICK d : d = pos[c] /\ d \in 1..M /\ l = c + d - 1
            BY <2>1, <5>2
          <6> QED  BY <2>2, <3>2, <6>1
        <5> QED  BY <2>2, <5>1, <5>2
      <4>2. L[c + j] = R0[j]
        <5>1. c \in 0..N /\ ~(c < N)
          BY <2>2
        <5> QED  BY <2>h, <4>1, <5>1 DEF Holds
      <4>3. c + j = n /\ n \in (l + 1)..(c + M)
        BY <2>2, <3>2, <4>1
      <4> QED  BY <2>1, <4>1, <4>2, <4>3
    <3> QED  BY <3>1, <3>2
  <2>4. ready = L
    BY <2>1, <2>2, <2>3, SeqEqual
  <2>5. ret <=> L[1] # R0[1]
    <3>1. ret \in BOOLEAN /\ (ret <=> c > 0 /\ MergedPos(P0, R0, prio, 1) = 1)
      BY <2>1 DEF LoopInv, Walked
    <3>2. CASE c > 0 /\ MergedPos(P0, R0, prio, 1) = 1
      <4>1. 1 \in 1..N /\ 1 \in 1..M
        BY <2>2, <3>2
      <4>2. pos[1] \in 1..M /\ 1 + pos[1] - 1 = 1
        BY <2>h, <3>2, <4>1 DEF Holds
      <4>3. L[1] = P0[1] /\ P0[1] \in Task
        <5>1. L[1 + pos[1] - 1] = P0[1] /\ P0[1] \in Task
          BY <2>h, <4>1 DEF Holds
        <5> QED  BY <4>2, <5>1
      <4>4. P0[1] # R0[1]
        <5> SUFFICES ASSUME P0[1] = R0[1] PROVE FALSE
          OBVIOUS
        <5>1. InList(P0, P0[1]) /\ InList(R0, P0[1])
          BY <2>1, <4>1 DEF InList
        <5> QED  BY <4>3, <5>1 DEF LoopInv, Input, MergeInput, Of
      <4> QED  BY <3>1, <3>2, <4>3, <4>4
    <3>3. CASE ~(c > 0 /\ MergedPos(P0, R0, prio, 1) = 1)
      <4>1. N > 0 => 1 < pos[1]
        <5> SUFFICES ASSUME N > 0 PROVE 1 < pos[1]
          OBVIOUS
        <5>1. 1 \in 1..N /\ c > 0
          BY <2>2
        <5>2. pos[1] \in 1..M /\ 1 + pos[1] - 1 # 1
          BY <2>h, <3>3, <5>1 DEF Holds
        <5> QED  BY <2>2, <5>2
      <4>2. 0 \in 0..N /\ 1 \in 1..M /\ 0 + 1 = 1 /\ ~(0 > 0)
        BY <2>2
      <4>3. L[0 + 1] = R0[1]
        BY <2>h, <2>2, <4>1, <4>2 DEF Holds
      <4> QED  BY <3>1, <3>3, <4>2, <4>3
    <3> QED  BY <3>2, <3>3
  <2> QED  BY <2>1, <2>4, <2>5
<1> QED  BY <1>1, LoopInvAlways, PTL

\* At every turn of the loop g_readytorun is sorted, and among tasks of equal priority
\* those that were ready stay ahead of those that were pending.
THEOREM MergeIsAlwaysStable == Spec => []MergeIsStable
<1>1. LoopInv => MergeIsStable
  <2> SUFFICES ASSUME LoopInv, NEW i \in 1..Len(ready), NEW j \in 1..Len(ready), i < j
               PROVE  /\ prio[ready[i]] >= prio[ready[j]]
                      /\ prio[ready[i]] = prio[ready[j]] /\ InList(R0, ready[j]) => InList(R0, ready[i])
    BY DEF MergeIsStable
  <2>1. PICK pos, N, M, L, c, l : AtTurn(pos, N, M, L, c, l)
    BY LoopState
  <2> USE DEF AtTurn
  <2>h. Holds(pos, N, M, L)
    BY <2>1
  <2>2. N \in Nat /\ M \in Nat \ {0} /\ c \in Nat /\ l \in Nat /\ l \in 0..(N + M) /\ i \in Nat /\ j \in Nat
    BY <2>1, <2>h DEF Holds
  <2>3. L \in Seq(Task) /\ Len(L) = N + M /\ Sorted(L, prio)
    BY <2>h DEF Holds
  <2>4. /\ MergeInput(P0, R0, Of(P0), Of(R0), prio) /\ Sorted(R0, prio)
        /\ \A t \in Task : prio[t] \in Nat
    BY KernelAssumption DEF LoopInv, Input, MergeInput, PrioFcn
  <2>5. ASSUME NEW n \in (l + 1)..(c + M)
        PROVE  n - c \in 1..M /\ ready[n] = R0[n - c] /\ (c > 0 => pos[c] <= n - c)
    <3>1. CASE c = 0
      BY <2>1, <2>2, <3>1
    <3>2. CASE c > 0
      <4>1. PICK d : d = pos[c] /\ d \in 1..M /\ l = c + d - 1
        BY <2>1, <3>2
      <4>2. n \in Int /\ l + 1 <= n /\ n <= c + M /\ c \in Nat /\ M \in Nat /\ d \in 1..M /\ l = c + d - 1
        BY <2>2, <4>1
      <4>3. n - c \in 1..M /\ d <= n - c
        BY ONLY <4>2
      <4> QED  BY <2>1, <4>1, <4>3
    <3> QED  BY <2>2, <3>1, <3>2
  <2>6. CASE j <= l
    <3>1. i \in 1..l /\ j \in 1..l /\ i \in 1..Len(L) /\ j \in 1..Len(L)
      BY <2>2, <2>3, <2>6
    <3>2. ready[i] = L[i] /\ ready[j] = L[j]
      BY <2>1, <3>1
    <3>3. prio[L[i]] >= prio[L[j]]
      BY <2>3, <3>1 DEF Sorted
    <3>4. prio[L[i]] = prio[L[j]] /\ InList(R0, L[j]) => InList(R0, L[i])
      <4>1. L = Merged(P0, R0, prio)
        BY <2>1
      <4> QED  BY <2>4, <3>1, <4>1, MergeStable
    <3> QED  BY <3>2, <3>3, <3>4
  <2>7. CASE l < i
    <3>1. i \in (l + 1)..(c + M) /\ j \in (l + 1)..(c + M)
      BY <2>1, <2>2, <2>7
    <3>2. PICK a \in 1..M, b \in 1..M : a = i - c /\ b = j - c /\ ready[i] = R0[a] /\ ready[j] = R0[b]
      BY <2>5, <3>1
    <3>3. a < b
      BY <2>2, <3>2
    <3> QED  BY <2>1, <2>4, <3>2, <3>3 DEF Sorted, InList
  <2>8. CASE i <= l /\ l < j
    <3>1. i \in 1..l /\ j \in (l + 1)..(c + M) /\ c > 0
      BY <2>1, <2>2, <2>8
    <3>2. PICK b \in 1..M : ready[j] = R0[b] /\ pos[c] <= b
      BY <2>5, <3>1
    <3>3. c \in 1..N /\ l = c + pos[c] - 1
      BY <2>1, <3>1
    <3>4. prio[R0[b]] < prio[P0[c]] /\ L[l] = P0[c] /\ prio[R0[b]] \in Nat /\ prio[P0[c]] \in Nat
      BY <2>h, <3>2, <3>3 DEF Holds
    <3>5. prio[L[i]] >= prio[L[l]] /\ prio[L[i]] \in Nat
      <4>1. i \in 1..Len(L) /\ l \in 1..Len(L) /\ (i < l \/ i = l)
        BY <2>2, <2>3, <3>1
      <4>2. L[i] \in Task
        BY <2>3, <4>1, ElementOfSeq
      <4>3. prio[L[i]] \in Nat
        BY <2>4, <4>2
      <4> QED  BY <2>3, <4>1, <4>3 DEF Sorted
    <3>6. ready[i] = L[i]
      BY <2>1, <3>1
    <3> QED  BY <3>2, <3>4, <3>5, <3>6
  <2> QED  BY <2>2, <2>6, <2>7, <2>8
<1> QED  BY <1>1, LoopInvAlways, PTL
=============================================================================
