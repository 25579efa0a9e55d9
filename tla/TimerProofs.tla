----------------------------- MODULE TimerProofs ----------------------------
(***************************************************************************)
(* Proofs about the watchdog timers and their clients: the delta list of   *)
(* Wdog implements independent timers, every expiry reaches the client it  *)
(* was started for, and the worker thread does not oversleep.              *)
(***************************************************************************)
EXTENDS TimerSystem, WellFoundedInduction, TLAPS, SequenceTheorems, FiniteSetTheorems

\* Every search from the front of a list finds a first element.
LEMMA LeastElement ==
  ASSUME NEW S \in SUBSET Nat, S # {}
  PROVE  \E m \in S : \A n \in S : m <= n
<1>1. \E m \in S : \A n \in S : <<n, m>> \notin OpToRel(<, Nat)
  BY NatLessThanWellFounded, WFMin
<1>2. PICK m \in S : \A n \in S : <<n, m>> \notin OpToRel(<, Nat)
  BY <1>1
<1>3. \A n \in S : m <= n
  <2> SUFFICES ASSUME NEW n \in S, ~(m <= n) PROVE FALSE
    OBVIOUS
  <2>1. n \in Nat /\ m \in Nat /\ n < m
    OBVIOUS
  <2>2. <<n, m>> \in OpToRel(<, Nat)
    BY <2>1, Zenon DEF OpToRel
  <2> QED  BY <2>2, <1>2
<1> QED  BY <1>3

\* Counting up from 0 reaches every natural: what the loops of the modelled
\* code rest on.
LEMMA CountingUp ==
  ASSUME NEW S, 0 \in S, \A i \in Nat : i \in S => i + 1 \in S
  PROVE  \A n \in Nat : n \in S
<1> SUFFICES ASSUME NEW n \in Nat, n \notin S PROVE FALSE
  OBVIOUS
<1> DEFINE T == {i \in Nat : i \notin S}
<1>1. PICK m \in T : \A i \in T : m <= i
  <2>1. T \in SUBSET Nat /\ n \in T
    OBVIOUS
  <2> HIDE DEF T
  <2> QED  BY <2>1, LeastElement
<1>2. m # 0 /\ m \in Nat /\ m - 1 \in Nat
  OBVIOUS
<1>3. m - 1 \notin T
  BY <1>1, <1>2
<1> QED  BY <1>2, <1>3

-----------------------------------------------------------------------------
\* Sums of lags.

\* g[i] is the sum of the first i values of f.
Sums(g, n, f) ==
  /\ n \in Nat /\ f \in [1..n -> Nat] /\ g \in [0..n -> Nat]
  /\ g[0] = 0
  /\ \A i \in 1..n : g[i] = g[i - 1] + f[i]

\* The sums exist: Remaining is well defined.
LEMMA SumsExist ==
  ASSUME NEW n \in Nat, NEW f \in [1..n -> Nat]
  PROVE  \E g : Sums(g, n, f)
<1> DEFINE P(g, m) == /\ g \in [0..n -> Nat] /\ g[0] = 0
                      /\ \A i \in 1..n : i <= m => g[i] = g[i - 1] + f[i]
           S == {m \in Nat : m <= n => \E g : P(g, m)}
<1>1. 0 \in S
  <2>1. P([i \in 0..n |-> 0], 0)
    OBVIOUS
  <2> QED  BY <2>1
<1>2. ASSUME NEW m \in Nat, m \in S PROVE m + 1 \in S
  <2> SUFFICES ASSUME m + 1 <= n PROVE \E g : P(g, m + 1)
    OBVIOUS
  <2>1. PICK g : P(g, m)
    BY <1>2
  <2> DEFINE h == [i \in 0..n |-> IF i = m + 1 THEN g[m] + f[m + 1] ELSE g[i]]
  <2>2. h \in [0..n -> Nat] /\ h[0] = 0
    BY <2>1
  <2>3. ASSUME NEW i \in 1..n, i <= m + 1 PROVE h[i] = h[i - 1] + f[i]
    <3>1. CASE i = m + 1
      BY <2>1, <3>1
    <3>2. CASE i # m + 1
      BY <2>1, <2>3, <3>2
    <3> QED  BY <3>1, <3>2
  <2>4. P(h, m + 1)
    BY <2>2, <2>3
  <2> HIDE DEF h
  <2> QED  BY <2>4
<1>3. n \in S
  <2> HIDE DEF S
  <2> QED  BY <1>1, <1>2, CountingUp
<1>4. \E g : P(g, n)
  <2>1. n <= n
    OBVIOUS
  <2> HIDE DEF P
  <2> QED  BY <1>3, <2>1
<1>5. PICK g : P(g, n)
  BY <1>4
<1>6. Sums(g, n, f)
  BY <1>5 DEF Sums
<1> QED  BY <1>6

\* There is only one way to add up.
LEMMA SumsUnique ==
  ASSUME NEW n, NEW f, NEW g, NEW h, Sums(g, n, f), Sums(h, n, f)
  PROVE  g = h
<1> USE DEF Sums
<1> DEFINE S == {i \in Nat : i <= n => g[i] = h[i]}
<1>1. 0 \in S
  OBVIOUS
<1>2. ASSUME NEW i \in Nat, i \in S PROVE i + 1 \in S
  <2> SUFFICES ASSUME i + 1 <= n PROVE g[i + 1] = h[i + 1]
    OBVIOUS
  <2>1. i + 1 \in 1..n /\ i + 1 - 1 = i
    OBVIOUS
  <2> QED  BY <1>2, <2>1
<1>3. \A i \in Nat : i \in S
  <2> HIDE DEF S
  <2> QED  BY <1>1, <1>2, CountingUp
<1> QED  BY <1>3

\* Sums of naturals do not decrease.
LEMMA SumsGrow ==
  ASSUME NEW n, NEW f, NEW g, Sums(g, n, f), NEW i \in 0..n, NEW j \in 0..n, i <= j
  PROVE  g[i] <= g[j]
<1> USE DEF Sums
<1> DEFINE S == {k \in Nat : i + k <= n => g[i] <= g[i + k]}
<1>1. 0 \in S
  OBVIOUS
<1>2. ASSUME NEW k \in Nat, k \in S PROVE k + 1 \in S
  <2> SUFFICES ASSUME i + (k + 1) <= n PROVE g[i] <= g[i + (k + 1)]
    OBVIOUS
  <2>1. i + (k + 1) \in 1..n /\ i + (k + 1) - 1 = i + k /\ i + k \in 0..n
    OBVIOUS
  <2>2. g[i] <= g[i + k]
    BY <1>2, <2>1
  <2>3. g[i + (k + 1)] = g[i + k] + f[i + (k + 1)] /\ f[i + (k + 1)] \in Nat
    BY <2>1
  <2>4. g[i] \in Nat /\ g[i + k] \in Nat
    BY <2>1
  <2> QED  BY <2>2, <2>3, <2>4
<1>3. \A k \in Nat : k \in S
  <2> HIDE DEF S
  <2> QED  BY <1>1, <1>2, CountingUp
<1>4. j - i \in Nat /\ i + (j - i) = j /\ j <= n
  OBVIOUS
<1>5. j - i \in S
  <2> HIDE DEF S
  <2> QED  BY <1>3, <1>4
<1> QED  BY <1>4, <1>5

-----------------------------------------------------------------------------
\* The active list.

Func == Tm \union {SIG_TIMEOUT, NoFunc}
Wdogs == [list : Seq(Wd), lag : [Wd -> Nat], func : [Wd -> Func], unused : SUBSET Wd]

\* No watchdog is twice in the list.
Once(l) == \A i, j \in 1..Len(l) : l[i] = l[j] => i = j

WdSound(ww) == ww \in Wdogs /\ Once(ww.list)

Lags(ww) == [i \in 1..Len(ww.list) |-> ww.lag[ww.list[i]]]

\* The fields of a sound state.
LEMMA WdFields ==
  ASSUME NEW ww, WdSound(ww)
  PROVE  /\ ww = [list |-> ww.list, lag |-> ww.lag, func |-> ww.func, unused |-> ww.unused]
         /\ ww.list \in Seq(Wd) /\ Len(ww.list) \in Nat /\ ww.list \in [1..Len(ww.list) -> Wd]
         /\ DOMAIN ww.list = 1..Len(ww.list)
         /\ ww.lag \in [Wd -> Nat] /\ ww.func \in [Wd -> Func] /\ ww.unused \subseteq Wd
         /\ Lags(ww) \in [1..Len(ww.list) -> Nat]
         /\ Once(ww.list)
<1>1. ww \in Wdogs /\ Once(ww.list)
  BY DEF WdSound
<1>2. ww.list \in Seq(Wd)
  BY <1>1 DEF Wdogs
<1>3. Len(ww.list) \in Nat /\ ww.list \in [1..Len(ww.list) -> Wd] /\ DOMAIN ww.list = 1..Len(ww.list)
  BY <1>2, LenProperties
<1> QED  BY <1>1, <1>3 DEF Wdogs, Lags

\* Remaining adds up the lags.
LEMMA RemainingIs ==
  ASSUME NEW ww, WdSound(ww)
  PROVE  Sums(Remaining(ww), Len(ww.list), Lags(ww))
<1> DEFINE n == Len(ww.list)
           E(g) == g = [i \in 0..n |-> IF i = 0 THEN 0 ELSE g[i - 1] + ww.lag[ww.list[i]]]
<1>1. n \in Nat /\ Lags(ww) \in [1..n -> Nat]
  BY WdFields
<1>2. PICK g : Sums(g, n, Lags(ww))
  BY <1>1, SumsExist
<1>3. E(g)
  <2>1. \A i \in 1..n : Lags(ww)[i] = ww.lag[ww.list[i]]
    BY DEF Lags
  <2> QED  BY <1>2, <2>1 DEF Sums
<1>4. Remaining(ww) = CHOOSE h : E(h)
  BY DEF Remaining
<1>5. PICK h : h = Remaining(ww)
  OBVIOUS
<1>6. E(h)
  BY <1>3, <1>4, <1>5
<1>7. h = g
  <2>1. h[0] = 0 /\ \A i \in 1..n : h[i] = h[i - 1] + Lags(ww)[i]
    BY <1>1, <1>6 DEF Lags
  <2> DEFINE S == {i \in Nat : i <= n => h[i] = g[i]}
  <2>2. 0 \in S
    BY <1>2, <2>1 DEF Sums
  <2>3. ASSUME NEW i \in Nat, i \in S PROVE i + 1 \in S
    <3> SUFFICES ASSUME i + 1 <= n PROVE h[i + 1] = g[i + 1]
      OBVIOUS
    <3>1. i + 1 \in 1..n /\ i + 1 - 1 = i
      BY <1>1
    <3> QED  BY <1>2, <2>1, <2>3, <3>1 DEF Sums
  <2>4. \A i \in Nat : i \in S
    <3> HIDE DEF S
    <3> QED  BY <2>2, <2>3, CountingUp
  <2>5. \A i \in 0..n : h[i] = g[i]
    BY <1>1, <2>4
  <2>6. g \in [0..n -> Nat]
    BY <1>2 DEF Sums
  <2>7. h = [i \in 0..n |-> h[i]]
    BY <1>6
  <2>8. h \in [0..n -> Nat]
    BY <2>5, <2>6, <2>7
  <2> HIDE DEF E
  <2> QED  BY <2>5, <2>6, <2>8
<1> QED  BY <1>2, <1>5, <1>7

\* What RemoveAt does to the places of a list.
LEMMA RemovedAt ==
  ASSUME NEW S, NEW l \in Seq(S), NEW p \in 1..Len(l)
  PROVE  /\ RemoveAt(l, p) \in Seq(S) /\ Len(RemoveAt(l, p)) = Len(l) - 1
         /\ \A j \in 1..(Len(l) - 1) : RemoveAt(l, p)[j] = IF j < p THEN l[j] ELSE l[j + 1]
<1> DEFINE a == SubSeq(l, 1, p - 1)
           b == SubSeq(l, p + 1, Len(l))
<1>1. Len(l) \in Nat /\ l \in [1..Len(l) -> S]
  BY LenProperties
<1>2. /\ a \in Seq(S) /\ Len(a) = p - 1
      /\ \A j \in 1..(p - 1) : a[j] = l[j]
  BY <1>1, SubSeqProperties
<1>3. /\ b \in Seq(S) /\ Len(b) = Len(l) - p
      /\ \A j \in 1..(Len(l) - p) : b[j] = l[p + j]
  <2>1. PICK s \in Int : s = p + 1
    OBVIOUS
  <2>2. /\ \A i \in s..Len(l) : l[i] \in S
        /\ Len(l) - s + 1 = Len(l) - p
    BY <1>1, <2>1
  <2>3. /\ SubSeq(l, s, Len(l)) \in Seq(S)
        /\ Len(SubSeq(l, s, Len(l))) = IF s <= Len(l) THEN Len(l) - s + 1 ELSE 0
        /\ \A j \in 1..(Len(l) - s + 1) : SubSeq(l, s, Len(l))[j] = l[s + j - 1]
    BY <1>1, <2>2, SubSeqProperties
  <2>0. b = SubSeq(l, s, Len(l))
    BY <2>1
  <2> HIDE DEF b
  <2>4. Len(b) = Len(l) - p /\ b \in Seq(S)
    <3>1. CASE s <= Len(l)
      BY <1>1, <2>0, <2>2, <2>3, <3>1
    <3>2. CASE ~(s <= Len(l))
      <4>0. p \in Int /\ p <= Len(l) /\ Len(l) \in Int
        BY <1>1
      <4>1. Len(l) - p = 0
        BY <2>1, <3>2, <4>0
      <4> QED  BY <2>0, <2>3, <3>2, <4>1
    <3> QED  BY <3>1, <3>2
  <2>5. ASSUME NEW j \in 1..(Len(l) - p) PROVE b[j] = l[p + j]
    <3>1. s + j - 1 = p + j
      BY <2>1
    <3> QED  BY <2>0, <2>2, <2>3, <3>1
  <2> QED  BY <2>4, <2>5
<1>4. /\ a \o b \in Seq(S) /\ Len(a \o b) = Len(l) - 1
      /\ \A j \in 1..(Len(l) - 1) : (a \o b)[j] = IF j <= p - 1 THEN a[j] ELSE b[j - (p - 1)]
  <2> HIDE DEF a, b
  <2>1. /\ a \o b \in Seq(S) /\ Len(a \o b) = Len(a) + Len(b)
        /\ \A j \in 1..(Len(a) + Len(b)) : (a \o b)[j] = IF j <= Len(a) THEN a[j] ELSE b[j - Len(a)]
    BY <1>2, <1>3, ConcatProperties
  <2>2. Len(a) + Len(b) = Len(l) - 1
    BY <1>1, <1>2, <1>3
  <2> QED  BY <1>2, <2>1, <2>2
<1>5. ASSUME NEW j \in 1..(Len(l) - 1) PROVE (a \o b)[j] = IF j < p THEN l[j] ELSE l[j + 1]
  <2> HIDE DEF a, b
  <2>1. CASE j < p
    BY <1>1, <1>2, <1>4, <2>1
  <2>2. CASE ~(j < p)
    <3>1. j - (p - 1) \in 1..(Len(l) - p) /\ p + (j - (p - 1)) = j + 1
      BY <1>1, <2>2
    <3>2. b[j - (p - 1)] = l[j + 1]
      BY <1>3, <3>1
    <3> QED  BY <1>1, <1>4, <2>2, <3>2
  <2> QED  BY <2>1, <2>2
<1> QED  BY <1>4, <1>5 DEF RemoveAt

\* m is l with e at place p.
IsInserted(S, l, p, e, m) ==
  /\ m \in Seq(S) /\ Len(m) = Len(l) + 1
  /\ \A j \in 1..(Len(l) + 1) : m[j] = IF j < p THEN l[j] ELSE IF j = p THEN e ELSE l[j - 1]

\* What InsertAt does to the places of a list.
LEMMA InsertedAt ==
  ASSUME NEW S, NEW l \in Seq(S), NEW p \in 1..(Len(l) + 1), NEW e \in S
  PROVE  IsInserted(S, l, p, e, InsertAt(l, p, e))
<1> DEFINE a == SubSeq(l, 1, p - 1)
           b == SubSeq(l, p, Len(l))
           c == a \o <<e>>
<1>1. Len(l) \in Nat /\ l \in [1..Len(l) -> S]
  BY LenProperties
<1>2. /\ a \in Seq(S) /\ Len(a) = p - 1
      /\ \A j \in 1..(p - 1) : a[j] = l[j]
  BY <1>1, SubSeqProperties
<1>3. /\ b \in Seq(S) /\ Len(b) = Len(l) - p + 1
      /\ \A j \in 1..(Len(l) - p + 1) : b[j] = l[p + j - 1]
  BY <1>1, SubSeqProperties
<1>4. <<e>> \in Seq(S) /\ Len(<<e>>) = 1 /\ <<e>>[1] = e
  OBVIOUS
<1>5. /\ c \in Seq(S) /\ Len(c) = p
      /\ \A j \in 1..p : c[j] = IF j <= p - 1 THEN a[j] ELSE <<e>>[j - (p - 1)]
  <2> HIDE DEF a
  <2> QED  BY <1>1, <1>2, <1>4, ConcatProperties
<1>6. \A j \in 1..p : c[j] = IF j < p THEN l[j] ELSE e
  <2> SUFFICES ASSUME NEW j \in 1..p PROVE c[j] = IF j < p THEN l[j] ELSE e
    OBVIOUS
  <2> HIDE DEF c, a
  <2>1. CASE j < p
    BY <1>1, <1>2, <1>5, <2>1
  <2>2. CASE j = p
    <3>1. p - (p - 1) = 1 /\ ~(p <= p - 1) /\ p \in 1..p
      BY <1>1
    <3> QED  BY <1>4, <1>5, <2>2, <3>1
  <2> QED  BY <2>1, <2>2
<1>7. /\ c \o b \in Seq(S) /\ Len(c \o b) = Len(l) + 1
      /\ \A j \in 1..(Len(l) + 1) : (c \o b)[j] = IF j <= p THEN c[j] ELSE b[j - p]
  <2> HIDE DEF c, b
  <2> QED  BY <1>1, <1>3, <1>5, ConcatProperties
<1>8. ASSUME NEW j \in 1..(Len(l) + 1)
      PROVE  (c \o b)[j] = IF j < p THEN l[j] ELSE IF j = p THEN e ELSE l[j - 1]
  <2> HIDE DEF c, b
  <2>1. CASE j <= p
    BY <1>1, <1>6, <1>7, <2>1
  <2>2. CASE ~(j <= p)
    <3>1. j - p \in 1..(Len(l) - p + 1) /\ p + (j - p) - 1 = j - 1
      BY <1>1, <2>2
    <3>2. b[j - p] = l[j - 1]
      BY <1>3, <3>1
    <3> QED  BY <1>1, <1>7, <2>2, <3>2
  <2> QED  BY <2>1, <2>2
<1>9. InsertAt(l, p, e) = c \o b
  BY DEF InsertAt
<1> QED  BY <1>7, <1>8, <1>9 DEF IsInserted

\* The active watchdogs and the ticks they have left.
LEMMA LeftIs ==
  ASSUME NEW ww, WdSound(ww)
  PROVE  /\ \A i \in 1..Len(ww.list) : Left(ww)[ww.list[i]] = Remaining(ww)[i]
         /\ \A e \in Wd : (\A i \in 1..Len(ww.list) : ww.list[i] # e) => Left(ww)[e] = -1
         /\ \A e \in Wd : /\ Left(ww)[e] \in Nat \union {-1}
                          /\ WDOG_ISACTIVE(ww, e) <=> Left(ww)[e] # -1
                          /\ WDOG_ISACTIVE(ww, e) <=> \E i \in 1..Len(ww.list) : ww.list[i] = e
                          /\ WDOG_ISACTIVE(ww, e) => wd_gettime(ww, e) = Left(ww)[e]
         /\ Left(ww) = [e \in Wd |-> Left(ww)[e]]
<1> DEFINE n == Len(ww.list)
<1>1. n \in Nat /\ ww.list \in [1..n -> Wd] /\ DOMAIN ww.list = 1..n /\ Once(ww.list)
  BY WdFields
<1>2. \A i \in 1..n : Remaining(ww)[i] \in Nat
  BY <1>1, RemainingIs DEF Sums
<1>3. \A e \in Wd : WDOG_ISACTIVE(ww, e) <=> \E i \in 1..n : ww.list[i] = e
  BY <1>1 DEF WDOG_ISACTIVE, ToSet
<1>4. ASSUME NEW i \in 1..n PROVE /\ WDOG_ISACTIVE(ww, ww.list[i]) /\ ww.list[i] \in Wd
                                  /\ Position(ww, ww.list[i]) = i
  <2>1. WDOG_ISACTIVE(ww, ww.list[i]) /\ ww.list[i] \in Wd
    BY <1>1, <1>3
  <2>2. Position(ww, ww.list[i]) = i
    BY <1>1 DEF Position, Once
  <2> QED  BY <2>1, <2>2
<1>5. ASSUME NEW i \in 1..n PROVE Left(ww)[ww.list[i]] = Remaining(ww)[i]
  BY <1>4 DEF Left, wd_gettime
<1>6. ASSUME NEW e \in Wd, \A i \in 1..n : ww.list[i] # e PROVE Left(ww)[e] = -1 /\ ~WDOG_ISACTIVE(ww, e)
  BY <1>3, <1>6 DEF Left
<1>7. ASSUME NEW e \in Wd PROVE /\ Left(ww)[e] \in Nat \union {-1}
                                /\ WDOG_ISACTIVE(ww, e) <=> Left(ww)[e] # -1
                                /\ WDOG_ISACTIVE(ww, e) => wd_gettime(ww, e) = Left(ww)[e]
  <2>1. CASE \E i \in 1..n : ww.list[i] = e
    <3>1. PICK i \in 1..n : ww.list[i] = e
      BY <2>1
    <3>2. WDOG_ISACTIVE(ww, e) /\ Left(ww)[e] = Remaining(ww)[i]
      BY <1>4, <1>5, <3>1
    <3>3. Left(ww)[e] \in Nat
      BY <1>2, <3>2
    <3>4. wd_gettime(ww, e) = Left(ww)[e]
      BY <3>2 DEF Left
    <3> QED  BY <3>2, <3>3, <3>4
  <2>2. CASE ~\E i \in 1..n : ww.list[i] = e
    BY <1>6, <2>2
  <2> QED  BY <2>1, <2>2
<1>8. Left(ww) = [e \in Wd |-> Left(ww)[e]]
  BY DEF Left
<1> QED  BY <1>3, <1>5, <1>6, <1>7, <1>8

-----------------------------------------------------------------------------
\* The functions of sched/wdog, as their callers see them.

\* The watchdogs other than d are not disturbed.
Kept(ww, u, d) == \A e \in Wd \ {d} : Left(u)[e] = Left(ww)[e] /\ u.func[e] = ww.func[e]

\* A list with its sums determines the ticks that are left.
LEMMA LeftFrom ==
  ASSUME NEW u, WdSound(u), NEW g, Sums(g, Len(u.list), Lags(u))
  PROVE  \A i \in 1..Len(u.list) : Left(u)[u.list[i]] = g[i]
<1>1. g = Remaining(u)
  BY RemainingIs, SumsUnique
<1> QED  BY <1>1, LeftIs

\* Place i leaves a delta list, and its lag goes to the next place.
CutOut(n, i, L, old, R, M, lag) ==
  /\ n \in Nat /\ i \in 1..n /\ L \in [1..n -> Wd] /\ \A k, m \in 1..n : L[k] = L[m] => k = m
  /\ old \in [Wd -> Nat] /\ R \in [0..n -> Nat] /\ \A k \in 1..n : R[k] = R[k - 1] + old[L[k]]
  /\ M \in [1..(n - 1) -> Wd] /\ \A k \in 1..(n - 1) : M[k] = IF k < i THEN L[k] ELSE L[k + 1]
  /\ lag \in [Wd -> Nat]
  /\ \A e \in Wd : lag[e] = IF e = L[i] THEN 0
                            ELSE IF i < n /\ e = L[i + 1] THEN old[e] + old[L[i]] ELSE old[e]

\* The sum at place j of the shorter list.
SumWithout(R, i, j) == IF j < i THEN R[j] ELSE R[j + 1]
SumsWithout(n, i, R, M, lag) ==
  \A j \in 1..(n - 1) : SumWithout(R, i, j) = SumWithout(R, i, j - 1) + lag[M[j]]

\* The other places keep their sums.
LEMMA CancelSum ==
  ASSUME NEW n, NEW i, NEW L, NEW old, NEW R, NEW M, NEW lag, CutOut(n, i, L, old, R, M, lag)
  PROVE  SumsWithout(n, i, R, M, lag)
<1> SUFFICES ASSUME NEW j \in 1..(n - 1) PROVE SumWithout(R, i, j) = SumWithout(R, i, j - 1) + lag[M[j]]
  BY DEF SumsWithout
<1> USE DEF CutOut, SumWithout
<1>1. CASE j < i
  <2>1. j \in 1..n /\ M[j] = L[j] /\ L[j] \in Wd /\ R[j] = R[j - 1] + old[L[j]]
    BY <1>1
  <2>2. L[j] # L[i]
    BY <1>1, <2>1
  <2>3. ASSUME i < n PROVE L[j] # L[i + 1]
    <3>1. i + 1 \in 1..n /\ i + 1 # j
      BY <1>1, <2>3
    <3> QED  BY <2>1, <3>1
  <2>4. lag[M[j]] = old[L[j]]
    BY <2>1, <2>2, <2>3
  <2>5. j - 1 < i
    BY <1>1
  <2> QED  BY <1>1, <2>1, <2>4, <2>5
<1>2. CASE j = i
  <2>1. i + 1 \in 1..n /\ M[j] = L[i + 1] /\ i < n /\ L[i + 1] \in Wd /\ i + 1 # i
    BY <1>2
  <2>2. L[i + 1] # L[i]
    BY <2>1
  <2>3. lag[M[j]] = old[L[i + 1]] + old[L[i]]
    BY <2>1, <2>2
  <2>4. R[i + 1] = R[i + 1 - 1] + old[L[i + 1]] /\ i + 1 - 1 = i
    BY <2>1
  <2>5. R[i] = R[i - 1] + old[L[i]] /\ R[i - 1] \in Nat /\ old[L[i]] \in Nat /\ old[L[i + 1]] \in Nat
    BY <2>1
  <2>6. ~(j < i) /\ j - 1 < i
    BY <1>2
  <2>7. R[i + 1] = R[i - 1] + lag[M[j]]
    <3> HIDE DEF CutOut
    <3> QED  BY <2>3, <2>4, <2>5
  <2> HIDE DEF CutOut
  <2> QED  BY <1>2, <2>6, <2>7
<1>3. CASE j > i
  <2>1. j + 1 \in 1..n /\ M[j] = L[j + 1] /\ L[j + 1] \in Wd /\ j + 1 # i /\ j + 1 # i + 1 /\ i + 1 \in 1..n
    BY <1>3
  <2>2. L[j + 1] # L[i] /\ L[j + 1] # L[i + 1]
    BY <2>1
  <2>3. lag[M[j]] = old[L[j + 1]]
    BY <2>1, <2>2
  <2>4. R[j + 1] = R[j + 1 - 1] + old[L[j + 1]] /\ j + 1 - 1 = j /\ j - 1 + 1 = j
    BY <2>1
  <2>5. ~(j < i) /\ ~(j - 1 < i)
    BY <1>3
  <2> QED  BY <2>3, <2>4, <2>5
<1> QED  BY <1>1, <1>2, <1>3

\* wd_cancel stops d and leaves all others their time: the watchdog behind d
\* inherits what d had left of its own lag.
LEMMA Cancelled ==
  ASSUME NEW ww, WdSound(ww), NEW d \in Wd, NEW u, u = wd_cancel(ww, d)
  PROVE  /\ WdSound(u) /\ u.unused = ww.unused
         /\ Left(u)[d] = -1 /\ Kept(ww, u, d)
<1>1. CASE ~WDOG_ISACTIVE(ww, d)
  <2>1. u = ww
    BY <1>1 DEF wd_cancel
  <2> QED  BY <1>1, <2>1, LeftIs DEF Kept
<1>2. CASE WDOG_ISACTIVE(ww, d)
  <2> DEFINE n == Len(ww.list)
             i == Position(ww, d)
             R == Remaining(ww)
             lag == [e \in Wd |-> IF e = d THEN 0
                                  ELSE IF i < n /\ e = ww.list[i + 1] THEN ww.lag[e] + ww.lag[d]
                                  ELSE ww.lag[e]]
             g == [j \in 0..(n - 1) |-> IF j < i THEN R[j] ELSE R[j + 1]]
  <2>1. /\ n \in Nat /\ ww.list \in Seq(Wd) /\ ww.list \in [1..n -> Wd] /\ DOMAIN ww.list = 1..n
        /\ Once(ww.list) /\ ww.lag \in [Wd -> Nat] /\ ww.func \in [Wd -> Func] /\ ww.unused \subseteq Wd
        /\ ww = [list |-> ww.list, lag |-> ww.lag, func |-> ww.func, unused |-> ww.unused]
    BY WdFields
  <2>2. i \in 1..n /\ ww.list[i] = d
    BY <1>2, <2>1 DEF WDOG_ISACTIVE, ToSet, Position
  <2>3. Sums(R, n, Lags(ww))
    BY RemainingIs
  <2>4. /\ u.list = RemoveAt(ww.list, i) /\ u.lag = lag
        /\ u.func = [ww.func EXCEPT ![d] = NoFunc] /\ u.unused = ww.unused
        /\ u = [list |-> u.list, lag |-> u.lag, func |-> u.func, unused |-> u.unused]
    BY <1>2, <2>1 DEF wd_cancel
  <2>5. /\ u.list \in Seq(Wd) /\ Len(u.list) = n - 1
        /\ \A j \in 1..(n - 1) : u.list[j] = IF j < i THEN ww.list[j] ELSE ww.list[j + 1]
    BY <2>1, <2>2, <2>4, RemovedAt
  <2> HIDE DEF i, n, R
  <2>6. lag \in [Wd -> Nat]
    BY <2>1
  <2> HIDE DEF lag
  <2>7. Once(u.list)
    <3> SUFFICES ASSUME NEW j \in 1..(n - 1), NEW k \in 1..(n - 1), u.list[j] = u.list[k] PROVE j = k
      BY <2>5 DEF Once
    <3>1. \A a, b \in 1..n : ww.list[a] = ww.list[b] => a = b
      BY <2>1 DEF Once, n
    <3>2. PICK a \in 1..n : a = IF j < i THEN j ELSE j + 1
      BY <2>1, <2>2
    <3>3. PICK b \in 1..n : b = IF k < i THEN k ELSE k + 1
      BY <2>1, <2>2
    <3>4. u.list[j] = ww.list[a] /\ u.list[k] = ww.list[b]
      BY <2>5, <3>2, <3>3
    <3>5. a = b
      BY <3>1, <3>4
    <3> QED  BY <2>1, <2>2, <3>2, <3>3, <3>5
  <2>8. WdSound(u)
    <3>1. u.func \in [Wd -> Func]
      BY <2>1, <2>4 DEF Func
    <3> QED  BY <2>1, <2>4, <2>5, <2>6, <2>7, <3>1 DEF WdSound, Wdogs
  <2>9. Sums(g, n - 1, Lags(u))
    <3>1. R \in [0..n -> Nat] /\ R[0] = 0 /\ \A j \in 1..n : R[j] = R[j - 1] + ww.lag[ww.list[j]]
      BY <2>3 DEF Sums, Lags, n
    <3>2. g \in [0..(n - 1) -> Nat] /\ g[0] = 0
      BY <2>1, <2>2, <3>1
    <3>3. n - 1 \in Nat /\ Lags(u) \in [1..(n - 1) -> Nat]
      BY <2>1, <2>2, <2>5, <2>8, WdFields
    <3>4. ASSUME NEW j \in 1..(n - 1) PROVE g[j] = g[j - 1] + Lags(u)[j]
      <4>1. Lags(u)[j] = lag[u.list[j]]
        BY <2>4, <2>5 DEF Lags
      <4>2. PICK L \in [1..n -> Wd] : L = ww.list
        BY <2>1
      <4>3. PICK M \in [1..(n - 1) -> Wd] : M = u.list
        BY <2>5, <2>8, WdFields
      <4>4. PICK old \in [Wd -> Nat] : old = ww.lag
        BY <2>1
      <4>5. \A e \in Wd : lag[e] = IF e = L[i] THEN 0
                                   ELSE IF i < n /\ e = L[i + 1] THEN old[e] + old[L[i]] ELSE old[e]
        BY <2>2, <4>2, <4>4 DEF lag
      <4>6. \A k \in 1..n : R[k] = R[k - 1] + old[L[k]]
        BY <3>1, <4>2, <4>4
      <4>7. \A k \in 1..(n - 1) : M[k] = IF k < i THEN L[k] ELSE L[k + 1]
        BY <2>5, <4>2, <4>3
      <4>8. \A k, m \in 1..n : L[k] = L[m] => k = m
        BY <2>1, <4>2 DEF Once, n
      <4>9. SumWithout(R, i, j) = SumWithout(R, i, j - 1) + lag[M[j]]
        <5>1. CutOut(n, i, L, old, R, M, lag)
          BY <2>1, <2>2, <2>6, <3>1, <4>5, <4>6, <4>7, <4>8 DEF CutOut
        <5> HIDE DEF g
        <5>2. SumsWithout(n, i, R, M, lag)
          BY <5>1, CancelSum
        <5> QED  BY <5>2 DEF SumsWithout
      <4>10. j \in 0..(n - 1) /\ j - 1 \in 0..(n - 1)
        BY <2>1
      <4> QED  BY <4>1, <4>3, <4>9, <4>10 DEF SumWithout
    <3> QED  BY <3>2, <3>3, <3>4 DEF Sums
  <2>10. \A j \in 1..(n - 1) : Left(u)[u.list[j]] = g[j]
    BY <2>5, <2>8, <2>9, LeftFrom
  <2>11. \A j \in 1..n : Left(ww)[ww.list[j]] = R[j]
    BY LeftIs DEF n, R
  <2>12. Left(u)[d] = -1
    <3>1. ASSUME NEW j \in 1..(n - 1) PROVE u.list[j] # d
      <4>1. PICK k \in 1..n : k = IF j < i THEN j ELSE j + 1
        BY <2>1, <2>2
      <4>2. u.list[j] = ww.list[k]
        BY <2>5, <4>1
      <4>3. k # i
        BY <2>1, <2>2, <4>1
      <4> QED  BY <2>1, <2>2, <4>2, <4>3 DEF Once, n
    <3> QED  BY <2>5, <2>8, <3>1, LeftIs
  <2>13. ASSUME NEW e \in Wd \ {d} PROVE Left(u)[e] = Left(ww)[e]
    <3>1. CASE \E j \in 1..n : ww.list[j] = e
      <4>1. PICK j \in 1..n : ww.list[j] = e
        BY <3>1
      <4>0. j # i
        BY <2>2, <4>1
      <4>2. PICK k \in 1..(n - 1) : k = IF j < i THEN j ELSE j - 1
        BY <2>1, <2>2, <4>0
      <4>4. (k < i /\ k = j) \/ (~(k < i) /\ k + 1 = j)
        BY <2>1, <2>2, <4>0, <4>2
      <4>5. k \in 0..(n - 1)
        BY <2>1
      <4>6. u.list[k] = IF k < i THEN ww.list[k] ELSE ww.list[k + 1]
        BY <2>5
      <4>3. u.list[k] = e /\ g[k] = R[j]
        BY <4>1, <4>4, <4>5, <4>6
      <4> HIDE DEF g
      <4> QED  BY <2>10, <2>11, <4>1, <4>3
    <3>2. CASE ~\E j \in 1..n : ww.list[j] = e
      <4>1. Left(ww)[e] = -1
        BY <3>2, LeftIs DEF n
      <4>2. ASSUME NEW j \in 1..(n - 1) PROVE u.list[j] # e
        <5>1. PICK k \in 1..n : k = IF j < i THEN j ELSE j + 1
          BY <2>1, <2>2
        <5>2. u.list[j] = ww.list[k]
          BY <2>1, <2>2, <2>5, <5>1
        <5> QED  BY <3>2, <5>2
      <4>3. Left(u)[e] = -1
        BY <2>5, <2>8, <4>2, LeftIs
      <4> QED  BY <4>1, <4>3
    <3> QED  BY <3>1, <3>2
  <2>14. \A e \in Wd \ {d} : u.func[e] = ww.func[e]
    BY <2>1, <2>4
  <2> QED  BY <2>4, <2>8, <2>12, <2>13, <2>14 DEF Kept
<1> QED  BY <1>1, <1>2

\* A watchdog d with the given delay goes to place i of a delta list, in front of
\* the first that expires later, which then counts from it.
PutIn(n, i, L, old, R, d, delay, M, lag) ==
  /\ n \in Nat /\ i \in 1..(n + 1) /\ L \in [1..n -> Wd] /\ \A k, m \in 1..n : L[k] = L[m] => k = m
  /\ d \in Wd /\ \A k \in 1..n : L[k] # d
  /\ old \in [Wd -> Nat] /\ R \in [0..n -> Nat] /\ \A k \in 1..n : R[k] = R[k - 1] + old[L[k]]
  /\ delay \in Nat /\ R[i - 1] <= delay /\ (i <= n => delay < R[i])
  /\ M \in [1..(n + 1) -> Wd]
  /\ \A k \in 1..(n + 1) : M[k] = IF k < i THEN L[k] ELSE IF k = i THEN d ELSE L[k - 1]
  /\ lag = [e \in Wd |-> IF e = d THEN delay - R[i - 1]
                         ELSE IF i <= n /\ e = L[i] THEN old[e] - (delay - R[i - 1]) ELSE old[e]]

\* The sum at place j of the longer list.
SumWith(R, i, delay, j) == IF j < i THEN R[j] ELSE IF j = i THEN delay ELSE R[j - 1]
SumsWith(n, i, R, delay, M, lag) ==
  \A j \in 1..(n + 1) : SumWith(R, i, delay, j) = SumWith(R, i, delay, j - 1) + lag[M[j]]

\* The other places keep their sums, and no lag becomes negative.
LEMMA StartSum ==
  ASSUME NEW n, NEW i, NEW L, NEW old, NEW R, NEW d, NEW delay, NEW M, NEW lag,
         PutIn(n, i, L, old, R, d, delay, M, lag)
  PROVE  lag \in [Wd -> Nat] /\ SumsWith(n, i, R, delay, M, lag)
<1> USE DEF PutIn
<1>1. R[i - 1] \in Nat /\ delay - R[i - 1] \in Nat
  OBVIOUS
<1>2. ASSUME i <= n PROVE /\ i \in 1..n /\ L[i] \in Wd /\ L[i] # d /\ old[L[i]] \in Nat
                          /\ R[i] = R[i - 1] + old[L[i]] /\ R[i] \in Nat
                          /\ old[L[i]] - (delay - R[i - 1]) = R[i] - delay
                          /\ R[i] - delay \in Nat
  <2>1. i \in 1..n
    BY <1>2
  <2>2. L[i] \in Wd /\ L[i] # d /\ R[i] = R[i - 1] + old[L[i]] /\ R[i] \in Nat /\ delay < R[i]
    BY <1>2, <2>1
  <2>3. old[L[i]] \in Nat /\ delay \in Nat
    BY <2>2
  <2> HIDE DEF PutIn
  <2> QED  BY <1>1, <2>1, <2>2, <2>3
<1>3. lag \in [Wd -> Nat]
  <2>1. ASSUME NEW e \in Wd PROVE lag[e] \in Nat
    <3>1. CASE e = d
      BY <1>1, <3>1
    <3>2. CASE e # d /\ i <= n /\ e = L[i]
      <4>1. lag[e] = old[L[i]] - (delay - R[i - 1])
        BY <3>2
      <4> QED  BY <1>2, <3>2, <4>1
    <3>3. CASE e # d /\ ~(i <= n /\ e = L[i])
      BY <3>3
    <3> QED  BY <3>1, <3>2, <3>3
  <2>2. lag = [e \in Wd |-> lag[e]]
    OBVIOUS
  <2> HIDE DEF PutIn
  <2> QED  BY <2>1, <2>2
<1>4. ASSUME NEW j \in 1..(n + 1) PROVE SumWith(R, i, delay, j) = SumWith(R, i, delay, j - 1) + lag[M[j]]
  <2>1. CASE j < i
    <3>1. j \in 1..n /\ M[j] = L[j] /\ L[j] \in Wd /\ L[j] # d /\ R[j] = R[j - 1] + old[L[j]]
      BY <2>1
    <3>2. ASSUME i <= n PROVE L[j] # L[i]
      <4>1. i \in 1..n /\ i # j
        BY <2>1, <3>2
      <4> QED  BY <3>1, <4>1
    <3>3. lag[M[j]] = old[L[j]]
      BY <3>1, <3>2
    <3>4. SumWith(R, i, delay, j) = R[j] /\ SumWith(R, i, delay, j - 1) = R[j - 1]
      BY <2>1 DEF SumWith
    <3> HIDE DEF PutIn
    <3> QED  BY <3>1, <3>3, <3>4
  <2>2. CASE j = i
    <3>1. M[j] = d /\ lag[d] = delay - R[i - 1] /\ delay \in Nat
      BY <2>2
    <3>2. SumWith(R, i, delay, j) = delay /\ SumWith(R, i, delay, j - 1) = R[i - 1]
      BY <2>2 DEF SumWith
    <3> HIDE DEF PutIn
    <3> QED  BY <1>1, <3>1, <3>2
  <2>3. CASE j = i + 1
    <3>1. i <= n /\ M[j] = L[i] /\ delay \in Nat
      <4>1. ~(j < i) /\ j # i /\ j - 1 = i /\ i <= n
        BY <2>3
      <4> QED  BY <4>1
    <3>2. lag[L[i]] = old[L[i]] - (delay - R[i - 1])
      BY <1>2, <3>1
    <3>3. SumWith(R, i, delay, j) = R[i] /\ SumWith(R, i, delay, j - 1) = delay
      <4>1. ~(j < i) /\ j # i /\ j - 1 = i /\ ~(j - 1 < i)
        BY <2>3
      <4> HIDE DEF PutIn
      <4> QED  BY <4>1 DEF SumWith
    <3> HIDE DEF PutIn
    <3> QED  BY <1>2, <3>1, <3>2, <3>3
  <2>4. CASE j > i + 1
    <3>1. /\ j - 1 \in 1..n /\ M[j] = L[j - 1] /\ L[j - 1] \in Wd /\ L[j - 1] # d
          /\ R[j - 1] = R[j - 1 - 1] + old[L[j - 1]] /\ i <= n /\ i \in 1..n /\ i # j - 1
      BY <2>4
    <3>2. L[j - 1] # L[i]
      BY <3>1
    <3>3. lag[M[j]] = old[L[j - 1]]
      BY <3>1, <3>2
    <3>4. SumWith(R, i, delay, j) = R[j - 1] /\ SumWith(R, i, delay, j - 1) = R[j - 1 - 1]
      BY <2>4 DEF SumWith
    <3> HIDE DEF PutIn
    <3> QED  BY <3>1, <3>3, <3>4
  <2>5. j < i \/ j = i \/ j = i + 1 \/ j > i + 1
    OBVIOUS
  <2> QED  BY <2>1, <2>2, <2>3, <2>4, <2>5
<1> QED  BY <1>3, <1>4 DEF SumsWith

\* The search of wd_start: the first place whose watchdog expires later.
LEMMA PlaceFound ==
  ASSUME NEW n, NEW f, NEW R, Sums(R, n, f), NEW delay \in Nat
  PROVE  \E i \in 1..(n + 1) : /\ \A k \in 1..(i - 1) : R[k] <= delay
                               /\ i <= n => R[i] > delay
<1> DEFINE F == {i \in 1..(n + 1) : i <= n => R[i] > delay}
<1>1. n \in Nat /\ R \in [0..n -> Nat]
  BY DEF Sums
<1>2. F \in SUBSET Nat /\ n + 1 \in F
  BY <1>1
<1>3. PICK i \in F : \A k \in F : i <= k
  <2> HIDE DEF F
  <2> QED  BY <1>2, LeastElement
<1>4. ASSUME NEW k \in 1..(i - 1) PROVE R[k] <= delay
  <2>1. k \in 1..(n + 1) /\ k <= n /\ k \in 0..n /\ k < i
    BY <1>1, <1>3
  <2>2. k \notin F
    <3> HIDE DEF F
    <3>1. i \in Nat
      BY <1>2
    <3> QED  BY <1>3, <2>1, <3>1
  <2>3. R[k] \in Nat
    BY <1>1, <2>1
  <2> QED  BY <2>1, <2>2, <2>3
<1> QED  BY <1>3, <1>4

\* wd_start gives d its time and leaves all others theirs.
LEMMA StartedIs ==
  ASSUME NEW ww, WdSound(ww), NEW d \in Wd, NEW ticks \in Nat, NEW f \in Func,
         NEW v, v = wd_start(ww, d, ticks, f)
  PROVE  /\ WdSound(v) /\ v.unused = ww.unused
         /\ Left(v)[d] = ticks + 1 /\ v.func[d] = f /\ Kept(ww, v, d)
<1>1. PICK u : u = wd_cancel(ww, d)
  OBVIOUS
<1>2. /\ WdSound(u) /\ u.unused = ww.unused /\ Left(u)[d] = -1 /\ Kept(ww, u, d)
  BY <1>1, Cancelled
<1> DEFINE n == Len(u.list)
           R == Remaining(u)
<1>3. PICK delay \in Nat : delay = IF ticks <= 0 THEN 1 ELSE ticks + 1
  OBVIOUS
<1>4. delay = ticks + 1
  BY <1>3
<1>5. /\ n \in Nat /\ u.list \in Seq(Wd) /\ u.list \in [1..n -> Wd] /\ Once(u.list)
      /\ u.lag \in [Wd -> Nat] /\ u.func \in [Wd -> Func] /\ u.unused \subseteq Wd
      /\ u = [list |-> u.list, lag |-> u.lag, func |-> u.func, unused |-> u.unused]
  BY <1>2, WdFields
<1>6. Sums(R, n, Lags(u))
  BY <1>2, RemainingIs
<1> DEFINE P(i) == /\ \A k \in 1..(i - 1) : R[k] <= delay
                   /\ i <= n => R[i] > delay
           i == CHOOSE i \in 1..(n + 1) : P(i)
           lag == [e \in Wd |-> IF e = d THEN delay - R[i - 1]
                                ELSE IF i <= n /\ e = u.list[i] THEN u.lag[e] - (delay - R[i - 1])
                                ELSE u.lag[e]]
<1>7. i \in 1..(n + 1) /\ P(i)
  <2>1. \E k \in 1..(n + 1) : P(k)
    BY <1>3, <1>6, PlaceFound
  <2> HIDE DEF P
  <2> QED  BY <2>1
<1>8. v = [u EXCEPT !.list = InsertAt(u.list, i, d), !.func = [u.func EXCEPT ![d] = f], !.lag = lag]
  BY <1>1, <1>3 DEF wd_start
<1>9. /\ v.list = InsertAt(u.list, i, d) /\ v.func = [u.func EXCEPT ![d] = f] /\ v.lag = lag
      /\ v.unused = u.unused
      /\ v = [list |-> v.list, lag |-> v.lag, func |-> v.func, unused |-> v.unused]
  <2> HIDE DEF i, lag
  <2> QED  BY <1>5, <1>8
<1>10. R[i - 1] <= delay /\ (i <= n => delay < R[i])
  <2>1. R \in [0..n -> Nat] /\ R[0] = 0
    BY <1>6 DEF Sums
  <2> HIDE DEF i, R
  <2>2. CASE i = 1
    BY <1>3, <1>5, <1>7, <2>1, <2>2
  <2>3. CASE i # 1
    <3>1. i - 1 \in 1..(i - 1)
      BY <1>5, <1>7, <2>3
    <3> QED  BY <1>7, <3>1
  <2> QED  BY <2>2, <2>3, <1>5, <1>7
<1> HIDE DEF n, R, i, P
<1>27. n \in Nat /\ i \in 1..(n + 1)
  BY <1>5, <1>7
<1>11. /\ v.list \in Seq(Wd) /\ Len(v.list) = n + 1
       /\ \A j \in 1..(n + 1) :
            v.list[j] = IF j < i THEN u.list[j] ELSE IF j = i THEN d ELSE u.list[j - 1]
  <2>1. u.list \in Seq(Wd) /\ i \in 1..(Len(u.list) + 1)
    BY <1>5, <1>7 DEF n
  <2>2. PICK l : l = InsertAt(u.list, i, d)
    OBVIOUS
  <2>3. IsInserted(Wd, u.list, i, d, l)
    BY <2>1, <2>2, InsertedAt
  <2>4. v.list = l
    BY <1>9, <2>2
  <2> QED  BY <2>3, <2>4 DEF n, IsInserted
<1>12. v.list \in [1..(n + 1) -> Wd]
  BY <1>11, LenProperties
<1>13. PICK L \in [1..n -> Wd] : L = u.list
  BY <1>5
<1>14. PICK M \in [1..(n + 1) -> Wd] : M = v.list
  BY <1>12
<1>15. PICK old \in [Wd -> Nat] : old = u.lag
  BY <1>5
<1>16. PutIn(n, i, L, old, R, d, delay, M, lag)
  <2>1. \A k, m \in 1..n : L[k] = L[m] => k = m
    BY <1>5, <1>13 DEF Once, n
  <2>2. \A k \in 1..n : L[k] # d
    <3>1. ~\E k \in 1..n : u.list[k] = d
      BY <1>2, LeftIs DEF n
    <3> QED  BY <1>13, <3>1
  <2>3. R \in [0..n -> Nat] /\ \A k \in 1..n : R[k] = R[k - 1] + old[L[k]]
    BY <1>6, <1>13, <1>15 DEF Sums, Lags, n
  <2>4. \A k \in 1..(n + 1) : M[k] = IF k < i THEN L[k] ELSE IF k = i THEN d ELSE L[k - 1]
    BY <1>11, <1>13, <1>14
  <2>5. lag = [e \in Wd |-> IF e = d THEN delay - R[i - 1]
                            ELSE IF i <= n /\ e = L[i] THEN old[e] - (delay - R[i - 1]) ELSE old[e]]
    BY <1>13, <1>15
  <2> HIDE DEF lag
  <2> QED  BY <1>3, <1>5, <1>7, <1>10, <2>1, <2>2, <2>3, <2>4, <2>5 DEF PutIn
<1> HIDE DEF lag
<1>17. lag \in [Wd -> Nat] /\ SumsWith(n, i, R, delay, M, lag)
  BY <1>16, StartSum
<1>18. /\ \A k, m \in 1..n : L[k] = L[m] => k = m
       /\ \A k \in 1..n : L[k] # d
  BY <1>16 DEF PutIn
<1>19. Once(v.list)
  <2> SUFFICES ASSUME NEW j \in 1..(n + 1), NEW k \in 1..(n + 1), M[j] = M[k] PROVE j = k
    BY <1>11, <1>14 DEF Once
  <2>1. \A a \in 1..(n + 1) : \/ a = i /\ M[a] = d
                              \/ a < i /\ a \in 1..n /\ M[a] = L[a]
                              \/ a > i /\ a - 1 \in 1..n /\ M[a] = L[a - 1]
    <3> SUFFICES ASSUME NEW a \in 1..(n + 1)
                 PROVE  \/ a = i /\ M[a] = d
                        \/ a < i /\ a \in 1..n /\ M[a] = L[a]
                        \/ a > i /\ a - 1 \in 1..n /\ M[a] = L[a - 1]
      OBVIOUS
    <3>1. M[a] = IF a < i THEN L[a] ELSE IF a = i THEN d ELSE L[a - 1]
      BY <1>11, <1>13, <1>14
    <3>2. CASE a < i
      BY <1>27, <3>1, <3>2
    <3>3. CASE a = i
      BY <1>27, <3>1, <3>3
    <3>4. CASE a > i
      BY <1>27, <3>1, <3>4
    <3> QED  BY <1>27, <3>2, <3>3, <3>4
  <2>2. CASE j = i \/ k = i
    BY <1>18, <2>1, <2>2
  <2>3. CASE j < i /\ k < i
    BY <1>18, <2>1, <2>3, <1>27
  <2>4. CASE j > i /\ k > i
    <3>1. j - 1 \in 1..n /\ k - 1 \in 1..n /\ L[j - 1] = L[k - 1]
      BY <1>27, <2>1, <2>4
    <3>2. j - 1 = k - 1
      BY <1>18, <3>1
    <3> QED  BY <3>2
  <2>5. CASE j < i /\ k > i
    <3>1. j \in 1..n /\ k - 1 \in 1..n /\ L[j] = L[k - 1]
      BY <1>27, <2>1, <2>5
    <3>2. j = k - 1
      BY <1>18, <3>1
    <3> QED  BY <1>27, <2>5, <3>2
  <2>6. CASE j > i /\ k < i
    <3>1. k \in 1..n /\ j - 1 \in 1..n /\ L[k] = L[j - 1]
      BY <1>27, <2>1, <2>6
    <3>2. k = j - 1
      BY <1>18, <3>1
    <3> QED  BY <1>27, <2>6, <3>2
  <2> QED  BY <1>27, <2>2, <2>3, <2>4, <2>5, <2>6
<1>20. WdSound(v)
  <2>1. v.func \in [Wd -> Func]
    BY <1>5, <1>9
  <2> QED  BY <1>5, <1>9, <1>11, <1>17, <1>19, <2>1 DEF WdSound, Wdogs
<1> DEFINE g == [j \in 0..(n + 1) |-> SumWith(R, i, delay, j)]
<1>21. Sums(g, n + 1, Lags(v))
  <2>1. R \in [0..n -> Nat] /\ R[0] = 0
    BY <1>6 DEF Sums
  <2>2. \A j \in 0..(n + 1) : SumWith(R, i, delay, j) \in Nat
    <3> SUFFICES ASSUME NEW j \in 0..(n + 1) PROVE SumWith(R, i, delay, j) \in Nat
      OBVIOUS
    <3>1. CASE j < i
      BY <1>27, <2>1, <3>1 DEF SumWith
    <3>2. CASE j = i
      BY <1>3, <1>27, <3>2 DEF SumWith
    <3>3. CASE j > i
      BY <1>27, <2>1, <3>3 DEF SumWith
    <3> QED  BY <1>27, <3>1, <3>2, <3>3
  <2>3. SumWith(R, i, delay, 0) = 0
    BY <1>27, <2>1 DEF SumWith
  <2>4. n + 1 \in Nat /\ Lags(v) \in [1..(n + 1) -> Nat]
    BY <1>5, <1>11, <1>20, WdFields
  <2>5. ASSUME NEW j \in 1..(n + 1) PROVE g[j] = g[j - 1] + Lags(v)[j]
    <3>1. Lags(v)[j] = lag[M[j]]
      BY <1>9, <1>11, <1>14 DEF Lags
    <3>2. SumWith(R, i, delay, j) = SumWith(R, i, delay, j - 1) + lag[M[j]]
      BY <1>17 DEF SumsWith
    <3>3. j \in 0..(n + 1) /\ j - 1 \in 0..(n + 1)
      BY <1>5
    <3> QED  BY <3>1, <3>2, <3>3
  <2>6. g \in [0..(n + 1) -> Nat] /\ g[0] = 0
    BY <1>5, <2>2, <2>3
  <2> HIDE DEF g
  <2> QED  BY <2>4, <2>5, <2>6 DEF Sums
<1>22. \A j \in 1..(n + 1) : Left(v)[M[j]] = SumWith(R, i, delay, j)
  <2>1. \A j \in 1..(n + 1) : Left(v)[v.list[j]] = g[j]
    <3> HIDE DEF g
    <3> QED  BY <1>11, <1>20, <1>21, LeftFrom
  <2>2. \A j \in 1..(n + 1) : g[j] = SumWith(R, i, delay, j)
    BY <1>27
  <2> HIDE DEF g
  <2> QED  BY <1>14, <2>1, <2>2
<1>23. \A j \in 1..n : Left(u)[L[j]] = R[j]
  BY <1>2, <1>13, LeftIs DEF n, R
<1>24. Left(v)[d] = ticks + 1
  <2>1. M[i] = d /\ SumWith(R, i, delay, i) = delay
    BY <1>7, <1>11, <1>14 DEF SumWith
  <2> QED  BY <1>4, <1>7, <1>22, <2>1
<1>25. ASSUME NEW e \in Wd \ {d} PROVE Left(v)[e] = Left(u)[e]
  <2>1. CASE \E j \in 1..n : L[j] = e
    <3>1. PICK j \in 1..n : L[j] = e
      BY <2>1
    <3>2. PICK k \in 1..(n + 1) : k = IF j < i THEN j ELSE j + 1
      BY <1>27
    <3>3. (k < i /\ k = j) \/ (k > i /\ k - 1 = j)
      BY <1>27, <3>2
    <3>4. M[k] = e /\ SumWith(R, i, delay, k) = R[j]
      <4>1. M[k] = IF k < i THEN L[k] ELSE IF k = i THEN d ELSE L[k - 1]
        BY <1>11, <1>13, <1>14
      <4>2. CASE k < i /\ k = j
        BY <3>1, <4>1, <4>2 DEF SumWith
      <4>3. CASE k > i /\ k - 1 = j
        <5>1. ~(k < i) /\ k # i
          BY <1>27, <4>3
        <5> QED  BY <3>1, <4>1, <4>3, <5>1 DEF SumWith
      <4> QED  BY <3>3, <4>2, <4>3
    <3> QED  BY <1>22, <1>23, <3>1, <3>4
  <2>2. CASE ~\E j \in 1..n : L[j] = e
    <3>1. Left(u)[e] = -1
      BY <1>2, <1>13, <2>2, LeftIs DEF n
    <3>2. ASSUME NEW k \in 1..(n + 1) PROVE v.list[k] # e
      <4>1. \/ M[k] = d
            \/ \E j \in 1..n : M[k] = L[j]
        BY <1>27, <1>11, <1>13, <1>14
      <4> QED  BY <1>14, <2>2, <4>1
    <3>3. Left(v)[e] = -1
      <4>1. \A k \in 1..Len(v.list) : v.list[k] # e
        BY <1>11, <3>2
      <4>2. \A x \in Wd : (\A k \in 1..Len(v.list) : v.list[k] # x) => Left(v)[x] = -1
        BY <1>20, LeftIs
      <4> QED  BY <4>1, <4>2
    <3> QED  BY <3>1, <3>3
  <2> QED  BY <2>1, <2>2
<1>26. v.func[d] = f /\ \A e \in Wd \ {d} : v.func[e] = u.func[e]
  BY <1>5, <1>9
<1> QED  BY <1>2, <1>9, <1>20, <1>24, <1>25, <1>26 DEF Kept

\* A watchdog is due exactly if the head of the list is; the tick takes one from
\* every active watchdog.
LEMMA DueIs ==
  ASSUME NEW ww, WdSound(ww)
  PROVE  /\ Expired(ww) => Head(ww.list) \in Wd /\ Left(ww)[Head(ww.list)] = 0
         /\ ~Expired(ww) => \A e \in Wd : Left(ww)[e] # 0
<1> DEFINE n == Len(ww.list)
           R == Remaining(ww)
<1>1. n \in Nat /\ ww.list \in [1..n -> Wd] /\ ww.list \in Seq(Wd) /\ ww.lag \in [Wd -> Nat]
  BY WdFields
<1>2. Sums(R, n, Lags(ww))
  BY RemainingIs
<1>3. ASSUME ww.list # <<>>
      PROVE  /\ 1 \in 1..n /\ Head(ww.list) = ww.list[1] /\ ww.list[1] \in Wd
             /\ R[1] = ww.lag[ww.list[1]] /\ R[1] \in Nat /\ Left(ww)[Head(ww.list)] = R[1]
  <2>1. n # 0 /\ Head(ww.list) = ww.list[1]
    BY <1>1, <1>3, EmptySeq
  <2>2. 1 \in 1..n /\ ww.list[1] \in Wd
    BY <1>1, <2>1
  <2>3. R[1] = R[1 - 1] + Lags(ww)[1] /\ R[0] = 0 /\ R[1] \in Nat
    BY <1>1, <1>2, <2>2 DEF Sums
  <2>4. Lags(ww)[1] = ww.lag[ww.list[1]] /\ ww.lag[ww.list[1]] \in Nat
    BY <1>1, <2>2 DEF Lags
  <2>5. Left(ww)[ww.list[1]] = R[1]
    BY <2>2, LeftIs
  <2> QED  BY <2>1, <2>2, <2>3, <2>4, <2>5
<1>4. ASSUME Expired(ww) PROVE Head(ww.list) \in Wd /\ Left(ww)[Head(ww.list)] = 0
  BY <1>1, <1>3, <1>4 DEF Expired
<1>5. ASSUME ~Expired(ww), NEW e \in Wd, Left(ww)[e] = 0 PROVE FALSE
  <2>1. PICK i \in 1..n : ww.list[i] = e
    BY <1>5, LeftIs
  <2>2. R[i] = 0
    BY <1>5, <2>1, LeftIs
  <2>3. ww.list # <<>>
    BY <1>1, <2>1
  <2>4. R[1] <= R[i]
    <3>1. 1 \in 0..n /\ i \in 0..n /\ 1 <= i
      BY <1>1, <1>3, <2>3
    <3> QED  BY <1>2, <3>1, SumsGrow
  <2> QED  BY <1>1, <1>3, <1>5, <2>2, <2>3, <2>4 DEF Expired
<1> QED  BY <1>4, <1>5

\* The tick takes one from the time of every active watchdog, though wd_timer
\* counts for the head only.
LEMMA Ticked ==
  ASSUME NEW ww, WdSound(ww), ~Expired(ww), NEW u, u = wd_timer(ww)
  PROVE  /\ WdSound(u) /\ u.unused = ww.unused /\ u.func = ww.func
         /\ \A e \in Wd : Left(u)[e] = IF Left(ww)[e] = -1 THEN -1 ELSE Left(ww)[e] - 1
<1> DEFINE n == Len(ww.list)
           R == Remaining(ww)
<1>1. /\ n \in Nat /\ ww.list \in [1..n -> Wd] /\ ww.list \in Seq(Wd) /\ ww.lag \in [Wd -> Nat]
      /\ Once(ww.list) /\ ww.func \in [Wd -> Func] /\ ww.unused \subseteq Wd
      /\ ww = [list |-> ww.list, lag |-> ww.lag, func |-> ww.func, unused |-> ww.unused]
  BY WdFields
<1>2. CASE ww.list = <<>>
  <2>1. u = ww
    BY <1>2 DEF wd_timer
  <2>2. \A i \in 1..n : FALSE
    BY <1>2
  <2>3. \A e \in Wd : Left(ww)[e] = -1
    BY <2>2, LeftIs
  <2> QED  BY <2>1, <2>3
<1>3. CASE ww.list # <<>>
  <2> DEFINE h == Head(ww.list)
             lag == [ww.lag EXCEPT ![h] = @ - 1]
  <2>1. n # 0 /\ h = ww.list[1]
    BY <1>1, <1>3, EmptySeq
  <2>2. 1 \in 1..n /\ h \in Wd
    BY <1>1, <2>1
  <2>3. ww.lag[h] \in Nat /\ ww.lag[h] > 0
    BY <1>1, <1>3, <2>2 DEF Expired
  <2>4. lag \in [Wd -> Nat] /\ lag[h] = ww.lag[h] - 1 /\ \A e \in Wd \ {h} : lag[e] = ww.lag[e]
    <3> HIDE DEF h
    <3> QED  BY <1>1, <2>2, <2>3
  <2>5. /\ u.list = ww.list /\ u.lag = lag /\ u.func = ww.func /\ u.unused = ww.unused
        /\ u = [list |-> u.list, lag |-> u.lag, func |-> u.func, unused |-> u.unused]
    <3>1. u = [ww EXCEPT !.lag = lag]
      BY <1>1, <1>3 DEF wd_timer
    <3> HIDE DEF lag
    <3> QED  BY <1>1, <3>1
  <2> HIDE DEF lag, h
  <2>6. WdSound(u)
    BY <1>1, <2>4, <2>5 DEF WdSound, Wdogs
  <2>7. R \in [0..n -> Nat] /\ R[0] = 0 /\ \A j \in 1..n : R[j] = R[j - 1] + ww.lag[ww.list[j]]
    BY RemainingIs DEF Sums, Lags
  <2> DEFINE g == [j \in 0..n |-> IF j = 0 THEN 0 ELSE R[j] - 1]
  <2> HIDE DEF R, n
  <2>8. R[1] = ww.lag[h]
    <3>1. R[1] = R[1 - 1] + ww.lag[h] /\ 1 - 1 = 0
      BY <2>1, <2>2, <2>7
    <3> QED  BY <2>3, <2>7, <3>1
  <2>9. ASSUME NEW j \in 1..n PROVE R[j] >= 1 /\ R[j] \in Nat
    <3>1. Sums(R, n, Lags(ww)) /\ 1 \in 0..n /\ j \in 0..n /\ 1 <= j
      BY <1>1, <2>2, RemainingIs DEF R, n
    <3>2. R[1] <= R[j]
      BY <3>1, SumsGrow
    <3> QED  BY <1>1, <2>3, <2>7, <2>8, <3>1, <3>2
  <2>10. g \in [0..n -> Nat] /\ g[0] = 0
    BY <1>1, <2>9
  <2>11. ASSUME NEW j \in 1..n PROVE g[j] = g[j - 1] + Lags(u)[j]
    <3>1. Lags(u)[j] = lag[ww.list[j]]
      BY <2>5 DEF Lags, n
    <3>2. j \in 0..n /\ j - 1 \in 0..n /\ g[j] = R[j] - 1
      BY <1>1
    <3>3. R[j] = R[j - 1] + ww.lag[ww.list[j]]
      BY <2>7
    <3>4. CASE j = 1
      <4>1. g[j - 1] = 0 /\ lag[ww.list[j]] = ww.lag[h] - 1
        BY <2>1, <2>4, <3>2, <3>4
      <4> HIDE DEF g
      <4> QED  BY <2>3, <2>8, <3>1, <3>2, <3>4, <4>1
    <3>5. CASE j # 1
      <4>1. ww.list[j] # h /\ ww.list[j] \in Wd
        BY <1>1, <2>1, <2>2, <3>5 DEF Once, n
      <4>2. lag[ww.list[j]] = ww.lag[ww.list[j]] /\ ww.lag[ww.list[j]] \in Nat
        BY <1>1, <2>4, <4>1
      <4>3. j - 1 # 0 /\ R[j - 1] \in Nat
        BY <2>7, <3>2, <3>5
      <4>4. g[j - 1] = R[j - 1] - 1
        BY <3>2, <4>3
      <4> HIDE DEF g
      <4> QED  BY <3>1, <3>2, <3>3, <4>2, <4>3, <4>4
    <3> QED  BY <3>4, <3>5
  <2>12. Lags(u) \in [1..n -> Nat]
    BY <2>5, <2>6, WdFields DEF n
  <2>13. Sums(g, n, Lags(u))
    <3> HIDE DEF g
    <3> QED  BY <1>1, <2>10, <2>11, <2>12 DEF Sums
  <2>14. ASSUME NEW e \in Wd PROVE Left(u)[e] = IF Left(ww)[e] = -1 THEN -1 ELSE Left(ww)[e] - 1
    <3>1. CASE \E j \in 1..n : ww.list[j] = e
      <4>1. PICK j \in 1..n : ww.list[j] = e
        BY <3>1
      <4>2. Left(ww)[e] = R[j]
        BY <4>1, LeftIs DEF n, R
      <4>3. Left(u)[e] = g[j]
        <5> HIDE DEF g
        <5> QED  BY <2>5, <2>6, <2>13, <4>1, LeftFrom DEF n
      <4>4. g[j] = R[j] - 1 /\ R[j] # -1
        BY <1>1, <2>9
      <4> HIDE DEF g
      <4> QED  BY <4>2, <4>3, <4>4
    <3>2. CASE ~\E j \in 1..n : ww.list[j] = e
      <4>1. Left(ww)[e] = -1
        BY <3>2, LeftIs DEF n
      <4>2. Left(u)[e] = -1
        BY <2>5, <2>6, <3>2, LeftIs DEF n
      <4> QED  BY <4>1, <4>2
    <3> QED  BY <3>1, <3>2
  <2> QED  BY <2>5, <2>6, <2>14
<1> QED  BY <1>2, <1>3

-----------------------------------------------------------------------------
\* The watchdogs of D are stopped and given back, the others not disturbed.
Gone(ww, u, D) ==
  /\ WdSound(u) /\ u.unused = ww.unused \union D
  /\ \A d \in D : Left(u)[d] = -1
  /\ \A e \in Wd \ D : Left(u)[e] = Left(ww)[e] /\ u.func[e] = ww.func[e]

\* wd_delete.
LEMMA Deleted ==
  ASSUME NEW ww, WdSound(ww), NEW d \in Wd
  PROVE  Gone(ww, wd_delete(ww, d), {d})
<1>1. PICK u : u = wd_cancel(ww, d)
  OBVIOUS
<1>2. WdSound(u) /\ u.unused = ww.unused /\ Left(u)[d] = -1 /\ Kept(ww, u, d)
  BY <1>1, Cancelled
<1>3. PICK v : v = wd_delete(ww, d)
  OBVIOUS
<1>4. /\ u = [list |-> u.list, lag |-> u.lag, func |-> u.func, unused |-> u.unused]
      /\ u.unused \subseteq Wd /\ u \in Wdogs
  BY <1>2, WdFields DEF WdSound
<1>5. v = [u EXCEPT !.unused = u.unused \union {d}]
  BY <1>1, <1>3 DEF wd_delete
<1>6. v.list = u.list /\ v.lag = u.lag /\ v.func = u.func /\ v.unused = u.unused \union {d} /\ v \in Wdogs
  BY <1>4, <1>5 DEF Wdogs
<1>7. WdSound(v)
  BY <1>2, <1>6 DEF WdSound
<1>8. Left(v) = Left(u)
  BY <1>6 DEF Left, WDOG_ISACTIVE, wd_gettime, Remaining, Position
<1> QED  BY <1>2, <1>3, <1>6, <1>7, <1>8 DEF Gone, Kept

\* The allocation of a watchdog.
LEMMA AllocatedIs ==
  ASSUME NEW ww, WdSound(ww), NEW d \in wd_create(ww), NEW u, u = Allocated(ww, d)
  PROVE  /\ d \in ww.unused /\ d \in Wd
         /\ WdSound(u) /\ u.unused = ww.unused \ {d} /\ u.func = ww.func /\ Left(u) = Left(ww)
<1>1. /\ ww = [list |-> ww.list, lag |-> ww.lag, func |-> ww.func, unused |-> ww.unused]
      /\ ww.unused \subseteq Wd /\ ww \in Wdogs
  BY WdFields DEF WdSound
<1>2. d \in ww.unused
  BY DEF wd_create
<1>3. u = [ww EXCEPT !.unused = ww.unused \ {d}]
  BY DEF Allocated
<1>4. u.list = ww.list /\ u.lag = ww.lag /\ u.func = ww.func /\ u.unused = ww.unused \ {d} /\ u \in Wdogs
  BY <1>1, <1>3 DEF Wdogs
<1>5. WdSound(u)
  BY <1>4 DEF WdSound
<1>6. Left(u) = Left(ww)
  BY <1>4 DEF Left, WDOG_ISACTIVE, wd_gettime, Remaining, Position
<1> QED  BY <1>1, <1>2, <1>4, <1>5, <1>6

\* The fold of timer_deleteall as a recursive function.
LEMMA DeleteWdsIs ==
  ASSUME NEW ww, NEW D
  PROVE  DeleteWds(ww, D) =
           (CHOOSE it : it = [s \in SUBSET D |->
                                IF s = {} THEN ww
                                ELSE wd_delete(it[s \ {CHOOSE x \in s : TRUE}], CHOOSE x \in s : TRUE)])[D]
BY DEF DeleteWds, FoldSet, MapThenFoldSet

\* One watchdog after the other.
LEMMA GoneTwice ==
  ASSUME NEW ww, NEW u, NEW v, NEW A, NEW d, Gone(ww, u, A), Gone(u, v, {d})
  PROVE  Gone(ww, v, A \union {d})
<1>1. \A e \in A : Left(v)[e] = -1
  BY DEF Gone, WdSound, Wdogs
<1> QED  BY <1>1 DEF Gone

\* timer_deleteall stops and frees the watchdogs of all timers of the task, one
\* after the other, and disturbs no other.
LEMMA DeletedAll ==
  ASSUME NEW ww, WdSound(ww), NEW D \in SUBSET Wd
  PROVE  Gone(ww, DeleteWds(ww, D), D)
<1> DEFINE Pick(s) == CHOOSE x \in s : TRUE
           Body(it, s) == IF s = {} THEN ww ELSE wd_delete(it[s \ {Pick(s)}], Pick(s))
           E(it) == it = [s \in SUBSET D |-> Body(it, s)]
           Upto(it, n) == it = [s \in SUBSET D |-> it[s]]
                          /\ \A s \in SUBSET D : Cardinality(s) <= n => it[s] = Body(it, s)
           S == {n \in Nat : \E it : Upto(it, n)}
<1>1. ASSUME NEW s \in SUBSET D
      PROVE  /\ Cardinality(s) \in Nat /\ Cardinality(s) <= Cardinality(D) /\ Cardinality(D) \in Nat
             /\ Cardinality(s) = 0 <=> s = {}
             /\ s # {} => /\ Pick(s) \in s /\ s \ {Pick(s)} \in SUBSET D
                          /\ Cardinality(s \ {Pick(s)}) = Cardinality(s) - 1
  <2>1. IsFiniteSet(D)
    BY WdogAssumption, FS_Subset
  <2>2. IsFiniteSet(s) /\ Cardinality(s) <= Cardinality(D)
    BY <2>1, FS_Subset
  <2>3. Cardinality(s) \in Nat /\ Cardinality(D) \in Nat /\ (Cardinality(s) = 0 <=> s = {})
    BY <2>1, <2>2, FS_CardinalityType, FS_EmptySet
  <2>4. ASSUME s # {} PROVE Pick(s) \in s
    BY <2>4
  <2> HIDE DEF Pick
  <2>5. ASSUME s # {} PROVE Cardinality(s \ {Pick(s)}) = Cardinality(s) - 1
    BY <2>2, <2>4, <2>5, FS_RemoveElement
  <2> QED  BY <2>2, <2>3, <2>4, <2>5
<1> HIDE DEF Pick
<1>2. 0 \in S
  <2>1. Upto([s \in SUBSET D |-> ww], 0)
    <3>1. ASSUME NEW s \in SUBSET D, Cardinality(s) <= 0 PROVE s = {}
      <4>1. Cardinality(s) \in Nat /\ (Cardinality(s) = 0 <=> s = {})
        BY <1>1
      <4>2. Cardinality(s) = 0
        BY <3>1, <4>1
      <4> QED  BY <4>1, <4>2
    <3> QED  BY <3>1
  <2> QED  BY <2>1
<1>3. ASSUME NEW n \in Nat, n \in S PROVE n + 1 \in S
  <2>1. PICK h : Upto(h, n)
    BY <1>3
  <2> DEFINE k == [s \in SUBSET D |-> IF Cardinality(s) = n + 1 THEN Body(h, s) ELSE h[s]]
  <2>2. ASSUME NEW s \in SUBSET D, Cardinality(s) <= n + 1 PROVE k[s] = Body(k, s)
    <3>1. Body(k, s) = Body(h, s)
      <4>1. CASE s = {}
        BY <4>1
      <4>2. CASE s # {}
        <5>1. s \ {Pick(s)} \in SUBSET D /\ Cardinality(s \ {Pick(s)}) # n + 1
          BY <1>1, <2>2, <4>2
        <5>2. k[s \ {Pick(s)}] = h[s \ {Pick(s)}]
          BY <5>1
        <5> HIDE DEF k
        <5> QED  BY <4>2, <5>2
      <4> QED  BY <4>1, <4>2
    <3>2. CASE Cardinality(s) = n + 1
      <4>1. k[s] = Body(h, s)
        BY <3>2
      <4> HIDE DEF k, Body
      <4> QED  BY <3>1, <4>1
    <3>3. CASE Cardinality(s) # n + 1
      <4>1. Cardinality(s) <= n
        <5>1. Cardinality(s) \in Nat
          BY <1>1
        <5> QED  BY <2>2, <3>3, <5>1
      <4>2. h[s] = Body(h, s)
        <5> HIDE DEF Body
        <5> QED  BY <2>1, <4>1
      <4>3. k[s] = h[s]
        BY <3>3
      <4> HIDE DEF k, Body
      <4> QED  BY <3>1, <4>2, <4>3
    <3> QED  BY <3>2, <3>3
  <2>3. k = [s \in SUBSET D |-> k[s]]
    OBVIOUS
  <2>4. Upto(k, n + 1)
    <3> HIDE DEF k, Body
    <3> QED  BY <2>2, <2>3
  <2> HIDE DEF k, Upto
  <2> QED  BY <2>4
<1>4. \E it : E(it)
  <2>1. Cardinality(D) \in S
    <3>1. Cardinality(D) \in Nat
      BY <1>1
    <3> HIDE DEF S
    <3> QED  BY <1>2, <1>3, <3>1, CountingUp
  <2>2. PICK it : Upto(it, Cardinality(D))
    BY <2>1
  <2>3. \A s \in SUBSET D : it[s] = Body(it, s)
    <3> HIDE DEF Body
    <3> QED  BY <1>1, <2>2
  <2>4. E(it)
    <3>1. it = [s \in SUBSET D |-> it[s]]
      BY <2>2
    <3>2. [s \in SUBSET D |-> it[s]] = [s \in SUBSET D |-> Body(it, s)]
      <4> HIDE DEF Body
      <4> QED  BY <2>3
    <3> QED  BY <3>1, <3>2
  <2> HIDE DEF E
  <2> QED  BY <2>4
<1>5. PICK it : E(it) /\ DeleteWds(ww, D) = it[D]
  <2>1. DeleteWds(ww, D) = (CHOOSE it : E(it))[D]
    BY DeleteWdsIs DEF Pick
  <2> HIDE DEF E
  <2> QED  BY <1>4, <2>1
<1>6. ASSUME NEW s \in SUBSET D PROVE it[s] = Body(it, s)
  <2> HIDE DEF Body
  <2> QED  BY <1>5
<1> HIDE DEF E
<1> DEFINE T == {n \in Nat : \A s \in SUBSET D : Cardinality(s) = n => Gone(ww, it[s], s)}
<1>7. 0 \in T
  <2> SUFFICES ASSUME NEW s \in SUBSET D, Cardinality(s) = 0 PROVE Gone(ww, it[s], s)
    OBVIOUS
  <2>1. s = {} /\ it[s] = ww
    BY <1>1, <1>6
  <2>2. ww.unused \union {} = ww.unused
    OBVIOUS
  <2> QED  BY <2>1, <2>2 DEF Gone
<1>8. ASSUME NEW n \in Nat, n \in T PROVE n + 1 \in T
  <2> SUFFICES ASSUME NEW s \in SUBSET D, Cardinality(s) = n + 1 PROVE Gone(ww, it[s], s)
    OBVIOUS
  <2>1. s # {}
    <3>1. Cardinality(s) = 0 <=> s = {}
      BY <1>1
    <3> QED  BY <3>1
  <2>2. PICK d \in s : d = Pick(s)
    BY <1>1, <2>1
  <2>3. it[s] = wd_delete(it[s \ {d}], d)
    BY <1>6, <2>1, <2>2
  <2>4. s \ {d} \in SUBSET D /\ Cardinality(s \ {d}) = n
    BY <1>1, <2>1, <2>2
  <2>5. Gone(ww, it[s \ {d}], s \ {d})
    BY <1>8, <2>4
  <2>6. d \in Wd /\ WdSound(it[s \ {d}])
    BY <2>5 DEF Gone
  <2>7. Gone(it[s \ {d}], it[s], {d})
    BY <2>3, <2>6, Deleted
  <2>8. Gone(ww, it[s], (s \ {d}) \union {d})
    BY <2>5, <2>7, GoneTwice
  <2>9. (s \ {d}) \union {d} = s
    OBVIOUS
  <2> QED  BY <2>8, <2>9
<1>9. Cardinality(D) \in T
  <2>1. Cardinality(D) \in Nat
    BY <1>1
  <2> HIDE DEF T
  <2> QED  BY <1>7, <1>8, <2>1, CountingUp
<1> QED  BY <1>5, <1>9

-----------------------------------------------------------------------------
\* The inductive invariant of the timer system.

\* Whom the callback of an active watchdog reaches.
ServesTimer(d) == w.func[d] \in Tm /\ Live(w.func[d]) /\ pt[w.func[d]].wd = d
ServesSleep(d) == w.func[d] = SIG_TIMEOUT /\ hp.wd = d /\ hp.at \in {"asleep", "woken"}

\* Outside of the timer interrupt nothing is due.
NothingDue == ~isr => \A d \in Wd : Left(w)[d] # 0

ActiveServes ==
  \A d \in Wd : Left(w)[d] # -1 => d \notin w.unused /\ (ServesTimer(d) \/ ServesSleep(d))

LiveHold ==
  \A x \in Tm : Live(x) =>
    /\ pt[x].wd \in Wd \ w.unused /\ pt[x].wd # hp.wd
    /\ \A y \in Tm \ {x} : Live(y) => pt[x].wd # pt[y].wd

\* A call in progress is about a timer of the caller.
OwnTimers == \A o \in Owner : call[o].at # "idle" => call[o].tm \in Tm /\ pt[call[o].tm].owner = o

\* The worker has a watchdog exactly while it waits, and it is running while the
\* worker is asleep.
WorkerHolds ==
  /\ hp.at \in {"asleep", "woken"} => hp.wd \in Wd \ w.unused
  /\ hp.at \notin {"asleep", "woken"} => hp.wd = NoSleep
  /\ hp.at = "asleep" => Left(w)[hp.wd] # -1 /\ ServesSleep(hp.wd)

TimerInv ==
  /\ isr \in BOOLEAN /\ WdSound(w) /\ TimerTypeOK
  /\ NothingDue /\ ActiveServes /\ LiveHold /\ OwnTimers /\ WorkerHolds

-----------------------------------------------------------------------------
\* The work queue.

\* Min of a set of naturals.
LEMMA MinIs ==
  ASSUME NEW S \in SUBSET Nat, S # {}
  PROVE  Min(S) \in S /\ Min(S) \in Nat /\ \A y \in S : Min(S) <= y
<1>1. \E x \in S : \A y \in S : x <= y
  BY LeastElement
<1> QED  BY <1>1 DEF Min

\* Max of a finite set of naturals.
LEMMA MaxIs ==
  ASSUME NEW S \in SUBSET Nat, IsFiniteSet(S), S # {}
  PROVE  Max(S) \in S /\ Max(S) \in Nat /\ \A y \in S : y <= Max(S)
<1> DEFINE Top(T) == \E x \in T : \A y \in T : x >= y
           C == {n \in Nat : \A T \in SUBSET S : Cardinality(T) = n /\ T # {} => Top(T)}
<1>1. ASSUME NEW T \in SUBSET S
      PROVE  /\ Cardinality(T) \in Nat /\ (Cardinality(T) = 0 <=> T = {})
             /\ \A x \in T : T \ {x} \in SUBSET S /\ Cardinality(T \ {x}) = Cardinality(T) - 1
  <2>1. IsFiniteSet(T)
    BY FS_Subset
  <2> QED  BY <2>1, FS_CardinalityType, FS_EmptySet, FS_RemoveElement
<1>2. 0 \in C
  BY <1>1
<1>3. ASSUME NEW n \in Nat, n \in C PROVE n + 1 \in C
  <2> SUFFICES ASSUME NEW T \in SUBSET S, Cardinality(T) = n + 1, T # {} PROVE Top(T)
    OBVIOUS
  <2>1. PICK x \in T : TRUE
    OBVIOUS
  <2>2. T \ {x} \in SUBSET S /\ Cardinality(T \ {x}) = n
    BY <1>1, <2>1
  <2>3. CASE T \ {x} = {}
    <3>1. \A y \in T : y = x
      BY <2>3
    <3>2. x \in Nat
      OBVIOUS
    <3> QED  BY <3>1, <3>2
  <2>4. CASE T \ {x} # {}
    <3>1. Top(T \ {x})
      <4> HIDE DEF Top
      <4> QED  BY <1>3, <2>2, <2>4
    <3>2. PICK m \in T \ {x} : \A y \in T \ {x} : m >= y
      BY <3>1
    <3>3. x \in Nat /\ m \in Nat /\ m \in T /\ \A y \in T : y \in Nat
      OBVIOUS
    <3>4. CASE m >= x
      <4>1. \A y \in T : m >= y
        BY <3>2, <3>4
      <4> QED  BY <3>3, <4>1
    <3>5. CASE ~(m >= x)
      <4>1. ASSUME NEW y \in T PROVE x >= y
        <5>1. CASE y = x
          BY <3>3, <5>1
        <5>2. CASE y # x
          BY <3>2, <3>3, <3>5, <5>2
        <5> QED  BY <5>1, <5>2
      <4> QED  BY <4>1
    <3> QED  BY <3>4, <3>5
  <2> QED  BY <2>3, <2>4
<1>4. Cardinality(S) \in C
  <2>1. Cardinality(S) \in Nat
    BY <1>1
  <2> HIDE DEF C
  <2> QED  BY <1>2, <1>3, <2>1, CountingUp
<1>5. Top(S)
  BY <1>4
<1>6. Max(S) \in S /\ \A y \in S : Max(S) >= y
  BY <1>5 DEF Max
<1>7. PICK m \in S : m = Max(S)
  BY <1>6
<1> QED  BY <1>6, <1>7

\* The bounds of the counters.
LEMMA WorkBounds ==
  /\ Max(DelayArg \union {0}) \in Nat /\ \A y \in DelayArg \union {0} : y \in Nat /\ y <= Max(DelayArg \union {0})
  /\ SinceMax \in Nat /\ PERIOD <= SinceMax /\ PERIOD \in Nat \ {0}
<1>1. IsFiniteSet(DelayArg) /\ DelayArg \in SUBSET Nat /\ PERIOD \in Nat \ {0}
  BY WorkQueueAssumption
<1>2. IsFiniteSet(DelayArg \union {0}) /\ IsFiniteSet(DelayArg \union {PERIOD})
  BY <1>1, FS_AddElement
<1>3. DelayArg \union {0} \in SUBSET Nat /\ DelayArg \union {PERIOD} \in SUBSET Nat
  BY <1>1
<1>4. DelayArg \union {0} # {} /\ DelayArg \union {PERIOD} # {}
  OBVIOUS
<1>5. Max(DelayArg \union {0}) \in Nat /\ \A y \in DelayArg \union {0} : y <= Max(DelayArg \union {0})
  BY <1>2, <1>3, <1>4, MaxIs
<1>6. SinceMax \in Nat /\ \A y \in DelayArg \union {PERIOD} : y <= SinceMax
  BY <1>2, <1>3, <1>4, MaxIs DEF SinceMax
<1> QED  BY <1>1, <1>3, <1>5, <1>6

\* Queue and work_s agree, and no work is older than it has to be.
WorkInv == WorkTypeOK /\ QueuedHasWorker /\ \A k \in Work : work[k].age <= work[k].delay

\* A list without one of its elements.
LEMMA RemovedOnce ==
  ASSUME NEW S, NEW l \in Seq(S), IsInjective(l), NEW p \in 1..Len(l), NEW m, m = RemoveAt(l, p)
  PROVE  m \in Seq(S) /\ IsInjective(m) /\ ToSet(m) = ToSet(l) \ {l[p]}
<1>1. /\ m \in Seq(S) /\ Len(m) = Len(l) - 1
      /\ \A j \in 1..(Len(l) - 1) : m[j] = IF j < p THEN l[j] ELSE l[j + 1]
  BY RemovedAt
<1>2. /\ Len(l) \in Nat /\ DOMAIN l = 1..Len(l)
      /\ DOMAIN m = 1..(Len(l) - 1)
  BY <1>1, LenProperties
<1>3. \A a, b \in 1..Len(l) : l[a] = l[b] => a = b
  BY <1>2 DEF IsInjective
<1>4. ASSUME NEW j \in 1..(Len(l) - 1)
      PROVE  \E a \in 1..Len(l) : m[j] = l[a] /\ a # p /\ a = IF j < p THEN j ELSE j + 1
  <2>1. PICK a \in 1..Len(l) : a = IF j < p THEN j ELSE j + 1
    BY <1>2
  <2>2. m[j] = l[a]
    BY <1>1, <2>1
  <2>3. a # p
    BY <1>2, <2>1
  <2> QED  BY <2>1, <2>2, <2>3
<1>5. IsInjective(m)
  <2> SUFFICES ASSUME NEW j \in 1..(Len(l) - 1), NEW k \in 1..(Len(l) - 1), m[j] = m[k] PROVE j = k
    BY <1>2 DEF IsInjective
  <2>1. PICK a \in 1..Len(l) : m[j] = l[a] /\ a = IF j < p THEN j ELSE j + 1
    BY <1>4
  <2>2. PICK b \in 1..Len(l) : m[k] = l[b] /\ b = IF k < p THEN k ELSE k + 1
    BY <1>4
  <2>3. a = b
    BY <1>3, <2>1, <2>2
  <2> QED  BY <1>2, <2>1, <2>2, <2>3
<1>6. ToSet(m) \subseteq ToSet(l) \ {l[p]}
  <2> SUFFICES ASSUME NEW j \in 1..(Len(l) - 1) PROVE m[j] \in ToSet(l) \ {l[p]}
    BY <1>2 DEF ToSet
  <2>1. PICK a \in 1..Len(l) : m[j] = l[a] /\ a # p
    BY <1>4
  <2> QED  BY <1>2, <1>3, <2>1 DEF ToSet
<1>7. ToSet(l) \ {l[p]} \subseteq ToSet(m)
  <2> SUFFICES ASSUME NEW a \in 1..Len(l), l[a] # l[p] PROVE l[a] \in ToSet(m)
    BY <1>2 DEF ToSet
  <2>1. a # p
    OBVIOUS
  <2>2. PICK j \in 1..(Len(l) - 1) : j = IF a < p THEN a ELSE a - 1
    BY <1>2, <2>1
  <2>3. (j < p /\ j = a) \/ (~(j < p) /\ j + 1 = a)
    BY <1>2, <2>1, <2>2
  <2>4. m[j] = l[a]
    <3>1. m[j] = IF j < p THEN l[j] ELSE l[j + 1]
      BY <1>1
    <3> QED  BY <2>3, <3>1
  <2> QED  BY <1>2, <2>4 DEF ToSet
<1> QED  BY <1>1, <1>5, <1>6, <1>7

\* m is a list without repetition of the elements of l and of k.
IsAppended(S, l, k, m) == m \in Seq(S) /\ IsInjective(m) /\ ToSet(m) = ToSet(l) \union {k}

\* A list with one element more.
LEMMA AppendedOnce ==
  ASSUME NEW S, NEW l \in Seq(S), IsInjective(l), NEW k \in S, k \notin ToSet(l)
  PROVE  IsAppended(S, l, k, Append(l, k))
<1>0. PICK m : m = Append(l, k)
  OBVIOUS
<1>1. /\ Len(l) \in Nat /\ DOMAIN l = 1..Len(l)
      /\ m \in Seq(S) /\ Len(m) = Len(l) + 1 /\ DOMAIN m = 1..(Len(l) + 1)
      /\ \A i \in 1..Len(l) : m[i] = l[i]
      /\ m[Len(l) + 1] = k
  BY <1>0, LenProperties, AppendProperties
<1>2. \A i \in 1..Len(l) : l[i] \in ToSet(l) /\ l[i] # k
  BY <1>1 DEF ToSet
<1>3. \A i \in 1..(Len(l) + 1) : i \in 1..Len(l) \/ i = Len(l) + 1
  BY <1>1
<1>4. IsInjective(m)
  BY <1>1, <1>2, <1>3 DEF IsInjective
<1>5. ToSet(m) = ToSet(l) \union {k}
  BY <1>1, <1>3 DEF ToSet
<1> QED  BY <1>0, <1>1, <1>4, <1>5 DEF IsAppended

\* The fields of the work queue.
LEMMA WorkFields ==
  ASSUME WorkInv
  PROVE  /\ q \in Seq(Work) /\ Len(q) \in Nat /\ DOMAIN q = 1..Len(q) /\ q \in [1..Len(q) -> Work]
         /\ IsInjective(q) /\ ToSet(q) \subseteq Work
         /\ \A k \in Work : /\ work[k] \in [worker : BOOLEAN, delay : DelayArg \union {0},
                                            age : 0..Max(DelayArg \union {0})]
                            /\ work[k].delay \in Nat /\ work[k].age \in Nat /\ work[k].age <= work[k].delay
                            /\ work[k].worker <=> k \in ToSet(q)
         /\ kills \subseteq Work
         /\ hp.at \in {"start", "calling", "asleep", "woken"} /\ hp.next \in 0..PERIOD
         /\ hp.since \in 0..SinceMax /\ hp.wd \in Wd \union {NoSleep}
         /\ hp = [at |-> hp.at, next |-> hp.next, since |-> hp.since, wd |-> hp.wd]
<1>1. WorkTypeOK /\ QueuedHasWorker /\ \A k \in Work : work[k].age <= work[k].delay
  BY DEF WorkInv
<1>2. q \in Seq(Work) /\ kills \subseteq Work
  BY <1>1 DEF WorkTypeOK
<1>3. Len(q) \in Nat /\ DOMAIN q = 1..Len(q) /\ q \in [1..Len(q) -> Work]
  BY <1>2, LenProperties
<1>4. ToSet(q) \subseteq Work
  BY <1>3 DEF ToSet
<1>5. IsInjective(q) /\ \A k \in Work : work[k].worker <=> k \in ToSet(q)
  BY <1>1 DEF QueuedHasWorker
<1>6. \A k \in Work : work[k] \in [worker : BOOLEAN, delay : DelayArg \union {0},
                                   age : 0..Max(DelayArg \union {0})]
  BY <1>1 DEF WorkTypeOK
<1>7. \A k \in Work : work[k].delay \in DelayArg \union {0} /\ work[k].age \in 0..Max(DelayArg \union {0})
  BY <1>6
<1>8. \A k \in Work : work[k].delay \in Nat /\ work[k].age \in Nat
  BY <1>7, WorkBounds
<1>9. /\ hp.at \in {"start", "calling", "asleep", "woken"} /\ hp.next \in 0..PERIOD
      /\ hp.since \in 0..SinceMax /\ hp.wd \in Wd \union {NoSleep}
      /\ hp = [at |-> hp.at, next |-> hp.next, since |-> hp.since, wd |-> hp.wd]
  BY <1>1 DEF WorkTypeOK
<1> QED  BY <1>1, <1>2, <1>3, <1>4, <1>5, <1>6, <1>8, <1>9

\* What the scan of work_process finds.
LEMMA ScanFinds ==
  ASSUME WorkInv
  PROVE  /\ FirstReady # 0 => FirstReady \in 1..Len(q)
         /\ NextDelay \in 0..PERIOD
         /\ FirstReady = 0 => \A k \in ToSet(q) : NextDelay <= work[k].delay - work[k].age
<1> DEFINE I == {i \in 1..Len(q) : Ready(q[i])}
<1>1. Len(q) \in Nat /\ ToSet(q) \subseteq Work
  BY WorkFields
<1>2. FirstReady = IF I # {} THEN Min(I) ELSE 0
  BY DEF FirstReady, SelectInSeq
<1>3. ASSUME FirstReady # 0 PROVE FirstReady \in 1..Len(q)
  <2>1. I # {} /\ FirstReady = Min(I)
    BY <1>2, <1>3
  <2>2. I \in SUBSET Nat
    BY <1>1
  <2>3. Min(I) \in I
    <3> HIDE DEF I
    <3> QED  BY <2>1, <2>2, MinIs
  <2> QED  BY <2>1, <2>3
<1>4. ASSUME NEW k \in Work PROVE Remainder(k) \in Nat /\ Remainder(k) <= work[k].delay - work[k].age
  <2>1. PICK a \in Nat : a = work[k].delay
    BY WorkFields
  <2>2. PICK b \in Nat : b = work[k].age
    BY WorkFields
  <2>3. PICK c \in Nat : c = hp.since
    <3>1. hp.since \in 0..SinceMax /\ SinceMax \in Nat
      BY WorkFields, WorkBounds
    <3> QED  BY <3>1
  <2>4. b <= a
    BY <2>1, <2>2, WorkFields
  <2>5. PICK m : m = Min({a, b + c})
    OBVIOUS
  <2>6. m \in {a, b + c} /\ m <= a
    <3>1. {a, b + c} \in SUBSET Nat /\ {a, b + c} # {}
      OBVIOUS
    <3>2. m \in {a, b + c} /\ \A y \in {a, b + c} : m <= y
      BY <2>5, <3>1, MinIs
    <3> QED  BY <3>2
  <2>7. Remainder(k) = a - m
    BY <2>1, <2>2, <2>3, <2>5 DEF Remainder
  <2> QED  BY <2>1, <2>2, <2>4, <2>6, <2>7
<1>5. Passed \subseteq Work
  <2>1. CASE FirstReady = 0
    BY <1>1, <2>1 DEF Passed
  <2>2. CASE FirstReady # 0
    <3>1. \A i \in 1..(FirstReady - 1) : i \in 1..Len(q)
      BY <1>1, <1>3, <2>2
    <3>2. \A i \in 1..Len(q) : q[i] \in Work
      BY WorkFields
    <3> QED  BY <2>2, <3>1, <3>2 DEF Passed
  <2> QED  BY <2>1, <2>2
<1> DEFINE N == {hp.next} \union {Remainder(k) : k \in Passed}
<1>6. /\ NextDelay \in Nat /\ NextDelay <= hp.next
      /\ \A k \in Passed : NextDelay <= Remainder(k)
  <2>1. hp.next \in 0..PERIOD
    BY WorkFields
  <2>2. N \in SUBSET Nat /\ N # {}
    BY <1>4, <1>5, <2>1
  <2>3. Min(N) \in Nat /\ \A y \in N : Min(N) <= y
    <3> HIDE DEF N
    <3> QED  BY <2>2, MinIs
  <2>4. NextDelay = Min(N)
    BY DEF NextDelay
  <2>5. hp.next \in N /\ \A k \in Passed : Remainder(k) \in N
    OBVIOUS
  <2> HIDE DEF N
  <2> QED  BY <2>3, <2>4, <2>5
<1>7. NextDelay \in 0..PERIOD
  <2>1. hp.next \in 0..PERIOD /\ PERIOD \in Nat
    BY WorkFields, WorkBounds
  <2> QED  BY <1>6, <2>1
<1>8. ASSUME FirstReady = 0, NEW k \in ToSet(q) PROVE NextDelay <= work[k].delay - work[k].age
  <2>1. k \in Passed /\ k \in Work
    BY <1>1, <1>8 DEF Passed
  <2>2. NextDelay <= Remainder(k) /\ Remainder(k) \in Nat /\ Remainder(k) <= work[k].delay - work[k].age
    BY <1>4, <1>6, <2>1
  <2>3. work[k].delay \in Nat /\ work[k].age \in Nat
    BY <2>1, WorkFields
  <2> QED  BY <1>6, <2>2, <2>3
<1> QED  BY <1>3, <1>7, <1>8

\* The invariant of the work queue, field by field.
LEMMA WorkFrom ==
  ASSUME WorkInv, q' \in Seq(Work), IsInjective(q'), kills' \subseteq Work,
         work' \in [Work -> [worker : BOOLEAN, delay : DelayArg \union {0}, age : 0..Max(DelayArg \union {0})]],
         \A k \in Work : work'[k].age <= work'[k].delay /\ (work'[k].worker <=> k \in ToSet(q')),
         hp' \in [at : {"start", "calling", "asleep", "woken"},
                  next : 0..PERIOD, since : 0..SinceMax, wd : Wd \union {NoSleep}]
  PROVE  WorkInv'
BY DEF WorkInv, WorkTypeOK, QueuedHasWorker

WorkType == [worker : BOOLEAN, delay : DelayArg \union {0}, age : 0..Max(DelayArg \union {0})]
HpType == [at : {"start", "calling", "asleep", "woken"},
           next : 0..PERIOD, since : 0..SinceMax, wd : Wd \union {NoSleep}]

\* The worker before work_process, and work that is not queued.
LEMMA WorkConstants ==
  /\ Started \in HpType /\ Started.at = "start" /\ Started.wd = NoSleep
  /\ NoWork \in WorkType /\ NoWork.worker = FALSE /\ NoWork.age = 0 /\ NoWork.delay = 0
BY WorkBounds DEF Started, HpType, NoWork, WorkType

\* A change of one entry keeps the queue and the work_s in step.
LEMMA WorkOne ==
  ASSUME WorkInv, NEW k \in Work, NEW e \in WorkType, e.age <= e.delay, work' = [work EXCEPT ![k] = e],
         q' \in Seq(Work), IsInjective(q'), e.worker <=> k \in ToSet(q'),
         ToSet(q') \ {k} = ToSet(q) \ {k}, kills' \subseteq Work, hp' \in HpType
  PROVE  WorkInv'
<1>1. work \in [Work -> WorkType]
  BY DEF WorkInv, WorkTypeOK, WorkType
<1>2. work' \in [Work -> WorkType] /\ work'[k] = e /\ \A j \in Work \ {k} : work'[j] = work[j]
  BY <1>1
<1>3. ASSUME NEW j \in Work PROVE work'[j].age <= work'[j].delay /\ (work'[j].worker <=> j \in ToSet(q'))
  <2>1. CASE j = k
    BY <1>2, <2>1
  <2>2. CASE j # k
    BY <1>2, <2>2, WorkFields
  <2> QED  BY <2>1, <2>2
<1> QED  BY <1>2, <1>3, WorkFrom DEF WorkType, HpType

\* Every step keeps the work queue sound.
LEMMA WorkStep ==
  ASSUME WorkInv, WdSound(w), [Next]_vars
  PROVE  WorkInv'
<1>0. /\ q \in Seq(Work) /\ Len(q) \in Nat /\ IsInjective(q) /\ ToSet(q) \subseteq Work /\ kills \subseteq Work
      /\ hp \in HpType /\ work \in [Work -> WorkType]
      /\ \A k \in Work : work[k].worker <=> k \in ToSet(q)
  BY WorkFields DEF WorkInv, WorkTypeOK, WorkType, HpType
<1>1. ASSUME UNCHANGED workVars PROVE WorkInv'
  BY <1>1 DEF WorkInv, WorkTypeOK, QueuedHasWorker, workVars
<1>2. ASSUME WorkTick PROVE WorkInv'
  <2>1. /\ work' = [k \in Work |-> IF work[k].worker /\ ~Ready(k)
                                   THEN [work[k] EXCEPT !.age = @ + 1] ELSE work[k]]
        /\ hp' = IF hp.at = "calling" /\ hp.since < SinceMax THEN [hp EXCEPT !.since = @ + 1] ELSE hp
        /\ q' = q /\ kills' = kills
    BY <1>2 DEF WorkTick
  <2>2. ASSUME NEW k \in Work
        PROVE  /\ work'[k] \in WorkType /\ work'[k].worker = work[k].worker
               /\ work'[k].age <= work'[k].delay
    <3>1. CASE work[k].worker /\ ~Ready(k)
      <4>1. work'[k] = [work[k] EXCEPT !.age = @ + 1]
        BY <2>1, <3>1
      <4>2. /\ work[k] \in WorkType /\ work[k].delay \in Nat /\ work[k].age \in Nat
            /\ work[k].delay \in DelayArg \union {0}
        BY <1>0, WorkFields DEF WorkType
      <4>3. work[k].age + 1 <= work[k].delay
        BY <3>1, <4>2 DEF Ready
      <4>4. work[k].age + 1 \in 0..Max(DelayArg \union {0})
        BY <4>2, <4>3, WorkBounds
      <4> QED  BY <4>1, <4>2, <4>3, <4>4 DEF WorkType
    <3>2. CASE ~(work[k].worker /\ ~Ready(k))
      <4>1. work'[k] = work[k]
        BY <2>1, <3>2
      <4> QED  BY <1>0, <4>1, WorkFields
    <3> QED  BY <3>1, <3>2
  <2>3. work' \in [Work -> WorkType]
    <3>1. work' = [k \in Work |-> work'[k]]
      BY <2>1
    <3> QED  BY <2>2, <3>1
  <2>4. hp' \in HpType
    <3>1. hp.since \in 0..SinceMax /\ SinceMax \in Nat
      BY WorkFields, WorkBounds
    <3>2. CASE hp.at = "calling" /\ hp.since < SinceMax
      <4>1. hp.since + 1 \in 0..SinceMax
        BY <3>1, <3>2
      <4> QED  BY <1>0, <2>1, <3>2, <4>1 DEF HpType
    <3> QED  BY <1>0, <2>1, <3>2
  <2> QED  BY <1>0, <2>1, <2>2, <2>3, <2>4, WorkFrom DEF WorkType, HpType
<1>3. (hp' = IF hp.at = "asleep" THEN [hp EXCEPT !.at = "woken"] ELSE hp) => hp' \in HpType
  BY <1>0 DEF HpType
<1>4. ASSUME NEW k \in Work, WorkQueueCall(k) \/ WorkQueueFromIsr(k) PROVE WorkInv'
  <2>1. PICK delay \in DelayArg : work_qqueue(k, delay)
    BY <1>4 DEF WorkQueueCall, WorkQueueFromIsr
  <2>2. /\ kills' \subseteq Work /\ hp' \in HpType
    BY <1>0, <1>3, <1>4 DEF WorkQueueCall, WorkQueueFromIsr, work_signal
  <2>3. PICK e : e = [worker |-> TRUE, delay |-> delay, age |-> 0]
    OBVIOUS
  <2>4. k \notin ToSet(q) /\ work' = [work EXCEPT ![k] = e] /\ q' = Append(q, k)
    BY <1>0, <2>1, <2>3 DEF work_qqueue
  <2>5. e \in WorkType /\ e.age <= e.delay /\ e.worker
    <3>1. delay \in Nat /\ 0 \in 0..Max(DelayArg \union {0})
      BY WorkBounds
    <3> QED  BY <2>3, <3>1 DEF WorkType
  <2>6. q' \in Seq(Work) /\ IsInjective(q') /\ ToSet(q') = ToSet(q) \union {k}
    <3>1. PICK l \in Seq(Work) : l = q /\ IsInjective(l) /\ k \notin ToSet(l)
      BY <1>0, <2>4
    <3>2. IsAppended(Work, l, k, Append(l, k))
      BY <3>1, AppendedOnce
    <3> QED  BY <2>4, <3>1, <3>2 DEF IsAppended
  <2> QED  BY <2>2, <2>4, <2>5, <2>6, WorkOne
<1>5. ASSUME NEW k \in Work, WorkKill(k) PROVE WorkInv'
  <2>1. hp' \in HpType /\ kills' \subseteq Work /\ q' = q /\ work' = work
    BY <1>0, <1>3, <1>5 DEF WorkKill, work_signal
  <2> QED  BY <1>0, <2>1, WorkFields, WorkFrom DEF WorkType, HpType
<1>6. ASSUME NEW k \in Work, NEW i \in 1..Len(q), q[i] = k, q' = RemoveAt(q, i),
             work' = [work EXCEPT ![k] = NoWork], kills' = kills, hp' \in HpType
      PROVE  WorkInv'
  <2>1. q' \in Seq(Work) /\ IsInjective(q') /\ ToSet(q') = ToSet(q) \ {k}
    BY <1>0, <1>6, RemovedOnce
  <2>2. NoWork \in WorkType /\ NoWork.worker = FALSE /\ NoWork.age <= NoWork.delay
    BY WorkConstants
  <2> QED  BY <1>0, <1>6, <2>1, <2>2, WorkOne
<1>7. ASSUME NEW k \in Work, WorkCancel(k) PROVE WorkInv'
  <2>1. /\ work[k].worker /\ q' = RemoveFirst(q, k) /\ work' = [work EXCEPT ![k] = NoWork]
        /\ kills' = kills /\ hp' = hp
    BY <1>7 DEF WorkCancel
  <2> DEFINE I == {i \in 1..Len(q) : q[i] = k}
  <2>2. I # {} /\ I \in SUBSET Nat
    BY <1>0, <2>1, WorkFields DEF ToSet
  <2>3. PICK i : i = Min(I)
    OBVIOUS
  <2>4. i \in I
    <3> HIDE DEF I
    <3> QED  BY <2>2, <2>3, MinIs
  <2>5. q' = RemoveAt(q, i)
    BY <2>1, <2>2, <2>3 DEF RemoveFirst, SelectInSeq
  <2> QED  BY <1>0, <1>6, <2>1, <2>4, <2>5
<1>8. ASSUME WorkRun PROVE WorkInv'
  <2>1. /\ FirstReady # 0 /\ q' = RemoveAt(q, FirstReady) /\ kills' = kills
        /\ work' = [work EXCEPT ![q[FirstReady]] = NoWork]
        /\ hp' = [hp EXCEPT !.at = "calling", !.next = NextDelay]
    BY <1>8 DEF WorkRun
  <2>2. PICK i \in 1..Len(q) : i = FirstReady
    BY <2>1, ScanFinds
  <2>3. PICK k \in Work : k = q[i]
    BY WorkFields
  <2>4. hp' \in HpType
    BY <1>0, <2>1, ScanFinds DEF HpType
  <2> QED  BY <1>6, <2>1, <2>2, <2>3, <2>4
<1>9. ASSUME q' = q, work' = work, kills' = kills, hp' \in HpType PROVE WorkInv'
  BY <1>0, <1>9, WorkFields, WorkFrom DEF WorkType, HpType
<1>10. ASSUME WorkSleep PROVE WorkInv'
  <2>1. q' = q /\ work' = work /\ kills' = kills
    BY <1>10 DEF WorkSleep
  <2>2. \/ \E d \in wd_create(w) : hp' = [Started EXCEPT !.at = "asleep", !.wd = d]
        \/ hp' = Started
    BY <1>10 DEF WorkSleep
  <2>3. \A d \in wd_create(w) : d \in Wd
    <3> SUFFICES ASSUME NEW d \in wd_create(w) PROVE d \in Wd
      OBVIOUS
    <3>1. PICK u : u = Allocated(w, d)
      OBVIOUS
    <3> QED  BY <3>1, AllocatedIs
  <2>4. hp' \in HpType
    <3>1. ASSUME NEW d \in Wd PROVE [Started EXCEPT !.at = "asleep", !.wd = d] \in HpType
      BY WorkConstants DEF HpType
    <3> QED  BY <2>2, <2>3, <3>1, WorkConstants
  <2> QED  BY <1>9, <2>1, <2>4
<1>11. ASSUME SleepExpires PROVE WorkInv'
  BY <1>3, <1>9, <1>11 DEF SleepExpires
<1>12. ASSUME WorkResume PROVE WorkInv'
  BY <1>9, <1>12, WorkConstants DEF WorkResume
<1> QED
  BY <1>1, <1>2, <1>4, <1>5, <1>7, <1>8, <1>10, <1>11, <1>12
     DEF Next, vars, workVars, TickBegins, TickEnds, Expiration, WorkCall, Worker

-----------------------------------------------------------------------------
\* Steps of the timer system.

\* Only the watchdogs of D are started, stopped or served.
Undisturbed(D) ==
  /\ WdSound(w')
  /\ \A e \in Wd \ D : Left(w')[e] = Left(w)[e] /\ w'.func[e] = w.func[e]

\* None of them is set to expire in the current tick.
SetLater(D) == \A d \in D : Left(w')[d] \in (Nat \ {0}) \union {-1}

Waiting == {"asleep", "woken"}

\* The step that the independent timers take.
AbsStep == [Abs!Next]_(Abs!vars)

\* A watchdog that is not disturbed keeps its client.
LEMMA ServesKept ==
  ASSUME ActiveServes, NEW D \in SUBSET Wd, Undisturbed(D),
         \A x \in Tm : Live(x) /\ pt[x].wd \notin D => Live(x)' /\ pt'[x].wd = pt[x].wd,
         hp.at \in Waiting /\ hp.wd \notin D => hp'.wd = hp.wd /\ hp'.at \in Waiting,
         w'.unused \ D \subseteq w.unused,
         \A d \in D : Left(w')[d] # -1 => d \notin w'.unused /\ (ServesTimer(d)' \/ ServesSleep(d)')
  PROVE  ActiveServes'
<1> SUFFICES ASSUME NEW e \in Wd, Left(w')[e] # -1
             PROVE  e \notin w'.unused /\ (ServesTimer(e)' \/ ServesSleep(e)')
  BY DEF ActiveServes
<1>1. CASE e \in D
  BY <1>1
<1>2. CASE e \notin D
  <2>1. Left(w)[e] # -1 /\ w'.func[e] = w.func[e]
    BY <1>2 DEF Undisturbed
  <2>2. e \notin w.unused /\ (ServesTimer(e) \/ ServesSleep(e))
    BY <2>1 DEF ActiveServes
  <2>3. e \notin w'.unused
    BY <1>2, <2>2
  <2>4. CASE ServesTimer(e)
    BY <1>2, <2>1, <2>3, <2>4 DEF ServesTimer
  <2>5. CASE ServesSleep(e)
    BY <1>2, <2>1, <2>3, <2>5 DEF ServesSleep, Waiting
  <2> QED  BY <2>2, <2>4, <2>5
<1> QED  BY <1>1, <1>2

\* Timers keep their watchdogs to themselves when no timer is created.
LEMMA LiveKept ==
  ASSUME LiveHold,
         \A x \in Tm : Live(x)' => /\ Live(x) /\ pt'[x].wd = pt[x].wd
                                   /\ pt[x].wd \notin w'.unused /\ pt[x].wd # hp'.wd
  PROVE  LiveHold'
BY DEF LiveHold

\* The worker keeps its watchdog when no other client's step touches it.
LEMMA WorkerKept ==
  ASSUME WorkerHolds, NEW D \in SUBSET Wd, Undisturbed(D), w'.unused \ D \subseteq w.unused,
         hp'.at = hp.at \/ (hp.at \in Waiting /\ hp'.at = "woken"), hp'.wd = hp.wd, hp.wd \notin D
  PROVE  WorkerHolds'
<1>1. ASSUME hp'.at \in Waiting PROVE hp.wd \in Wd \ w'.unused
  BY <1>1 DEF WorkerHolds, Waiting
<1>2. ASSUME hp'.at \notin Waiting PROVE hp'.wd = NoSleep
  BY <1>2 DEF WorkerHolds, Waiting
<1>3. ASSUME hp'.at = "asleep" PROVE Left(w')[hp.wd] # -1 /\ w'.func[hp.wd] = SIG_TIMEOUT
  <2>1. hp.at = "asleep"
    BY <1>3 DEF Waiting
  <2>2. hp.wd \in Wd \ D /\ Left(w)[hp.wd] # -1 /\ w.func[hp.wd] = SIG_TIMEOUT
    BY <2>1 DEF WorkerHolds, ServesSleep
  <2> QED  BY <2>2 DEF Undisturbed
<1> QED  BY <1>1, <1>2, <1>3 DEF WorkerHolds, ServesSleep, Waiting

\* The time that the sleeping worker has left is not changed.
SleepKept == hp.at = "asleep" => Left(w')[hp.wd] = Left(w)[hp.wd]

\* A step on the watchdogs of others does not change it.
LEMMA SleepUndisturbed ==
  ASSUME WorkerHolds, NEW D \in SUBSET Wd, Undisturbed(D), hp.wd \notin D
  PROVE  SleepKept
BY DEF WorkerHolds, Undisturbed, SleepKept

\* Nothing becomes due.
LEMMA NotDueKept ==
  ASSUME NothingDue, NEW D \in SUBSET Wd, Undisturbed(D), SetLater(D), isr' = isr
  PROVE  NothingDue'
<1> SUFFICES ASSUME ~isr, NEW d \in Wd PROVE Left(w')[d] # 0
  BY DEF NothingDue
<1>1. CASE d \in D
  BY <1>1 DEF SetLater
<1>2. CASE d \notin D
  BY <1>2 DEF Undisturbed, NothingDue
<1> QED  BY <1>1, <1>2

\* The time of every watchdog.
LEMMA LeftFcn == Left(w) = [e \in Wd |-> Left(w)[e]] /\ Left(w') = [e \in Wd |-> Left(w')[e]]
BY DEF Left

\* Setting or stopping one timer.
LEMMA AbsSets ==
  ASSUME ~isr, isr' = isr, NEW d \in Wd, Undisturbed({d}), SetLater({d})
  PROVE  AbsStep
<1>1. Left(w)' = [e \in Wd |-> IF e \in {d} THEN Left(w)'[e] ELSE Left(w)[e]]
  BY LeftFcn DEF Undisturbed
<1>2. \A e \in {d} : Left(w)'[e] \in Abs!Setting
  BY DEF SetLater, Abs!Setting, Abs!OFF
<1>3. Abs!SetAll({d})
  BY <1>1, <1>2 DEF Abs!SetAll
<1> QED  BY <1>3 DEF AbsStep, Abs!Next

\* Stopping several timers.
LEMMA AbsStops ==
  ASSUME ~isr, isr' = isr, NEW D \in SUBSET Wd, Undisturbed(D), \A d \in D : Left(w')[d] = -1
  PROVE  AbsStep
<1>1. Left(w)' = [e \in Wd |-> IF e \in D THEN Left(w)'[e] ELSE Left(w)[e]]
  BY LeftFcn DEF Undisturbed
<1>2. \A e \in D : Left(w)'[e] \in Abs!Setting /\ Left(w)'[e] = Abs!OFF
  BY DEF Abs!Setting, Abs!OFF
<1>3. Abs!SetAll(D)
  BY <1>1, <1>2 DEF Abs!SetAll
<1> QED  BY <1>2, <1>3 DEF AbsStep, Abs!Next

\* A timer that is due fires.
LEMMA AbsFires ==
  ASSUME isr, isr' = isr, NEW d \in Wd, Left(w)[d] = 0, Undisturbed({d}), SetLater({d})
  PROVE  AbsStep
<1>1. Left(w)' = [e \in Wd |-> IF e \in {d} THEN Left(w)'[e] ELSE Left(w)[e]]
  BY LeftFcn DEF Undisturbed
<1>2. \A e \in {d} : Left(w)'[e] \in Abs!Setting
  BY DEF SetLater, Abs!Setting, Abs!OFF
<1>3. Abs!SetAll({d})
  BY <1>1, <1>2 DEF Abs!SetAll
<1>4. Abs!Fire(d)
  BY <1>3 DEF Abs!Fire
<1> QED  BY <1>4 DEF AbsStep, Abs!Next

\* Nothing happens to the timers.
LEMMA AbsStutters ==
  ASSUME isr' = isr, Left(w') = Left(w)
  PROVE  AbsStep
BY DEF AbsStep, Abs!vars

\* The timer interrupt begins.
LEMMA TickBeginsStep ==
  ASSUME TimerInv, WorkInv, TickBegins
  PROVE  TimerInv' /\ AbsStep
<1>1. /\ ~isr /\ isr' = TRUE /\ w' = wd_timer(w) /\ pt' = pt /\ call' = call
      /\ hp'.at = hp.at /\ hp'.wd = hp.wd
  <2>1. ~isr /\ isr' = TRUE /\ w' = wd_timer(w) /\ pt' = pt /\ call' = call
    BY DEF TickBegins, timerVars
  <2>2. hp' = IF hp.at = "calling" /\ hp.since < SinceMax THEN [hp EXCEPT !.since = @ + 1] ELSE hp
    BY DEF TickBegins, WorkTick
  <2> QED  BY <2>1, <2>2, WorkFields
<1>2. WdSound(w) /\ ~Expired(w) /\ \A e \in Wd : Left(w)[e] # 0 /\ Left(w)[e] \in Nat \union {-1}
  <2>1. WdSound(w) /\ \A e \in Wd : Left(w)[e] # 0
    BY <1>1 DEF TimerInv, NothingDue
  <2> QED  BY <2>1, DueIs, LeftIs
<1>3. /\ WdSound(w') /\ w'.unused = w.unused /\ w'.func = w.func
      /\ \A e \in Wd : Left(w')[e] = IF Left(w)[e] = -1 THEN -1 ELSE Left(w)[e] - 1
  BY <1>1, <1>2, Ticked
<1>4. ASSUME NEW e \in Wd PROVE Left(w')[e] # -1 <=> Left(w)[e] # -1
  BY <1>2, <1>3
<1>5. \A x \in Tm : Live(x)' <=> Live(x)
  BY <1>1 DEF Live
<1>6. ActiveServes'
  <2> SUFFICES ASSUME NEW e \in Wd, Left(w')[e] # -1
               PROVE  e \notin w'.unused /\ (ServesTimer(e)' \/ ServesSleep(e)')
    BY DEF ActiveServes
  <2>1. e \notin w.unused /\ (ServesTimer(e) \/ ServesSleep(e))
    BY <1>4 DEF TimerInv, ActiveServes
  <2> QED  BY <1>1, <1>3, <1>5, <2>1 DEF ServesTimer, ServesSleep
<1>7. LiveHold' /\ OwnTimers' /\ TimerTypeOK' /\ NothingDue'
  BY <1>1, <1>3, <1>5 DEF TimerInv, LiveHold, OwnTimers, TimerTypeOK, NothingDue
<1>8. WorkerHolds'
  <2>1. WorkerHolds
    BY DEF TimerInv
  <2>2. hp.at \in {"asleep", "woken"} => hp.wd \in Wd
    BY <2>1 DEF WorkerHolds
  <2> QED  BY <1>1, <1>3, <1>4, <2>1, <2>2 DEF WorkerHolds, ServesSleep
<1>9. Abs!Tick
  <2>1. Left(w)' = [d \in Wd |-> IF Left(w)[d] = Abs!OFF THEN Abs!OFF ELSE Left(w)[d] - 1]
    BY <1>3, LeftFcn DEF Abs!OFF
  <2> QED  BY <1>1, <2>1 DEF Abs!Tick
<1> QED  BY <1>1, <1>3, <1>6, <1>7, <1>8, <1>9 DEF TimerInv, AbsStep, Abs!Next

\* The timer interrupt returns.
LEMMA TickEndsStep ==
  ASSUME TimerInv, WorkInv, TickEnds
  PROVE  TimerInv' /\ AbsStep
<1>1. /\ isr /\ isr' = FALSE /\ ~Expired(w) /\ w' = w /\ pt' = pt /\ call' = call /\ hp' = hp
  BY DEF TickEnds
<1>2. \A e \in Wd : Left(w)[e] # 0
  BY <1>1, DueIs DEF TimerInv
<1>3. \A x \in Tm : Live(x)' <=> Live(x)
  BY <1>1 DEF Live
<1>4. ActiveServes' /\ LiveHold' /\ OwnTimers' /\ TimerTypeOK' /\ WorkerHolds'
  BY <1>1, <1>3 DEF TimerInv, ActiveServes, ServesTimer, ServesSleep, LiveHold, OwnTimers, TimerTypeOK, WorkerHolds
<1>5. NothingDue'
  BY <1>1, <1>2 DEF NothingDue
<1>6. Abs!Served
  BY <1>1, <1>2 DEF Abs!Served
<1> QED  BY <1>1, <1>4, <1>5, <1>6 DEF TimerInv, AbsStep, Abs!Next

\* timer_timeout serves the timer its watchdog was started for.
LEMMA TimerExpiresStep ==
  ASSUME TimerInv, WorkInv, NEW x \in Tm, TimerExpires(x), UNCHANGED workVars
  PROVE  TimerInv' /\ AbsStep /\ SleepKept
<1>1. /\ isr /\ isr' = isr /\ Expired(w) /\ w.func[Head(w.list)] = x /\ pt' = pt /\ call' = call /\ hp' = hp
      /\ w' = IF pt[x].delay > 0 THEN wd_start(TakeExpired(w), pt[x].wd, pt[x].delay, x) ELSE TakeExpired(w)
  BY DEF TimerExpires, timer_timeout, workVars
<1>2. WdSound(w) /\ ActiveServes /\ LiveHold /\ WorkerHolds /\ NothingDue /\ OwnTimers /\ TimerTypeOK
  BY DEF TimerInv
<1>3. PICK d \in Wd : d = Head(w.list) /\ Left(w)[d] = 0
  BY <1>1, <1>2, DueIs
<1>4. Live(x) /\ pt[x].wd = d /\ d \notin w.unused
  BY <1>1, <1>2, <1>3, TimerSystemAssumption DEF ActiveServes, ServesTimer, ServesSleep
<1>5. PICK u : u = wd_cancel(w, d)
  OBVIOUS
<1>6. WdSound(u) /\ u.unused = w.unused /\ Left(u)[d] = -1 /\ Kept(w, u, d)
  BY <1>2, <1>5, Cancelled
<1>7. pt[x].delay \in Nat /\ x \in Func
  BY <1>2 DEF TimerTypeOK, Func
<1>8. Undisturbed({d}) /\ SetLater({d}) /\ w'.unused = w.unused /\ (Left(w')[d] # -1 => w'.func[d] = x)
  <2>1. CASE pt[x].delay > 0
    <3>1. w' = wd_start(u, d, pt[x].delay, x)
      BY <1>1, <1>3, <1>4, <1>5, <2>1 DEF TakeExpired
    <3>2. WdSound(w') /\ w'.unused = u.unused /\ Left(w')[d] = pt[x].delay + 1 /\ w'.func[d] = x /\ Kept(u, w', d)
      BY <1>6, <1>7, <3>1, StartedIs
    <3>3. Left(w')[d] \in Nat \ {0}
      BY <1>7, <3>2
    <3> QED  BY <1>6, <3>2, <3>3 DEF Undisturbed, SetLater, Kept
  <2>2. CASE ~(pt[x].delay > 0)
    <3>1. w' = u
      BY <1>1, <1>3, <1>5, <2>2 DEF TakeExpired
    <3> QED  BY <1>6, <3>1 DEF Undisturbed, SetLater, Kept
  <2> QED  BY <2>1, <2>2
<1>9. \A y \in Tm : Live(y)' <=> Live(y)
  BY <1>1 DEF Live
<1>10. hp.wd # d
  BY <1>2, <1>4 DEF LiveHold
<1>11. ActiveServes'
  <2>1. Left(w')[d] # -1 => d \notin w'.unused /\ ServesTimer(d)'
    BY <1>1, <1>4, <1>8, <1>9 DEF ServesTimer
  <2> QED  BY <1>1, <1>2, <1>8, <1>9, <2>1, ServesKept
<1>12. LiveHold'
  BY <1>1, <1>2, <1>8, <1>9 DEF LiveHold
<1>13. WorkerHolds'
  BY <1>1, <1>2, <1>8, <1>10, WorkerKept
<1>14. NothingDue' /\ OwnTimers' /\ TimerTypeOK' /\ isr' \in BOOLEAN /\ WdSound(w')
  BY <1>1, <1>2, <1>8 DEF NothingDue, OwnTimers, TimerTypeOK, Undisturbed
<1>15. AbsStep
  BY <1>1, <1>3, <1>8, AbsFires
<1>16. SleepKept
  BY <1>2, <1>8, <1>10, SleepUndisturbed
<1> QED  BY <1>16, <1>11, <1>12, <1>13, <1>14, <1>15 DEF TimerInv

\* sig_timeout wakes the worker that the watchdog was started for.
LEMMA SleepExpiresStep ==
  ASSUME TimerInv, WorkInv, SleepExpires, UNCHANGED timerVars
  PROVE  TimerInv' /\ AbsStep
<1>1. /\ isr /\ isr' = isr /\ Expired(w) /\ w.func[Head(w.list)] = SIG_TIMEOUT /\ pt' = pt /\ call' = call
      /\ w' = TakeExpired(w) /\ hp' = IF hp.at = "asleep" THEN [hp EXCEPT !.at = "woken"] ELSE hp
  BY DEF SleepExpires, timerVars
<1>2. WdSound(w) /\ ActiveServes /\ LiveHold /\ WorkerHolds /\ NothingDue /\ OwnTimers /\ TimerTypeOK
  BY DEF TimerInv
<1>3. PICK d \in Wd : d = Head(w.list) /\ Left(w)[d] = 0
  BY <1>1, <1>2, DueIs
<1>4. hp.wd = d /\ hp.at \in Waiting /\ d \notin w.unused
  BY <1>1, <1>2, <1>3, TimerSystemAssumption DEF ActiveServes, ServesTimer, ServesSleep, Waiting
<1>5. hp'.wd = d /\ hp'.at = "woken"
  BY <1>1, <1>4, WorkFields DEF Waiting
<1>6. WdSound(w') /\ w'.unused = w.unused /\ Left(w')[d] = -1 /\ Kept(w, w', d)
  BY <1>1, <1>2, <1>3, Cancelled DEF TakeExpired
<1>7. Undisturbed({d}) /\ SetLater({d})
  BY <1>6 DEF Undisturbed, SetLater, Kept
<1>8. \A y \in Tm : Live(y)' <=> Live(y)
  BY <1>1 DEF Live
<1>9. ActiveServes'
  BY <1>1, <1>2, <1>4, <1>6, <1>7, <1>8, ServesKept
<1>10. LiveHold'
  BY <1>1, <1>2, <1>4, <1>5, <1>6, <1>8 DEF LiveHold
<1>11. WorkerHolds'
  BY <1>2, <1>4, <1>5, <1>6 DEF WorkerHolds
<1>12. NothingDue' /\ OwnTimers' /\ TimerTypeOK' /\ isr' \in BOOLEAN /\ WdSound(w')
  BY <1>1, <1>2, <1>6 DEF NothingDue, OwnTimers, TimerTypeOK
<1>13. AbsStep
  BY <1>1, <1>3, <1>7, AbsFires
<1> QED  BY <1>9, <1>10, <1>11, <1>12, <1>13 DEF TimerInv

\* A timer whose owner is not deleting it is live, and nobody else's.
LEMMA OwnerLive ==
  ASSUME OwnTimers, NEW o \in Owner, NEW x \in Timers(o), call[o].at # "free"
  PROVE  x \in Tm /\ Live(x) /\ pt[x].owner = o
<1>1. x \in Tm /\ pt[x].owner = o /\ o # "none"
  BY PosixTimerAssumption DEF Timers
<1>2. ASSUME NEW p \in Owner, call[p].at = "free", call[p].tm = x PROVE FALSE
  <2>1. pt[x].owner = p
    BY <1>2 DEF OwnTimers
  <2> QED  BY <1>1, <1>2, <2>1
<1> QED  BY <1>1, <1>2 DEF Live

\* timer_create takes a watchdog from the pool, which nobody uses.
LEMMA TimerCreateStep ==
  ASSUME TimerInv, WorkInv, NEW o \in Owner, TimerCreate(o), ~isr, isr' = isr, UNCHANGED workVars
  PROVE  TimerInv' /\ AbsStep /\ SleepKept
<1>1. call' = call /\ hp' = hp
  BY DEF TimerCreate, workVars
<1>2. WdSound(w) /\ ActiveServes /\ LiveHold /\ WorkerHolds /\ NothingDue /\ OwnTimers /\ TimerTypeOK
  BY DEF TimerInv
<1>3. PICK d \in wd_create(w) :
        /\ w' = Allocated(w, d)
        /\ \/ \E x \in Timers("none") : pt' = [pt EXCEPT ![x] = [owner |-> o, delay |-> 0, wd |-> d]]
           \/ pt' = pt
  BY DEF TimerCreate
<1>4. /\ d \in w.unused /\ d \in Wd
      /\ WdSound(w') /\ w'.unused = w.unused \ {d} /\ w'.func = w.func /\ Left(w') = Left(w)
  BY <1>2, <1>3, AllocatedIs
<1>5. Undisturbed({}) /\ SetLater({})
  BY <1>4 DEF Undisturbed, SetLater
<1>6. WorkerHolds' /\ NothingDue'
  BY <1>1, <1>2, <1>4, <1>5, WorkerKept, NotDueKept
<1>7. AbsStep
  BY <1>4, AbsStutters
<1>8. hp.wd # d
  BY <1>2, <1>4, WorkQueueAssumption DEF WorkerHolds, NoSleep
<1>9. SleepKept
  BY <1>2, <1>5, SleepUndisturbed
<1>10. CASE pt' = pt
  <2>1. \A y \in Tm : Live(y)' <=> Live(y)
    BY <1>1, <1>10 DEF Live
  <2>2. ActiveServes'
    BY <1>1, <1>2, <1>4, <1>5, <1>10, <2>1, ServesKept
  <2>3. LiveHold'
    BY <1>1, <1>2, <1>4, <1>10, <2>1 DEF LiveHold
  <2>4. OwnTimers' /\ TimerTypeOK' /\ isr' \in BOOLEAN
    BY <1>1, <1>2, <1>10 DEF OwnTimers, TimerTypeOK, TimerInv
  <2> QED  BY <1>4, <1>6, <1>7, <1>9, <2>2, <2>3, <2>4 DEF TimerInv
<1>11. ASSUME NEW x \in Timers("none"), pt' = [pt EXCEPT ![x] = [owner |-> o, delay |-> 0, wd |-> d]]
       PROVE  TimerInv'
  <2>1. x \in Tm /\ pt[x].owner = "none" /\ o # "none"
    BY PosixTimerAssumption DEF Timers
  <2>2. /\ pt'[x] = [owner |-> o, delay |-> 0, wd |-> d] /\ \A y \in Tm \ {x} : pt'[y] = pt[y]
        /\ TimerTypeOK'
    <3>1. [owner |-> o, delay |-> 0, wd |-> d] \in [owner : Owner \union {"none"}, delay : Nat, wd : Wd \union {NoWd}]
      BY <1>4
    <3> QED  BY <1>1, <1>2, <1>11, <2>1, <3>1 DEF TimerTypeOK
  <2>3. \A p \in Owner : call[p].at # "idle" => call[p].tm # x
    BY <1>2, <2>1, PosixTimerAssumption DEF OwnTimers
  <2>4. OwnTimers'
    BY <1>1, <1>2, <2>2, <2>3 DEF OwnTimers
  <2>5. \A y \in Tm \ {x} : Live(y)' <=> Live(y)
    BY <1>1, <2>2 DEF Live
  <2>6. ~Live(x)
    BY <2>1 DEF Live
  <2>7. ActiveServes'
    <3>1. \A y \in Tm : Live(y) => Live(y)' /\ pt'[y].wd = pt[y].wd
      BY <2>2, <2>5, <2>6
    <3>2. w'.unused \subseteq w.unused
      BY <1>4
    <3> QED  BY <1>1, <1>2, <1>5, <3>1, <3>2, ServesKept
  <2>8. LiveHold'
    <3>1. \A y \in Tm \ {x} : Live(y) => pt[y].wd # d /\ pt[y].wd \in Wd \ w.unused /\ pt[y].wd # hp.wd
      BY <1>2, <1>4 DEF LiveHold
    <3>2. pt'[x].wd = d
      BY <2>2
    <3> SUFFICES ASSUME NEW y \in Tm, Live(y)'
                 PROVE  /\ pt'[y].wd \in Wd \ w'.unused /\ pt'[y].wd # hp'.wd
                        /\ \A v \in Tm \ {y} : Live(v)' => pt'[y].wd # pt'[v].wd
      BY DEF LiveHold
    <3>3. CASE y = x
      BY <1>1, <1>4, <1>8, <2>2, <2>5, <3>1, <3>2, <3>3
    <3>4. CASE y # x
      <4>1. Live(y) /\ pt'[y].wd = pt[y].wd
        BY <2>2, <2>5, <3>4
      <4>2. \A v \in Tm \ {x, y} : Live(v)' => pt[y].wd # pt[v].wd
        BY <1>2, <2>5, <4>1 DEF LiveHold
      <4> QED  BY <1>1, <1>4, <2>2, <3>1, <3>2, <3>4, <4>1, <4>2
    <3> QED  BY <3>3, <3>4
  <2> QED  BY <1>4, <1>6, <2>2, <2>4, <2>7, <2>8 DEF TimerInv
<1> QED  BY <1>3, <1>7, <1>10, <1>11, <1>9

\* timer_settime stops the watchdog.
LEMMA TimerSettimeStep ==
  ASSUME TimerInv, WorkInv, NEW o \in Owner, TimerSettime(o), ~isr, isr' = isr, UNCHANGED workVars
  PROVE  TimerInv' /\ AbsStep /\ SleepKept
<1>1. pt' = pt /\ hp' = hp /\ call[o].at = "idle"
  BY DEF TimerSettime, workVars
<1>2. WdSound(w) /\ ActiveServes /\ LiveHold /\ WorkerHolds /\ NothingDue /\ OwnTimers /\ TimerTypeOK
  BY DEF TimerInv
<1>3. PICK x \in Timers(o), value \in TimeArg, interval \in TimeArg :
        /\ w' = wd_cancel(w, pt[x].wd)
        /\ call' = IF value = 0 THEN call
                   ELSE [call EXCEPT ![o] = [at |-> "disarmed", tm |-> x, value |-> value, interval |-> interval]]
  BY DEF TimerSettime
<1>4. x \in Tm /\ Live(x) /\ pt[x].owner = o
  BY <1>1, <1>2, OwnerLive
<1>5. PICK d \in Wd : d = pt[x].wd /\ d \notin w.unused /\ d # hp.wd
  BY <1>2, <1>4 DEF LiveHold
<1>6. WdSound(w') /\ w'.unused = w.unused /\ Left(w')[d] = -1 /\ Kept(w, w', d)
  BY <1>2, <1>3, <1>5, Cancelled
<1>7. Undisturbed({d}) /\ SetLater({d})
  BY <1>6 DEF Undisturbed, SetLater, Kept
<1>8. TimerTypeOK' /\ OwnTimers'
      /\ \A p \in Owner : (call'[p].at = "free" <=> call[p].at = "free") /\ (call[p].at = "free" => call'[p].tm = call[p].tm)
  <2>1. CASE call' = call
    BY <1>1, <1>2, <2>1 DEF TimerTypeOK, OwnTimers
  <2>2. CASE call' # call
    <3>1. /\ call'[o] = [at |-> "disarmed", tm |-> x, value |-> value, interval |-> interval]
          /\ \A p \in Owner \ {o} : call'[p] = call[p]
          /\ TimerTypeOK'
      BY <1>1, <1>2, <1>3, <1>4, <2>2 DEF TimerTypeOK
    <3>2. OwnTimers'
      BY <1>1, <1>2, <1>4, <3>1 DEF OwnTimers
    <3> QED  BY <1>1, <3>1, <3>2
  <2> QED  BY <2>1, <2>2
<1>9. \A y \in Tm : Live(y)' <=> Live(y)
  BY <1>1, <1>8 DEF Live
<1>10. ActiveServes'
  BY <1>1, <1>2, <1>6, <1>7, <1>9, ServesKept
<1>11. LiveHold'
  BY <1>1, <1>2, <1>6, <1>9 DEF LiveHold
<1>12. WorkerHolds' /\ NothingDue'
  BY <1>1, <1>2, <1>5, <1>6, <1>7, WorkerKept, NotDueKept
<1>13. AbsStep
  BY <1>7, AbsSets
<1>14. SleepKept
  BY <1>2, <1>5, <1>7, SleepUndisturbed
<1> QED  BY <1>14, <1>6, <1>8, <1>10, <1>11, <1>12, <1>13 DEF TimerInv

\* timer_settime writes the interval.
LEMMA TimerSetIntervalStep ==
  ASSUME TimerInv, WorkInv, NEW o \in Owner, TimerSetInterval(o), ~isr, isr' = isr, UNCHANGED workVars
  PROVE  TimerInv' /\ AbsStep /\ SleepKept
<1>1. /\ w' = w /\ hp' = hp /\ call[o].at = "disarmed"
      /\ pt' = [pt EXCEPT ![call[o].tm].delay = call[o].interval]
      /\ call' = [call EXCEPT ![o].at = "arm"]
  BY DEF TimerSetInterval, workVars
<1>2. WdSound(w) /\ ActiveServes /\ LiveHold /\ WorkerHolds /\ NothingDue /\ OwnTimers /\ TimerTypeOK
  BY DEF TimerInv
<1>3. PICK x \in Tm : x = call[o].tm /\ pt[x].owner = o
  BY <1>1, <1>2 DEF OwnTimers
<1>4. call[o].interval \in Nat
  <2>1. call[o].interval \in TimeArg \union {0}
    BY <1>2 DEF TimerTypeOK
  <2>2. TimeArg \union {0} \subseteq Nat
    BY PosixTimerAssumption
  <2> QED  BY <2>1, <2>2
<1>5. /\ \A y \in Tm : pt'[y].owner = pt[y].owner /\ pt'[y].wd = pt[y].wd
      /\ \A p \in Owner : call'[p].tm = call[p].tm /\ (call'[p].at = "free" <=> call[p].at = "free")
      /\ \A p \in Owner : call'[p].at # "idle" <=> call[p].at # "idle"
      /\ TimerTypeOK'
  <2>1. pt \in [Tm -> [owner : Owner \union {"none"}, delay : Nat, wd : Wd \union {NoWd}]]
    BY <1>2 DEF TimerTypeOK
  <2>2. /\ pt' \in [Tm -> [owner : Owner \union {"none"}, delay : Nat, wd : Wd \union {NoWd}]]
        /\ \A y \in Tm : pt'[y].owner = pt[y].owner /\ pt'[y].wd = pt[y].wd
    BY <1>1, <1>3, <1>4, <2>1
  <2>3. call \in [Owner -> [at : {"idle", "disarmed", "arm", "free"}, tm : Tm \union {NoTm},
                            value : TimeArg \union {0}, interval : TimeArg \union {0}]]
    BY <1>2 DEF TimerTypeOK
  <2>4. /\ call' \in [Owner -> [at : {"idle", "disarmed", "arm", "free"}, tm : Tm \union {NoTm},
                                value : TimeArg \union {0}, interval : TimeArg \union {0}]]
        /\ \A p \in Owner \ {o} : call'[p] = call[p]
        /\ call'[o].tm = call[o].tm /\ call'[o].at = "arm"
    BY <1>1, <2>3
  <2> QED  BY <1>1, <2>2, <2>4 DEF TimerTypeOK
<1>6. \A y \in Tm : Live(y)' <=> Live(y)
  BY <1>5 DEF Live
<1>7. OwnTimers'
  BY <1>2, <1>5 DEF OwnTimers
<1>8. ActiveServes' /\ LiveHold'
  BY <1>1, <1>2, <1>5, <1>6 DEF ActiveServes, ServesTimer, ServesSleep, LiveHold
<1>9. WorkerHolds' /\ NothingDue' /\ isr' \in BOOLEAN
  BY <1>1, <1>2 DEF WorkerHolds, ServesSleep, NothingDue, TimerInv
<1>10. AbsStep
  BY <1>1, AbsStutters
<1>11. SleepKept
  BY <1>1 DEF SleepKept
<1> QED  BY <1>11, <1>1, <1>2, <1>5, <1>7, <1>8, <1>9, <1>10 DEF TimerInv

\* timer_settime starts the watchdog.
LEMMA TimerArmStep ==
  ASSUME TimerInv, WorkInv, NEW o \in Owner, NEW passed \in BOOLEAN, TimerArm(o, passed), ~isr, isr' = isr,
         UNCHANGED workVars
  PROVE  TimerInv' /\ AbsStep /\ SleepKept
<1>1. /\ pt' = pt /\ hp' = hp /\ call[o].at = "arm" /\ call' = [call EXCEPT ![o] = Idle]
  BY DEF TimerArm, workVars
<1>2. WdSound(w) /\ ActiveServes /\ LiveHold /\ WorkerHolds /\ NothingDue /\ OwnTimers /\ TimerTypeOK
  BY DEF TimerInv
<1>3. PICK x \in Tm : x = call[o].tm /\ x \in Timers(o)
  BY <1>1, <1>2 DEF OwnTimers, Timers
<1>4. Live(x) /\ pt[x].owner = o
  BY <1>1, <1>2, <1>3, OwnerLive
<1>5. PICK d \in Wd : d = pt[x].wd /\ d \notin w.unused /\ d # hp.wd
  BY <1>2, <1>4 DEF LiveHold
<1>6. PICK delay \in Nat : delay = IF passed THEN pt[x].delay ELSE call[o].value
  <2>1. pt[x].delay \in Nat /\ call[o].value \in TimeArg \union {0}
    BY <1>2 DEF TimerTypeOK
  <2>2. TimeArg \union {0} \subseteq Nat
    BY PosixTimerAssumption
  <2>3. call[o].value \in Nat
    BY <2>1, <2>2
  <2> QED  BY <2>1, <2>3
<1>7. w' = IF delay > 0 THEN wd_start(w, d, delay, x) ELSE w
  BY <1>3, <1>5, <1>6 DEF TimerArm
<1>8. /\ call'[o] = Idle /\ \A p \in Owner \ {o} : call'[p] = call[p]
      /\ TimerTypeOK'
  BY <1>1, <1>2 DEF TimerTypeOK, Idle
<1>9. OwnTimers' /\ \A y \in Tm : Live(y)' <=> Live(y)
  <2>1. \A p \in Owner : /\ call'[p].at # "idle" => call'[p] = call[p]
                         /\ (call'[p].at = "free" <=> call[p].at = "free")
                         /\ call[p].at = "free" => call'[p] = call[p]
    BY <1>1, <1>8 DEF Idle
  <2> QED  BY <1>1, <1>2, <2>1 DEF OwnTimers, Live
<1>10. CASE delay > 0
  <2>1. WdSound(w') /\ w'.unused = w.unused /\ Left(w')[d] = delay + 1 /\ w'.func[d] = x /\ Kept(w, w', d)
    BY <1>2, <1>7, <1>10, StartedIs DEF Func
  <2>2. Undisturbed({d}) /\ SetLater({d})
    <3>1. Left(w')[d] \in Nat \ {0}
      BY <2>1
    <3> QED  BY <2>1, <3>1 DEF Undisturbed, SetLater, Kept
  <2>3. ActiveServes'
    <3>1. d \notin w'.unused /\ ServesTimer(d)'
      BY <1>1, <1>4, <1>5, <1>9, <2>1 DEF ServesTimer
    <3> QED  BY <1>1, <1>2, <1>9, <2>1, <2>2, <3>1, ServesKept
  <2>4. LiveHold'
    BY <1>1, <1>2, <1>9, <2>1 DEF LiveHold
  <2>5. WorkerHolds' /\ NothingDue'
    BY <1>1, <1>2, <1>5, <2>1, <2>2, WorkerKept, NotDueKept
  <2>6. AbsStep
    BY <2>2, AbsSets
  <2>7. SleepKept
    BY <1>2, <1>5, <2>2, SleepUndisturbed
  <2> QED  BY <1>8, <1>9, <2>1, <2>3, <2>4, <2>5, <2>6, <2>7 DEF TimerInv
<1>11. CASE ~(delay > 0)
  <2>1. w' = w
    BY <1>7, <1>11
  <2>2. ActiveServes' /\ LiveHold'
    BY <1>1, <1>2, <1>9, <2>1 DEF ActiveServes, ServesTimer, ServesSleep, LiveHold
  <2>3. WorkerHolds' /\ NothingDue' /\ isr' \in BOOLEAN
    BY <1>1, <1>2, <2>1 DEF WorkerHolds, ServesSleep, NothingDue, TimerInv
  <2>4. AbsStep
    BY <2>1, AbsStutters
  <2>5. SleepKept
    BY <2>1 DEF SleepKept
  <2> QED  BY <1>2, <1>8, <1>9, <2>1, <2>2, <2>3, <2>4, <2>5 DEF TimerInv
<1> QED  BY <1>10, <1>11

\* timer_delete gives the watchdog back; the timer is not live from here on.
LEMMA TimerDeleteStep ==
  ASSUME TimerInv, WorkInv, NEW o \in Owner, TimerDelete(o), ~isr, isr' = isr, UNCHANGED workVars
  PROVE  TimerInv' /\ AbsStep /\ SleepKept
<1>1. pt' = pt /\ hp' = hp /\ call[o].at = "idle"
  BY DEF TimerDelete, workVars
<1>2. WdSound(w) /\ ActiveServes /\ LiveHold /\ WorkerHolds /\ NothingDue /\ OwnTimers /\ TimerTypeOK
  BY DEF TimerInv
<1>3. PICK x \in Timers(o) : w' = wd_delete(w, pt[x].wd) /\ call' = [call EXCEPT ![o] = [Idle EXCEPT !.at = "free", !.tm = x]]
  BY DEF TimerDelete
<1>4. x \in Tm /\ Live(x) /\ pt[x].owner = o
  BY <1>1, <1>2, OwnerLive
<1>5. PICK d \in Wd : d = pt[x].wd /\ d \notin w.unused /\ d # hp.wd
  BY <1>2, <1>4 DEF LiveHold
<1>6. Gone(w, w', {d})
  BY <1>2, <1>3, <1>5, Deleted
<1>7. WdSound(w') /\ w'.unused = w.unused \union {d} /\ Left(w')[d] = -1 /\ Undisturbed({d}) /\ SetLater({d})
  BY <1>6 DEF Gone, Undisturbed, SetLater
<1>8. /\ call'[o].at = "free" /\ call'[o].tm = x
      /\ \A p \in Owner \ {o} : call'[p] = call[p]
      /\ TimerTypeOK'
  <2>1. PICK e : e = [Idle EXCEPT !.at = "free", !.tm = x]
    OBVIOUS
  <2>2. /\ e.at = "free" /\ e.tm = x
        /\ e \in [at : {"idle", "disarmed", "arm", "free"}, tm : Tm \union {NoTm},
                  value : TimeArg \union {0}, interval : TimeArg \union {0}]
    BY <1>4, <2>1 DEF Idle
  <2>3. call' = [call EXCEPT ![o] = e]
    BY <1>3, <2>1
  <2> QED  BY <1>1, <1>2, <2>2, <2>3 DEF TimerTypeOK
<1>9. OwnTimers'
  BY <1>1, <1>2, <1>4, <1>8 DEF OwnTimers
<1>10. /\ ~Live(x)'
       /\ \A y \in Tm \ {x} : Live(y)' <=> Live(y)
  <2>1. \A p \in Owner \ {o} : call'[p].at = call[p].at /\ call'[p].tm = call[p].tm
    BY <1>8
  <2>2. call'[o].at = "free" /\ call'[o].tm = x /\ call[o].at # "free"
    BY <1>1, <1>8
  <2> QED  BY <1>1, <2>1, <2>2 DEF Live
<1>11. \A y \in Tm \ {x} : Live(y) => pt[y].wd # d /\ pt[y].wd \notin w.unused /\ pt[y].wd # hp.wd
  BY <1>2, <1>4, <1>5 DEF LiveHold
<1>12. ActiveServes'
  <2>1. \A y \in Tm : Live(y) /\ pt[y].wd \notin {d} => Live(y)' /\ pt'[y].wd = pt[y].wd
    BY <1>1, <1>5, <1>10
  <2>2. w'.unused \ {d} \subseteq w.unused
    BY <1>7
  <2> QED  BY <1>1, <1>2, <1>7, <2>1, <2>2, ServesKept
<1>13. LiveHold'
  <2>1. \A y \in Tm : Live(y)' => /\ Live(y) /\ pt'[y].wd = pt[y].wd
                                  /\ pt[y].wd \notin w'.unused /\ pt[y].wd # hp'.wd
    BY <1>1, <1>7, <1>10, <1>11
  <2> QED  BY <1>2, <2>1, LiveKept
<1>14. WorkerHolds' /\ NothingDue'
  <2>1. w'.unused \ {d} \subseteq w.unused
    BY <1>7
  <2> QED  BY <1>1, <1>2, <1>5, <1>7, <2>1, WorkerKept, NotDueKept
<1>15. AbsStep
  BY <1>7, AbsSets
<1>16. SleepKept
  BY <1>2, <1>5, <1>7, SleepUndisturbed
<1> QED  BY <1>16, <1>7, <1>8, <1>9, <1>12, <1>13, <1>14, <1>15 DEF TimerInv

\* timer_delete frees a timer that has no watchdog any more.
LEMMA TimerFreeStep ==
  ASSUME TimerInv, WorkInv, NEW o \in Owner, TimerFree(o), ~isr, isr' = isr, UNCHANGED workVars
  PROVE  TimerInv' /\ AbsStep /\ SleepKept
<1>1. /\ w' = w /\ hp' = hp /\ call[o].at = "free"
      /\ pt' = [pt EXCEPT ![call[o].tm] = FreeTimer] /\ call' = [call EXCEPT ![o] = Idle]
  BY DEF TimerFree, workVars
<1>2. WdSound(w) /\ ActiveServes /\ LiveHold /\ WorkerHolds /\ NothingDue /\ OwnTimers /\ TimerTypeOK
  BY DEF TimerInv
<1>3. PICK x \in Tm : x = call[o].tm /\ pt[x].owner = o
  BY <1>1, <1>2 DEF OwnTimers
<1>4. ~Live(x)
  BY <1>1, <1>3 DEF Live
<1>5. /\ call'[o] = Idle /\ \A p \in Owner \ {o} : call'[p] = call[p]
      /\ pt'[x] = FreeTimer /\ \A y \in Tm \ {x} : pt'[y] = pt[y]
      /\ TimerTypeOK'
  <2>1. FreeTimer \in [owner : Owner \union {"none"}, delay : Nat, wd : Wd \union {NoWd}]
    BY DEF FreeTimer
  <2>2. Idle \in [at : {"idle", "disarmed", "arm", "free"}, tm : Tm \union {NoTm},
                  value : TimeArg \union {0}, interval : TimeArg \union {0}]
    BY DEF Idle
  <2> QED  BY <1>1, <1>2, <1>3, <2>1, <2>2 DEF TimerTypeOK
<1>6. OwnTimers'
  <2> SUFFICES ASSUME NEW p \in Owner, call'[p].at # "idle"
               PROVE  call'[p].tm \in Tm /\ pt'[call'[p].tm].owner = p
    BY DEF OwnTimers
  <2>1. p # o
    BY <1>5 DEF Idle
  <2>2. call'[p] = call[p] /\ call[p].tm \in Tm /\ pt[call[p].tm].owner = p
    BY <1>2, <1>5, <2>1 DEF OwnTimers
  <2>3. call[p].tm # x
    BY <1>3, <2>1, <2>2
  <2> QED  BY <1>5, <2>2, <2>3
<1>7. ~Live(x)' /\ \A y \in Tm \ {x} : Live(y)' <=> Live(y)
  <2>1. ~Live(x)'
    BY <1>5 DEF Live, FreeTimer
  <2>2. ASSUME NEW y \in Tm \ {x} PROVE Live(y)' <=> Live(y)
    <3>1. \A p \in Owner : (call'[p].at = "free" /\ call'[p].tm = y) <=> (call[p].at = "free" /\ call[p].tm = y)
      BY <1>3, <1>5 DEF Idle
    <3> QED  BY <1>5, <3>1 DEF Live
  <2> QED  BY <2>1, <2>2
<1>8. \A y \in Tm : (Live(y)' <=> Live(y)) /\ (Live(y) => pt'[y] = pt[y])
  BY <1>4, <1>5, <1>7
<1>9. ActiveServes' /\ LiveHold'
  BY <1>1, <1>2, <1>8 DEF ActiveServes, ServesTimer, ServesSleep, LiveHold
<1>10. WorkerHolds' /\ NothingDue' /\ isr' \in BOOLEAN
  BY <1>1, <1>2 DEF WorkerHolds, ServesSleep, NothingDue, TimerInv
<1>11. AbsStep
  BY <1>1, AbsStutters
<1>12. SleepKept
  BY <1>1 DEF SleepKept
<1> QED  BY <1>12, <1>1, <1>2, <1>5, <1>6, <1>9, <1>10, <1>11 DEF TimerInv

\* timer_deleteall gives back the watchdogs of all timers of the task.
LEMMA TimerDeleteAllStep ==
  ASSUME TimerInv, WorkInv, NEW o \in Owner, TimerDeleteAll(o), ~isr, isr' = isr, UNCHANGED workVars
  PROVE  TimerInv' /\ AbsStep /\ SleepKept
<1> DEFINE D == {pt[x].wd : x \in Timers(o)}
<1>1. /\ hp' = hp /\ call[o].at # "free" /\ w' = DeleteWds(w, D)
      /\ pt' = [x \in Tm |-> IF pt[x].owner = o THEN FreeTimer ELSE pt[x]]
      /\ call' = [call EXCEPT ![o] = Idle]
  BY DEF TimerDeleteAll, workVars
<1>2. WdSound(w) /\ ActiveServes /\ LiveHold /\ WorkerHolds /\ NothingDue /\ OwnTimers /\ TimerTypeOK
  BY DEF TimerInv
<1>3. \A x \in Timers(o) : x \in Tm /\ Live(x) /\ pt[x].owner = o
  BY <1>1, <1>2, OwnerLive
<1>4. \A x \in Timers(o) : pt[x].wd \in Wd \ w.unused /\ pt[x].wd # hp.wd
  BY <1>2, <1>3 DEF LiveHold
<1>5. D \in SUBSET Wd /\ hp.wd \notin D
  BY <1>4
<1>6. \A y \in Tm : Live(y) /\ pt[y].owner # o => pt[y].wd \notin D
  BY <1>2, <1>3 DEF LiveHold
<1>7. \A y \in Tm : pt[y].owner = o => pt[y].wd \in D
  BY DEF Timers
<1> HIDE DEF D
<1>8. Gone(w, w', D)
  BY <1>1, <1>2, <1>5, DeletedAll
<1>9. WdSound(w') /\ w'.unused = w.unused \union D /\ Undisturbed(D) /\ SetLater(D) /\ \A d \in D : Left(w')[d] = -1
  BY <1>8 DEF Gone, Undisturbed, SetLater
<1>10. /\ call'[o] = Idle /\ \A p \in Owner \ {o} : call'[p] = call[p]
       /\ \A y \in Tm : pt'[y] = IF pt[y].owner = o THEN FreeTimer ELSE pt[y]
       /\ TimerTypeOK'
  <2>1. FreeTimer \in [owner : Owner \union {"none"}, delay : Nat, wd : Wd \union {NoWd}]
    BY DEF FreeTimer
  <2>2. Idle \in [at : {"idle", "disarmed", "arm", "free"}, tm : Tm \union {NoTm},
                  value : TimeArg \union {0}, interval : TimeArg \union {0}]
    BY DEF Idle
  <2> QED  BY <1>1, <1>2, <2>1, <2>2 DEF TimerTypeOK
<1>11. OwnTimers'
  <2> SUFFICES ASSUME NEW p \in Owner, call'[p].at # "idle"
               PROVE  call'[p].tm \in Tm /\ pt'[call'[p].tm].owner = p
    BY DEF OwnTimers
  <2>1. p # o
    BY <1>10 DEF Idle
  <2>2. call'[p] = call[p] /\ call[p].tm \in Tm /\ pt[call[p].tm].owner = p
    BY <1>2, <1>10, <2>1 DEF OwnTimers
  <2>3. pt[call[p].tm].owner # o
    BY <2>1, <2>2
  <2> QED  BY <1>10, <2>2, <2>3
<1>12. ASSUME NEW y \in Tm
       PROVE  /\ Live(y)' => Live(y) /\ pt'[y] = pt[y] /\ pt[y].owner # o
              /\ Live(y) /\ pt[y].owner # o => Live(y)' /\ pt'[y] = pt[y]
  <2>1. CASE pt[y].owner = o
    <3>1. pt'[y].owner = "none"
      BY <1>10, <2>1 DEF FreeTimer
    <3>2. ~Live(y)'
      BY <3>1 DEF Live
    <3> QED  BY <2>1, <3>2
  <2>2. CASE pt[y].owner # o
    <3>1. pt'[y] = pt[y]
      BY <1>10, <2>2
    <3>2. \A p \in Owner : (call'[p].at = "free" /\ call'[p].tm = y) <=> (call[p].at = "free" /\ call[p].tm = y)
      BY <1>1, <1>10 DEF Idle
    <3>3. Live(y)' <=> Live(y)
      BY <3>1, <3>2 DEF Live
    <3> QED  BY <2>2, <3>1, <3>3
  <2> QED  BY <2>1, <2>2
<1>13. w'.unused \ D \subseteq w.unused
  BY <1>9
<1>14. ActiveServes'
  <2>1. \A y \in Tm : Live(y) /\ pt[y].wd \notin D => Live(y)' /\ pt'[y].wd = pt[y].wd
    BY <1>7, <1>12
  <2> QED  BY <1>1, <1>2, <1>5, <1>9, <1>13, <2>1, ServesKept
<1>15. LiveHold'
  <2>1. \A y \in Tm : Live(y) => pt[y].wd \notin w.unused /\ pt[y].wd # hp.wd
    BY <1>2 DEF LiveHold
  <2>2. \A y \in Tm : Live(y)' => /\ Live(y) /\ pt'[y].wd = pt[y].wd
                                  /\ pt[y].wd \notin w'.unused /\ pt[y].wd # hp'.wd
    BY <1>1, <1>6, <1>9, <1>12, <2>1
  <2> QED  BY <1>2, <2>2, LiveKept
<1>16. WorkerHolds' /\ NothingDue'
  BY <1>1, <1>2, <1>5, <1>9, <1>13, WorkerKept, NotDueKept
<1>17. AbsStep
  BY <1>5, <1>9, AbsStops
<1>18. SleepKept
  BY <1>2, <1>5, <1>9, SleepUndisturbed
<1> QED  BY <1>18, <1>9, <1>10, <1>11, <1>14, <1>15, <1>16, <1>17 DEF TimerInv

\* What queues or cancels work does not touch the timers; it may wake the worker.
LEMMA WakingStep ==
  ASSUME TimerInv, WorkInv, w' = w, isr' = isr, pt' = pt, call' = call, hp'.wd = hp.wd,
         hp'.at = hp.at \/ (hp.at \in Waiting /\ hp'.at = "woken") \/ (hp.at \notin Waiting /\ hp'.at \notin Waiting)
  PROVE  TimerInv' /\ AbsStep
<1>1. WdSound(w) /\ ActiveServes /\ LiveHold /\ WorkerHolds /\ NothingDue /\ OwnTimers /\ TimerTypeOK /\ isr \in BOOLEAN
  BY DEF TimerInv
<1>2. \A y \in Tm : Live(y)' <=> Live(y)
  BY DEF Live
<1>3. hp.at \in Waiting => hp'.at \in Waiting
  BY DEF Waiting
<1>4. ActiveServes' /\ LiveHold'
  BY <1>1, <1>2, <1>3 DEF ActiveServes, ServesTimer, ServesSleep, LiveHold, Waiting
<1>5. WorkerHolds' /\ NothingDue'
  BY <1>1 DEF WorkerHolds, ServesSleep, NothingDue, Waiting
<1>6. OwnTimers' /\ TimerTypeOK' /\ WdSound(w') /\ isr' \in BOOLEAN
  BY <1>1 DEF OwnTimers, TimerTypeOK
<1>7. AbsStep
  BY AbsStutters
<1> QED  BY <1>4, <1>5, <1>6, <1>7 DEF TimerInv

\* work_queue, its signal, and work_cancel.
LEMMA WorkCallStep ==
  ASSUME TimerInv, WorkInv, NEW k \in Work, WorkCall(k), UNCHANGED timerVars
  PROVE  TimerInv' /\ AbsStep
<1>1. w' = w /\ isr' = isr /\ pt' = pt /\ call' = call
  BY DEF WorkCall, WorkQueueCall, WorkKill, WorkQueueFromIsr, WorkCancel, timerVars
<1>2. hp' = hp \/ hp' = IF hp.at = "asleep" THEN [hp EXCEPT !.at = "woken"] ELSE hp
  BY DEF WorkCall, WorkQueueCall, WorkKill, WorkQueueFromIsr, WorkCancel, work_signal
<1>3. hp'.wd = hp.wd /\ (hp'.at = hp.at \/ (hp.at \in Waiting /\ hp'.at = "woken"))
  BY <1>2, WorkFields DEF Waiting
<1> QED  BY <1>1, <1>3, WakingStep

\* work_process calls a worker function, the watchdogs are not concerned.
LEMMA WorkRunStep ==
  ASSUME TimerInv, WorkInv, WorkRun, UNCHANGED timerVars
  PROVE  TimerInv' /\ AbsStep
<1>1. /\ w' = w /\ isr' = isr /\ pt' = pt /\ call' = call /\ hp.at \in {"start", "calling"}
      /\ hp' = [hp EXCEPT !.at = "calling", !.next = NextDelay]
  BY DEF WorkRun, Scanning, timerVars
<1>2. hp'.wd = hp.wd /\ hp'.at = "calling"
  BY <1>1, WorkFields
<1> QED  BY <1>1, <1>2, WakingStep DEF Waiting

\* The fields of the sleeping worker.
LEMMA SleepFields ==
  ASSUME NEW d
  PROVE  /\ [Started EXCEPT !.at = "asleep", !.wd = d].at = "asleep"
         /\ [Started EXCEPT !.at = "asleep", !.wd = d].wd = d
BY DEF Started

\* How long the worker sleeps.
LEMMA SleepTicksIs ==
  ASSUME WorkInv, hp.since < PERIOD, NextDelay > 0
  PROVE  SleepTicks \in Nat /\ SleepTicks <= NextDelay
<1>1. PICK a \in Nat : a = NextDelay
  <2>1. NextDelay \in 0..PERIOD /\ PERIOD \in Nat
    BY ScanFinds, WorkBounds
  <2> QED  BY <2>1
<1>2. PICK b \in Nat : b = PERIOD - hp.since
  <2>1. hp.since \in 0..SinceMax /\ SinceMax \in Nat /\ PERIOD \in Nat
    BY WorkFields, WorkBounds
  <2> QED  BY <2>1
<1>3. {a, b} \in SUBSET Nat /\ {a, b} # {}
  OBVIOUS
<1>4. Min({a, b}) \in Nat /\ \A y \in {a, b} : Min({a, b}) <= y
  BY <1>3, MinIs
<1>5. SleepTicks = Min({a, b})
  BY <1>1, <1>2 DEF SleepTicks
<1> QED  BY <1>1, <1>4, <1>5

\* The worker falls asleep on a watchdog from the pool, or starts again.
LEMMA WorkSleepStep ==
  ASSUME TimerInv, WorkInv, WorkSleep, UNCHANGED timerVars
  PROVE  TimerInv' /\ AbsStep
<1>1. /\ ~isr /\ isr' = isr /\ pt' = pt /\ call' = call /\ hp.at \in {"start", "calling"}
  BY DEF WorkSleep, Scanning, timerVars
<1>2. WdSound(w) /\ ActiveServes /\ LiveHold /\ WorkerHolds /\ NothingDue /\ OwnTimers /\ TimerTypeOK
  BY DEF TimerInv
<1>3. hp.wd = NoSleep /\ hp.at \notin Waiting
  BY <1>1, <1>2 DEF WorkerHolds, Waiting
<1>4. CASE hp' = Started /\ w' = w
  <2>1. hp'.wd = NoSleep /\ hp'.at = "start"
    BY <1>4, WorkConstants
  <2> QED  BY <1>1, <1>3, <1>4, <2>1, WakingStep DEF Waiting
<1>5. ASSUME NEW d \in wd_create(w), hp.since < PERIOD, NextDelay > 0,
             w' = wd_start(Allocated(w, d), d, SleepTicks, SIG_TIMEOUT),
             hp' = [Started EXCEPT !.at = "asleep", !.wd = d]
      PROVE  TimerInv' /\ AbsStep
  <2>1. hp'.at = "asleep" /\ hp'.wd = d
    BY <1>5, SleepFields
  <2>2. PICK u : u = Allocated(w, d)
    OBVIOUS
  <2>3. /\ d \in w.unused /\ d \in Wd
        /\ WdSound(u) /\ u.unused = w.unused \ {d} /\ u.func = w.func /\ Left(u) = Left(w)
    BY <1>2, <2>2, AllocatedIs
  <2>4. PICK n \in Nat : n = SleepTicks
    BY <1>5, SleepTicksIs
  <2>5. w' = wd_start(u, d, n, SIG_TIMEOUT) /\ SIG_TIMEOUT \in Func
    BY <1>5, <2>2, <2>4 DEF Func
  <2>6. /\ WdSound(w') /\ w'.unused = u.unused /\ Left(w')[d] = n + 1 /\ w'.func[d] = SIG_TIMEOUT
        /\ Kept(u, w', d)
    BY <2>3, <2>5, StartedIs
  <2>7. Undisturbed({d}) /\ SetLater({d})
    <3>1. Left(w')[d] \in Nat \ {0}
      BY <2>6
    <3> QED  BY <2>3, <2>6, <3>1 DEF Undisturbed, SetLater, Kept
  <2>8. Left(w')[d] # -1 /\ d \notin w'.unused /\ ServesSleep(d)'
    <3>1. Left(w')[d] # -1
      BY <2>6
    <3> QED  BY <2>1, <2>3, <2>6, <3>1 DEF ServesSleep
  <2>9. \A y \in Tm : Live(y)' <=> Live(y)
    BY <1>1 DEF Live
  <2>10. w'.unused \ {d} \subseteq w.unused /\ w'.unused \subseteq w.unused
    BY <2>3, <2>6
  <2>11. ActiveServes'
    BY <1>1, <1>2, <1>3, <2>3, <2>7, <2>8, <2>9, <2>10, ServesKept
  <2>12. LiveHold'
    <3>1. \A y \in Tm : Live(y) => pt[y].wd \notin w.unused
      BY <1>2 DEF LiveHold
    <3>2. \A y \in Tm : Live(y)' => /\ Live(y) /\ pt'[y].wd = pt[y].wd
                                    /\ pt[y].wd \notin w'.unused /\ pt[y].wd # hp'.wd
      BY <1>1, <2>1, <2>3, <2>9, <2>10, <3>1
    <3> QED  BY <1>2, <3>2, LiveKept
  <2>13. WorkerHolds'
    BY <2>1, <2>3, <2>8 DEF WorkerHolds
  <2>14. NothingDue' /\ OwnTimers' /\ TimerTypeOK' /\ isr' \in BOOLEAN
    <3>1. NothingDue'
      BY <1>1, <1>2, <2>3, <2>7, NotDueKept
    <3> QED  BY <1>1, <1>2, <3>1 DEF OwnTimers, TimerTypeOK, TimerInv
  <2>15. AbsStep
    BY <1>1, <2>3, <2>7, AbsSets
  <2> QED  BY <2>6, <2>11, <2>12, <2>13, <2>14, <2>15 DEF TimerInv
<1> QED  BY <1>4, <1>5 DEF WorkSleep

\* The worker runs again and gives its watchdog back.
LEMMA WorkResumeStep ==
  ASSUME TimerInv, WorkInv, WorkResume, UNCHANGED timerVars
  PROVE  TimerInv' /\ AbsStep
<1>1. /\ ~isr /\ isr' = isr /\ pt' = pt /\ call' = call /\ hp.at = "woken"
      /\ w' = wd_delete(w, hp.wd) /\ hp'.at = "start" /\ hp'.wd = NoSleep
  BY WorkConstants DEF WorkResume, timerVars
<1>2. WdSound(w) /\ ActiveServes /\ LiveHold /\ WorkerHolds /\ NothingDue /\ OwnTimers /\ TimerTypeOK
  BY DEF TimerInv
<1>3. PICK d \in Wd : d = hp.wd /\ d \notin w.unused
  BY <1>1, <1>2 DEF WorkerHolds
<1>4. Gone(w, w', {d})
  BY <1>1, <1>2, <1>3, Deleted
<1>5. WdSound(w') /\ w'.unused = w.unused \union {d} /\ Left(w')[d] = -1 /\ Undisturbed({d}) /\ SetLater({d})
  BY <1>4 DEF Gone, Undisturbed, SetLater
<1>6. \A y \in Tm : Live(y)' <=> Live(y)
  BY <1>1 DEF Live
<1>7. w'.unused \ {d} \subseteq w.unused
  BY <1>5
<1>8. ActiveServes'
  BY <1>1, <1>2, <1>3, <1>5, <1>6, <1>7, ServesKept
<1>9. LiveHold'
  <2>1. \A y \in Tm : Live(y) => pt[y].wd \in Wd /\ pt[y].wd \notin w.unused /\ pt[y].wd # d
    BY <1>2, <1>3 DEF LiveHold
  <2>2. \A y \in Tm : Live(y)' => /\ Live(y) /\ pt'[y].wd = pt[y].wd
                                  /\ pt[y].wd \notin w'.unused /\ pt[y].wd # hp'.wd
    BY <1>1, <1>5, <1>6, <2>1, WorkQueueAssumption DEF NoSleep
  <2> QED  BY <1>2, <2>2, LiveKept
<1>10. WorkerHolds'
  BY <1>1 DEF WorkerHolds
<1>11. NothingDue' /\ OwnTimers' /\ TimerTypeOK' /\ isr' \in BOOLEAN
  <2>1. NothingDue'
    BY <1>1, <1>2, <1>5, NotDueKept
  <2> QED  BY <1>1, <1>2, <2>1 DEF OwnTimers, TimerTypeOK, TimerInv
<1>12. AbsStep
  BY <1>1, <1>5, AbsSets
<1> QED  BY <1>5, <1>8, <1>9, <1>10, <1>11, <1>12 DEF TimerInv

\* What the owner of timers calls, one case per function.
LEMMA TimerCallStep ==
  ASSUME TimerInv, WorkInv, NEW o \in Owner, TimerCall(o), UNCHANGED workVars
  PROVE  TimerInv' /\ AbsStep /\ SleepKept
<1>1. ~isr /\ isr' = isr
  BY DEF TimerCall
<1>2. \/ TimerCreate(o) \/ TimerSettime(o) \/ TimerSetInterval(o) \/ TimerArm(o, FALSE) \/ TimerArm(o, TRUE)
      \/ TimerDelete(o) \/ TimerFree(o) \/ TimerDeleteAll(o)
  BY DEF TimerCall
<1>3. CASE TimerCreate(o)
  BY <1>1, <1>3, TimerCreateStep
<1>4. CASE TimerSettime(o)
  BY <1>1, <1>4, TimerSettimeStep
<1>5. CASE TimerSetInterval(o)
  BY <1>1, <1>5, TimerSetIntervalStep
<1>6. CASE TimerArm(o, FALSE)
  BY <1>1, <1>6, TimerArmStep
<1>7. CASE TimerArm(o, TRUE)
  BY <1>1, <1>7, TimerArmStep
<1>8. CASE TimerDelete(o)
  BY <1>1, <1>8, TimerDeleteStep
<1>9. CASE TimerFree(o)
  BY <1>1, <1>9, TimerFreeStep
<1>10. CASE TimerDeleteAll(o)
  BY <1>1, <1>10, TimerDeleteAllStep
<1> QED  BY <1>2, <1>3, <1>4, <1>5, <1>6, <1>7, <1>8, <1>9, <1>10

\* Every step keeps the timer system sound and is a step of the independent timers.
LEMMA TimerStep ==
  ASSUME TimerInv, WorkInv, [Next]_vars
  PROVE  TimerInv' /\ AbsStep
<1>1. CASE TickBegins
  BY <1>1, TickBeginsStep
<1>2. CASE TickEnds
  BY <1>2, TickEndsStep
<1>3. CASE Expiration
  BY <1>3, TimerExpiresStep, SleepExpiresStep DEF Expiration
<1>4. ASSUME NEW o \in Owner, TimerCall(o), UNCHANGED workVars PROVE TimerInv' /\ AbsStep
  BY <1>4, TimerCallStep
<1>5. ASSUME NEW k \in Work, WorkCall(k), UNCHANGED timerVars PROVE TimerInv' /\ AbsStep
  BY <1>5, WorkCallStep
<1>6. CASE Worker /\ UNCHANGED timerVars
  BY <1>6, WorkRunStep, WorkSleepStep, WorkResumeStep DEF Worker
<1>7. CASE UNCHANGED vars
  BY <1>7, WakingStep DEF vars
<1> QED  BY <1>1, <1>2, <1>3, <1>4, <1>5, <1>6, <1>7 DEF Next

\* The system starts sound, with all timers stopped.
LEMMA TimerStart ==
  ASSUME Init
  PROVE  TimerInv /\ WorkInv /\ Left(w) = [d \in Wd |-> -1] /\ isr = FALSE
<1>1. /\ w = NoWdogs /\ isr = FALSE
      /\ pt = [x \in Tm |-> FreeTimer] /\ call = [o \in Owner |-> Idle]
      /\ q = <<>> /\ work = [k \in Work |-> NoWork] /\ kills = {} /\ hp = Started
  BY DEF Init, TimerInit, WorkInit
<1>2. WdSound(w) /\ w.list = <<>> /\ Len(w.list) = 0
  <2>1. w.list = <<>> /\ w.lag = [d \in Wd |-> 0] /\ w.func = [d \in Wd |-> NoFunc] /\ w.unused = Wd
    BY <1>1 DEF NoWdogs
  <2>2. <<>> \in Seq(Wd) /\ Len(<<>>) = 0
    OBVIOUS
  <2>3. w \in Wdogs
    BY <1>1, <2>2 DEF NoWdogs, Wdogs, Func
  <2> QED  BY <2>1, <2>2, <2>3 DEF WdSound, Once
<1>3. \A d \in Wd : Left(w)[d] = -1
  <2>1. \A d \in Wd : \A i \in 1..Len(w.list) : w.list[i] # d
    BY <1>2
  <2> QED  BY <1>2, <2>1, LeftIs
<1>4. Left(w) = [d \in Wd |-> -1]
  BY <1>3, LeftFcn
<1>5. \A x \in Tm : ~Live(x)
  BY <1>1 DEF Live, FreeTimer
<1>6. TimerTypeOK
  <2>1. FreeTimer \in [owner : Owner \union {"none"}, delay : Nat, wd : Wd \union {NoWd}]
    BY DEF FreeTimer
  <2>2. Idle \in [at : {"idle", "disarmed", "arm", "free"}, tm : Tm \union {NoTm},
                  value : TimeArg \union {0}, interval : TimeArg \union {0}]
    BY DEF Idle
  <2> QED  BY <1>1, <2>1, <2>2 DEF TimerTypeOK
<1>7. TimerInv
  <2>1. NothingDue /\ ActiveServes /\ LiveHold
    BY <1>3, <1>5 DEF NothingDue, ActiveServes, LiveHold
  <2>2. OwnTimers
    BY <1>1 DEF OwnTimers, Idle
  <2>3. WorkerHolds
    BY <1>1, WorkConstants DEF WorkerHolds
  <2> QED  BY <1>1, <1>2, <1>6, <2>1, <2>2, <2>3 DEF TimerInv
<1>8. WorkInv
  <2>1. q \in Seq(Work) /\ Len(q) = 0 /\ DOMAIN q = {}
    BY <1>1
  <2>2. IsInjective(q) /\ ToSet(q) = {}
    BY <2>1 DEF IsInjective, ToSet
  <2>3. work \in [Work -> WorkType] /\ \A k \in Work : work[k] = NoWork
    BY <1>1, WorkConstants
  <2>4. hp \in HpType
    BY <1>1, WorkConstants
  <2>5. WorkTypeOK
    BY <1>1, <2>1, <2>3, <2>4 DEF WorkTypeOK, WorkType, HpType
  <2>6. QueuedHasWorker /\ \A k \in Work : work[k].age <= work[k].delay
    BY <2>2, <2>3, WorkConstants DEF QueuedHasWorker
  <2> QED  BY <2>5, <2>6 DEF WorkInv
<1> QED  BY <1>1, <1>4, <1>7, <1>8

\* The inductive invariant of the timer system.
LEMMA TimersSound == Spec => [](TimerInv /\ WorkInv)
<1>1. Init => TimerInv /\ WorkInv
  BY TimerStart
<1>2. TimerInv /\ WorkInv /\ [Next]_vars => (TimerInv /\ WorkInv)'
  <2> SUFFICES ASSUME TimerInv, WorkInv, [Next]_vars PROVE TimerInv' /\ WorkInv'
    OBVIOUS
  <2>1. TimerInv'
    BY TimerStep
  <2>2. WorkInv'
    BY WorkStep DEF TimerInv
  <2> QED  BY <2>1, <2>2
<1> QED  BY <1>1, <1>2, PTL DEF Spec

\* The types of the timer system, of timer_create's and wd_start's structures and of
\* the worker.
THEOREM TypeCorrect == Spec => []TypeOK
<1>1. TimerInv /\ WorkInv => TypeOK
  <2> SUFFICES ASSUME TimerInv, WorkInv PROVE TypeOK
    OBVIOUS
  <2>1. isr \in BOOLEAN /\ WdSound(w) /\ TimerTypeOK /\ WorkTypeOK
    BY DEF TimerInv, WorkInv
  <2> QED  BY <2>1, WdFields DEF TypeOK
<1> QED  BY <1>1, TimersSound, PTL

\* An active watchdog of wd_start is out of the pool and is held by the one client its
\* callback reaches, so that no expiry reaches a timer that timer_delete has freed or a
\* worker that sleeps for something else; no two clients hold the same watchdog.
THEOREM WatchdogAlwaysHasOneClient == Spec => []WatchdogHasOneClient
<1>1. TimerInv /\ WorkInv => WatchdogHasOneClient
  <2> SUFFICES ASSUME TimerInv, WorkInv PROVE WatchdogHasOneClient
    OBVIOUS
  <2>1. WdSound(w) /\ ActiveServes /\ LiveHold
    BY DEF TimerInv
  <2>2. \A d \in ToSet(w.list) : d \in Wd /\ Left(w)[d] # -1
    <3> SUFFICES ASSUME NEW d \in ToSet(w.list) PROVE d \in Wd /\ Left(w)[d] # -1
      OBVIOUS
    <3>1. d \in Wd
      BY <2>1, WdFields DEF ToSet
    <3>2. WDOG_ISACTIVE(w, d)
      BY DEF WDOG_ISACTIVE
    <3> QED  BY <2>1, <3>1, <3>2, LeftIs
  <2> QED  BY <2>1, <2>2 DEF WatchdogHasOneClient, ActiveServes, ServesTimer, ServesSleep, LiveHold
<1> QED  BY <1>1, TimersSound, PTL

\* work->worker is set exactly while the work_s is in the queue, where it is once: what
\* the assertions of work_cancel rely on.
THEOREM QueuedAlwaysHasWorker == Spec => []QueuedHasWorker
<1>1. TimerInv /\ WorkInv => QueuedHasWorker
  BY DEF WorkInv
<1> QED  BY <1>1, TimersSound, PTL

\* The delta list of wd_start, wd_cancel and wd_timer implements independent timers:
\* each counts down by itself, one per tick, and is served in the tick in which its time
\* is up, whatever happens to the others.
THEOREM ImplementsAbsTimers == Spec => ImplementsAbs
<1>1. Init => Abs!Init
  BY TimerStart DEF Abs!Init, Abs!OFF
<1>2. TimerInv /\ WorkInv /\ [Next]_vars => [Abs!Next]_(Abs!vars)
  BY TimerStep DEF AbsStep
<1>3. Abs!Init /\ [][Abs!Next]_(Abs!vars) => ImplementsAbs
  BY DEF ImplementsAbs, Abs!Spec
<1> QED  BY <1>1, <1>2, <1>3, TimersSound, PTL DEF Spec

\* The sleep of the worker ends in time for all work whose signal was sent.
InTime ==
  hp.at = "asleep" => \A k \in ToSet(q) \ kills : Left(w)[hp.wd] <= work[k].delay - work[k].age + 1

\* Nothing changes for work that stays in the queue while the worker sleeps on.
LEMMA InTimeKept ==
  ASSUME InTime, WorkInv, WorkInv', hp.at = "asleep", hp'.wd = hp.wd, Left(w')[hp.wd] = Left(w)[hp.wd],
         \A k \in Work \ kills' : work'[k].worker => work'[k] = work[k] /\ k \notin kills
  PROVE  InTime'
<1> SUFFICES ASSUME NEW k \in ToSet(q') \ kills'
             PROVE  Left(w')[hp'.wd] <= work'[k].delay - work'[k].age + 1
  BY DEF InTime
<1>1. QueuedHasWorker' /\ QueuedHasWorker /\ WorkTypeOK'
  BY DEF WorkInv
<1>2. q' \in Seq(Work)
  BY <1>1 DEF WorkTypeOK
<1>3. k \in Work
  BY <1>2, LenProperties DEF ToSet
<1>4. work'[k].worker
  BY <1>1, <1>3 DEF QueuedHasWorker
<1>5. work'[k] = work[k] /\ k \notin kills
  BY <1>3, <1>4
<1>6. k \in ToSet(q)
  BY <1>1, <1>3, <1>4, <1>5 DEF QueuedHasWorker
<1> QED  BY <1>5, <1>6 DEF InTime

\* A tick brings the end of the sleep and the time of the work closer together.
LEMMA InTimeTick ==
  ASSUME InTime, TimerInv, WorkInv, TickBegins
  PROVE  InTime'
<1>1. /\ ~isr /\ w' = wd_timer(w) /\ q' = q /\ kills' = kills
      /\ work' = [k \in Work |-> IF work[k].worker /\ ~Ready(k)
                                 THEN [work[k] EXCEPT !.age = @ + 1] ELSE work[k]]
      /\ hp' = IF hp.at = "calling" /\ hp.since < SinceMax THEN [hp EXCEPT !.since = @ + 1] ELSE hp
  BY DEF TickBegins, WorkTick
<1>2. hp'.at = hp.at /\ hp'.wd = hp.wd
  BY <1>1, WorkFields
<1> SUFFICES ASSUME hp.at = "asleep", NEW k \in ToSet(q) \ kills
             PROVE  Left(w')[hp.wd] <= work'[k].delay - work'[k].age + 1
  BY <1>1, <1>2 DEF InTime
<1>3. PICK d \in Wd : d = hp.wd /\ Left(w)[d] # -1
  BY DEF TimerInv, WorkerHolds
<1>4. WdSound(w) /\ ~Expired(w)
  <2>1. WdSound(w) /\ \A e \in Wd : Left(w)[e] # 0
    BY <1>1 DEF TimerInv, NothingDue
  <2> QED  BY <2>1, DueIs
<1>5. Left(w)[d] \in Nat /\ Left(w')[d] = Left(w)[d] - 1
  BY <1>1, <1>3, <1>4, LeftIs, Ticked
<1>6. /\ k \in Work /\ work[k].worker /\ work[k].delay \in Nat /\ work[k].age \in Nat
      /\ work[k].age <= work[k].delay
      /\ work[k] \in WorkType
  BY WorkFields DEF WorkType
<1>7. Left(w)[d] <= work[k].delay - work[k].age + 1
  BY <1>3 DEF InTime
<1>8. CASE Ready(k)
  <2>1. work'[k] = work[k]
    BY <1>1, <1>6, <1>8
  <2> QED  BY <1>3, <1>5, <1>6, <1>7, <2>1
<1>9. CASE ~Ready(k)
  <2>1. work'[k] = [work[k] EXCEPT !.age = @ + 1]
    BY <1>1, <1>6, <1>9
  <2>2. work'[k].delay = work[k].delay /\ work'[k].age = work[k].age + 1
    BY <1>6, <2>1 DEF WorkType
  <2> QED  BY <1>3, <1>5, <1>6, <1>7, <2>2
<1> QED  BY <1>8, <1>9

\* The scan has looked at all work in the queue before the worker falls asleep.
LEMMA InTimeSleep ==
  ASSUME TimerInv, WorkInv, WorkSleep
  PROVE  InTime'
<1> SUFFICES ASSUME hp'.at = "asleep", NEW k \in ToSet(q') \ kills'
             PROVE  Left(w')[hp'.wd] <= work'[k].delay - work'[k].age + 1
  BY DEF InTime
<1>1. q' = q /\ work' = work /\ kills' = kills /\ FirstReady = 0
  BY DEF WorkSleep
<1>2. hp' # Started
  BY WorkConstants
<1>3. PICK d \in wd_create(w) : /\ hp.since < PERIOD /\ NextDelay > 0
                                /\ w' = wd_start(Allocated(w, d), d, SleepTicks, SIG_TIMEOUT)
                                /\ hp' = [Started EXCEPT !.at = "asleep", !.wd = d]
  BY <1>2 DEF WorkSleep
<1>4. PICK u : u = Allocated(w, d)
  OBVIOUS
<1>5. d \in Wd /\ WdSound(u)
  BY <1>4, AllocatedIs DEF TimerInv
<1>6. PICK n \in Nat : n = SleepTicks /\ n <= NextDelay
  BY <1>3, SleepTicksIs
<1>7. w' = wd_start(u, d, n, SIG_TIMEOUT) /\ SIG_TIMEOUT \in Func
  BY <1>3, <1>4, <1>6 DEF Func
<1>8. Left(w')[d] = n + 1
  BY <1>5, <1>7, StartedIs
<1>9. hp'.wd = d
  BY <1>3, SleepFields
<1>10. k \in Work /\ work[k].delay \in Nat /\ work[k].age \in Nat
  BY <1>1, WorkFields
<1>11. PICK m \in Nat : m = NextDelay /\ m <= work[k].delay - work[k].age
  <2>1. NextDelay \in 0..PERIOD /\ PERIOD \in Nat
    BY ScanFinds, WorkBounds
  <2>2. NextDelay <= work[k].delay - work[k].age
    BY <1>1, ScanFinds
  <2> QED  BY <2>1, <2>2
<1>12. Left(w')[d] <= work[k].delay - work[k].age + 1
  BY <1>6, <1>8, <1>10, <1>11
<1> QED  BY <1>1, <1>9, <1>12

\* No step makes the worker oversleep.
LEMMA InTimeStep ==
  ASSUME InTime, TimerInv, WorkInv, WorkInv', [Next]_vars
  PROVE  InTime'
<1>1. CASE TickBegins
  BY <1>1, InTimeTick
<1>2. ASSUME hp'.at # "asleep" PROVE InTime'
  BY <1>2 DEF InTime
<1>3. ASSUME UNCHANGED workVars, SleepKept PROVE InTime'
  BY <1>3 DEF InTime, SleepKept, workVars
<1>4. CASE TickEnds
  BY <1>3, <1>4 DEF TickEnds, workVars, SleepKept
<1>5. ASSUME NEW x \in Tm, TimerExpires(x), UNCHANGED workVars PROVE InTime'
  BY <1>3, <1>5, TimerExpiresStep
<1>6. ASSUME NEW o \in Owner, TimerCall(o), UNCHANGED workVars PROVE InTime'
  BY <1>3, <1>6, TimerCallStep
<1>7. ASSUME work_signal PROVE hp'.at # "asleep"
  BY <1>7, WorkFields DEF work_signal
<1>8. CASE SleepExpires
  <2>1. hp'.at # "asleep"
    BY <1>8, WorkFields DEF SleepExpires
  <2> QED  BY <1>2, <2>1
<1>9. ASSUME NEW k \in Work, WorkCall(k) PROVE InTime'
  <2>0. work \in [Work -> WorkType]
    BY DEF WorkInv, WorkTypeOK, WorkType
  <2>1. CASE WorkKill(k) \/ WorkQueueFromIsr(k)
    BY <1>2, <1>7, <2>1 DEF WorkKill, WorkQueueFromIsr
  <2>2. CASE WorkQueueCall(k)
    <3>1. w' = w /\ hp' = hp /\ kills' = kills \union {k}
      BY <2>2 DEF WorkQueueCall
    <3>2. PICK delay \in DelayArg : work' = [work EXCEPT ![k] = [worker |-> TRUE, delay |-> delay, age |-> 0]]
      BY <2>2 DEF WorkQueueCall, work_qqueue
    <3>3. \A j \in Work \ kills' : work'[j] = work[j] /\ j \notin kills
      BY <2>0, <3>1, <3>2
    <3>4. CASE hp.at = "asleep"
      BY <3>1, <3>3, <3>4, InTimeKept
    <3>5. CASE hp.at # "asleep"
      BY <1>2, <3>1, <3>5
    <3> QED  BY <3>4, <3>5
  <2>3. CASE WorkCancel(k)
    <3>1. w' = w /\ hp' = hp /\ kills' = kills /\ work' = [work EXCEPT ![k] = NoWork]
      BY <2>3 DEF WorkCancel
    <3>2. \A j \in Work \ kills' : work'[j].worker => work'[j] = work[j] /\ j \notin kills
      BY <2>0, <3>1, WorkConstants
    <3>3. CASE hp.at = "asleep"
      BY <3>1, <3>2, <3>3, InTimeKept
    <3>4. CASE hp.at # "asleep"
      BY <1>2, <3>1, <3>4
    <3> QED  BY <3>3, <3>4
  <2> QED  BY <1>9, <2>1, <2>2, <2>3 DEF WorkCall
<1>10. CASE WorkRun
  <2>1. hp'.at = "calling"
    BY <1>10, WorkFields DEF WorkRun
  <2> QED  BY <1>2, <2>1
<1>11. CASE WorkSleep
  BY <1>11, InTimeSleep
<1>12. CASE WorkResume
  <2>1. hp'.at = "start"
    BY <1>12, WorkConstants DEF WorkResume
  <2> QED  BY <1>2, <2>1
<1>13. CASE UNCHANGED vars
  BY <1>3, <1>13 DEF vars, workVars, SleepKept
<1> QED
  BY <1>1, <1>4, <1>5, <1>6, <1>8, <1>9, <1>10, <1>11, <1>12, <1>13 DEF Next, Expiration, Worker

\* The worker of work_process never oversleeps: while it sleeps its watchdog is running
\* and ends the sleep at most one tick after any queued work becomes ready, unless
\* work_queue has still to send the signal of that work.
THEOREM WorkerAlwaysWakesInTime == Spec => []WorkerWakesInTime
<1>1. Init => InTime
  BY WorkConstants DEF Init, WorkInit, InTime
<1>2. TimerInv /\ WorkInv /\ WorkInv' /\ InTime /\ [Next]_vars => InTime'
  BY InTimeStep
<1>3. TimerInv /\ WorkInv /\ InTime => WorkerWakesInTime
  <2> SUFFICES ASSUME TimerInv, WorkInv, InTime, hp.at = "asleep"
               PROVE  /\ WDOG_ISACTIVE(w, hp.wd)
                      /\ \A k \in ToSet(q) \ kills : wd_gettime(w, hp.wd) <= work[k].delay - work[k].age + 1
    BY DEF WorkerWakesInTime
  <2>1. WdSound(w) /\ hp.wd \in Wd /\ Left(w)[hp.wd] # -1
    BY DEF TimerInv, WorkerHolds
  <2>2. WDOG_ISACTIVE(w, hp.wd) /\ wd_gettime(w, hp.wd) = Left(w)[hp.wd]
    BY <2>1, LeftIs
  <2> QED  BY <2>2 DEF InTime
<1> QED  BY <1>1, <1>2, <1>3, TimersSound, PTL DEF Spec
=============================================================================
