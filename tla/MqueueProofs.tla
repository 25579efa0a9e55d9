---------------------------- MODULE MqueueProofs ----------------------------
(***************************************************************************)
(* The promises of the message queues, for any number of tasks, queues and *)
(* messages: the counters of waiting tasks, the order of the messages, the *)
(* limit maxmsgs, the pools, and that no waiting task is forgotten.        *)
(***************************************************************************)
EXTENDS Mqueue, KernelProofs, FiniteSetTheorems

\* The places of a sequence that hold an element of S.
Hits(l, S) == {i \in 1..Len(l) : l[i] \in S}

\* They are finitely many.
LEMMA HitsFinite ==
  ASSUME NEW T, NEW l \in Seq(T), NEW S
  PROVE  IsFiniteSet(Hits(l, S)) /\ Cardinality(Hits(l, S)) \in Nat
<1>1. Len(l) \in Nat
  BY LenProperties
<1>2. IsFiniteSet(1..Len(l)) /\ Hits(l, S) \in SUBSET (1..Len(l))
  BY <1>1, FS_Interval DEF Hits
<1> QED  BY <1>2, FS_Subset, FS_CardinalityType

\* A bijection, given by its graph.
LEMMA SameSize ==
  ASSUME NEW S, IsFiniteSet(S), NEW T, NEW f \in [S -> T],
         \A x, y \in S : f[x] = f[y] => x = y, \A y \in T : \E x \in S : f[x] = y
  PROVE  IsFiniteSet(T) /\ Cardinality(T) = Cardinality(S)
<1>1. f \in Bijection(S, T)
  BY DEF Bijection, Injection, Surjection, IsInjective
<1>2. ExistsBijection(S, T)
  BY <1>1 DEF ExistsBijection
<1> QED  BY <1>2, FS_Bijection

\* The sequence that InsertAtPos returns.
LEMMA InsertedAt ==
  ASSUME NEW T, NEW l \in Seq(T), NEW i \in 1..(Len(l) + 1), NEW m \in T
  PROVE  /\ InsertAtPos(l, i, m) \in Seq(T) /\ Len(InsertAtPos(l, i, m)) = Len(l) + 1
         /\ \A n \in 1..(Len(l) + 1) :
              InsertAtPos(l, i, m)[n] = IF n < i THEN l[n] ELSE IF n = i THEN m ELSE l[n - 1]
<1>1. Len(l) \in Nat /\ l \in [1..Len(l) -> T]
  BY LenProperties
<1>2. InsertAtPos(l, i, m) \in [1..(Len(l) + 1) -> T]
  BY <1>1 DEF InsertAtPos
<1>3. InsertAtPos(l, i, m) \in Seq(T) /\ Len(InsertAtPos(l, i, m)) = Len(l) + 1
  BY <1>1, <1>2, FcnIsSeq
<1> QED  BY <1>3 DEF InsertAtPos

\* An insertion adds one place, and moves the others.
LEMMA HitsInserted ==
  ASSUME NEW T, NEW l \in Seq(T), NEW i \in 1..(Len(l) + 1), NEW m \in T, NEW S
  PROVE  Cardinality(Hits(InsertAtPos(l, i, m), S)) =
           IF m \in S THEN Cardinality(Hits(l, S)) + 1 ELSE Cardinality(Hits(l, S))
<1> DEFINE a == InsertAtPos(l, i, m)
           H == Hits(l, S)
           G == Hits(a, S) \ {i}
           f == [n \in H |-> IF n < i THEN n ELSE n + 1]
<1>1. /\ a \in Seq(T) /\ Len(a) = Len(l) + 1 /\ Len(l) \in Nat /\ i \in Nat
      /\ \A n \in 1..(Len(l) + 1) : a[n] = IF n < i THEN l[n] ELSE IF n = i THEN m ELSE l[n - 1]
  <2>1. Len(l) \in Nat
    BY LenProperties
  <2>2. i \in Nat
    BY <2>1
  <2>3. a \in Seq(T) /\ Len(a) = Len(l) + 1
    BY InsertedAt
  <2>4. \A n \in 1..(Len(l) + 1) : a[n] = IF n < i THEN l[n] ELSE IF n = i THEN m ELSE l[n - 1]
    BY DEF InsertAtPos
  <2> QED  BY <2>1, <2>2, <2>3, <2>4
<1> HIDE DEF a
<1>2. f \in [H -> G]
  BY <1>1 DEF Hits
<1>3. \A x, y \in H : f[x] = f[y] => x = y
  BY <1>1 DEF Hits
<1>4. ASSUME NEW y \in G PROVE \E x \in H : f[x] = y
  <2>1. y \in 1..(Len(l) + 1) /\ y # i /\ a[y] \in S
    BY <1>1 DEF Hits
  <2>2. CASE y < i
    <3>1. y \in H
      BY <1>1, <2>1, <2>2 DEF Hits
    <3> QED  BY <2>2, <3>1
  <2>3. CASE y > i
    <3>1. y - 1 \in H
      BY <1>1, <2>1, <2>3 DEF Hits
    <3> QED  BY <1>1, <2>1, <2>3, <3>1
  <2> QED  BY <1>1, <2>1, <2>2, <2>3
<1>5. IsFiniteSet(H)
  BY HitsFinite
<1> HIDE DEF H, G, f
<1>6. IsFiniteSet(G) /\ Cardinality(G) = Cardinality(H)
  BY <1>2, <1>3, <1>4, <1>5, SameSize
<1>7. Cardinality(G) = IF i \in Hits(a, S) THEN Cardinality(Hits(a, S)) - 1 ELSE Cardinality(Hits(a, S))
  BY <1>1, HitsFinite, FS_RemoveElement DEF G
<1>8. i \in Hits(a, S) <=> m \in S
  BY <1>1 DEF Hits
<1>9. Cardinality(Hits(a, S)) \in Nat /\ Cardinality(H) \in Nat
  BY <1>1, HitsFinite DEF H
<1> QED  BY <1>6, <1>7, <1>8, <1>9 DEF H, a

\* The sequence without its first element.
LEMMA TailAt ==
  ASSUME NEW T, NEW l \in Seq(T), l # <<>>
  PROVE  /\ Tail(l) \in Seq(T) /\ Len(l) \in Nat \ {0} /\ Len(Tail(l)) = Len(l) - 1
         /\ \A n \in 1..(Len(l) - 1) : Tail(l)[n] = l[n + 1]
         /\ Head(l) = l[1] /\ l[1] \in T
<1>1. Len(l) \in Nat \ {0}
  BY LenProperties, EmptySeq
<1> QED  BY <1>1, HeadTailProperties, ElementOfSeq

\* Taking the first element gives up one place.
LEMMA HitsTail ==
  ASSUME NEW T, NEW l \in Seq(T), l # <<>>, NEW S
  PROVE  Cardinality(Hits(Tail(l), S)) =
           IF l[1] \in S THEN Cardinality(Hits(l, S)) - 1 ELSE Cardinality(Hits(l, S))
<1> DEFINE a == Tail(l)
           G == Hits(a, S)
           H == Hits(l, S) \ {1}
           f == [n \in G |-> n + 1]
<1>1. /\ a \in Seq(T) /\ Len(l) \in Nat \ {0} /\ Len(a) = Len(l) - 1
      /\ \A n \in 1..(Len(l) - 1) : a[n] = l[n + 1]
  BY TailAt
<1> HIDE DEF a
<1>2. f \in [G -> H]
  BY <1>1 DEF Hits
<1>3. \A x, y \in G : f[x] = f[y] => x = y
  BY <1>1 DEF Hits
<1>4. ASSUME NEW y \in H PROVE \E x \in G : f[x] = y
  <2>1. y \in 1..Len(l) /\ y # 1 /\ l[y] \in S
    BY <1>1 DEF Hits
  <2>2. y - 1 \in G
    BY <1>1, <2>1 DEF Hits
  <2> QED  BY <1>1, <2>1, <2>2
<1>5. IsFiniteSet(G)
  BY <1>1, HitsFinite
<1> HIDE DEF H, G, f
<1>6. Cardinality(G) = Cardinality(H)
  BY <1>2, <1>3, <1>4, <1>5, SameSize
<1>7. Cardinality(H) = IF 1 \in Hits(l, S) THEN Cardinality(Hits(l, S)) - 1 ELSE Cardinality(Hits(l, S))
  BY HitsFinite, FS_RemoveElement DEF H
<1>8. 1 \in Hits(l, S) <=> l[1] \in S
  BY <1>1 DEF Hits
<1> QED  BY <1>6, <1>7, <1>8 DEF G, a

-----------------------------------------------------------------------------
OfType(y) == {m \in Message : m.type = y}
FromTask == {m \in Message : m.task}
MsgLists == [Queue -> Seq(Message)]

\* The messages of type y in the queues, by queue and place.
Stock(M, y) == UNION {{q} \X {i \in 1..Len(M[q]) : M[q][i].type = y} : q \in Queue}

\* Their places in one queue.
LEMMA HitsOf ==
  ASSUME NEW M \in MsgLists, NEW q \in Queue, NEW y
  PROVE  /\ {i \in 1..Len(M[q]) : M[q][i].type = y} = Hits(M[q], OfType(y))
         /\ {i \in 1..Len(M[q]) : M[q][i].task} = Hits(M[q], FromTask)
<1>1. \A i \in 1..Len(M[q]) : M[q][i] \in Message
  BY ElementOfSeq DEF MsgLists
<1> QED  BY <1>1 DEF Hits, OfType, FromTask

\* The stock, as a set of pairs.
LEMMA StockIs ==
  ASSUME NEW M \in MsgLists, NEW y, NEW x
  PROVE  x \in Stock(M, y) <=> \E q \in Queue : \E i \in Hits(M[q], OfType(y)) : x = <<q, i>>
<1>1. \A q \in Queue : {i \in 1..Len(M[q]) : M[q][i].type = y} = Hits(M[q], OfType(y))
  BY HitsOf
<1>2. x \in Stock(M, y) <=> \E q \in Queue : x \in {q} \X Hits(M[q], OfType(y))
  BY <1>1 DEF Stock
<1> QED  BY <1>2

\* The stock is finite.
LEMMA StockFinite ==
  ASSUME NEW M \in MsgLists, NEW y
  PROVE  IsFiniteSet(Stock(M, y)) /\ Cardinality(Stock(M, y)) \in Nat
<1> DEFINE f == [q \in Queue |-> {q} \X {i \in 1..Len(M[q]) : M[q][i].type = y}]
           R == {f[q] : q \in Queue}
<1>1. f \in Surjection(Queue, R)
  BY DEF Surjection
<1>2. IsFiniteSet(Queue)
  BY MqueueAssumption
<1>3. IsFiniteSet(R)
  BY <1>1, <1>2, FS_Surjection
<1>4. ASSUME NEW S \in R PROVE IsFiniteSet(S)
  <2>1. PICK q \in Queue : S = {q} \X {i \in 1..Len(M[q]) : M[q][i].type = y}
    OBVIOUS
  <2>2. IsFiniteSet(Hits(M[q], OfType(y))) /\ IsFiniteSet({q})
    BY HitsFinite, FS_Singleton DEF MsgLists
  <2>3. S = {q} \X Hits(M[q], OfType(y))
    BY <2>1, HitsOf
  <2> QED  BY <2>2, <2>3, FS_Product
<1>5. Stock(M, y) = UNION R
  BY DEF Stock
<1> HIDE DEF R
<1>6. IsFiniteSet(Stock(M, y))
  BY <1>3, <1>4, <1>5, FS_UNION
<1> QED  BY <1>6, FS_CardinalityType

\* The stock outside queue q.
Elsewhere(M, y, q) == {x \in Stock(M, y) : x[1] # q}

\* The stock of one queue adds to that of the others.
LEMMA StockSplit ==
  ASSUME NEW M \in MsgLists, NEW y, NEW q \in Queue
  PROVE  /\ Cardinality(Stock(M, y)) = Cardinality(Elsewhere(M, y, q)) + Cardinality(Hits(M[q], OfType(y)))
         /\ Cardinality(Elsewhere(M, y, q)) \in Nat /\ Cardinality(Hits(M[q], OfType(y))) \in Nat
<1> DEFINE H == Hits(M[q], OfType(y))
           E == Elsewhere(M, y, q)
           Q == {q} \X H
<1>1. IsFiniteSet(H) /\ Cardinality(H) \in Nat
  BY HitsFinite DEF MsgLists
<1>2. IsFiniteSet(E) /\ Cardinality(E) \in Nat
  BY StockFinite, FS_Subset, FS_CardinalityType DEF Elsewhere
<1>3. IsFiniteSet(Q) /\ Cardinality(Q) = Cardinality(H)
  <2>1. IsFiniteSet({q}) /\ Cardinality({q}) = 1
    BY FS_Singleton
  <2>2. IsFiniteSet(Q) /\ Cardinality(Q) = 1 * Cardinality(H)
    BY <1>1, <2>1, FS_Product
  <2> QED  BY <1>1, <2>2
<1>4. E \intersect Q = {}
  BY DEF Elsewhere
<1>5. Stock(M, y) = E \union Q
  <2>1. ASSUME NEW x \in Stock(M, y), x \notin E PROVE x \in Q
    <3>1. PICK p \in Queue : \E i \in Hits(M[p], OfType(y)) : x = <<p, i>>
      BY <2>1, StockIs
    <3>2. p = q
      BY <2>1, <3>1 DEF Elsewhere
    <3> QED  BY <3>1, <3>2
  <2>2. ASSUME NEW x \in Q PROVE x \in Stock(M, y)
    <3>1. \E i \in Hits(M[q], OfType(y)) : x = <<q, i>>
      BY <2>2
    <3> QED  BY <3>1, StockIs
  <2> QED  BY <2>1, <2>2 DEF Elsewhere
<1> HIDE DEF E, Q, H
<1>6. Cardinality(Stock(M, y)) = Cardinality(E) + Cardinality(Q) - Cardinality(E \intersect Q)
  BY <1>2, <1>3, <1>5, FS_Union
<1>7. Cardinality(E \intersect Q) = 0
  BY <1>4, FS_EmptySet
<1> QED  BY <1>1, <1>2, <1>3, <1>6, <1>7 DEF E, H

\* A change of one queue does not change the stock of the others.
LEMMA ElsewhereSame ==
  ASSUME NEW M \in MsgLists, NEW N \in MsgLists, NEW q \in Queue, \A p \in Queue \ {q} : N[p] = M[p], NEW y
  PROVE  Elsewhere(N, y, q) = Elsewhere(M, y, q)
<1>1. ASSUME NEW A \in MsgLists, NEW B \in MsgLists, \A p \in Queue \ {q} : A[p] = B[p],
             NEW x \in Elsewhere(A, y, q)
      PROVE  x \in Elsewhere(B, y, q)
  <2>1. x \in Stock(A, y) /\ x[1] # q
    BY <1>1 DEF Elsewhere
  <2>2. PICK p \in Queue : \E i \in Hits(A[p], OfType(y)) : x = <<p, i>>
    BY <1>1, <2>1, StockIs
  <2>3. p # q
    BY <2>1, <2>2
  <2>4. \E i \in Hits(B[p], OfType(y)) : x = <<p, i>>
    BY <1>1, <2>2, <2>3
  <2>5. x \in Stock(B, y)
    BY <1>1, <2>4, StockIs
  <2> QED  BY <2>1, <2>5 DEF Elsewhere
<1> QED  BY <1>1

\* Where a message goes.
LEMMA MsgPosFound ==
  ASSUME NEW l \in Seq(Message), NEW p \in Nat
  PROVE  /\ MsgPos(l, p) \in 1..(Len(l) + 1)
         /\ \A n \in 1..(MsgPos(l, p) - 1) : p <= l[n].prio
         /\ MsgPos(l, p) <= Len(l) => l[MsgPos(l, p)].prio < p
<1> DEFINE Fits(i) == /\ \A n \in 1..(i - 1) : p <= l[n].prio
                      /\ i <= Len(l) => l[i].prio < p
           T == {i \in 1..Len(l) : l[i].prio < p}
<1>1. /\ Len(l) \in Nat
      /\ \A n \in 1..Len(l) : l[n].prio \in Nat
  <2>1. Len(l) \in Nat /\ \A n \in 1..Len(l) : l[n] \in Message
    BY LenProperties, ElementOfSeq
  <2> QED  BY <2>1, MqueueAssumption DEF Message
<1>2. \E i \in 1..(Len(l) + 1) : Fits(i)
  <2>1. CASE T = {}
    <3>1. \A n \in 1..Len(l) : p <= l[n].prio
      BY <1>1, <2>1
    <3>2. Fits(Len(l) + 1)
      BY <1>1, <3>1
    <3> QED  BY <1>1, <3>2
  <2>2. CASE T # {}
    <3>1. T \in SUBSET Nat
      BY <1>1
    <3>2. PICK i \in T : \A n \in T : i <= n
      BY <2>2, <3>1, LeastElement
    <3>3. i \in 1..Len(l) /\ l[i].prio < p /\ i \in Nat
      BY <1>1, <3>2
    <3>4. ASSUME NEW n \in 1..(i - 1) PROVE p <= l[n].prio
      <4>1. n \in 1..Len(l) /\ n < i
        BY <1>1, <3>3
      <4>2. n \notin T
        BY <1>1, <3>2, <3>3, <4>1
      <4> QED  BY <1>1, <4>1, <4>2
    <3>5. Fits(i) /\ i \in 1..(Len(l) + 1)
      BY <1>1, <3>3, <3>4
    <3> QED  BY <3>5
  <2> QED  BY <2>1, <2>2
<1>3. MsgPos(l, p) = CHOOSE i \in 1..(Len(l) + 1) : Fits(i)
  BY DEF MsgPos
<1>4. MsgPos(l, p) \in 1..(Len(l) + 1) /\ Fits(MsgPos(l, p))
  BY <1>2, <1>3
<1> QED  BY <1>4

InOrder(l) == \A i, j \in 1..Len(l) : i < j => l[i].prio >= l[j].prio

\* A message is inserted in order, and a queue stays in order without its
\* first message.
LEMMA OrderKept ==
  ASSUME NEW l \in Seq(Message), InOrder(l)
  PROVE  /\ \A m \in Message : InOrder(InsertAtPos(l, MsgPos(l, m.prio), m))
         /\ l # <<>> => InOrder(Tail(l))
<1>1. /\ Len(l) \in Nat
      /\ \A n \in 1..Len(l) : l[n].prio \in Nat
  <2>1. Len(l) \in Nat /\ \A n \in 1..Len(l) : l[n] \in Message
    BY LenProperties, ElementOfSeq
  <2> QED  BY <2>1, MqueueAssumption DEF Message
<1>2. ASSUME NEW m \in Message PROVE InOrder(InsertAtPos(l, MsgPos(l, m.prio), m))
  <2> DEFINE p == m.prio
             i == MsgPos(l, p)
             a == InsertAtPos(l, i, m)
  <2>1. p \in Nat
    BY MqueueAssumption DEF Message
  <2>2. /\ i \in 1..(Len(l) + 1)
        /\ \A n \in 1..(i - 1) : p <= l[n].prio
        /\ i <= Len(l) => l[i].prio < p
    BY <2>1, MsgPosFound
  <2> HIDE DEF i
  <2>3. /\ Len(a) = Len(l) + 1
        /\ \A n \in 1..(Len(l) + 1) : a[n] = IF n < i THEN l[n] ELSE IF n = i THEN m ELSE l[n - 1]
    BY <2>2, InsertedAt
  <2> HIDE DEF a
  <2>4. \A n \in i..Len(l) : l[n].prio < p
    <3> SUFFICES ASSUME NEW n \in i..Len(l) PROVE l[n].prio < p
      OBVIOUS
    <3>1. i \in 1..Len(l) /\ n \in 1..Len(l) /\ i <= n /\ i <= Len(l)
      BY <1>1, <2>2
    <3>2. l[n].prio <= l[i].prio
      BY <1>1, <3>1 DEF InOrder
    <3>3. l[i].prio < p
      BY <2>2, <3>1
    <3> QED  BY <1>1, <2>1, <3>1, <3>2, <3>3
  <2>5. ASSUME NEW x \in 1..Len(a), NEW y \in 1..Len(a), x < y PROVE a[x].prio >= a[y].prio
    <3>1. CASE y < i
      <4>1. a[x] = l[x] /\ a[y] = l[y] /\ x \in 1..Len(l) /\ y \in 1..Len(l)
        BY <1>1, <2>2, <2>3, <2>5, <3>1
      <4> QED  BY <2>5, <4>1 DEF InOrder
    <3>2. CASE y = i
      <4>1. a[x] = l[x] /\ a[y] = m /\ x \in 1..(i - 1) /\ x \in 1..Len(l)
        BY <1>1, <2>2, <2>3, <2>5, <3>2
      <4>2. p <= l[x].prio /\ l[x].prio \in Nat
        BY <1>1, <2>2, <4>1
      <4> QED  BY <2>1, <4>1, <4>2
    <3>3. CASE y > i /\ x < i
      <4>1. a[x] = l[x] /\ a[y] = l[y - 1] /\ x \in 1..(i - 1) /\ x \in 1..Len(l) /\ y - 1 \in i..Len(l)
            /\ y - 1 \in 1..Len(l)
        BY <1>1, <2>2, <2>3, <2>5, <3>3
      <4>2. p <= l[x].prio /\ l[y - 1].prio < p /\ l[x].prio \in Nat /\ l[y - 1].prio \in Nat
        BY <1>1, <2>2, <2>4, <4>1
      <4> QED  BY <2>1, <4>1, <4>2
    <3>4. CASE y > i /\ x = i
      <4>1. a[x] = m /\ a[y] = l[y - 1] /\ y - 1 \in i..Len(l) /\ y - 1 \in 1..Len(l)
        BY <1>1, <2>2, <2>3, <2>5, <3>4
      <4>2. l[y - 1].prio < p /\ l[y - 1].prio \in Nat
        BY <1>1, <2>4, <4>1
      <4> QED  BY <2>1, <4>1, <4>2
    <3>5. CASE x > i
      <4>1. a[x] = l[x - 1] /\ a[y] = l[y - 1] /\ x - 1 \in 1..Len(l) /\ y - 1 \in 1..Len(l) /\ x - 1 < y - 1
        BY <1>1, <2>2, <2>3, <2>5, <3>5
      <4> QED  BY <4>1 DEF InOrder
    <3>6. x \in Int /\ y \in Int /\ i \in Int
      BY <1>1, <2>2, <2>3
    <3> QED  BY <2>5, <3>1, <3>2, <3>3, <3>4, <3>5, <3>6
  <2>6. InOrder(a)
    BY <2>5 DEF InOrder
  <2> QED  BY <2>6 DEF a, i
<1>3. ASSUME l # <<>> PROVE InOrder(Tail(l))
  <2> DEFINE a == Tail(l)
  <2>1. Len(a) = Len(l) - 1 /\ \A n \in 1..(Len(l) - 1) : a[n] = l[n + 1]
    BY <1>3, TailAt
  <2> HIDE DEF a
  <2>2. ASSUME NEW x \in 1..Len(a), NEW y \in 1..Len(a), x < y PROVE a[x].prio >= a[y].prio
    <3>1. a[x] = l[x + 1] /\ a[y] = l[y + 1] /\ x + 1 \in 1..Len(l) /\ y + 1 \in 1..Len(l) /\ x + 1 < y + 1
      BY <1>1, <2>1, <2>2
    <3> QED  BY <3>1 DEF InOrder
  <2> QED  BY <2>2 DEF InOrder, a
<1> QED  BY <1>2, <1>3

-----------------------------------------------------------------------------
\* Sets of tasks are finite.
LEMMA TasksFinite ==
  ASSUME NEW S \in SUBSET Task
  PROVE  /\ IsFiniteSet(S) /\ Cardinality(S) \in Nat
         /\ Cardinality(S) = 0 <=> S = {}
<1>1. IsFiniteSet(S)
  BY MqueueAssumption, FS_Subset
<1> QED  BY <1>1, FS_CardinalityType, FS_EmptySet

\* A set with one task less has a cardinality one less.
LEMMA OneLess ==
  ASSUME NEW S \in SUBSET Task, NEW t \in S
  PROVE  Cardinality(S \ {t}) = Cardinality(S) - 1
BY TasksFinite, FS_RemoveElement

\* A set with one task more has a cardinality one more.
LEMMA OneMore ==
  ASSUME NEW S \in SUBSET Task, NEW t \in Task \ S
  PROVE  Cardinality(S \union {t}) = Cardinality(S) + 1
BY TasksFinite, FS_AddElement

\* A smaller set of tasks has a smaller cardinality.
LEMMA Fewer ==
  ASSUME NEW S \in SUBSET Task, NEW R \in SUBSET S
  PROVE  Cardinality(R) <= Cardinality(S) /\ Cardinality(R) \in Nat /\ Cardinality(S) \in Nat
BY TasksFinite, FS_Subset

\* What each task waits for.
Sleep(k) == [t \in Task |-> IF k.state[t] \in Reason THEN k.state[t] ELSE "awake"]
SleepMap == [Task -> Reason \union {"awake"}]
Sleepers(S, m, q, s) == {t \in Task : S[t] = s /\ m[t] = q}

\* The counters n of the queues, with the recorded waits m of the tasks.
Ledger(n, m, S) ==
  /\ n \in [Reason -> [Queue -> Nat]] /\ m \in [Task -> Queue \union {NULL}] /\ S \in SleepMap
  /\ \A s \in Reason, q \in Queue : n[s][q] = Cardinality(Sleepers(S, m, q, s))
  /\ \A t \in Task : S[t] = "awake" <=> m[t] = NULL

Counted(n, s, q, i) == [n EXCEPT ![s] = [@ EXCEPT ![q] = i]]

\* One counter changes.
LEMMA CountedAt ==
  ASSUME NEW n \in [Reason -> [Queue -> Nat]], NEW s \in Reason, NEW q \in Queue, NEW i \in Nat
  PROVE  /\ Counted(n, s, q, i) \in [Reason -> [Queue -> Nat]]
         /\ Counted(n, s, q, i)[s][q] = i
         /\ \A r \in Reason, p \in Queue : <<r, p>> # <<s, q>> => Counted(n, s, q, i)[r][p] = n[r][p]
BY DEF Counted

\* A task falls asleep and is counted.
LEMMA WaitBegins ==
  ASSUME NEW n, NEW m, NEW S, Ledger(n, m, S), NEW t \in Task, S[t] = "awake",
         NEW s \in Reason, NEW q \in Queue
  PROVE  Ledger(Counted(n, s, q, n[s][q] + 1), [m EXCEPT ![t] = q], [S EXCEPT ![t] = s])
<1> DEFINE o == Counted(n, s, q, n[s][q] + 1)
           w == [m EXCEPT ![t] = q]
           R == [S EXCEPT ![t] = s]
<1>1. /\ n \in [Reason -> [Queue -> Nat]] /\ m \in [Task -> Queue \union {NULL}] /\ S \in SleepMap
      /\ n[s][q] \in Nat /\ n[s][q] + 1 \in Nat /\ NULL \notin Queue /\ "awake" \notin Reason /\ m[t] = NULL
  <2>1. /\ n \in [Reason -> [Queue -> Nat]] /\ m \in [Task -> Queue \union {NULL}] /\ S \in SleepMap
        /\ NULL \notin Queue /\ "awake" \notin Reason /\ m[t] = NULL
    BY MqueueAssumption DEF Ledger, Reason, NOTEMPTY, NOTFULL
  <2>2. n[s][q] \in Nat
    BY <2>1
  <2> QED  BY <2>1, <2>2
<1>2. /\ o \in [Reason -> [Queue -> Nat]] /\ o[s][q] = n[s][q] + 1
      /\ \A r \in Reason, p \in Queue : <<r, p>> # <<s, q>> => o[r][p] = n[r][p]
  BY <1>1, CountedAt
<1>3. w \in [Task -> Queue \union {NULL}] /\ R \in SleepMap
  BY <1>1 DEF SleepMap
<1>4. \A u \in Task : R[u] = "awake" <=> w[u] = NULL
  BY <1>1 DEF Ledger, SleepMap
<1>5. ASSUME NEW r \in Reason, NEW p \in Queue PROVE o[r][p] = Cardinality(Sleepers(R, w, p, r))
  <2>1. CASE <<r, p>> = <<s, q>>
    <3>1. r = s /\ p = q
      BY <2>1
    <3>2. /\ Sleepers(R, w, q, s) = Sleepers(S, m, q, s) \union {t} /\ t \notin Sleepers(S, m, q, s)
          /\ Sleepers(S, m, q, s) \in SUBSET Task
      BY <1>1 DEF Sleepers, SleepMap
    <3>3. Cardinality(Sleepers(R, w, q, s)) = Cardinality(Sleepers(S, m, q, s)) + 1
      BY <3>2, OneMore
    <3>4. n[s][q] = Cardinality(Sleepers(S, m, q, s))
      BY DEF Ledger
    <3> QED  BY <1>2, <3>1, <3>3, <3>4
  <2>2. CASE <<r, p>> # <<s, q>>
    <3>1. Sleepers(R, w, p, r) = Sleepers(S, m, p, r)
      BY <1>1, <2>2 DEF Sleepers, SleepMap
    <3>2. o[r][p] = n[r][p]
      BY <1>2, <2>2
    <3> QED  BY <3>1, <3>2 DEF Ledger
  <2> QED  BY <2>1, <2>2
<1> HIDE DEF o, w, R
<1>6. Ledger(o, w, R)
  BY <1>2, <1>3, <1>4, <1>5 DEF Ledger
<1> QED  BY <1>6 DEF o, w, R

\* A task that waits is woken, whoever does it, and is counted no more.
LEMMA WaitEnds ==
  ASSUME NEW n, NEW m, NEW S, Ledger(n, m, S), NEW t \in Task, S[t] \in Reason
  PROVE  /\ Ledger(Counted(n, S[t], m[t], n[S[t]][m[t]] - 1), [m EXCEPT ![t] = NULL], [S EXCEPT ![t] = "awake"])
         /\ m[t] \in Queue /\ n[S[t]][m[t]] \in Nat \ {0}
<1> DEFINE s == S[t]
           q == m[t]
           i == n[s][q] - 1
           o == Counted(n, s, q, i)
           w == [m EXCEPT ![t] = NULL]
           R == [S EXCEPT ![t] = "awake"]
<1>1. /\ n \in [Reason -> [Queue -> Nat]] /\ m \in [Task -> Queue \union {NULL}] /\ S \in SleepMap
      /\ q \in Queue /\ s \in Reason /\ NULL \notin Queue /\ "awake" \notin Reason
  BY MqueueAssumption DEF Ledger, Reason, NOTEMPTY, NOTFULL
<1>2. t \in Sleepers(S, m, q, s) /\ Sleepers(S, m, q, s) \in SUBSET Task
  BY DEF Sleepers
<1> HIDE DEF s, q
<1>3. /\ n[s][q] = Cardinality(Sleepers(S, m, q, s)) /\ n[s][q] \in Nat \ {0} /\ i \in Nat
      /\ Cardinality(Sleepers(S, m, q, s) \ {t}) = i
  <2>1. n[s][q] = Cardinality(Sleepers(S, m, q, s))
    BY <1>1 DEF Ledger
  <2>2. Cardinality(Sleepers(S, m, q, s)) \in Nat \ {0}
    BY <1>2, TasksFinite
  <2>3. Cardinality(Sleepers(S, m, q, s) \ {t}) = Cardinality(Sleepers(S, m, q, s)) - 1
    BY <1>2, OneLess
  <2> QED  BY <2>1, <2>2, <2>3
<1> HIDE DEF i
<1>4. /\ o \in [Reason -> [Queue -> Nat]] /\ o[s][q] = i
      /\ \A r \in Reason, p \in Queue : <<r, p>> # <<s, q>> => o[r][p] = n[r][p]
  BY <1>1, <1>3, CountedAt
<1>5. w \in [Task -> Queue \union {NULL}] /\ R \in SleepMap
  BY <1>1 DEF SleepMap
<1>6. \A u \in Task : R[u] = "awake" <=> w[u] = NULL
  BY <1>1 DEF Ledger, SleepMap
<1>7. ASSUME NEW r \in Reason, NEW p \in Queue PROVE o[r][p] = Cardinality(Sleepers(R, w, p, r))
  <2>1. CASE <<r, p>> = <<s, q>>
    <3>1. r = s /\ p = q
      BY <2>1
    <3>2. Sleepers(R, w, q, s) = Sleepers(S, m, q, s) \ {t}
      BY <1>1 DEF Sleepers, SleepMap
    <3> QED  BY <1>3, <1>4, <3>1, <3>2
  <2>2. CASE <<r, p>> # <<s, q>>
    <3>1. Sleepers(R, w, p, r) = Sleepers(S, m, p, r)
      BY <1>1, <2>2 DEF Sleepers, SleepMap, s, q
    <3>2. o[r][p] = n[r][p]
      BY <1>4, <2>2
    <3> QED  BY <3>1, <3>2 DEF Ledger
  <2> QED  BY <2>1, <2>2
<1> HIDE DEF o, w, R
<1>8. Ledger(o, w, R)
  BY <1>4, <1>5, <1>6, <1>7 DEF Ledger
<1> QED  BY <1>1, <1>3, <1>8 DEF o, w, R, i, s, q

-----------------------------------------------------------------------------
PoolMap == [{"FIXED", "IRQ"} -> Nat]

MqState ==
  [ k : KernelState, msgs : MsgLists, nwait : [Reason -> [Queue -> Nat]],
    msgwaitq : [Task -> Queue \union {NULL}], errno : [Task -> Errno], free : PoolMap ]

\* What the functions of the message queues rely on and keep: the task lists
\* are sound and the counters count the tasks that wait.
MqSound(zz) == zz \in MqState /\ Sound(zz.k) /\ Ledger(zz.nwait, zz.msgwaitq, Sleep(zz.k))

\* The state with the given fields; the messages are as they were.
Entry(zz, a, n, m, e) == [zz EXCEPT !.k = a, !.nwait = n, !.msgwaitq = m, !.errno = e]

SameMessages(zz, y) == y.msgs = zz.msgs /\ y.free = zz.free
IsEntry(zz, y, a, n, m, e) ==
  /\ y \in MqState /\ SameMessages(zz, y)
  /\ y.k = a /\ y.nwait = n /\ y.msgwaitq = m /\ y.errno = e

\* Its fields are the ones given.
LEMMA EntryFields ==
  ASSUME NEW zz \in MqState, NEW a \in KernelState, NEW n \in [Reason -> [Queue -> Nat]],
         NEW m \in [Task -> Queue \union {NULL}], NEW e \in [Task -> Errno]
  PROVE  IsEntry(zz, Entry(zz, a, n, m, e), a, n, m, e)
BY DEF MqState, Entry, IsEntry, SameMessages

\* The state after the wait of t, with its new kernel state and errnos.
Ended(zz, t, a, e) ==
  Entry(zz, a, Counted(zz.nwait, zz.k.state[t], zz.msgwaitq[t], zz.nwait[zz.k.state[t]][zz.msgwaitq[t]] - 1),
        [zz.msgwaitq EXCEPT ![t] = NULL], e)

\* The functions that end a wait return such a state.
Unwaited(zz, t, a) ==
  [zz EXCEPT !.msgwaitq[t] = NULL, !.nwait[zz.k.state[t]][zz.msgwaitq[t]] = @ - 1, !.k = a]

\* The wake-up of mq_send and mq_receive ends the wait of t and changes nothing else.
LEMMA EndsAsEntry ==
  ASSUME NEW zz \in MqState, NEW a, NEW t
  PROVE  Unwaited(zz, t, a) = Ended(zz, t, a, zz.errno)
BY DEF Unwaited, Ended, Entry, Counted, MqState

\* So does mq_waitirq.
Interrupted(zz, t, a, o) ==
  [zz EXCEPT !.nwait[zz.k.state[t]][zz.msgwaitq[t]] = @ - 1, !.msgwaitq[t] = NULL,
             !.errno[t] = o, !.k = a]

\* mq_waitirq ends it the same way, and reports the error.
LEMMA FailsAsEntry ==
  ASSUME NEW zz \in MqState, NEW a, NEW t, NEW o
  PROVE  Interrupted(zz, t, a, o) = Ended(zz, t, a, [zz.errno EXCEPT ![t] = o])
BY DEF Interrupted, Ended, Entry, Counted, MqState

\* The fields of a state.
LEMMA MqFields ==
  ASSUME NEW zz, zz \in MqState
  PROVE  /\ zz.k \in KernelState /\ zz.msgs \in MsgLists /\ zz.nwait \in [Reason -> [Queue -> Nat]]
         /\ zz.msgwaitq \in [Task -> Queue \union {NULL}] /\ zz.errno \in [Task -> Errno]
         /\ zz.free \in PoolMap
         /\ zz = Entry(zz, zz.k, zz.nwait, zz.msgwaitq, zz.errno)
BY DEF MqState, Entry

\* The running task is awake.
LEMMA RunnerAwake ==
  ASSUME NEW k, Sound(k)
  PROVE  /\ this_task(k) \in Task /\ Sleep(k)[this_task(k)] = "awake"
         /\ k \in KernelState /\ k.lock \in [Task -> Nat]
BY ReadyHead DEF Sound, HeadRuns, Consistent, KernelState, Sleep, Reason, NOTEMPTY, NOTFULL

\* A running task that holds the lock goes on running.
KeepsRunning(k, a) == k.lock[this_task(k)] > 0 => this_task(a) = this_task(k)

\* up_block_task puts the task to sleep.
LEMMA BlockSleeps ==
  ASSUME NEW k, Sound(k), NEW t, t = this_task(k), t # IDLE, NEW s \in Reason, NEW a, a = up_block_task(k, t, s)
  PROVE  Sound(a) /\ a \in KernelState /\ Sleep(a) = [Sleep(k) EXCEPT ![t] = s] /\ a.lock = k.lock
<1>1. s \in BlockedState /\ s # "awake"
  BY DEF Reason, BlockedState, NOTEMPTY, NOTFULL
<1>2. TaskBlocked(k, t, s, a)
  BY <1>1, BlockTask
<1>3. t \in Task
  BY RunnerAwake
<1>4. Sleep(a) = [Sleep(k) EXCEPT ![t] = s]
  <2>1. Sleep(k) \in [Task -> Reason \union {"awake"}] /\ Sleep(a) \in [Task -> Reason \union {"awake"}]
    BY DEF Sleep
  <2>2. a.state[t] = s /\ \A u \in Task \ {t} : a.state[u] \in Reason \/ k.state[u] \in Reason => a.state[u] = k.state[u]
    BY <1>2 DEF TaskBlocked, SameBlocked, Reason, BlockedState, NOTEMPTY, NOTFULL
  <2>3. Sleep(a)[t] = s /\ \A u \in Task \ {t} : Sleep(a)[u] = Sleep(k)[u]
    BY <1>3, <2>2 DEF Sleep
  <2> QED  BY <1>3, <2>1, <2>3
<1> QED  BY <1>2, <1>4 DEF TaskBlocked, SoundStep, SameFields, Sound, Consistent

\* up_unblock_task wakes the task.
LEMMA UnblockWakes ==
  ASSUME NEW k, Sound(k), NEW t \in Task, k.state[t] \in BlockedState, NEW a, a = up_unblock_task(k, t)
  PROVE  /\ Sound(a) /\ a \in KernelState /\ Sleep(a) = [Sleep(k) EXCEPT ![t] = "awake"]
         /\ a.lock = k.lock /\ KeepsRunning(k, a)
<1>1. TaskWoken(k, t, a)
  BY UnblockSound
<1>2. Sleep(a) = [Sleep(k) EXCEPT ![t] = "awake"]
  <2>1. Sleep(k) \in [Task -> Reason \union {"awake"}] /\ Sleep(a) \in [Task -> Reason \union {"awake"}]
    BY DEF Sleep
  <2>2. a.state[t] \notin Reason /\ \A u \in Task \ {t} : a.state[u] \in Reason \/ k.state[u] \in Reason => a.state[u] = k.state[u]
    BY <1>1 DEF TaskWoken, SameBlocked, Reason, BlockedState, NOTEMPTY, NOTFULL
  <2>3. Sleep(a)[t] = "awake" /\ \A u \in Task \ {t} : Sleep(a)[u] = Sleep(k)[u]
    BY <2>2 DEF Sleep
  <2> QED  BY <2>1, <2>3
<1> QED  BY <1>1, <1>2 DEF TaskWoken, SoundStep, SameFields, Sound, Consistent, KeepsRunning

\* A step that blocks and wakes nobody.
LEMMA QuietSleep ==
  ASSUME NEW k, NEW a, QuietStep(k, a)
  PROVE  Sound(a) /\ a \in KernelState /\ Sleep(a) = Sleep(k)
<1>1. \A u \in Task : a.state[u] \in Reason \/ k.state[u] \in Reason => a.state[u] = k.state[u]
  BY DEF QuietStep, SameBlocked, Reason, BlockedState, NOTEMPTY, NOTFULL
<1>2. Sleep(a) = Sleep(k)
  BY <1>1 DEF Sleep
<1> QED  BY <1>2 DEF QuietStep, SoundStep, Sound, Consistent

\* sched_lock
LEMMA LockStep ==
  ASSUME NEW k, Sound(k), NEW a, a = sched_lock(k)
  PROVE  /\ Sound(a) /\ a \in KernelState /\ Sleep(a) = Sleep(k) /\ this_task(a) = this_task(k)
         /\ a.lock[this_task(k)] > 0
         /\ \A u \in Task \ {this_task(k)} : a.lock[u] = k.lock[u]
<1>1. Sound(a) /\ a \in KernelState /\ Sleep(a) = Sleep(k) /\ a.list = k.list
  BY Lock, QuietSleep DEF Tuned
<1>2. a.lock = [k.lock EXCEPT ![this_task(k)] = @ + 1]
  <2>1. k \in KernelState
    BY RunnerAwake
  <2> QED  BY <2>1 DEF sched_lock, KernelState
<1>3. this_task(a) = this_task(k)
  BY <1>1 DEF this_task
<1> QED  BY <1>1, <1>2, <1>3, RunnerAwake

\* sched_unlock
LEMMA UnlockStep ==
  ASSUME NEW k, Sound(k), NEW a, a = sched_unlock(k)
  PROVE  /\ Sound(a) /\ a \in KernelState /\ Sleep(a) = Sleep(k)
         /\ \A u \in Task \ {this_task(k)} : a.lock[u] = k.lock[u]
<1> DEFINE r == this_task(k)
           b == [k EXCEPT !.lock[r] = IF @ > 0 THEN @ - 1 ELSE 0]
<1>1. Sound(a) /\ a \in KernelState /\ Sleep(a) = Sleep(k)
  BY UnlockSound, QuietSleep
<1>2. k \in KernelState /\ r \in Task /\ k.lock \in [Task -> Nat]
  BY RunnerAwake
<1>3. \A u \in Task \ {r} : b.lock[u] = k.lock[u]
  BY <1>2 DEF KernelState
<1>4. a.lock = b.lock
  <2>1. a = IF b.lock[r] = 0 /\ Pending(b) THEN sched_mergepending(b) ELSE b
    BY DEF sched_unlock, up_release_pending
  <2>2. b \in KernelState
    <3> DEFINE n == IF k.lock[r] > 0 THEN k.lock[r] - 1 ELSE 0
    <3>1. b = [k EXCEPT !.lock[r] = n] /\ n \in Nat
      BY <1>2 DEF KernelState
    <3> HIDE DEF b, n
    <3> QED  BY <1>2, <3>1 DEF KernelState
  <2> HIDE DEF b
  <2>3. sched_mergepending(b).lock = b.lock
    BY <2>2 DEF sched_mergepending, KernelState
  <2> QED  BY <2>1, <2>3
<1> QED  BY <1>1, <1>3, <1>4

\* task_restart
LEMMA RestartStep ==
  ASSUME NEW k, Sound(k), NEW t \in Task, k.state[t] \in Reason,
         NEW a, a = up_unblock_task(Restarted(k, t), t)
  PROVE  /\ Sound(a) /\ a \in KernelState /\ Sleep(a) = [Sleep(k) EXCEPT ![t] = "awake"]
         /\ \A u \in Task \ {t} : a.lock[u] = k.lock[u]
<1> DEFINE b == Restarted(k, t)
<1>1. k \in KernelState /\ k.state \in [Task -> TaskState] /\ Consistent(k)
  BY RunnerAwake DEF KernelState, Sound
<1>2. Removable(k, t)
  BY <1>1, ReadyHead DEF Removable, Sound, HeadRuns, Reason, NOTEMPTY, NOTFULL, Consistent, IdleReady
<1>3. Sound(b) /\ b.state = [k.state EXCEPT ![t] = "INACTIVE"]
  BY <1>2, RestartSound DEF MadeInactive
<1>4. \A u \in Task \ {t} : b.lock[u] = k.lock[u]
  BY <1>1 DEF Restarted, AddInactive, TakeOffList, KernelState
<1> HIDE DEF b
<1>5. b.state[t] \in BlockedState
  BY <1>1, <1>3 DEF BlockedState
<1>6. Sound(a) /\ a \in KernelState /\ Sleep(a) = [Sleep(b) EXCEPT ![t] = "awake"] /\ a.lock = b.lock
  BY <1>3, <1>5, UnblockWakes DEF b
<1>7. Sleep(b) = [Sleep(k) EXCEPT ![t] = "awake"]
  BY <1>1, <1>3 DEF Sleep, Reason, NOTEMPTY, NOTFULL
<1>8. Sleep(a) = [Sleep(k) EXCEPT ![t] = "awake"]
  BY <1>6, <1>7 DEF Sleep
<1> QED  BY <1>4, <1>6, <1>8

-----------------------------------------------------------------------------
\* Task t falls asleep on queue q.
FellAsleep(zz, t, q, s, y) ==
  /\ MqSound(y) /\ SameMessages(zz, y) /\ y.k.lock = zz.k.lock
  /\ Sleep(y.k) = [Sleep(zz.k) EXCEPT ![t] = s]
  /\ y.msgwaitq = [zz.msgwaitq EXCEPT ![t] = q] /\ y.errno = [zz.errno EXCEPT ![t] = "OK"]

\* mq_waitsend and mq_waitreceive
LEMMA WaitOnSound ==
  ASSUME NEW zz, MqSound(zz), NEW t, t = this_task(zz.k), t # IDLE, NEW q \in Queue, NEW s \in Reason
  PROVE  FellAsleep(zz, t, q, s, WaitOn(zz, t, q, s))
<1> DEFINE a == up_block_task(zz.k, t, s)
           n == Counted(zz.nwait, s, q, zz.nwait[s][q] + 1)
           m == [zz.msgwaitq EXCEPT ![t] = q]
           e == [zz.errno EXCEPT ![t] = "OK"]
           y == WaitOn(zz, t, q, s)
<1>1. /\ zz \in MqState /\ Sound(zz.k) /\ Ledger(zz.nwait, zz.msgwaitq, Sleep(zz.k))
      /\ zz.nwait \in [Reason -> [Queue -> Nat]] /\ zz.msgwaitq \in [Task -> Queue \union {NULL}]
      /\ zz.errno \in [Task -> Errno]
  BY MqFields DEF MqSound
<1>2. t \in Task /\ Sleep(zz.k)[t] = "awake"
  BY <1>1, RunnerAwake
<1>3. Sound(a) /\ a \in KernelState /\ Sleep(a) = [Sleep(zz.k) EXCEPT ![t] = s] /\ a.lock = zz.k.lock
  BY <1>1, BlockSleeps
<1>4. Ledger(n, m, [Sleep(zz.k) EXCEPT ![t] = s])
  BY <1>1, <1>2, WaitBegins
<1>5. n \in [Reason -> [Queue -> Nat]] /\ m \in [Task -> Queue \union {NULL}] /\ e \in [Task -> Errno]
  BY <1>1, <1>2, <1>4 DEF Ledger, Errno
<1>6. y = Entry(zz, a, n, m, e)
  BY <1>1 DEF WaitOn, Entry, Counted, MqState
<1> HIDE DEF a, n, m, e, y
<1>7. IsEntry(zz, y, a, n, m, e)
  BY <1>1, <1>3, <1>5, <1>6, EntryFields
<1>8. MqSound(y)
  BY <1>3, <1>4, <1>7 DEF IsEntry, MqSound
<1> QED  BY <1>3, <1>7, <1>8 DEF IsEntry, FellAsleep, m, e, y

\* The wait of task t is over.
WokeUp(zz, t, y) ==
  /\ t \in Task /\ Sleep(zz.k)[t] \in Reason
  /\ MqSound(y) /\ SameMessages(zz, y)
  /\ Sleep(y.k) = [Sleep(zz.k) EXCEPT ![t] = "awake"]
  /\ y.msgwaitq = [zz.msgwaitq EXCEPT ![t] = NULL]

\* A task whose wait is over, by up_unblock_task or a restart.
LEMMA WakeSound ==
  ASSUME NEW zz, MqSound(zz), NEW t \in Task, zz.k.state[t] \in Reason,
         NEW a \in KernelState, Sound(a), Sleep(a) = [Sleep(zz.k) EXCEPT ![t] = "awake"],
         NEW e \in [Task -> Errno],
         NEW y, y = Ended(zz, t, a, e)
  PROVE  WokeUp(zz, t, y) /\ y.k = a /\ y.errno = e
<1> DEFINE s == zz.k.state[t]
           n == Counted(zz.nwait, s, zz.msgwaitq[t], zz.nwait[s][zz.msgwaitq[t]] - 1)
           m == [zz.msgwaitq EXCEPT ![t] = NULL]
<1>1. /\ zz \in MqState /\ Sound(zz.k) /\ Ledger(zz.nwait, zz.msgwaitq, Sleep(zz.k))
  BY DEF MqSound
<1>2. Sleep(zz.k)[t] = s
  BY DEF Sleep
<1>3. Ledger(n, m, [Sleep(zz.k) EXCEPT ![t] = "awake"])
  BY <1>1, <1>2, WaitEnds
<1>4. n \in [Reason -> [Queue -> Nat]] /\ m \in [Task -> Queue \union {NULL}]
  BY <1>3 DEF Ledger
<1> HIDE DEF n, m
<1>5. IsEntry(zz, y, a, n, m, e)
  BY <1>1, <1>4, EntryFields DEF n, m, Ended
<1>6. MqSound(y)
  BY <1>3, <1>5 DEF IsEntry, MqSound
<1> QED  BY <1>2, <1>5, <1>6 DEF IsEntry, WokeUp, m

\* Woken with errno and locks as they were.
WokenByCall(zz, t, y) ==
  WokeUp(zz, t, y) /\ y.errno = zz.errno /\ y.k.lock = zz.k.lock /\ KeepsRunning(zz.k, y.k)

\* The tasks that wait for q, by the ledger.
LEMMA WaitersAre ==
  ASSUME NEW zz, NEW q \in Queue, NEW s \in Reason
  PROVE  Waiters(zz, q, s) = Sleepers(Sleep(zz.k), zz.msgwaitq, q, s)
<1>1. \A t \in Task : zz.k.state[t] = s <=> Sleep(zz.k)[t] = s
  BY DEF Sleep, Reason, NOTEMPTY, NOTFULL
<1> QED  BY <1>1 DEF Waiters, Sleepers

\* The counter tells whether there is one.
LEMMA CounterTells ==
  ASSUME NEW zz, MqSound(zz), NEW q \in Queue, NEW s \in Reason
  PROVE  /\ zz.nwait[s][q] = Cardinality(Waiters(zz, q, s)) /\ zz.nwait[s][q] \in Nat
         /\ zz.nwait[s][q] > 0 <=> Waiters(zz, q, s) # {}
<1>1. zz.nwait[s][q] = Cardinality(Waiters(zz, q, s))
  BY WaitersAre DEF MqSound, Ledger
<1>2. Waiters(zz, q, s) \in SUBSET Task
  BY DEF Waiters
<1>3. Cardinality(Waiters(zz, q, s)) \in Nat /\ (Cardinality(Waiters(zz, q, s)) = 0 <=> Waiters(zz, q, s) = {})
  BY <1>2, TasksFinite
<1> QED  BY <1>1, <1>3

\* The search for the first waiter finds one.
LEMMA FirstWaiterFound ==
  ASSUME NEW zz, MqSound(zz), NEW q \in Queue, NEW s \in Reason, Waiters(zz, q, s) # {}
  PROVE  FirstWaiter(zz, q, s) \in Waiters(zz, q, s)
<1> DEFINE l == zz.k.list[s]
           First(i) == /\ zz.msgwaitq[l[i]] = q
                       /\ \A j \in 1..(i - 1) : zz.msgwaitq[l[j]] # q
           T == {i \in 1..Len(l) : zz.msgwaitq[l[i]] = q}
<1>1. /\ zz.k \in KernelState /\ s \in ListName /\ s # "RUNNING" /\ Lists(l, On(zz.k, s))
  BY DEF MqSound, Sound, Consistent, ListsHold, ListName, BlockedState, Reason, NOTEMPTY, NOTFULL
<1>2. /\ l \in Seq(Task) /\ Len(l) \in Nat /\ l \in [1..Len(l) -> Task]
      /\ \A t \in Task : InList(l, t) <=> zz.k.state[t] = s
  <2>1. l \in Seq(Task) /\ \A t \in Task : InList(l, t) <=> t \in On(zz.k, s)
    BY <1>1 DEF Lists
  <2>2. s # "READYTORUN"
    BY DEF Reason, NOTEMPTY, NOTFULL
  <2>3. \A t \in Task : t \in On(zz.k, s) <=> zz.k.state[t] = s
    BY <1>1, <2>2 DEF On, TLIST_HEAD
  <2> QED  BY <2>1, <2>3, LenProperties
<1>3. FirstWaiter(zz, q, s) = l[CHOOSE i \in 1..Len(l) : First(i)]
  BY DEF FirstWaiter
<1>4. PICK t \in Task : zz.k.state[t] = s /\ zz.msgwaitq[t] = q
  BY DEF Waiters
<1> HIDE DEF l
<1>5. PICK n \in 1..Len(l) : l[n] = t
  BY <1>2, <1>4 DEF InList
<1>6. T \in SUBSET Nat /\ T # {}
  BY <1>2, <1>4, <1>5
<1>7. PICK f \in T : \A n2 \in T : f <= n2
  BY <1>6, LeastElement
<1>8. First(f) /\ f \in 1..Len(l)
  BY <1>2, <1>7
<1> DEFINE g == CHOOSE i \in 1..Len(l) : First(i)
<1>9. g \in 1..Len(l) /\ First(g)
  BY <1>8
<1> HIDE DEF g
<1>10. l[g] \in Task /\ InList(l, l[g]) /\ zz.msgwaitq[l[g]] = q
  BY <1>2, <1>9 DEF InList
<1> QED  BY <1>2, <1>3, <1>10 DEF Waiters, g

\* The first waiter is woken (mq_dosend, mq_doreceive).
LEMMA WakeFirstSound ==
  ASSUME NEW zz, MqSound(zz), NEW q \in Queue, NEW s \in Reason, Waiters(zz, q, s) # {}
  PROVE  \E t \in Waiters(zz, q, s) : WokenByCall(zz, t, WakeFirst(zz, q, s))
<1> DEFINE t == FirstWaiter(zz, q, s)
           a == up_unblock_task(zz.k, t)
           y == WakeFirst(zz, q, s)
<1>1. t \in Waiters(zz, q, s)
  BY FirstWaiterFound
<1> HIDE DEF t
<1>2. /\ t \in Task /\ zz.k.state[t] = s /\ zz.msgwaitq[t] = q /\ s \in BlockedState
      /\ zz \in MqState /\ Sound(zz.k)
      /\ zz.nwait \in [Reason -> [Queue -> Nat]] /\ zz.errno \in [Task -> Errno]
  BY <1>1, MqFields DEF Waiters, Reason, BlockedState, NOTEMPTY, NOTFULL, MqSound
<1>3. /\ Sound(a) /\ a \in KernelState /\ Sleep(a) = [Sleep(zz.k) EXCEPT ![t] = "awake"]
      /\ a.lock = zz.k.lock /\ KeepsRunning(zz.k, a)
  BY <1>2, UnblockWakes
<1>4. y = Unwaited(zz, t, a)
  BY <1>2 DEF WakeFirst, t, Unwaited
<1> HIDE DEF a, y
<1>5. y = Ended(zz, t, a, zz.errno)
  BY <1>2, <1>4, EndsAsEntry
<1>6. WokeUp(zz, t, y) /\ y.k = a /\ y.errno = zz.errno
  BY <1>2, <1>3, <1>5, WakeSound
<1> QED  BY <1>1, <1>3, <1>6 DEF WokenByCall, y

\* mq_waitirq ends the wait of a task asleep with an error; another task it
\* leaves alone.
LEMMA WaitirqSound ==
  ASSUME NEW zz, MqSound(zz), NEW t \in Task, NEW o \in Errno, NEW y, y = mq_waitirq(zz, t, o)
  PROVE  IF zz.k.state[t] \in Reason
         THEN /\ WokeUp(zz, t, y) /\ y.errno = [zz.errno EXCEPT ![t] = o]
              /\ y.k.lock = zz.k.lock /\ KeepsRunning(zz.k, y.k)
         ELSE y = zz
<1>1. CASE zz.k.state[t] \in Reason
  <2> DEFINE s == zz.k.state[t]
             q == zz.msgwaitq[t]
             a == up_unblock_task(zz.k, t)
             e == [zz.errno EXCEPT ![t] = o]
  <2>1. /\ s \in BlockedState /\ zz \in MqState /\ Sound(zz.k) /\ zz.errno \in [Task -> Errno]
        /\ zz.nwait \in [Reason -> [Queue -> Nat]]
    BY <1>1, MqFields DEF Reason, BlockedState, NOTEMPTY, NOTFULL, MqSound
  <2>2. /\ Sound(a) /\ a \in KernelState /\ Sleep(a) = [Sleep(zz.k) EXCEPT ![t] = "awake"]
        /\ a.lock = zz.k.lock /\ KeepsRunning(zz.k, a)
    BY <2>1, UnblockWakes
  <2>3. y = Interrupted(zz, t, a, o)
    BY <1>1 DEF mq_waitirq, Interrupted
  <2>4. e \in [Task -> Errno]
    BY <2>1
  <2> HIDE DEF a
  <2>5. y = Ended(zz, t, a, e)
    BY <2>1, <2>3, FailsAsEntry
  <2>6. WokeUp(zz, t, y) /\ y.k = a /\ y.errno = e
    BY <1>1, <2>2, <2>4, <2>5, WakeSound
  <2> QED  BY <1>1, <2>2, <2>6
<1>2. CASE zz.k.state[t] \notin Reason
  BY <1>2 DEF mq_waitirq
<1> QED  BY <1>1, <1>2

RestartedCall(zz, t) ==
  LET x == mq_recover(zz, t) IN [x EXCEPT !.k = up_unblock_task(Restarted(@, t), t)]

\* task_restart gives up the wait of the task.
LEMMA RestartGivesUp ==
  ASSUME NEW zz, MqSound(zz), NEW t \in Task, zz.k.state[t] \in Reason,
         NEW y, y = RestartedCall(zz, t)
  PROVE  /\ WokeUp(zz, t, y) /\ y.errno = zz.errno
         /\ \A u \in Task \ {t} : y.k.lock[u] = zz.k.lock[u]
<1> DEFINE s == zz.k.state[t]
           q == zz.msgwaitq[t]
           a == up_unblock_task(Restarted(zz.k, t), t)
<1>1. /\ zz \in MqState /\ Sound(zz.k) /\ zz.errno \in [Task -> Errno]
      /\ zz.nwait \in [Reason -> [Queue -> Nat]]
  BY MqFields DEF MqSound
<1>2. /\ Sound(a) /\ a \in KernelState /\ Sleep(a) = [Sleep(zz.k) EXCEPT ![t] = "awake"]
      /\ \A u \in Task \ {t} : a.lock[u] = zz.k.lock[u]
  BY <1>1, RestartStep
<1>3. y = [mq_recover(zz, t) EXCEPT !.k = a]
  <2>1. mq_recover(zz, t).k = zz.k
    BY <1>1 DEF mq_recover, MqState
  <2> QED  BY <2>1 DEF RestartedCall
<1> HIDE DEF a
<1>4. y = Ended(zz, t, a, zz.errno)
  <2> DEFINE n == Counted(zz.nwait, s, q, zz.nwait[s][q] - 1)
             m == [zz.msgwaitq EXCEPT ![t] = NULL]
  <2>1. mq_recover(zz, t) = [zz EXCEPT !.nwait = n, !.msgwaitq = m]
    BY <1>1 DEF mq_recover, Counted, MqState
  <2> HIDE DEF n, m
  <2>2. y = Entry(zz, a, n, m, zz.errno)
    BY <1>1, <1>3, <2>1 DEF Entry, MqState
  <2> QED  BY <2>2 DEF Ended, n, m
<1>5. WokeUp(zz, t, y) /\ y.k = a /\ y.errno = zz.errno
  BY <1>1, <1>2, <1>4, WakeSound
<1> QED  BY <1>2, <1>5

-----------------------------------------------------------------------------
\* A change of messages leaves the tasks alone.
SameTasks(zz, y) ==
  /\ MqSound(y) /\ y.k = zz.k /\ y.nwait = zz.nwait
  /\ y.msgwaitq = zz.msgwaitq /\ y.errno = zz.errno

WithMsgs(zz, q, l) == [zz EXCEPT !.msgs[q] = l]
WithFree(zz, y, n) == [zz EXCEPT !.free[y] = n]

MsgsReplaced(zz, q, l, y) ==
  SameTasks(zz, y) /\ y.msgs = [zz.msgs EXCEPT ![q] = l] /\ y.free = zz.free
FreeReplaced(zz, y, n, x) ==
  SameTasks(zz, x) /\ x.msgs = zz.msgs /\ x.free = [zz.free EXCEPT ![y] = n]

\* A queue is given other messages.
LEMMA MsgsChanged ==
  ASSUME NEW zz, MqSound(zz), NEW q \in Queue, NEW l \in Seq(Message)
  PROVE  MsgsReplaced(zz, q, l, WithMsgs(zz, q, l))
<1> DEFINE M == [zz.msgs EXCEPT ![q] = l]
           y == [zz EXCEPT !.msgs = M]
<1>1. zz \in MqState /\ M \in MsgLists
  BY DEF MqSound, MqState, MsgLists
<1>2. WithMsgs(zz, q, l) = y
  BY DEF WithMsgs
<1> HIDE DEF M
<1>3. /\ y \in MqState /\ y.k = zz.k /\ y.nwait = zz.nwait /\ y.msgwaitq = zz.msgwaitq
      /\ y.errno = zz.errno /\ y.msgs = M /\ y.free = zz.free
  BY <1>1 DEF MqState
<1> HIDE DEF y
<1>4. SameTasks(zz, y) /\ y.msgs = M /\ y.free = zz.free
  BY <1>3 DEF SameTasks, MqSound
<1> QED  BY <1>2, <1>4 DEF M, MsgsReplaced

\* mq_dosend puts a message into its place.
LEMMA EnqueueStep ==
  ASSUME NEW zz, MqSound(zz), NEW q \in Queue, NEW m \in Message, NEW y, y = Enqueue(zz, q, m)
  PROVE  /\ SameTasks(zz, y) /\ y.free = zz.free
         /\ y.msgs = [zz.msgs EXCEPT ![q] = InsertAtPos(zz.msgs[q], MsgPos(zz.msgs[q], m.prio), m)]
<1> DEFINE l == InsertAtPos(zz.msgs[q], MsgPos(zz.msgs[q], m.prio), m)
<1>1. zz.msgs[q] \in Seq(Message) /\ m.prio \in Nat
  <2>1. zz.msgs \in MsgLists
    BY MqFields DEF MqSound
  <2>2. m.prio \in MsgPrio /\ MsgPrio \subseteq Nat
    BY MqueueAssumption DEF Message
  <2> QED  BY <2>1, <2>2 DEF MsgLists
<1>2. l \in Seq(Message)
  BY <1>1, MsgPosFound, InsertedAt
<1>3. y = WithMsgs(zz, q, l)
  BY DEF Enqueue, WithMsgs
<1> HIDE DEF l
<1>4. MsgsReplaced(zz, q, l, y)
  BY <1>2, <1>3, MsgsChanged
<1> QED  BY <1>4 DEF l, MsgsReplaced

\* The receiver takes the first message.
LEMMA RemoveStep ==
  ASSUME NEW zz, MqSound(zz), NEW q \in Queue, zz.msgs[q] # <<>>, NEW y, y = WithMsgs(zz, q, Tail(zz.msgs[q]))
  PROVE  /\ SameTasks(zz, y) /\ y.free = zz.free
         /\ y.msgs = [zz.msgs EXCEPT ![q] = Tail(zz.msgs[q])]
         /\ Head(zz.msgs[q]) = zz.msgs[q][1] /\ zz.msgs[q][1] \in Message
<1>1. zz.msgs[q] \in Seq(Message)
  BY MqFields DEF MqSound, MsgLists
<1>2. Tail(zz.msgs[q]) \in Seq(Message) /\ Head(zz.msgs[q]) = zz.msgs[q][1] /\ zz.msgs[q][1] \in Message
  BY <1>1, TailAt
<1> DEFINE l == Tail(zz.msgs[q])
<1>3. y = WithMsgs(zz, q, l) /\ l \in Seq(Message)
  BY <1>2 DEF WithMsgs
<1> HIDE DEF l
<1>4. MsgsReplaced(zz, q, l, y)
  BY <1>3, MsgsChanged
<1> QED  BY <1>2, <1>4 DEF l, MsgsReplaced

\* The free messages change from f to g as a call that held b now holds d.
One(b) == IF b THEN 1 ELSE 0
Balance(f, g, b, d) == \A y \in {"FIXED", "IRQ"} : g[y] + One(d = y) = f[y] + One(b = y)

\* A pool changes.
LEMMA PoolChanged ==
  ASSUME NEW zz, MqSound(zz), NEW y, NEW n \in Nat
  PROVE  FreeReplaced(zz, y, n, WithFree(zz, y, n))
<1> DEFINE F == [zz.free EXCEPT ![y] = n]
           x == [zz EXCEPT !.free = F]
<1>1. zz \in MqState /\ F \in PoolMap
  BY DEF MqSound, MqState, PoolMap
<1>2. WithFree(zz, y, n) = x
  BY DEF WithFree
<1> HIDE DEF F
<1>3. /\ x \in MqState /\ x.k = zz.k /\ x.nwait = zz.nwait /\ x.msgwaitq = zz.msgwaitq
      /\ x.errno = zz.errno /\ x.msgs = zz.msgs /\ x.free = F
  BY <1>1 DEF MqState
<1> HIDE DEF x
<1>4. SameTasks(zz, x) /\ x.msgs = zz.msgs /\ x.free = F
  BY <1>3 DEF SameTasks, MqSound
<1> QED  BY <1>2, <1>4 DEF F, FreeReplaced

\* A message is allocated.
LEMMA TakenStep ==
  ASSUME NEW zz, MqSound(zz), NEW y \in MsgType, y # "DYN" => zz.free[y] > 0, NEW x, x = Taken(zz, y)
  PROVE  SameTasks(zz, x) /\ x.msgs = zz.msgs /\ Balance(zz.free, x.free, NULL, y)
<1>0. NULL \notin MsgType /\ zz.free \in PoolMap
  BY MqueueAssumption, MqFields DEF MqSound, MsgType
<1>1. CASE y = "DYN"
  BY <1>0, <1>1 DEF Taken, SameTasks, Balance, One, MsgType, PoolMap
<1>2. CASE y # "DYN"
  <2> DEFINE n == zz.free[y] - 1
  <2>1. y \in {"FIXED", "IRQ"} /\ zz.free[y] \in Nat /\ n \in Nat
    BY <1>0, <1>2 DEF MsgType, PoolMap
  <2>2. x = WithFree(zz, y, n)
    BY <1>2 DEF Taken, WithFree
  <2> HIDE DEF n
  <2>3. SameTasks(zz, x) /\ x.msgs = zz.msgs /\ x.free = [zz.free EXCEPT ![y] = n]
    <3>1. FreeReplaced(zz, y, n, x)
      BY <2>1, <2>2, PoolChanged
    <3> QED  BY <3>1 DEF FreeReplaced
  <2>4. \A p \in {"FIXED", "IRQ"} : x.free[p] = IF p = y THEN zz.free[y] - 1 ELSE zz.free[p]
    BY <1>0, <2>1, <2>3 DEF n, PoolMap
  <2>5. Balance(zz.free, x.free, NULL, y)
    BY <1>0, <2>1, <2>4 DEF Balance, One, MsgType, PoolMap
  <2> QED  BY <2>3, <2>5
<1> QED  BY <1>1, <1>2

\* A message is freed.
LEMMA FreedStep ==
  ASSUME NEW zz, MqSound(zz), NEW y \in MsgType, NEW x, x = mq_msgfree(zz, y)
  PROVE  SameTasks(zz, x) /\ x.msgs = zz.msgs /\ Balance(zz.free, x.free, y, NULL)
<1>0. NULL \notin MsgType /\ zz.free \in PoolMap
  BY MqueueAssumption, MqFields DEF MqSound, MsgType
<1>1. CASE y = "DYN"
  BY <1>0, <1>1 DEF mq_msgfree, SameTasks, Balance, One, MsgType, PoolMap
<1>2. CASE y # "DYN"
  <2> DEFINE n == zz.free[y] + 1
  <2>1. y \in {"FIXED", "IRQ"} /\ zz.free[y] \in Nat /\ n \in Nat
    BY <1>0, <1>2 DEF MsgType, PoolMap
  <2>2. x = WithFree(zz, y, n)
    BY <1>2 DEF mq_msgfree, WithFree
  <2> HIDE DEF n
  <2>3. SameTasks(zz, x) /\ x.msgs = zz.msgs /\ x.free = [zz.free EXCEPT ![y] = n]
    <3>1. FreeReplaced(zz, y, n, x)
      BY <2>1, <2>2, PoolChanged
    <3> QED  BY <3>1 DEF FreeReplaced
  <2>4. \A p \in {"FIXED", "IRQ"} : x.free[p] = IF p = y THEN zz.free[y] + 1 ELSE zz.free[p]
    BY <1>0, <2>1, <2>3 DEF n, PoolMap
  <2>5. Balance(zz.free, x.free, y, NULL)
    BY <1>0, <2>1, <2>4 DEF Balance, One, MsgType, PoolMap
  <2> QED  BY <2>3, <2>5
<1> QED  BY <1>1, <1>2

\* Nothing is allocated or freed.
LEMMA Unbalanced ==
  ASSUME NEW f, NEW b
  PROVE  Balance(f, f, b, b)
BY DEF Balance

\* The caller locks the scheduler.
LockedCall(zz, r, y) ==
  /\ MqSound(y) /\ SameMessages(zz, y) /\ Sleep(y.k) = Sleep(zz.k) /\ this_task(y.k) = r
  /\ y.nwait = zz.nwait /\ y.msgwaitq = zz.msgwaitq /\ y.errno = zz.errno
  /\ y.k.lock[r] > 0 /\ \A u \in Task \ {r} : y.k.lock[u] = zz.k.lock[u]

\* sched_lock at the head of a call keeps the queues and every other task as they are.
LEMMA LockCall ==
  ASSUME NEW zz, MqSound(zz), NEW r, r = this_task(zz.k), NEW y, y = [zz EXCEPT !.k = sched_lock(@)]
  PROVE  LockedCall(zz, r, y)
<1> DEFINE a == sched_lock(zz.k)
<1>1. /\ Sound(a) /\ a \in KernelState /\ Sleep(a) = Sleep(zz.k) /\ this_task(a) = r /\ a.lock[r] > 0
      /\ \A u \in Task \ {r} : a.lock[u] = zz.k.lock[u]
  BY LockStep DEF MqSound
<1>2. zz \in MqState /\ y = [zz EXCEPT !.k = a]
  BY DEF MqSound
<1> HIDE DEF a
<1>3. /\ y \in MqState /\ y.k = a /\ y.nwait = zz.nwait /\ y.msgwaitq = zz.msgwaitq
      /\ y.errno = zz.errno /\ y.msgs = zz.msgs /\ y.free = zz.free
  BY <1>1, <1>2 DEF MqState
<1>4. MqSound(y)
  BY <1>1, <1>3 DEF MqSound
<1> QED  BY <1>1, <1>3, <1>4 DEF LockedCall, SameMessages

\* The call returns: the scheduler is unlocked, perhaps with a switch.
Returned(zz, r, y) ==
  /\ MqSound(y) /\ SameMessages(zz, y) /\ Sleep(y.k) = Sleep(zz.k)
  /\ y.nwait = zz.nwait /\ y.msgwaitq = zz.msgwaitq /\ y.errno = [zz.errno EXCEPT ![r] = "OK"]
  /\ \A u \in Task \ {r} : y.k.lock[u] = zz.k.lock[u]

\* sched_unlock at the end of a call keeps the queues, and the call reports success.
LEMMA ReturnCall ==
  ASSUME NEW zz, MqSound(zz), NEW r, r = this_task(zz.k),
         NEW y, y = [zz EXCEPT !.k = sched_unlock(@), !.errno[r] = "OK"]
  PROVE  Returned(zz, r, y)
<1> DEFINE a == sched_unlock(zz.k)
           e == [zz.errno EXCEPT ![r] = "OK"]
<1>1. /\ Sound(a) /\ a \in KernelState /\ Sleep(a) = Sleep(zz.k)
      /\ \A u \in Task \ {r} : a.lock[u] = zz.k.lock[u]
  BY UnlockStep DEF MqSound
<1>2. zz \in MqState /\ y = [zz EXCEPT !.k = a, !.errno = e]
  BY DEF MqSound
<1>3. e \in [Task -> Errno]
  BY <1>2 DEF MqState, Errno
<1> HIDE DEF a, e
<1>4. /\ y \in MqState /\ y.k = a /\ y.nwait = zz.nwait /\ y.msgwaitq = zz.msgwaitq
      /\ y.errno = e /\ y.msgs = zz.msgs /\ y.free = zz.free
  BY <1>1, <1>2, <1>3 DEF MqState
<1>5. MqSound(y)
  BY <1>1, <1>4 DEF MqSound
<1> QED  BY <1>1, <1>4, <1>5 DEF Returned, SameMessages, e

-----------------------------------------------------------------------------
CallState ==
  [ at : Label, q : Queue \union {NULL}, prio : MsgPrio \union {0},
    timed : BOOLEAN, held : MsgType \union {NULL} ]

\* The labels at which a call holds the scheduler lock and runs, and those
\* at which it waits.
Busy == {"alloc", "dosend", "wakereceiver", "msgfree", "wakesender"}
Waits == {"sendwait", "recvwait"}
PlaceOf(s) == IF s = NOTEMPTY THEN "recvwait" ELSE "sendwait"

\* A call holds a message exactly where it has one.
Holding(c) == c.at \in {"dosend", "timedcheck", "msgfree"} \/ (c.at = "sendwait" /\ c.timed)

CallValid(c) ==
  /\ c \in CallState
  /\ c.at # "user" => c.q \in Queue
  /\ c.at \in {"alloc", "timedcheck", "sendwait", "dosend"} => c.prio \in MsgPrio
  /\ c.at = "timedcheck" => c.timed
  /\ c.held \in MsgType <=> Holding(c)

CallsValid == pc \in [Task -> CallState] /\ pc[IDLE] = User /\ \A t \in Task : CallValid(pc[t])

\* A task asleep is at the wait of its queue, and has no outcome yet.
Placed ==
  \A t \in Task : Sleep(z.k)[t] # "awake" =>
    pc[t].at = PlaceOf(Sleep(z.k)[t]) /\ pc[t].q = z.msgwaitq[t] /\ z.errno[t] = "OK"

\* Only the running task is between the tests of its call and its return.
BusyRuns == \A t \in Task : pc[t].at \in Busy => t = Self

LockHeld == \A t \in Task : pc[t].at \in Busy \union Waits => z.k.lock[t] > 0

Core ==
  /\ MqSound(z) /\ CallsValid /\ Placed /\ BusyRuns /\ LockHeld
  /\ waitdog \subseteq Task /\ panic \in BOOLEAN

\* A call goes to label l, with the message it held or with y.
Goes(c, l) == [c EXCEPT !.at = l]
GoesWith(c, l, y) == [c EXCEPT !.at = l, !.held = y]

\* The fields of such a call.
LEMMA CallGoes ==
  ASSUME NEW c \in CallState, NEW l \in Label
  PROVE  /\ Goes(c, l) \in CallState /\ Goes(c, l).at = l /\ Goes(c, l).q = c.q
         /\ Goes(c, l).prio = c.prio /\ Goes(c, l).timed = c.timed /\ Goes(c, l).held = c.held
BY DEF CallState, Goes

\* The fields of a call that goes on with another message.
LEMMA CallGoesWith ==
  ASSUME NEW c \in CallState, NEW l \in Label, NEW y \in MsgType \union {NULL}
  PROVE  /\ GoesWith(c, l, y) \in CallState /\ GoesWith(c, l, y).at = l /\ GoesWith(c, l, y).q = c.q
         /\ GoesWith(c, l, y).prio = c.prio /\ GoesWith(c, l, y).timed = c.timed
         /\ GoesWith(c, l, y).held = y
BY DEF CallState, GoesWith

\* A task outside its calls.
LEMMA UserValid == CallValid(User) /\ User.at = "user" /\ User.held = NULL /\ User.q = NULL
<1>1. User \in CallState
  BY DEF User, CallState, Label
<1>2. NULL \notin MsgType
  BY MqueueAssumption DEF MsgType
<1> QED  BY <1>1, <1>2 DEF User, CallValid, Holding

\* The running task moves on in its call, or returns from it; nobody falls
\* asleep or wakes up.
Moved(r, c) ==
  /\ pc' = [pc EXCEPT ![r] = c] /\ CallValid(c) /\ c.at \notin Waits
  /\ MqSound(z') /\ Sleep(z'.k) = Sleep(z.k) /\ z'.msgwaitq = z.msgwaitq
  /\ \A u \in Task \ {r} : z'.errno[u] = z.errno[u] /\ z'.k.lock[u] = z.k.lock[u]
  /\ c.at \in Busy => z'.k.lock[r] > 0 /\ this_task(z'.k) = r

\* The labels at which a call is about to fill a place of its queue or to
\* wake a task that will.
Filling == {"alloc", "dosend", "msgfree", "wakesender"}
FillsPlace(r) == pc[r].at \in Filling \/ (pc[r].at = "sendwait" /\ z.errno[r] = "OK")

\* ... without touching a queue.
Handled(r, c) ==
  /\ Moved(r, c) /\ z'.msgs = z.msgs /\ Balance(z.free, z'.free, pc[r].held, c.held)
  /\ c.at \in {"alloc", "dosend"} => ~Full(z, c.q) \/ (pc[r].at = "alloc" /\ pc[r].q = c.q)
  /\ pc[r].at = "wakereceiver" => Waiters(z, pc[r].q, NOTEMPTY) = {}
  /\ pc[r].at = "recvwait" => z.errno[r] # "OK"
  /\ FillsPlace(r) => \/ (c.at \in Filling /\ c.q = pc[r].q)
                      \/ Waiters(z, pc[r].q, NOTFULL) = {}
                      \/ "ENOMEM" \in Calls

\* ... and takes a message from queue q.
Received(r, c, q) ==
  /\ Moved(r, c) /\ q \in Queue /\ c.at = "msgfree" /\ c.q = q
  /\ z.msgs[q] # <<>> /\ z'.msgs = [z.msgs EXCEPT ![q] = Tail(z.msgs[q])]
  /\ z'.free = z.free /\ pc[r].held = NULL /\ c.held = z.msgs[q][1].type
  /\ pc[r].at = "user" \/ (pc[r].at = "recvwait" /\ z.errno[r] = "OK" /\ pc[r].q = q)

InsertedMsg(q, m) ==
  z'.msgs = [z.msgs EXCEPT ![q] = InsertAtPos(z.msgs[q], MsgPos(z.msgs[q], m.prio), m)]

\* ... and puts its message into queue q.
Sent(r, c, q, m) ==
  /\ Moved(r, c) /\ q \in Queue /\ m \in Message /\ InsertedMsg(q, m)
  /\ pc[r].at = "dosend" /\ pc[r].q = q /\ c.at = "wakereceiver" /\ c.q = q
  /\ m.task /\ m.type = pc[r].held /\ c.held = NULL /\ z'.free = z.free

\* The running task falls asleep.
Fell(r, c, q, s) ==
  /\ pc' = [pc EXCEPT ![r] = c] /\ CallValid(c) /\ q \in Queue /\ s \in Reason
  /\ c.at = PlaceOf(s) /\ c.q = q /\ c.held = pc[r].held
  /\ MqSound(z') /\ SameMessages(z, z') /\ Sleep(z'.k) = [Sleep(z.k) EXCEPT ![r] = s]
  /\ z'.msgwaitq = [z.msgwaitq EXCEPT ![r] = q] /\ z'.errno = [z.errno EXCEPT ![r] = "OK"]
  /\ z'.k.lock[r] > 0 /\ \A u \in Task \ {r} : z'.k.lock[u] = z.k.lock[u]
  /\ s = NOTFULL => Full(z, q)
  /\ s = NOTEMPTY => z.msgs[q] = <<>>
  /\ pc[r].at \in {"user", "timedcheck"} \/ (pc[r].at = PlaceOf(s) /\ pc[r].q = q)

\* The running task wakes a waiter and returns.
WokeReturned(r, t, q, s) ==
  /\ pc' = [pc EXCEPT ![r] = User] /\ q \in Queue /\ s \in Reason /\ t \in Waiters(z, q, s)
  /\ pc[r].at = (IF s = NOTEMPTY THEN "wakereceiver" ELSE "wakesender") /\ pc[r].q = q
  /\ WokeUp(z, t, z') /\ z'.errno = [z.errno EXCEPT ![r] = "OK"]
  /\ \A u \in Task \ {r} : z'.k.lock[u] = z.k.lock[u]

\* An interrupt handler sends a message, and wakes a receiver if one waits.
IsrSent(q, m) ==
  /\ pc' = pc /\ q \in Queue /\ m \in Message /\ InsertedMsg(q, m)
  /\ ~m.task /\ m.type \in {"FIXED", "IRQ"} /\ Balance(z.free, z'.free, NULL, m.type)
  /\ MqSound(z') /\ z'.errno = z.errno /\ z'.k.lock = z.k.lock /\ KeepsRunning(z.k, z'.k)
  /\ \/ Waiters(z, q, NOTEMPTY) = {} /\ Sleep(z'.k) = Sleep(z.k) /\ z'.msgwaitq = z.msgwaitq
     \/ \E t \in Waiters(z, q, NOTEMPTY) : /\ Sleep(z'.k) = [Sleep(z.k) EXCEPT ![t] = "awake"]
                                           /\ z'.msgwaitq = [z.msgwaitq EXCEPT ![t] = NULL]

\* A timeout or a signal ends a wait.
Aborted(t) ==
  /\ pc' = pc /\ WokeUp(z, t, z') /\ z'.errno[t] # "OK"
  /\ \A u \in Task \ {t} : z'.errno[u] = z.errno[u]
  /\ z'.k.lock = z.k.lock /\ KeepsRunning(z.k, z'.k)

\* A task that waits is restarted.
RestartedTask(t) ==
  /\ pc' = [pc EXCEPT ![t] = User] /\ WokeUp(z, t, z') /\ z'.errno = z.errno
  /\ pc[t].held = NULL /\ pc[Self].at = "user"
  /\ \A u \in Task \ {t} : z'.k.lock[u] = z.k.lock[u]

\* What a step does.
Effect ==
  \/ \E r \in Task, c \in CallState :
       /\ r = Self
       /\ \/ Handled(r, c)
          \/ \E q \in Queue : Received(r, c, q)
          \/ \E q \in Queue, m \in Message : Sent(r, c, q, m)
          \/ \E q \in Queue, s \in Reason : Fell(r, c, q, s)
  \/ \E r \in Task, t \in Task, q \in Queue, s \in Reason : r = Self /\ WokeReturned(r, t, q, s)
  \/ \E q \in Queue, m \in Message : IsrSent(q, m)
  \/ \E t \in Task : Aborted(t) \/ RestartedTask(t)
  \/ z' = z /\ pc' = pc

-----------------------------------------------------------------------------
\* The running task and its call.
LEMMA Runner ==
  ASSUME Core, NEW r \in Task, r = Self
  PROVE  /\ MqSound(z) /\ r = this_task(z.k) /\ Sleep(z.k)[r] = "awake"
         /\ pc \in [Task -> CallState] /\ pc[r] \in CallState /\ CallValid(pc[r])
         /\ pc[r].at = "user" => pc[r].held = NULL
         /\ pc[r].at # "user" => r # IDLE /\ pc[r].q \in Queue
         /\ z.msgs \in MsgLists /\ z.free \in PoolMap /\ z.errno \in [Task -> Errno]
<1>1. /\ MqSound(z) /\ r = this_task(z.k) /\ pc \in [Task -> CallState] /\ CallValid(pc[r])
      /\ pc[IDLE] = User
  BY DEF Core, CallsValid, Self
<1>2. Sleep(z.k)[r] = "awake"
  BY <1>1, RunnerAwake DEF MqSound
<1>3. pc[r] \in CallState
  BY <1>1
<1>4. pc[r].at = "user" => pc[r].held = NULL
  BY <1>1, <1>3 DEF CallValid, Holding, CallState
<1>5. pc[r].at # "user" => r # IDLE /\ pc[r].q \in Queue
  BY <1>1, UserValid DEF CallValid
<1>6. z.msgs \in MsgLists /\ z.free \in PoolMap /\ z.errno \in [Task -> Errno]
  BY <1>1, MqFields DEF MqSound
<1> QED  BY <1>1, <1>2, <1>3, <1>4, <1>5, <1>6

\* A step that locks the scheduler and moves on.
LEMMA LockMoves ==
  ASSUME NEW r \in Task, NEW c, LockedCall(z, r, z'), pc' = [pc EXCEPT ![r] = c],
         CallValid(c), c.at \notin Waits
  PROVE  Moved(r, c) /\ z'.msgs = z.msgs /\ z'.free = z.free
BY DEF LockedCall, Moved, SameMessages

\* A step that returns.
LEMMA ReturnMoves ==
  ASSUME NEW r \in Task, NEW y, Sleep(y.k) = Sleep(z.k), y.msgwaitq = z.msgwaitq, y.errno \in [Task -> Errno],
         \A u \in Task \ {r} : y.errno[u] = z.errno[u] /\ y.k.lock[u] = z.k.lock[u],
         Returned(y, r, z'), pc' = [pc EXCEPT ![r] = User]
  PROVE  Moved(r, User) /\ z'.msgs = y.msgs /\ z'.free = y.free
<1>1. z'.errno = [y.errno EXCEPT ![r] = "OK"]
  BY DEF Returned
<1>2. \A u \in Task \ {r} : z'.errno[u] = y.errno[u]
  BY <1>1
<1>3. CallValid(User) /\ User.at \notin Waits /\ User.at \notin Busy
  BY UserValid DEF Waits, Busy
<1> QED  BY <1>2, <1>3 DEF Returned, Moved, SameMessages

\* A step of the running task that changes messages only.
LEMMA SameMoves ==
  ASSUME Core, NEW r \in Task, r = Self, NEW c, SameTasks(z, z'),
         pc' = [pc EXCEPT ![r] = c],
         CallValid(c), c.at \notin Waits, c.at \in Busy => pc[r].at \in Busy \union Waits
  PROVE  Moved(r, c)
BY DEF SameTasks, Moved, Self, Core, LockHeld

\* mq_send, at its test for room.
LEMMA MqSendEffect ==
  ASSUME Core, NEW r \in Task, r = Self, NEW q \in Queue, NEW p \in MsgPrio, MqSend(q, p)
  PROVE  \E c \in CallState : Handled(r, c) \/ Fell(r, c, q, NOTFULL)
<1> DEFINE y == [z EXCEPT !.k = sched_lock(@)]
           a == [at |-> "alloc", q |-> q, prio |-> p, timed |-> FALSE, held |-> NULL]
           w == [at |-> "sendwait", q |-> q, prio |-> p, timed |-> FALSE, held |-> NULL]
<1>1. /\ MqSound(z) /\ r = this_task(z.k) /\ pc[r].held = NULL /\ pc[r].at = "user" /\ r # IDLE
  BY Runner DEF MqSend, InUser
<1>2. a \in CallState /\ w \in CallState /\ CallValid(a) /\ CallValid(w)
  <2>1. a \in CallState /\ w \in CallState
    BY DEF CallState, Label
  <2>2. NULL \notin MsgType
    BY MqueueAssumption DEF MsgType
  <2> QED  BY <2>1, <2>2 DEF CallValid, Holding
<1>3. LockedCall(z, r, y)
  BY <1>1, LockCall
<1>4. IF Full(z, q)
      THEN z' = WaitOn(y, r, q, NOTFULL) /\ pc' = [pc EXCEPT ![r] = w]
      ELSE z' = y /\ pc' = [pc EXCEPT ![r] = a]
  BY DEF MqSend, User
<1> HIDE DEF y
<1>5. CASE Full(z, q)
  <2>1. MqSound(y) /\ r = this_task(y.k)
    BY <1>3 DEF LockedCall
  <2>2. FellAsleep(y, r, q, NOTFULL, z')
    BY <1>1, <1>4, <1>5, <2>1, WaitOnSound DEF Reason
  <2>3. w.at = PlaceOf(NOTFULL) /\ w.q = q /\ w.held = NULL /\ NOTFULL \in Reason /\ NOTFULL # NOTEMPTY
    BY DEF PlaceOf, Reason, NOTFULL, NOTEMPTY
  <2> HIDE DEF w
  <2>4. Fell(r, w, q, NOTFULL)
    BY <1>1, <1>2, <1>3, <1>4, <1>5, <2>2, <2>3 DEF FellAsleep, Fell, LockedCall, SameMessages
  <2> QED  BY <1>2, <2>4
<1>6. CASE ~Full(z, q)
  <2>1. z' = y /\ pc' = [pc EXCEPT ![r] = a] /\ a.at = "alloc" /\ a.at \notin Waits /\ a.q = q /\ a.held = NULL
    BY <1>4, <1>6 DEF Waits
  <2> HIDE DEF a
  <2>2. Moved(r, a) /\ z'.msgs = z.msgs /\ z'.free = z.free
    BY <1>2, <1>3, <2>1, LockMoves
  <2>3. Balance(z.free, z'.free, pc[r].held, a.held)
    BY <1>1, <2>1, <2>2, Unbalanced
  <2>4. ~FillsPlace(r)
    BY <1>1 DEF FillsPlace, Filling
  <2>5. Handled(r, a)
    BY <1>1, <1>6, <2>1, <2>2, <2>3, <2>4 DEF Handled
  <2> QED  BY <1>2, <2>5
<1> QED  BY <1>5, <1>6

\* mq_msgalloc takes a message of the pool only when there is one.
LEMMA Allocated ==
  ASSUME MqSound(z), NEW y \in mq_msgalloc(z), NEW x, x = Taken(z, y)
  PROVE  /\ y \in MsgType /\ SameTasks(z, x) /\ x.msgs = z.msgs
         /\ Balance(z.free, x.free, NULL, y)
<1>1. y \in MsgType /\ (y # "DYN" => z.free[y] > 0)
  BY DEF mq_msgalloc, MsgType
<1> QED  BY <1>1, TakenStep

\* mq_send, at its allocation.
LEMMA SendAllocEffect ==
  ASSUME Core, NEW r \in Task, r = Self, SendAlloc
  PROVE  \E c \in CallState : Handled(r, c)
<1>1. /\ MqSound(z) /\ r = this_task(z.k) /\ pc[r].at = "alloc" /\ CallValid(pc[r])
      /\ pc \in [Task -> CallState] /\ pc[r] \in CallState /\ r # IDLE /\ pc[r].q \in Queue
      /\ z.errno \in [Task -> Errno]
  BY Runner DEF SendAlloc, At
<1>2. pc[r].held = NULL /\ pc[r].prio \in MsgPrio /\ "alloc" \in Filling /\ NULL \notin MsgType
  BY <1>1, MqueueAssumption DEF CallValid, Holding, CallState, MsgType, Filling
<1>3. CASE \E y \in mq_msgalloc(z) :
             z' = Taken(z, y) /\ pc' = [pc EXCEPT ![Self].at = "dosend", ![Self].held = y]
  <2>1. PICK y \in mq_msgalloc(z) :
              z' = Taken(z, y) /\ pc' = [pc EXCEPT ![Self].at = "dosend", ![Self].held = y]
    BY <1>3
  <2> DEFINE c == GoesWith(pc[r], "dosend", y)
  <2>2. y \in MsgType /\ SameTasks(z, z') /\ z'.msgs = z.msgs /\ Balance(z.free, z'.free, NULL, y)
    BY <1>1, <2>1, Allocated
  <2>3. /\ c \in CallState /\ c.at = "dosend" /\ c.q = pc[r].q /\ c.prio = pc[r].prio /\ c.held = y
    BY <1>1, <2>2, CallGoesWith DEF Label
  <2>4. pc' = [pc EXCEPT ![r] = c]
    BY <1>1, <2>1 DEF GoesWith
  <2> HIDE DEF c
  <2>5. CallValid(c) /\ c.at \notin Waits /\ c.at \in Filling
    BY <1>1, <1>2, <2>2, <2>3 DEF CallValid, Holding, Waits, Filling
  <2>6. Moved(r, c)
    BY <1>1, <2>2, <2>4, <2>5, SameMoves DEF Busy
  <2>7. Handled(r, c)
    BY <1>1, <1>2, <2>2, <2>3, <2>5, <2>6 DEF Handled
  <2> QED  BY <2>3, <2>7
<1>4. CASE "ENOMEM" \in Calls /\ Return(z)
  <2>1. Returned(z, r, z') /\ pc' = [pc EXCEPT ![r] = User]
    BY <1>1, <1>4, ReturnCall DEF Return
  <2>2. Moved(r, User) /\ z'.msgs = z.msgs /\ z'.free = z.free
    BY <1>1, <2>1, ReturnMoves
  <2>3. Balance(z.free, z'.free, pc[r].held, User.held)
    BY <1>2, <2>2, Unbalanced, UserValid
  <2>4. Handled(r, User)
    BY <1>1, <1>4, <2>2, <2>3, UserValid DEF Handled
  <2> QED  BY <2>4, UserValid DEF CallValid
<1> QED  BY <1>3, <1>4 DEF SendAlloc

\* mq_timedsend, at its allocation.
LEMMA MqTimedSendEffect ==
  ASSUME Core, NEW r \in Task, r = Self, NEW q \in Queue, NEW p \in MsgPrio, MqTimedSend(q, p)
  PROVE  \E c \in CallState : Handled(r, c)
<1>1. /\ MqSound(z) /\ r = this_task(z.k) /\ pc[r].at = "user" /\ pc[r].held = NULL
      /\ pc \in [Task -> CallState] /\ pc[r] \in CallState /\ NULL \notin MsgType
  BY Runner, MqueueAssumption DEF MqTimedSend, InUser, MsgType
<1>2. PICK y \in mq_msgalloc(z) :
            /\ z' = Taken(z, y)
            /\ pc' = [pc EXCEPT ![Self] = [at |-> "timedcheck", q |-> q, prio |-> p, timed |-> TRUE, held |-> y]]
  BY DEF MqTimedSend
<1> DEFINE c == [at |-> "timedcheck", q |-> q, prio |-> p, timed |-> TRUE, held |-> y]
<1>3. y \in MsgType /\ SameTasks(z, z') /\ z'.msgs = z.msgs /\ Balance(z.free, z'.free, NULL, y)
  BY <1>1, <1>2, Allocated
<1>4. /\ c \in CallState /\ c.at = "timedcheck" /\ c.q = q /\ c.prio = p /\ c.held = y /\ c.timed
      /\ pc' = [pc EXCEPT ![r] = c]
  BY <1>2, <1>3 DEF CallState, Label
<1> HIDE DEF c
<1>5. CallValid(c) /\ c.at \notin Waits /\ c.at \notin Busy
  BY <1>1, <1>3, <1>4 DEF CallValid, Holding, Waits, Busy
<1>6. Moved(r, c)
  BY <1>1, <1>3, <1>4, <1>5, SameMoves
<1>7. ~FillsPlace(r)
  BY <1>1 DEF FillsPlace, Filling
<1>8. Handled(r, c)
  BY <1>1, <1>3, <1>4, <1>6, <1>7 DEF Handled
<1> QED  BY <1>4, <1>8

\* mq_timedsend, at its test for room.
LEMMA TimedSendCheckEffect ==
  ASSUME Core, NEW r \in Task, r = Self, TimedSendCheck
  PROVE  \E c \in CallState : Handled(r, c) \/ \E q \in Queue, s \in Reason : Fell(r, c, q, s)
<1> DEFINE y == [z EXCEPT !.k = sched_lock(@)]
           q == pc[r].q
           b == pc[r].held
<1>1. /\ MqSound(z) /\ r = this_task(z.k) /\ pc[r].at = "timedcheck" /\ CallValid(pc[r])
      /\ pc \in [Task -> CallState] /\ pc[r] \in CallState /\ r # IDLE /\ q \in Queue
      /\ z.errno \in [Task -> Errno]
  BY Runner DEF TimedSendCheck, At
<1>2. b \in MsgType /\ pc[r].prio \in MsgPrio /\ NULL \notin MsgType /\ ~FillsPlace(r)
  BY <1>1, MqueueAssumption DEF CallValid, Holding, CallState, MsgType, FillsPlace, Filling
<1>3. LockedCall(z, r, y)
  BY <1>1, LockCall
<1>4. MqSound(y) /\ r = this_task(y.k)
  BY <1>3 DEF LockedCall
<1>5. \/ ~Full(z, q) /\ z' = y /\ pc' = [pc EXCEPT ![r].at = "dosend"]
      \/ Return(mq_msgfree(y, b))
      \/ Full(z, q) /\ z' = WaitOn(y, r, q, NOTFULL) /\ pc' = [pc EXCEPT ![r].at = "sendwait"]
  BY DEF TimedSendCheck, Goto
<1> HIDE DEF y
<1>6. CASE ~Full(z, q) /\ z' = y /\ pc' = [pc EXCEPT ![r].at = "dosend"]
  <2> DEFINE c == Goes(pc[r], "dosend")
  <2>1. c \in CallState /\ c.at = "dosend" /\ c.q = q /\ c.prio = pc[r].prio /\ c.held = b
    BY <1>1, CallGoes DEF Label
  <2>2. pc' = [pc EXCEPT ![r] = c]
    BY <1>1, <1>6 DEF Goes
  <2> HIDE DEF c
  <2>3. CallValid(c) /\ c.at \notin Waits
    BY <1>1, <1>2, <2>1 DEF CallValid, Holding, Waits
  <2>4. Moved(r, c) /\ z'.msgs = z.msgs /\ z'.free = z.free
    BY <1>3, <1>6, <2>2, <2>3, LockMoves
  <2>5. Balance(z.free, z'.free, pc[r].held, c.held)
    BY <2>1, <2>4, Unbalanced
  <2>6. Handled(r, c)
    BY <1>1, <1>2, <1>6, <2>1, <2>4, <2>5 DEF Handled
  <2> QED  BY <2>1, <2>6
<1>7. CASE Return(mq_msgfree(y, b))
  <2> DEFINE x == mq_msgfree(y, b)
  <2>1. SameTasks(y, x) /\ x.msgs = y.msgs /\ Balance(y.free, x.free, b, NULL)
    BY <1>2, <1>4, FreedStep
  <2> HIDE DEF x
  <2>2. MqSound(x) /\ r = this_task(x.k)
    BY <1>4, <2>1 DEF SameTasks
  <2>3. Returned(x, r, z') /\ pc' = [pc EXCEPT ![r] = User]
    BY <1>7, <2>2, ReturnCall DEF Return, x
  <2>4. /\ Sleep(x.k) = Sleep(z.k) /\ x.msgwaitq = z.msgwaitq /\ x.errno \in [Task -> Errno]
        /\ \A u \in Task \ {r} : x.errno[u] = z.errno[u] /\ x.k.lock[u] = z.k.lock[u]
    BY <1>1, <1>3, <2>1 DEF LockedCall, SameTasks
  <2>5. Moved(r, User) /\ z'.msgs = x.msgs /\ z'.free = x.free
    BY <2>3, <2>4, ReturnMoves
  <2>6. y.msgs = z.msgs /\ y.free = z.free
    BY <1>3 DEF LockedCall, SameMessages
  <2>7. Handled(r, User)
    BY <1>1, <1>2, <2>1, <2>5, <2>6, UserValid DEF Handled
  <2> QED  BY <2>7, UserValid DEF CallValid
<1>8. CASE Full(z, q) /\ z' = WaitOn(y, r, q, NOTFULL) /\ pc' = [pc EXCEPT ![r].at = "sendwait"]
  <2> DEFINE c == Goes(pc[r], "sendwait")
  <2>1. /\ c \in CallState /\ c.at = "sendwait" /\ c.q = q /\ c.prio = pc[r].prio /\ c.held = b
        /\ c.timed = pc[r].timed
    BY <1>1, CallGoes DEF Label
  <2>2. pc' = [pc EXCEPT ![r] = c]
    BY <1>1, <1>8 DEF Goes
  <2> HIDE DEF c
  <2>3. CallValid(c)
    BY <1>1, <1>2, <2>1 DEF CallValid, Holding
  <2>4. FellAsleep(y, r, q, NOTFULL, z')
    BY <1>1, <1>4, <1>8, WaitOnSound DEF Reason
  <2>5. c.at = PlaceOf(NOTFULL) /\ NOTFULL \in Reason /\ NOTFULL # NOTEMPTY
    BY <2>1 DEF PlaceOf, Reason, NOTFULL, NOTEMPTY
  <2>6. /\ MqSound(z') /\ SameMessages(z, z') /\ Sleep(z'.k) = [Sleep(z.k) EXCEPT ![r] = NOTFULL]
        /\ z'.msgwaitq = [z.msgwaitq EXCEPT ![r] = q] /\ z'.errno = [z.errno EXCEPT ![r] = "OK"]
        /\ z'.k.lock[r] > 0 /\ \A u \in Task \ {r} : z'.k.lock[u] = z.k.lock[u]
    BY <1>3, <2>4 DEF FellAsleep, LockedCall, SameMessages
  <2>7. Fell(r, c, q, NOTFULL)
    BY <1>1, <1>8, <2>1, <2>2, <2>3, <2>5, <2>6 DEF Fell
  <2> QED  BY <1>1, <2>1, <2>5, <2>7
<1> QED  BY <1>5, <1>6, <1>7, <1>8

\* The waiting sender runs again.
LEMMA SendResumedEffect ==
  ASSUME Core, NEW r \in Task, r = Self, SendResumed
  PROVE  \E c \in CallState : Handled(r, c) \/ \E q \in Queue, s \in Reason : Fell(r, c, q, s)
<1> DEFINE q == pc[r].q
           b == pc[r].held
           x == IF pc[r].timed THEN mq_msgfree(z, b) ELSE z
           l == IF pc[r].timed THEN "dosend" ELSE "alloc"
<1>1. /\ MqSound(z) /\ r = this_task(z.k) /\ pc[r].at = "sendwait" /\ CallValid(pc[r])
      /\ pc \in [Task -> CallState] /\ pc[r] \in CallState /\ r # IDLE /\ q \in Queue
      /\ z.errno \in [Task -> Errno]
  BY Runner DEF SendResumed, At
<1>2. /\ IF pc[r].timed THEN b \in MsgType ELSE b = NULL
      /\ pc[r].prio \in MsgPrio /\ NULL \notin MsgType
  BY <1>1, MqueueAssumption DEF CallValid, Holding, CallState, MsgType
<1>3. z.k.lock[r] > 0
  BY <1>1 DEF Core, LockHeld, Waits
<1>4. \/ z.errno[r] # "OK" /\ Return(x)
      \/ Full(z, q) /\ z' = WaitOn(z, r, q, NOTFULL) /\ pc' = pc
      \/ ~Full(z, q) /\ z' = z /\ pc' = [pc EXCEPT ![r].at = l]
  BY DEF SendResumed, Goto
<1>5. CASE z.errno[r] # "OK" /\ Return(x)
  <2>1. SameTasks(z, x) /\ x.msgs = z.msgs /\ Balance(z.free, x.free, b, NULL)
    <3>1. CASE pc[r].timed
      BY <1>1, <1>2, <3>1, FreedStep
    <3>2. CASE ~pc[r].timed
      BY <1>1, <1>2, <3>2, Unbalanced DEF SameTasks
    <3> QED  BY <3>1, <3>2
  <2> HIDE DEF x
  <2>2. MqSound(x) /\ r = this_task(x.k)
    BY <1>1, <2>1 DEF SameTasks
  <2>3. Returned(x, r, z') /\ pc' = [pc EXCEPT ![r] = User]
    BY <1>5, <2>2, ReturnCall DEF Return
  <2>4. /\ Sleep(x.k) = Sleep(z.k) /\ x.msgwaitq = z.msgwaitq /\ x.errno \in [Task -> Errno]
        /\ \A u \in Task \ {r} : x.errno[u] = z.errno[u] /\ x.k.lock[u] = z.k.lock[u]
    BY <1>1, <2>1 DEF SameTasks
  <2>5. Moved(r, User) /\ z'.msgs = x.msgs /\ z'.free = x.free
    BY <2>3, <2>4, ReturnMoves
  <2>6. ~FillsPlace(r)
    BY <1>1, <1>5 DEF FillsPlace, Filling
  <2>7. Handled(r, User)
    BY <1>1, <2>1, <2>5, <2>6, UserValid DEF Handled
  <2> QED  BY <2>7, UserValid DEF CallValid
<1>6. CASE Full(z, q) /\ z' = WaitOn(z, r, q, NOTFULL) /\ pc' = pc
  <2>1. FellAsleep(z, r, q, NOTFULL, z')
    BY <1>1, <1>6, WaitOnSound DEF Reason
  <2>2. pc' = [pc EXCEPT ![r] = pc[r]]
    BY <1>1, <1>6
  <2>3. pc[r].at = PlaceOf(NOTFULL) /\ NOTFULL \in Reason /\ NOTFULL # NOTEMPTY
    BY <1>1 DEF PlaceOf, Reason, NOTFULL, NOTEMPTY
  <2>4. Fell(r, pc[r], q, NOTFULL)
    BY <1>1, <1>3, <1>6, <2>1, <2>2, <2>3 DEF FellAsleep, Fell, SameMessages
  <2> QED  BY <1>1, <2>3, <2>4
<1>7. CASE ~Full(z, q) /\ z' = z /\ pc' = [pc EXCEPT ![r].at = l]
  <2> DEFINE c == Goes(pc[r], l)
  <2>1. l \in Label /\ l \in {"dosend", "alloc"} /\ (l = "dosend" <=> pc[r].timed)
    BY DEF Label
  <2> HIDE DEF l
  <2>2. c \in CallState /\ c.at = l /\ c.q = q /\ c.prio = pc[r].prio /\ c.held = b
    BY <1>1, <2>1, CallGoes
  <2>3. pc' = [pc EXCEPT ![r] = c]
    BY <1>1, <1>7 DEF Goes
  <2> HIDE DEF c
  <2>4. CallValid(c) /\ c.at \notin Waits /\ c.at \in Filling /\ pc[r].at \in Busy \union Waits
    BY <1>1, <1>2, <2>1, <2>2 DEF CallValid, Holding, Waits, Filling
  <2>5. SameTasks(z, z')
    BY <1>1, <1>7 DEF SameTasks
  <2>6. Moved(r, c)
    BY <2>3, <2>4, <2>5, SameMoves
  <2>7. Balance(z.free, z'.free, pc[r].held, c.held)
    BY <1>7, <2>2, Unbalanced
  <2>8. Handled(r, c)
    BY <1>1, <1>7, <2>2, <2>4, <2>6, <2>7 DEF Handled
  <2> QED  BY <2>2, <2>8
<1> QED  BY <1>4, <1>5, <1>6, <1>7

\* mq_dosend inserts the message.
LEMMA SendEnqueueEffect ==
  ASSUME Core, NEW r \in Task, r = Self, SendEnqueue
  PROVE  \E c \in CallState, q \in Queue, m \in Message : Sent(r, c, q, m)
<1> DEFINE q == pc[r].q
           m == [prio |-> pc[r].prio, type |-> pc[r].held, task |-> TRUE]
           c == GoesWith(pc[r], "wakereceiver", NULL)
<1>1. /\ MqSound(z) /\ r = this_task(z.k) /\ pc[r].at = "dosend" /\ CallValid(pc[r])
      /\ pc \in [Task -> CallState] /\ pc[r] \in CallState /\ q \in Queue
  BY Runner DEF SendEnqueue, At
<1>2. pc[r].held \in MsgType /\ pc[r].prio \in MsgPrio /\ NULL \notin MsgType
  BY <1>1, MqueueAssumption DEF CallValid, Holding, MsgType
<1>3. m \in Message /\ m.task /\ m.type = pc[r].held /\ m.prio = pc[r].prio
  BY <1>2 DEF Message
<1>4. z' = Enqueue(z, q, m) /\ pc' = [pc EXCEPT ![r] = c]
  BY <1>1 DEF SendEnqueue, GoesWith
<1>5. c \in CallState /\ c.at = "wakereceiver" /\ c.q = q /\ c.prio = pc[r].prio /\ c.held = NULL
  BY <1>1, CallGoesWith DEF Label
<1> HIDE DEF m, c
<1>6. SameTasks(z, z') /\ z'.free = z.free /\ InsertedMsg(q, m)
  BY <1>1, <1>3, <1>4, EnqueueStep DEF InsertedMsg
<1>7. CallValid(c) /\ c.at \notin Waits /\ pc[r].at \in Busy \union Waits
  BY <1>1, <1>2, <1>5 DEF CallValid, Holding, Waits, Busy
<1>8. Moved(r, c)
  BY <1>4, <1>6, <1>7, SameMoves
<1>9. Sent(r, c, q, m)
  BY <1>1, <1>3, <1>5, <1>6, <1>8 DEF Sent
<1> QED  BY <1>1, <1>3, <1>5, <1>9

\* A call wakes the first waiter and returns: it holds the lock, so the woken
\* task does not run before.
LEMMA WakeReturn ==
  ASSUME Core, NEW r \in Task, r = Self, NEW q \in Queue, NEW s \in Reason, Waiters(z, q, s) # {},
         pc[r].at = (IF s = NOTEMPTY THEN "wakereceiver" ELSE "wakesender"), pc[r].q = q,
         Return(WakeFirst(z, q, s))
  PROVE  \E t \in Task : WokeReturned(r, t, q, s)
<1> DEFINE x == WakeFirst(z, q, s)
<1>1. MqSound(z) /\ r = this_task(z.k) /\ z.k.lock[r] > 0
  BY Runner DEF Core, LockHeld, Busy
<1>2. PICK t \in Waiters(z, q, s) : WokenByCall(z, t, x)
  BY <1>1, WakeFirstSound
<1>3. pc' = [pc EXCEPT ![r] = User] /\ z' = [x EXCEPT !.k = sched_unlock(@), !.errno[r] = "OK"]
  BY DEF Return
<1> HIDE DEF x
<1>4. MqSound(x) /\ r = this_task(x.k)
  BY <1>1, <1>2 DEF WokenByCall, WokeUp, KeepsRunning
<1>5. Returned(x, r, z')
  BY <1>3, <1>4, ReturnCall
<1>6. WokeUp(z, t, z')
  BY <1>2, <1>5 DEF Returned, WokenByCall, WokeUp, SameMessages
<1>7. z'.errno = [z.errno EXCEPT ![r] = "OK"] /\ \A u \in Task \ {r} : z'.k.lock[u] = z.k.lock[u]
  BY <1>2, <1>5 DEF Returned, WokenByCall
<1>8. t \in Task
  BY <1>2 DEF Waiters
<1> QED  BY <1>2, <1>3, <1>6, <1>7, <1>8 DEF WokeReturned

\* mq_dosend wakes a receiver.
LEMMA SendWakeEffect ==
  ASSUME Core, NEW r \in Task, r = Self, SendWake
  PROVE  \/ Handled(r, User)
         \/ \E t \in Task, q \in Queue, s \in Reason : WokeReturned(r, t, q, s)
<1> DEFINE q == pc[r].q
<1>1. /\ MqSound(z) /\ r = this_task(z.k) /\ pc[r].at = "wakereceiver" /\ CallValid(pc[r])
      /\ pc \in [Task -> CallState] /\ pc[r] \in CallState /\ q \in Queue
      /\ z.errno \in [Task -> Errno]
  BY Runner DEF SendWake, At
<1>2. pc[r].held = NULL /\ NOTEMPTY \in Reason /\ ~FillsPlace(r)
  BY <1>1 DEF CallValid, Holding, CallState, Reason, FillsPlace, Filling
<1>3. z.nwait[NOTEMPTY][q] > 0 <=> Waiters(z, q, NOTEMPTY) # {}
  BY <1>1, <1>2, CounterTells
<1>4. Return(IF z.nwait[NOTEMPTY][q] > 0 THEN WakeFirst(z, q, NOTEMPTY) ELSE z)
  BY DEF SendWake, WakeReceiver
<1>5. CASE Waiters(z, q, NOTEMPTY) # {}
  <2>1. Return(WakeFirst(z, q, NOTEMPTY))
    BY <1>3, <1>4, <1>5
  <2>2. \E t \in Task : WokeReturned(r, t, q, NOTEMPTY)
    BY <1>1, <1>2, <1>5, <2>1, WakeReturn
  <2> QED  BY <1>1, <1>2, <2>2
<1>6. CASE Waiters(z, q, NOTEMPTY) = {}
  <2>1. Return(z)
    BY <1>3, <1>4, <1>6
  <2>2. Returned(z, r, z') /\ pc' = [pc EXCEPT ![r] = User]
    BY <1>1, <2>1, ReturnCall DEF Return
  <2>3. Moved(r, User) /\ z'.msgs = z.msgs /\ z'.free = z.free
    BY <1>1, <2>2, ReturnMoves
  <2>4. Balance(z.free, z'.free, pc[r].held, User.held)
    BY <1>2, <2>3, Unbalanced, UserValid
  <2> QED  BY <1>1, <1>2, <1>6, <2>3, <2>4, UserValid DEF Handled
<1> QED  BY <1>5, <1>6

\* mq_doreceive wakes a sender, or stops in its ASSERT.
LEMMA ReceiveWakeEffect ==
  ASSUME Core, NEW r \in Task, r = Self, ReceiveWake
  PROVE  \/ \E t \in Task, q \in Queue, s \in Reason : WokeReturned(r, t, q, s)
         \/ z' = z /\ pc' = pc
<1>1. pc[r].at = "wakesender" /\ pc[r].q \in Queue /\ NOTFULL \in Reason /\ NOTFULL # NOTEMPTY
  BY Runner DEF ReceiveWake, At, Reason, NOTFULL, NOTEMPTY
<1>2. CASE Waiters(z, pc[r].q, NOTFULL) # {}
  <2>1. Return(WakeFirst(z, pc[r].q, NOTFULL))
    BY <1>2 DEF ReceiveWake
  <2>2. PICK q \in Queue : q = pc[r].q
    BY <1>1
  <2>3. \E t \in Task : WokeReturned(r, t, q, NOTFULL)
    BY <1>1, <1>2, <2>1, <2>2, WakeReturn
  <2> QED  BY <1>1, <2>3
<1>3. CASE Waiters(z, pc[r].q, NOTFULL) = {}
  BY <1>3 DEF ReceiveWake
<1> QED  BY <1>2, <1>3

\* mq_doreceive frees the message.
LEMMA ReceiveFreeEffect ==
  ASSUME Core, NEW r \in Task, r = Self, ReceiveFree
  PROVE  \E c \in CallState : Handled(r, c)
<1> DEFINE y == mq_msgfree(z, pc[r].held)
           q == pc[r].q
           c == GoesWith(pc[r], "wakesender", NULL)
<1>1. /\ MqSound(z) /\ r = this_task(z.k) /\ pc[r].at = "msgfree" /\ CallValid(pc[r])
      /\ pc \in [Task -> CallState] /\ pc[r] \in CallState /\ q \in Queue
      /\ z.errno \in [Task -> Errno] /\ NULL \notin MsgType
  BY Runner, MqueueAssumption DEF ReceiveFree, At, MsgType
<1>2. pc[r].held \in MsgType /\ NOTFULL \in Reason
  BY <1>1 DEF CallValid, Holding, Reason
<1>3. SameTasks(z, y) /\ y.msgs = z.msgs /\ Balance(z.free, y.free, pc[r].held, NULL)
  BY <1>1, <1>2, FreedStep
<1>4. IF z.nwait[NOTFULL][q] > 0 THEN z' = y /\ pc' = [pc EXCEPT ![r] = c] ELSE Return(y)
  BY <1>1 DEF ReceiveFree, GoesWith
<1>5. z.nwait[NOTFULL][q] > 0 <=> Waiters(z, q, NOTFULL) # {}
  BY <1>1, <1>2, CounterTells
<1>6. c \in CallState /\ c.at = "wakesender" /\ c.q = q /\ c.held = NULL
  BY <1>1, CallGoesWith DEF Label
<1> HIDE DEF y, c
<1>7. CASE z.nwait[NOTFULL][q] > 0
  <2>1. CallValid(c) /\ c.at \notin Waits /\ c.at \in Filling /\ pc[r].at \in Busy \union Waits
    BY <1>1, <1>6 DEF CallValid, Holding, Waits, Busy, Filling
  <2>2. Moved(r, c)
    BY <1>3, <1>4, <1>7, <2>1, SameMoves
  <2>3. Handled(r, c)
    BY <1>1, <1>3, <1>4, <1>6, <1>7, <2>1, <2>2 DEF Handled
  <2> QED  BY <1>6, <2>3
<1>8. CASE ~(z.nwait[NOTFULL][q] > 0)
  <2>1. MqSound(y) /\ r = this_task(y.k)
    BY <1>1, <1>3 DEF SameTasks
  <2>2. Returned(y, r, z') /\ pc' = [pc EXCEPT ![r] = User]
    BY <1>4, <1>8, <2>1, ReturnCall DEF Return
  <2>3. /\ Sleep(y.k) = Sleep(z.k) /\ y.msgwaitq = z.msgwaitq /\ y.errno \in [Task -> Errno]
        /\ \A u \in Task \ {r} : y.errno[u] = z.errno[u] /\ y.k.lock[u] = z.k.lock[u]
    BY <1>1, <1>3 DEF SameTasks
  <2>4. Moved(r, User) /\ z'.msgs = y.msgs /\ z'.free = y.free
    BY <2>2, <2>3, ReturnMoves
  <2>5. Handled(r, User)
    BY <1>1, <1>3, <1>5, <1>8, <2>4, UserValid DEF Handled
  <2> QED  BY <2>5, UserValid DEF CallValid
<1> QED  BY <1>7, <1>8

\* mq_receive, at its test for a message.
LEMMA MqReceiveEffect ==
  ASSUME Core, NEW r \in Task, r = Self, NEW q \in Queue, NEW timed \in BOOLEAN, MqReceive(q, timed)
  PROVE  \E c \in CallState : Received(r, c, q) \/ Fell(r, c, q, NOTEMPTY)
<1> DEFINE y == [z EXCEPT !.k = sched_lock(@)]
           h == Head(y.msgs[q]).type
           a == [at |-> "msgfree", q |-> q, prio |-> 0, timed |-> FALSE, held |-> h]
           w == [at |-> "recvwait", q |-> q, prio |-> 0, timed |-> timed, held |-> NULL]
<1>1. /\ MqSound(z) /\ r = this_task(z.k) /\ pc[r].held = NULL /\ pc[r].at = "user" /\ r # IDLE
      /\ NULL \notin MsgType
  BY Runner, MqueueAssumption DEF MqReceive, InUser, MsgType
<1>2. LockedCall(z, r, y)
  BY <1>1, LockCall
<1>3. MqSound(y) /\ r = this_task(y.k) /\ y.msgs = z.msgs /\ y.free = z.free
  BY <1>2 DEF LockedCall, SameMessages
<1>4. IF z.msgs[q] # <<>>
      THEN z' = [y EXCEPT !.msgs[q] = Tail(@)] /\ pc' = [pc EXCEPT ![r] = a]
      ELSE z' = WaitOn(y, r, q, NOTEMPTY) /\ pc' = [pc EXCEPT ![r] = w]
  BY DEF MqReceive, TakeFirst, User
<1> HIDE DEF y
<1>5. CASE z.msgs[q] # <<>>
  <2>1. /\ SameTasks(y, z') /\ z'.free = y.free /\ z'.msgs = [y.msgs EXCEPT ![q] = Tail(y.msgs[q])]
        /\ Head(y.msgs[q]) = y.msgs[q][1] /\ y.msgs[q][1] \in Message
    <3>1. z' = WithMsgs(y, q, Tail(y.msgs[q]))
      BY <1>4, <1>5 DEF WithMsgs
    <3> QED  BY <1>3, <1>5, <3>1, RemoveStep
  <2>2. h \in MsgType /\ h = z.msgs[q][1].type
    BY <1>3, <2>1 DEF Message
  <2> HIDE DEF h
  <2>3. /\ a \in CallState /\ CallValid(a) /\ a.at \notin Waits /\ a.at = "msgfree" /\ a.q = q /\ a.held = h
    <3>1. a \in CallState
      BY <2>2 DEF CallState, Label
    <3> QED  BY <2>2, <3>1 DEF CallValid, Holding, Waits
  <2>4. pc' = [pc EXCEPT ![r] = a]
    BY <1>4, <1>5
  <2> HIDE DEF a
  <2>5. Moved(r, a)
    BY <1>2, <1>3, <2>1, <2>3, <2>4 DEF LockedCall, SameTasks, Moved
  <2>6. Received(r, a, q)
    BY <1>1, <1>3, <1>5, <2>1, <2>2, <2>3, <2>5 DEF Received
  <2> QED  BY <2>3, <2>6
<1>6. CASE z.msgs[q] = <<>>
  <2>1. FellAsleep(y, r, q, NOTEMPTY, z')
    BY <1>1, <1>3, <1>4, <1>6, WaitOnSound DEF Reason
  <2>2. /\ w \in CallState /\ CallValid(w) /\ w.at = PlaceOf(NOTEMPTY) /\ w.q = q /\ w.held = NULL
        /\ NOTEMPTY \in Reason /\ NOTFULL # NOTEMPTY
    <3>1. w \in CallState
      BY DEF CallState, Label
    <3> QED  BY <1>1, <3>1 DEF CallValid, Holding, PlaceOf, Reason, NOTFULL, NOTEMPTY
  <2>3. pc' = [pc EXCEPT ![r] = w]
    BY <1>4, <1>6
  <2> HIDE DEF w
  <2>4. Fell(r, w, q, NOTEMPTY)
    BY <1>1, <1>2, <1>6, <2>1, <2>2, <2>3 DEF FellAsleep, Fell, LockedCall, SameMessages
  <2> QED  BY <2>2, <2>4
<1> QED  BY <1>5, <1>6

\* The waiting receiver runs again.
LEMMA ReceiveResumedEffect ==
  ASSUME Core, NEW r \in Task, r = Self, ReceiveResumed
  PROVE  \E c \in CallState : \/ Handled(r, c)
                              \/ \E q \in Queue : Received(r, c, q)
                              \/ \E q \in Queue, s \in Reason : Fell(r, c, q, s)
<1> DEFINE q == pc[r].q
           h == Head(z.msgs[q]).type
           a == [at |-> "msgfree", q |-> q, prio |-> 0, timed |-> FALSE, held |-> h]
<1>1. /\ MqSound(z) /\ r = this_task(z.k) /\ pc[r].at = "recvwait" /\ CallValid(pc[r])
      /\ pc \in [Task -> CallState] /\ pc[r] \in CallState /\ r # IDLE /\ q \in Queue
      /\ z.errno \in [Task -> Errno]
  BY Runner DEF ReceiveResumed, At
<1>2. pc[r].held = NULL /\ NULL \notin MsgType /\ z.k.lock[r] > 0
  BY <1>1, MqueueAssumption DEF CallValid, Holding, CallState, MsgType, Core, LockHeld, Waits
<1>3. \/ z.errno[r] # "OK" /\ Return(z)
      \/ /\ z.errno[r] = "OK" /\ z.msgs[q] # <<>>
         /\ z' = [z EXCEPT !.msgs[q] = Tail(@)] /\ pc' = [pc EXCEPT ![r] = a]
      \/ z.errno[r] = "OK" /\ z.msgs[q] = <<>> /\ z' = WaitOn(z, r, q, NOTEMPTY) /\ pc' = pc
  BY DEF ReceiveResumed, TakeFirst, User
<1>4. CASE z.errno[r] # "OK" /\ Return(z)
  <2>1. Returned(z, r, z') /\ pc' = [pc EXCEPT ![r] = User]
    BY <1>1, <1>4, ReturnCall DEF Return
  <2>2. Moved(r, User) /\ z'.msgs = z.msgs /\ z'.free = z.free
    BY <1>1, <2>1, ReturnMoves
  <2>3. Balance(z.free, z'.free, pc[r].held, User.held)
    BY <1>2, <2>2, Unbalanced, UserValid
  <2>4. ~FillsPlace(r)
    BY <1>1 DEF FillsPlace, Filling
  <2>5. Handled(r, User)
    BY <1>1, <1>4, <2>2, <2>3, <2>4, UserValid DEF Handled
  <2> QED  BY <2>5, UserValid DEF CallValid
<1>5. CASE /\ z.errno[r] = "OK" /\ z.msgs[q] # <<>>
           /\ z' = [z EXCEPT !.msgs[q] = Tail(@)] /\ pc' = [pc EXCEPT ![r] = a]
  <2>1. /\ SameTasks(z, z') /\ z'.free = z.free /\ z'.msgs = [z.msgs EXCEPT ![q] = Tail(z.msgs[q])]
        /\ Head(z.msgs[q]) = z.msgs[q][1] /\ z.msgs[q][1] \in Message
    <3>1. PICK p \in Queue : p = q
      BY <1>1
    <3>2. z' = WithMsgs(z, p, Tail(z.msgs[p])) /\ z.msgs[p] # <<>>
      BY <1>5, <3>1 DEF WithMsgs
    <3>3. /\ SameTasks(z, z') /\ z'.free = z.free /\ z'.msgs = [z.msgs EXCEPT ![p] = Tail(z.msgs[p])]
          /\ Head(z.msgs[p]) = z.msgs[p][1] /\ z.msgs[p][1] \in Message
      <4>1. MqSound(z)
        BY <1>1
      <4> QED  BY <3>2, <4>1, RemoveStep
    <3> QED  BY <3>1, <3>3
  <2>2. h \in MsgType /\ h = z.msgs[q][1].type
    BY <2>1 DEF Message
  <2> HIDE DEF h
  <2>3. /\ a \in CallState /\ CallValid(a) /\ a.at \notin Waits /\ a.at = "msgfree" /\ a.q = q /\ a.held = h
    <3>1. a \in CallState
      BY <1>1, <2>2 DEF CallState, Label
    <3> QED  BY <1>1, <2>2, <3>1 DEF CallValid, Holding, Waits
  <2> HIDE DEF a
  <2>4. Moved(r, a)
    BY <1>1, <1>5, <2>1, <2>3, SameMoves DEF Waits
  <2>5. Received(r, a, q)
    BY <1>1, <1>2, <1>5, <2>1, <2>2, <2>3, <2>4 DEF Received
  <2> QED  BY <1>1, <2>3, <2>5
<1>6. CASE z.msgs[q] = <<>> /\ z' = WaitOn(z, r, q, NOTEMPTY) /\ pc' = pc
  <2>1. FellAsleep(z, r, q, NOTEMPTY, z')
    BY <1>1, <1>6, WaitOnSound DEF Reason
  <2>2. pc' = [pc EXCEPT ![r] = pc[r]]
    BY <1>1, <1>6
  <2>3. pc[r].at = PlaceOf(NOTEMPTY) /\ NOTEMPTY \in Reason /\ NOTFULL # NOTEMPTY
    BY <1>1 DEF PlaceOf, Reason, NOTFULL, NOTEMPTY
  <2>4. Fell(r, pc[r], q, NOTEMPTY)
    BY <1>1, <1>2, <1>6, <2>1, <2>2, <2>3 DEF FellAsleep, Fell, SameMessages
  <2> QED  BY <1>1, <2>3, <2>4
<1> QED  BY <1>3, <1>4, <1>5, <1>6

\* mq_send from an interrupt handler.
LEMMA IsrSendEffect ==
  ASSUME Core, NEW q \in Queue, NEW p \in MsgPrio, IsrSend(q, p)
  PROVE  \E m \in Message : IsrSent(q, m)
<1>1. PICK y \in {"FIXED", "IRQ"} :
            /\ z.free[y] > 0
            /\ z' = WakeReceiver(Enqueue(Taken(z, y), q, [prio |-> p, type |-> y, task |-> FALSE]), q)
  BY DEF IsrSend
<1> DEFINE m == [prio |-> p, type |-> y, task |-> FALSE]
           a == Taken(z, y)
           b == Enqueue(a, q, m)
<1>2. m \in Message /\ ~m.task /\ m.type = y /\ y \in MsgType /\ MqSound(z)
  BY DEF Message, MsgType, Core
<1>3. SameTasks(z, a) /\ a.msgs = z.msgs /\ Balance(z.free, a.free, NULL, y)
  BY <1>1, <1>2, TakenStep
<1>4. z' = WakeReceiver(b, q)
  BY <1>1
<1> HIDE DEF m, a
<1>5. /\ SameTasks(a, b) /\ b.free = a.free
      /\ b.msgs = [a.msgs EXCEPT ![q] = InsertAtPos(a.msgs[q], MsgPos(a.msgs[q], m.prio), m)]
  <2>1. MqSound(a)
    BY <1>3 DEF SameTasks
  <2> QED  BY <1>2, <2>1, EnqueueStep
<1> HIDE DEF b
<1>6. /\ MqSound(b) /\ b.k = z.k /\ b.msgwaitq = z.msgwaitq /\ b.errno = z.errno
      /\ Waiters(b, q, NOTEMPTY) = Waiters(z, q, NOTEMPTY)
  BY <1>3, <1>5 DEF SameTasks, Waiters
<1>7. b.nwait[NOTEMPTY][q] > 0 <=> Waiters(z, q, NOTEMPTY) # {}
  BY <1>6, CounterTells DEF Reason
<1>8. pc' = pc
  BY DEF IsrSend
<1>9. CASE Waiters(z, q, NOTEMPTY) # {}
  <2>1. z' = WakeFirst(b, q, NOTEMPTY)
    BY <1>4, <1>7, <1>9 DEF WakeReceiver
  <2>2. PICK t \in Waiters(b, q, NOTEMPTY) : WokenByCall(b, t, z')
    BY <1>6, <1>9, <2>1, WakeFirstSound DEF Reason
  <2>3. /\ MqSound(z') /\ z'.msgs = b.msgs /\ z'.free = b.free
        /\ Sleep(z'.k) = [Sleep(z.k) EXCEPT ![t] = "awake"] /\ z'.msgwaitq = [z.msgwaitq EXCEPT ![t] = NULL]
        /\ z'.errno = z.errno /\ z'.k.lock = z.k.lock /\ KeepsRunning(z.k, z'.k)
    BY <1>6, <2>2 DEF WokenByCall, WokeUp, SameMessages
  <2>4. IsrSent(q, m)
    BY <1>2, <1>3, <1>5, <1>6, <1>8, <2>2, <2>3 DEF IsrSent, InsertedMsg
  <2> QED  BY <1>2, <2>4
<1>10. CASE Waiters(z, q, NOTEMPTY) = {}
  <2>1. z' = b
    BY <1>4, <1>7, <1>10 DEF WakeReceiver
  <2>2. IsrSent(q, m)
    BY <1>2, <1>3, <1>5, <1>6, <1>8, <1>10, <2>1 DEF IsrSent, InsertedMsg, KeepsRunning
  <2> QED  BY <1>2, <2>2
<1> QED  BY <1>9, <1>10

\* A timeout or a signal.
LEMMA AbortEffect ==
  ASSUME Core, NEW t \in Task, NEW o \in Errno, o # "OK", z' = mq_waitirq(z, t, o), pc' = pc
  PROVE  Aborted(t) \/ (z' = z /\ pc' = pc)
<1>1. MqSound(z) /\ z.errno \in [Task -> Errno]
  BY MqFields DEF Core, MqSound
<1>2. CASE z.k.state[t] \in Reason
  <2>1. /\ WokeUp(z, t, z') /\ z'.errno = [z.errno EXCEPT ![t] = o]
        /\ z'.k.lock = z.k.lock /\ KeepsRunning(z.k, z'.k)
    BY <1>1, <1>2, WaitirqSound
  <2>2. z'.errno[t] = o /\ \A u \in Task \ {t} : z'.errno[u] = z.errno[u]
    BY <1>1, <2>1
  <2> QED  BY <2>1, <2>2 DEF Aborted
<1>3. CASE z.k.state[t] \notin Reason
  BY <1>1, <1>3, WaitirqSound
<1> QED  BY <1>2, <1>3

\* task_restart.
LEMMA TaskRestartEffect ==
  ASSUME Core, NEW t \in Task, TaskRestart(t)
  PROVE  RestartedTask(t)
<1>1. /\ MqSound(z) /\ z.k.state[t] \in Reason /\ pc[t].held = NULL /\ pc[Self].at = "user"
      /\ pc' = [pc EXCEPT ![t] = User]
  BY DEF Core, TaskRestart, InUser
<1>2. z' = RestartedCall(z, t)
  BY DEF TaskRestart, RestartedCall
<1>3. WokeUp(z, t, z') /\ z'.errno = z.errno /\ \A u \in Task \ {t} : z'.k.lock[u] = z.k.lock[u]
  BY <1>1, <1>2, RestartGivesUp
<1> QED  BY <1>1, <1>3 DEF RestartedTask

\* Every step is one of these.
LEMMA StepEffect ==
  ASSUME Core, [Next]_vars
  PROVE  Effect
<1>1. PICK r \in Task : r = Self
  <2>1. Sound(z.k)
    BY DEF Core, MqSound
  <2> QED  BY <2>1, RunnerAwake DEF Self
<1>2. CASE UNCHANGED vars
  BY <1>2 DEF vars, Effect
<1>3. CASE AppCall
  <2>1. ASSUME NEW q \in Queue, NEW p \in MsgPrio, MqSend(q, p) PROVE Effect
    <3>1. \E c \in CallState : Handled(r, c) \/ Fell(r, c, q, NOTFULL)
      BY <1>1, <2>1, MqSendEffect
    <3> QED  BY <1>1, <3>1 DEF Effect, Reason
  <2>2. ASSUME NEW q \in Queue, NEW p \in MsgPrio, MqTimedSend(q, p) PROVE Effect
    <3>1. \E c \in CallState : Handled(r, c)
      BY <1>1, <2>2, MqTimedSendEffect
    <3> QED  BY <1>1, <3>1 DEF Effect
  <2>3. ASSUME NEW q \in Queue, NEW timed \in BOOLEAN, MqReceive(q, timed) PROVE Effect
    <3>1. \E c \in CallState : Received(r, c, q) \/ Fell(r, c, q, NOTEMPTY)
      BY <1>1, <2>3, MqReceiveEffect
    <3> QED  BY <1>1, <3>1 DEF Effect, Reason
  <2>4. ASSUME NEW t \in Task, TaskRestart(t) PROVE Effect
    <3>1. RestartedTask(t)
      BY <2>4, TaskRestartEffect
    <3> QED  BY <3>1 DEF Effect
  <2> QED  BY <1>3, <2>1, <2>2, <2>3, <2>4 DEF AppCall
<1>4. CASE Step
  <2>1. CASE SendAlloc
    <3>1. \E c \in CallState : Handled(r, c)
      BY <1>1, <2>1, SendAllocEffect
    <3> QED  BY <1>1, <3>1 DEF Effect
  <2>2. CASE TimedSendCheck
    <3>1. \E c \in CallState : Handled(r, c) \/ \E q \in Queue, s \in Reason : Fell(r, c, q, s)
      BY <1>1, <2>2, TimedSendCheckEffect
    <3> QED  BY <1>1, <3>1 DEF Effect
  <2>3. CASE SendResumed
    <3>1. \E c \in CallState : Handled(r, c) \/ \E q \in Queue, s \in Reason : Fell(r, c, q, s)
      BY <1>1, <2>3, SendResumedEffect
    <3> QED  BY <1>1, <3>1 DEF Effect
  <2>4. CASE SendEnqueue
    <3>1. \E c \in CallState, q \in Queue, m \in Message : Sent(r, c, q, m)
      BY <1>1, <2>4, SendEnqueueEffect
    <3> QED  BY <1>1, <3>1 DEF Effect
  <2>5. CASE SendWake
    <3>1. \/ Handled(r, User)
          \/ \E t \in Task, q \in Queue, s \in Reason : WokeReturned(r, t, q, s)
      BY <1>1, <2>5, SendWakeEffect
    <3> QED  BY <1>1, <3>1, UserValid DEF Effect, CallValid
  <2>6. CASE ReceiveResumed
    <3>1. \E c \in CallState : \/ Handled(r, c)
                               \/ \E q \in Queue : Received(r, c, q)
                               \/ \E q \in Queue, s \in Reason : Fell(r, c, q, s)
      BY <1>1, <2>6, ReceiveResumedEffect
    <3> QED  BY <1>1, <3>1 DEF Effect
  <2>7. CASE ReceiveFree
    <3>1. \E c \in CallState : Handled(r, c)
      BY <1>1, <2>7, ReceiveFreeEffect
    <3> QED  BY <1>1, <3>1 DEF Effect
  <2>8. CASE ReceiveWake
    <3>1. \/ \E t \in Task, q \in Queue, s \in Reason : WokeReturned(r, t, q, s)
          \/ z' = z /\ pc' = pc
      BY <1>1, <2>8, ReceiveWakeEffect
    <3> QED  BY <1>1, <3>1 DEF Effect
  <2> QED  BY <1>4, <2>1, <2>2, <2>3, <2>4, <2>5, <2>6, <2>7, <2>8 DEF Step
<1>5. CASE Interrupt
  <2>1. ASSUME NEW q \in Queue, NEW p \in MsgPrio, IsrSend(q, p) PROVE Effect
    <3>1. \E m \in Message : IsrSent(q, m)
      BY <2>1, IsrSendEffect
    <3> QED  BY <3>1 DEF Effect
  <2>2. ASSUME NEW t \in Task, MqTimeout(t) \/ Signal(t) PROVE Effect
    <3>1. "EINTR" \in Errno /\ "ETIMEDOUT" \in Errno
      BY DEF Errno
    <3>2. Aborted(t) \/ (z' = z /\ pc' = pc)
      <4>1. CASE MqTimeout(t)
        <5>1. z' = mq_waitirq(z, t, "ETIMEDOUT") /\ pc' = pc
          BY <4>1 DEF MqTimeout
        <5> QED  BY <3>1, <5>1, AbortEffect
      <4>2. CASE Signal(t)
        <5>1. z' = mq_waitirq(z, t, "EINTR") /\ pc' = pc
          BY <4>2 DEF Signal
        <5> QED  BY <3>1, <5>1, AbortEffect
      <4> QED  BY <2>2, <4>1, <4>2
    <3> QED  BY <3>2 DEF Effect
  <2> QED  BY <1>5, <2>1, <2>2 DEF Interrupt
<1> QED  BY <1>2, <1>3, <1>4, <1>5 DEF Next

\* The watchdogs and the ASSERT.
LEMMA StepFlags ==
  ASSUME Core, [Next]_vars
  PROVE  waitdog' \subseteq Task /\ panic' \in BOOLEAN
<1>1. waitdog \subseteq Task /\ panic \in BOOLEAN /\ Self \in Task
  <2>1. Sound(z.k)
    BY DEF Core, MqSound
  <2> QED  BY <2>1, RunnerAwake DEF Self, Core
<1>2. CASE UNCHANGED vars
  BY <1>1, <1>2 DEF vars
<1>3. CASE AppCall
  BY <1>1, <1>3 DEF AppCall, MqSend, MqTimedSend, MqReceive, TaskRestart
<1>4. CASE Step
  BY <1>1, <1>4 DEF Step, SendAlloc, TimedSendCheck, SendResumed, SendEnqueue, SendWake,
                    ReceiveResumed, ReceiveFree, ReceiveWake
<1>5. CASE Interrupt
  BY <1>1, <1>5 DEF Interrupt, IsrSend, MqTimeout, Signal
<1> QED  BY <1>2, <1>3, <1>4, <1>5 DEF Next

\* The idle task makes no calls.
LEMMA IdleStays ==
  ASSUME Core, [Next]_vars
  PROVE  pc'[IDLE] = User
<1>1. /\ Sound(z.k) /\ pc \in [Task -> CallState] /\ pc[IDLE] = User /\ IDLE \in Task
  BY KernelAssumption DEF Core, MqSound, CallsValid
<1>2. Self \in Task
  BY <1>1, RunnerAwake DEF Self
<1>3. CASE UNCHANGED vars
  BY <1>1, <1>3 DEF vars
<1>4. CASE AppCall
  <2>1. ASSUME NEW t \in Task, TaskRestart(t) PROVE pc'[IDLE] = User
    <3>1. z.k.state[t] \in Reason /\ pc' = [pc EXCEPT ![t] = User]
      BY <2>1 DEF TaskRestart
    <3> QED  BY <1>1, <3>1
  <2>2. ASSUME NEW q \in Queue, NEW p \in MsgPrio, MqSend(q, p) PROVE pc'[IDLE] = User
    BY <1>1, <1>2, <2>2 DEF MqSend, InUser
  <2>3. ASSUME NEW q \in Queue, NEW p \in MsgPrio, MqTimedSend(q, p) PROVE pc'[IDLE] = User
    BY <1>1, <1>2, <2>3 DEF MqTimedSend, InUser
  <2>4. ASSUME NEW q \in Queue, NEW timed \in BOOLEAN, MqReceive(q, timed) PROVE pc'[IDLE] = User
    BY <1>1, <1>2, <2>4 DEF MqReceive, InUser, TakeFirst
  <2> QED  BY <1>4, <2>1, <2>2, <2>3, <2>4 DEF AppCall
<1>5. CASE Step
  <2>1. pc[Self].at # "user"
    BY <1>5 DEF Step, SendAlloc, TimedSendCheck, SendResumed, SendEnqueue, SendWake,
                ReceiveResumed, ReceiveFree, ReceiveWake, At
  <2>2. Self # IDLE
    BY <1>1, <2>1, UserValid
  <2>3. CASE SendAlloc
    BY <1>1, <1>2, <2>2, <2>3 DEF SendAlloc, Return
  <2>4. CASE TimedSendCheck \/ SendResumed
    BY <1>1, <1>2, <2>2, <2>4 DEF TimedSendCheck, SendResumed, Return, Goto
  <2>5. CASE SendEnqueue \/ SendWake
    BY <1>1, <1>2, <2>2, <2>5 DEF SendEnqueue, SendWake, Return
  <2>6. CASE ReceiveResumed
    BY <1>1, <1>2, <2>2, <2>6 DEF ReceiveResumed, Return, TakeFirst
  <2>7. CASE ReceiveFree \/ ReceiveWake
    BY <1>1, <1>2, <2>2, <2>7 DEF ReceiveFree, ReceiveWake, Return
  <2> QED  BY <1>5, <2>3, <2>4, <2>5, <2>6, <2>7 DEF Step
<1>6. CASE Interrupt
  BY <1>1, <1>6 DEF Interrupt, IsrSend, MqTimeout, Signal
<1> QED  BY <1>3, <1>4, <1>5, <1>6 DEF Next

\* What a step must leave true of each task.
CoreKept ==
  /\ MqSound(z') /\ pc' \in [Task -> CallState] /\ \A t \in Task : CallValid(pc'[t])
  /\ Placed' /\ BusyRuns' /\ LockHeld'

\* The running task moves on.
LEMMA MovedCore ==
  ASSUME Core, NEW r \in Task, r = Self, NEW c \in CallState, Moved(r, c)
  PROVE  CoreKept
<1>1. /\ pc \in [Task -> CallState] /\ Sleep(z.k)[r] = "awake" /\ \A t \in Task : CallValid(pc[t])
  BY Runner DEF Core, CallsValid
<1>2. /\ pc' = [pc EXCEPT ![r] = c] /\ CallValid(c) /\ c.at \notin Waits
      /\ MqSound(z') /\ Sleep(z'.k) = Sleep(z.k) /\ z'.msgwaitq = z.msgwaitq
      /\ \A u \in Task \ {r} : z'.errno[u] = z.errno[u] /\ z'.k.lock[u] = z.k.lock[u]
      /\ c.at \in Busy => z'.k.lock[r] > 0 /\ this_task(z'.k) = r
  BY DEF Moved
<1>3. pc'[r] = c /\ \A t \in Task \ {r} : pc'[t] = pc[t]
  BY <1>1, <1>2
<1>4. pc' \in [Task -> CallState] /\ \A t \in Task : CallValid(pc'[t])
  BY <1>1, <1>2, <1>3
<1>5. Placed'
  BY <1>1, <1>2, <1>3 DEF Placed, Core
<1>6. BusyRuns'
  BY <1>2, <1>3 DEF BusyRuns, Core, Self
<1>7. LockHeld'
  BY <1>2, <1>3 DEF LockHeld, Core
<1> QED  BY <1>2, <1>4, <1>5, <1>6, <1>7 DEF CoreKept

\* The running task falls asleep.
LEMMA FellCore ==
  ASSUME Core, NEW r \in Task, r = Self, NEW c \in CallState, NEW q \in Queue, NEW s \in Reason, Fell(r, c, q, s)
  PROVE  CoreKept
<1>1. /\ MqSound(z) /\ pc \in [Task -> CallState] /\ Sleep(z.k)[r] = "awake" /\ \A t \in Task : CallValid(pc[t])
      /\ z.errno \in [Task -> Errno]
  BY Runner DEF Core, CallsValid
<1>2. /\ z.msgwaitq \in [Task -> Queue \union {NULL}] /\ Sleep(z.k) \in SleepMap
  BY <1>1 DEF MqSound, Ledger
<1>3. /\ pc' = [pc EXCEPT ![r] = c] /\ CallValid(c) /\ c.at = PlaceOf(s) /\ c.q = q
      /\ MqSound(z') /\ Sleep(z'.k) = [Sleep(z.k) EXCEPT ![r] = s]
      /\ z'.msgwaitq = [z.msgwaitq EXCEPT ![r] = q] /\ z'.errno = [z.errno EXCEPT ![r] = "OK"]
      /\ z'.k.lock[r] > 0 /\ \A u \in Task \ {r} : z'.k.lock[u] = z.k.lock[u]
  BY DEF Fell
<1>4. /\ pc'[r] = c /\ z'.msgwaitq[r] = q /\ z'.errno[r] = "OK" /\ Sleep(z'.k)[r] = s
      /\ \A t \in Task \ {r} : /\ pc'[t] = pc[t] /\ z'.msgwaitq[t] = z.msgwaitq[t] /\ z'.errno[t] = z.errno[t]
                               /\ Sleep(z'.k)[t] = Sleep(z.k)[t]
  BY <1>1, <1>2, <1>3 DEF SleepMap
<1>5. pc' \in [Task -> CallState] /\ \A t \in Task : CallValid(pc'[t])
  BY <1>1, <1>3, <1>4
<1>6. Placed'
  BY <1>3, <1>4 DEF Placed, Core
<1>7. BusyRuns'
  BY <1>3, <1>4 DEF BusyRuns, Core, Self, PlaceOf, Busy
<1>8. LockHeld'
  BY <1>3, <1>4 DEF LockHeld, Core
<1> QED  BY <1>3, <1>5, <1>6, <1>7, <1>8 DEF CoreKept

\* A task is woken, and the tasks at their waits keep their outcomes.
WokenPlaced(t) ==
  /\ t \in Task /\ Sleep(z.k)[t] \in Reason /\ MqSound(z')
  /\ Sleep(z'.k) = [Sleep(z.k) EXCEPT ![t] = "awake"] /\ z'.msgwaitq = [z.msgwaitq EXCEPT ![t] = NULL]
  /\ \A u \in Task \ {t} : Sleep(z.k)[u] # "awake" => pc'[u] = pc[u] /\ z'.errno[u] = z.errno[u]

\* Nobody else's place changes.
LEMMA WokenStaysPlaced ==
  ASSUME Core, NEW t, WokenPlaced(t)
  PROVE  Placed'
<1>1. MqSound(z)
  BY DEF Core
<1>2. /\ z.msgwaitq \in [Task -> Queue \union {NULL}] /\ Sleep(z.k) \in SleepMap
  BY <1>1 DEF MqSound, Ledger
<1>3. /\ Sleep(z'.k)[t] = "awake"
      /\ \A u \in Task \ {t} : Sleep(z'.k)[u] = Sleep(z.k)[u] /\ z'.msgwaitq[u] = z.msgwaitq[u]
  BY <1>2 DEF WokenPlaced, SleepMap
<1> QED  BY <1>3 DEF WokenPlaced, Placed, Core

\* A call wakes a task and returns.
LEMMA WokeReturnedCore ==
  ASSUME Core, NEW r \in Task, r = Self, NEW t \in Task, NEW q \in Queue, NEW s \in Reason, WokeReturned(r, t, q, s)
  PROVE  CoreKept
<1>1. /\ pc \in [Task -> CallState] /\ Sleep(z.k)[r] = "awake" /\ \A u \in Task : CallValid(pc[u])
      /\ z.errno \in [Task -> Errno] /\ "awake" \notin Reason
  BY Runner DEF Core, CallsValid, Reason, NOTEMPTY, NOTFULL
<1>2. /\ pc' = [pc EXCEPT ![r] = User] /\ WokeUp(z, t, z') /\ z'.errno = [z.errno EXCEPT ![r] = "OK"]
      /\ \A u \in Task \ {r} : z'.k.lock[u] = z.k.lock[u]
  BY DEF WokeReturned
<1>3. pc'[r] = User /\ \A u \in Task \ {r} : pc'[u] = pc[u] /\ z'.errno[u] = z.errno[u]
  BY <1>1, <1>2
<1>4. pc' \in [Task -> CallState] /\ \A u \in Task : CallValid(pc'[u])
  BY <1>1, <1>2, <1>3, UserValid DEF CallValid
<1>5. Placed'
  <2>1. WokenPlaced(t)
    BY <1>1, <1>2, <1>3 DEF WokenPlaced, WokeUp
  <2> QED  BY <2>1, WokenStaysPlaced
<1>6. BusyRuns' /\ LockHeld'
  BY <1>2, <1>3, UserValid DEF BusyRuns, LockHeld, Core, Self, Busy, Waits
<1> QED  BY <1>2, <1>4, <1>5, <1>6 DEF CoreKept, WokeUp

\* An interrupt handler lets a task that holds the lock go on.
LEMMA InterruptCore ==
  ASSUME Core, pc' = pc, z'.k.lock = z.k.lock, KeepsRunning(z.k, z'.k)
  PROVE  BusyRuns' /\ LockHeld'
<1>1. LockHeld'
  BY DEF Core, LockHeld
<1>2. BusyRuns'
  BY DEF Core, BusyRuns, LockHeld, KeepsRunning, Self
<1> QED  BY <1>1, <1>2

\* An interrupt handler sends.
LEMMA IsrSentCore ==
  ASSUME Core, NEW q \in Queue, NEW m \in Message, IsrSent(q, m)
  PROVE  CoreKept
<1>1. /\ pc' = pc /\ MqSound(z') /\ z'.errno = z.errno /\ z'.k.lock = z.k.lock /\ KeepsRunning(z.k, z'.k)
      /\ pc \in [Task -> CallState] /\ \A u \in Task : CallValid(pc[u])
  BY DEF IsrSent, Core, CallsValid
<1>2. BusyRuns' /\ LockHeld'
  BY <1>1, InterruptCore
<1>3. Placed'
  <2>1. CASE Sleep(z'.k) = Sleep(z.k) /\ z'.msgwaitq = z.msgwaitq
    BY <1>1, <2>1 DEF Placed, Core
  <2>2. CASE \E t \in Waiters(z, q, NOTEMPTY) : /\ Sleep(z'.k) = [Sleep(z.k) EXCEPT ![t] = "awake"]
                                                /\ z'.msgwaitq = [z.msgwaitq EXCEPT ![t] = NULL]
    <3>1. PICK t \in Waiters(z, q, NOTEMPTY) : /\ Sleep(z'.k) = [Sleep(z.k) EXCEPT ![t] = "awake"]
                                               /\ z'.msgwaitq = [z.msgwaitq EXCEPT ![t] = NULL]
      BY <2>2
    <3>2. t \in Task /\ Sleep(z.k)[t] \in Reason
      BY DEF Waiters, Sleep, Reason
    <3>3. WokenPlaced(t)
      BY <1>1, <3>1, <3>2 DEF WokenPlaced
    <3> QED  BY <3>3, WokenStaysPlaced
  <2> QED  BY <2>1, <2>2 DEF IsrSent
<1> QED  BY <1>1, <1>2, <1>3 DEF CoreKept

\* A wait is aborted.
LEMMA AbortedCore ==
  ASSUME Core, NEW t \in Task, Aborted(t)
  PROVE  CoreKept
<1>1. /\ pc' = pc /\ WokeUp(z, t, z') /\ z'.k.lock = z.k.lock /\ KeepsRunning(z.k, z'.k)
      /\ \A u \in Task \ {t} : z'.errno[u] = z.errno[u]
      /\ pc \in [Task -> CallState] /\ \A u \in Task : CallValid(pc[u])
  BY DEF Aborted, Core, CallsValid
<1>2. BusyRuns' /\ LockHeld'
  BY <1>1, InterruptCore
<1>3. WokenPlaced(t)
  BY <1>1 DEF WokenPlaced, WokeUp
<1>4. Placed'
  BY <1>3, WokenStaysPlaced
<1> QED  BY <1>1, <1>2, <1>4 DEF CoreKept, WokeUp

\* A waiting task is restarted.
LEMMA RestartedCore ==
  ASSUME Core, NEW t \in Task, RestartedTask(t)
  PROVE  CoreKept
<1>1. /\ pc' = [pc EXCEPT ![t] = User] /\ WokeUp(z, t, z') /\ z'.errno = z.errno /\ pc[Self].at = "user"
      /\ \A u \in Task \ {t} : z'.k.lock[u] = z.k.lock[u]
      /\ pc \in [Task -> CallState] /\ \A u \in Task : CallValid(pc[u])
  BY DEF RestartedTask, Core, CallsValid
<1>2. pc'[t] = User /\ \A u \in Task \ {t} : pc'[u] = pc[u]
  BY <1>1
<1>3. pc' \in [Task -> CallState] /\ \A u \in Task : CallValid(pc'[u])
  BY <1>1, <1>2, UserValid DEF CallValid
<1>4. BusyRuns' /\ LockHeld'
  BY <1>1, <1>2, UserValid DEF BusyRuns, LockHeld, Core, Self, Busy, Waits
<1>5. WokenPlaced(t)
  BY <1>1, <1>2 DEF WokenPlaced, WokeUp
<1>6. Placed'
  BY <1>5, WokenStaysPlaced
<1> QED  BY <1>1, <1>3, <1>4, <1>6 DEF CoreKept, WokeUp

\* Every step keeps Core.
LEMMA CoreStep ==
  ASSUME Core, [Next]_vars
  PROVE  Core'
<1>1. Effect
  BY StepEffect
<1>2. CoreKept
  <2>1. ASSUME NEW r \in Task, NEW c \in CallState, r = Self,
               \/ Handled(r, c)
               \/ \E q \in Queue : Received(r, c, q)
               \/ \E q \in Queue, m \in Message : Sent(r, c, q, m)
        PROVE  CoreKept
    <3>1. Moved(r, c)
      BY <2>1 DEF Handled, Received, Sent
    <3> QED  BY <2>1, <3>1, MovedCore
  <2>2. ASSUME NEW r \in Task, NEW c \in CallState, r = Self, NEW q \in Queue, NEW s \in Reason, Fell(r, c, q, s)
        PROVE  CoreKept
    BY <2>2, FellCore
  <2>3. ASSUME NEW r \in Task, r = Self, NEW t \in Task, NEW q \in Queue, NEW s \in Reason, WokeReturned(r, t, q, s)
        PROVE  CoreKept
    BY <2>3, WokeReturnedCore
  <2>4. ASSUME NEW q \in Queue, NEW m \in Message, IsrSent(q, m) PROVE CoreKept
    BY <2>4, IsrSentCore
  <2>5. ASSUME NEW t \in Task, Aborted(t) \/ RestartedTask(t) PROVE CoreKept
    BY <2>5, AbortedCore, RestartedCore
  <2>6. CASE z' = z /\ pc' = pc
    BY <2>6 DEF CoreKept, Core, CallsValid, Placed, BusyRuns, LockHeld, Self
  <2> QED  BY <1>1, <2>1, <2>2, <2>3, <2>4, <2>5, <2>6 DEF Effect
<1>3. waitdog' \subseteq Task /\ panic' \in BOOLEAN
  BY StepFlags
<1>4. pc'[IDLE] = User
  BY IdleStays
<1> QED  BY <1>2, <1>3, <1>4 DEF CoreKept, Core, CallsValid

\* At boot all tasks are ready, the queues empty and the pools full.
LEMMA InitCore ==
  ASSUME Init
  PROVE  Core /\ z.msgs = [q \in Queue |-> <<>>] /\ z.free["FIXED"] = NumFixed /\ z.free["IRQ"] = NumIrq
<1>1. BootOrder(BootList, BootPrio)
  BY MqueueAssumption DEF BootOrder
<1>2. BootState(BootList) = [t \in Task |-> IF t = BootList[1] THEN "RUNNING" ELSE "READYTORUN"]
  BY MqueueAssumption DEF BootState
<1>3. /\ z.k = Booted(BootList, BootPrio) /\ z.msgs = [q \in Queue |-> <<>>]
      /\ z.nwait = [s \in Reason |-> [q \in Queue |-> 0]] /\ z.msgwaitq = [t \in Task |-> NULL]
      /\ z.errno = [t \in Task |-> "OK"]
      /\ z.free = [y \in {"FIXED", "IRQ"} |-> IF y = "FIXED" THEN NumFixed ELSE NumIrq]
      /\ pc = [t \in Task |-> User] /\ waitdog = {} /\ panic = FALSE
      /\ z = [k |-> z.k, msgs |-> z.msgs, nwait |-> z.nwait, msgwaitq |-> z.msgwaitq,
              errno |-> z.errno, free |-> z.free]
  BY <1>2 DEF Init, Booted
<1>4. Sound(z.k) /\ z.k.state = BootState(BootList)
  BY <1>1, <1>3, BootSound
<1>5. z \in MqState
  <2>1. z.k \in KernelState
    BY <1>4 DEF Sound, Consistent
  <2>2. z.msgs \in MsgLists
    BY <1>3 DEF MsgLists
  <2>3. z.nwait \in [Reason -> [Queue -> Nat]] /\ z.msgwaitq \in [Task -> Queue \union {NULL}]
    BY <1>3
  <2>4. z.errno \in [Task -> Errno]
    BY <1>3 DEF Errno
  <2>5. z.free \in PoolMap
    BY <1>3, MqueueAssumption DEF PoolMap
  <2> QED  BY <1>3, <2>1, <2>2, <2>3, <2>4, <2>5 DEF MqState
<1>6. \A t \in Task : Sleep(z.k)[t] = "awake"
  BY <1>2, <1>4 DEF Sleep, Reason, NOTEMPTY, NOTFULL
<1>7. Ledger(z.nwait, z.msgwaitq, Sleep(z.k))
  <2>1. Sleep(z.k) \in SleepMap
    BY DEF Sleep, SleepMap
  <2>2. \A s \in Reason, q \in Queue : Sleepers(Sleep(z.k), z.msgwaitq, q, s) = {}
    BY <1>6 DEF Sleepers, Reason, NOTEMPTY, NOTFULL
  <2>3. Cardinality({}) = 0
    BY FS_EmptySet
  <2>4. \A s \in Reason, q \in Queue : z.nwait[s][q] = 0
    BY <1>3
  <2>5. z.nwait \in [Reason -> [Queue -> Nat]] /\ z.msgwaitq \in [Task -> Queue \union {NULL}]
    BY <1>3
  <2> QED  BY <1>3, <1>6, <2>1, <2>2, <2>3, <2>4, <2>5 DEF Ledger
<1>8. CallsValid
  BY <1>3, UserValid, KernelAssumption DEF CallsValid, CallValid
<1>9. Placed
  BY <1>6 DEF Placed
<1>10. BusyRuns /\ LockHeld
  BY <1>3, UserValid DEF BusyRuns, LockHeld, Busy, Waits
<1>11. Core
  BY <1>3, <1>4, <1>5, <1>7, <1>8, <1>9, <1>10 DEF Core, MqSound
<1> QED  BY <1>3, <1>11

\* Core is an invariant.
THEOREM CoreAlways == Spec => []Core
<1>1. Init => Core
  BY InitCore
<1>2. Core /\ [Next]_vars => Core'
  BY CoreStep
<1> QED  BY <1>1, <1>2, PTL DEF Spec

\* The counters nwaitnotempty and nwaitnotfull always count the tasks that wait.
THEOREM CountsAlwaysMatchWaiters == Spec => []CountsMatchWaiters
<1>1. Core => CountsMatchWaiters
  BY CounterTells DEF Core, CountsMatchWaiters
<1> QED  BY <1>1, CoreAlways, PTL

-----------------------------------------------------------------------------
\* Queue q loses its first message, or gets message m.
FirstTaken(q) == z.msgs[q] # <<>> /\ z'.msgs = [z.msgs EXCEPT ![q] = Tail(z.msgs[q])]

\* A removed message.
LEMMA TakenCounts ==
  ASSUME MqSound(z), NEW q \in Queue, FirstTaken(q)
  PROVE  /\ z'.msgs \in MsgLists /\ z.msgs \in MsgLists /\ \A p \in Queue \ {q} : z'.msgs[p] = z.msgs[p]
         /\ z'.msgs[q] = Tail(z.msgs[q]) /\ z.msgs[q][1] \in Message /\ z.msgs[q] \in Seq(Message)
         /\ Len(z'.msgs[q]) = Len(z.msgs[q]) - 1 /\ Len(z.msgs[q]) \in Nat
<1>1. z.msgs \in MsgLists /\ z.msgs[q] \in Seq(Message)
  BY MqFields DEF MqSound, MsgLists
<1>2. Tail(z.msgs[q]) \in Seq(Message) /\ z.msgs[q][1] \in Message /\ Len(Tail(z.msgs[q])) = Len(z.msgs[q]) - 1
      /\ Len(z.msgs[q]) \in Nat
  BY <1>1, TailAt DEF FirstTaken
<1> QED  BY <1>1, <1>2 DEF FirstTaken, MsgLists

\* An inserted message.
LEMMA PutCounts ==
  ASSUME MqSound(z), NEW q \in Queue, NEW m \in Message, InsertedMsg(q, m)
  PROVE  /\ z'.msgs \in MsgLists /\ z.msgs \in MsgLists /\ \A p \in Queue \ {q} : z'.msgs[p] = z.msgs[p]
         /\ z'.msgs[q] = InsertAtPos(z.msgs[q], MsgPos(z.msgs[q], m.prio), m) /\ z.msgs[q] \in Seq(Message)
         /\ Len(z'.msgs[q]) = Len(z.msgs[q]) + 1 /\ Len(z.msgs[q]) \in Nat
         /\ MsgPos(z.msgs[q], m.prio) \in 1..(Len(z.msgs[q]) + 1)
<1>1. z.msgs \in MsgLists /\ z.msgs[q] \in Seq(Message) /\ m.prio \in Nat
  <2>1. z.msgs \in MsgLists /\ z.msgs[q] \in Seq(Message)
    BY MqFields DEF MqSound, MsgLists
  <2>2. m.prio \in Nat
    BY MqueueAssumption DEF Message
  <2> QED  BY <2>1, <2>2
<1>2. MsgPos(z.msgs[q], m.prio) \in 1..(Len(z.msgs[q]) + 1) /\ Len(z.msgs[q]) \in Nat
  BY <1>1, MsgPosFound, LenProperties
<1> DEFINE l == InsertAtPos(z.msgs[q], MsgPos(z.msgs[q], m.prio), m)
<1>3. l \in Seq(Message) /\ Len(l) = Len(z.msgs[q]) + 1
  BY <1>1, <1>2, InsertedAt
<1>4. z'.msgs = [z.msgs EXCEPT ![q] = l]
  BY DEF InsertedMsg
<1> HIDE DEF l
<1> QED  BY <1>1, <1>2, <1>3, <1>4 DEF MsgLists, l

\* What a step does to the queues.
LEMMA QueuesChange ==
  ASSUME Effect
  PROVE  \/ z'.msgs = z.msgs
         \/ \E q \in Queue : FirstTaken(q)
         \/ \E q \in Queue, m \in Message : InsertedMsg(q, m)
<1>1. ASSUME NEW r \in Task, NEW c \in CallState, Handled(r, c) PROVE z'.msgs = z.msgs
  BY <1>1 DEF Handled
<1>2. ASSUME NEW r \in Task, NEW c \in CallState, NEW q \in Queue, Received(r, c, q) PROVE FirstTaken(q)
  BY <1>2 DEF Received, FirstTaken
<1>3. ASSUME NEW r \in Task, NEW c \in CallState, NEW q \in Queue, NEW m \in Message, Sent(r, c, q, m)
      PROVE  InsertedMsg(q, m)
  BY <1>3 DEF Sent
<1>4. ASSUME NEW r \in Task, NEW c \in CallState, NEW q \in Queue, NEW s \in Reason, Fell(r, c, q, s)
      PROVE  z'.msgs = z.msgs
  BY <1>4 DEF Fell, SameMessages
<1>5. ASSUME NEW r \in Task, NEW t \in Task, NEW q \in Queue, NEW s \in Reason, WokeReturned(r, t, q, s)
      PROVE  z'.msgs = z.msgs
  BY <1>5 DEF WokeReturned, WokeUp, SameMessages
<1>6. ASSUME NEW q \in Queue, NEW m \in Message, IsrSent(q, m) PROVE InsertedMsg(q, m)
  BY <1>6 DEF IsrSent
<1>7. ASSUME NEW t \in Task, Aborted(t) \/ RestartedTask(t) PROVE z'.msgs = z.msgs
  BY <1>7 DEF Aborted, RestartedTask, WokeUp, SameMessages
<1> QED  BY <1>1, <1>2, <1>3, <1>4, <1>5, <1>6, <1>7 DEF Effect

\* The messages of every queue are in the order of their priorities.
MsgsSorted == \A q \in Queue : InOrder(z.msgs[q])

\* They stay so.
LEMMA SortedStep ==
  ASSUME Core, MsgsSorted, [Next]_vars
  PROVE  MsgsSorted'
<1>1. MqSound(z)
  BY DEF Core
<1>2. CASE z'.msgs = z.msgs
  BY <1>2 DEF MsgsSorted
<1>3. ASSUME NEW q \in Queue, FirstTaken(q) PROVE MsgsSorted'
  <2>1. InOrder(z'.msgs[q])
    BY <1>1, <1>3, TakenCounts, OrderKept DEF MsgsSorted, FirstTaken
  <2>2. \A p \in Queue \ {q} : z'.msgs[p] = z.msgs[p]
    BY <1>1, <1>3, TakenCounts
  <2> QED  BY <2>1, <2>2 DEF MsgsSorted
<1>4. ASSUME NEW q \in Queue, NEW m \in Message, InsertedMsg(q, m) PROVE MsgsSorted'
  <2>1. InOrder(z'.msgs[q])
    BY <1>1, <1>4, PutCounts, OrderKept DEF MsgsSorted
  <2>2. \A p \in Queue \ {q} : z'.msgs[p] = z.msgs[p]
    BY <1>1, <1>4, PutCounts
  <2> QED  BY <2>1, <2>2 DEF MsgsSorted
<1>5. Effect
  BY StepEffect
<1> QED  BY <1>2, <1>3, <1>4, <1>5, QueuesChange

\* A receiver always takes a message of the highest priority in the queue.
THEOREM ReceiveAlwaysTakesMostUrgent == Spec => ReceiveTakesMostUrgent
<1>1. Init => MsgsSorted
  BY InitCore DEF MsgsSorted, InOrder
<1>2. Core /\ MsgsSorted /\ [Next]_vars => MsgsSorted'
  BY SortedStep
<1>3. ASSUME Core, MsgsSorted, NEW q \in Queue, Len(z'.msgs[q]) < Len(z.msgs[q]),
             NEW i \in 1..Len(z.msgs[q])
      PROVE  z.msgs[q][i].prio <= z.msgs[q][1].prio
  <2>1. z.msgs[q] \in Seq(Message)
    BY <1>3, MqFields DEF Core, MqSound, MsgLists
  <2>2. Len(z.msgs[q]) \in Nat /\ 1 \in 1..Len(z.msgs[q]) /\ z.msgs[q][1].prio \in Nat
    <3>1. Len(z.msgs[q]) \in Nat /\ 1 \in 1..Len(z.msgs[q])
      BY <2>1, LenProperties
    <3>2. z.msgs[q][1] \in Message
      BY <2>1, <3>1, ElementOfSeq
    <3> QED  BY <3>1, <3>2, MqueueAssumption DEF Message
  <2>3. CASE i = 1
    BY <2>2, <2>3
  <2>4. CASE i # 1
    <3>1. 1 < i
      BY <2>2, <2>4
    <3> QED  BY <1>3, <2>2, <3>1 DEF MsgsSorted, InOrder
  <2> QED  BY <2>3, <2>4
<1>4. Core /\ MsgsSorted => [\A q \in Queue :
         Len(z'.msgs[q]) < Len(z.msgs[q]) =>
           \A i \in 1..Len(z.msgs[q]) : z.msgs[q][i].prio <= z.msgs[q][1].prio]_vars
  BY <1>3
<1> QED  BY <1>1, <1>2, <1>4, CoreAlways, PTL DEF Spec, ReceiveTakesMostUrgent

-----------------------------------------------------------------------------
\* The messages of tasks in a list, and the ones a call is about to add.
TaskMsgs(l) == Cardinality(Hits(l, FromTask))
Adding == {"alloc", "dosend"}

\* A task that has passed its test for room finds room: no other task gets
\* to the queue before it has returned.
RoomLeft == \A t \in Task : pc[t].at \in Adding => TaskMsgs(z.msgs[pc[t].q]) < MaxMsgs
Limited == \A q \in Queue : TaskMsgs(z.msgs[q]) <= MaxMsgs

\* A list does not hold more messages of tasks than messages.
LEMMA TaskMsgsFewer ==
  ASSUME NEW l \in Seq(Message)
  PROVE  TaskMsgs(l) \in Nat /\ TaskMsgs(l) <= Len(l) /\ Len(l) \in Nat
<1>1. Len(l) \in Nat
  BY LenProperties
<1>2. IsFiniteSet(1..Len(l)) /\ Cardinality(1..Len(l)) = Len(l) /\ Hits(l, FromTask) \in SUBSET (1..Len(l))
  BY <1>1, FS_Interval DEF Hits
<1>3. Cardinality(Hits(l, FromTask)) <= Cardinality(1..Len(l))
  BY <1>2, FS_Subset
<1> QED  BY <1>1, <1>2, <1>3, HitsFinite DEF TaskMsgs

\* The messages of tasks after a step: one more only when a task has sent.
LEMMA TaskMsgsChange ==
  ASSUME MqSound(z), NEW q \in Queue, NEW p \in Queue
  PROVE  /\ FirstTaken(q) => TaskMsgs(z'.msgs[p]) <= TaskMsgs(z.msgs[p])
         /\ \A m \in Message : InsertedMsg(q, m) =>
              TaskMsgs(z'.msgs[p]) = TaskMsgs(z.msgs[p]) + One(m.task /\ p = q)
<1>1. z.msgs[p] \in Seq(Message)
  BY MqFields DEF MqSound, MsgLists
<1>2. TaskMsgs(z.msgs[p]) \in Nat
  BY <1>1, TaskMsgsFewer
<1>3. ASSUME FirstTaken(q) PROVE TaskMsgs(z'.msgs[p]) <= TaskMsgs(z.msgs[p])
  <2>1. CASE p = q
    <3>1. z'.msgs[q] = Tail(z.msgs[q]) /\ z.msgs[q] \in Seq(Message) /\ z.msgs[q] # <<>>
      BY <1>3, TakenCounts DEF FirstTaken
    <3>2. Cardinality(Hits(Tail(z.msgs[q]), FromTask)) =
             IF z.msgs[q][1] \in FromTask THEN Cardinality(Hits(z.msgs[q], FromTask)) - 1
             ELSE Cardinality(Hits(z.msgs[q], FromTask))
      BY <3>1, HitsTail
    <3> QED  BY <1>2, <2>1, <3>1, <3>2 DEF TaskMsgs
  <2>2. CASE p # q
    <3>1. z'.msgs[p] = z.msgs[p]
      BY <1>3, <2>2, TakenCounts
    <3> QED  BY <1>2, <3>1
  <2> QED  BY <2>1, <2>2
<1>4. ASSUME NEW m \in Message, InsertedMsg(q, m)
      PROVE  TaskMsgs(z'.msgs[p]) = TaskMsgs(z.msgs[p]) + One(m.task /\ p = q)
  <2>1. CASE p = q
    <3> DEFINE i == MsgPos(z.msgs[q], m.prio)
    <3>1. z'.msgs[q] = InsertAtPos(z.msgs[q], i, m) /\ z.msgs[q] \in Seq(Message) /\ i \in 1..(Len(z.msgs[q]) + 1)
      BY <1>4, PutCounts
    <3> HIDE DEF i
    <3>2. Cardinality(Hits(InsertAtPos(z.msgs[q], i, m), FromTask)) =
             IF m \in FromTask THEN Cardinality(Hits(z.msgs[q], FromTask)) + 1
             ELSE Cardinality(Hits(z.msgs[q], FromTask))
      BY <3>1, HitsInserted
    <3>3. m \in FromTask <=> m.task
      BY DEF FromTask
    <3> QED  BY <1>2, <2>1, <3>1, <3>2, <3>3 DEF TaskMsgs, One
  <2>2. CASE p # q
    <3>1. z'.msgs[p] = z.msgs[p]
      BY <1>4, <2>2, PutCounts
    <3> QED  BY <1>2, <2>2, <3>1 DEF One
  <2> QED  BY <2>1, <2>2
<1> QED  BY <1>3, <1>4

\* A call that is about to add a message is the running one.
LEMMA OnlyRunnerAdds ==
  ASSUME Core, NEW t \in Task, pc[t].at \in Adding
  PROVE  t = Self /\ pc[t].q \in Queue
<1>1. t = Self
  BY DEF Core, BusyRuns, Busy, Adding
<1>2. pc[t].q \in Queue
  BY DEF Core, CallsValid, CallValid, Adding
<1> QED  BY <1>1, <1>2

\* Nobody is about to add a message.
LEMMA NobodyAdds ==
  ASSUME Core, NEW r \in Task, r = Self, NEW c, pc' = [pc EXCEPT ![r] = c], c.at \notin Adding
  PROVE  RoomLeft'
<1>1. pc \in [Task -> CallState]
  BY DEF Core, CallsValid
<1>2. \A t \in Task : pc'[t].at \notin Adding
  BY <1>1, OnlyRunnerAdds
<1> QED  BY <1>2 DEF RoomLeft

\* The queues shrink and no call comes nearer to adding a message.
LEMMA RoomKept ==
  ASSUME Core, RoomLeft, \A t \in Task : pc'[t] = pc[t] \/ pc'[t].at \notin Adding,
         \A p \in Queue : TaskMsgs(z'.msgs[p]) <= TaskMsgs(z.msgs[p]) /\ TaskMsgs(z'.msgs[p]) \in Nat
                          /\ TaskMsgs(z.msgs[p]) \in Nat
  PROVE  RoomLeft'
<1> SUFFICES ASSUME NEW t \in Task, pc'[t].at \in Adding
             PROVE  TaskMsgs(z'.msgs[pc'[t].q]) < MaxMsgs
  BY DEF RoomLeft
<1>1. pc'[t] = pc[t] /\ pc[t].at \in Adding /\ pc[t].q \in Queue
  BY OnlyRunnerAdds
<1>2. TaskMsgs(z.msgs[pc[t].q]) < MaxMsgs
  BY <1>1 DEF RoomLeft
<1> QED  BY <1>1, <1>2, MqueueAssumption

\* The counts are numbers, before and after a step.
LEMMA CountsAreNumbers ==
  ASSUME MqSound(z), MqSound(z'), NEW p \in Queue
  PROVE  /\ TaskMsgs(z.msgs[p]) \in Nat /\ TaskMsgs(z'.msgs[p]) \in Nat
         /\ TaskMsgs(z.msgs[p]) <= Len(z.msgs[p]) /\ Len(z.msgs[p]) \in Nat
<1>1. z.msgs[p] \in Seq(Message) /\ z'.msgs[p] \in Seq(Message)
  BY MqFields DEF MqSound, MsgLists
<1> QED  BY <1>1, TaskMsgsFewer

\* The limit and the room for the running call are kept.
LEMMA RoomStep ==
  ASSUME Core, RoomLeft, Limited, [Next]_vars
  PROVE  RoomLeft' /\ Limited'
<1>1. /\ MqSound(z) /\ MqSound(z') /\ pc \in [Task -> CallState] /\ MaxMsgs \in Nat
  BY CoreStep, MqueueAssumption DEF Core, CallsValid
<1>2. \A p \in Queue : /\ TaskMsgs(z.msgs[p]) \in Nat /\ TaskMsgs(z'.msgs[p]) \in Nat
                       /\ TaskMsgs(z.msgs[p]) <= Len(z.msgs[p]) /\ Len(z.msgs[p]) \in Nat
  BY <1>1, CountsAreNumbers
<1>3. ASSUME \A p \in Queue : TaskMsgs(z'.msgs[p]) <= TaskMsgs(z.msgs[p]) PROVE Limited'
  BY <1>1, <1>2, <1>3 DEF Limited
<1>4. ASSUME NEW r \in Task, r = Self, NEW c \in CallState, Handled(r, c) PROVE RoomLeft' /\ Limited'
  <2>1. pc' = [pc EXCEPT ![r] = c] /\ z'.msgs = z.msgs /\ CallValid(c)
    BY <1>4 DEF Handled, Moved
  <2>2. Limited'
    BY <1>2, <1>3, <2>1
  <2>3. CASE c.at \notin Adding
    BY <1>4, <2>1, <2>2, <2>3, NobodyAdds
  <2>4. CASE c.at \in Adding
    <3>1. c.q \in Queue /\ (~Full(z, c.q) \/ (pc[r].at = "alloc" /\ pc[r].q = c.q))
      BY <1>4, <2>1, <2>4 DEF Handled, Adding, CallValid
    <3>2. TaskMsgs(z.msgs[c.q]) < MaxMsgs
      <4>1. CASE ~Full(z, c.q)
        BY <1>1, <1>2, <3>1, <4>1 DEF Full
      <4>2. CASE pc[r].at = "alloc" /\ pc[r].q = c.q
        BY <4>2 DEF RoomLeft, Adding
      <4> QED  BY <3>1, <4>1, <4>2
    <3>3. \A t \in Task : pc'[t].at \in Adding => pc'[t] = c
      BY <1>1, <1>4, <2>1, OnlyRunnerAdds
    <3>4. RoomLeft'
      BY <2>1, <3>2, <3>3 DEF RoomLeft
    <3> QED  BY <2>2, <3>4
  <2> QED  BY <2>3, <2>4
<1>5. ASSUME NEW r \in Task, r = Self, NEW c \in CallState, NEW q \in Queue, Received(r, c, q)
      PROVE  RoomLeft' /\ Limited'
  <2>1. pc' = [pc EXCEPT ![r] = c] /\ c.at \notin Adding /\ FirstTaken(q)
    BY <1>5 DEF Received, Moved, Adding, FirstTaken
  <2>2. Limited'
    BY <1>1, <1>3, <2>1, TaskMsgsChange
  <2> QED  BY <1>5, <2>1, <2>2, NobodyAdds
<1>6. ASSUME NEW r \in Task, r = Self, NEW c \in CallState, NEW q \in Queue, NEW m \in Message, Sent(r, c, q, m)
      PROVE  RoomLeft' /\ Limited'
  <2>1. /\ pc' = [pc EXCEPT ![r] = c] /\ c.at \notin Adding /\ InsertedMsg(q, m)
        /\ pc[r].at \in Adding /\ pc[r].q = q
    BY <1>6 DEF Sent, Moved, Adding
  <2>2. TaskMsgs(z.msgs[q]) < MaxMsgs
    BY <2>1 DEF RoomLeft
  <2>3. ASSUME NEW p \in Queue PROVE TaskMsgs(z'.msgs[p]) <= MaxMsgs
    <3>1. TaskMsgs(z'.msgs[p]) = TaskMsgs(z.msgs[p]) + One(m.task /\ p = q)
      BY <1>1, <2>1, TaskMsgsChange
    <3>2. TaskMsgs(z.msgs[p]) <= MaxMsgs
      BY DEF Limited
    <3> QED  BY <1>1, <1>2, <2>2, <3>1, <3>2 DEF One
  <2>4. Limited'
    BY <2>3 DEF Limited
  <2> QED  BY <1>6, <2>1, <2>4, NobodyAdds
<1>7. ASSUME NEW r \in Task, r = Self, NEW c \in CallState, NEW q \in Queue, NEW s \in Reason, Fell(r, c, q, s)
      PROVE  RoomLeft' /\ Limited'
  <2>1. pc' = [pc EXCEPT ![r] = c] /\ c.at \notin Adding /\ z'.msgs = z.msgs
    BY <1>7 DEF Fell, Adding, PlaceOf, SameMessages
  <2>2. Limited'
    BY <1>2, <1>3, <2>1
  <2> QED  BY <1>7, <2>1, <2>2, NobodyAdds
<1>8. ASSUME NEW r \in Task, r = Self, NEW t \in Task, NEW q \in Queue, NEW s \in Reason, WokeReturned(r, t, q, s)
      PROVE  RoomLeft' /\ Limited'
  <2>1. pc' = [pc EXCEPT ![r] = User] /\ User.at \notin Adding /\ z'.msgs = z.msgs
    BY <1>8, UserValid DEF WokeReturned, WokeUp, Adding, SameMessages
  <2>2. Limited'
    BY <1>2, <1>3, <2>1
  <2> QED  BY <1>8, <2>1, <2>2, NobodyAdds
<1>9. ASSUME NEW q \in Queue, NEW m \in Message, IsrSent(q, m) PROVE RoomLeft' /\ Limited'
  <2>1. pc' = pc /\ InsertedMsg(q, m) /\ ~m.task
    BY <1>9 DEF IsrSent
  <2>2. \A p \in Queue : TaskMsgs(z'.msgs[p]) <= TaskMsgs(z.msgs[p])
    <3> SUFFICES ASSUME NEW p \in Queue PROVE TaskMsgs(z'.msgs[p]) <= TaskMsgs(z.msgs[p])
      OBVIOUS
    <3>1. TaskMsgs(z'.msgs[p]) = TaskMsgs(z.msgs[p]) + One(m.task /\ p = q)
      BY <1>1, <2>1, TaskMsgsChange
    <3> QED  BY <1>2, <2>1, <3>1 DEF One
  <2> QED  BY <1>2, <1>3, <2>1, <2>2, RoomKept
<1>10. ASSUME NEW t \in Task, Aborted(t) \/ RestartedTask(t) PROVE RoomLeft' /\ Limited'
  <2>1. z'.msgs = z.msgs /\ (pc' = pc \/ pc' = [pc EXCEPT ![t] = User])
    BY <1>10 DEF Aborted, RestartedTask, WokeUp, SameMessages
  <2>2. \A u \in Task : pc'[u] = pc[u] \/ pc'[u].at \notin Adding
    BY <1>1, <2>1, UserValid DEF Adding
  <2> QED  BY <1>2, <1>3, <2>1, <2>2, RoomKept
<1>11. CASE z' = z /\ pc' = pc
  BY <1>11 DEF RoomLeft, Limited
<1>12. Effect
  BY StepEffect
<1> QED  BY <1>4, <1>5, <1>6, <1>7, <1>8, <1>9, <1>10, <1>11, <1>12 DEF Effect

\* Tasks never put more than maxmsgs messages into a queue.
THEOREM TasksAlwaysRespectMaxMsgs == Spec => []TasksRespectMaxMsgs
<1>1. Init => RoomLeft /\ Limited
  <2> SUFFICES ASSUME Init PROVE RoomLeft /\ Limited
    OBVIOUS
  <2>1. z.msgs = [q \in Queue |-> <<>>] /\ pc = [t \in Task |-> User]
    BY InitCore DEF Init
  <2>2. RoomLeft
    BY <2>1, UserValid DEF RoomLeft, Adding
  <2>3. \A q \in Queue : TaskMsgs(z.msgs[q]) = 0
    <3>1. Hits(<<>>, FromTask) = {}
      BY DEF Hits
    <3>2. TaskMsgs(<<>>) = 0
      BY <3>1, FS_EmptySet DEF TaskMsgs
    <3> QED  BY <2>1, <3>2
  <2> QED  BY <2>2, <2>3, MqueueAssumption DEF Limited
<1>2. Core /\ RoomLeft /\ Limited /\ [Next]_vars => RoomLeft' /\ Limited'
  BY RoomStep
<1>3. Core /\ Limited => TasksRespectMaxMsgs
  <2> SUFFICES ASSUME Core, Limited, NEW q \in Queue
               PROVE  Cardinality({i \in 1..Len(z.msgs[q]) : z.msgs[q][i].task}) <= MaxMsgs
    BY DEF TasksRespectMaxMsgs
  <2>1. z.msgs \in MsgLists
    BY MqFields DEF Core, MqSound
  <2>2. {i \in 1..Len(z.msgs[q]) : z.msgs[q][i].task} = Hits(z.msgs[q], FromTask)
    BY <2>1, HitsOf
  <2> QED  BY <2>2 DEF Limited, TaskMsgs
<1> QED  BY <1>1, <1>2, <1>3, CoreAlways, PTL DEF Spec

-----------------------------------------------------------------------------
\* A message leaves the stock.
LEMMA StockTaken ==
  ASSUME MqSound(z), NEW q \in Queue, FirstTaken(q), NEW y
  PROVE  /\ Cardinality(Stock(z'.msgs, y)) + One(z.msgs[q][1].type = y) = Cardinality(Stock(z.msgs, y))
         /\ Cardinality(Stock(z'.msgs, y)) \in Nat
<1> DEFINE l == Tail(z.msgs[q])
           M == z.msgs
           N == z'.msgs
           H == Cardinality(Hits(M[q], OfType(y)))
           G == Cardinality(Hits(N[q], OfType(y)))
           E == Cardinality(Elsewhere(M, y, q))
<1>1. /\ N \in MsgLists /\ M \in MsgLists /\ N[q] = l /\ M[q][1] \in Message /\ M[q] \in Seq(Message)
      /\ M[q] # <<>> /\ \A p \in Queue \ {q} : N[p] = M[p]
  BY TakenCounts DEF FirstTaken
<1>3. Elsewhere(N, y, q) = Elsewhere(M, y, q)
  BY <1>1, ElsewhereSame
<1>4. Cardinality(Stock(M, y)) = E + H /\ E \in Nat /\ H \in Nat
  BY <1>1, StockSplit
<1>5. Cardinality(Stock(N, y)) = E + G /\ G \in Nat
  BY <1>1, <1>3, StockSplit
<1>6. G = IF M[q][1] \in OfType(y) THEN H - 1 ELSE H
  BY <1>1, HitsTail
<1>7. M[q][1] \in OfType(y) <=> M[q][1].type = y
  BY <1>1 DEF OfType
<1> HIDE DEF l, H, G, E, N
<1>8. Cardinality(Stock(N, y)) + One(M[q][1].type = y) = Cardinality(Stock(M, y)) /\ Cardinality(Stock(N, y)) \in Nat
  BY <1>4, <1>5, <1>6, <1>7 DEF One
<1> QED  BY <1>8 DEF N

\* A message enters the stock.
LEMMA StockPut ==
  ASSUME MqSound(z), NEW q \in Queue, NEW m \in Message, InsertedMsg(q, m), NEW y
  PROVE  /\ Cardinality(Stock(z'.msgs, y)) = Cardinality(Stock(z.msgs, y)) + One(m.type = y)
         /\ Cardinality(Stock(z'.msgs, y)) \in Nat
<1> DEFINE i == MsgPos(z.msgs[q], m.prio)
           l == InsertAtPos(z.msgs[q], i, m)
           M == z.msgs
           N == z'.msgs
           H == Cardinality(Hits(M[q], OfType(y)))
           G == Cardinality(Hits(N[q], OfType(y)))
           E == Cardinality(Elsewhere(M, y, q))
<1>1. /\ N \in MsgLists /\ M \in MsgLists /\ N[q] = l /\ M[q] \in Seq(Message)
      /\ i \in 1..(Len(M[q]) + 1) /\ \A p \in Queue \ {q} : N[p] = M[p]
  BY PutCounts
<1> HIDE DEF i, N
<1>3. Elsewhere(N, y, q) = Elsewhere(M, y, q)
  BY <1>1, ElsewhereSame
<1>4. Cardinality(Stock(M, y)) = E + H /\ E \in Nat /\ H \in Nat
  BY <1>1, StockSplit
<1>5. Cardinality(Stock(N, y)) = E + G /\ G \in Nat
  BY <1>1, <1>3, StockSplit
<1>6. G = IF m \in OfType(y) THEN H + 1 ELSE H
  BY <1>1, HitsInserted
<1>7. m \in OfType(y) <=> m.type = y
  BY DEF OfType
<1> HIDE DEF l, H, G, E, N
<1>8. Cardinality(Stock(N, y)) = Cardinality(Stock(M, y)) + One(m.type = y) /\ Cardinality(Stock(N, y)) \in Nat
  BY <1>4, <1>5, <1>6, <1>7 DEF One
<1> QED  BY <1>8 DEF N

\* The tasks whose calls hold a message of type y.
Holders(p, y) == {t \in Task : p[t].held = y}

\* One call changes what it holds.
LEMMA HoldersChange ==
  ASSUME NEW p, NEW r \in Task, NEW g, \A t \in Task \ {r} : g[t] = p[t], NEW y
  PROVE  /\ Cardinality(Holders(g, y)) + One(p[r].held = y) = Cardinality(Holders(p, y)) + One(g[r].held = y)
         /\ Cardinality(Holders(g, y)) \in Nat /\ Cardinality(Holders(p, y)) \in Nat
<1> DEFINE H == Holders(p, y)
           G == Holders(g, y)
           R == H \ {r}
<1>1. G \in SUBSET Task /\ H \in SUBSET Task /\ R \in SUBSET Task /\ r \in Task \ R
  BY DEF Holders
<1>2. G = (IF g[r].held = y THEN R \union {r} ELSE R) /\ (r \in H <=> p[r].held = y)
  BY DEF Holders
<1> HIDE DEF G, H
<1>3. Cardinality(R \union {r}) = Cardinality(R) + 1
  BY <1>1, OneMore
<1>4. H = IF p[r].held = y THEN R \union {r} ELSE R
  BY <1>2
<1>5. Cardinality(R) \in Nat /\ Cardinality(H) \in Nat /\ Cardinality(G) \in Nat
  BY <1>1, TasksFinite
<1> HIDE DEF R
<1>6. Cardinality(G) = Cardinality(R) + One(g[r].held = y)
  BY <1>2, <1>3, <1>5 DEF One
<1>7. Cardinality(H) = Cardinality(R) + One(p[r].held = y)
  BY <1>3, <1>4, <1>5 DEF One
<1>8. One(g[r].held = y) \in Nat /\ One(p[r].held = y) \in Nat
  BY DEF One
<1> QED  BY <1>5, <1>6, <1>7, <1>8 DEF G, H

\* The free messages of type y, those held and those queued.
PoolCount(f, p, M, y) == f[y] + Cardinality(Holders(p, y)) + Cardinality(Stock(M, y))

\* A step neither loses nor doubles a message.
LEMMA ConservedStep ==
  ASSUME Core, [Next]_vars, NEW y \in {"FIXED", "IRQ"}
  PROVE  PoolCount(z'.free, pc', z'.msgs, y) = PoolCount(z.free, pc, z.msgs, y)
<1> DEFINE F == z.free[y]
           H == Cardinality(Holders(pc, y))
           S == Cardinality(Stock(z.msgs, y))
           f == z'.free[y]
           h == Cardinality(Holders(pc', y))
           s == Cardinality(Stock(z'.msgs, y))
<1>1. /\ MqSound(z) /\ MqSound(z') /\ pc \in [Task -> CallState]
      /\ z.free \in PoolMap /\ z'.free \in PoolMap /\ z.msgs \in MsgLists
      /\ \A t \in Task : CallValid(pc[t])
  BY CoreStep, MqFields DEF Core, CallsValid, MqSound
<1>2. F \in Nat /\ f \in Nat /\ S \in Nat /\ H \in Nat
  <2>1. F \in Nat /\ f \in Nat
    BY <1>1 DEF PoolMap
  <2>2. S \in Nat
    BY <1>1, StockFinite
  <2>3. Holders(pc, y) \in SUBSET Task
    BY DEF Holders
  <2> QED  BY <2>1, <2>2, <2>3, TasksFinite
<1>3. ASSUME NEW r \in Task, NEW c \in CallState, pc' = [pc EXCEPT ![r] = c]
      PROVE  h + One(pc[r].held = y) = H + One(c.held = y) /\ h \in Nat
  <2>1. pc'[r] = c /\ \A t \in Task \ {r} : pc'[t] = pc[t]
    BY <1>1, <1>3
  <2> QED  BY <2>1, HoldersChange
<1>4. NULL # y /\ One(NULL = y) = 0
  BY MqueueAssumption DEF One
<1>5. \A b : One(b) \in Nat
  BY DEF One
<1> HIDE DEF F, H, S, f, h, s
<1>6. ASSUME NEW r \in Task, NEW c \in CallState, Handled(r, c) PROVE f + h + s = F + H + S
  <2>1. pc' = [pc EXCEPT ![r] = c] /\ z'.msgs = z.msgs /\ Balance(z.free, z'.free, pc[r].held, c.held)
    BY <1>6 DEF Handled, Moved
  <2>2. f + One(c.held = y) = F + One(pc[r].held = y)
    BY <2>1 DEF Balance, f, F
  <2>3. h + One(pc[r].held = y) = H + One(c.held = y) /\ h \in Nat
    BY <1>3, <2>1
  <2>4. s = S
    BY <2>1 DEF s, S
  <2> QED  BY <1>2, <1>5, <2>2, <2>3, <2>4
<1>7. ASSUME NEW r \in Task, NEW c \in CallState, NEW q \in Queue, Received(r, c, q) PROVE f + h + s = F + H + S
  <2>1. /\ pc' = [pc EXCEPT ![r] = c] /\ FirstTaken(q) /\ z'.free = z.free
        /\ pc[r].held = NULL /\ c.held = z.msgs[q][1].type
    BY <1>7 DEF Received, Moved, FirstTaken
  <2>2. h + One(pc[r].held = y) = H + One(c.held = y) /\ h \in Nat
    BY <1>3, <2>1
  <2>3. s + One(c.held = y) = S /\ s \in Nat
    BY <1>1, <2>1, StockTaken DEF s, S
  <2>4. f = F /\ One(pc[r].held = y) = 0
    BY <1>4, <2>1 DEF f, F
  <2> QED  BY <1>2, <1>5, <2>2, <2>3, <2>4
<1>8. ASSUME NEW r \in Task, NEW c \in CallState, NEW q \in Queue, NEW m \in Message, Sent(r, c, q, m)
      PROVE  f + h + s = F + H + S
  <2>1. /\ pc' = [pc EXCEPT ![r] = c] /\ InsertedMsg(q, m) /\ z'.free = z.free
        /\ pc[r].held = m.type /\ c.held = NULL
    BY <1>8 DEF Sent, Moved
  <2>2. h + One(pc[r].held = y) = H + One(c.held = y) /\ h \in Nat
    BY <1>3, <2>1
  <2>3. s = S + One(pc[r].held = y) /\ s \in Nat
    BY <1>1, <2>1, StockPut DEF s, S
  <2>4. f = F /\ One(c.held = y) = 0
    BY <1>4, <2>1 DEF f, F
  <2> QED  BY <1>2, <1>5, <2>2, <2>3, <2>4
<1>9. ASSUME NEW r \in Task, NEW c \in CallState, pc' = [pc EXCEPT ![r] = c], c.held = pc[r].held,
             SameMessages(z, z')
      PROVE  f + h + s = F + H + S
  <2>1. h + One(pc[r].held = y) = H + One(pc[r].held = y) /\ h \in Nat
    BY <1>3, <1>9
  <2>2. f = F /\ s = S
    BY <1>9 DEF SameMessages, f, F, s, S
  <2>3. One(pc[r].held = y) \in Nat
    BY <1>5
  <2> QED  BY <1>2, <2>1, <2>2, <2>3
<1>10. ASSUME NEW r \in Task, NEW t \in Task, NEW q \in Queue, NEW w \in Reason, WokeReturned(r, t, q, w)
       PROVE  f + h + s = F + H + S
  <2>1. pc' = [pc EXCEPT ![r] = User] /\ SameMessages(z, z') /\ pc[r].at \in {"wakereceiver", "wakesender"}
    BY <1>10 DEF WokeReturned, WokeUp
  <2>2. pc[r].held = NULL
    BY <1>1, <2>1 DEF CallValid, Holding, CallState
  <2>3. User \in CallState /\ User.held = NULL
    BY UserValid DEF CallValid
  <2> QED  BY <1>9, <2>1, <2>2, <2>3
<1>11. ASSUME NEW q \in Queue, NEW m \in Message, IsrSent(q, m) PROVE f + h + s = F + H + S
  <2>1. pc' = pc /\ InsertedMsg(q, m) /\ Balance(z.free, z'.free, NULL, m.type)
    BY <1>11 DEF IsrSent
  <2>2. f + One(m.type = y) = F + One(NULL = y)
    BY <2>1 DEF Balance, f, F
  <2>3. s = S + One(m.type = y) /\ s \in Nat
    BY <1>1, <2>1, StockPut DEF s, S
  <2>4. h = H
    BY <2>1 DEF h, H
  <2> QED  BY <1>2, <1>4, <1>5, <2>2, <2>3, <2>4
<1>12. ASSUME NEW t \in Task, Aborted(t) \/ RestartedTask(t) PROVE f + h + s = F + H + S
  <2>1. CASE Aborted(t)
    BY <2>1 DEF Aborted, WokeUp, SameMessages, f, F, h, H, s, S
  <2>2. CASE RestartedTask(t)
    <3>1. pc' = [pc EXCEPT ![t] = User] /\ SameMessages(z, z') /\ pc[t].held = NULL
      BY <2>2 DEF RestartedTask, WokeUp
    <3>2. User \in CallState /\ User.held = NULL
      BY UserValid DEF CallValid
    <3> QED  BY <1>9, <3>1, <3>2
  <2> QED  BY <1>12, <2>1, <2>2
<1>13. ASSUME z' = z, pc' = pc PROVE f + h + s = F + H + S
  BY <1>13 DEF f, F, h, H, s, S
<1>14. ASSUME NEW r \in Task, NEW c \in CallState, NEW q \in Queue, NEW w \in Reason, Fell(r, c, q, w)
       PROVE  f + h + s = F + H + S
  <2>1. pc' = [pc EXCEPT ![r] = c] /\ c.held = pc[r].held /\ SameMessages(z, z')
    BY <1>14 DEF Fell
  <2> QED  BY <1>9, <2>1
<1>15. f + h + s = F + H + S
  <2> DEFINE Same == f + h + s = F + H + S
  <2>1. Effect
    BY StepEffect
  <2>2. \A r \in Task, c \in CallState :
          /\ Handled(r, c) => Same
          /\ \A q \in Queue : Received(r, c, q) => Same
          /\ \A q \in Queue, m \in Message : Sent(r, c, q, m) => Same
          /\ \A q \in Queue, w \in Reason : Fell(r, c, q, w) => Same
    BY <1>6, <1>7, <1>8, <1>14
  <2>3. \A r, t \in Task, q \in Queue, w \in Reason : WokeReturned(r, t, q, w) => Same
    BY <1>10
  <2>4. \A q \in Queue, m \in Message : IsrSent(q, m) => Same
    BY <1>11
  <2>5. \A t \in Task : Aborted(t) \/ RestartedTask(t) => Same
    BY <1>12
  <2>6. z' = z /\ pc' = pc => Same
    BY <1>13
  <2> HIDE DEF Same
  <2>7. Same
    BY <2>1, <2>2, <2>3, <2>4, <2>5, <2>6 DEF Effect
  <2> QED  BY <2>7 DEF Same
<1> QED  BY <1>15 DEF PoolCount, f, F, h, H, s, S

\* Every message of the pools is free, held by one call or in one queue.
Conserved ==
  PoolCount(z.free, pc, z.msgs, "FIXED") = NumFixed /\ PoolCount(z.free, pc, z.msgs, "IRQ") = NumIrq

\* At boot all are free.
LEMMA InitConserved ==
  ASSUME Init
  PROVE  Conserved
<1>1. /\ z.msgs = [q \in Queue |-> <<>>] /\ z.free["FIXED"] = NumFixed /\ z.free["IRQ"] = NumIrq
      /\ pc = [t \in Task |-> User]
  BY InitCore DEF Init
<1>2. ASSUME NEW y \in {"FIXED", "IRQ"} PROVE PoolCount(z.free, pc, z.msgs, y) = z.free[y]
  <2>1. Holders(pc, y) = {}
    BY <1>1, UserValid, MqueueAssumption DEF Holders
  <2>2. Stock(z.msgs, y) = {}
    BY <1>1 DEF Stock
  <2>3. Cardinality({}) = 0
    BY FS_EmptySet
  <2>4. z.free[y] \in Nat
    BY <1>1, MqueueAssumption
  <2> QED  BY <2>1, <2>2, <2>3, <2>4 DEF PoolCount
<1> QED  BY <1>1, <1>2 DEF Conserved

\* Conserved is an invariant.
THEOREM ConservedAlways == Spec => []Conserved
<1>1. Init => Conserved
  BY InitConserved
<1>2. Core /\ Conserved /\ [Next]_vars => Conserved'
  BY ConservedStep DEF Conserved
<1> QED  BY <1>1, <1>2, CoreAlways, PTL DEF Spec

\* No message structure of the pools is ever lost or freed twice.
THEOREM MessagesAlwaysConserved == Spec => []MessagesConserved
<1>1. Conserved => MessagesConserved
  BY DEF Conserved, MessagesConserved, Pooled, Queued, PoolCount, Holders, Stock
<1> QED  BY <1>1, ConservedAlways, PTL

\* The types of the variables, with the bounds of the counters and pools.
THEOREM TypeCorrect == Spec => []TypeOK
<1>1. Core /\ Conserved => TypeOK
  <2> SUFFICES ASSUME Core, Conserved PROVE TypeOK
    OBVIOUS
  <2>1. /\ z.k \in KernelState /\ z.msgs \in MsgLists /\ z.nwait \in [Reason -> [Queue -> Nat]]
        /\ z.msgwaitq \in [Task -> Queue \union {NULL}] /\ z.errno \in [Task -> Errno] /\ z.free \in PoolMap
        /\ MqSound(z) /\ pc \in [Task -> CallState] /\ waitdog \subseteq Task /\ panic \in BOOLEAN
    BY MqFields DEF Core, MqSound, CallsValid
  <2>2. \A s \in Reason, q \in Queue : z.nwait[s][q] \in 0..Cardinality(Task)
    <3> SUFFICES ASSUME NEW s \in Reason, NEW q \in Queue PROVE z.nwait[s][q] \in 0..Cardinality(Task)
      OBVIOUS
    <3>1. z.nwait[s][q] = Cardinality(Waiters(z, q, s))
      BY <2>1, CounterTells
    <3>2. Waiters(z, q, s) \in SUBSET Task /\ Task \in SUBSET Task
      BY DEF Waiters
    <3>3. /\ Cardinality(Waiters(z, q, s)) <= Cardinality(Task)
          /\ Cardinality(Waiters(z, q, s)) \in Nat /\ Cardinality(Task) \in Nat
      BY <3>2, Fewer
    <3> QED  BY <3>1, <3>3
  <2>3. z.nwait \in [Reason -> [Queue -> 0..Cardinality(Task)]]
    BY <2>1, <2>2
  <2>4. ASSUME NEW y \in {"FIXED", "IRQ"} PROVE z.free[y] \in 0..(NumFixed + NumIrq)
    <3>1. z.free[y] \in Nat /\ Cardinality(Stock(z.msgs, y)) \in Nat
      BY <2>1, StockFinite DEF PoolMap
    <3>2. Holders(pc, y) \in SUBSET Task
      BY DEF Holders
    <3>3. Cardinality(Holders(pc, y)) \in Nat
      BY <3>2, TasksFinite
    <3>4. PoolCount(z.free, pc, z.msgs, y) \in {NumFixed, NumIrq} /\ NumFixed \in Nat /\ NumIrq \in Nat
      BY MqueueAssumption DEF Conserved
    <3> QED  BY <3>1, <3>3, <3>4 DEF PoolCount
  <2>5. z.free \in [{"FIXED", "IRQ"} -> 0..(NumFixed + NumIrq)]
    BY <2>1, <2>4 DEF PoolMap
  <2> QED  BY <2>1, <2>3, <2>5 DEF TypeOK, MsgLists, CallState
<1> QED  BY <1>1, CoreAlways, ConservedAlways, PTL

-----------------------------------------------------------------------------
\* The tasks that will see to queue q: those inside a call at a label of L,
\* and those that were woken from their wait at l and have not run yet.
Servers(q, L, l) ==
  {t \in Task : /\ pc[t].q = q
                /\ \/ pc[t].at \in L
                   \/ (pc[t].at = l /\ Sleep(z.k)[t] = "awake" /\ z.errno[t] = "OK")}

\* They are counted by the two sets of the properties.
LEMMA ServersCounted ==
  ASSUME NEW q, NEW L, NEW l, l \notin L
  PROVE  /\ Cardinality(Servers(q, L, l)) = Cardinality(Woken(q, l)) + Cardinality(InCall(q, L))
         /\ Cardinality(Servers(q, L, l)) \in Nat
<1>1. Woken(q, l) \in SUBSET Task /\ InCall(q, L) \in SUBSET Task
  BY DEF Woken, InCall
<1>2. \A t \in Task : Sleep(z.k)[t] = "awake" <=> z.k.state[t] \notin Reason
  BY DEF Sleep, Reason, NOTEMPTY, NOTFULL
<1>3. Servers(q, L, l) = Woken(q, l) \union InCall(q, L) /\ Woken(q, l) \intersect InCall(q, L) = {}
  BY <1>2 DEF Servers, Woken, InCall
<1>4. /\ IsFiniteSet(Woken(q, l)) /\ Cardinality(Woken(q, l)) \in Nat
      /\ IsFiniteSet(InCall(q, L)) /\ Cardinality(InCall(q, L)) \in Nat
  BY <1>1, TasksFinite
<1>5. Cardinality(Woken(q, l) \union InCall(q, L)) =
        Cardinality(Woken(q, l)) + Cardinality(InCall(q, L)) - Cardinality(Woken(q, l) \intersect InCall(q, L))
  BY <1>4, FS_Union
<1>6. Cardinality({}) = 0
  BY FS_EmptySet
<1> QED  BY <1>3, <1>4, <1>5, <1>6

\* How many remain of a set of tasks.
LEMMA Remain ==
  ASSUME NEW A \in SUBSET Task, NEW B \in SUBSET Task, NEW r \in Task
  PROVE  /\ Cardinality(A) \in Nat /\ Cardinality(B) \in Nat
         /\ A \subseteq B => Cardinality(A) <= Cardinality(B)
         /\ A \ {r} \subseteq B => Cardinality(A) - 1 <= Cardinality(B)
         /\ r \notin A /\ A \union {r} \subseteq B => Cardinality(A) + 1 <= Cardinality(B)
         /\ \A t \in Task \ A : (A \ {r}) \union {t} \subseteq B => Cardinality(A) <= Cardinality(B)
<1>1. Cardinality(A) \in Nat /\ Cardinality(B) \in Nat
  BY TasksFinite
<1>2. ASSUME A \subseteq B PROVE Cardinality(A) <= Cardinality(B)
  BY <1>2, Fewer
<1>3. A \ {r} \in SUBSET Task /\ Cardinality(A \ {r}) \in Nat /\ Cardinality(A) - 1 <= Cardinality(A \ {r})
  <2>1. A \ {r} \in SUBSET Task
    OBVIOUS
  <2>2. Cardinality(A \ {r}) \in Nat
    BY <2>1, TasksFinite
  <2>3. CASE r \in A
    BY <1>1, <2>1, <2>2, <2>3, OneLess
  <2>4. CASE r \notin A
    <3>1. A \ {r} = A
      BY <2>4
    <3> QED  BY <1>1, <2>1, <3>1
  <2> QED  BY <2>3, <2>4
<1>4. ASSUME A \ {r} \subseteq B PROVE Cardinality(A) - 1 <= Cardinality(B)
  <2>1. Cardinality(A \ {r}) <= Cardinality(B)
    BY <1>4, Fewer
  <2> QED  BY <1>1, <1>3, <2>1
<1>5. ASSUME r \notin A, A \union {r} \subseteq B PROVE Cardinality(A) + 1 <= Cardinality(B)
  <2>1. Cardinality(A \union {r}) = Cardinality(A) + 1
    BY <1>5, OneMore
  <2>2. Cardinality(A \union {r}) <= Cardinality(B)
    BY <1>5, Fewer
  <2> QED  BY <2>1, <2>2
<1>6. ASSUME NEW t \in Task \ A, (A \ {r}) \union {t} \subseteq B PROVE Cardinality(A) <= Cardinality(B)
  <2>1. t \in Task \ (A \ {r})
    OBVIOUS
  <2>2. Cardinality((A \ {r}) \union {t}) = Cardinality(A \ {r}) + 1
    BY <1>3, <2>1, OneMore
  <2>3. Cardinality((A \ {r}) \union {t}) <= Cardinality(B)
    BY <1>6, Fewer
  <2> QED  BY <1>1, <1>3, <2>2, <2>3
<1> QED  BY <1>1, <1>2, <1>4, <1>5, <1>6

\* A step that does not touch a task leaves it a server.
Untouched(u) == pc'[u] = pc[u] /\ Sleep(z'.k)[u] = Sleep(z.k)[u] /\ z'.errno[u] = z.errno[u]

\* A task that the step does not touch still answers for the wake-up it was given.
LEMMA ServersStay ==
  ASSUME NEW X, \A u \in Task \ X : Untouched(u), NEW q, NEW L, NEW l
  PROVE  /\ Servers(q, L, l) \ X \subseteq Servers(q, L, l)'
         /\ Servers(q, L, l) \in SUBSET Task /\ Servers(q, L, l)' \in SUBSET Task
BY DEF Untouched, Servers

\* Nobody falls asleep or is woken.
LEMMA WaitersSame ==
  ASSUME Sleep(z'.k) = Sleep(z.k), z'.msgwaitq = z.msgwaitq, NEW q \in Queue, NEW s \in Reason
  PROVE  Waiters(z', q, s) = Waiters(z, q, s)
<1>1. Waiters(z, q, s) = Sleepers(Sleep(z.k), z.msgwaitq, q, s)
  BY WaitersAre
<1>2. Waiters(z', q, s) = Sleepers(Sleep(z'.k), z'.msgwaitq, q, s)
  BY WaitersAre
<1> QED  BY <1>1, <1>2

\* A task falls asleep.
LEMMA WaitersFell ==
  ASSUME MqSound(z), NEW t \in Task, NEW p \in Queue, NEW w \in Reason, Sleep(z.k)[t] = "awake",
         Sleep(z'.k) = [Sleep(z.k) EXCEPT ![t] = w], z'.msgwaitq = [z.msgwaitq EXCEPT ![t] = p],
         NEW q \in Queue, NEW s \in Reason, <<q, s>> # <<p, w>>
  PROVE  Waiters(z', q, s) = Waiters(z, q, s)
<1>1. Waiters(z, q, s) = Sleepers(Sleep(z.k), z.msgwaitq, q, s)
  BY WaitersAre
<1>2. Waiters(z', q, s) = Sleepers(Sleep(z'.k), z'.msgwaitq, q, s)
  BY WaitersAre
<1>3. z.msgwaitq \in [Task -> Queue \union {NULL}] /\ Sleep(z.k) \in SleepMap /\ "awake" \notin Reason
  BY DEF MqSound, Ledger, Reason, NOTEMPTY, NOTFULL
<1>4. Sleepers(Sleep(z'.k), z'.msgwaitq, q, s) = Sleepers(Sleep(z.k), z.msgwaitq, q, s)
  BY <1>3 DEF Sleepers, SleepMap
<1> QED  BY <1>1, <1>2, <1>4

\* A task is woken.
LEMMA WaitersWoken ==
  ASSUME MqSound(z), NEW t \in Task, Sleep(z'.k) = [Sleep(z.k) EXCEPT ![t] = "awake"],
         z'.msgwaitq = [z.msgwaitq EXCEPT ![t] = NULL], NEW q \in Queue, NEW s \in Reason
  PROVE  /\ Waiters(z', q, s) \subseteq Waiters(z, q, s)
         /\ Sleep(z'.k)[t] = "awake" /\ \A u \in Task \ {t} : Sleep(z'.k)[u] = Sleep(z.k)[u]
<1>1. Waiters(z, q, s) = Sleepers(Sleep(z.k), z.msgwaitq, q, s)
  BY WaitersAre
<1>2. Waiters(z', q, s) = Sleepers(Sleep(z'.k), z'.msgwaitq, q, s)
  BY WaitersAre
<1>3. z.msgwaitq \in [Task -> Queue \union {NULL}] /\ Sleep(z.k) \in SleepMap /\ "awake" \notin Reason
  BY DEF MqSound, Ledger, Reason, NOTEMPTY, NOTFULL
<1>4. Sleepers(Sleep(z'.k), z'.msgwaitq, q, s) \subseteq Sleepers(Sleep(z.k), z.msgwaitq, q, s)
  BY <1>3, MqueueAssumption DEF Sleepers, SleepMap
<1>5. Sleep(z'.k)[t] = "awake" /\ \A u \in Task \ {t} : Sleep(z'.k)[u] = Sleep(z.k)[u]
  BY <1>3 DEF SleepMap
<1> QED  BY <1>1, <1>2, <1>4, <1>5

\* A waiter is at its wait, and no server.
LEMMA WaiterPlaced ==
  ASSUME Core, NEW p \in Queue, NEW w \in Reason, NEW t \in Waiters(z, p, w)
  PROVE  /\ t \in Task /\ Sleep(z.k)[t] = w /\ pc[t].at = PlaceOf(w) /\ pc[t].q = p /\ z.errno[t] = "OK"
         /\ \A q, L, l : L \subseteq Busy => t \notin Servers(q, L, l)
<1>1. t \in Task /\ Sleep(z.k)[t] = w /\ z.msgwaitq[t] = p /\ w # "awake"
  BY DEF Waiters, Sleep, Reason, NOTEMPTY, NOTFULL
<1>2. pc[t].at = PlaceOf(w) /\ pc[t].q = p /\ z.errno[t] = "OK"
  BY <1>1 DEF Core, Placed
<1>3. PlaceOf(w) \notin Busy
  BY DEF PlaceOf, Busy
<1> QED  BY <1>1, <1>2, <1>3 DEF Servers

\* The task that the running one moves on with is the only one touched.
LEMMA MovedTouches ==
  ASSUME Core, NEW r \in Task, NEW c \in CallState, Moved(r, c)
  PROVE  /\ \A u \in Task \ {r} : Untouched(u)
         /\ pc'[r] = c
         /\ \A q \in Queue, s \in Reason : Waiters(z', q, s) = Waiters(z, q, s)
<1>1. /\ pc' = [pc EXCEPT ![r] = c] /\ Sleep(z'.k) = Sleep(z.k) /\ z'.msgwaitq = z.msgwaitq
      /\ \A u \in Task \ {r} : z'.errno[u] = z.errno[u]
  BY DEF Moved
<1>2. pc \in [Task -> CallState]
  BY DEF Core, CallsValid
<1>3. \A q \in Queue, s \in Reason : Waiters(z', q, s) = Waiters(z, q, s)
  BY <1>1, WaitersSame
<1> QED  BY <1>1, <1>2, <1>3 DEF Untouched

\* So is the one that falls asleep ...
LEMMA FellTouches ==
  ASSUME Core, NEW r \in Task, r = Self, NEW c \in CallState, NEW p \in Queue, NEW w \in Reason, Fell(r, c, p, w)
  PROVE  /\ \A u \in Task \ {r} : Untouched(u)
         /\ z'.msgs = z.msgs
         /\ \A q \in Queue, s \in Reason : <<q, s>> # <<p, w>> => Waiters(z', q, s) = Waiters(z, q, s)
<1>1. /\ pc' = [pc EXCEPT ![r] = c] /\ Sleep(z'.k) = [Sleep(z.k) EXCEPT ![r] = w]
      /\ z'.msgwaitq = [z.msgwaitq EXCEPT ![r] = p] /\ z'.errno = [z.errno EXCEPT ![r] = "OK"]
      /\ z'.msgs = z.msgs
  BY DEF Fell, SameMessages
<1>2. MqSound(z) /\ pc \in [Task -> CallState] /\ z.errno \in [Task -> Errno] /\ Sleep(z.k)[r] = "awake"
  BY Runner
<1>3. Sleep(z.k) \in SleepMap
  BY <1>2 DEF MqSound, Ledger
<1>4. \A u \in Task \ {r} : Untouched(u)
  BY <1>1, <1>2, <1>3 DEF Untouched, SleepMap
<1>5. \A q \in Queue, s \in Reason : <<q, s>> # <<p, w>> => Waiters(z', q, s) = Waiters(z, q, s)
  BY <1>1, <1>2, WaitersFell
<1> QED  BY <1>1, <1>4, <1>5

\* ... and the one that is woken, beside the one that wakes it.
LEMMA WokenTouches ==
  ASSUME Core, NEW t \in Task, WokeUp(z, t, z')
  PROVE  /\ \A u \in Task \ {t} : Sleep(z'.k)[u] = Sleep(z.k)[u]
         /\ Sleep(z'.k)[t] = "awake" /\ z'.msgs = z.msgs
         /\ \A q \in Queue, s \in Reason : Waiters(z', q, s) \subseteq Waiters(z, q, s)
         /\ Sleep(z.k)[t] \in Reason /\ pc[t].at \in Waits /\ Sleep(z.k)[t] # "awake"
<1>1. MqSound(z) /\ Sleep(z.k)[t] # "awake" /\ Sleep(z.k)[t] \in Reason /\ z'.msgs = z.msgs
  BY DEF Core, WokeUp, SameMessages, Reason, NOTEMPTY, NOTFULL
<1>2. /\ Sleep(z'.k) = [Sleep(z.k) EXCEPT ![t] = "awake"] /\ z'.msgwaitq = [z.msgwaitq EXCEPT ![t] = NULL]
  BY DEF WokeUp
<1>3. \A q \in Queue, s \in Reason : Waiters(z', q, s) \subseteq Waiters(z, q, s)
  BY <1>1, <1>2, WaitersWoken
<1>4. Sleep(z.k) \in SleepMap
  BY <1>1 DEF MqSound, Ledger
<1>5. Sleep(z'.k)[t] = "awake" /\ \A u \in Task \ {t} : Sleep(z'.k)[u] = Sleep(z.k)[u]
  BY <1>2, <1>4 DEF SleepMap
<1>6. pc[t].at \in Waits
  BY <1>1 DEF Core, Placed, PlaceOf, Waits
<1> QED  BY <1>1, <1>3, <1>5, <1>6

-----------------------------------------------------------------------------
\* The tasks that will take a message from queue q or wake a receiver of it.
Takers(q) == Servers(q, {"wakereceiver"}, "recvwait")
ReceiversServed(q) == Waiters(z, q, NOTEMPTY) # {} => Len(z.msgs[q]) <= Cardinality(Takers(q))

\* The tasks that are touched decide.
LEMMA TakersStay ==
  ASSUME NEW X, \A u \in Task \ X : Untouched(u), NEW q
  PROVE  /\ Takers(q) \ X \subseteq Takers(q)'
         /\ Takers(q) \in SUBSET Task /\ Takers(q)' \in SUBSET Task
BY ServersStay DEF Takers

\* Whether a task is one of them.
LEMMA TakerIs ==
  ASSUME NEW q, NEW t \in Task
  PROVE  /\ t \in Takers(q) <=> /\ pc[t].q = q
                                /\ \/ pc[t].at = "wakereceiver"
                                   \/ (pc[t].at = "recvwait" /\ Sleep(z.k)[t] = "awake" /\ z.errno[t] = "OK")
         /\ t \in Takers(q)' <=> /\ pc'[t].q = q
                                 /\ \/ pc'[t].at = "wakereceiver"
                                    \/ (pc'[t].at = "recvwait" /\ Sleep(z'.k)[t] = "awake" /\ z'.errno[t] = "OK")
BY DEF Takers, Servers

\* A waiting receiver is served after every step.
LEMMA ReceiversStep ==
  ASSUME Core, [Next]_vars, NEW q \in Queue, ReceiversServed(q)
  PROVE  ReceiversServed(q)'
<1> DEFINE A == Takers(q)
           B == Takers(q)'
           n == Len(z.msgs[q])
           Goal == Len(z'.msgs[q]) <= Cardinality(B)
<1> SUFFICES ASSUME Waiters(z', q, NOTEMPTY) # {} PROVE Goal
  BY DEF ReceiversServed
<1>1. MqSound(z) /\ n \in Nat /\ NOTEMPTY \in Reason /\ NOTFULL \in Reason /\ NOTEMPTY # NOTFULL
  <2>1. MqSound(z) /\ z.msgs[q] \in Seq(Message)
    BY MqFields DEF Core, MqSound, MsgLists
  <2> QED  BY <2>1, LenProperties DEF Reason, NOTEMPTY, NOTFULL
<1>2. ASSUME Waiters(z, q, NOTEMPTY) # {} PROVE n <= Cardinality(A)
  BY <1>2 DEF ReceiversServed
<1>3. A \in SUBSET Task /\ B \in SUBSET Task /\ Cardinality(A) \in Nat /\ Cardinality(B) \in Nat
  <2>1. A \in SUBSET Task /\ B \in SUBSET Task
    BY DEF Takers, Servers
  <2> QED  BY <2>1, TasksFinite
<1>4. ASSUME A \subseteq B, z'.msgs[q] = z.msgs[q], Waiters(z, q, NOTEMPTY) # {} PROVE Goal
  <2>1. Cardinality(A) <= Cardinality(B)
    BY <1>3, <1>4, Fewer
  <2> QED  BY <1>1, <1>2, <1>3, <1>4, <2>1
<1>5. ASSUME NEW r \in Task, r = Self, NEW c \in CallState, Handled(r, c) PROVE Goal
  <2>1. /\ Moved(r, c) /\ z'.msgs = z.msgs
        /\ pc[r].at = "wakereceiver" => Waiters(z, pc[r].q, NOTEMPTY) = {}
        /\ pc[r].at = "recvwait" => z.errno[r] # "OK"
    BY <1>5 DEF Handled
  <2>2. (\A u \in Task \ {r} : Untouched(u)) /\ Waiters(z', q, NOTEMPTY) = Waiters(z, q, NOTEMPTY)
    BY <1>1, <2>1, MovedTouches
  <2>3. r \notin A
    BY <2>1, <2>2, TakerIs
  <2>4. A \subseteq B
    BY <2>2, <2>3, TakersStay
  <2> QED  BY <1>4, <2>1, <2>2, <2>4
<1>6. ASSUME NEW r \in Task, r = Self, NEW c \in CallState, NEW p \in Queue, Received(r, c, p) PROVE Goal
  <2>1. /\ Moved(r, c) /\ FirstTaken(p)
        /\ pc[r].at = "user" \/ (pc[r].at = "recvwait" /\ pc[r].q = p)
    BY <1>6 DEF Received, FirstTaken
  <2>2. (\A u \in Task \ {r} : Untouched(u)) /\ Waiters(z', q, NOTEMPTY) = Waiters(z, q, NOTEMPTY)
    BY <1>1, <2>1, MovedTouches
  <2>3. A \ {r} \subseteq B /\ n <= Cardinality(A)
    BY <1>2, <2>2, TakersStay
  <2>4. CASE p = q
    <3>1. Len(z'.msgs[q]) = n - 1
      BY <1>1, <2>1, <2>4, TakenCounts
    <3>2. Cardinality(A) - 1 <= Cardinality(B)
      BY <1>3, <2>3, Remain
    <3> QED  BY <1>1, <1>3, <2>3, <3>1, <3>2
  <2>5. CASE p # q
    <3>1. z'.msgs[q] = z.msgs[q]
      BY <1>1, <2>1, <2>5, TakenCounts
    <3>2. r \notin A
      BY <2>1, <2>5, TakerIs
    <3> QED  BY <1>4, <2>2, <2>3, <3>1, <3>2
  <2> QED  BY <2>4, <2>5
<1>7. ASSUME NEW r \in Task, r = Self, NEW c \in CallState, NEW p \in Queue, NEW m \in Message, Sent(r, c, p, m)
      PROVE  Goal
  <2>1. /\ Moved(r, c) /\ InsertedMsg(p, m) /\ pc[r].at = "dosend" /\ c.at = "wakereceiver" /\ c.q = p
    BY <1>7 DEF Sent
  <2>2. /\ \A u \in Task \ {r} : Untouched(u)
        /\ Waiters(z', q, NOTEMPTY) = Waiters(z, q, NOTEMPTY) /\ pc'[r] = c
    BY <1>1, <2>1, MovedTouches
  <2>3. A \ {r} \subseteq B /\ n <= Cardinality(A) /\ r \notin A
    BY <1>2, <2>1, <2>2, TakersStay, TakerIs
  <2>4. CASE p = q
    <3>1. Len(z'.msgs[q]) = n + 1
      BY <1>1, <2>1, <2>4, PutCounts
    <3>2. r \in B
      BY <2>1, <2>2, <2>4, TakerIs
    <3>3. Cardinality(A) + 1 <= Cardinality(B)
      BY <1>3, <2>3, <3>2, Remain
    <3> QED  BY <1>1, <1>3, <2>3, <3>1, <3>3
  <2>5. CASE p # q
    <3>1. z'.msgs[q] = z.msgs[q]
      BY <1>1, <2>1, <2>5, PutCounts
    <3> QED  BY <1>4, <2>2, <2>3, <3>1
  <2> QED  BY <2>4, <2>5
<1>8. ASSUME NEW r \in Task, r = Self, NEW c \in CallState, NEW p \in Queue, NEW w \in Reason, Fell(r, c, p, w)
      PROVE  Goal
  <2>1. /\ pc[r].at \in {"user", "timedcheck"} \/ (pc[r].at = PlaceOf(w) /\ pc[r].q = p)
        /\ w = NOTEMPTY => z.msgs[p] = <<>>
    BY <1>8 DEF Fell
  <2>2. /\ \A u \in Task \ {r} : Untouched(u)
        /\ z'.msgs = z.msgs
        /\ <<q, NOTEMPTY>> # <<p, w>> => Waiters(z', q, NOTEMPTY) = Waiters(z, q, NOTEMPTY)
    BY <1>1, <1>8, FellTouches
  <2>3. CASE q = p /\ w = NOTEMPTY
    BY <1>3, <2>1, <2>2, <2>3
  <2>4. CASE ~(q = p /\ w = NOTEMPTY)
    <3>1. r \notin A
      BY <1>1, <2>1, <2>4, TakerIs DEF PlaceOf
    <3>2. A \subseteq B
      BY <2>2, <3>1, TakersStay
    <3> QED  BY <1>4, <2>2, <2>4, <3>2
  <2> QED  BY <2>3, <2>4
<1>9. ASSUME NEW r \in Task, r = Self, NEW t \in Task, NEW p \in Queue, NEW w \in Reason, WokeReturned(r, t, p, w)
      PROVE  Goal
  <2>1. /\ pc' = [pc EXCEPT ![r] = User] /\ t \in Waiters(z, p, w)
        /\ pc[r].at = (IF w = NOTEMPTY THEN "wakereceiver" ELSE "wakesender") /\ pc[r].q = p
        /\ WokeUp(z, t, z') /\ z'.errno = [z.errno EXCEPT ![r] = "OK"]
    BY <1>9 DEF WokeReturned
  <2>2. /\ \A u \in Task \ {t} : Sleep(z'.k)[u] = Sleep(z.k)[u]
        /\ Sleep(z'.k)[t] = "awake" /\ z'.msgs = z.msgs
        /\ Waiters(z', q, NOTEMPTY) \subseteq Waiters(z, q, NOTEMPTY)
    BY <1>1, <2>1, WokenTouches
  <2>3. /\ pc[t].at = PlaceOf(w) /\ pc[t].q = p /\ z.errno[t] = "OK" /\ Sleep(z.k)[t] # "awake"
    BY <2>1, WaiterPlaced DEF Reason, NOTEMPTY, NOTFULL
  <2>4. pc \in [Task -> CallState] /\ z.errno \in [Task -> Errno] /\ t # r
    BY <1>9, <2>3, Runner
  <2>5. /\ \A u \in Task \ {r, t} : Untouched(u)
        /\ pc'[t] = pc[t] /\ z'.errno[t] = "OK"
    BY <2>1, <2>2, <2>3, <2>4 DEF Untouched
  <2>6. A \ {r, t} \subseteq B /\ Waiters(z, q, NOTEMPTY) # {} /\ n <= Cardinality(A)
    BY <1>2, <2>2, <2>5, TakersStay
  <2>7. t \notin A
    BY <2>3, TakerIs DEF PlaceOf
  <2>8. CASE p = q /\ w = NOTEMPTY
    <3>1. t \in B
      BY <2>2, <2>3, <2>5, <2>8, TakerIs DEF PlaceOf
    <3>2. (A \ {r}) \union {t} \subseteq B /\ t \in Task \ A
      BY <2>6, <2>7, <3>1
    <3>3. Cardinality(A) <= Cardinality(B)
      BY <1>3, <3>2, Remain
    <3> QED  BY <1>1, <1>3, <2>2, <2>6, <3>3
  <2>9. CASE ~(p = q /\ w = NOTEMPTY)
    <3>1. r \notin A
      BY <2>1, <2>9, TakerIs
    <3>2. A \subseteq B
      BY <2>6, <2>7, <3>1
    <3> QED  BY <1>4, <2>2, <2>6, <3>2
  <2> QED  BY <2>8, <2>9
<1>10. ASSUME NEW p \in Queue, NEW m \in Message, IsrSent(p, m) PROVE Goal
  <2>1. pc' = pc /\ InsertedMsg(p, m) /\ z'.errno = z.errno
    BY <1>10 DEF IsrSent
  <2>2. CASE /\ Waiters(z, p, NOTEMPTY) = {} /\ Sleep(z'.k) = Sleep(z.k) /\ z'.msgwaitq = z.msgwaitq
    <3>1. Waiters(z', q, NOTEMPTY) = Waiters(z, q, NOTEMPTY)
      BY <1>1, <2>2, WaitersSame
    <3>2. p # q
      BY <2>2, <3>1
    <3>3. z'.msgs[q] = z.msgs[q]
      BY <1>1, <2>1, <3>2, PutCounts
    <3>4. A \subseteq B
      BY <2>1, <2>2 DEF Takers, Servers
    <3> QED  BY <1>4, <3>1, <3>3, <3>4
  <2>3. ASSUME NEW t \in Waiters(z, p, NOTEMPTY), Sleep(z'.k) = [Sleep(z.k) EXCEPT ![t] = "awake"],
               z'.msgwaitq = [z.msgwaitq EXCEPT ![t] = NULL]
        PROVE  Goal
    <3>1. /\ t \in Task /\ pc[t].at = "recvwait" /\ pc[t].q = p /\ z.errno[t] = "OK" /\ Sleep(z.k)[t] # "awake"
      BY <1>1, WaiterPlaced DEF PlaceOf, Reason, NOTEMPTY, NOTFULL
    <3>2. /\ Waiters(z', q, NOTEMPTY) \subseteq Waiters(z, q, NOTEMPTY)
          /\ Sleep(z'.k)[t] = "awake" /\ \A u \in Task \ {t} : Sleep(z'.k)[u] = Sleep(z.k)[u]
      BY <1>1, <2>3, <3>1, WaitersWoken
    <3>3. \A u \in Task \ {t} : Untouched(u)
      BY <2>1, <3>2 DEF Untouched
    <3>4. A \ {t} \subseteq B /\ t \notin A /\ Waiters(z, q, NOTEMPTY) # {} /\ n <= Cardinality(A)
      BY <1>2, <3>1, <3>2, <3>3, TakersStay, TakerIs
    <3>5. CASE p = q
      <4>1. Len(z'.msgs[q]) = n + 1
        BY <1>1, <2>1, <3>5, PutCounts
      <4>2. t \in B
        BY <2>1, <3>1, <3>2, <3>5, TakerIs
      <4>3. Cardinality(A) + 1 <= Cardinality(B)
        BY <1>3, <3>1, <3>4, <4>2, Remain
      <4> QED  BY <1>1, <1>3, <3>4, <4>1, <4>3
    <3>6. CASE p # q
      <4>1. z'.msgs[q] = z.msgs[q]
        BY <1>1, <2>1, <3>6, PutCounts
      <4> QED  BY <1>4, <3>4, <4>1
    <3> QED  BY <3>5, <3>6
  <2> QED  BY <1>10, <2>2, <2>3 DEF IsrSent
<1>11. ASSUME NEW t \in Task, Aborted(t) \/ RestartedTask(t) PROVE Goal
  <2>1. /\ WokeUp(z, t, z') /\ (pc' = pc \/ pc' = [pc EXCEPT ![t] = User])
        /\ \A u \in Task \ {t} : z'.errno[u] = z.errno[u]
    BY <1>11 DEF Aborted, RestartedTask
  <2>2. /\ \A u \in Task \ {t} : Sleep(z'.k)[u] = Sleep(z.k)[u]
        /\ z'.msgs = z.msgs /\ Waiters(z', q, NOTEMPTY) \subseteq Waiters(z, q, NOTEMPTY)
        /\ pc[t].at \in Waits /\ Sleep(z.k)[t] # "awake"
    BY <1>1, <2>1, WokenTouches
  <2>3. pc \in [Task -> CallState]
    BY DEF Core, CallsValid
  <2>4. \A u \in Task \ {t} : Untouched(u)
    BY <2>1, <2>2, <2>3 DEF Untouched
  <2>5. t \notin A
    BY <2>2, TakerIs DEF Waits
  <2>6. A \subseteq B
    BY <2>4, <2>5, TakersStay
  <2> QED  BY <1>4, <2>2, <2>6
<1>12. ASSUME z' = z, pc' = pc PROVE Goal
  <2>1. A \subseteq B
    BY <1>12 DEF Takers, Servers
  <2> QED  BY <1>4, <1>12, <2>1
<1>13. Effect
  BY StepEffect
<1> HIDE DEF Goal
<1> QED  BY <1>5, <1>6, <1>7, <1>8, <1>9, <1>10, <1>11, <1>12, <1>13 DEF Effect

\* No receiver ever sleeps beside a message that nobody will take.
THEOREM ReceiversNeverForgotten == Spec => []ReceiversNotForgotten
<1> DEFINE Served == \A q \in Queue : ReceiversServed(q)
<1>1. Init => Served
  <2>1. ASSUME Init, NEW q \in Queue PROVE ReceiversServed(q)
    <3>1. MqSound(z) /\ z.nwait[NOTEMPTY][q] = 0 /\ NOTEMPTY \in Reason
      BY <2>1, InitCore DEF Core, Init, Reason
    <3>2. Waiters(z, q, NOTEMPTY) = {}
      BY <3>1, CounterTells
    <3> QED  BY <3>2 DEF ReceiversServed
  <2> QED  BY <2>1
<1>2. Core /\ Served /\ [Next]_vars => Served'
  <2> SUFFICES ASSUME Core, Served, [Next]_vars, NEW q \in Queue PROVE ReceiversServed(q)'
    OBVIOUS
  <2> QED  BY ReceiversStep
<1>3. Served => ReceiversNotForgotten
  <2> SUFFICES ASSUME Served, NEW q \in Queue, Waiters(z, q, NOTEMPTY) # {}
               PROVE  Len(z.msgs[q]) <= Cardinality(Woken(q, "recvwait")) + Cardinality(InCall(q, {"wakereceiver"}))
    BY DEF ReceiversNotForgotten
  <2>1. Len(z.msgs[q]) <= Cardinality(Takers(q))
    BY DEF ReceiversServed
  <2>2. Cardinality(Takers(q)) = Cardinality(Woken(q, "recvwait")) + Cardinality(InCall(q, {"wakereceiver"}))
    BY ServersCounted DEF Takers
  <2> QED  BY <2>1, <2>2
<1> QED  BY <1>1, <1>2, <1>3, CoreAlways, PTL DEF Spec

-----------------------------------------------------------------------------
\* The tasks that will fill a place of queue q or wake a sender for it.
Fillers(q) == Servers(q, Filling, "sendwait")
SendersServed(q) ==
  Waiters(z, q, NOTFULL) # {} => MaxMsgs <= Len(z.msgs[q]) + Cardinality(Fillers(q))

\* The tasks that are touched decide.
LEMMA FillersStay ==
  ASSUME NEW X, \A u \in Task \ X : Untouched(u), NEW q
  PROVE  /\ Fillers(q) \ X \subseteq Fillers(q)'
         /\ Fillers(q) \in SUBSET Task /\ Fillers(q)' \in SUBSET Task
BY ServersStay DEF Fillers

\* Whether a task is one of them.
LEMMA FillerIs ==
  ASSUME NEW q, NEW t \in Task
  PROVE  /\ t \in Fillers(q) <=> /\ pc[t].q = q
                                 /\ \/ pc[t].at \in Filling
                                    \/ (pc[t].at = "sendwait" /\ Sleep(z.k)[t] = "awake" /\ z.errno[t] = "OK")
         /\ t \in Fillers(q)' <=> /\ pc'[t].q = q
                                  /\ \/ pc'[t].at \in Filling
                                     \/ (pc'[t].at = "sendwait" /\ Sleep(z'.k)[t] = "awake" /\ z'.errno[t] = "OK")
BY DEF Fillers, Servers

\* A waiting sender is served after every step, if no allocation fails.
LEMMA SendersStep ==
  ASSUME Core, [Next]_vars, NEW q \in Queue, SendersServed(q), "ENOMEM" \notin Calls
  PROVE  SendersServed(q)'
<1> DEFINE A == Fillers(q)
           B == Fillers(q)'
           n == Len(z.msgs[q])
           Goal == MaxMsgs <= Len(z'.msgs[q]) + Cardinality(B)
<1> SUFFICES ASSUME Waiters(z', q, NOTFULL) # {} PROVE Goal
  BY DEF SendersServed
<1>1. /\ MqSound(z) /\ n \in Nat /\ NOTEMPTY \in Reason /\ NOTFULL \in Reason /\ NOTEMPTY # NOTFULL
      /\ MaxMsgs \in Nat
  <2>1. MqSound(z) /\ z.msgs[q] \in Seq(Message)
    BY MqFields DEF Core, MqSound, MsgLists
  <2> QED  BY <2>1, LenProperties, MqueueAssumption DEF Reason, NOTEMPTY, NOTFULL
<1>2. ASSUME Waiters(z, q, NOTFULL) # {} PROVE MaxMsgs <= n + Cardinality(A)
  BY <1>2 DEF SendersServed
<1>3. A \in SUBSET Task /\ B \in SUBSET Task /\ Cardinality(A) \in Nat /\ Cardinality(B) \in Nat
  <2>1. A \in SUBSET Task /\ B \in SUBSET Task
    BY DEF Fillers, Servers
  <2> QED  BY <2>1, TasksFinite
<1>4. ASSUME A \subseteq B, Len(z'.msgs[q]) \in {n, n + 1}, Waiters(z, q, NOTFULL) # {} PROVE Goal
  <2>1. Cardinality(A) <= Cardinality(B)
    BY <1>3, <1>4, Fewer
  <2>2. MaxMsgs <= n + Cardinality(A)
    BY <1>2, <1>4
  <2>3. n <= Len(z'.msgs[q]) /\ Len(z'.msgs[q]) \in Nat
    BY <1>1, <1>4
  <2>4. n \in Nat /\ MaxMsgs \in Nat /\ Cardinality(A) \in Nat /\ Cardinality(B) \in Nat
    BY <1>1, <1>3
  <2> HIDE DEF A, B, n
  <2> QED  BY <2>1, <2>2, <2>3, <2>4
<1>5. ASSUME NEW r \in Task, r = Self, NEW c \in CallState, Handled(r, c) PROVE Goal
  <2>1. /\ Moved(r, c) /\ z'.msgs = z.msgs
        /\ FillsPlace(r) => (c.at \in Filling /\ c.q = pc[r].q) \/ Waiters(z, pc[r].q, NOTFULL) = {}
    BY <1>5 DEF Handled
  <2>2. /\ \A u \in Task \ {r} : Untouched(u)
        /\ Waiters(z', q, NOTFULL) = Waiters(z, q, NOTFULL) /\ pc'[r] = c
    BY <1>1, <2>1, MovedTouches
  <2>3. ASSUME r \in A PROVE r \in B
    <3>1. pc[r].q = q /\ FillsPlace(r)
      BY <2>3, FillerIs DEF FillsPlace
    <3>2. c.at \in Filling /\ c.q = q
      BY <2>1, <2>2, <3>1
    <3> QED  BY <2>2, <3>2, FillerIs
  <2>4. A \subseteq B
    <3>1. A \ {r} \subseteq B
      BY <2>2, FillersStay
    <3> HIDE DEF A, B
    <3> QED  BY <2>3, <3>1
  <2>5. Len(z'.msgs[q]) = n
    BY <2>1
  <2>6. Waiters(z, q, NOTFULL) # {}
    BY <2>2
  <2> HIDE DEF A, B, n
  <2> QED  BY <1>4, <2>4, <2>5, <2>6
<1>6. ASSUME NEW r \in Task, r = Self, NEW c \in CallState, NEW p \in Queue, Received(r, c, p) PROVE Goal
  <2>1. /\ Moved(r, c) /\ FirstTaken(p) /\ c.at = "msgfree" /\ c.q = p
        /\ pc[r].at \in {"user", "recvwait"}
    BY <1>6 DEF Received, FirstTaken
  <2>2. /\ \A u \in Task \ {r} : Untouched(u)
        /\ Waiters(z', q, NOTFULL) = Waiters(z, q, NOTFULL) /\ pc'[r] = c
    BY <1>1, <2>1, MovedTouches
  <2>3. A \ {r} \subseteq B /\ MaxMsgs <= n + Cardinality(A) /\ r \notin A
    BY <1>2, <2>1, <2>2, FillersStay, FillerIs DEF Filling
  <2>4. CASE p = q
    <3>1. Len(z'.msgs[q]) = n - 1
      BY <1>1, <2>1, <2>4, TakenCounts
    <3>2. r \in B
      BY <2>1, <2>2, <2>4, FillerIs DEF Filling
    <3>3. Cardinality(A) + 1 <= Cardinality(B)
      BY <1>3, <2>3, <3>2, Remain
    <3> QED  BY <1>1, <1>3, <2>3, <3>1, <3>3
  <2>5. CASE p # q
    <3>1. z'.msgs[q] = z.msgs[q]
      BY <1>1, <2>1, <2>5, TakenCounts
    <3> QED  BY <1>4, <2>2, <2>3, <3>1
  <2> QED  BY <2>4, <2>5
<1>7. ASSUME NEW r \in Task, r = Self, NEW c \in CallState, NEW p \in Queue, NEW m \in Message, Sent(r, c, p, m)
      PROVE  Goal
  <2>1. Moved(r, c) /\ InsertedMsg(p, m) /\ pc[r].q = p
    BY <1>7 DEF Sent
  <2>2. /\ \A u \in Task \ {r} : Untouched(u)
        /\ Waiters(z', q, NOTFULL) = Waiters(z, q, NOTFULL)
    BY <1>1, <2>1, MovedTouches
  <2>3. A \ {r} \subseteq B /\ MaxMsgs <= n + Cardinality(A)
    BY <1>2, <2>2, FillersStay
  <2>4. CASE p = q
    <3>1. Len(z'.msgs[q]) = n + 1
      BY <1>1, <2>1, <2>4, PutCounts
    <3>2. Cardinality(A) - 1 <= Cardinality(B)
      BY <1>3, <2>3, Remain
    <3> QED  BY <1>1, <1>3, <2>3, <3>1, <3>2
  <2>5. CASE p # q
    <3>1. z'.msgs[q] = z.msgs[q]
      BY <1>1, <2>1, <2>5, PutCounts
    <3>2. r \notin A
      BY <2>1, <2>5, FillerIs
    <3> QED  BY <1>4, <2>2, <2>3, <3>1, <3>2
  <2> QED  BY <2>4, <2>5
<1>8. ASSUME NEW r \in Task, r = Self, NEW c \in CallState, NEW p \in Queue, NEW w \in Reason, Fell(r, c, p, w)
      PROVE  Goal
  <2>1. /\ pc[r].at \in {"user", "timedcheck"} \/ (pc[r].at = PlaceOf(w) /\ pc[r].q = p)
        /\ w = NOTFULL => Full(z, p)
    BY <1>8 DEF Fell
  <2>2. /\ \A u \in Task \ {r} : Untouched(u)
        /\ z'.msgs = z.msgs
        /\ <<q, NOTFULL>> # <<p, w>> => Waiters(z', q, NOTFULL) = Waiters(z, q, NOTFULL)
    BY <1>1, <1>8, FellTouches
  <2>3. CASE q = p /\ w = NOTFULL
    BY <1>1, <1>3, <2>1, <2>2, <2>3 DEF Full
  <2>4. CASE ~(q = p /\ w = NOTFULL)
    <3>1. r \notin A
      BY <1>1, <2>1, <2>4, FillerIs DEF PlaceOf, Filling, Reason
    <3>2. A \subseteq B
      <4>1. A \ {r} \subseteq B
        BY <2>2, FillersStay
      <4> HIDE DEF A, B
      <4> QED  BY <3>1, <4>1
    <3>3. Len(z'.msgs[q]) = n
      BY <2>2
    <3>4. Waiters(z, q, NOTFULL) # {}
      BY <2>2, <2>4
    <3> HIDE DEF A, B, n
    <3> QED  BY <1>4, <3>2, <3>3, <3>4
  <2> QED  BY <2>3, <2>4
<1>9. ASSUME NEW r \in Task, r = Self, NEW t \in Task, NEW p \in Queue, NEW w \in Reason, WokeReturned(r, t, p, w)
      PROVE  Goal
  <2>1. /\ pc' = [pc EXCEPT ![r] = User] /\ t \in Waiters(z, p, w)
        /\ pc[r].at = (IF w = NOTEMPTY THEN "wakereceiver" ELSE "wakesender") /\ pc[r].q = p
        /\ WokeUp(z, t, z') /\ z'.errno = [z.errno EXCEPT ![r] = "OK"]
    BY <1>9 DEF WokeReturned
  <2>2. /\ \A u \in Task \ {t} : Sleep(z'.k)[u] = Sleep(z.k)[u]
        /\ Sleep(z'.k)[t] = "awake" /\ z'.msgs = z.msgs
        /\ Waiters(z', q, NOTFULL) \subseteq Waiters(z, q, NOTFULL)
    BY <1>1, <2>1, WokenTouches
  <2>3. /\ pc[t].at = PlaceOf(w) /\ pc[t].q = p /\ z.errno[t] = "OK" /\ Sleep(z.k)[t] # "awake"
    BY <2>1, WaiterPlaced DEF Reason, NOTEMPTY, NOTFULL
  <2>4. pc \in [Task -> CallState] /\ z.errno \in [Task -> Errno] /\ t # r
    BY <1>9, <2>3, Runner
  <2>5. /\ \A u \in Task \ {r, t} : Untouched(u)
        /\ pc'[t] = pc[t] /\ z'.errno[t] = "OK"
    BY <2>1, <2>2, <2>3, <2>4 DEF Untouched
  <2>6. A \ {r, t} \subseteq B /\ Waiters(z, q, NOTFULL) # {} /\ MaxMsgs <= n + Cardinality(A)
    BY <1>2, <2>2, <2>5, FillersStay
  <2>7. t \notin A
    BY <2>3, FillerIs DEF PlaceOf, Filling
  <2>8. CASE p = q /\ w = NOTFULL
    <3>1. t \in B
      BY <1>1, <2>2, <2>3, <2>5, <2>8, FillerIs DEF PlaceOf
    <3>2. (A \ {r}) \union {t} \subseteq B /\ t \in Task \ A
      BY <2>6, <2>7, <3>1
    <3>3. Cardinality(A) <= Cardinality(B)
      BY <1>3, <3>2, Remain
    <3> QED  BY <1>1, <1>3, <2>2, <2>6, <3>3
  <2>9. CASE ~(p = q /\ w = NOTFULL)
    <3>1. r \notin A
      BY <1>1, <2>1, <2>9, FillerIs DEF Filling, Reason
    <3>2. A \subseteq B
      BY <2>6, <2>7, <3>1
    <3> QED  BY <1>4, <2>2, <2>6, <3>2
  <2> QED  BY <2>8, <2>9
<1>10. ASSUME NEW p \in Queue, NEW m \in Message, IsrSent(p, m) PROVE Goal
  <2>1. pc' = pc /\ InsertedMsg(p, m) /\ z'.errno = z.errno
    BY <1>10 DEF IsrSent
  <2>2. Len(z'.msgs[q]) \in {n, n + 1}
    <3>1. CASE p = q
      BY <1>1, <2>1, <3>1, PutCounts
    <3>2. CASE p # q
      <4>1. z'.msgs[q] = z.msgs[q]
        BY <1>1, <2>1, <3>2, PutCounts
      <4> QED  BY <4>1
    <3> QED  BY <3>1, <3>2
  <2>3. CASE Sleep(z'.k) = Sleep(z.k) /\ z'.msgwaitq = z.msgwaitq
    <3>1. Waiters(z', q, NOTFULL) = Waiters(z, q, NOTFULL)
      BY <1>1, <2>3, WaitersSame
    <3>2. A \subseteq B
      BY <2>1, <2>3 DEF Fillers, Servers
    <3> QED  BY <1>4, <2>2, <3>1, <3>2
  <2>4. ASSUME NEW t \in Waiters(z, p, NOTEMPTY), Sleep(z'.k) = [Sleep(z.k) EXCEPT ![t] = "awake"],
               z'.msgwaitq = [z.msgwaitq EXCEPT ![t] = NULL]
        PROVE  Goal
    <3>1. t \in Task /\ pc[t].at = "recvwait"
      BY <1>1, WaiterPlaced DEF PlaceOf
    <3>2. /\ Waiters(z', q, NOTFULL) \subseteq Waiters(z, q, NOTFULL)
          /\ \A u \in Task \ {t} : Sleep(z'.k)[u] = Sleep(z.k)[u]
      BY <1>1, <2>4, <3>1, WaitersWoken
    <3>3. \A u \in Task \ {t} : Untouched(u)
      BY <2>1, <3>2 DEF Untouched
    <3>4. A \subseteq B /\ Waiters(z, q, NOTFULL) # {}
      <4>1. t \notin A
        BY <3>1, FillerIs DEF Filling
      <4>2. A \ {t} \subseteq B
        BY <3>3, FillersStay
      <4> HIDE DEF A, B
      <4> QED  BY <3>2, <4>1, <4>2
    <3> HIDE DEF A, B, n
    <3> QED  BY <1>4, <2>2, <3>4
  <2> QED  BY <1>10, <2>3, <2>4 DEF IsrSent
<1>11. ASSUME NEW t \in Task, Aborted(t) \/ RestartedTask(t) PROVE Goal
  <2>1. /\ WokeUp(z, t, z') /\ (pc' = pc \/ pc' = [pc EXCEPT ![t] = User])
        /\ \A u \in Task \ {t} : z'.errno[u] = z.errno[u]
    BY <1>11 DEF Aborted, RestartedTask
  <2>2. /\ \A u \in Task \ {t} : Sleep(z'.k)[u] = Sleep(z.k)[u]
        /\ z'.msgs = z.msgs /\ Waiters(z', q, NOTFULL) \subseteq Waiters(z, q, NOTFULL)
        /\ pc[t].at \in Waits /\ Sleep(z.k)[t] # "awake"
    BY <1>1, <2>1, WokenTouches
  <2>3. pc \in [Task -> CallState]
    BY DEF Core, CallsValid
  <2>4. \A u \in Task \ {t} : Untouched(u)
    BY <2>1, <2>2, <2>3 DEF Untouched
  <2>5. t \notin A
    BY <2>2, FillerIs DEF Waits, Filling
  <2>6. A \subseteq B
    <3>1. A \ {t} \subseteq B
      BY <2>4, FillersStay
    <3> HIDE DEF A, B
    <3> QED  BY <2>5, <3>1
  <2>7. Len(z'.msgs[q]) = n
    BY <2>2
  <2>8. Waiters(z, q, NOTFULL) # {}
    BY <2>2
  <2> HIDE DEF A, B, n
  <2> QED  BY <1>4, <2>6, <2>7, <2>8
<1>12. ASSUME z' = z, pc' = pc PROVE Goal
  <2>1. A \subseteq B
    BY <1>12 DEF Fillers, Servers
  <2> QED  BY <1>4, <1>12, <2>1
<1>13. Effect
  BY StepEffect
<1> HIDE DEF Goal
<1> QED  BY <1>5, <1>6, <1>7, <1>8, <1>9, <1>10, <1>11, <1>12, <1>13 DEF Effect

\* No sender ever sleeps beside a free place that nobody will fill, as long as
\* every mq_send gets the message it allocates: one that fails with ENOMEM after
\* it was woken does not pass its place on.
THEOREM SendersNeverForgotten ==
  ASSUME "ENOMEM" \notin Calls
  PROVE  Spec => []SendersNotForgotten
<1> DEFINE Served == \A q \in Queue : SendersServed(q)
<1>1. Init => Served
  <2>1. ASSUME Init, NEW q \in Queue PROVE SendersServed(q)
    <3>1. MqSound(z) /\ z.nwait[NOTFULL][q] = 0 /\ NOTFULL \in Reason
      BY <2>1, InitCore DEF Core, Init, Reason
    <3>2. Waiters(z, q, NOTFULL) = {}
      BY <3>1, CounterTells
    <3> QED  BY <3>2 DEF SendersServed
  <2> QED  BY <2>1
<1>2. Core /\ Served /\ [Next]_vars => Served'
  <2> SUFFICES ASSUME Core, Served, [Next]_vars, NEW q \in Queue PROVE SendersServed(q)'
    OBVIOUS
  <2> QED  BY SendersStep
<1>3. Core /\ Served => SendersNotForgotten
  <2> SUFFICES ASSUME Core, Served, NEW q \in Queue, Waiters(z, q, NOTFULL) # {}
               PROVE  MaxMsgs - Len(z.msgs[q]) <=
                        Cardinality(Woken(q, "sendwait"))
                        + Cardinality(InCall(q, {"alloc", "dosend", "msgfree", "wakesender"}))
    BY DEF SendersNotForgotten
  <2>1. MaxMsgs <= Len(z.msgs[q]) + Cardinality(Fillers(q))
    BY DEF SendersServed
  <2>2. /\ Cardinality(Fillers(q)) = Cardinality(Woken(q, "sendwait"))
                                     + Cardinality(InCall(q, {"alloc", "dosend", "msgfree", "wakesender"}))
        /\ Cardinality(Fillers(q)) \in Nat
    BY ServersCounted DEF Fillers, Filling
  <2>3. Len(z.msgs[q]) \in Nat /\ MaxMsgs \in Nat
    <3>1. z.msgs[q] \in Seq(Message)
      BY MqFields DEF Core, MqSound, MsgLists
    <3> QED  BY <3>1, LenProperties, MqueueAssumption
  <2> QED  BY <2>1, <2>2, <2>3
<1> QED  BY <1>1, <1>2, <1>3, CoreAlways, PTL DEF Spec
=============================================================================
