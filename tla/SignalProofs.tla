---------------------------- MODULE SignalProofs ----------------------------
(***************************************************************************)
(* The promises of the signals, for any number of tasks, signals and       *)
(* handlers: masks are restored, no signal is missed, and every queued     *)
(* action is on its way to its handler.                                    *)
(***************************************************************************)
EXTENDS Signal, KernelProofs, FiniteSetTheorems

\* The frames of a stack, one by one: s with frame f on top.
Cons(f, s) == <<f>> \o s

\* What the frame f leaves of the mask m when it returns.
Saver(f) == f.op \in {"handler", "suspend"}
Under(f, m) == IF Saver(f) THEN f.saved ELSE m

\* The frames in which the task waits, and those that do not hold the lock.
WaitFrame(f) == f.op \in {"suspend", "timedwait"}
Loose(f) == f.op \in {"addpending", "schedule"}

\* The frame of a call that adds a pending signal to the list of t.
AddTo(f, t) == f.op = "addpending" /\ f.to = t

\* The kinds of frames and their fields.
LEMMA FrameKinds ==
  ASSUME NEW f \in Frame
  PROVE  /\ f.op \in {"unlock", "addpending", "schedule", "deliver", "handler", "posted", "unmask",
                      "suspend", "timedwait"}
         /\ Loose(f) => f.to \in Client /\ f.act \in Action /\ f = [op |-> f.op, to |-> f.to, act |-> f.act]
         /\ f.op = "deliver" => f.next \in SendId \union {NULL} /\ f.irqoff \in BOOLEAN
         /\ f.op \in {"handler", "posted"} =>
              /\ f.next \in SendId \union {NULL} /\ f.irqoff \in BOOLEAN /\ f.saved \in SUBSET Sig
              /\ f = [op |-> f.op, next |-> f.next, irqoff |-> f.irqoff, saved |-> f.saved]
         /\ f.op = "unmask" => f.set \in SUBSET Sig /\ f = [op |-> "unmask", set |-> f.set]
         /\ f.op = "suspend" => f.saved \in SUBSET Sig
<1>1. CASE f \in [op : {"unlock"}]
  BY <1>1 DEF Loose
<1>2. CASE f \in [op : {"addpending", "schedule"}, to : Client, act : Action]
  BY <1>2 DEF Loose
<1>3. CASE f \in [op : {"deliver"}, next : SendId \union {NULL}, irqoff : BOOLEAN]
  BY <1>3 DEF Loose
<1>4. CASE f \in [op : {"handler", "posted"}, next : SendId \union {NULL}, irqoff : BOOLEAN, saved : SUBSET Sig]
  BY <1>4 DEF Loose
<1>5. CASE f \in [op : {"unmask"}, set : SUBSET Sig]
  BY <1>5 DEF Loose
<1>6. CASE f \in [op : {"suspend"}, saved : SUBSET Sig]
  BY <1>6 DEF Loose
<1>7. CASE f \in [op : {"timedwait"}, timed : BOOLEAN]
  BY <1>7 DEF Loose
<1> QED  BY <1>1, <1>2, <1>3, <1>4, <1>5, <1>6, <1>7 DEF Frame

\* The frames that the calls make.
LEMMA FrameMade ==
  /\ [op |-> "unlock"] \in Frame
  /\ \A o \in {"addpending", "schedule"}, t \in Client, a \in Action : [op |-> o, to |-> t, act |-> a] \in Frame
  /\ \A n \in SendId \union {NULL}, b \in BOOLEAN : [op |-> "deliver", next |-> n, irqoff |-> b] \in Frame
  /\ \A o \in {"handler", "posted"}, n \in SendId \union {NULL}, b \in BOOLEAN, m \in SUBSET Sig :
       [op |-> o, next |-> n, irqoff |-> b, saved |-> m] \in Frame
  /\ \A m \in SUBSET Sig : [op |-> "unmask", set |-> m] \in Frame /\ [op |-> "suspend", saved |-> m] \in Frame
  /\ \A b \in BOOLEAN : [op |-> "timedwait", timed |-> b] \in Frame
BY DEF Frame

\* A frame on a stack.
LEMMA ConsAt ==
  ASSUME NEW T, NEW f \in T, NEW s \in Seq(T)
  PROVE  /\ Cons(f, s) \in Seq(T) /\ Len(s) \in Nat /\ Len(Cons(f, s)) = Len(s) + 1 /\ Cons(f, s) # <<>>
         /\ Cons(f, s)[1] = f /\ \A i \in 1..Len(s) : Cons(f, s)[i + 1] = s[i]
         /\ Tail(Cons(f, s)) = s
<1>1. Len(s) \in Nat /\ <<f>> \in Seq(T) /\ Len(<<f>>) = 1
  BY LenProperties
<1>2. /\ Cons(f, s) \in Seq(T) /\ Len(Cons(f, s)) = 1 + Len(s)
      /\ \A i \in 1..(1 + Len(s)) : Cons(f, s)[i] = IF i <= 1 THEN <<f>>[i] ELSE s[i - 1]
  BY <1>1, ConcatProperties DEF Cons
<1>3. Cons(f, s)[1] = f /\ \A i \in 1..Len(s) : Cons(f, s)[i + 1] = s[i]
  BY <1>1, <1>2
<1>4. Cons(f, s) # <<>>
  BY <1>1, <1>2
<1> DEFINE c == Cons(f, s)
<1> HIDE DEF c
<1>5. /\ Tail(c) \in Seq(T) /\ Len(Tail(c)) = Len(c) - 1
      /\ \A i \in 1..Len(Tail(c)) : Tail(c)[i] = c[i + 1]
  BY <1>2, <1>4, HeadTailProperties DEF c
<1>6. Tail(c) = s
  <2>1. Len(Tail(c)) = Len(s) /\ \A i \in 1..Len(s) : Tail(c)[i] = s[i]
    BY <1>1, <1>2, <1>3, <1>5 DEF c
  <2> QED  BY <1>5, <2>1, SeqEqual
<1> QED  BY <1>1, <1>2, <1>3, <1>4, <1>6 DEF c

\* Every stack is empty, or a frame on a stack.
LEMMA ConsOf ==
  ASSUME NEW T, NEW s \in Seq(T), s # <<>>
  PROVE  s[1] \in T /\ Tail(s) \in Seq(T) /\ s = Cons(s[1], Tail(s))
<1>1. /\ Len(s) \in Nat \ {0} /\ Tail(s) \in Seq(T) /\ Len(Tail(s)) = Len(s) - 1
      /\ \A i \in 1..Len(Tail(s)) : Tail(s)[i] = s[i + 1]
  BY HeadTailProperties, EmptySeq
<1>2. s[1] \in T
  BY <1>1, ElementOfSeq
<1> DEFINE h == s[1]
           u == Tail(s)
           c == Cons(h, u)
<1>3. /\ c \in Seq(T) /\ Len(c) = Len(Tail(s)) + 1 /\ c[1] = s[1]
      /\ \A i \in 1..Len(Tail(s)) : c[i + 1] = Tail(s)[i]
  <2>1. h \in T /\ u \in Seq(T)
    BY <1>1, <1>2
  <2> HIDE DEF h, u
  <2>2. c \in Seq(T) /\ Len(c) = Len(u) + 1 /\ c[1] = h /\ \A i \in 1..Len(u) : c[i + 1] = u[i]
    BY <2>1, ConsAt
  <2> QED  BY <2>2 DEF h, u
<1> HIDE DEF c
<1>4. \A i \in 1..Len(s) : c[i] = s[i]
  <2> SUFFICES ASSUME NEW i \in 1..Len(s), i # 1 PROVE c[i] = s[i]
    BY <1>3
  <2>1. i - 1 \in 1..Len(Tail(s)) /\ (i - 1) + 1 = i
    BY <1>1
  <2> QED  BY <1>1, <1>3, <2>1
<1>5. Len(c) = Len(s)
  BY <1>1, <1>3
<1>6. c = s
  BY <1>3, <1>4, <1>5, SeqEqual
<1> QED  BY <1>1, <1>2, <1>6 DEF c

\* What the code pushes.
LEMMA Pushes ==
  ASSUME NEW T, NEW f \in T, NEW g \in T, NEW s \in Seq(T)
  PROVE  /\ <<>> \o s = s /\ <<f>> \o s = Cons(f, s) /\ <<f, g>> \o s = Cons(f, Cons(g, s))
         /\ <<f>> \o (<<g>> \o s) = Cons(f, Cons(g, s))
<1>1. <<>> \o s = s
  BY ConcatEmptySeq
<1>2. <<f, g>> = <<f>> \o <<g>> /\ <<f>> \in Seq(T) /\ <<g>> \in Seq(T)
  <2> DEFINE a == <<f>>
             b == <<g>>
             c == <<f, g>>
  <2>1. /\ a \in Seq(T) /\ b \in Seq(T) /\ c \in Seq(T) /\ Len(a) = 1 /\ Len(b) = 1 /\ Len(c) = 2
        /\ a[1] = f /\ b[1] = g /\ c[1] = f /\ c[2] = g
    OBVIOUS
  <2> HIDE DEF a, b, c
  <2>2. /\ a \o b \in Seq(T) /\ Len(a \o b) = Len(a) + Len(b)
        /\ \A i \in 1..(Len(a) + Len(b)) : (a \o b)[i] = IF i <= Len(a) THEN a[i] ELSE b[i - Len(a)]
    BY <2>1, ConcatProperties
  <2>3. Len(c) = Len(a \o b) /\ \A i \in 1..Len(c) : c[i] = (a \o b)[i]
    BY <2>1, <2>2
  <2>4. c = a \o b
    BY <2>1, <2>2, <2>3, SeqEqual
  <2> QED  BY <2>1, <2>4 DEF a, b, c
<1>3. <<f, g>> \o s = <<f>> \o (<<g>> \o s)
  BY <1>2, ConcatAssociative
<1> QED  BY <1>1, <1>3 DEF Cons

\* Two frames at once.
LEMMA PushTwo ==
  ASSUME NEW f \in Frame, NEW g \in Frame, NEW s \in Seq(Frame), NEW q, q = <<f, g>>
  PROVE  q \o s = Cons(f, Cons(g, s))
BY Pushes

-----------------------------------------------------------------------------
\* The frames of a stack, as a set.
Frames(s) == {s[i] : i \in 1..Len(s)}

\* The set grows by the frame pushed.
LEMMA FramesCons ==
  ASSUME NEW f \in Frame, NEW s \in Seq(Frame)
  PROVE  Frames(Cons(f, s)) = {f} \union Frames(s)
<1>1. /\ Len(s) \in Nat /\ Len(Cons(f, s)) = Len(s) + 1
      /\ Cons(f, s)[1] = f /\ \A i \in 1..Len(s) : Cons(f, s)[i + 1] = s[i]
  BY ConsAt
<1> DEFINE c == Cons(f, s)
<1> HIDE DEF c
<1>2. ASSUME NEW g \in Frames(c) PROVE g = f \/ g \in Frames(s)
  <2>1. PICK i \in 1..(Len(s) + 1) : g = c[i]
    BY <1>1 DEF Frames, c
  <2>2. CASE i # 1
    <3>1. i - 1 \in 1..Len(s) /\ (i - 1) + 1 = i
      BY <1>1, <2>1, <2>2
    <3> QED  BY <1>1, <2>1, <3>1 DEF Frames, c
  <2> QED  BY <1>1, <2>1, <2>2 DEF c
<1>3. f \in Frames(c) /\ \A g \in Frames(s) : g \in Frames(c)
  <2>1. f \in Frames(c)
    <3>1. 1 \in 1..Len(c) /\ c[1] = f
      BY <1>1 DEF c
    <3> QED  BY <3>1 DEF Frames
  <2>2. ASSUME NEW g \in Frames(s) PROVE g \in Frames(c)
    <3>1. PICK i \in 1..Len(s) : g = s[i]
      BY DEF Frames
    <3>2. i + 1 \in 1..Len(c) /\ c[i + 1] = g
      BY <1>1, <3>1 DEF c
    <3> QED  BY <3>2 DEF Frames
  <2> QED  BY <2>1, <2>2
<1> QED  BY <1>2, <1>3 DEF c

\* No frames.
LEMMA FramesEmpty ==
  ASSUME NEW s \in Seq(Frame)
  PROVE  Frames(<<>>) = {} /\ Frames(s) \subseteq Frame
<1>1. Len(<<>>) = 0
  OBVIOUS
<1>2. \A i \in 1..Len(s) : s[i] \in Frame
  BY ElementOfSeq
<1> QED  BY <1>1, <1>2 DEF Frames

\* The number of frames that hold the scheduler lock.
Holding(s) == {i \in 1..Len(s) : ~Loose(s[i])}
Count(s) == Cardinality(Holding(s))

\* It is a number.
LEMMA CountNat ==
  ASSUME NEW s \in Seq(Frame)
  PROVE  Count(s) \in Nat /\ IsFiniteSet(Holding(s)) /\ Count(<<>>) = 0
<1>1. Len(s) \in Nat
  BY LenProperties
<1>2. IsFiniteSet(1..Len(s)) /\ Holding(s) \in SUBSET (1..Len(s))
  BY <1>1, FS_Interval DEF Holding
<1>3. Holding(<<>>) = {}
  <2>1. Len(<<>>) = 0
    OBVIOUS
  <2> QED  BY <2>1 DEF Holding
<1> QED  BY <1>2, <1>3, FS_Subset, FS_CardinalityType, FS_EmptySet DEF Count

\* A frame counts once.
LEMMA CountCons ==
  ASSUME NEW f \in Frame, NEW s \in Seq(Frame)
  PROVE  Count(Cons(f, s)) = IF Loose(f) THEN Count(s) ELSE Count(s) + 1
<1> DEFINE c == Cons(f, s)
           G == Holding(s)
           H == Holding(c) \ {1}
           h == [n \in G |-> n + 1]
<1>1. /\ c \in Seq(Frame) /\ Len(s) \in Nat /\ Len(c) = Len(s) + 1
      /\ c[1] = f /\ \A i \in 1..Len(s) : c[i + 1] = s[i]
  BY ConsAt
<1> HIDE DEF c
<1>2. h \in [G -> H]
  BY <1>1 DEF Holding
<1>3. \A x, y \in G : h[x] = h[y] => x = y
  BY <1>1 DEF Holding
<1>4. ASSUME NEW y \in H PROVE \E x \in G : h[x] = y
  <2>1. y \in 1..Len(c) /\ y # 1 /\ ~Loose(c[y])
    BY DEF Holding
  <2>2. y - 1 \in 1..Len(s) /\ (y - 1) + 1 = y
    BY <1>1, <2>1
  <2>3. y - 1 \in G
    BY <1>1, <2>1, <2>2 DEF Holding
  <2> QED  BY <2>2, <2>3
<1>5. IsFiniteSet(G) /\ IsFiniteSet(Holding(c)) /\ Count(s) \in Nat /\ Count(c) \in Nat
  BY <1>1, CountNat
<1>6. 1 \in Holding(c) <=> ~Loose(f)
  BY <1>1 DEF Holding
<1> HIDE DEF G, H, h
<1>7. Cardinality(H) = Cardinality(G)
  <2>1. h \in Bijection(G, H)
    BY <1>2, <1>3, <1>4 DEF Bijection, Injection, Surjection, IsInjective
  <2>2. ExistsBijection(G, H)
    BY <2>1 DEF ExistsBijection
  <2> QED  BY <1>5, <2>2, FS_Bijection
<1>8. Cardinality(H) = IF 1 \in Holding(c) THEN Cardinality(Holding(c)) - 1 ELSE Cardinality(Holding(c))
  BY <1>5, FS_RemoveElement DEF H
<1> QED  BY <1>5, <1>6, <1>7, <1>8 DEF G, Count, c

\* The outermost frame holds the lock, and a task waits only outside all other calls.
Grounded(s) == s # <<>> => ~Loose(s[Len(s)])
WaitsLast(s) == \A i \in 1..Len(s) : WaitFrame(s[i]) => i = Len(s)
Shape(s) == Grounded(s) /\ WaitsLast(s)

\* Such a stack, frame by frame.
LEMMA ShapeCons ==
  ASSUME NEW f \in Frame, NEW s \in Seq(Frame)
  PROVE  Shape(Cons(f, s)) <=> /\ Shape(s)
                               /\ s = <<>> => ~Loose(f)
                               /\ s # <<>> => ~WaitFrame(f)
<1> DEFINE c == Cons(f, s)
<1>1. /\ c \in Seq(Frame) /\ Len(s) \in Nat /\ Len(c) = Len(s) + 1 /\ c # <<>>
      /\ c[1] = f /\ \A i \in 1..Len(s) : c[i + 1] = s[i]
  BY ConsAt
<1>2. s # <<>> <=> Len(s) \in Nat \ {0}
  BY <1>1, EmptySeq
<1> HIDE DEF c
<1>3. Grounded(c) <=> Grounded(s) /\ (s = <<>> => ~Loose(f))
  <2>1. CASE s = <<>>
    BY <1>1, <1>2, <2>1 DEF Grounded
  <2>2. CASE s # <<>>
    <3>1. c[Len(c)] = s[Len(s)]
      BY <1>1, <1>2, <2>2
    <3> QED  BY <1>1, <2>2, <3>1 DEF Grounded
  <2> QED  BY <2>1, <2>2
<1>4. ASSUME WaitsLast(c) PROVE WaitsLast(s) /\ (s # <<>> => ~WaitFrame(f))
  <2>1. ASSUME NEW i \in 1..Len(s), WaitFrame(s[i]) PROVE i = Len(s)
    <3>1. i + 1 \in 1..Len(c) /\ c[i + 1] = s[i]
      BY <1>1
    <3>2. i + 1 = Len(c)
      BY <1>4, <2>1, <3>1 DEF WaitsLast
    <3> QED  BY <1>1, <3>2
  <2>2. ASSUME s # <<>>, WaitFrame(f) PROVE FALSE
    <3>1. 1 \in 1..Len(c) /\ WaitFrame(c[1])
      BY <1>1, <2>2
    <3>2. 1 = Len(c)
      BY <1>4, <3>1 DEF WaitsLast
    <3> QED  BY <1>1, <1>2, <2>2, <3>2
  <2> QED  BY <2>1, <2>2 DEF WaitsLast
<1>5. ASSUME WaitsLast(s), s # <<>> => ~WaitFrame(f) PROVE WaitsLast(c)
  <2> SUFFICES ASSUME NEW i \in 1..Len(c), WaitFrame(c[i]) PROVE i = Len(c)
    BY DEF WaitsLast
  <2>1. CASE i = 1
    BY <1>1, <1>2, <1>5, <2>1
  <2>2. CASE i # 1
    <3>1. i - 1 \in 1..Len(s) /\ (i - 1) + 1 = i
      BY <1>1, <2>2
    <3>2. WaitFrame(s[i - 1])
      BY <1>1, <3>1
    <3>3. i - 1 = Len(s)
      BY <1>5, <3>1, <3>2 DEF WaitsLast
    <3> QED  BY <1>1, <3>3
  <2> QED  BY <2>1, <2>2
<1> QED  BY <1>3, <1>4, <1>5 DEF Shape, c

\* A stack without a frame that holds the lock is empty.
LEMMA GroundedEmpty ==
  ASSUME NEW s \in Seq(Frame), Grounded(s)
  PROVE  Count(s) = 0 <=> s = <<>>
<1>1. CASE s = <<>>
  BY <1>1, CountNat
<1>2. CASE s # <<>>
  <2>1. Len(s) \in 1..Len(s)
    BY <1>2, EmptySeq
  <2>2. Len(s) \in Holding(s)
    BY <1>2, <2>1 DEF Holding, Grounded
  <2>3. Holding(s) # {} /\ IsFiniteSet(Holding(s))
    BY <2>2, CountNat
  <2> QED  BY <1>2, <2>3, FS_EmptySet DEF Count
<1> QED  BY <1>1, <1>2

-----------------------------------------------------------------------------
\* The masks that come back one by one as the frames of s return, from the mask m of
\* now to the mask o of the program: L[i] is in force when the frame i is on top.  A
\* signal that the task is about to add to its own pending signals is masked then.
Levels(s, m, o, t, L) ==
  /\ L \in Seq(SUBSET Sig) /\ Len(L) = Len(s) + 1 /\ L[1] = m /\ L[Len(s) + 1] = o
  /\ \A i \in 1..Len(s) : L[i + 1] = Under(s[i], L[i]) /\ (AddTo(s[i], t) => s[i].act.sig \in L[i])
Framed(s, m, o, t) == \E L : Levels(s, m, o, t, L)

\* Without frames the mask is the program's.
LEMMA FramedEmpty ==
  ASSUME NEW m \in SUBSET Sig, NEW o, NEW t
  PROVE  Framed(<<>>, m, o, t) <=> m = o
<1>1. Len(<<>>) = 0
  OBVIOUS
<1>2. ASSUME Framed(<<>>, m, o, t) PROVE m = o
  <2>1. PICK L : Levels(<<>>, m, o, t, L)
    BY <1>2 DEF Framed
  <2> QED  BY <1>1, <2>1 DEF Levels
<1>3. ASSUME m = o PROVE Framed(<<>>, m, o, t)
  <2>1. PICK L : L = <<m>>
    OBVIOUS
  <2>2. L \in Seq(SUBSET Sig) /\ Len(L) = 1 /\ L[1] = m
    BY <2>1
  <2>3. Levels(<<>>, m, o, t, L)
    BY <1>1, <1>3, <2>2 DEF Levels
  <2> QED  BY <2>3 DEF Framed
<1> QED  BY <1>2, <1>3

\* With a frame f on top, the frames below start from what f leaves.
LEMMA FramedCons ==
  ASSUME NEW f \in Frame, NEW s \in Seq(Frame), NEW m \in SUBSET Sig, NEW o, NEW t
  PROVE  Framed(Cons(f, s), m, o, t) <=>
           Framed(s, Under(f, m), o, t) /\ (AddTo(f, t) => f.act.sig \in m)
<1> DEFINE c == Cons(f, s)
<1>1. /\ c \in Seq(Frame) /\ Len(s) \in Nat /\ Len(c) = Len(s) + 1
      /\ c[1] = f /\ \A i \in 1..Len(s) : c[i + 1] = s[i]
  BY ConsAt
<1> HIDE DEF c
<1>2. ASSUME Framed(c, m, o, t)
      PROVE  Framed(s, Under(f, m), o, t) /\ (AddTo(f, t) => f.act.sig \in m)
  <2>1. PICK L : Levels(c, m, o, t, L)
    BY <1>2 DEF Framed
  <2>2. /\ L \in Seq(SUBSET Sig) /\ Len(L) = Len(s) + 2 /\ L[1] = m /\ L[Len(s) + 2] = o
        /\ \A i \in 1..Len(c) : L[i + 1] = Under(c[i], L[i]) /\ (AddTo(c[i], t) => c[i].act.sig \in L[i])
    BY <1>1, <2>1 DEF Levels
  <2>3. L # <<>>
    BY <1>1, <2>2
  <2>4. PICK M : M = Tail(L)
    OBVIOUS
  <2>5. M \in Seq(SUBSET Sig) /\ Len(M) = Len(s) + 1 /\ \A i \in 1..(Len(s) + 1) : M[i] = L[i + 1]
    BY <1>1, <2>2, <2>3, <2>4, HeadTailProperties
  <2>6. L[2] = Under(f, m) /\ (AddTo(f, t) => f.act.sig \in m)
    <3>1. 1 \in 1..Len(c)
      BY <1>1
    <3> QED  BY <1>1, <2>2, <3>1
  <2>7. M[1] = Under(f, m) /\ M[Len(s) + 1] = o
    BY <1>1, <2>2, <2>5, <2>6
  <2>8. ASSUME NEW i \in 1..Len(s)
        PROVE  M[i + 1] = Under(s[i], M[i]) /\ (AddTo(s[i], t) => s[i].act.sig \in M[i])
    <3>1. i + 1 \in 1..Len(c) /\ c[i + 1] = s[i] /\ i \in 1..(Len(s) + 1) /\ i + 1 \in 1..(Len(s) + 1)
      BY <1>1
    <3> QED  BY <2>2, <2>5, <3>1
  <2>9. Levels(s, Under(f, m), o, t, M)
    BY <2>5, <2>7, <2>8 DEF Levels
  <2> QED  BY <2>6, <2>9 DEF Framed
<1>3. ASSUME Framed(s, Under(f, m), o, t), AddTo(f, t) => f.act.sig \in m
      PROVE  Framed(c, m, o, t)
  <2>1. PICK L : Levels(s, Under(f, m), o, t, L)
    BY <1>3 DEF Framed
  <2>2. /\ L \in Seq(SUBSET Sig) /\ Len(L) = Len(s) + 1 /\ L[1] = Under(f, m) /\ L[Len(s) + 1] = o
        /\ \A i \in 1..Len(s) : L[i + 1] = Under(s[i], L[i]) /\ (AddTo(s[i], t) => s[i].act.sig \in L[i])
    BY <2>1 DEF Levels
  <2>3. PICK M : M = Cons(m, L)
    OBVIOUS
  <2>4. /\ M \in Seq(SUBSET Sig) /\ Len(M) = Len(L) + 1 /\ M[1] = m
        /\ \A i \in 1..Len(L) : M[i + 1] = L[i]
    <3>1. PICK T : T = SUBSET Sig
      OBVIOUS
    <3>2. m \in T /\ L \in Seq(T)
      BY <2>2, <3>1
    <3>3. ASSUME NEW x \in T, NEW l \in Seq(T)
          PROVE  /\ Cons(x, l) \in Seq(T) /\ Len(Cons(x, l)) = Len(l) + 1 /\ Cons(x, l)[1] = x
                 /\ \A i \in 1..Len(l) : Cons(x, l)[i + 1] = l[i]
      BY ConsAt
    <3>4. M \in Seq(T) /\ Len(M) = Len(L) + 1 /\ M[1] = m /\ \A i \in 1..Len(L) : M[i + 1] = L[i]
      BY <2>3, <3>2, <3>3
    <3> QED  BY <3>1, <3>4
  <2>5. Len(M) = Len(c) + 1 /\ M[Len(c) + 1] = o
    BY <1>1, <2>2, <2>4
  <2>6. ASSUME NEW i \in 1..Len(c)
        PROVE  M[i + 1] = Under(c[i], M[i]) /\ (AddTo(c[i], t) => c[i].act.sig \in M[i])
    <3>1. CASE i = 1
      <4>1. M[2] = L[1]
        BY <1>1, <2>2, <2>4
      <4> QED  BY <1>1, <1>3, <2>2, <2>4, <3>1, <4>1
    <3>2. CASE i # 1
      <4>1. PICK j \in 1..Len(s) : i = j + 1
        <5>1. i - 1 \in 1..Len(s) /\ i = (i - 1) + 1
          BY <1>1, <3>2
        <5> QED  BY <5>1
      <4>2. M[i] = L[j] /\ M[i + 1] = L[j + 1] /\ c[i] = s[j]
        BY <1>1, <2>2, <2>4, <4>1
      <4> QED  BY <2>2, <4>1, <4>2
    <3> QED  BY <3>1, <3>2
  <2>7. Levels(c, m, o, t, M)
    BY <2>4, <2>5, <2>6 DEF Levels
  <2> QED  BY <2>7 DEF Framed
<1> QED  BY <1>2, <1>3 DEF c

-----------------------------------------------------------------------------
\* The part of the invariant that is about stacks, locks and masks.

Asleep(k) == {t \in Task : k.state[t] = "WAIT_SIG"}
AtWait(s) == s # <<>> /\ WaitFrame(s[1])
HasTimed(s) == \E f \in Frames(s) : f.op = "timedwait"

MaskMap == [Task -> SUBSET Sig]
ActMap == [Task -> Seq(Action)]
SigState ==
  [ k : KernelState, mask : MaskMap, waitmask : MaskMap, pending : ActMap, actions : ActMap,
    sigdeliver : SUBSET Task, waitdog : SUBSET Task ]

Typed ==
  /\ z \in SigState /\ z.sigdeliver \subseteq Client
  /\ stack \in [Task -> Seq(Frame)] /\ stack[IDLE] = <<>>
  /\ own \in MaskMap /\ corrupt \in BOOLEAN

Kept(t) == Shape(stack[t]) /\ Framed(stack[t], z.mask[t], own[t], t)
LocksCounted == \A t \in Task : z.k.lock[t] = Count(stack[t])
OthersQuiet == \A t \in Task \ {Self} : stack[t] # <<>> => AtWait(stack[t])
SleepersWait == \A t \in Asleep(z.k) : AtWait(stack[t])
WaitsTimed == \A t \in Task : z.waitmask[t] # {} \/ t \in z.waitdog => HasTimed(stack[t])

Base ==
  /\ Typed /\ Sound(z.k) /\ LocksCounted /\ OthersQuiet /\ SleepersWait /\ WaitsTimed
  /\ \A t \in Task : Kept(t)

\* What a step does to them: the running task r goes on with the stack s, the mask m and
\* the mask o of its program, and stops running only outside all calls or in a wait.
Moved(r, s, m, o) ==
  /\ r = Self /\ r \in Task /\ s \in Seq(Frame) /\ (r = IDLE => s = <<>>)
  /\ m \in SUBSET Sig /\ o \in SUBSET Sig
  /\ stack' = [stack EXCEPT ![r] = s]
  /\ z'.mask = [z.mask EXCEPT ![r] = m] /\ own' = [own EXCEPT ![r] = o]
  /\ Sound(z'.k) /\ z'.k.lock = [z.k.lock EXCEPT ![r] = Count(s)]
  /\ Asleep(z'.k) \subseteq Asleep(z.k) \union {r} /\ (r \in Asleep(z'.k) => AtWait(s))
  /\ Self' = r \/ s = <<>> \/ AtWait(s)
  /\ Shape(s) /\ Framed(s, m, o, r)
  /\ \A t \in Task \ {r} : z'.waitmask[t] \subseteq z.waitmask[t] /\ (t \in z'.waitdog => t \in z.waitdog)
  /\ z'.waitmask[r] # {} \/ r \in z'.waitdog => HasTimed(s)

TypedStep ==
  /\ z' \in SigState /\ z'.sigdeliver \subseteq Client /\ corrupt' \in BOOLEAN

\* The running task, awake.
LEMMA Runner ==
  ASSUME Base
  PROVE  /\ Self \in Task /\ Self \notin Asleep(z.k) /\ z.k \in KernelState /\ Sound(z.k)
         /\ Self = this_task(z.k) /\ stack[Self] \in Seq(Frame)
         /\ z.k.lock \in [Task -> Nat] /\ z.k.lock[Self] = Count(stack[Self])
<1>1. Sound(z.k)
  BY DEF Base
<1>2. Self \in Task /\ z.k.state[Self] = "RUNNING" /\ z.k \in KernelState
  BY <1>1, ReadyHead DEF Self, Sound, HeadRuns, Consistent
<1> QED  BY <1>1, <1>2 DEF Asleep, Base, Typed, LocksCounted, KernelState, Self

\* Such a step keeps the invariant.
LEMMA MovedBase ==
  ASSUME Base, NEW r, NEW s, NEW m, NEW o, Moved(r, s, m, o), TypedStep
  PROVE  Base'
<1>1. /\ r = Self /\ r \in Task /\ s \in Seq(Frame) /\ r \notin Asleep(z.k)
      /\ stack \in [Task -> Seq(Frame)] /\ stack' = [stack EXCEPT ![r] = s]
      /\ z.mask \in MaskMap /\ own \in MaskMap /\ z.k.lock \in [Task -> Nat]
  BY Runner DEF Moved, Base, Typed, SigState
<1>2. stack'[r] = s /\ \A t \in Task \ {r} : stack'[t] = stack[t]
  BY <1>1
<1>3. /\ z'.mask[r] = m /\ own'[r] = o /\ z'.k.lock[r] = Count(s)
      /\ \A t \in Task \ {r} : z'.mask[t] = z.mask[t] /\ own'[t] = own[t] /\ z'.k.lock[t] = z.k.lock[t]
  BY <1>1 DEF Moved, MaskMap
<1>4. Typed'
  <2>1. stack' \in [Task -> Seq(Frame)] /\ stack'[IDLE] = <<>>
    BY <1>1, <1>2, KernelAssumption DEF Moved, Base, Typed
  <2>2. own' \in MaskMap
    BY <1>1 DEF Moved, MaskMap
  <2> QED  BY <2>1, <2>2 DEF Typed, TypedStep
<1>5. LocksCounted'
  BY <1>2, <1>3 DEF Base, LocksCounted
<1>6. SleepersWait'
  BY <1>1, <1>2 DEF Base, SleepersWait, Moved
<1>7. OthersQuiet'
  <2> SUFFICES ASSUME NEW t \in Task, t # Self', stack'[t] # <<>> PROVE AtWait(stack'[t])
    BY DEF OthersQuiet
  <2>1. CASE t = r
    BY <1>2, <2>1 DEF Moved
  <2>2. CASE t # r
    BY <1>1, <1>2, <2>2 DEF Base, OthersQuiet
  <2> QED  BY <2>1, <2>2
<1>8. WaitsTimed'
  <2> SUFFICES ASSUME NEW t \in Task, z'.waitmask[t] # {} \/ t \in z'.waitdog PROVE HasTimed(stack'[t])
    BY DEF WaitsTimed, HasTimed
  <2>1. CASE t = r
    BY <1>2, <2>1 DEF Moved
  <2>2. CASE t # r
    <3>1. z.waitmask[t] # {} \/ t \in z.waitdog
      BY <2>2 DEF Moved
    <3> QED  BY <1>2, <2>2, <3>1 DEF Base, WaitsTimed
  <2> QED  BY <2>1, <2>2
<1>9. \A t \in Task : Kept(t)'
  BY <1>1, <1>2, <1>3 DEF Base, Kept, Moved
<1> QED  BY <1>4, <1>5, <1>6, <1>7, <1>8, <1>9 DEF Base, Moved

-----------------------------------------------------------------------------
\* The kernel functions, by what they do to locks and sleepers.

\* sched_lock
LEMMA LockStep ==
  ASSUME NEW k, Sound(k), NEW a, a = sched_lock(k)
  PROVE  /\ Sound(a) /\ a \in KernelState /\ Asleep(a) = Asleep(k) /\ this_task(a) = this_task(k)
         /\ this_task(k) \in Task /\ a.lock = [k.lock EXCEPT ![this_task(k)] = @ + 1]
<1>1. Sound(a) /\ a \in KernelState /\ a.state = k.state /\ a.list = k.list
  BY Lock DEF Tuned, QuietStep, SoundStep
<1>2. k \in KernelState /\ this_task(k) \in Task
  BY ReadyHead DEF Sound, Consistent
<1>3. a.lock = [k.lock EXCEPT ![this_task(k)] = @ + 1]
  BY <1>2 DEF sched_lock, KernelState
<1> QED  BY <1>1, <1>2, <1>3 DEF Asleep, this_task

\* sched_unlock
LEMMA UnlockStep ==
  ASSUME NEW k, Sound(k), NEW a, a = sched_unlock(k), k.lock[this_task(k)] > 0
  PROVE  /\ Sound(a) /\ a \in KernelState /\ Asleep(a) = Asleep(k)
         /\ this_task(k) \in Task /\ a.lock = [k.lock EXCEPT ![this_task(k)] = @ - 1]
         /\ this_task(a) = this_task(k) \/ a.lock[this_task(k)] = 0
<1> DEFINE r == this_task(k)
           b == [k EXCEPT !.lock[r] = IF @ > 0 THEN @ - 1 ELSE 0]
<1>1. Sound(a) /\ SameBlocked(k, a, {}) /\ (this_task(a) = r \/ a.lock[r] = 0)
  BY UnlockSound DEF QuietStep, SoundStep
<1>2. k \in KernelState /\ r \in Task /\ k.lock \in [Task -> Nat]
  BY ReadyHead DEF Sound, Consistent, KernelState
<1>3. b.lock = [k.lock EXCEPT ![r] = @ - 1] /\ b \in KernelState
  <2>1. PICK n \in Nat : n = k.lock[r] - 1
    BY <1>2
  <2>2. b = [k EXCEPT !.lock[r] = n]
    BY <1>2, <2>1 DEF KernelState
  <2> HIDE DEF b, r
  <2> QED  BY <1>2, <2>1, <2>2 DEF KernelState
<1>4. a.lock = b.lock
  <2>1. a = IF b.lock[r] = 0 /\ Pending(b) THEN sched_mergepending(b) ELSE b
    BY DEF sched_unlock, up_release_pending
  <2> HIDE DEF b
  <2>2. sched_mergepending(b).lock = b.lock
    BY <1>3 DEF sched_mergepending, KernelState
  <2> QED  BY <2>1, <2>2
<1>5. Asleep(a) = Asleep(k)
  BY <1>1 DEF SameBlocked, Asleep, BlockedState
<1> QED  BY <1>1, <1>2, <1>3, <1>4, <1>5 DEF Sound, Consistent

\* up_block_task
LEMMA BlockStep ==
  ASSUME NEW k, Sound(k), NEW t, t = this_task(k), t # IDLE, NEW a, a = up_block_task(k, t, "WAIT_SIG")
  PROVE  Sound(a) /\ a \in KernelState /\ Asleep(a) = Asleep(k) \union {t} /\ a.lock = k.lock
<1>1. TaskBlocked(k, t, "WAIT_SIG", a) /\ t \in Task
  BY BlockTask, ReadyHead DEF BlockedState, Sound
<1>2. Asleep(a) = Asleep(k) \union {t}
  BY <1>1 DEF TaskBlocked, SameBlocked, Asleep, BlockedState
<1> QED  BY <1>1, <1>2 DEF TaskBlocked, SoundStep, SameFields, Sound, Consistent

\* up_unblock_task
LEMMA WakeStep ==
  ASSUME NEW k, Sound(k), NEW t \in Asleep(k), NEW a, a = up_unblock_task(k, t)
  PROVE  /\ Sound(a) /\ a \in KernelState /\ Asleep(a) = Asleep(k) \ {t} /\ a.lock = k.lock
         /\ k.lock[this_task(k)] > 0 => this_task(a) = this_task(k)
<1>1. TaskWoken(k, t, a) /\ t \in Task
  BY UnblockSound DEF BlockedState, Asleep
<1>2. Asleep(a) = Asleep(k) \ {t}
  BY <1>1 DEF TaskWoken, SameBlocked, Asleep, BlockedState
<1> QED  BY <1>1, <1>2 DEF TaskWoken, SoundStep, SameFields, Sound, Consistent

\* Both locks and wake-ups, on the state of the signals.
SameSignals(zz, y) ==
  /\ y.mask = zz.mask /\ y.pending = zz.pending /\ y.actions = zz.actions
  /\ y.sigdeliver = zz.sigdeliver

IsLocked(zz, r, y) ==
  /\ y \in SigState /\ Sound(y.k) /\ SameSignals(zz, y)
  /\ y.waitmask = zz.waitmask /\ y.waitdog = zz.waitdog
  /\ Asleep(y.k) = Asleep(zz.k) /\ this_task(y.k) = r /\ y.k.lock = [zz.k.lock EXCEPT ![r] = @ + 1]

IsUnlocked(zz, r, y) ==
  /\ y \in SigState /\ Sound(y.k) /\ SameSignals(zz, y)
  /\ y.waitmask = zz.waitmask /\ y.waitdog = zz.waitdog
  /\ Asleep(y.k) = Asleep(zz.k) /\ y.k.lock = [zz.k.lock EXCEPT ![r] = @ - 1]
  /\ this_task(y.k) = r \/ y.k.lock[r] = 0

IsWoken(zz, t, y) ==
  /\ y \in SigState /\ Sound(y.k) /\ SameSignals(zz, y) /\ y.waitdog = zz.waitdog
  /\ y.waitmask = [zz.waitmask EXCEPT ![t] = {}]
  /\ Asleep(y.k) = Asleep(zz.k) \ {t} /\ y.k.lock = zz.k.lock
  /\ zz.k.lock[this_task(zz.k)] > 0 => this_task(y.k) = this_task(zz.k)

\* Locked
LEMMA LockedState ==
  ASSUME NEW zz \in SigState, Sound(zz.k), NEW y, y = Locked(zz), NEW r, r = this_task(zz.k)
  PROVE  IsLocked(zz, r, y)
<1>1. PICK a : a = sched_lock(zz.k)
  OBVIOUS
<1>2. /\ Sound(a) /\ a \in KernelState /\ Asleep(a) = Asleep(zz.k) /\ this_task(a) = r
      /\ a.lock = [zz.k.lock EXCEPT ![r] = @ + 1]
  BY <1>1, LockStep
<1>3. y = [zz EXCEPT !.k = a]
  BY <1>1 DEF Locked
<1> QED  BY <1>2, <1>3 DEF SigState, SameSignals, IsLocked

\* Unlocked
LEMMA UnlockedState ==
  ASSUME NEW zz \in SigState, Sound(zz.k), NEW y, y = Unlocked(zz), NEW r, r = this_task(zz.k),
         zz.k.lock[r] > 0
  PROVE  IsUnlocked(zz, r, y)
<1>1. PICK a : a = sched_unlock(zz.k)
  OBVIOUS
<1>2. /\ Sound(a) /\ a \in KernelState /\ Asleep(a) = Asleep(zz.k)
      /\ a.lock = [zz.k.lock EXCEPT ![r] = @ - 1] /\ (this_task(a) = r \/ a.lock[r] = 0)
  BY <1>1, UnlockStep
<1>3. y = [zz EXCEPT !.k = a]
  BY <1>1 DEF Unlocked
<1> QED  BY <1>2, <1>3 DEF SigState, SameSignals, IsUnlocked

\* Wake
LEMMA WokenState ==
  ASSUME NEW zz \in SigState, Sound(zz.k), NEW t \in Asleep(zz.k), NEW y, y = Wake(zz, t)
  PROVE  IsWoken(zz, t, y)
<1>1. PICK a : a = up_unblock_task(zz.k, t)
  OBVIOUS
<1>2. /\ Sound(a) /\ a \in KernelState /\ Asleep(a) = Asleep(zz.k) \ {t} /\ a.lock = zz.k.lock
      /\ zz.k.lock[this_task(zz.k)] > 0 => this_task(a) = this_task(zz.k)
  BY <1>1, WakeStep
<1>3. y = [zz EXCEPT !.waitmask[t] = {}, !.k = a]
  BY <1>1 DEF Wake
<1>4. PICK w \in MaskMap : w = [zz.waitmask EXCEPT ![t] = {}]
  BY DEF SigState, MaskMap
<1>5. y = [zz EXCEPT !.waitmask = w, !.k = a]
  BY <1>3, <1>4 DEF SigState
<1> QED  BY <1>2, <1>4, <1>5 DEF SigState, SameSignals, IsWoken

-----------------------------------------------------------------------------
\* The lists of pending and queued signals.

\* m is l without its element i.
IsCut(l, i, m) ==
  /\ i \in 1..Len(l) /\ m \in Seq(Action) /\ Len(m) = Len(l) - 1
  /\ \A n \in 1..(Len(l) - 1) : m[n] = IF n < i THEN l[n] ELSE l[n + 1]

\* dq_rem of an element of the list.
LEMMA CutOut ==
  ASSUME NEW l \in Seq(Action), NEW e, NEW j \in 1..Len(l), l[j] = e
  PROVE  \E i : l[i] = e /\ IsCut(l, i, dq_rem(e, l))
<1>1. Len(l) \in Nat /\ l \in [1..Len(l) -> Action]
  BY LenProperties
<1>2. PICK i : i = CHOOSE n \in 1..Len(l) : l[n] = e
  OBVIOUS
<1>3. i \in 1..Len(l) /\ l[i] = e
  BY <1>2
<1>4. PICK m : m = dq_rem(e, l)
  OBVIOUS
<1>5. m = [n \in 1..(Len(l) - 1) |-> IF n < i THEN l[n] ELSE l[n + 1]]
  BY <1>2, <1>4 DEF dq_rem
<1>6. Len(l) - 1 \in Nat /\ m \in [1..(Len(l) - 1) -> Action]
  <2>1. Len(l) - 1 \in Nat
    BY <1>1, <1>3
  <2>2. \A n \in 1..(Len(l) - 1) : n \in 1..Len(l) /\ n + 1 \in 1..Len(l)
    BY <1>1
  <2> QED  BY <1>1, <1>5, <2>1, <2>2
<1>7. m \in Seq(Action) /\ Len(m) = Len(l) - 1
  BY <1>6, FcnIsSeq
<1>8. \A n \in 1..(Len(l) - 1) : m[n] = IF n < i THEN l[n] ELSE l[n + 1]
  BY <1>5
<1> QED  BY <1>3, <1>4, <1>7, <1>8 DEF IsCut

\* The first entry of a pending signal.
LEMMA FirstFound ==
  ASSUME NEW zz \in SigState, NEW t \in Task, NEW s \in sig_pendingset(zz, t)
  PROVE  /\ FirstPending(zz, t, s) \in Action /\ FirstPending(zz, t, s).sig = s
         /\ \E i \in 1..Len(zz.pending[t]) : FirstPending(zz, t, s) = zz.pending[t][i]
<1>1. PICK l : l = zz.pending[t]
  OBVIOUS
<1>2. l \in Seq(Action) /\ Len(l) \in Nat /\ l \in [1..Len(l) -> Action]
  BY <1>1, LenProperties DEF SigState, ActMap
<1> DEFINE S == {i \in 1..Len(l) : l[i].sig = s}
<1>3. S \in SUBSET Nat /\ S # {}
  BY <1>1, <1>2 DEF sig_pendingset
<1>4. PICK m \in S : \A n \in S : m <= n
  BY <1>3, LeastElement
<1>5. m \in 1..Len(l) /\ l[m].sig = s /\ \A j \in 1..(m - 1) : l[j].sig # s
  BY <1>2, <1>4
<1> DEFINE c == CHOOSE i \in 1..Len(l) : l[i].sig = s /\ \A j \in 1..(i - 1) : l[j].sig # s
<1>6. c \in 1..Len(l) /\ l[c].sig = s
  BY <1>5
<1>7. FirstPending(zz, t, s) = l[c]
  BY <1>1 DEF FirstPending
<1> HIDE DEF c
<1> QED  BY <1>1, <1>2, <1>6, <1>7

SameTasks(zz, y) ==
  /\ y \in SigState /\ y.k = zz.k /\ y.mask = zz.mask /\ y.waitmask = zz.waitmask /\ y.waitdog = zz.waitdog
  /\ y.sigdeliver = zz.sigdeliver

\* The list of pending signals of t becomes l.
Pends(zz, t, l, y) == SameTasks(zz, y) /\ y.actions = zz.actions /\ y.pending = [zz.pending EXCEPT ![t] = l]

\* sig_removependingsignal
LEMMA RemovedState ==
  ASSUME NEW zz \in SigState, NEW t \in Task, NEW s \in sig_pendingset(zz, t)
  PROVE  \E i, m : /\ zz.pending[t][i] = FirstPending(zz, t, s) /\ IsCut(zz.pending[t], i, m)
                   /\ Pends(zz, t, m, sig_removependingsignal(zz, t, s))
<1>1. PICK a : a = FirstPending(zz, t, s)
  OBVIOUS
<1>2. PICK l \in Seq(Action) : l = zz.pending[t]
  BY DEF SigState, ActMap
<1>3. PICK j \in 1..Len(l) : l[j] = a
  BY <1>1, <1>2, FirstFound
<1>4. PICK i : l[i] = a /\ IsCut(l, i, dq_rem(a, l))
  BY <1>3, CutOut
<1>5. PICK m : m = dq_rem(a, l)
  OBVIOUS
<1>6. m \in Seq(Action)
  BY <1>4, <1>5 DEF IsCut
<1>7. PICK p \in ActMap : p = [zz.pending EXCEPT ![t] = m]
  BY <1>6 DEF SigState, ActMap
<1>8. sig_removependingsignal(zz, t, s) = [zz EXCEPT !.pending = p]
  BY <1>1, <1>2, <1>5, <1>7 DEF sig_removependingsignal, SigState
<1>9. Pends(zz, t, m, sig_removependingsignal(zz, t, s))
  BY <1>7, <1>8 DEF SigState, Pends, SameTasks
<1> QED  BY <1>1, <1>2, <1>4, <1>5, <1>9

\* AddPending
LEMMA AddedState ==
  ASSUME NEW zz \in SigState, NEW t \in Task, NEW a \in Action
  PROVE  Pends(zz, t, Append(zz.pending[t], a), AddPending(zz, t, a)) /\ Append(zz.pending[t], a) \in Seq(Action)
<1>1. PICK l \in Seq(Action) : l = zz.pending[t]
  BY DEF SigState, ActMap
<1>2. PICK m \in Seq(Action) : m = Append(l, a)
  BY AppendProperties
<1>3. PICK p \in ActMap : p = [zz.pending EXCEPT ![t] = m]
  BY DEF SigState, ActMap
<1>4. AddPending(zz, t, a) = [zz EXCEPT !.pending = p]
  BY <1>1, <1>2, <1>3 DEF AddPending, SigState
<1> QED  BY <1>1, <1>2, <1>3, <1>4 DEF SigState, Pends, SameTasks

\* Overwrite
IsOverwritten(l, e, a, m) ==
  m \in Seq(Action) /\ Len(m) = Len(l) /\ \A i \in 1..Len(l) : m[i] = IF l[i] = e THEN a ELSE l[i]

\* Overwrite changes the list so.
LEMMA OverwrittenState ==
  ASSUME NEW zz \in SigState, NEW t \in Task, NEW a \in Action
  PROVE  \E m : /\ IsOverwritten(zz.pending[t], FirstPending(zz, t, a.sig), a, m)
                /\ Pends(zz, t, m, Overwrite(zz, t, a))
<1>1. PICK l \in Seq(Action) : l = zz.pending[t]
  BY DEF SigState, ActMap
<1>2. Len(l) \in Nat /\ l \in [1..Len(l) -> Action]
  BY LenProperties
<1>3. PICK e : e = FirstPending(zz, t, a.sig)
  OBVIOUS
<1>4. PICK m : m = [i \in 1..Len(l) |-> IF l[i] = e THEN a ELSE l[i]]
  OBVIOUS
<1>5. m \in [1..Len(l) -> Action]
  BY <1>2, <1>4
<1>6. m \in Seq(Action) /\ Len(m) = Len(l)
  BY <1>2, <1>5, FcnIsSeq
<1>7. IsOverwritten(l, e, a, m)
  BY <1>4, <1>6 DEF IsOverwritten
<1>8. PICK p \in ActMap : p = [zz.pending EXCEPT ![t] = m]
  BY <1>6 DEF SigState, ActMap
<1>9. Overwrite(zz, t, a) = [zz EXCEPT !.pending = p]
  BY <1>1, <1>3, <1>4, <1>8 DEF Overwrite, SigState
<1>10. Pends(zz, t, m, Overwrite(zz, t, a))
  BY <1>8, <1>9 DEF SigState, Pends, SameTasks
<1> QED  BY <1>1, <1>3, <1>7, <1>10

\* sig_queueaction
Queues(zz, t, a, y) ==
  /\ SameTasks(zz, y) /\ y.pending = zz.pending
  /\ y.actions = IF a.sig \in Handled THEN [zz.actions EXCEPT ![t] = Append(zz.actions[t], a)] ELSE zz.actions

\* sig_queueaction does this.
LEMMA QueuedState ==
  ASSUME NEW zz \in SigState, NEW t \in Task, NEW a \in Action
  PROVE  Queues(zz, t, a, sig_queueaction(zz, t, a)) /\ Append(zz.actions[t], a) \in Seq(Action)
<1>1. PICK l \in Seq(Action) : l = zz.actions[t]
  BY DEF SigState, ActMap
<1>2. PICK m \in Seq(Action) : m = Append(l, a)
  BY AppendProperties
<1>3. PICK p \in ActMap : p = [zz.actions EXCEPT ![t] = m]
  BY DEF SigState, ActMap
<1>4. CASE a.sig \in Handled
  <2>1. sig_queueaction(zz, t, a) = [zz EXCEPT !.actions = p]
    BY <1>1, <1>2, <1>3, <1>4 DEF sig_queueaction, SigState
  <2> QED  BY <1>1, <1>2, <1>3, <1>4, <2>1 DEF SigState, Queues, SameTasks
<1>5. CASE a.sig \notin Handled
  BY <1>1, <1>2, <1>5 DEF sig_queueaction, Queues, SameTasks
<1> QED  BY <1>4, <1>5

-----------------------------------------------------------------------------
\* Steps of the running task r that do not make it wait.
Going(r, s, m, o) ==
  /\ r = Self /\ r \in Client /\ s \in Seq(Frame) /\ m \in SUBSET Sig /\ o \in SUBSET Sig
  /\ stack' = [stack EXCEPT ![r] = s]
  /\ z' \in SigState /\ z'.mask = [z.mask EXCEPT ![r] = m] /\ own' = [own EXCEPT ![r] = o]
  /\ Sound(z'.k) /\ z'.k.lock = [z.k.lock EXCEPT ![r] = Count(s)] /\ Asleep(z'.k) \subseteq Asleep(z.k)
  /\ Self' = r \/ z'.k.lock[r] = 0
  /\ Shape(s) /\ Framed(s, m, o, r)
  /\ z'.waitdog \subseteq z.waitdog /\ \A t \in Task : z'.waitmask[t] \subseteq z.waitmask[t]
  /\ HasTimed(s) \/ ~HasTimed(stack[r]) \/ (z'.waitmask[r] = {} /\ r \notin z'.waitdog)
  /\ z'.sigdeliver \subseteq Client /\ corrupt' \in BOOLEAN

\* Such a step moves the running task.
LEMMA GoingMoves ==
  ASSUME Base, NEW r, NEW s, NEW m, NEW o, Going(r, s, m, o)
  PROVE  Moved(r, s, m, o) /\ TypedStep
<1>1. r = Self /\ r \in Task /\ r # IDLE /\ r \notin Asleep(z.k) /\ z.k.lock \in [Task -> Nat] /\ s \in Seq(Frame)
  BY Runner DEF Going, Client
<1>2. z'.k.lock[r] = Count(s) /\ Grounded(s)
  BY <1>1 DEF Going, Shape
<1>3. Self' = r \/ s = <<>>
  BY <1>1, <1>2, GroundedEmpty DEF Going
<1>4. z'.waitmask[r] # {} \/ r \in z'.waitdog => HasTimed(s)
  <2>1. z'.waitmask[r] # {} \/ r \in z'.waitdog => z.waitmask[r] # {} \/ r \in z.waitdog
    BY <1>1 DEF Going
  <2> QED  BY <1>1, <2>1 DEF Going, Base, WaitsTimed
<1>5. TypedStep
  BY DEF Going, TypedStep
<1> QED  BY <1>1, <1>3, <1>4, <1>5 DEF Going, Moved

\* A frame on top of frames that are in order.
InPlace(s, m, o, r) == s \in Seq(Frame) /\ Shape(s) /\ Framed(s, m, o, r)

\* A frame is pushed.
LEMMA PushInPlace ==
  ASSUME NEW f \in Frame, NEW b \in Seq(Frame), NEW m \in SUBSET Sig, NEW o, NEW r,
         InPlace(b, Under(f, m), o, r), b = <<>> => ~Loose(f), b # <<>> => ~WaitFrame(f),
         AddTo(f, r) => f.act.sig \in m
  PROVE  InPlace(Cons(f, b), m, o, r) /\ Cons(f, b) # <<>>
BY ConsAt, ShapeCons, FramedCons DEF InPlace

\* A frame is taken off.
LEMMA PopInPlace ==
  ASSUME NEW f \in Frame, NEW b \in Seq(Frame), NEW m \in SUBSET Sig, NEW o, NEW r,
         InPlace(Cons(f, b), m, o, r)
  PROVE  /\ InPlace(b, Under(f, m), o, r) /\ (AddTo(f, r) => f.act.sig \in m)
         /\ (b = <<>> => ~Loose(f)) /\ (b # <<>> => ~WaitFrame(f))
BY ConsAt, ShapeCons, FramedCons DEF InPlace

\* The frame of a timed wait, on top or below.
LEMMA TimedCons ==
  ASSUME NEW f \in Frame, NEW b \in Seq(Frame)
  PROVE  HasTimed(Cons(f, b)) <=> f.op = "timedwait" \/ HasTimed(b)
BY FramesCons DEF HasTimed

\* sig_tcbdispatch: the state y it starts from, and the frames b of its caller.
Dispatching(r, y, b) ==
  /\ r = Self /\ r \in Client /\ y \in SigState /\ Sound(y.k) /\ this_task(y.k) = r
  /\ y.mask = z.mask /\ y.waitmask = z.waitmask /\ y.waitdog = z.waitdog /\ y.sigdeliver = z.sigdeliver
  /\ Asleep(y.k) = Asleep(z.k) /\ y.k.lock = [z.k.lock EXCEPT ![r] = Count(b)]
  /\ b # <<>> /\ InPlace(b, z.mask[r], own[r], r) /\ (HasTimed(stack[r]) => HasTimed(b))

\* sig_tcbdispatch is such a step.
LEMMA DispatchGoes ==
  ASSUME Base, NEW r, NEW y, NEW b, Dispatching(r, y, b), NEW t \in Client, NEW a \in Action,
         Dispatch(y, t, a, b), own' = own, corrupt' = corrupt
  PROVE  Going(r, stack'[r], z.mask[r], own[r])
<1>1. /\ r = Self /\ r \in Task /\ b \in Seq(Frame) /\ z.mask \in MaskMap /\ own \in MaskMap
      /\ stack \in [Task -> Seq(Frame)] /\ y \in SigState /\ t \in Task
      /\ z.k.lock \in [Task -> Nat] /\ corrupt \in BOOLEAN /\ z.sigdeliver \subseteq Client
  BY Runner DEF Dispatching, Base, Typed, SigState, Client, InPlace
<1>2. /\ z.mask = [z.mask EXCEPT ![r] = z.mask[r]] /\ own' = [own EXCEPT ![r] = own[r]]
      /\ z.mask[r] \in SUBSET Sig /\ own[r] \in SUBSET Sig
  BY <1>1 DEF MaskMap
<1>3. y.k.lock[r] = Count(b) /\ Count(b) > 0
  <2>1. Count(b) \in Nat /\ Count(b) # 0
    BY <1>1, CountNat, GroundedEmpty DEF Dispatching, InPlace, Shape
  <2> QED  BY <1>1, <2>1 DEF Dispatching
<1>4. ASSUME NEW s, s \in Seq(Frame), InPlace(s, z.mask[r], own[r], r), Count(s) = Count(b),
             HasTimed(b) => HasTimed(s), stack' = [stack EXCEPT ![r] = s],
             z' \in SigState, z'.mask = y.mask, z'.sigdeliver = y.sigdeliver, Sound(z'.k), z'.k.lock = y.k.lock,
             this_task(z'.k) = r, Asleep(z'.k) \subseteq Asleep(y.k), z'.waitdog = y.waitdog,
             \A u \in Task : z'.waitmask[u] \subseteq y.waitmask[u]
      PROVE  Going(r, s, z.mask[r], own[r]) /\ stack'[r] = s
  BY <1>1, <1>2, <1>4 DEF Going, Dispatching, InPlace, Self
<1>5. ASSUME NEW f \in Frame, Loose(f), AddTo(f, r) => f.act.sig \in z.mask[r], NEW s, s = <<f>> \o b
      PROVE  /\ s \in Seq(Frame) /\ InPlace(s, z.mask[r], own[r], r) /\ Count(s) = Count(b)
             /\ HasTimed(b) => HasTimed(s)
  <2>1. ~Saver(f) /\ ~WaitFrame(f) /\ s = Cons(f, b)
    BY <1>5 DEF Loose, Saver, WaitFrame, Cons
  <2>2. InPlace(s, z.mask[r], own[r], r)
    <3>1. PICK m \in SUBSET Sig : m = z.mask[r]
      BY <1>2
    <3>2. Under(f, m) = m /\ InPlace(b, m, own[r], r) /\ b # <<>>
      BY <2>1, <3>1 DEF Under, Dispatching
    <3>3. InPlace(b, Under(f, m), own[r], r)
      BY <3>2
    <3>4. InPlace(Cons(f, b), m, own[r], r)
      BY <1>1, <1>5, <2>1, <3>1, <3>2, <3>3, PushInPlace
    <3> QED  BY <2>1, <3>1, <3>4
  <2> QED  BY <1>1, <1>5, <2>1, <2>2, CountCons, TimedCons DEF InPlace
<1>6. <<>> \o b = b
  BY <1>1, ConcatEmptySeq
<1>7. CASE /\ ~Masked(y, t, a.sig) /\ z' = sig_queueaction(y, t, a)
           /\ stack' = [stack EXCEPT ![Self] = <<[op |-> "schedule", to |-> t, act |-> a]>> \o b]
  <2>1. PICK f \in Frame : f = [op |-> "schedule", to |-> t, act |-> a]
    BY FrameMade
  <2>2. Loose(f) /\ ~AddTo(f, r)
    BY <2>1 DEF Loose, AddTo
  <2>3. PICK s : s = <<f>> \o b
    OBVIOUS
  <2>4. /\ s \in Seq(Frame) /\ InPlace(s, z.mask[r], own[r], r) /\ Count(s) = Count(b)
        /\ HasTimed(b) => HasTimed(s)
    BY <1>5, <2>2, <2>3
  <2>5. SameTasks(y, z')
    BY <1>1, <1>7, QueuedState DEF Queues
  <2>6. stack' = [stack EXCEPT ![r] = s]
    BY <1>1, <1>7, <2>1, <2>3
  <2>7. Going(r, s, z.mask[r], own[r]) /\ stack'[r] = s
    BY <1>4, <2>4, <2>5, <2>6 DEF SameTasks, Dispatching
  <2> QED  BY <2>7
<1>8. CASE WaitsFor(y, t, a.sig) /\ z' = Wake(y, t) /\ stack' = [stack EXCEPT ![Self] = <<>> \o b]
  <2>1. t \in Asleep(y.k)
    BY <1>1, <1>8 DEF WaitsFor, Asleep
  <2>2. /\ z' \in SigState /\ Sound(z'.k) /\ SameSignals(y, z') /\ z'.waitdog = y.waitdog
        /\ z'.waitmask = [y.waitmask EXCEPT ![t] = {}]
        /\ Asleep(z'.k) = Asleep(y.k) \ {t} /\ z'.k.lock = y.k.lock /\ this_task(z'.k) = r
    <3>1. IsWoken(y, t, z')
      BY <1>1, <1>8, <2>1, WokenState DEF Dispatching
    <3>2. this_task(y.k) = r
      BY DEF Dispatching
    <3> QED  BY <1>3, <3>1, <3>2 DEF IsWoken
  <2>3. \A u \in Task : z'.waitmask[u] \subseteq y.waitmask[u]
    BY <1>1, <2>2 DEF SigState, MaskMap
  <2>4. stack' = [stack EXCEPT ![r] = b]
    BY <1>1, <1>6, <1>8
  <2>5. Going(r, b, z.mask[r], own[r]) /\ stack'[r] = b
    BY <1>1, <1>4, <2>2, <2>3, <2>4 DEF SameSignals, Dispatching
  <2> QED  BY <2>5
<1>9. CASE z' = Overwrite(y, t, a) /\ stack' = [stack EXCEPT ![Self] = <<>> \o b]
  <2>1. SameTasks(y, z')
    BY <1>1, <1>9, OverwrittenState DEF Pends
  <2>2. stack' = [stack EXCEPT ![r] = b]
    BY <1>1, <1>6, <1>9
  <2>3. Going(r, b, z.mask[r], own[r]) /\ stack'[r] = b
    BY <1>1, <1>4, <2>1, <2>2 DEF SameTasks, Dispatching
  <2> QED  BY <2>3
<1>10. CASE /\ Masked(y, t, a.sig) /\ z' = y
            /\ stack' = [stack EXCEPT ![Self] = <<[op |-> "addpending", to |-> t, act |-> a]>> \o b]
  <2>1. PICK f \in Frame : f = [op |-> "addpending", to |-> t, act |-> a]
    BY FrameMade
  <2>2. Loose(f) /\ (AddTo(f, r) => f.act.sig \in z.mask[r])
    BY <1>10, <2>1 DEF Loose, AddTo, Masked, Dispatching
  <2>3. PICK s : s = <<f>> \o b
    OBVIOUS
  <2>4. /\ s \in Seq(Frame) /\ InPlace(s, z.mask[r], own[r], r) /\ Count(s) = Count(b)
        /\ HasTimed(b) => HasTimed(s)
    BY <1>5, <2>2, <2>3
  <2>5. stack' = [stack EXCEPT ![r] = s]
    BY <1>1, <1>10, <2>1, <2>3
  <2>6. Going(r, s, z.mask[r], own[r]) /\ stack'[r] = s
    BY <1>1, <1>4, <1>10, <2>4, <2>5 DEF Dispatching
  <2> QED  BY <2>6
<1> QED  BY <1>7, <1>8, <1>9, <1>10 DEF Dispatch

-----------------------------------------------------------------------------
\* The steps, one by one: each goes on in the sense above, or starts a wait.

\* The running task r is in the frame f, with the frames b below.
OnTop(r, f, b) ==
  /\ r = Self /\ r \in Client /\ r \in Task /\ f \in Frame /\ b \in Seq(Frame) /\ stack[r] = Cons(f, b)
  /\ stack \in [Task -> Seq(Frame)] /\ z.mask \in MaskMap /\ own \in MaskMap /\ z.k.lock \in [Task -> Nat]
  /\ InPlace(b, Under(f, z.mask[r]), own[r], r)
  /\ (AddTo(f, r) => f.act.sig \in z.mask[r]) /\ (b = <<>> => ~Loose(f)) /\ (b # <<>> => ~WaitFrame(f))
  /\ (HasTimed(stack[r]) <=> f.op = "timedwait" \/ HasTimed(b))
  /\ z.k.lock[r] = IF Loose(f) THEN Count(b) ELSE Count(b) + 1
  /\ Count(b) \in Nat /\ z.mask[r] \in SUBSET Sig /\ own[r] \in SUBSET Sig

\* A task in a frame.
LEMMA AtTop ==
  ASSUME Base, stack[Self] # <<>>
  PROVE  \E b : OnTop(Self, Top, b) /\ b = Tail(stack[Self])
<1>1. PICK r : r = Self
  OBVIOUS
<1>2. /\ r \in Task /\ z.k.lock[r] = Count(stack[r]) /\ stack \in [Task -> Seq(Frame)]
      /\ z.mask \in MaskMap /\ own \in MaskMap /\ z.k.lock \in [Task -> Nat]
  BY <1>1, Runner DEF Base, Typed, SigState
<1>3. r \in Client
  BY <1>1, <1>2 DEF Base, Typed, Client
<1>4. PICK s \in Seq(Frame) : s = stack[r]
  BY <1>2
<1>5. PICK f, b : f = s[1] /\ b = Tail(s)
  OBVIOUS
<1>6. f \in Frame /\ b \in Seq(Frame) /\ s = Cons(f, b)
  BY <1>1, <1>4, <1>5, ConsOf
<1>7. PICK m \in SUBSET Sig : m = z.mask[r]
  BY <1>2 DEF MaskMap
<1>8. InPlace(Cons(f, b), m, own[r], r)
  BY <1>2, <1>4, <1>6, <1>7 DEF InPlace, Base, Kept
<1>9. /\ InPlace(b, Under(f, m), own[r], r) /\ (AddTo(f, r) => f.act.sig \in m)
      /\ (b = <<>> => ~Loose(f)) /\ (b # <<>> => ~WaitFrame(f))
  BY <1>6, <1>8, PopInPlace
<1>10. HasTimed(s) <=> f.op = "timedwait" \/ HasTimed(b)
  BY <1>6, TimedCons
<1>11. Count(s) = IF Loose(f) THEN Count(b) ELSE Count(b) + 1
  BY <1>6, CountCons
<1>12. Count(b) \in Nat /\ z.mask[r] \in SUBSET Sig /\ own[r] \in SUBSET Sig
  BY <1>2, <1>6, CountNat DEF MaskMap
<1>13. Top = f
  BY <1>1, <1>4, <1>5 DEF Top
<1>14. OnTop(r, f, b)
  BY <1>1, <1>2, <1>3, <1>4, <1>6, <1>7, <1>9, <1>10, <1>11, <1>12 DEF OnTop
<1> QED  BY <1>1, <1>4, <1>5, <1>13, <1>14

\* A task outside all calls or in a handler.
OnStack(r, s) ==
  /\ r = Self /\ r \in Client /\ r \in Task /\ s \in Seq(Frame) /\ stack[r] = s
  /\ stack \in [Task -> Seq(Frame)] /\ z.mask \in MaskMap /\ own \in MaskMap /\ z.k.lock \in [Task -> Nat]
  /\ InPlace(s, z.mask[r], own[r], r) /\ z.k.lock[r] = Count(s)
  /\ Count(s) \in Nat /\ z.mask[r] \in SUBSET Sig /\ own[r] \in SUBSET Sig

\* It has its stack in order.
LEMMA AtUser ==
  ASSUME Base, Self \in Client
  PROVE  \E s : OnStack(Self, s)
<1>1. /\ Self \in Task /\ z.k.lock[Self] = Count(stack[Self]) /\ stack \in [Task -> Seq(Frame)]
      /\ z.mask \in MaskMap /\ own \in MaskMap /\ z.k.lock \in [Task -> Nat]
  BY Runner DEF Base, Typed, SigState
<1>2. PICK s \in Seq(Frame) : s = stack[Self]
  BY <1>1
<1>3. Count(s) \in Nat /\ z.mask[Self] \in SUBSET Sig /\ own[Self] \in SUBSET Sig
  BY <1>1, CountNat DEF MaskMap
<1>4. InPlace(s, z.mask[Self], own[Self], Self)
  BY <1>1, <1>2 DEF InPlace, Base, Kept
<1> QED  BY <1>1, <1>2, <1>3, <1>4 DEF OnStack

\* A step that leaves the masks, the waits and the sleepers alone.
LEMMA GoOn ==
  ASSUME Base, NEW r, r = Self, r \in Client, NEW s, InPlace(s, z.mask[r], own[r], r),
         stack' = [stack EXCEPT ![r] = s], own' = own, corrupt' = corrupt,
         HasTimed(s) \/ ~HasTimed(stack[r]),
         NEW y, y = z', y \in SigState, Sound(y.k), y.mask = z.mask, y.waitdog = z.waitdog, y.sigdeliver \subseteq Client,
         \A t \in Task : y.waitmask[t] \subseteq z.waitmask[t],
         Asleep(y.k) \subseteq Asleep(z.k), y.k.lock = [z.k.lock EXCEPT ![r] = Count(s)],
         this_task(y.k) = r \/ y.k.lock[r] = 0
  PROVE  Going(r, s, z.mask[r], own[r])
<1>1. /\ r \in Task /\ z.mask \in MaskMap /\ own \in MaskMap /\ corrupt \in BOOLEAN
      /\ s \in Seq(Frame) /\ Shape(s) /\ Framed(s, z.mask[r], own[r], r)
  BY Runner DEF Base, Typed, SigState, InPlace
<1>2. /\ z.mask = [z.mask EXCEPT ![r] = z.mask[r]] /\ own = [own EXCEPT ![r] = own[r]]
      /\ z.mask[r] \in SUBSET Sig /\ own[r] \in SUBSET Sig
  BY <1>1 DEF MaskMap
<1> QED  BY <1>1, <1>2 DEF Going, Self

\* SigAddPending
LEMMA SigAddPendingGoes ==
  ASSUME Base, SigAddPending
  PROVE  Going(Self, Tail(stack[Self]), z.mask[Self], own[Self])
<1>1. PICK b : OnTop(Self, Top, b) /\ b = Tail(stack[Self])
  BY AtTop DEF SigAddPending, At
<1>2. PICK r, f : r = Self /\ f = Top
  OBVIOUS
<1>3. f.op = "addpending" /\ z' = AddPending(z, f.to, f.act) /\ stack' = [stack EXCEPT ![Self] = <<>> \o Tail(@)]
  BY <1>2 DEF SigAddPending, At, Pop, Replace
<1>4. OnTop(r, f, b)
  BY <1>1, <1>2
<1>5. Loose(f) /\ ~WaitFrame(f) /\ ~Saver(f)
  BY <1>3 DEF Loose, WaitFrame, Saver
<1>6. f.to \in Client /\ f.to \in Task /\ f.act \in Action
  BY <1>4, <1>5, FrameKinds DEF OnTop, Client
<1>7. SameTasks(z, z')
  BY <1>3, <1>6, AddedState DEF Pends, Base, Typed
<1>8. stack' = [stack EXCEPT ![r] = b]
  <2>1. <<>> \o b = b
    BY <1>4, ConcatEmptySeq DEF OnTop
  <2> QED  BY <1>1, <1>2, <1>3, <1>4, <2>1 DEF OnTop
<1>9. InPlace(b, z.mask[r], own[r], r)
  BY <1>4, <1>5 DEF OnTop, Under
<1>10. z'.k.lock = [z.k.lock EXCEPT ![r] = Count(b)] /\ this_task(z'.k) = r
  BY <1>4, <1>5, <1>7 DEF OnTop, SameTasks, Self
<1>11. HasTimed(b) \/ ~HasTimed(stack[r])
  BY <1>3, <1>4 DEF OnTop
<1>12. Going(r, b, z.mask[r], own[r])
  BY <1>4, <1>7, <1>8, <1>9, <1>10, <1>11, GoOn DEF SameTasks, OnTop, Base, Typed, SigAddPending
<1> QED  BY <1>1, <1>2, <1>12

\* The frame in which sig_deliver starts.
LEMMA DeliverFrameMade ==
  ASSUME NEW zz \in SigState, NEW t \in Task, NEW q \in BOOLEAN
  PROVE  /\ DeliverFrame(zz, t, q) \in Frame /\ DeliverFrame(zz, t, q).op = "deliver"
         /\ DeliverFrame(zz, t, q).next = IF zz.actions[t] = <<>> THEN NULL ELSE zz.actions[t][1].id
<1>1. PICK l \in Seq(Action) : l = zz.actions[t]
  BY DEF SigState, ActMap
<1>2. PICK n : n = IF l = <<>> THEN NULL ELSE l[1].id
  OBVIOUS
<1>3. n \in SendId \union {NULL}
  <2>1. CASE l # <<>>
    <3>1. l[1] \in Action
      BY <2>1, ElementOfSeq, EmptySeq, LenProperties
    <3> QED  BY <1>2, <2>1, <3>1 DEF Action
  <2> QED  BY <1>2, <2>1
<1>4. DeliverFrame(zz, t, q) = [op |-> "deliver", next |-> n, irqoff |-> q]
  BY <1>1, <1>2 DEF DeliverFrame
<1> QED  BY <1>1, <1>2, <1>3, <1>4, FrameMade

\* A frame that holds the lock, where the frames are in order.
LEMMA HoldInPlace ==
  ASSUME NEW f \in Frame, ~Loose(f), ~WaitFrame(f), ~Saver(f), NEW b, NEW m \in SUBSET Sig, NEW o, NEW r,
         InPlace(b, m, o, r)
  PROVE  /\ InPlace(Cons(f, b), m, o, r) /\ Count(Cons(f, b)) = Count(b) + 1
         /\ <<f>> \o b = Cons(f, b) /\ (HasTimed(b) => HasTimed(Cons(f, b)))
<1>1. b \in Seq(Frame)
  BY DEF InPlace
<1>2. InPlace(b, Under(f, m), o, r) /\ ~AddTo(f, r)
  BY DEF Under, AddTo, Loose
<1>3. InPlace(Cons(f, b), m, o, r)
  BY <1>1, <1>2, PushInPlace
<1> QED  BY <1>1, <1>3, CountCons, TimedCons DEF Cons

\* sig_tcbdispatch for the caller itself.
ScheduleOwn == At("schedule") /\ Top.to = Self /\ Schedule
\* sig_tcbdispatch for another task.
ScheduleOther == At("schedule") /\ Top.to # Self /\ Schedule

\* Schedule, for the caller itself
LEMMA ScheduleOwnGoes ==
  ASSUME Base, ScheduleOwn
  PROVE  /\ Going(Self, Cons(DeliverFrame(z, Self, TRUE), Tail(stack[Self])), z.mask[Self], own[Self])
         /\ IsLocked(z, Self, z')
<1>1. PICK b : OnTop(Self, Top, b) /\ b = Tail(stack[Self])
  BY AtTop DEF ScheduleOwn, At
<1>2. PICK r, f, d : r = Self /\ f = Top /\ d = DeliverFrame(z, r, TRUE)
  OBVIOUS
<1>3. f.op = "schedule" /\ z' = Locked(z) /\ stack' = [stack EXCEPT ![Self] = <<d>> \o Tail(@)]
  BY <1>2 DEF ScheduleOwn, Schedule, At, Replace
<1>4. OnTop(r, f, b) /\ z \in SigState
  BY <1>1, <1>2 DEF Base, Typed
<1>5. Loose(f) /\ ~WaitFrame(f) /\ ~Saver(f)
  BY <1>3 DEF Loose, WaitFrame, Saver
<1>6. d \in Frame /\ d.op = "deliver"
  BY <1>2, <1>4, DeliverFrameMade DEF OnTop
<1>7. ~Loose(d) /\ ~WaitFrame(d) /\ ~Saver(d)
  BY <1>6 DEF Loose, WaitFrame, Saver
<1>8. PICK m \in SUBSET Sig : m = z.mask[r]
  BY <1>4 DEF OnTop
<1>9. InPlace(b, m, own[r], r)
  BY <1>4, <1>5, <1>8 DEF OnTop, Under
<1>10. PICK s : s = Cons(d, b)
  OBVIOUS
<1>11. InPlace(s, m, own[r], r) /\ Count(s) = Count(b) + 1 /\ <<d>> \o b = s /\ (HasTimed(b) => HasTimed(s))
  BY <1>6, <1>7, <1>9, <1>10, HoldInPlace
<1>12. IsLocked(z, r, z')
  BY <1>2, <1>3, <1>4, LockedState, Runner
<1>13. stack' = [stack EXCEPT ![r] = s]
  BY <1>1, <1>2, <1>3, <1>4, <1>11 DEF OnTop
<1>14. z'.k.lock = [z.k.lock EXCEPT ![r] = Count(s)]
  BY <1>4, <1>5, <1>11, <1>12 DEF OnTop, IsLocked
<1>15. HasTimed(s) \/ ~HasTimed(stack[r])
  BY <1>3, <1>4, <1>11 DEF OnTop
<1>16. z'.sigdeliver \subseteq Client /\ z'.waitmask = z.waitmask
  BY <1>12 DEF IsLocked, SameSignals, Base, Typed
<1>17. Going(r, s, z.mask[r], own[r])
  BY <1>4, <1>8, <1>11, <1>12, <1>13, <1>14, <1>15, <1>16, GoOn DEF IsLocked, SameSignals, OnTop, ScheduleOwn, Schedule
<1> QED  BY <1>1, <1>2, <1>10, <1>12, <1>17

\* The task t is made to run up_sigdeliver: y is zz after that.
IsScheduled(zz, t, y) ==
  /\ y \in SigState /\ Sound(y.k) /\ y.mask = zz.mask /\ y.pending = zz.pending /\ y.actions = zz.actions
  /\ y.waitdog = zz.waitdog /\ y.sigdeliver = zz.sigdeliver \union {t} /\ y.k.lock = zz.k.lock
  /\ \A u \in Task : y.waitmask[u] \subseteq zz.waitmask[u]
  /\ Asleep(y.k) \subseteq Asleep(zz.k) /\ (zz.k.lock[this_task(zz.k)] > 0 => this_task(y.k) = this_task(zz.k))

\* ScheduleSigaction
LEMMA ScheduledState ==
  ASSUME NEW zz \in SigState, Sound(zz.k), NEW t \in Task, NEW y, y = ScheduleSigaction(zz, t)
  PROVE  IsScheduled(zz, t, y)
<1>1. PICK x : x = [zz EXCEPT !.sigdeliver = @ \union {t}]
  OBVIOUS
<1>2. /\ x \in SigState /\ x.k = zz.k /\ x.mask = zz.mask /\ x.pending = zz.pending /\ x.actions = zz.actions
      /\ x.waitdog = zz.waitdog /\ x.sigdeliver = zz.sigdeliver \union {t} /\ x.waitmask = zz.waitmask
  BY <1>1 DEF SigState
<1>3. y = WakeIfWaiting(x, t)
  BY <1>1 DEF ScheduleSigaction
<1>4. CASE x.k.state[t] = "WAIT_SIG"
  <2>1. y = Wake(x, t) /\ t \in Asleep(x.k)
    BY <1>3, <1>4 DEF WakeIfWaiting, Asleep
  <2>2. IsWoken(x, t, y)
    BY <1>2, <2>1, WokenState
  <2>3. \A u \in Task : y.waitmask[u] \subseteq x.waitmask[u]
    BY <1>2, <2>2 DEF IsWoken, SigState, MaskMap
  <2> QED  BY <1>2, <2>2, <2>3 DEF IsWoken, SameSignals, IsScheduled
<1>5. CASE x.k.state[t] # "WAIT_SIG"
  <2>1. y = x
    BY <1>3, <1>5 DEF WakeIfWaiting
  <2> QED  BY <1>2, <2>1 DEF IsScheduled
<1> QED  BY <1>4, <1>5

\* Schedule, for another task
LEMMA ScheduleOtherGoes ==
  ASSUME Base, ScheduleOther
  PROVE  /\ Going(Self, Tail(stack[Self]), z.mask[Self], own[Self])
         /\ IsScheduled(z, Top.to, z') /\ Self' = Self
<1>1. PICK b : OnTop(Self, Top, b) /\ b = Tail(stack[Self])
  BY AtTop DEF ScheduleOther, At
<1>2. PICK r, f : r = Self /\ f = Top
  OBVIOUS
<1>3. f.op = "schedule" /\ z' = ScheduleSigaction(z, f.to) /\ stack' = [stack EXCEPT ![Self] = <<>> \o Tail(@)]
  BY <1>2 DEF ScheduleOther, Schedule, At, Replace, Pop
<1>4. OnTop(r, f, b) /\ z \in SigState /\ Sound(z.k)
  BY <1>1, <1>2 DEF Base, Typed
<1>5. Loose(f) /\ ~WaitFrame(f) /\ ~Saver(f)
  BY <1>3 DEF Loose, WaitFrame, Saver
<1>6. f.to \in Client /\ f.to \in Task
  BY <1>4, <1>5, FrameKinds DEF OnTop, Client
<1>7. IsScheduled(z, f.to, z')
  BY <1>3, <1>4, <1>6, ScheduledState
<1>8. stack' = [stack EXCEPT ![r] = b]
  <2>1. <<>> \o b = b
    BY <1>4, ConcatEmptySeq DEF OnTop
  <2> QED  BY <1>1, <1>2, <1>3, <1>4, <2>1 DEF OnTop
<1>9. InPlace(b, z.mask[r], own[r], r)
  BY <1>4, <1>5 DEF OnTop, Under
<1>10. z.k.lock[r] = Count(b) /\ Count(b) > 0
  <2>1. b # <<>> /\ Grounded(b) /\ Count(b) \in Nat /\ b \in Seq(Frame)
    BY <1>4, <1>5, <1>9 DEF OnTop, InPlace, Shape
  <2>2. Count(b) # 0
    BY <2>1, GroundedEmpty
  <2> QED  BY <1>4, <1>5, <2>1, <2>2 DEF OnTop
<1>11. z'.k.lock = [z.k.lock EXCEPT ![r] = Count(b)] /\ this_task(z'.k) = r
  BY <1>4, <1>7, <1>10 DEF OnTop, IsScheduled, Self
<1>12. HasTimed(b) \/ ~HasTimed(stack[r])
  BY <1>3, <1>4 DEF OnTop
<1>13. z'.sigdeliver \subseteq Client
  BY <1>6, <1>7 DEF IsScheduled, Base, Typed
<1>14. Going(r, b, z.mask[r], own[r])
  BY <1>4, <1>7, <1>8, <1>9, <1>11, <1>12, <1>13, GoOn DEF IsScheduled, OnTop, ScheduleOther, Schedule
<1> QED  BY <1>1, <1>2, <1>7, <1>11, <1>14 DEF Self

\* One lock less.
LEMMA LockDown ==
  ASSUME NEW L \in [Task -> Nat], NEW r \in Task, NEW n \in Nat, L[r] = n + 1,
         NEW M, M = [L EXCEPT ![r] = @ - 1]
  PROVE  M = [L EXCEPT ![r] = n]
OBVIOUS

\* A call that holds the lock returns.
LEMMA PopUnlockGoes ==
  ASSUME Base, NEW r, NEW f, NEW b, OnTop(r, f, b), b = Tail(stack[r]), ~Loose(f), ~Saver(f), f.op # "timedwait",
         z' = Unlocked(z), Pop, own' = own, corrupt' = corrupt
  PROVE  Going(r, b, z.mask[r], own[r]) /\ IsUnlocked(z, r, z')
<1>1. r = Self /\ stack' = [stack EXCEPT ![Self] = <<>> \o Tail(@)] /\ z \in SigState /\ Sound(z.k)
  BY DEF OnTop, Pop, Replace, Base, Typed
<1>2. IsUnlocked(z, r, z') /\ z.k.lock[r] = Count(b) + 1
  <2>1. z.k.lock[r] > 0 /\ z.k.lock[r] = Count(b) + 1
    BY DEF OnTop
  <2> QED  BY <1>1, <2>1, UnlockedState DEF Self
<1>3. stack' = [stack EXCEPT ![r] = b]
  <2>1. <<>> \o b = b
    BY ConcatEmptySeq DEF OnTop
  <2> QED  BY <1>1, <2>1 DEF OnTop
<1>4. InPlace(b, z.mask[r], own[r], r)
  BY DEF OnTop, Under
<1>5. z'.k.lock = [z.k.lock EXCEPT ![r] = Count(b)]
  <2>1. z.k.lock \in [Task -> Nat] /\ r \in Task /\ Count(b) \in Nat
    BY DEF OnTop
  <2>2. z'.k.lock = [z.k.lock EXCEPT ![r] = @ - 1]
    BY <1>2 DEF IsUnlocked
  <2> QED  BY <1>2, <2>1, <2>2, LockDown
<1>6. HasTimed(b) \/ ~HasTimed(stack[r])
  BY DEF OnTop
<1>7. z'.sigdeliver \subseteq Client /\ z'.waitmask = z.waitmask
  BY <1>2 DEF IsUnlocked, SameSignals, Base, Typed
<1>8. Going(r, b, z.mask[r], own[r])
  BY <1>2, <1>3, <1>4, <1>5, <1>6, <1>7, GoOn DEF IsUnlocked, SameSignals, OnTop
<1> QED  BY <1>2, <1>8

\* Return
LEMMA ReturnGoes ==
  ASSUME Base, Return
  PROVE  Going(Self, Tail(stack[Self]), z.mask[Self], own[Self]) /\ IsUnlocked(z, Self, z')
<1>1. PICK b : OnTop(Self, Top, b) /\ b = Tail(stack[Self])
  BY AtTop DEF Return, At
<1>2. Top.op = "unlock" /\ z' = Unlocked(z) /\ Pop /\ own' = own /\ corrupt' = corrupt
  BY DEF Return, At
<1>3. ~Loose(Top) /\ ~Saver(Top) /\ Top.op # "timedwait"
  BY <1>2 DEF Loose, Saver
<1> QED  BY <1>1, <1>2, <1>3, PopUnlockGoes

\* up_sigdeliver
LEMMA SigdeliverGoes ==
  ASSUME Base, up_sigdeliver
  PROVE  /\ Going(Self, Cons(DeliverFrame(z, Self, FALSE), stack[Self]), z.mask[Self], own[Self])
         /\ z'.pending = z.pending /\ z'.actions = z.actions /\ z'.sigdeliver = z.sigdeliver \ {Self}
         /\ z'.waitmask = z.waitmask /\ Asleep(z'.k) = Asleep(z.k) /\ Self' = Self
<1>1. Self \in Client /\ z \in SigState /\ Sound(z.k) /\ corrupt' = corrupt /\ own' = own
  BY DEF up_sigdeliver, Base, Typed
<1>2. PICK b : OnStack(Self, b)
  BY <1>1, AtUser
<1>3. PICK r, d : r = Self /\ d = DeliverFrame(z, r, FALSE)
  OBVIOUS
<1>4. stack' = [stack EXCEPT ![Self] = <<d>> \o @] /\ OnStack(r, b)
  BY <1>2, <1>3 DEF up_sigdeliver, Push
<1>5. d \in Frame /\ d.op = "deliver"
  BY <1>1, <1>3, <1>4, DeliverFrameMade DEF OnStack
<1>6. ~Loose(d) /\ ~WaitFrame(d) /\ ~Saver(d)
  BY <1>5 DEF Loose, WaitFrame, Saver
<1>7. PICK m \in SUBSET Sig : m = z.mask[r]
  BY <1>4 DEF OnStack
<1>8. InPlace(b, m, own[r], r)
  BY <1>4, <1>7 DEF OnStack
<1>9. PICK s : s = Cons(d, b)
  OBVIOUS
<1>10. InPlace(s, m, own[r], r) /\ Count(s) = Count(b) + 1 /\ <<d>> \o b = s /\ (HasTimed(b) => HasTimed(s))
  BY <1>5, <1>6, <1>8, <1>9, HoldInPlace
<1>11. PICK y : y = [z EXCEPT !.sigdeliver = @ \ {Self}]
  OBVIOUS
<1>12. /\ y \in SigState /\ y.k = z.k /\ y.mask = z.mask /\ y.pending = z.pending /\ y.actions = z.actions
       /\ y.waitdog = z.waitdog /\ y.waitmask = z.waitmask /\ y.sigdeliver = z.sigdeliver \ {Self}
  BY <1>1, <1>11 DEF SigState
<1>13. z' = Locked(y)
  <2>1. PICK a : a = sched_lock(z.k)
    OBVIOUS
  <2>2. PICK D : D = z.sigdeliver \ {Self}
    OBVIOUS
  <2>3. z' = [z EXCEPT !.sigdeliver = D, !.k = a] /\ y = [z EXCEPT !.sigdeliver = D]
    BY <1>11, <2>1, <2>2 DEF up_sigdeliver
  <2>4. Locked(y) = [y EXCEPT !.k = a]
    BY <1>12, <2>1 DEF Locked
  <2>5. [y EXCEPT !.k = a] = z'
    BY <1>1, <2>3 DEF SigState
  <2> QED  BY <2>4, <2>5
<1>14. IsLocked(y, r, z')
  BY <1>1, <1>3, <1>12, <1>13, LockedState DEF Self
<1>15. stack' = [stack EXCEPT ![r] = s]
  BY <1>3, <1>4, <1>10 DEF OnStack
<1>16. z'.k.lock = [z.k.lock EXCEPT ![r] = Count(s)]
  BY <1>4, <1>10, <1>12, <1>14 DEF OnStack, IsLocked
<1>17. HasTimed(s) \/ ~HasTimed(stack[r])
  BY <1>4, <1>10 DEF OnStack
<1>18. /\ z' \in SigState /\ Sound(z'.k) /\ z'.mask = z.mask /\ z'.waitdog = z.waitdog /\ z'.waitmask = z.waitmask
       /\ z'.sigdeliver \subseteq Client /\ Asleep(z'.k) = Asleep(z.k) /\ this_task(z'.k) = r
  BY <1>12, <1>14 DEF IsLocked, SameSignals, Base, Typed
<1>19. Going(r, s, z.mask[r], own[r])
  <2>1. InPlace(s, z.mask[r], own[r], r)
    BY <1>7, <1>10
  <2> QED  BY <1>1, <1>3, <1>15, <1>16, <1>17, <1>18, <2>1, GoOn
<1>20. stack[Self] = b
  BY <1>2 DEF OnStack
<1> QED  BY <1>3, <1>9, <1>12, <1>14, <1>19, <1>20 DEF IsLocked, SameSignals, Self

\* DeliverFree
LEMMA DeliverFreeGoes ==
  ASSUME Base, DeliverFree
  PROVE  Going(Self, Cons([op |-> "deliver", next |-> Top.next, irqoff |-> Top.irqoff], Tail(stack[Self])),
               z.mask[Self], own[Self])
<1>1. PICK b : OnTop(Self, Top, b) /\ b = Tail(stack[Self])
  BY AtTop DEF DeliverFree, At
<1>2. PICK r, f, d : r = Self /\ f = Top /\ d = [op |-> "deliver", next |-> Top.next, irqoff |-> Top.irqoff]
  OBVIOUS
<1>3. /\ f.op = "posted" /\ z' = z /\ stack' = [stack EXCEPT ![Self] = <<d>> \o Tail(@)]
      /\ own' = own /\ corrupt' = corrupt
  BY <1>2 DEF DeliverFree, At, Replace
<1>4. OnTop(r, f, b) /\ z \in SigState /\ Sound(z.k)
  BY <1>1, <1>2 DEF Base, Typed
<1>5. ~Loose(f) /\ ~WaitFrame(f) /\ ~Saver(f)
  BY <1>3 DEF Loose, WaitFrame, Saver
<1>6. d \in Frame /\ d.op = "deliver"
  BY <1>2, <1>3, <1>4, FrameKinds, FrameMade DEF OnTop
<1>7. ~Loose(d) /\ ~WaitFrame(d) /\ ~Saver(d)
  BY <1>6 DEF Loose, WaitFrame, Saver
<1>8. PICK m \in SUBSET Sig : m = z.mask[r]
  BY <1>4 DEF OnTop
<1>9. InPlace(b, m, own[r], r)
  BY <1>4, <1>5, <1>8 DEF OnTop, Under
<1>10. PICK s : s = Cons(d, b)
  OBVIOUS
<1>11. InPlace(s, m, own[r], r) /\ Count(s) = Count(b) + 1 /\ <<d>> \o b = s /\ (HasTimed(b) => HasTimed(s))
  BY <1>6, <1>7, <1>9, <1>10, HoldInPlace
<1>12. stack' = [stack EXCEPT ![r] = s]
  BY <1>1, <1>2, <1>3, <1>4, <1>11 DEF OnTop
<1>13. z'.k.lock = [z.k.lock EXCEPT ![r] = Count(s)] /\ this_task(z'.k) = r
  BY <1>2, <1>3, <1>4, <1>5, <1>11 DEF OnTop, Self
<1>14. HasTimed(s) \/ ~HasTimed(stack[r])
  BY <1>3, <1>4, <1>11 DEF OnTop
<1>15. z'.sigdeliver \subseteq Client
  BY <1>3 DEF Base, Typed
<1>16. Going(r, s, z.mask[r], own[r])
  BY <1>3, <1>4, <1>8, <1>11, <1>12, <1>13, <1>14, <1>15, GoOn DEF OnTop
<1> QED  BY <1>1, <1>2, <1>10, <1>16

\* The mask of r becomes m: y is zz after that.
IsMasked(zz, r, m, y) ==
  /\ y \in SigState /\ y.k = zz.k /\ y.mask = [zz.mask EXCEPT ![r] = m] /\ y.waitmask = zz.waitmask
  /\ y.pending = zz.pending /\ y.actions = zz.actions /\ y.sigdeliver = zz.sigdeliver /\ y.waitdog = zz.waitdog

\* The mask is set.
LEMMA MaskedState ==
  ASSUME NEW zz \in SigState, NEW r \in Task, NEW m \in SUBSET Sig, NEW y, y = [zz EXCEPT !.mask[r] = m]
  PROVE  IsMasked(zz, r, m, y)
<1>1. PICK w \in MaskMap : w = [zz.mask EXCEPT ![r] = m]
  BY DEF SigState, MaskMap
<1>2. y = [zz EXCEPT !.mask = w]
  BY <1>1 DEF SigState
<1> QED  BY <1>1, <1>2 DEF SigState, IsMasked

\* The frame in which sig_unmaskpendingsignal starts.
LEMMA UnmaskFrameMade ==
  ASSUME NEW zz \in SigState, NEW t \in Task
  PROVE  /\ UnmaskFrame(zz, t) \in Frame /\ UnmaskFrame(zz, t).op = "unmask"
         /\ UnmaskFrame(zz, t).set = sig_pendingset(zz, t) \ zz.mask[t] /\ sig_pendingset(zz, t) \in SUBSET Sig
<1>1. PICK l \in Seq(Action) : l = zz.pending[t]
  BY DEF SigState, ActMap
<1>2. \A i \in 1..Len(l) : l[i] \in Action
  BY ElementOfSeq
<1>3. sig_pendingset(zz, t) \in SUBSET Sig
  BY <1>1, <1>2 DEF sig_pendingset, Action
<1>4. PICK S \in SUBSET Sig : S = sig_pendingset(zz, t) \ zz.mask[t]
  BY <1>3
<1>5. UnmaskFrame(zz, t) = [op |-> "unmask", set |-> S]
  BY <1>4 DEF UnmaskFrame
<1>6. [op |-> "unmask", set |-> S] \in Frame
  BY FrameMade
<1> QED  BY <1>3, <1>4, <1>5, <1>6

\* A call that has saved the mask restores it and goes on in sig_unmaskpendingsignal.
LEMMA RestoreGoes ==
  ASSUME Base, NEW r, NEW f, NEW b, OnTop(r, f, b), b = Tail(stack[r]), Saver(f),
         NEW g \in Frame, ~Loose(g), ~WaitFrame(g), ~Saver(g), NEW y, y = [z EXCEPT !.mask[r] = f.saved], z' = Locked(y),
         Replace(<<UnmaskFrame(y, r), g>>), own' = own, corrupt' = corrupt
  PROVE  /\ Going(r, Cons(UnmaskFrame(y, r), Cons(g, b)), f.saved, own[r])
         /\ IsMasked(z, r, f.saved, y) /\ IsLocked(y, r, z')
<1>1. /\ r = Self /\ stack' = [stack EXCEPT ![Self] = <<UnmaskFrame(y, r), g>> \o Tail(@)] /\ z \in SigState
      /\ Sound(z.k) /\ r \in Task /\ r \in Client /\ corrupt \in BOOLEAN
  BY DEF OnTop, Replace, Base, Typed
<1>2. PICK m \in SUBSET Sig : m = f.saved
  BY FrameKinds DEF OnTop, Saver
<1>3. IsMasked(z, r, m, y)
  BY <1>1, <1>2, MaskedState
<1>4. IsLocked(y, r, z')
  BY <1>1, <1>3, LockedState DEF IsMasked, Self
<1>5. PICK u \in Frame : u = UnmaskFrame(y, r) /\ u.op = "unmask"
  BY <1>1, <1>3, UnmaskFrameMade DEF IsMasked
<1>6. ~Loose(u) /\ ~WaitFrame(u) /\ ~Saver(u) /\ ~Loose(f)
  BY <1>5 DEF Loose, WaitFrame, Saver
<1>7. InPlace(b, m, own[r], r) /\ b \in Seq(Frame)
  BY <1>2 DEF OnTop, Under
<1>8. PICK c : c = Cons(g, b)
  OBVIOUS
<1>9. InPlace(c, m, own[r], r) /\ Count(c) = Count(b) + 1 /\ (HasTimed(b) => HasTimed(c))
  BY <1>7, <1>8, HoldInPlace
<1>10. PICK s : s = Cons(u, c)
  OBVIOUS
<1>11. InPlace(s, m, own[r], r) /\ Count(s) = Count(c) + 1 /\ (HasTimed(c) => HasTimed(s))
  BY <1>5, <1>6, <1>9, <1>10, HoldInPlace
<1>12. <<u, g>> \o b = s
  <2>1. PICK q : q = <<u, g>>
    OBVIOUS
  <2>2. q \o b = Cons(u, Cons(g, b))
    BY <1>7, <2>1, PushTwo
  <2> QED  BY <1>8, <1>10, <2>1, <2>2
<1>13. stack' = [stack EXCEPT ![r] = s]
  BY <1>1, <1>5, <1>12 DEF OnTop
<1>14. z.k.lock \in [Task -> Nat] /\ z.k.lock[r] = Count(b) + 1 /\ Count(b) \in Nat
  BY <1>6 DEF OnTop
<1>15. z'.k.lock = [z.k.lock EXCEPT ![r] = Count(s)]
  <2>1. z'.k.lock = [z.k.lock EXCEPT ![r] = @ + 1]
    BY <1>3, <1>4 DEF IsLocked, IsMasked
  <2>2. Count(s) = z.k.lock[r] + 1
    BY <1>9, <1>11, <1>14
  <2> QED  BY <1>1, <1>14, <2>1, <2>2
<1>16. HasTimed(s) \/ ~HasTimed(stack[r])
  BY <1>9, <1>11 DEF OnTop, Saver
<1>17. /\ z' \in SigState /\ Sound(z'.k) /\ z'.mask = [z.mask EXCEPT ![r] = m] /\ z'.waitdog = z.waitdog
       /\ z'.waitmask = z.waitmask /\ z'.sigdeliver \subseteq Client /\ Asleep(z'.k) = Asleep(z.k) /\ Self' = r
  BY <1>3, <1>4 DEF IsLocked, IsMasked, SameSignals, Base, Typed, Self
<1>18. own' = [own EXCEPT ![r] = own[r]] /\ own[r] \in SUBSET Sig
  BY <1>1 DEF OnTop, MaskMap
<1>19. Going(r, s, m, own[r])
  BY <1>1, <1>11, <1>13, <1>15, <1>16, <1>17, <1>18 DEF Going, InPlace
<1> QED  BY <1>2, <1>3, <1>4, <1>5, <1>8, <1>10, <1>19

\* HandlerReturn
LEMMA HandlerReturnGoes ==
  ASSUME Base, HandlerReturn
  PROVE  \E y, g : /\ Going(Self, Cons(UnmaskFrame(y, Self), Cons(g, Tail(stack[Self]))), Top.saved, own[Self])
                   /\ IsMasked(z, Self, Top.saved, y) /\ IsLocked(y, Self, z')
                   /\ g \in Frame /\ g.op = "posted" /\ g.next = Top.next
<1>1. PICK b : OnTop(Self, Top, b) /\ b = Tail(stack[Self])
  BY AtTop DEF HandlerReturn, At
<1>2. PICK r, f, y : r = Self /\ f = Top /\ y = [z EXCEPT !.mask[Self] = Top.saved]
  OBVIOUS
<1>3. /\ f.op = "handler" /\ z' = Locked(y) /\ Replace(<<UnmaskFrame(y, r), [f EXCEPT !.op = "posted"]>>)
      /\ own' = own /\ corrupt' = corrupt
  BY <1>2 DEF HandlerReturn, At
<1>4. Saver(f)
  BY <1>3 DEF Saver
<1>5. f \in Frame /\ f.next \in SendId \union {NULL} /\ f.irqoff \in BOOLEAN /\ f.saved \in SUBSET Sig
      /\ f = [op |-> f.op, next |-> f.next, irqoff |-> f.irqoff, saved |-> f.saved]
  <2>1. f \in Frame
    BY <1>1, <1>2 DEF OnTop
  <2> QED  BY <1>3, <2>1, FrameKinds
<1>6. PICK g : g = [f EXCEPT !.op = "posted"]
  OBVIOUS
<1>7. g = [op |-> "posted", next |-> f.next, irqoff |-> f.irqoff, saved |-> f.saved]
  BY <1>5, <1>6
<1>8. g \in Frame /\ g.op = "posted" /\ g.next = f.next
  BY <1>5, <1>7, FrameMade
<1>9. ~Loose(g) /\ ~WaitFrame(g) /\ ~Saver(g)
  BY <1>8 DEF Loose, WaitFrame, Saver
<1>10. OnTop(r, f, b) /\ y = [z EXCEPT !.mask[r] = f.saved] /\ b = Tail(stack[r]) /\ Replace(<<UnmaskFrame(y, r), g>>)
  BY <1>1, <1>2, <1>3, <1>6
<1>11. Going(r, Cons(UnmaskFrame(y, r), Cons(g, b)), f.saved, own[r]) /\ IsMasked(z, r, f.saved, y) /\ IsLocked(y, r, z')
  BY <1>3, <1>4, <1>8, <1>9, <1>10, RestoreGoes
<1> QED  BY <1>1, <1>2, <1>8, <1>11

\* SuspendResumed
LEMMA SuspendResumedGoes ==
  ASSUME Base, SuspendResumed
  PROVE  \E y, g : /\ Going(Self, Cons(UnmaskFrame(y, Self), Cons(g, Tail(stack[Self]))), Top.saved, own[Self])
                   /\ IsMasked(z, Self, Top.saved, y) /\ IsLocked(y, Self, z')
                   /\ g \in Frame /\ g.op = "unlock"
<1>1. PICK b : OnTop(Self, Top, b) /\ b = Tail(stack[Self])
  BY AtTop DEF SuspendResumed, At
<1>2. PICK r, f, y, g : r = Self /\ f = Top /\ y = [z EXCEPT !.mask[Self] = Top.saved] /\ g = [op |-> "unlock"]
  OBVIOUS
<1>3. /\ f.op = "suspend" /\ z' = Locked(y) /\ Replace(<<UnmaskFrame(y, r), g>>)
      /\ own' = own /\ corrupt' = corrupt
  BY <1>2 DEF SuspendResumed, At
<1>4. Saver(f)
  BY <1>3 DEF Saver
<1>5. g \in Frame /\ g.op = "unlock"
  BY <1>2, FrameMade
<1>6. ~Loose(g) /\ ~WaitFrame(g) /\ ~Saver(g)
  BY <1>5 DEF Loose, WaitFrame, Saver
<1>7. OnTop(r, f, b) /\ y = [z EXCEPT !.mask[r] = f.saved] /\ b = Tail(stack[r])
  BY <1>1, <1>2
<1>8. Going(r, Cons(UnmaskFrame(y, r), Cons(g, b)), f.saved, own[r]) /\ IsMasked(z, r, f.saved, y) /\ IsLocked(y, r, z')
  BY <1>3, <1>4, <1>5, <1>6, <1>7, RestoreGoes
<1> QED  BY <1>1, <1>2, <1>5, <1>8

\* The frames of a task in its program are in order for any mask that it sets.
LEMMA UserMask ==
  ASSUME Base, InUser, NEW r, NEW b, OnStack(r, b), NEW S \in SUBSET Sig,
         NEW o, b = <<>> => o = S, b # <<>> => o = own[r]
  PROVE  InPlace(b, S, o, r) /\ o \in SUBSET Sig
<1>1. r = Self
  BY DEF OnStack
<1>2. o \in SUBSET Sig /\ b \in Seq(Frame) /\ Shape(b) /\ z.mask[r] \in SUBSET Sig
  BY <1>1 DEF OnStack, InPlace
<1>3. CASE b = <<>>
  <2>1. o = S
    BY <1>3
  <2>2. Framed(<<>>, S, o, r)
    BY <2>1, FramedEmpty
  <2> QED  BY <1>1, <1>2, <1>3, <2>2 DEF InPlace
<1>4. CASE b # <<>>
  <2>1. PICK f, c : f = b[1] /\ c = Tail(b)
    OBVIOUS
  <2>2. f \in Frame /\ c \in Seq(Frame) /\ b = Cons(f, c)
    BY <1>2, <1>4, <2>1, ConsOf
  <2>3. f.op = "handler" /\ o = own[r]
    BY <1>1, <1>4, <2>1 DEF InUser, Top, OnStack
  <2>4. Under(f, z.mask[r]) = f.saved /\ Under(f, S) = f.saved /\ ~AddTo(f, r) /\ ~WaitFrame(f) /\ ~Loose(f)
    BY <2>3 DEF Under, Saver, AddTo, WaitFrame, Loose
  <2>5. PICK m \in SUBSET Sig : m = z.mask[r]
    BY <1>2
  <2>6. InPlace(Cons(f, c), m, o, r)
    BY <1>1, <2>2, <2>3, <2>5 DEF OnStack
  <2>7. InPlace(c, Under(f, m), o, r)
    BY <2>2, <2>6, PopInPlace
  <2>8. InPlace(c, Under(f, S), o, r)
    BY <2>4, <2>5, <2>7
  <2>9. InPlace(Cons(f, c), S, o, r)
    BY <2>2, <2>4, <2>8, PushInPlace
  <2> QED  BY <1>1, <1>2, <2>2, <2>9
<1> QED  BY <1>3, <1>4

\* SigProcMask
LEMMA SigProcMaskGoes ==
  ASSUME Base, NEW S \in SUBSET Sig, SigProcMask(S)
  PROVE  \E y, g, o : /\ Going(Self, Cons(UnmaskFrame(y, Self), Cons(g, stack[Self])), S, o)
                      /\ IsMasked(z, Self, S, y) /\ SameSignals(y, z') /\ z'.waitmask = z.waitmask
                      /\ Asleep(z'.k) = Asleep(z.k) /\ g \in Frame /\ g.op = "unlock" /\ Self' = Self
<1>1. Self \in Client /\ z \in SigState /\ Sound(z.k) /\ corrupt' = corrupt /\ InUser /\ corrupt \in BOOLEAN
  BY DEF SigProcMask, InUser, Base, Typed
<1>2. PICK b : OnStack(Self, b)
  BY <1>1, AtUser
<1>3. PICK r, y, g, o : /\ r = Self /\ y = [z EXCEPT !.mask[Self] = S] /\ g = [op |-> "unlock"]
                        /\ o = (IF b = <<>> THEN S ELSE own[Self])
  OBVIOUS
<1>4. /\ OnStack(r, b) /\ z' = Locked(Locked(y)) /\ stack' = [stack EXCEPT ![Self] = <<UnmaskFrame(y, r), g>> \o @]
      /\ own' = IF stack[Self] = <<>> THEN [own EXCEPT ![Self] = S] ELSE own
  BY <1>2, <1>3 DEF SigProcMask, Push
<1>5. r \in Task /\ b \in Seq(Frame) /\ stack[r] = b /\ z.k.lock[r] = Count(b) /\ Count(b) \in Nat
      /\ z.k.lock \in [Task -> Nat] /\ own \in MaskMap /\ r \in Client
  BY <1>4 DEF OnStack
<1>6. IsMasked(z, r, S, y)
  BY <1>1, <1>3, <1>5, MaskedState
<1>7. PICK x : x = Locked(y)
  OBVIOUS
<1>8. IsLocked(y, r, x)
  BY <1>1, <1>3, <1>6, <1>7, LockedState DEF IsMasked, Self
<1>9. IsLocked(x, r, z')
  BY <1>4, <1>7, <1>8, LockedState DEF IsLocked
<1>10. InPlace(b, S, o, r) /\ o \in SUBSET Sig
  <2>1. (b = <<>> => o = S) /\ (b # <<>> => o = own[r])
    BY <1>3
  <2> QED  BY <1>1, <1>4, <2>1, UserMask
<1>11. PICK u \in Frame : u = UnmaskFrame(y, r) /\ u.op = "unmask"
  BY <1>5, <1>6, UnmaskFrameMade DEF IsMasked
<1>12. g \in Frame /\ g.op = "unlock"
  BY <1>3, FrameMade
<1>13. ~Loose(u) /\ ~WaitFrame(u) /\ ~Saver(u) /\ ~Loose(g) /\ ~WaitFrame(g) /\ ~Saver(g)
  BY <1>11, <1>12 DEF Loose, WaitFrame, Saver
<1>14. PICK c : c = Cons(g, b)
  OBVIOUS
<1>15. InPlace(c, S, o, r) /\ Count(c) = Count(b) + 1 /\ (HasTimed(b) => HasTimed(c))
  BY <1>10, <1>12, <1>13, <1>14, HoldInPlace
<1>16. PICK s : s = Cons(u, c)
  OBVIOUS
<1>17. InPlace(s, S, o, r) /\ Count(s) = Count(c) + 1 /\ (HasTimed(c) => HasTimed(s))
  BY <1>13, <1>15, <1>16, HoldInPlace
<1>18. stack' = [stack EXCEPT ![r] = s]
  <2>1. PICK q : q = <<u, g>>
    OBVIOUS
  <2>2. q \o b = s
    BY <1>5, <1>12, <1>14, <1>16, <2>1, PushTwo
  <2>3. stack' = [stack EXCEPT ![r] = q \o stack[r]]
    BY <1>3, <1>4, <1>11, <2>1
  <2> QED  BY <1>5, <2>2, <2>3
<1>19. z'.k.lock = [z.k.lock EXCEPT ![r] = Count(s)]
  <2>1. x.k.lock = [z.k.lock EXCEPT ![r] = @ + 1] /\ z'.k.lock = [x.k.lock EXCEPT ![r] = @ + 1]
    BY <1>6, <1>8, <1>9 DEF IsLocked, IsMasked
  <2>2. Count(s) = (z.k.lock[r] + 1) + 1
    BY <1>5, <1>15, <1>17
  <2> QED  BY <1>5, <2>1, <2>2
<1>20. /\ z' \in SigState /\ Sound(z'.k) /\ z'.mask = [z.mask EXCEPT ![r] = S] /\ z'.waitdog = z.waitdog
       /\ z'.waitmask = z.waitmask /\ z'.sigdeliver \subseteq Client /\ Asleep(z'.k) = Asleep(z.k)
       /\ Self' = r /\ SameSignals(y, z')
  BY <1>6, <1>8, <1>9 DEF IsLocked, IsMasked, SameSignals, Base, Typed, Self
<1>21. own' = [own EXCEPT ![r] = o]
  BY <1>3, <1>4, <1>5 DEF MaskMap
<1>22. Going(r, s, S, o)
  BY <1>1, <1>3, <1>5, <1>10, <1>15, <1>17, <1>18, <1>19, <1>20, <1>21 DEF Going, InPlace
<1> QED  BY <1>3, <1>5, <1>6, <1>11, <1>12, <1>14, <1>16, <1>20, <1>22

\* UnmaskNext, by the state of the loop: at its end, at a signal that is not pending any
\* more, and at one that is.
UnmaskEnds == At("unmask") /\ UnmaskNext /\ Top.set = {}
UnmaskSkips == At("unmask") /\ UnmaskNext /\ Top.set # {} /\ sig_lowest(Top.set) \notin sig_pendingset(z, Self)
UnmaskTakes == At("unmask") /\ UnmaskNext /\ Top.set # {} /\ sig_lowest(Top.set) \in sig_pendingset(z, Self)

\* The frame of the loop when the signal x is done with.
Rest(f, x) == [op |-> "unmask", set |-> f.set \ {x}]

\* UnmaskNext, at its end
LEMMA UnmaskEndsGoes ==
  ASSUME Base, UnmaskEnds
  PROVE  Going(Self, Tail(stack[Self]), z.mask[Self], own[Self]) /\ IsUnlocked(z, Self, z')
<1>1. PICK b : OnTop(Self, Top, b) /\ b = Tail(stack[Self])
  BY AtTop DEF UnmaskEnds, At
<1>2. Top.op = "unmask" /\ z' = Unlocked(z) /\ Pop /\ own' = own /\ corrupt' = corrupt
  BY DEF UnmaskEnds, UnmaskNext, At
<1>3. ~Loose(Top) /\ ~Saver(Top) /\ Top.op # "timedwait"
  BY <1>2 DEF Loose, Saver
<1> QED  BY <1>1, <1>2, <1>3, PopUnlockGoes

\* The frame of the loop is a frame.
LEMMA RestMade ==
  ASSUME NEW f \in Frame, f.op = "unmask", NEW x, NEW g, g = [f EXCEPT !.set = @ \ {x}]
  PROVE  g = Rest(f, x) /\ g \in Frame /\ g.op = "unmask" /\ g.set = f.set \ {x}
<1>1. f.set \in SUBSET Sig /\ f = [op |-> "unmask", set |-> f.set]
  BY FrameKinds
<1>2. g = [op |-> "unmask", set |-> f.set \ {x}]
  BY <1>1
<1>3. PICK S \in SUBSET Sig : S = f.set \ {x}
  BY <1>1
<1>4. [op |-> "unmask", set |-> S] \in Frame
  BY FrameMade
<1> QED  BY <1>2, <1>3, <1>4 DEF Rest

\* UnmaskNext, at a signal that is not pending any more
LEMMA UnmaskSkipsGoes ==
  ASSUME Base, UnmaskSkips
  PROVE  /\ Going(Self, Cons(Rest(Top, sig_lowest(Top.set)), Tail(stack[Self])), z.mask[Self], own[Self])
         /\ z' = z
<1>1. PICK b : OnTop(Self, Top, b) /\ b = Tail(stack[Self])
  BY AtTop DEF UnmaskSkips, At
<1>2. PICK r, f, x : r = Self /\ f = Top /\ x = sig_lowest(Top.set)
  OBVIOUS
<1>3. PICK d : d = [f EXCEPT !.set = @ \ {x}]
  OBVIOUS
<1>4. /\ f.op = "unmask" /\ z' = z /\ stack' = [stack EXCEPT ![Self] = <<d>> \o Tail(@)]
      /\ own' = own /\ corrupt' = corrupt
  BY <1>2, <1>3 DEF UnmaskSkips, UnmaskNext, At, Replace
<1>5. OnTop(r, f, b) /\ z \in SigState /\ Sound(z.k)
  BY <1>1, <1>2 DEF Base, Typed
<1>6. d = Rest(f, x) /\ d \in Frame /\ d.op = "unmask"
  BY <1>3, <1>4, <1>5, RestMade DEF OnTop
<1>7. ~Loose(d) /\ ~WaitFrame(d) /\ ~Saver(d) /\ ~Loose(f) /\ ~Saver(f)
  BY <1>4, <1>6 DEF Loose, WaitFrame, Saver
<1>8. PICK m \in SUBSET Sig : m = z.mask[r]
  BY <1>5 DEF OnTop
<1>9. InPlace(b, m, own[r], r)
  BY <1>5, <1>7, <1>8 DEF OnTop, Under
<1>10. PICK s : s = Cons(d, b)
  OBVIOUS
<1>11. InPlace(s, m, own[r], r) /\ Count(s) = Count(b) + 1 /\ <<d>> \o b = s /\ (HasTimed(b) => HasTimed(s))
  BY <1>6, <1>7, <1>9, <1>10, HoldInPlace
<1>12. stack' = [stack EXCEPT ![r] = s]
  BY <1>1, <1>2, <1>4, <1>5, <1>11 DEF OnTop
<1>13. z'.k.lock = [z.k.lock EXCEPT ![r] = Count(s)] /\ this_task(z'.k) = r
  BY <1>2, <1>4, <1>5, <1>7, <1>11 DEF OnTop, Self
<1>14. HasTimed(s) \/ ~HasTimed(stack[r])
  BY <1>4, <1>5, <1>11 DEF OnTop
<1>15. z'.sigdeliver \subseteq Client
  BY <1>4 DEF Base, Typed
<1>16. Going(r, s, z.mask[r], own[r])
  BY <1>4, <1>5, <1>8, <1>11, <1>12, <1>13, <1>14, <1>15, GoOn DEF OnTop
<1> QED  BY <1>1, <1>2, <1>4, <1>6, <1>10, <1>16

\* Kill: what sig_tcbdispatch starts from.
LEMMA KillStarts ==
  ASSUME Base, InUser
  PROVE  \E b : /\ b = Cons([op |-> "unlock"], stack[Self]) /\ b = <<[op |-> "unlock"]>> \o stack[Self]
                /\ Dispatching(Self, Locked(z), b) /\ IsLocked(z, Self, Locked(z)) /\ stack[Self] \in Seq(Frame)
<1>1. Self \in Client /\ z \in SigState /\ Sound(z.k)
  BY DEF InUser, Base, Typed
<1>2. PICK c : OnStack(Self, c)
  BY <1>1, AtUser
<1>3. PICK r, g, y : r = Self /\ g = [op |-> "unlock"] /\ y = Locked(z)
  OBVIOUS
<1>4. OnStack(r, c)
  BY <1>2, <1>3
<1>5. g \in Frame /\ g.op = "unlock"
  BY <1>3, FrameMade
<1>6. ~Loose(g) /\ ~WaitFrame(g) /\ ~Saver(g)
  BY <1>5 DEF Loose, WaitFrame, Saver
<1>7. PICK m \in SUBSET Sig : m = z.mask[r]
  BY <1>4 DEF OnStack
<1>8. InPlace(c, m, own[r], r)
  BY <1>4, <1>7 DEF OnStack
<1>9. PICK b : b = Cons(g, c)
  OBVIOUS
<1>10. InPlace(b, m, own[r], r) /\ Count(b) = Count(c) + 1 /\ <<g>> \o c = b /\ (HasTimed(c) => HasTimed(b))
  BY <1>5, <1>6, <1>8, <1>9, HoldInPlace
<1>11. b # <<>>
  BY <1>4, <1>5, <1>9, ConsAt DEF OnStack
<1>12. IsLocked(z, r, y)
  BY <1>1, <1>3, LockedState DEF Self
<1>13. y.k.lock = [z.k.lock EXCEPT ![r] = Count(b)]
  BY <1>4, <1>10, <1>12 DEF OnStack, IsLocked
<1>14. Dispatching(r, y, b)
  BY <1>4, <1>7, <1>10, <1>11, <1>12, <1>13 DEF Dispatching, IsLocked, SameSignals, OnStack
<1> QED  BY <1>3, <1>4, <1>9, <1>10, <1>12, <1>14 DEF OnStack

\* Kill
LEMMA KillGoes ==
  ASSUME Base, sent \in 0..MaxSends, NEW t \in Client, NEW x \in Sig, Kill(t, x)
  PROVE  Going(Self, stack'[Self], z.mask[Self], own[Self])
<1>1. PICK b : b = <<[op |-> "unlock"]>> \o stack[Self] /\ Dispatching(Self, Locked(z), b)
  BY KillStarts DEF Kill
<1>2. PICK a : a = [id |-> sent + 1, sig |-> x]
  OBVIOUS
<1>3. a \in Action
  BY <1>2, SignalAssumption DEF Action, SendId, Kill
<1>4. Dispatch(Locked(z), t, a, b) /\ own' = own /\ corrupt' = corrupt
  BY <1>1, <1>2 DEF Kill
<1> QED  BY <1>1, <1>3, <1>4, DispatchGoes

\* UnmaskNext, at a pending signal: what sig_tcbdispatch starts from.
LEMMA UnmaskStarts ==
  ASSUME Base, UnmaskTakes
  PROVE  \E b, x, y, a :
           /\ b = Cons(Rest(Top, x), Tail(stack[Self])) /\ x = sig_lowest(Top.set) /\ x \in sig_pendingset(z, Self)
           /\ y = sig_removependingsignal(z, Self, x) /\ a = FirstPending(z, Self, x) /\ a \in Action
           /\ Dispatching(Self, y, b) /\ Dispatch(y, Self, a, b) /\ own' = own /\ corrupt' = corrupt
<1>1. PICK b : OnTop(Self, Top, b) /\ b = Tail(stack[Self])
  BY AtTop DEF UnmaskTakes, At
<1>2. PICK r, f, x : r = Self /\ f = Top /\ x = sig_lowest(Top.set)
  OBVIOUS
<1>3. PICK d, y, a : /\ d = [f EXCEPT !.set = @ \ {x}] /\ y = sig_removependingsignal(z, r, x)
                     /\ a = FirstPending(z, r, x)
  OBVIOUS
<1>4. /\ f.op = "unmask" /\ x \in sig_pendingset(z, r) /\ Dispatch(y, r, a, <<d>> \o b)
      /\ own' = own /\ corrupt' = corrupt
  BY <1>1, <1>2, <1>3 DEF UnmaskTakes, UnmaskNext, At
<1>5. OnTop(r, f, b) /\ z \in SigState /\ Sound(z.k) /\ r \in Task
  BY <1>1, <1>2 DEF Base, Typed, OnTop
<1>6. d = Rest(f, x) /\ d \in Frame /\ d.op = "unmask"
  BY <1>3, <1>4, <1>5, RestMade DEF OnTop
<1>7. ~Loose(d) /\ ~WaitFrame(d) /\ ~Saver(d) /\ ~Loose(f) /\ ~Saver(f)
  BY <1>4, <1>6 DEF Loose, WaitFrame, Saver
<1>8. PICK m \in SUBSET Sig : m = z.mask[r]
  BY <1>5 DEF OnTop
<1>9. InPlace(b, m, own[r], r)
  BY <1>5, <1>7, <1>8 DEF OnTop, Under
<1>10. PICK s : s = Cons(d, b)
  OBVIOUS
<1>11. InPlace(s, m, own[r], r) /\ Count(s) = Count(b) + 1 /\ <<d>> \o b = s /\ (HasTimed(b) => HasTimed(s))
  BY <1>6, <1>7, <1>9, <1>10, HoldInPlace
<1>12. s # <<>>
  BY <1>5, <1>6, <1>10, ConsAt DEF OnTop
<1>13. a \in Action
  BY <1>3, <1>4, <1>5, FirstFound
<1>14. SameTasks(z, y)
  BY <1>3, <1>4, <1>5, RemovedState DEF Pends
<1>15. z.k.lock = [z.k.lock EXCEPT ![r] = Count(s)]
  BY <1>5, <1>7, <1>11 DEF OnTop
<1>16. HasTimed(stack[r]) => HasTimed(s)
  BY <1>4, <1>5, <1>11 DEF OnTop
<1>17. Dispatching(r, y, s)
  BY <1>2, <1>5, <1>8, <1>11, <1>12, <1>14, <1>15, <1>16 DEF Dispatching, SameTasks, OnTop, Self
<1> QED  BY <1>1, <1>2, <1>3, <1>4, <1>6, <1>10, <1>11, <1>13, <1>17

\* UnmaskNext, at a pending signal
LEMMA UnmaskTakesGoes ==
  ASSUME Base, UnmaskTakes
  PROVE  Going(Self, stack'[Self], z.mask[Self], own[Self])
<1>1. Self \in Client
  <2>1. PICK b : OnTop(Self, Top, b)
    BY AtTop DEF UnmaskTakes, At
  <2> QED  BY <2>1 DEF OnTop
<1> QED  BY <1>1, UnmaskStarts, DispatchGoes

\* A queued action has a handler.
HandledOnly == \A t \in Task : \A i \in 1..Len(z.actions[t]) : z.actions[t][i].sig \in Handled

\* DeliverNext, at the end of the queue, at an action and at one that is freed.
DeliverEnds == At("deliver") /\ DeliverNext /\ Top.next = NULL
DeliverTakes == At("deliver") /\ DeliverNext /\ \E i \in 1..Len(z.actions[Self]) : z.actions[Self][i].id = Top.next
DeliverFreed ==
  At("deliver") /\ DeliverNext /\ Top.next # NULL /\ \A i \in 1..Len(z.actions[Self]) : z.actions[Self][i].id # Top.next

\* The identities of queued actions are not NULL.
LEMMA NotNull ==
  ASSUME NEW l \in Seq(Action), NEW i \in 1..Len(l)
  PROVE  l[i] \in Action /\ l[i].id # NULL /\ l[i].sig \in Sig
<1>1. l[i] \in Action
  BY ElementOfSeq
<1> QED  BY <1>1 DEF Action, SendId, NULL

\* DeliverNext, at the end
LEMMA DeliverEndsGoes ==
  ASSUME Base, DeliverEnds
  PROVE  Going(Self, Tail(stack[Self]), z.mask[Self], own[Self]) /\ IsUnlocked(z, Self, z')
<1>1. PICK b : OnTop(Self, Top, b) /\ b = Tail(stack[Self])
  BY AtTop DEF DeliverEnds, At
<1>2. \A i \in 1..Len(z.actions[Self]) : z.actions[Self][i].id # Top.next
  <2>1. PICK l \in Seq(Action) : l = z.actions[Self]
    BY <1>1 DEF Base, Typed, SigState, ActMap, OnTop
  <2> QED  BY <2>1, NotNull DEF DeliverEnds
<1>3. Top.op = "deliver" /\ z' = Unlocked(z) /\ Pop /\ own' = own /\ corrupt' = corrupt
  BY <1>2 DEF DeliverEnds, DeliverNext, At
<1>4. ~Loose(Top) /\ ~Saver(Top) /\ Top.op # "timedwait"
  BY <1>3 DEF Loose, Saver
<1> QED  BY <1>1, <1>3, <1>4, PopUnlockGoes

\* What sig_deliver does with the action i of the queue l of r, in the frame f: the queue
\* becomes m, the mask n, and the frame is the frame h of the handler.
Delivers(r, f, l, i, m, n, h) ==
  /\ l = z.actions[r] /\ l \in Seq(Action) /\ i \in 1..Len(l) /\ l[i].id = f.next
  /\ \E j : l[j] = l[i] /\ IsCut(l, j, m)
  /\ h \in Frame /\ h.op = "handler" /\ h.saved = z.mask[r]
  /\ h.next = IF i < Len(l) THEN l[i + 1].id ELSE NULL
  /\ z' \in SigState /\ z'.k = z.k /\ z'.pending = z.pending /\ z'.actions = [z.actions EXCEPT ![r] = m]
  /\ z'.waitmask = z.waitmask /\ z'.waitdog = z.waitdog /\ z'.sigdeliver = z.sigdeliver
  /\ z'.mask = [z.mask EXCEPT ![r] = n] /\ n \in SUBSET Sig

\* DeliverNext, at an action
LEMMA DeliverTakesGoes ==
  ASSUME Base, HandledOnly, DeliverTakes
  PROVE  \E l, i, m, n, h : /\ Delivers(Self, Top, l, i, m, n, h)
                            /\ Going(Self, Cons(h, Tail(stack[Self])), n, own[Self]) /\ corrupt' = corrupt
<1>1. PICK b : OnTop(Self, Top, b) /\ b = Tail(stack[Self])
  BY AtTop DEF DeliverTakes, At
<1>2. PICK r, f : r = Self /\ f = Top
  OBVIOUS
<1>3. OnTop(r, f, b) /\ z \in SigState /\ Sound(z.k) /\ r \in Task /\ f \in Frame /\ f.op = "deliver"
  BY <1>1, <1>2 DEF Base, Typed, OnTop, DeliverTakes, At
<1>4. PICK l \in Seq(Action) : l = z.actions[r]
  BY <1>3 DEF SigState, ActMap
<1>5. PICK I : I = {i \in 1..Len(l) : l[i].id = f.next}
  OBVIOUS
<1>6. I # {}
  BY <1>2, <1>4, <1>5 DEF DeliverTakes
<1>7. PICK i : i = CHOOSE j \in I : TRUE
  OBVIOUS
<1>8. i \in 1..Len(l) /\ l[i].id = f.next
  BY <1>5, <1>6, <1>7
<1>9. f.next # NULL /\ l[i] \in Action /\ l[i].sig \in Sig
  BY <1>8, NotNull
<1>10. l[i].sig \in Handled
  BY <1>3, <1>4, <1>8 DEF HandledOnly
<1>11. PICK n \in SUBSET Sig : n = z.mask[r] \union SaMask[l[i].sig] \union {l[i].sig}
  <2>1. z.mask[r] \in SUBSET Sig
    BY <1>3 DEF OnTop
  <2>2. SaMask[l[i].sig] \in SUBSET Sig
    BY <1>10, SignalAssumption
  <2>3. z.mask[r] \union SaMask[l[i].sig] \union {l[i].sig} \in SUBSET Sig
    BY <1>9, <2>1, <2>2
  <2> QED  BY <2>3
<1>12. PICK h : h = [op |-> "handler", irqoff |-> f.irqoff, saved |-> z.mask[r],
                     next |-> IF i < Len(l) THEN l[i + 1].id ELSE NULL]
  OBVIOUS
<1>13. /\ z' = [z EXCEPT !.actions[r] = dq_rem(l[i], @), !.mask[r] = @ \union SaMask[l[i].sig] \union {l[i].sig}]
       /\ stack' = [stack EXCEPT ![r] = <<h>> \o Tail(@)]
       /\ corrupt' = corrupt /\ own' = own
  BY <1>2, <1>4, <1>5, <1>6, <1>7, <1>9, <1>12 DEF DeliverTakes, DeliverNext, Replace
<1>14. h \in Frame /\ h.op = "handler" /\ h.saved = z.mask[r] /\ h.next = IF i < Len(l) THEN l[i + 1].id ELSE NULL
  <2>1. PICK x : x = IF i < Len(l) THEN l[i + 1].id ELSE NULL
    OBVIOUS
  <2>2. x \in SendId \union {NULL}
    <3>1. CASE i < Len(l)
      <4>1. i + 1 \in 1..Len(l)
        BY <1>8, <3>1, LenProperties
      <4> QED  BY <2>1, <3>1, <4>1, NotNull DEF Action
    <3> QED  BY <2>1, <3>1
  <2>3. f.irqoff \in BOOLEAN
    BY <1>3, FrameKinds
  <2>4. PICK v \in SUBSET Sig : v = z.mask[r]
    BY <1>3 DEF OnTop
  <2>5. h = [op |-> "handler", next |-> x, irqoff |-> f.irqoff, saved |-> v]
    BY <1>12, <2>1, <2>4
  <2>6. h \in Frame
    BY <2>2, <2>3, <2>5, FrameMade
  <2> QED  BY <2>1, <2>4, <2>5, <2>6
<1>15. PICK j : l[j] = l[i] /\ IsCut(l, j, dq_rem(l[i], l))
  BY <1>8, CutOut
<1>16. PICK m : m = dq_rem(l[i], l)
  OBVIOUS
<1>17. PICK p \in ActMap : p = [z.actions EXCEPT ![r] = m]
  <2>1. m \in Seq(Action)
    BY <1>15, <1>16 DEF IsCut
  <2> QED  BY <1>3, <2>1 DEF SigState, ActMap
<1>18. PICK w \in MaskMap : w = [z.mask EXCEPT ![r] = n]
  BY <1>3 DEF SigState, MaskMap
<1>19. z' = [z EXCEPT !.actions = p, !.mask = w]
  <2>1. p = [z.actions EXCEPT ![r] = dq_rem(l[i], @)]
    BY <1>3, <1>4, <1>16, <1>17 DEF SigState, ActMap
  <2>2. w = [z.mask EXCEPT ![r] = @ \union SaMask[l[i].sig] \union {l[i].sig}]
    BY <1>3, <1>11, <1>18 DEF SigState, MaskMap
  <2> QED  BY <1>3, <1>13, <2>1, <2>2 DEF SigState
<1>20. Delivers(r, f, l, i, m, n, h)
  BY <1>3, <1>4, <1>8, <1>14, <1>15, <1>16, <1>17, <1>18, <1>19 DEF Delivers, SigState
<1>21. PICK s : s = Cons(h, b)
  OBVIOUS
<1>22. ~Loose(h) /\ ~WaitFrame(h) /\ ~AddTo(h, r) /\ Under(h, n) = z.mask[r] /\ Under(f, z.mask[r]) = z.mask[r]
       /\ ~Loose(f) /\ h.op # "timedwait"
  BY <1>3, <1>14 DEF Loose, WaitFrame, AddTo, Under, Saver
<1>23. InPlace(s, n, own[r], r) /\ b \in Seq(Frame)
  <2>1. b \in Seq(Frame) /\ InPlace(b, Under(h, n), own[r], r)
    BY <1>3, <1>22 DEF OnTop
  <2>2. InPlace(Cons(h, b), n, own[r], r)
    BY <1>14, <1>22, <2>1, PushInPlace
  <2> QED  BY <1>21, <2>1, <2>2
<1>24. Count(s) = Count(b) + 1 /\ (HasTimed(b) => HasTimed(s)) /\ <<h>> \o b = s
  BY <1>14, <1>21, <1>22, <1>23, CountCons, TimedCons DEF Cons
<1>25. stack' = [stack EXCEPT ![r] = s]
  BY <1>1, <1>2, <1>3, <1>13, <1>24 DEF OnTop
<1>26. z'.k.lock = [z.k.lock EXCEPT ![r] = Count(s)] /\ Self' = r
  BY <1>2, <1>3, <1>20, <1>22, <1>24 DEF OnTop, Delivers, Self
<1>27. HasTimed(s) \/ ~HasTimed(stack[r])
  BY <1>3, <1>24 DEF OnTop
<1>28. own' = [own EXCEPT ![r] = own[r]] /\ own[r] \in SUBSET Sig
  BY <1>3, <1>13 DEF OnTop, MaskMap
<1>29. corrupt' \in BOOLEAN /\ z'.sigdeliver \subseteq Client
  BY <1>13, <1>20 DEF Base, Typed, Delivers
<1>30. Going(r, s, n, own[r])
  BY <1>3, <1>20, <1>23, <1>25, <1>26, <1>27, <1>28, <1>29 DEF Going, OnTop, InPlace, Delivers
<1> QED  BY <1>1, <1>2, <1>13, <1>20, <1>21, <1>30

\* DeliverNext, at an action that is freed
LEMMA DeliverFreedGoes ==
  ASSUME Base, DeliverFreed
  PROVE  Going(Self, stack[Self], z.mask[Self], own[Self]) /\ corrupt' /\ z' = z
<1>1. PICK b : OnTop(Self, Top, b)
  BY AtTop DEF DeliverFreed, DeliverNext, At
<1>2. z' = z /\ stack' = stack /\ corrupt' = TRUE /\ own' = own /\ Self \in Client /\ z.sigdeliver \subseteq Client
  <2>1. {i \in 1..Len(z.actions[Self]) : z.actions[Self][i].id = Top.next} = {}
    BY DEF DeliverFreed
  <2>2. z' = z /\ stack' = stack /\ corrupt' = TRUE /\ own' = own
    BY <2>1 DEF DeliverFreed, DeliverNext
  <2> QED  BY <1>1, <2>2 DEF OnTop, Base, Typed
<1>3. PICK s : OnStack(Self, s)
  BY <1>2, AtUser
<1>4. PICK r : r = Self
  OBVIOUS
<1>5. /\ stack' = [stack EXCEPT ![r] = s] /\ z'.mask = [z.mask EXCEPT ![r] = z.mask[r]]
      /\ own' = [own EXCEPT ![r] = own[r]] /\ z'.k.lock = [z.k.lock EXCEPT ![r] = Count(s)]
  BY <1>2, <1>3, <1>4 DEF OnStack, MaskMap
<1>6. Self' = r /\ z' \in SigState /\ Sound(z'.k)
  BY <1>2, <1>4 DEF Self, Base, Typed
<1>7. Going(r, s, z.mask[r], own[r])
  BY <1>2, <1>3, <1>4, <1>5, <1>6 DEF Going, OnStack, InPlace
<1> QED  BY <1>2, <1>3, <1>4, <1>7 DEF OnStack

\* The task r starts to wait in the frame w, with the mask m.
StartsWait(r, w, m) ==
  /\ w \in Frame /\ WaitFrame(w) /\ Under(w, m) = own[r]
  /\ stack' = [stack EXCEPT ![r] = Cons(w, <<>>)] /\ own' = own /\ corrupt' = corrupt
  /\ z' \in SigState /\ Sound(z'.k) /\ z'.mask = [z.mask EXCEPT ![r] = m] /\ z'.sigdeliver \subseteq Client
  /\ Asleep(z'.k) = Asleep(z.k) \union {r} /\ z'.k.lock = [z.k.lock EXCEPT ![r] = @ + 1]
  /\ \A t \in Task \ {r} : z'.waitmask[t] = z.waitmask[t] /\ (t \in z'.waitdog => t \in z.waitdog)
  /\ z'.waitmask[r] # {} \/ r \in z'.waitdog => w.op = "timedwait"

\* This moves it to the wait.
LEMMA WaitMoves ==
  ASSUME Base, NEW r, OnStack(r, <<>>), NEW w, NEW m \in SUBSET Sig, StartsWait(r, w, m)
  PROVE  Moved(r, Cons(w, <<>>), m, own[r]) /\ TypedStep
<1>0. w \in Frame /\ WaitFrame(w)
  BY DEF StartsWait
<1>1. <<>> \in Seq(Frame) /\ r = Self /\ r \in Task /\ r \in Client /\ own \in MaskMap /\ corrupt \in BOOLEAN
  BY DEF OnStack, Base, Typed
<1>2. PICK e \in Seq(Frame) : e = <<>>
  BY <1>1
<1>3. PICK s : s = Cons(w, e)
  OBVIOUS
<1>4. ~Loose(w) /\ ~AddTo(w, r)
  BY <1>0 DEF WaitFrame, Loose, AddTo
<1>5. InPlace(e, Under(w, m), own[r], r)
  <2>1. PICK v \in SUBSET Sig : v = own[r]
    BY DEF OnStack
  <2>2. Framed(<<>>, v, v, r)
    BY FramedEmpty
  <2> QED  BY <1>2, <2>1, <2>2 DEF InPlace, OnStack, StartsWait
<1>6. InPlace(s, m, own[r], r) /\ s # <<>>
  BY <1>0, <1>2, <1>3, <1>4, <1>5, PushInPlace
<1>7. s[1] = w /\ s \in Seq(Frame)
  <2>1. Cons(w, e)[1] = w
    BY <1>0, ConsAt
  <2>2. Cons(w, e) \in Seq(Frame)
    BY <1>0, ConsAt
  <2> QED  BY <1>3, <2>1, <2>2
<1>8. AtWait(s)
  BY <1>0, <1>6, <1>7 DEF AtWait
<1>9. Count(s) = Count(e) + 1 /\ (HasTimed(s) <=> w.op = "timedwait" \/ HasTimed(e))
  BY <1>0, <1>3, <1>4, CountCons, TimedCons
<1>10. z'.k.lock = [z.k.lock EXCEPT ![r] = Count(s)]
  BY <1>2, <1>9 DEF OnStack, StartsWait
<1>11. own' = [own EXCEPT ![r] = own[r]] /\ own[r] \in SUBSET Sig
  BY <1>1 DEF MaskMap, StartsWait
<1>12. r # IDLE
  BY <1>1 DEF Client
<1>13. Moved(r, s, m, own[r])
  BY <1>1, <1>2, <1>3, <1>6, <1>7, <1>8, <1>9, <1>10, <1>11, <1>12 DEF Moved, InPlace, StartsWait
<1>14. TypedStep
  BY <1>1 DEF TypedStep, StartsWait
<1> QED  BY <1>2, <1>3, <1>13, <1>14

\* The waits, by what they find: a pending signal, or none.
SuspendTakes(S) == SigSuspend(S) /\ sig_pendingset(z, Self) \ S # {}
SuspendWaits(S) == SigSuspend(S) /\ sig_pendingset(z, Self) \ S = {}
TimedTakes(S, q) == SigTimedWait(S, q) /\ sig_pendingset(z, Self) \intersect S # {}
TimedWaits(S, q) == SigTimedWait(S, q) /\ sig_pendingset(z, Self) \intersect S = {}

\* The lowest of some signals is one of them.
LEMMA LowestFound ==
  ASSUME NEW S \in SUBSET Sig, S # {}
  PROVE  sig_lowest(S) \in S
<1>1. S \in SUBSET Nat
  BY SignalAssumption
<1>2. PICK m \in S : \A n \in S : m <= n
  BY <1>1, LeastElement
<1> QED  BY <1>2 DEF sig_lowest

\* A wait that finds a pending signal takes it from the list.
LEMMA TakeGoes ==
  ASSUME Base, InUser, stack[Self] = <<>>, NEW x \in sig_pendingset(z, Self),
         z' = sig_removependingsignal(z, Self, x), stack' = stack, own' = own, corrupt' = corrupt
  PROVE  Going(Self, <<>>, z.mask[Self], own[Self]) /\ SameTasks(z, z')
<1>1. Self \in Client /\ z \in SigState /\ Sound(z.k)
  BY DEF InUser, Base, Typed
<1>2. PICK b : OnStack(Self, b)
  BY <1>1, AtUser
<1>3. PICK r : r = Self
  OBVIOUS
<1>4. OnStack(r, <<>>)
  BY <1>2, <1>3 DEF OnStack
<1>5. SameTasks(z, z')
  BY <1>1, <1>3, <1>4, RemovedState DEF Pends, OnStack
<1>6. stack' = [stack EXCEPT ![r] = <<>>] /\ z'.k.lock = [z.k.lock EXCEPT ![r] = Count(<<>>)]
  BY <1>4, <1>5 DEF OnStack, SameTasks
<1>7. /\ z' \in SigState /\ Sound(z'.k) /\ z'.mask = z.mask /\ z'.waitdog = z.waitdog /\ z'.waitmask = z.waitmask
      /\ z'.sigdeliver \subseteq Client /\ Asleep(z'.k) = Asleep(z.k) /\ this_task(z'.k) = r
  BY <1>1, <1>3, <1>5 DEF SameTasks, Base, Typed, Self
<1>8. InPlace(<<>>, z.mask[r], own[r], r) /\ r \in Client /\ (HasTimed(<<>>) \/ ~HasTimed(stack[r]))
  BY <1>4 DEF OnStack
<1>9. Going(r, <<>>, z.mask[r], own[r])
  BY <1>3, <1>6, <1>7, <1>8, GoOn
<1> QED  BY <1>3, <1>5, <1>9

\* SigSuspend, with a pending signal
LEMMA SuspendTakesGoes ==
  ASSUME Base, NEW S, SuspendTakes(S)
  PROVE  /\ Going(Self, <<>>, z.mask[Self], own[Self])
         /\ \E x \in sig_pendingset(z, Self) : z' = sig_removependingsignal(z, Self, x)
<1>1. InUser /\ stack[Self] = <<>> /\ own' = own /\ corrupt' = corrupt /\ stack' = stack
  BY DEF SuspendTakes, SigSuspend
<1>2. PICK x : x = sig_lowest(sig_pendingset(z, Self) \ S)
  OBVIOUS
<1>3. z' = sig_removependingsignal(z, Self, x)
  BY <1>2 DEF SuspendTakes, SigSuspend
<1>4. x \in sig_pendingset(z, Self)
  <2>1. sig_pendingset(z, Self) \in SUBSET Sig
    BY Runner, UnmaskFrameMade DEF Base, Typed
  <2>2. PICK P \in SUBSET Sig : P = sig_pendingset(z, Self) \ S
    BY <2>1
  <2>3. x \in P
    BY <1>2, <2>2, LowestFound DEF SuspendTakes
  <2> QED  BY <2>2, <2>3
<1> QED  BY <1>1, <1>3, <1>4, TakeGoes

\* SigTimedWait, with a pending signal
LEMMA TimedTakesGoes ==
  ASSUME Base, NEW S, NEW q, TimedTakes(S, q)
  PROVE  /\ Going(Self, <<>>, z.mask[Self], own[Self])
         /\ \E x \in sig_pendingset(z, Self) : z' = sig_removependingsignal(z, Self, x)
<1>1. InUser /\ stack[Self] = <<>> /\ own' = own /\ corrupt' = corrupt /\ stack' = stack
  BY DEF TimedTakes, SigTimedWait
<1>2. PICK x : x = sig_lowest(sig_pendingset(z, Self) \intersect S)
  OBVIOUS
<1>3. z' = sig_removependingsignal(z, Self, x)
  BY <1>2 DEF TimedTakes, SigTimedWait
<1>4. x \in sig_pendingset(z, Self)
  <2>1. sig_pendingset(z, Self) \in SUBSET Sig
    BY Runner, UnmaskFrameMade DEF Base, Typed
  <2>2. PICK P \in SUBSET Sig : P = sig_pendingset(z, Self) \intersect S
    BY <2>1
  <2>3. x \in P
    BY <1>2, <2>2, LowestFound DEF TimedTakes
  <2> QED  BY <2>2, <2>3
<1> QED  BY <1>1, <1>3, <1>4, TakeGoes

\* A task in its program, outside handlers: its mask is its own.
LEMMA AtRest ==
  ASSUME Base, InUser, stack[Self] = <<>>
  PROVE  OnStack(Self, <<>>) /\ z.mask[Self] = own[Self] /\ z \in SigState /\ Sound(z.k)
<1>1. Self \in Client /\ z \in SigState /\ Sound(z.k)
  BY DEF InUser, Base, Typed
<1>2. PICK b : OnStack(Self, b)
  BY <1>1, AtUser
<1>3. OnStack(Self, <<>>)
  BY <1>2 DEF OnStack
<1>4. PICK m \in SUBSET Sig : m = z.mask[Self]
  BY <1>3 DEF OnStack
<1>5. Framed(<<>>, m, own[Self], Self)
  BY <1>3, <1>4 DEF OnStack, InPlace
<1>6. m = own[Self]
  BY <1>5, FramedEmpty
<1> QED  BY <1>1, <1>3, <1>4, <1>6

\* SigSuspend, without a pending signal
LEMMA SuspendWaitsMoves ==
  ASSUME Base, NEW S \in SUBSET Sig, SuspendWaits(S)
  PROVE  \E w : /\ Moved(Self, Cons(w, <<>>), S, own[Self]) /\ TypedStep /\ w \in Frame /\ w.op = "suspend"
                /\ z'.pending = z.pending /\ z'.actions = z.actions /\ z'.sigdeliver = z.sigdeliver
                /\ z'.waitmask[Self] = {} /\ \A t \in Task \ {Self} : z'.waitmask[t] = z.waitmask[t]
<1>1. InUser /\ stack[Self] = <<>> /\ own' = own /\ corrupt' = corrupt
  BY DEF SuspendWaits, SigSuspend
<1>2. PICK r, x : r = Self /\ x = Locked(z)
  OBVIOUS
<1>3. OnStack(r, <<>>) /\ z.mask[r] = own[r] /\ z \in SigState /\ Sound(z.k) /\ r \in Task /\ r # IDLE
  BY <1>1, <1>2, AtRest DEF OnStack, Client
<1>4. IsLocked(z, r, x)
  BY <1>2, <1>3, LockedState DEF Self
<1>5. PICK a : a = up_block_task(x.k, r, "WAIT_SIG")
  OBVIOUS
<1>6. Sound(a) /\ a \in KernelState /\ Asleep(a) = Asleep(x.k) \union {r} /\ a.lock = x.k.lock
  BY <1>3, <1>4, <1>5, BlockStep DEF IsLocked
<1>7. PICK v \in MaskMap : v = [z.mask EXCEPT ![r] = S]
  BY <1>3 DEF SigState, MaskMap
<1>8. PICK u \in MaskMap : u = [z.waitmask EXCEPT ![r] = {}]
  BY <1>3 DEF SigState, MaskMap
<1>9. PICK w : w = [op |-> "suspend", saved |-> z.mask[r]]
  OBVIOUS
<1>10. w \in Frame /\ w.op = "suspend" /\ w.saved = z.mask[r]
  <2>1. PICK m \in SUBSET Sig : m = z.mask[r]
    BY <1>3 DEF OnStack
  <2>2. w = [op |-> "suspend", saved |-> m] /\ [op |-> "suspend", saved |-> m] \in Frame
    BY <1>9, <2>1, FrameMade
  <2> QED  BY <2>1, <2>2
<1>11. WaitFrame(w) /\ Under(w, S) = own[r]
  BY <1>3, <1>10 DEF WaitFrame, Under, Saver
<1>12. /\ z' = [x EXCEPT !.mask[r] = S, !.waitmask[r] = {}, !.k = up_block_task(@, r, "WAIT_SIG")]
       /\ stack' = [stack EXCEPT ![r] = <<w>> \o @]
  BY <1>2, <1>9 DEF SuspendWaits, SigSuspend, Push
<1>13. z' = [x EXCEPT !.mask = v, !.waitmask = u, !.k = a]
  BY <1>4, <1>5, <1>7, <1>8, <1>12 DEF IsLocked, SameSignals, SigState
<1>14. /\ z' \in SigState /\ z'.k = a /\ z'.mask = v /\ z'.waitmask = u /\ z'.pending = z.pending
       /\ z'.actions = z.actions /\ z'.sigdeliver = z.sigdeliver /\ z'.waitdog = z.waitdog
  BY <1>4, <1>6, <1>13 DEF IsLocked, SameSignals, SigState
<1>15. stack' = [stack EXCEPT ![r] = Cons(w, <<>>)]
  BY <1>3, <1>12 DEF Cons, OnStack
<1>16. z'.waitmask[r] = {} /\ \A t \in Task \ {r} : z'.waitmask[t] = z.waitmask[t]
  BY <1>3, <1>8, <1>14 DEF SigState, MaskMap
<1>17. r \notin z'.waitdog
  <2>1. ~HasTimed(stack[r])
    <3>1. Frames(<<>>) = {}
      BY <1>3, FramesEmpty DEF OnStack
    <3> QED  BY <1>1, <1>2, <3>1 DEF HasTimed
  <2> QED  BY <1>3, <1>14, <2>1 DEF Base, WaitsTimed
<1>18. Asleep(z'.k) = Asleep(z.k) \union {r} /\ z'.k.lock = [z.k.lock EXCEPT ![r] = @ + 1] /\ Sound(z'.k)
  BY <1>4, <1>6, <1>14 DEF IsLocked
<1>19. z'.sigdeliver \subseteq Client /\ z'.mask = [z.mask EXCEPT ![r] = S]
  BY <1>7, <1>14 DEF Base, Typed
<1>20. Moved(r, Cons(w, <<>>), S, own[r]) /\ TypedStep
  <2>1. StartsWait(r, w, S)
    BY <1>1, <1>10, <1>11, <1>14, <1>15, <1>16, <1>17, <1>18, <1>19 DEF StartsWait
  <2> QED  BY <1>3, <2>1, WaitMoves
<1> QED  BY <1>2, <1>10, <1>14, <1>16, <1>20

\* SigTimedWait, without a pending signal
LEMMA TimedWaitsMoves ==
  ASSUME Base, NEW S \in SUBSET Sig, NEW q \in BOOLEAN, TimedWaits(S, q)
  PROVE  \E w : /\ Moved(Self, Cons(w, <<>>), z.mask[Self], own[Self]) /\ TypedStep /\ w \in Frame /\ w.op = "timedwait"
                /\ z'.pending = z.pending /\ z'.actions = z.actions /\ z'.sigdeliver = z.sigdeliver
                /\ z'.waitmask[Self] = S /\ \A t \in Task \ {Self} : z'.waitmask[t] = z.waitmask[t]
<1>1. InUser /\ stack[Self] = <<>> /\ own' = own /\ corrupt' = corrupt
  BY DEF TimedWaits, SigTimedWait
<1>2. PICK r, x : r = Self /\ x = Locked(z)
  OBVIOUS
<1>3. OnStack(r, <<>>) /\ z.mask[r] = own[r] /\ z \in SigState /\ Sound(z.k) /\ r \in Task /\ r # IDLE
  BY <1>1, <1>2, AtRest DEF OnStack, Client
<1>4. IsLocked(z, r, x)
  BY <1>2, <1>3, LockedState DEF Self
<1>5. PICK a : a = up_block_task(x.k, r, "WAIT_SIG")
  OBVIOUS
<1>6. Sound(a) /\ a \in KernelState /\ Asleep(a) = Asleep(x.k) \union {r} /\ a.lock = x.k.lock
  BY <1>3, <1>4, <1>5, BlockStep DEF IsLocked
<1>7. PICK u \in MaskMap : u = [z.waitmask EXCEPT ![r] = S]
  BY <1>3 DEF SigState, MaskMap
<1>8. PICK d : d = IF q THEN z.waitdog \union {r} ELSE z.waitdog
  OBVIOUS
<1>9. d \in SUBSET Task /\ \A t \in Task \ {r} : t \in d => t \in z.waitdog
  BY <1>3, <1>8 DEF SigState
<1>10. PICK w : w = [op |-> "timedwait", timed |-> q]
  OBVIOUS
<1>11. w \in Frame /\ w.op = "timedwait"
  BY <1>10, FrameMade
<1>12. PICK m \in SUBSET Sig : m = z.mask[r]
  BY <1>3 DEF OnStack
<1>13. WaitFrame(w) /\ Under(w, m) = own[r]
  BY <1>3, <1>11, <1>12 DEF WaitFrame, Under, Saver
<1>14. /\ z' = [x EXCEPT !.waitmask[r] = S, !.waitdog = IF q THEN @ \union {r} ELSE @,
                         !.k = up_block_task(@, r, "WAIT_SIG")]
       /\ stack' = [stack EXCEPT ![r] = <<w>> \o @]
  BY <1>2, <1>10 DEF TimedWaits, SigTimedWait, Push
<1>15. z' = [x EXCEPT !.waitmask = u, !.waitdog = d, !.k = a]
  BY <1>4, <1>5, <1>7, <1>8, <1>14 DEF IsLocked, SameSignals, SigState
<1>16. /\ z' \in SigState /\ z'.k = a /\ z'.mask = z.mask /\ z'.waitmask = u /\ z'.pending = z.pending
       /\ z'.actions = z.actions /\ z'.sigdeliver = z.sigdeliver /\ z'.waitdog = d
  BY <1>4, <1>6, <1>9, <1>15 DEF IsLocked, SameSignals, SigState
<1>17. stack' = [stack EXCEPT ![r] = Cons(w, <<>>)]
  BY <1>3, <1>14 DEF Cons, OnStack
<1>18. z'.waitmask[r] = S /\ \A t \in Task \ {r} : z'.waitmask[t] = z.waitmask[t]
  BY <1>3, <1>7, <1>16 DEF SigState, MaskMap
<1>19. Asleep(z'.k) = Asleep(z.k) \union {r} /\ z'.k.lock = [z.k.lock EXCEPT ![r] = @ + 1] /\ Sound(z'.k)
  BY <1>4, <1>6, <1>16 DEF IsLocked
<1>20. z'.sigdeliver \subseteq Client /\ z'.mask = [z.mask EXCEPT ![r] = m]
  BY <1>3, <1>12, <1>16 DEF Base, Typed, SigState, MaskMap
<1>21. Moved(r, Cons(w, <<>>), m, own[r]) /\ TypedStep
  <2>1. StartsWait(r, w, m)
    BY <1>1, <1>9, <1>11, <1>13, <1>16, <1>17, <1>18, <1>19, <1>20 DEF StartsWait
  <2> QED  BY <1>3, <2>1, WaitMoves
<1> QED  BY <1>2, <1>11, <1>12, <1>16, <1>18, <1>21

\* TimedWaitResumed
LEMMA TimedWaitResumedGoes ==
  ASSUME Base, TimedWaitResumed
  PROVE  /\ Going(Self, <<>>, z.mask[Self], own[Self]) /\ Tail(stack[Self]) = <<>>
         /\ z'.pending = z.pending /\ z'.actions = z.actions /\ z'.sigdeliver = z.sigdeliver
<1>1. PICK b : OnTop(Self, Top, b) /\ b = Tail(stack[Self])
  BY AtTop DEF TimedWaitResumed, At
<1>2. PICK r, f, y : r = Self /\ f = Top /\ y = [z EXCEPT !.waitmask[Self] = {}, !.waitdog = @ \ {Self}]
  OBVIOUS
<1>3. /\ f.op = "timedwait" /\ z' = Unlocked(y) /\ stack' = [stack EXCEPT ![r] = <<>> \o Tail(@)]
      /\ own' = own /\ corrupt' = corrupt
  BY <1>2 DEF TimedWaitResumed, At, Pop, Replace
<1>4. OnTop(r, f, b) /\ z \in SigState /\ Sound(z.k) /\ r \in Task /\ corrupt \in BOOLEAN /\ z.sigdeliver \subseteq Client
  BY <1>1, <1>2 DEF Base, Typed, OnTop
<1>5. ~Loose(f) /\ WaitFrame(f) /\ ~Saver(f)
  BY <1>3 DEF Loose, WaitFrame, Saver
<1>6. b = <<>> /\ Tail(stack[r]) = <<>> /\ <<>> \o b = b
  BY <1>1, <1>2, <1>4, <1>5, ConcatEmptySeq DEF OnTop
<1>7. PICK u \in MaskMap : u = [z.waitmask EXCEPT ![r] = {}]
  BY <1>4 DEF SigState, MaskMap
<1>8. y = [z EXCEPT !.waitmask = u, !.waitdog = z.waitdog \ {r}]
  BY <1>2, <1>4, <1>7 DEF SigState
<1>9. /\ y \in SigState /\ y.k = z.k /\ y.mask = z.mask /\ y.pending = z.pending /\ y.actions = z.actions
      /\ y.sigdeliver = z.sigdeliver /\ y.waitmask = u /\ y.waitdog = z.waitdog \ {r}
  BY <1>4, <1>8 DEF SigState
<1>10. z.k.lock[r] = Count(b) + 1 /\ z.k.lock[r] > 0 /\ z.k.lock \in [Task -> Nat] /\ Count(b) \in Nat
  BY <1>4, <1>5 DEF OnTop
<1>11. IsUnlocked(y, r, z')
  BY <1>2, <1>3, <1>4, <1>9, <1>10, UnlockedState DEF Self
<1>12. z'.k.lock = [z.k.lock EXCEPT ![r] = Count(b)]
  <2>1. z'.k.lock = [z.k.lock EXCEPT ![r] = @ - 1]
    BY <1>9, <1>11 DEF IsUnlocked
  <2> QED  BY <1>4, <1>10, <2>1, LockDown
<1>13. /\ z' \in SigState /\ Sound(z'.k) /\ z'.mask = z.mask /\ z'.pending = z.pending /\ z'.actions = z.actions
       /\ z'.sigdeliver = z.sigdeliver /\ z'.waitmask = u /\ z'.waitdog = z.waitdog \ {r}
       /\ Asleep(z'.k) = Asleep(z.k) /\ (Self' = r \/ z'.k.lock[r] = 0)
  BY <1>9, <1>11 DEF IsUnlocked, SameSignals, Self
<1>14. z'.waitmask[r] = {} /\ \A t \in Task : z'.waitmask[t] \subseteq z.waitmask[t]
  BY <1>4, <1>7, <1>13 DEF SigState, MaskMap
<1>15. InPlace(b, z.mask[r], own[r], r)
  BY <1>4, <1>5 DEF OnTop, Under
<1>16. stack' = [stack EXCEPT ![r] = b]
  BY <1>3, <1>6
<1>17. /\ z.mask = [z.mask EXCEPT ![r] = z.mask[r]] /\ own = [own EXCEPT ![r] = own[r]]
       /\ z.mask[r] \in SUBSET Sig /\ own[r] \in SUBSET Sig
  BY <1>4 DEF OnTop, MaskMap
<1>18. Going(r, b, z.mask[r], own[r])
  BY <1>3, <1>4, <1>12, <1>13, <1>14, <1>15, <1>16, <1>17 DEF Going, OnTop, InPlace
<1> QED  BY <1>2, <1>6, <1>13, <1>18

\* What an interrupt handler may do to the tasks: wake some.
Interrupts ==
  /\ stack' = stack /\ own' = own /\ corrupt' = corrupt
  /\ z' \in SigState /\ Sound(z'.k) /\ z'.mask = z.mask /\ z'.sigdeliver \subseteq Client
  /\ Asleep(z'.k) \subseteq Asleep(z.k) /\ z'.k.lock = z.k.lock /\ z'.waitdog \subseteq z.waitdog
  /\ \A t \in Task : z'.waitmask[t] \subseteq z.waitmask[t]
  /\ z.k.lock[this_task(z.k)] > 0 => this_task(z'.k) = this_task(z.k)

\* It leaves the running task where it is, or makes another one run when this is outside all calls.
LEMMA InterruptMoves ==
  ASSUME Base, Interrupts
  PROVE  Moved(Self, stack[Self], z.mask[Self], own[Self]) /\ TypedStep
<1>1. PICK r, s : r = Self /\ s = stack[r]
  OBVIOUS
<1>2. /\ r \in Task /\ r \notin Asleep(z.k) /\ s \in Seq(Frame) /\ z.k.lock \in [Task -> Nat] /\ z.k.lock[r] = Count(s)
      /\ stack \in [Task -> Seq(Frame)] /\ z.mask \in MaskMap /\ own \in MaskMap /\ corrupt \in BOOLEAN
      /\ (r = IDLE => s = <<>>) /\ r = this_task(z.k)
  BY <1>1, Runner DEF Base, Typed, SigState
<1>3. /\ stack' = [stack EXCEPT ![r] = s] /\ z'.mask = [z.mask EXCEPT ![r] = z.mask[r]]
      /\ own' = [own EXCEPT ![r] = own[r]] /\ z'.k.lock = [z.k.lock EXCEPT ![r] = Count(s)]
      /\ z.mask[r] \in SUBSET Sig /\ own[r] \in SUBSET Sig
  BY <1>1, <1>2 DEF Interrupts, MaskMap
<1>4. Shape(s) /\ Framed(s, z.mask[r], own[r], r)
  BY <1>1, <1>2 DEF Base, Kept
<1>5. Self' = r \/ s = <<>>
  <2>1. CASE s # <<>>
    <3>1. Count(s) \in Nat /\ Count(s) # 0
      BY <1>2, <1>4, <2>1, CountNat, GroundedEmpty DEF Shape
    <3>2. z.k.lock[r] > 0
      BY <1>2, <3>1
    <3> QED  BY <1>2, <3>2 DEF Interrupts, Self
  <2> QED  BY <2>1
<1>6. z'.waitmask[r] # {} \/ r \in z'.waitdog => HasTimed(s)
  <2>1. z'.waitmask[r] # {} \/ r \in z'.waitdog => z.waitmask[r] # {} \/ r \in z.waitdog
    BY <1>2 DEF Interrupts
  <2> QED  BY <1>1, <1>2, <2>1 DEF Base, WaitsTimed
<1>7. TypedStep
  BY <1>2 DEF TypedStep, Interrupts
<1>8. r \notin Asleep(z'.k) /\ \A t \in Task \ {r} : z'.waitmask[t] \subseteq z.waitmask[t] /\ (t \in z'.waitdog => t \in z.waitdog)
  BY <1>2 DEF Interrupts
<1>9. Sound(z'.k) /\ Asleep(z'.k) \subseteq Asleep(z.k) \union {r}
  BY DEF Interrupts
<1>10. Moved(r, s, z.mask[r], own[r])
  BY <1>1, <1>2, <1>3, <1>4, <1>5, <1>6, <1>8, <1>9 DEF Moved
<1> QED  BY <1>1, <1>7, <1>10

\* sig_tcbdispatch in an interrupt handler, case by case.
IsrCases(t, a) ==
  \/ ~Masked(z, t, a.sig) /\ \E y : Queues(z, t, a, y) /\ IsScheduled(y, t, z')
  \/ Masked(z, t, a.sig) /\ IsWoken(z, t, z')
  \/ /\ Masked(z, t, a.sig) /\ ~WaitsFor(z, t, a.sig) /\ a.sig \in sig_pendingset(z, t)
     /\ \E m : IsOverwritten(z.pending[t], FirstPending(z, t, a.sig), a, m) /\ Pends(z, t, m, z')
  \/ /\ Masked(z, t, a.sig) /\ ~WaitsFor(z, t, a.sig) /\ a.sig \notin sig_pendingset(z, t)
     /\ Pends(z, t, Append(z.pending[t], a), z')

\* IsrKill
LEMMA IsrKillDoes ==
  ASSUME Base, sent \in 0..MaxSends, NEW t \in Client, NEW x \in IsrSig, IsrKill(t, x)
  PROVE  Interrupts /\ \E a : a = [id |-> sent + 1, sig |-> x] /\ a \in Action /\ IsrCases(t, a)
<1>1. PICK a : a = [id |-> sent + 1, sig |-> x]
  OBVIOUS
<1>2. a \in Action
  BY <1>1, SignalAssumption DEF Action, SendId, IsrKill
<1>3. z' = IsrDispatch(z, t, a) /\ stack' = stack /\ own' = own /\ corrupt' = corrupt
  BY <1>1 DEF IsrKill
<1>4. t \in Task /\ z \in SigState /\ Sound(z.k) /\ z.sigdeliver \subseteq Client
  BY DEF Client, Base, Typed
<1>5. CASE ~Masked(z, t, a.sig)
  <2>1. PICK y : y = sig_queueaction(z, t, a)
    OBVIOUS
  <2>2. z' = ScheduleSigaction(y, t)
    BY <1>3, <1>5, <2>1 DEF IsrDispatch
  <2>3. Queues(z, t, a, y)
    BY <1>2, <1>4, <2>1, QueuedState
  <2>4. IsScheduled(y, t, z')
    BY <1>4, <2>2, <2>3, ScheduledState DEF Queues, SameTasks
  <2>5. Interrupts
    BY <1>3, <1>4, <2>3, <2>4 DEF Interrupts, Queues, SameTasks, IsScheduled
  <2> QED  BY <1>1, <1>2, <1>5, <2>3, <2>4, <2>5 DEF IsrCases
<1>6. CASE Masked(z, t, a.sig) /\ WaitsFor(z, t, a.sig)
  <2>1. z' = Wake(z, t) /\ t \in Asleep(z.k)
    BY <1>3, <1>4, <1>6 DEF IsrDispatch, WaitsFor, Asleep
  <2>2. IsWoken(z, t, z')
    BY <1>4, <2>1, WokenState
  <2>3. \A u \in Task : z'.waitmask[u] \subseteq z.waitmask[u]
    BY <1>4, <2>2 DEF IsWoken, SigState, MaskMap
  <2>4. Interrupts
    BY <1>3, <1>4, <2>2, <2>3 DEF Interrupts, IsWoken, SameSignals
  <2> QED  BY <1>1, <1>2, <1>6, <2>2, <2>4 DEF IsrCases
<1>7. CASE Masked(z, t, a.sig) /\ ~WaitsFor(z, t, a.sig) /\ a.sig \in sig_pendingset(z, t)
  <2>1. z' = Overwrite(z, t, a)
    BY <1>3, <1>7 DEF IsrDispatch
  <2>2. PICK m : IsOverwritten(z.pending[t], FirstPending(z, t, a.sig), a, m) /\ Pends(z, t, m, z')
    BY <1>2, <1>4, <2>1, OverwrittenState
  <2>3. Interrupts
    BY <1>3, <1>4, <2>2 DEF Interrupts, Pends, SameTasks
  <2> QED  BY <1>1, <1>2, <1>7, <2>2, <2>3 DEF IsrCases
<1>8. CASE Masked(z, t, a.sig) /\ ~WaitsFor(z, t, a.sig) /\ a.sig \notin sig_pendingset(z, t)
  <2>1. z' = AddPending(z, t, a)
    BY <1>3, <1>8 DEF IsrDispatch
  <2>2. Pends(z, t, Append(z.pending[t], a), z')
    BY <1>2, <1>4, <2>1, AddedState
  <2>3. Interrupts
    BY <1>3, <1>4, <2>2 DEF Interrupts, Pends, SameTasks
  <2> QED  BY <1>1, <1>2, <1>8, <2>2, <2>3 DEF IsrCases
<1> QED  BY <1>5, <1>6, <1>7, <1>8

\* SigTimeout
LEMMA SigTimeoutDoes ==
  ASSUME Base, NEW t \in Client, SigTimeout(t)
  PROVE  Interrupts /\ z'.pending = z.pending /\ z'.actions = z.actions /\ z'.sigdeliver = z.sigdeliver
<1>1. t \in Task /\ z \in SigState /\ Sound(z.k) /\ z.sigdeliver \subseteq Client
  BY DEF Client, Base, Typed
<1>2. PICK y : y = [z EXCEPT !.waitdog = @ \ {t}]
  OBVIOUS
<1>3. /\ y \in SigState /\ y.k = z.k /\ y.mask = z.mask /\ y.pending = z.pending /\ y.actions = z.actions
      /\ y.sigdeliver = z.sigdeliver /\ y.waitmask = z.waitmask /\ y.waitdog = z.waitdog \ {t}
  BY <1>1, <1>2 DEF SigState
<1>4. /\ z' = IF z.k.state[t] = "WAIT_SIG" THEN [y EXCEPT !.k = up_unblock_task(@, t)] ELSE y
      /\ stack' = stack /\ own' = own /\ corrupt' = corrupt
  BY <1>2 DEF SigTimeout
<1>5. CASE z.k.state[t] = "WAIT_SIG"
  <2>1. PICK a : a = up_unblock_task(z.k, t)
    OBVIOUS
  <2>2. /\ Sound(a) /\ a \in KernelState /\ Asleep(a) = Asleep(z.k) \ {t} /\ a.lock = z.k.lock
        /\ z.k.lock[this_task(z.k)] > 0 => this_task(a) = this_task(z.k)
    <3>1. t \in Asleep(z.k)
      BY <1>1, <1>5 DEF Asleep
    <3> QED  BY <1>1, <2>1, <3>1, WakeStep
  <2>3. z' = [y EXCEPT !.k = a]
    BY <1>3, <1>4, <1>5, <2>1
  <2>4. /\ z' \in SigState /\ z'.k = a /\ z'.mask = z.mask /\ z'.pending = z.pending /\ z'.actions = z.actions
        /\ z'.sigdeliver = z.sigdeliver /\ z'.waitmask = z.waitmask /\ z'.waitdog = z.waitdog \ {t}
    BY <1>3, <2>2, <2>3 DEF SigState
  <2> QED  BY <1>1, <1>4, <2>2, <2>4 DEF Interrupts
<1>6. CASE z.k.state[t] # "WAIT_SIG"
  BY <1>1, <1>3, <1>4, <1>6 DEF Interrupts
<1> QED  BY <1>5, <1>6

-----------------------------------------------------------------------------
\* sig_tcbdispatch in a task, case by case.
DispatchCases(r, y, t, a, b) ==
  \/ /\ ~Masked(y, t, a.sig) /\ Queues(y, t, a, z')
     /\ stack' = [stack EXCEPT ![r] = Cons([op |-> "schedule", to |-> t, act |-> a], b)]
  \/ Masked(y, t, a.sig) /\ IsWoken(y, t, z') /\ stack' = [stack EXCEPT ![r] = b]
  \/ /\ Masked(y, t, a.sig) /\ ~WaitsFor(y, t, a.sig) /\ a.sig \in sig_pendingset(y, t)
     /\ \E m : IsOverwritten(y.pending[t], FirstPending(y, t, a.sig), a, m) /\ Pends(y, t, m, z')
     /\ stack' = [stack EXCEPT ![r] = b]
  \/ /\ Masked(y, t, a.sig) /\ ~WaitsFor(y, t, a.sig) /\ z' = y
     /\ stack' = [stack EXCEPT ![r] = Cons([op |-> "addpending", to |-> t, act |-> a], b)]

\* These are the cases.
LEMMA DispatchDoes ==
  ASSUME Base, NEW r, NEW y, NEW b, Dispatching(r, y, b), NEW t \in Client, NEW a \in Action, Dispatch(y, t, a, b)
  PROVE  DispatchCases(r, y, t, a, b)
<1>1. r = Self /\ b \in Seq(Frame) /\ y \in SigState /\ t \in Task /\ Sound(y.k)
  BY DEF Dispatching, InPlace, Client
<1>2. <<>> \o b = b
  BY <1>1, ConcatEmptySeq
<1>3. CASE /\ ~Masked(y, t, a.sig) /\ z' = sig_queueaction(y, t, a)
           /\ stack' = [stack EXCEPT ![Self] = <<[op |-> "schedule", to |-> t, act |-> a]>> \o b]
  BY <1>1, <1>3, QueuedState DEF DispatchCases, Cons
<1>4. CASE /\ Masked(y, t, a.sig) /\ WaitsFor(y, t, a.sig) /\ z' = Wake(y, t)
           /\ stack' = [stack EXCEPT ![Self] = <<>> \o b]
  <2>1. t \in Asleep(y.k)
    BY <1>1, <1>4 DEF WaitsFor, Asleep
  <2>2. IsWoken(y, t, z')
    BY <1>1, <1>4, <2>1, WokenState
  <2> QED  BY <1>1, <1>2, <1>4, <2>2 DEF DispatchCases
<1>5. CASE /\ Masked(y, t, a.sig) /\ ~WaitsFor(y, t, a.sig) /\ a.sig \in sig_pendingset(y, t)
           /\ z' = Overwrite(y, t, a) /\ stack' = [stack EXCEPT ![Self] = <<>> \o b]
  <2>1. PICK m : IsOverwritten(y.pending[t], FirstPending(y, t, a.sig), a, m) /\ Pends(y, t, m, z')
    BY <1>1, <1>5, OverwrittenState
  <2> QED  BY <1>1, <1>2, <1>5, <2>1 DEF DispatchCases
<1>6. CASE /\ Masked(y, t, a.sig) /\ ~WaitsFor(y, t, a.sig) /\ z' = y
           /\ stack' = [stack EXCEPT ![Self] = <<[op |-> "addpending", to |-> t, act |-> a]>> \o b]
  BY <1>1, <1>6 DEF DispatchCases, Cons
<1> QED  BY <1>3, <1>4, <1>5, <1>6 DEF Dispatch

\* The actions in the queues A have handlers.
HandledIn(A) == \A t \in Task : \A i \in 1..Len(A[t]) : A[t][i].sig \in Handled

\* sig_queueaction keeps this.
LEMMA QueuesHandled ==
  ASSUME NEW zz \in SigState, NEW t \in Task, NEW a \in Action, NEW y, Queues(zz, t, a, y), HandledIn(zz.actions)
  PROVE  HandledIn(y.actions)
<1>1. PICK l \in Seq(Action) : l = zz.actions[t]
  BY DEF SigState, ActMap
<1>2. PICK m : m = Append(l, a)
  OBVIOUS
<1>3. /\ Len(l) \in Nat /\ Len(m) = Len(l) + 1 /\ m[Len(l) + 1] = a /\ \A i \in 1..Len(l) : m[i] = l[i]
  BY <1>2, AppendProperties, LenProperties
<1>4. CASE a.sig \in Handled
  <2>1. y.actions = [zz.actions EXCEPT ![t] = m]
    BY <1>1, <1>2, <1>4 DEF Queues
  <2>2. \A i \in 1..Len(m) : m[i].sig \in Handled
    BY <1>1, <1>3, <1>4 DEF HandledIn
  <2> QED  BY <2>1, <2>2 DEF HandledIn, SigState, ActMap
<1> QED  BY <1>4 DEF Queues

\* So does sig_deliver.
LEMMA DeliversHandled ==
  ASSUME Typed, NEW r \in Task, NEW f, NEW l, NEW i, NEW m, NEW n, NEW h, Delivers(r, f, l, i, m, n, h), HandledIn(z.actions)
  PROVE  HandledIn(z'.actions)
<1>1. PICK j : IsCut(l, j, m)
  BY DEF Delivers
<1>2. l = z.actions[r] /\ Len(l) \in Nat /\ z.actions \in ActMap /\ z'.actions = [z.actions EXCEPT ![r] = m]
  BY LenProperties DEF Delivers, Typed, SigState
<1>3. Len(m) = Len(l) - 1 /\ \A k \in 1..(Len(l) - 1) : m[k] = IF k < j THEN l[k] ELSE l[k + 1]
  BY <1>1 DEF IsCut
<1>4. \A k \in 1..(Len(l) - 1) : k \in 1..Len(l) /\ k + 1 \in 1..Len(l)
  BY <1>2
<1>5. \A k \in 1..Len(m) : m[k].sig \in Handled
  BY <1>2, <1>3, <1>4 DEF HandledIn
<1> QED  BY <1>2, <1>5 DEF HandledIn, ActMap

\* The part of the invariant that carries the types and the masks.
Ground == Base /\ HandledOnly /\ sent \in 0..MaxSends

\* The initial state.
LEMMA InitGround ==
  ASSUME Init
  PROVE  Ground
<1>1. BootOrder(BootList, BootPrio)
  BY SignalAssumption DEF BootOrder
<1>2. BootState(BootList) = [t \in Task |-> IF t = BootList[1] THEN "RUNNING" ELSE "READYTORUN"]
  BY SignalAssumption DEF BootState
<1>3. /\ z.k = Booted(BootList, BootPrio) /\ z.mask = [t \in Task |-> {}] /\ z.waitmask = [t \in Task |-> {}]
      /\ z.pending = [t \in Task |-> <<>>] /\ z.actions = [t \in Task |-> <<>>] /\ z.sigdeliver = {} /\ z.waitdog = {}
      /\ z = [k |-> z.k, mask |-> z.mask, waitmask |-> z.waitmask, pending |-> z.pending, actions |-> z.actions,
              sigdeliver |-> z.sigdeliver, waitdog |-> z.waitdog]
      /\ stack = [t \in Task |-> <<>>] /\ sent = 0 /\ own = [t \in Task |-> {}] /\ corrupt = FALSE
  BY <1>2 DEF Init, Booted
<1>4. Sound(z.k) /\ z.k.state = BootState(BootList) /\ z.k \in KernelState
  BY <1>1, <1>3, BootSound DEF Sound, Consistent
<1>5. z \in SigState
  <2>1. z.mask \in MaskMap /\ z.waitmask \in MaskMap
    BY <1>3 DEF MaskMap
  <2>2. z.pending \in ActMap /\ z.actions \in ActMap
    BY <1>3 DEF ActMap
  <2> QED  BY <1>3, <1>4, <2>1, <2>2 DEF SigState
<1>6. Typed
  <2>1. stack \in [Task -> Seq(Frame)] /\ stack[IDLE] = <<>>
    BY <1>3, KernelAssumption
  <2>2. own \in MaskMap
    BY <1>3 DEF MaskMap
  <2> QED  BY <1>3, <1>5, <2>1, <2>2 DEF Typed
<1>7. \A t \in Task : stack[t] = <<>>
  BY <1>3
<1>8. LocksCounted
  <2>1. <<>> \in Seq(Frame)
    OBVIOUS
  <2>2. Count(<<>>) = 0
    BY <2>1, CountNat
  <2>3. z.k.lock = [t \in Task |-> 0]
    BY <1>3 DEF Booted, os_start
  <2> QED  BY <1>7, <2>2, <2>3 DEF LocksCounted
<1>9. OthersQuiet /\ SleepersWait /\ WaitsTimed
  BY <1>3, <1>4, <1>7 DEF OthersQuiet, SleepersWait, WaitsTimed, Asleep, BootState
<1>10. ASSUME NEW t \in Task PROVE Kept(t)
  <2>1. Shape(<<>>)
    <3>1. Len(<<>>) = 0
      OBVIOUS
    <3> QED  BY <3>1 DEF Shape, Grounded, WaitsLast
  <2>2. PICK m \in SUBSET Sig : m = {}
    OBVIOUS
  <2>3. Framed(<<>>, m, m, t)
    BY FramedEmpty
  <2> QED  BY <1>3, <1>7, <2>1, <2>2, <2>3 DEF Kept
<1>11. HandledOnly
  <2>1. \A t \in Task : z.actions[t] = <<>>
    BY <1>3
  <2>2. Len(<<>>) = 0
    OBVIOUS
  <2> QED  BY <2>1, <2>2 DEF HandledOnly
<1>12. sent \in 0..MaxSends
  BY <1>3, SignalAssumption
<1> QED  BY <1>4, <1>6, <1>8, <1>9, <1>10, <1>11, <1>12 DEF Ground, Base

\* sig_tcbdispatch queues actions that have handlers.
LEMMA DispatchHandled ==
  ASSUME NEW r, NEW y \in SigState, NEW t \in Task, NEW a \in Action, NEW b, DispatchCases(r, y, t, a, b), HandledIn(y.actions)
  PROVE  HandledIn(z'.actions)
BY QueuesHandled DEF DispatchCases, Pends, IsWoken, SameSignals

\* A step of a task that goes on keeps the base.
LEMMA GoingBase ==
  ASSUME Base, NEW r, NEW s, NEW m, NEW o, Going(r, s, m, o)
  PROVE  Base'
BY GoingMoves, MovedBase

\* Kill keeps the ground.
LEMMA KillGround ==
  ASSUME Ground, NEW t \in Client, NEW x \in Sig, Kill(t, x)
  PROVE  Ground'
<1>1. Base /\ HandledIn(z.actions) /\ sent \in 0..MaxSends /\ t \in Task /\ InUser
  BY DEF Ground, HandledOnly, HandledIn, Client, Kill
<1>2. Base'
  BY <1>1, KillGoes, GoingBase
<1>3. PICK b : /\ b = <<[op |-> "unlock"]>> \o stack[Self]
               /\ Dispatching(Self, Locked(z), b) /\ IsLocked(z, Self, Locked(z))
  BY <1>1, KillStarts
<1>4. PICK a, y : a = [id |-> sent + 1, sig |-> x] /\ y = Locked(z)
  OBVIOUS
<1>5. a \in Action
  BY <1>1, <1>4, SignalAssumption DEF Action, SendId, Kill
<1>6. Dispatch(y, t, a, b) /\ sent' = sent + 1 /\ sent < MaxSends
  BY <1>3, <1>4 DEF Kill
<1>7. Dispatching(Self, y, b) /\ y \in SigState /\ y.actions = z.actions
  BY <1>3, <1>4 DEF IsLocked, SameSignals
<1>8. DispatchCases(Self, y, t, a, b)
  BY <1>1, <1>5, <1>6, <1>7, DispatchDoes
<1>9. HandledIn(z'.actions)
  BY <1>1, <1>5, <1>7, <1>8, DispatchHandled
<1>10. sent' \in 0..MaxSends
  BY <1>1, <1>6, SignalAssumption
<1> QED  BY <1>2, <1>9, <1>10 DEF Ground, HandledOnly, HandledIn

\* UnmaskNext keeps the ground.
LEMMA UnmaskGround ==
  ASSUME Ground, UnmaskNext
  PROVE  Ground'
<1>1. Base /\ HandledIn(z.actions) /\ sent' = sent /\ sent \in 0..MaxSends /\ At("unmask")
  BY DEF Ground, HandledOnly, HandledIn, UnmaskNext
<1>2. CASE UnmaskEnds
  <2>1. Base' /\ z'.actions = z.actions
    BY <1>1, <1>2, UnmaskEndsGoes, GoingBase DEF IsUnlocked, SameSignals
  <2> QED  BY <1>1, <2>1 DEF Ground, HandledOnly, HandledIn
<1>3. CASE UnmaskSkips
  <2>1. Base' /\ z'.actions = z.actions
    BY <1>1, <1>3, UnmaskSkipsGoes, GoingBase
  <2> QED  BY <1>1, <2>1 DEF Ground, HandledOnly, HandledIn
<1>4. CASE UnmaskTakes
  <2>1. Base'
    BY <1>1, <1>4, UnmaskTakesGoes, GoingBase
  <2>2. PICK b, x, y, a : /\ x \in sig_pendingset(z, Self) /\ y = sig_removependingsignal(z, Self, x) /\ a \in Action
                          /\ Dispatching(Self, y, b) /\ Dispatch(y, Self, a, b)
    BY <1>1, <1>4, UnmaskStarts
  <2>3. Self \in Client /\ Self \in Task /\ z \in SigState /\ y \in SigState
    BY <1>1, <2>2, Runner DEF Dispatching, Base, Typed
  <2>4. y.actions = z.actions
    BY <2>2, <2>3, RemovedState DEF Pends
  <2>5. DispatchCases(Self, y, Self, a, b)
    BY <1>1, <2>2, <2>3, DispatchDoes
  <2>6. HandledIn(z'.actions)
    BY <1>1, <2>2, <2>3, <2>4, <2>5, DispatchHandled
  <2> QED  BY <1>1, <2>1, <2>6 DEF Ground, HandledOnly, HandledIn
<1> QED  BY <1>1, <1>2, <1>3, <1>4 DEF UnmaskEnds, UnmaskSkips, UnmaskTakes

\* DeliverNext keeps the ground.
LEMMA DeliverGround ==
  ASSUME Ground, DeliverNext
  PROVE  Ground'
<1>1. Base /\ HandledOnly /\ HandledIn(z.actions) /\ sent' = sent /\ sent \in 0..MaxSends /\ At("deliver") /\ Typed
  BY DEF Ground, HandledOnly, HandledIn, DeliverNext, Base
<1>2. CASE DeliverEnds
  <2>1. Base' /\ z'.actions = z.actions
    BY <1>1, <1>2, DeliverEndsGoes, GoingBase DEF IsUnlocked, SameSignals
  <2> QED  BY <1>1, <2>1 DEF Ground, HandledOnly, HandledIn
<1>3. CASE DeliverTakes
  <2>1. PICK l, i, m, n, h : /\ Delivers(Self, Top, l, i, m, n, h)
                             /\ Going(Self, Cons(h, Tail(stack[Self])), n, own[Self])
    BY <1>1, <1>3, DeliverTakesGoes
  <2>2. Base'
    BY <1>1, <2>1, GoingBase
  <2>3. HandledIn(z'.actions)
    BY <1>1, <2>1, Runner, DeliversHandled
  <2> QED  BY <1>1, <2>2, <2>3 DEF Ground, HandledOnly, HandledIn
<1>4. CASE DeliverFreed
  <2>1. Base' /\ z' = z
    <3>1. Base'
      BY <1>1, <1>4, DeliverFreedGoes, GoingBase
    <3>2. z' = z
      BY <1>1, <1>4, DeliverFreedGoes
    <3> QED  BY <3>1, <3>2
  <2> QED  BY <1>1, <2>1 DEF Ground, HandledOnly, HandledIn
<1>5. DeliverEnds \/ DeliverTakes \/ DeliverFreed
  BY <1>1 DEF DeliverEnds, DeliverTakes, DeliverFreed
<1> QED  BY <1>2, <1>3, <1>4, <1>5

\* A step that leaves the queues alone.
LEMMA KeepsGround ==
  ASSUME Ground, Base', z'.actions = z.actions, sent' = sent
  PROVE  Ground'
BY DEF Ground, HandledOnly

\* The calls of the program keep the ground.
LEMMA CallGround ==
  ASSUME Ground, AppCall
  PROVE  Ground'
<1>1. Base
  BY DEF Ground
<1>2. CASE \E t \in Client, x \in Sig : Kill(t, x)
  BY <1>2, KillGround
<1>3. ASSUME NEW S \in SetArg, SigProcMask(S) PROVE Ground'
  <2>1. S \in SUBSET Sig /\ sent' = sent
    BY <1>3, SignalAssumption DEF SigProcMask
  <2>2. PICK y, g, o : /\ Going(Self, Cons(UnmaskFrame(y, Self), Cons(g, stack[Self])), S, o)
                       /\ IsMasked(z, Self, S, y) /\ SameSignals(y, z')
    BY <1>1, <1>3, <2>1, SigProcMaskGoes
  <2>3. Base' /\ z'.actions = z.actions
    BY <1>1, <2>2, GoingBase DEF IsMasked, SameSignals
  <2> QED  BY <2>1, <2>3, KeepsGround
<1>4. ASSUME NEW x, x \in sig_pendingset(z, Self), z' = sig_removependingsignal(z, Self, x) PROVE z'.actions = z.actions
  BY <1>1, <1>4, Runner, RemovedState DEF Pends, Base, Typed
<1>5. ASSUME NEW S \in SetArg, SigSuspend(S) PROVE Ground'
  <2>1. S \in SUBSET Sig /\ sent' = sent
    BY <1>5, SignalAssumption DEF SigSuspend
  <2>2. CASE SuspendTakes(S)
    <3>1. Base' /\ z'.actions = z.actions
      BY <1>1, <1>4, <2>2, SuspendTakesGoes, GoingBase
    <3> QED  BY <2>1, <3>1, KeepsGround
  <2>3. CASE SuspendWaits(S)
    <3>1. Base' /\ z'.actions = z.actions
      BY <1>1, <2>1, <2>3, SuspendWaitsMoves, MovedBase
    <3> QED  BY <2>1, <3>1, KeepsGround
  <2> QED  BY <1>5, <2>2, <2>3 DEF SuspendTakes, SuspendWaits
<1>6. ASSUME NEW S \in SetArg, NEW q \in BOOLEAN, SigTimedWait(S, q) PROVE Ground'
  <2>1. S \in SUBSET Sig /\ sent' = sent
    BY <1>6, SignalAssumption DEF SigTimedWait
  <2>2. CASE TimedTakes(S, q)
    <3>1. Base' /\ z'.actions = z.actions
      BY <1>1, <1>4, <2>2, TimedTakesGoes, GoingBase
    <3> QED  BY <2>1, <3>1, KeepsGround
  <2>3. CASE TimedWaits(S, q)
    <3>1. Base' /\ z'.actions = z.actions
      BY <1>1, <2>1, <2>3, TimedWaitsMoves, MovedBase
    <3> QED  BY <2>1, <3>1, KeepsGround
  <2> QED  BY <1>6, <2>2, <2>3 DEF TimedTakes, TimedWaits
<1> QED  BY <1>2, <1>3, <1>5, <1>6 DEF AppCall

\* The further steps of the calls keep it.
LEMMA StepGround ==
  ASSUME Ground, Step
  PROVE  Ground'
<1>1. Base
  BY DEF Ground
<1>2. CASE SigAddPending
  <2>1. sent' = sent
    BY <1>2 DEF SigAddPending
  <2>2. z'.actions = z.actions
    <3>1. PICK b : OnTop(Self, Top, b)
      BY <1>1, <1>2, AtTop DEF SigAddPending, At
    <3>2. PICK f : f = Top
      OBVIOUS
    <3>3. f \in Frame /\ f.op = "addpending" /\ z' = AddPending(z, f.to, f.act) /\ z \in SigState
      BY <1>1, <1>2, <3>1, <3>2 DEF SigAddPending, At, OnTop, Base, Typed
    <3>4. f.to \in Task /\ f.act \in Action
      BY <3>3, FrameKinds DEF Loose, Client
    <3> QED  BY <3>3, <3>4, AddedState DEF Pends
  <2> QED  BY <1>1, <1>2, <2>1, <2>2, SigAddPendingGoes, GoingBase, KeepsGround
<1>3. CASE Schedule
  <2>1. sent' = sent /\ (ScheduleOwn \/ ScheduleOther)
    BY <1>3 DEF Schedule, ScheduleOwn, ScheduleOther
  <2>2. CASE ScheduleOwn
    <3>1. Base' /\ z'.actions = z.actions
      BY <1>1, <2>2, ScheduleOwnGoes, GoingBase DEF IsLocked, SameSignals
    <3> QED  BY <2>1, <3>1, KeepsGround
  <2>3. CASE ScheduleOther
    <3>1. Base' /\ z'.actions = z.actions
      BY <1>1, <2>3, ScheduleOtherGoes, GoingBase DEF IsScheduled
    <3> QED  BY <2>1, <3>1, KeepsGround
  <2> QED  BY <2>1, <2>2, <2>3
<1>4. CASE Return
  <2>1. Base' /\ z'.actions = z.actions
    BY <1>1, <1>4, ReturnGoes, GoingBase DEF IsUnlocked, SameSignals
  <2> QED  BY <1>4, <2>1, KeepsGround DEF Return
<1>5. CASE up_sigdeliver
  <2>1. Base' /\ z'.actions = z.actions
    BY <1>1, <1>5, SigdeliverGoes, GoingBase
  <2> QED  BY <1>5, <2>1, KeepsGround DEF up_sigdeliver
<1>6. CASE DeliverNext
  BY <1>6, DeliverGround
<1>7. CASE HandlerReturn
  <2>1. PICK y, g : /\ Going(Self, Cons(UnmaskFrame(y, Self), Cons(g, Tail(stack[Self]))), Top.saved, own[Self])
                    /\ IsMasked(z, Self, Top.saved, y) /\ IsLocked(y, Self, z')
    BY <1>1, <1>7, HandlerReturnGoes
  <2>2. Base' /\ z'.actions = z.actions
    BY <1>1, <2>1, GoingBase DEF IsMasked, IsLocked, SameSignals
  <2> QED  BY <1>7, <2>2, KeepsGround DEF HandlerReturn
<1>8. CASE DeliverFree
  <2>1. Base' /\ z' = z /\ sent' = sent
    BY <1>1, <1>8, DeliverFreeGoes, GoingBase DEF DeliverFree
  <2> QED  BY <2>1, KeepsGround
<1>9. CASE UnmaskNext
  BY <1>9, UnmaskGround
<1>10. CASE SuspendResumed
  <2>1. PICK y, g : /\ Going(Self, Cons(UnmaskFrame(y, Self), Cons(g, Tail(stack[Self]))), Top.saved, own[Self])
                    /\ IsMasked(z, Self, Top.saved, y) /\ IsLocked(y, Self, z')
    BY <1>1, <1>10, SuspendResumedGoes
  <2>2. Base' /\ z'.actions = z.actions
    BY <1>1, <2>1, GoingBase DEF IsMasked, IsLocked, SameSignals
  <2> QED  BY <1>10, <2>2, KeepsGround DEF SuspendResumed
<1>11. CASE TimedWaitResumed
  <2>1. Base' /\ z'.actions = z.actions
    BY <1>1, <1>11, TimedWaitResumedGoes, GoingBase
  <2> QED  BY <1>11, <2>1, KeepsGround DEF TimedWaitResumed
<1> QED  BY <1>2, <1>3, <1>4, <1>5, <1>6, <1>7, <1>8, <1>9, <1>10, <1>11 DEF Step

\* The interrupts keep it.
LEMMA InterruptGround ==
  ASSUME Ground, Interrupt
  PROVE  Ground'
<1>1. Base /\ HandledIn(z.actions) /\ sent \in 0..MaxSends /\ z \in SigState
  BY DEF Ground, HandledOnly, HandledIn, Base, Typed
<1>2. ASSUME NEW t \in Client, NEW x \in IsrSig, IsrKill(t, x) PROVE Ground'
  <2>1. Interrupts /\ \E a : a \in Action /\ IsrCases(t, a)
    BY <1>1, <1>2, IsrKillDoes
  <2>2. Base' /\ t \in Task
    BY <1>1, <2>1, InterruptMoves, MovedBase DEF Client
  <2>3. PICK a \in Action : IsrCases(t, a)
    BY <2>1
  <2>4. HandledIn(z'.actions)
    <3>1. (\E y : Queues(z, t, a, y) /\ IsScheduled(y, t, z')) \/ z'.actions = z.actions
      BY <2>3 DEF IsrCases, Pends, IsWoken, SameSignals
    <3>2. CASE \E y : Queues(z, t, a, y) /\ IsScheduled(y, t, z')
      <4>1. PICK y : Queues(z, t, a, y) /\ IsScheduled(y, t, z')
        BY <3>2
      <4>2. HandledIn(y.actions)
        BY <1>1, <2>2, <4>1, QueuesHandled
      <4> QED  BY <4>1, <4>2 DEF IsScheduled
    <3> QED  BY <1>1, <3>1, <3>2
  <2>5. sent' \in 0..MaxSends
    BY <1>1, <1>2, SignalAssumption DEF IsrKill
  <2> QED  BY <2>2, <2>4, <2>5 DEF Ground, HandledOnly, HandledIn
<1>3. ASSUME NEW t \in Client, SigTimeout(t) PROVE Ground'
  <2>1. Interrupts /\ z'.actions = z.actions /\ sent' = sent
    BY <1>1, <1>3, SigTimeoutDoes DEF SigTimeout
  <2>2. Base'
    BY <1>1, <2>1, InterruptMoves, MovedBase
  <2> QED  BY <2>1, <2>2, KeepsGround
<1> QED  BY <1>2, <1>3 DEF Interrupt

\* Every step keeps it.
LEMMA NextGround ==
  ASSUME Ground, [Next]_vars
  PROVE  Ground'
<1>1. CASE Next
  BY <1>1, CallGround, StepGround, InterruptGround DEF Next
<1>2. CASE UNCHANGED vars
  BY <1>2 DEF vars, Ground, HandledOnly, Base, Typed, LocksCounted, OthersQuiet, SleepersWait, WaitsTimed, Kept, Self
<1> QED  BY <1>1, <1>2

\* The ground holds in every state.
LEMMA GroundAlways == Spec => []Ground
<1>1. Init => Ground
  BY InitGround
<1>2. Ground /\ [Next]_vars => Ground'
  BY NextGround
<1> QED  BY <1>1, <1>2, PTL DEF Spec

\* The type invariant of the signals: the lists stay sound, a task's scheduler lock is
\* exactly the number of its calls that hold it, and masks and queues have their types.
THEOREM TypeCorrect == Spec => []TypeOK
<1>1. Ground => TypeOK
  <2> SUFFICES ASSUME Ground PROVE TypeOK
    OBVIOUS
  <2>1. /\ z \in SigState /\ stack \in [Task -> Seq(Frame)] /\ own \in MaskMap /\ corrupt \in BOOLEAN
        /\ LocksCounted /\ sent \in 0..MaxSends
    BY DEF Ground, Base, Typed
  <2>2. \A t \in Task : z.k.lock[t] = Cardinality(Locks(t))
    BY <2>1 DEF LocksCounted, Count, Holding, Loose, Locks
  <2>3. /\ z.k \in KernelState /\ z.mask \in MaskMap /\ z.waitmask \in MaskMap
        /\ z.pending \in ActMap /\ z.actions \in ActMap /\ z.sigdeliver \subseteq Task /\ z.waitdog \subseteq Task
    BY <2>1 DEF SigState
  <2> QED  BY <2>1, <2>2, <2>3 DEF TypeOK, MaskMap, ActMap
<1> QED  BY <1>1, GroundAlways, PTL

\* Handlers and waits leave the mask as the program has set it: outside all calls the mask
\* of a task is the one that it has set itself with sigprocmask, it waits for no signal,
\* and no watchdog of a wait is left, however handlers nest and whatever they do.
THEOREM MasksAlwaysRestored == Spec => []MaskRestored
<1>1. Ground => MaskRestored
  <2> SUFFICES ASSUME Ground, NEW t \in Client, stack[t] = <<>>
               PROVE  z.mask[t] = own[t] /\ z.waitmask[t] = {} /\ t \notin z.waitdog
    BY DEF MaskRestored
  <2>1. t \in Task /\ Kept(t) /\ WaitsTimed /\ z.mask \in MaskMap
    BY DEF Client, Ground, Base, Typed, SigState
  <2>2. PICK m \in SUBSET Sig : m = z.mask[t]
    BY <2>1 DEF MaskMap
  <2>3. Framed(<<>>, m, own[t], t)
    BY <2>1, <2>2 DEF Kept
  <2>4. m = own[t]
    BY <2>3, FramedEmpty
  <2>5. ~HasTimed(stack[t])
    <3>1. <<>> \in Seq(Frame)
      OBVIOUS
    <3>2. Frames(<<>>) = {}
      BY <3>1, FramesEmpty
    <3> QED  BY <3>2 DEF HasTimed
  <2> QED  BY <2>1, <2>2, <2>4, <2>5 DEF WaitsTimed
<1> QED  BY <1>1, GroundAlways, PTL

-----------------------------------------------------------------------------
\* No signal is missed.

\* The signal x is still before a sig_unmaskpendingsignal of the stack s.
InUnmask(s, x) == \E f \in Frames(s) : f.op = "unmask" /\ x \in f.set

\* The pending signals P with a handler are masked or will be looked at.
CoveredBy(P, m, s) == \A x \in P \intersect Handled : x \in m \/ InUnmask(s, x)

\* A handler of t will still run in the calls of s; its return looks at all of them.
AheadFrame(f, A, t) ==
  \/ f.op = "schedule" /\ f.to = t /\ A # <<>>
  \/ f.op \in {"deliver", "posted"} /\ f.next # NULL
AheadIn(s, A, t) == \E f \in Frames(s) : AheadFrame(f, A, t)

\* The calls s of t see to its pending signals P, under the mask m and with the queue A;
\* while a handler or a sigsuspend has replaced the mask, the return from it does.
SeenTo(s, P, m, A, t) == (\A f \in Frames(s) : ~Saver(f)) => CoveredBy(P, m, s) \/ AheadIn(s, A, t)

\* A signal that goes to the pending ones of another task is masked there and not waited for.
AddsMasked ==
  \A f \in Frames(stack[Self]) : f.op = "addpending" /\ f.to # Self =>
    f.act.sig \in z.mask[f.to] /\ ~WaitsFor(z, f.to, f.act.sig)
AllSeenTo == ~corrupt => \A t \in Client : SeenTo(stack[t], sig_pendingset(z, t), z.mask[t], z.actions[t], t)
Missed(t) == sig_pendingset(z, t) \intersect (z.waitmask[t] \union (Handled \ z.mask[t]))
SleepersClear == \A t \in Asleep(z.k) : Missed(t) = {}

Clear == AddsMasked /\ AllSeenTo /\ SleepersClear

\* Only masked signals come to the pending ones, and a queue empties only by its task.
PendStep ==
  \A t \in Client : sig_pendingset(z', t) \subseteq sig_pendingset(z, t) \union {x \in z.mask[t] : ~WaitsFor(z, t, x)}
QueueStep(r) == \A t \in Client \ {r} : z.actions[t] # <<>> => z'.actions[t] # <<>>

\* New frames of r that add pending signals are right to do so.
AddStep(r, s) ==
  \A f \in Frames(s) : f.op = "addpending" /\ f.to # r =>
    f \in Frames(stack[r]) \/ (f.act.sig \in z.mask[f.to] /\ ~WaitsFor(z, f.to, f.act.sig))

\* More pending signals that are masked change nothing.
LEMMA SeenGrow ==
  ASSUME NEW s, NEW P, NEW m, NEW A, NEW t, NEW Q, NEW B, SeenTo(s, P, m, A, t), Q \subseteq P \union m, A # <<>> => B # <<>>
  PROVE  SeenTo(s, Q, m, B, t)
BY DEF SeenTo, CoveredBy, AheadIn, AheadFrame

\* A further frame changes nothing.
LEMMA SeenCons ==
  ASSUME NEW f \in Frame, NEW s \in Seq(Frame), NEW P, NEW m, NEW A, NEW t, SeenTo(s, P, m, A, t)
  PROVE  SeenTo(Cons(f, s), P, m, A, t)
<1>1. Frames(Cons(f, s)) = {f} \union Frames(s)
  BY FramesCons
<1> HIDE DEF Cons
<1> QED  BY <1>1 DEF SeenTo, CoveredBy, AheadIn, InUnmask

\* Under a frame that has replaced the mask there is nothing to see to.
LEMMA SeenSaver ==
  ASSUME NEW f \in Frame, NEW s \in Seq(Frame), NEW P, NEW m, NEW A, NEW t, Saver(f)
  PROVE  SeenTo(Cons(f, s), P, m, A, t)
<1>1. f \in Frames(Cons(f, s))
  BY FramesCons
<1> QED  BY <1>1 DEF SeenTo

\* A frame returns that has nothing left to do.
LEMMA SeenPop ==
  ASSUME NEW f \in Frame, NEW s \in Seq(Frame), NEW P, NEW m, NEW A, NEW t, SeenTo(Cons(f, s), P, m, A, t),
         ~Saver(f), f.op = "unmask" => f.set = {}, ~AheadFrame(f, A, t)
  PROVE  SeenTo(s, P, m, A, t)
<1>1. Frames(Cons(f, s)) = {f} \union Frames(s)
  BY FramesCons
<1> HIDE DEF Cons
<1>2. AheadIn(Cons(f, s), A, t) => AheadIn(s, A, t)
  BY <1>1 DEF AheadIn
<1>3. \A x : InUnmask(Cons(f, s), x) => InUnmask(s, x)
  BY <1>1 DEF InUnmask
<1>4. CoveredBy(P, m, Cons(f, s)) => CoveredBy(P, m, s)
  BY <1>3 DEF CoveredBy
<1> QED  BY <1>1, <1>2, <1>4 DEF SeenTo

\* sig_unmaskpendingsignal starts.
LEMMA SeenUnmask ==
  ASSUME NEW f \in Frame, NEW s \in Seq(Frame), NEW P, NEW m, NEW A, NEW t, f.op = "unmask", f.set = P \ m
  PROVE  SeenTo(Cons(f, s), P, m, A, t)
<1>1. f \in Frames(Cons(f, s))
  BY FramesCons
<1>2. CoveredBy(P, m, Cons(f, s))
  BY <1>1 DEF CoveredBy, InUnmask
<1> QED  BY <1>2 DEF SeenTo

\* sig_unmaskpendingsignal is done with the signal x.
LEMMA SeenRest ==
  ASSUME NEW f \in Frame, NEW g \in Frame, NEW s \in Seq(Frame), NEW P, NEW m, NEW A, NEW t, NEW Q, NEW B, NEW x,
         SeenTo(Cons(f, s), P, m, A, t), f.op = "unmask", g.op = "unmask", g.set = f.set \ {x},
         x \in m \/ x \notin Q \/ x \notin Handled, Q \subseteq P \union m, A # <<>> => B # <<>>
  PROVE  SeenTo(Cons(g, s), Q, m, B, t)
<1>1. Frames(Cons(f, s)) = {f} \union Frames(s) /\ Frames(Cons(g, s)) = {g} \union Frames(s)
  BY FramesCons
<1> HIDE DEF Cons
<1>2. ASSUME \A h \in Frames(Cons(g, s)) : ~Saver(h)
      PROVE  CoveredBy(Q, m, Cons(g, s)) \/ AheadIn(Cons(g, s), B, t)
  <2>1. \A h \in Frames(Cons(f, s)) : ~Saver(h)
    BY <1>1, <1>2 DEF Saver
  <2>2. CASE CoveredBy(P, m, Cons(f, s))
    <3> SUFFICES ASSUME NEW y \in Q \intersect Handled, y \notin m PROVE InUnmask(Cons(g, s), y)
      BY DEF CoveredBy
    <3>1. y # x /\ y \in P
      OBVIOUS
    <3>2. InUnmask(Cons(f, s), y)
      BY <2>2, <3>1 DEF CoveredBy
    <3> QED  BY <1>1, <3>1, <3>2 DEF InUnmask
  <2>3. CASE AheadIn(Cons(f, s), A, t)
    <3>1. ~AheadFrame(f, A, t)
      BY DEF AheadFrame
    <3>2. PICK h \in Frames(s) : AheadFrame(h, A, t)
      BY <1>1, <2>3, <3>1 DEF AheadIn
    <3>3. AheadFrame(h, B, t)
      BY <3>2 DEF AheadFrame
    <3> QED  BY <1>1, <3>3 DEF AheadIn
  <2> QED  BY <2>1, <2>2, <2>3 DEF SeenTo
<1> QED  BY <1>2 DEF SeenTo

\* A task that does not run is outside all calls, or only in its wait.
LEMMA QuietFrames ==
  ASSUME Base, NEW t \in Task, t # Self
  PROVE  \A f \in Frames(stack[t]) : WaitFrame(f)
<1>1. PICK s \in Seq(Frame) : s = stack[t]
  BY DEF Base, Typed
<1>2. CASE s = <<>>
  BY <1>1, <1>2, FramesEmpty
<1>3. CASE s # <<>>
  <2>1. WaitFrame(s[1]) /\ WaitsLast(s) /\ Len(s) \in Nat \ {0}
    BY <1>1, <1>3, EmptySeq, LenProperties DEF Base, OthersQuiet, AtWait, Kept, Shape
  <2>2. 1 \in 1..Len(s)
    BY <2>1
  <2>3. Len(s) = 1
    BY <2>1, <2>2 DEF WaitsLast
  <2> QED  BY <1>1, <2>1, <2>3 DEF Frames
<1> QED  BY <1>2, <1>3

\* WaitsFor, by the sleepers.
LEMMA WaitsForMeans ==
  ASSUME NEW zz, NEW t \in Task, NEW x
  PROVE  WaitsFor(zz, t, x) <=> t \in Asleep(zz.k) /\ x \in zz.waitmask[t]
BY DEF WaitsFor, Asleep

\* A step that moves the running task and only adds masked signals keeps it.
LEMMA ClearMoved ==
  ASSUME Base, Clear, NEW r, NEW s, NEW m, NEW o, Moved(r, s, m, o), PendStep, QueueStep(r), AddStep(r, s), corrupt => corrupt',
         ~corrupt' /\ r \in Client => SeenTo(s, sig_pendingset(z', r), m, z'.actions[r], r),
         r \in Asleep(z'.k) => Missed(r)' = {}
  PROVE  Clear'
<1>1. /\ r = Self /\ r \in Task /\ s \in Seq(Frame) /\ r \notin Asleep(z.k) /\ stack' = [stack EXCEPT ![r] = s]
      /\ stack \in [Task -> Seq(Frame)] /\ z.mask \in MaskMap /\ z'.mask = [z.mask EXCEPT ![r] = m]
  BY Runner DEF Moved, Base, Typed, SigState
<1>2. /\ stack'[r] = s /\ z'.mask[r] = m
      /\ \A t \in Task \ {r} : stack'[t] = stack[t] /\ z'.mask[t] = z.mask[t]
  BY <1>1 DEF MaskMap
<1>3. ASSUME NEW t \in Task \ {r}, NEW x, WaitsFor(z', t, x) PROVE WaitsFor(z, t, x)
  <2>1. t \in Asleep(z'.k) /\ x \in z'.waitmask[t]
    BY <1>3, WaitsForMeans
  <2>2. t \in Asleep(z.k) /\ x \in z.waitmask[t]
    BY <1>1, <2>1 DEF Moved
  <2> QED  BY <2>2, WaitsForMeans
<1>4. AddsMasked'
  <2> SUFFICES ASSUME NEW f \in Frames(stack'[Self']), f.op = "addpending", f.to # Self'
               PROVE  f.act.sig \in z'.mask[f.to] /\ ~WaitsFor(z', f.to, f.act.sig)
    BY DEF AddsMasked, Frames, WaitsFor
  <2>1. CASE Self' = r
    <3>1. f.act.sig \in z.mask[f.to] /\ ~WaitsFor(z, f.to, f.act.sig)
      BY <1>1, <1>2, <2>1 DEF AddStep, Clear, AddsMasked
    <3>2. f.to \in Task \ {r}
      <4>1. f \in Frame
        BY <1>1, <1>2, <2>1, FramesEmpty
      <4> QED  BY <2>1, <4>1, FrameKinds DEF Loose, Client
    <3> QED  BY <1>2, <1>3, <3>1, <3>2
  <2>2. CASE Self' # r
    <3>1. Self' \in Task
      BY ReadyHead DEF Moved, Self, Sound
    <3>2. f \in Frames(stack[Self']) /\ Self' # Self
      BY <1>1, <1>2, <2>2, <3>1
    <3>3. WaitFrame(f)
      BY <3>1, <3>2, QuietFrames
    <3> QED  BY <3>3 DEF WaitFrame
  <2> QED  BY <2>1, <2>2
<1>5. AllSeenTo'
  <2> SUFFICES ASSUME ~corrupt', NEW t \in Client
               PROVE  SeenTo(stack'[t], sig_pendingset(z', t), z'.mask[t], z'.actions[t], t)
    BY DEF AllSeenTo, SeenTo, CoveredBy, AheadIn, InUnmask, Frames, sig_pendingset
  <2>1. CASE t = r
    BY <1>2, <2>1
  <2>2. CASE t # r
    <3>1. t \in Task \ {r}
      BY <2>2 DEF Client
    <3>2. SeenTo(stack[t], sig_pendingset(z, t), z.mask[t], z.actions[t], t)
      BY DEF Clear, AllSeenTo
    <3>3. sig_pendingset(z', t) \subseteq sig_pendingset(z, t) \union z.mask[t]
      BY DEF PendStep
    <3>4. z.actions[t] # <<>> => z'.actions[t] # <<>>
      BY <2>2 DEF QueueStep
    <3>5. SeenTo(stack[t], sig_pendingset(z', t), z.mask[t], z'.actions[t], t)
      BY <3>2, <3>3, <3>4, SeenGrow
    <3> QED  BY <1>2, <3>1, <3>5
  <2> QED  BY <2>1, <2>2
<1>6. SleepersClear'
  <2> SUFFICES ASSUME NEW t \in Asleep(z'.k), t # r PROVE Missed(t)' = {}
    BY DEF SleepersClear
  <2>1. t \in Task \ {r} /\ t \in Asleep(z.k) /\ z'.mask[t] = z.mask[t] /\ z'.waitmask[t] \subseteq z.waitmask[t]
    BY <1>2 DEF Asleep, Moved
  <2>2. t \in Client
    <3>1. stack[t] # <<>>
      BY <2>1 DEF Base, SleepersWait, AtWait
    <3> QED  BY <2>1, <3>1 DEF Base, Typed, Client
  <2>3. Missed(t) = {}
    BY <2>1 DEF Clear, SleepersClear
  <2>4. ASSUME NEW x \in sig_pendingset(z', t), x \in z'.waitmask[t] \union (Handled \ z'.mask[t]) PROVE FALSE
    <3>1. x \in z.waitmask[t] \union (Handled \ z.mask[t])
      BY <2>1, <2>4
    <3>2. x \notin sig_pendingset(z, t)
      BY <2>3, <3>1 DEF Missed
    <3>3. x \in z.mask[t] /\ ~WaitsFor(z, t, x)
      BY <2>2, <3>2 DEF PendStep
    <3>4. x \notin z.waitmask[t]
      BY <2>1, <3>3, WaitsForMeans
    <3> QED  BY <3>1, <3>3, <3>4
  <2> QED  BY <2>4 DEF Missed, sig_pendingset
<1> QED  BY <1>4, <1>5, <1>6 DEF Clear

\* A step of a task that goes on.
LEMMA ClearGoing ==
  ASSUME Base, Clear, ~corrupt, NEW r, NEW s, NEW m, NEW o, Going(r, s, m, o), PendStep, QueueStep(r), AddStep(r, s),
         ~corrupt' => SeenTo(s, sig_pendingset(z', r), m, z'.actions[r], r)
  PROVE  Clear'
<1>1. Moved(r, s, m, o) /\ r = Self /\ Asleep(z'.k) \subseteq Asleep(z.k)
  BY GoingMoves DEF Going
<1>2. r \notin Asleep(z'.k)
  BY <1>1, Runner
<1> QED  BY <1>1, <1>2, ClearMoved

\* Equal lists have equal signals.
LEMMA SameSet ==
  ASSUME NEW zz, NEW y, NEW t, zz.pending[t] = y.pending[t]
  PROVE  sig_pendingset(zz, t) = sig_pendingset(y, t)
BY DEF sig_pendingset

\* Such a step that leaves the lists alone.
LEMMA ClearSame ==
  ASSUME Base, Clear, ~corrupt, NEW r, NEW s, NEW m, NEW o, Going(r, s, m, o), z'.pending = z.pending, z'.actions = z.actions,
         AddStep(r, s), SeenTo(s, sig_pendingset(z, r), m, z.actions[r], r)
  PROVE  Clear'
<1>1. \A t : sig_pendingset(z', t) = sig_pendingset(z, t)
  BY DEF sig_pendingset
<1>2. PendStep /\ QueueStep(r)
  BY <1>1 DEF PendStep, QueueStep
<1> QED  BY <1>1, <1>2, ClearGoing

\* The calls of the running task see to its signals.
LEMMA RunnerSees ==
  ASSUME Clear, ~corrupt, NEW r, r = Self, r \in Client
  PROVE  SeenTo(stack[r], sig_pendingset(z, r), z.mask[r], z.actions[r], r)
BY DEF Clear, AllSeenTo

\* Frames on top that add nothing.
LEMMA AddCons ==
  ASSUME NEW r, NEW f \in Frame, NEW b \in Seq(Frame), AddStep(r, b), f.op # "addpending"
  PROVE  AddStep(r, Cons(f, b))
<1>1. Frames(Cons(f, b)) = {f} \union Frames(b)
  BY FramesCons
<1> QED  BY <1>1 DEF AddStep

\* The frames of the stack itself, with or without the one on top.
LEMMA AddOld ==
  ASSUME Base, NEW r, NEW f, NEW b, OnTop(r, f, b)
  PROVE  AddStep(r, b) /\ AddStep(r, stack[r])
<1>1. Frames(stack[r]) = {f} \union Frames(b)
  BY FramesCons DEF OnTop
<1> QED  BY <1>1 DEF AddStep

\* Every frame of a stack is its own.
LEMMA AddSelf ==
  ASSUME NEW r
  PROVE  AddStep(r, stack[r])
BY DEF AddStep

\* Schedule for the caller itself keeps it.
LEMMA ScheduleOwnClear ==
  ASSUME Base, Clear, ScheduleOwn
  PROVE  Clear'
<1>1. PICK b : OnTop(Self, Top, b) /\ b = Tail(stack[Self])
  BY AtTop DEF ScheduleOwn, At
<1>2. PICK r, f, d : r = Self /\ f = Top /\ d = DeliverFrame(z, r, TRUE)
  OBVIOUS
<1>3. f.op = "schedule" /\ ~corrupt /\ OnTop(r, f, b) /\ f \in Frame /\ b \in Seq(Frame) /\ z \in SigState /\ r \in Task
  BY <1>1, <1>2 DEF ScheduleOwn, At, OnTop, Base, Typed
<1>4. Going(r, Cons(d, b), z.mask[r], own[r]) /\ z'.pending = z.pending /\ z'.actions = z.actions
  BY <1>1, <1>2, ScheduleOwnGoes DEF IsLocked, SameSignals
<1>5. d \in Frame /\ d.op = "deliver" /\ d.next = IF z.actions[r] = <<>> THEN NULL ELSE z.actions[r][1].id
  BY <1>2, <1>3, DeliverFrameMade
<1>6. AddStep(r, Cons(d, b))
  BY <1>3, <1>5, AddOld, AddCons
<1>7. PICK P, m, A : P = sig_pendingset(z, r) /\ m = z.mask[r] /\ A = z.actions[r]
  OBVIOUS
<1>8. SeenTo(Cons(f, b), P, m, A, r)
  BY <1>2, <1>3, <1>7, RunnerSees DEF OnTop
<1>9. SeenTo(Cons(d, b), P, m, A, r)
  <2>1. CASE A = <<>>
    <3>1. ~AheadFrame(f, A, r) /\ ~Saver(f)
      BY <1>3, <2>1 DEF AheadFrame, Saver
    <3>2. SeenTo(b, P, m, A, r)
      BY <1>3, <1>8, <3>1, SeenPop
    <3> QED  BY <1>3, <1>5, <3>2, SeenCons
  <2>2. CASE A # <<>>
    <3>1. d.next # NULL
      <4>1. PICK l \in Seq(Action) : l = A
        BY <1>3, <1>7 DEF SigState, ActMap
      <4>2. 1 \in 1..Len(l)
        BY <2>2, <4>1, EmptySeq, LenProperties
      <4>3. l[1].id # NULL
        BY <4>2, NotNull
      <4> QED  BY <1>5, <1>7, <2>2, <4>1, <4>3
    <3>2. d \in Frames(Cons(d, b)) /\ AheadFrame(d, A, r)
      BY <1>3, <1>5, <3>1, FramesCons DEF AheadFrame
    <3> QED  BY <3>2 DEF SeenTo, AheadIn
  <2> QED  BY <2>1, <2>2
<1> QED  BY <1>3, <1>4, <1>6, <1>7, <1>9, ClearSame

\* ScheduleOther keeps it.
LEMMA ScheduleOtherClear ==
  ASSUME Base, Clear, ScheduleOther
  PROVE  Clear'
<1>1. PICK b : OnTop(Self, Top, b) /\ b = Tail(stack[Self])
  BY AtTop DEF ScheduleOther, At
<1>2. PICK r, f : r = Self /\ f = Top
  OBVIOUS
<1>3. f.op = "schedule" /\ f.to # r /\ ~corrupt /\ OnTop(r, f, b) /\ f \in Frame /\ b \in Seq(Frame)
  BY <1>1, <1>2 DEF ScheduleOther, At, OnTop
<1>4. Going(r, b, z.mask[r], own[r]) /\ z'.pending = z.pending /\ z'.actions = z.actions
  BY <1>1, <1>2, ScheduleOtherGoes DEF IsScheduled
<1>5. PICK P, m, A : P = sig_pendingset(z, r) /\ m = z.mask[r] /\ A = z.actions[r]
  OBVIOUS
<1>6. SeenTo(Cons(f, b), P, m, A, r)
  BY <1>2, <1>3, <1>5, RunnerSees DEF OnTop
<1>7. ~AheadFrame(f, A, r) /\ ~Saver(f)
  BY <1>3 DEF AheadFrame, Saver
<1>8. SeenTo(b, P, m, A, r)
  BY <1>3, <1>6, <1>7, SeenPop
<1> QED  BY <1>3, <1>4, <1>5, <1>8, AddOld, ClearSame

\* A call returns.
LEMMA PopClear ==
  ASSUME Base, Clear, ~corrupt, NEW r, NEW f, NEW b, OnTop(r, f, b), ~Saver(f), f.op = "unmask" => f.set = {},
         f.op # "schedule", f.op \in {"deliver", "posted"} => f.next = NULL,
         Going(r, b, z.mask[r], own[r]), z'.pending = z.pending, z'.actions = z.actions
  PROVE  Clear'
<1>1. f \in Frame /\ b \in Seq(Frame) /\ r = Self /\ r \in Client /\ stack[r] = Cons(f, b)
  BY DEF OnTop
<1>2. PICK P, m, A : P = sig_pendingset(z, r) /\ m = z.mask[r] /\ A = z.actions[r]
  OBVIOUS
<1>3. SeenTo(Cons(f, b), P, m, A, r)
  BY <1>1, <1>2, RunnerSees
<1>4. ~AheadFrame(f, A, r)
  BY DEF AheadFrame
<1>5. SeenTo(b, P, m, A, r)
  BY <1>1, <1>3, <1>4, SeenPop
<1> QED  BY <1>2, <1>5, AddOld, ClearSame

\* Return, UnmaskEnds, DeliverEnds and TimedWaitResumed keep it.
LEMMA ReturnsClear ==
  ASSUME Base, Clear, Return \/ UnmaskEnds \/ DeliverEnds \/ TimedWaitResumed
  PROVE  Clear'
<1>1. PICK b : OnTop(Self, Top, b) /\ b = Tail(stack[Self])
  BY AtTop DEF Return, UnmaskEnds, DeliverEnds, TimedWaitResumed, At
<1>2. ~corrupt /\ Going(Self, b, z.mask[Self], own[Self]) /\ z'.pending = z.pending /\ z'.actions = z.actions
  <2>1. CASE Return
    BY <1>1, <2>1, ReturnGoes DEF Return, At, IsUnlocked, SameSignals
  <2>2. CASE UnmaskEnds
    BY <1>1, <2>2, UnmaskEndsGoes DEF UnmaskEnds, At, IsUnlocked, SameSignals
  <2>3. CASE DeliverEnds
    BY <1>1, <2>3, DeliverEndsGoes DEF DeliverEnds, At, IsUnlocked, SameSignals
  <2>4. CASE TimedWaitResumed
    BY <1>1, <2>4, TimedWaitResumedGoes DEF TimedWaitResumed, At
  <2> QED  BY <2>1, <2>2, <2>3, <2>4
<1>3. /\ ~Saver(Top) /\ (Top.op = "unmask" => Top.set = {}) /\ Top.op # "schedule"
      /\ (Top.op \in {"deliver", "posted"} => Top.next = NULL)
  BY DEF Return, UnmaskEnds, DeliverEnds, TimedWaitResumed, At, Saver
<1> QED  BY <1>1, <1>2, <1>3, PopClear

\* up_sigdeliver keeps it.
LEMMA SigdeliverClear ==
  ASSUME Base, Clear, up_sigdeliver
  PROVE  Clear'
<1>1. Self \in Client /\ ~corrupt /\ z \in SigState
  BY DEF up_sigdeliver, Base, Typed
<1>2. PICK s : OnStack(Self, s)
  BY <1>1, AtUser
<1>3. PICK r, d : r = Self /\ d = DeliverFrame(z, r, FALSE)
  OBVIOUS
<1>4. s \in Seq(Frame) /\ s = stack[r] /\ r \in Task /\ r \in Client
  BY <1>2, <1>3 DEF OnStack
<1>5. Going(r, Cons(d, s), z.mask[r], own[r]) /\ z'.pending = z.pending /\ z'.actions = z.actions
  BY <1>3, <1>4, SigdeliverGoes
<1>6. d \in Frame /\ d.op = "deliver"
  BY <1>1, <1>3, <1>4, DeliverFrameMade
<1>7. SeenTo(s, sig_pendingset(z, r), z.mask[r], z.actions[r], r) /\ AddStep(r, s)
  BY <1>1, <1>3, <1>4, RunnerSees, AddSelf
<1>8. SeenTo(Cons(d, s), sig_pendingset(z, r), z.mask[r], z.actions[r], r) /\ AddStep(r, Cons(d, s))
  BY <1>4, <1>6, <1>7, SeenCons, AddCons
<1> QED  BY <1>1, <1>5, <1>8, ClearSame

\* DeliverFree keeps it.
LEMMA DeliverFreeClear ==
  ASSUME Base, Clear, DeliverFree
  PROVE  Clear'
<1>1. PICK b : OnTop(Self, Top, b) /\ b = Tail(stack[Self])
  BY AtTop DEF DeliverFree, At
<1>2. PICK r, f, d : r = Self /\ f = Top /\ d = [op |-> "deliver", next |-> Top.next, irqoff |-> Top.irqoff]
  OBVIOUS
<1>3. f.op = "posted" /\ ~corrupt /\ OnTop(r, f, b) /\ f \in Frame /\ b \in Seq(Frame) /\ z' = z
  BY <1>1, <1>2 DEF DeliverFree, At, OnTop
<1>4. Going(r, Cons(d, b), z.mask[r], own[r])
  BY <1>1, <1>2, DeliverFreeGoes
<1>5. d \in Frame /\ d.op = "deliver" /\ d.next = f.next
  BY <1>2, <1>3, FrameKinds, FrameMade
<1>6. AddStep(r, Cons(d, b))
  BY <1>3, <1>5, AddOld, AddCons
<1>7. PICK P, m, A : P = sig_pendingset(z, r) /\ m = z.mask[r] /\ A = z.actions[r]
  OBVIOUS
<1>8. SeenTo(Cons(f, b), P, m, A, r)
  BY <1>2, <1>3, <1>7, RunnerSees DEF OnTop
<1>9. SeenTo(Cons(d, b), P, m, A, r)
  <2>1. CASE f.next = NULL
    <3>1. ~AheadFrame(f, A, r) /\ ~Saver(f)
      BY <1>3, <2>1 DEF AheadFrame, Saver
    <3>2. SeenTo(b, P, m, A, r)
      BY <1>3, <1>8, <3>1, SeenPop
    <3> QED  BY <1>3, <1>5, <3>2, SeenCons
  <2>2. CASE f.next # NULL
    <3>1. d \in Frames(Cons(d, b)) /\ AheadFrame(d, A, r)
      BY <1>3, <1>5, <2>2, FramesCons DEF AheadFrame
    <3> QED  BY <3>1 DEF SeenTo, AheadIn
  <2> QED  BY <2>1, <2>2
<1> QED  BY <1>3, <1>4, <1>6, <1>7, <1>9, ClearSame

\* UnmaskSkips keeps it.
LEMMA UnmaskSkipsClear ==
  ASSUME Base, Clear, UnmaskSkips
  PROVE  Clear'
<1>1. PICK b : OnTop(Self, Top, b) /\ b = Tail(stack[Self])
  BY AtTop DEF UnmaskSkips, At
<1>2. PICK r, f, x : r = Self /\ f = Top /\ x = sig_lowest(Top.set)
  OBVIOUS
<1>3. /\ f.op = "unmask" /\ ~corrupt /\ OnTop(r, f, b) /\ f \in Frame /\ b \in Seq(Frame)
      /\ x \notin sig_pendingset(z, r)
  BY <1>1, <1>2 DEF UnmaskSkips, At, OnTop
<1>4. PICK d : d = Rest(f, x)
  OBVIOUS
<1>5. d \in Frame /\ d.op = "unmask" /\ d.set = f.set \ {x}
  <2>1. PICK g : g = [f EXCEPT !.set = @ \ {x}]
    OBVIOUS
  <2> QED  BY <1>3, <1>4, <2>1, RestMade
<1>6. Going(r, Cons(d, b), z.mask[r], own[r]) /\ z' = z
  BY <1>1, <1>2, <1>4, UnmaskSkipsGoes
<1>7. AddStep(r, Cons(d, b))
  BY <1>3, <1>5, AddOld, AddCons
<1>8. PICK P, m, A : P = sig_pendingset(z, r) /\ m = z.mask[r] /\ A = z.actions[r]
  OBVIOUS
<1>9. SeenTo(Cons(f, b), P, m, A, r) /\ x \notin P /\ P \subseteq P \union m
  BY <1>2, <1>3, <1>8, RunnerSees DEF OnTop
<1>10. SeenTo(Cons(d, b), P, m, A, r)
  BY <1>3, <1>5, <1>9, SeenRest
<1> QED  BY <1>3, <1>6, <1>7, <1>8, <1>10, ClearSame

\* DeliverTakes keeps it.
LEMMA DeliverTakesClear ==
  ASSUME Base, HandledOnly, Clear, DeliverTakes
  PROVE  Clear'
<1>1. PICK b : OnTop(Self, Top, b) /\ b = Tail(stack[Self])
  BY AtTop DEF DeliverTakes, At
<1>2. PICK l, i, m, n, h : /\ Delivers(Self, Top, l, i, m, n, h)
                           /\ Going(Self, Cons(h, Tail(stack[Self])), n, own[Self])
  BY DeliverTakesGoes
<1>3. PICK r : r = Self
  OBVIOUS
<1>4. ~corrupt /\ OnTop(r, Top, b) /\ b \in Seq(Frame) /\ r \in Task /\ z.actions \in ActMap
  BY <1>1, <1>3 DEF DeliverTakes, At, OnTop, Base, Typed, SigState
<1>5. h \in Frame /\ h.op = "handler" /\ z'.pending = z.pending /\ z'.actions = [z.actions EXCEPT ![r] = m]
  BY <1>2, <1>3 DEF Delivers
<1>6. Going(r, Cons(h, b), n, own[r])
  BY <1>1, <1>2, <1>3
<1>7. Saver(h)
  BY <1>5 DEF Saver
<1>8. SeenTo(Cons(h, b), sig_pendingset(z', r), n, z'.actions[r], r)
  BY <1>4, <1>5, <1>7, SeenSaver
<1>9. PendStep /\ QueueStep(r)
  <2>1. \A t : sig_pendingset(z', t) = sig_pendingset(z, t)
    BY <1>5 DEF sig_pendingset
  <2>2. \A t \in Client \ {r} : z'.actions[t] = z.actions[t]
    BY <1>4, <1>5 DEF ActMap, Client
  <2> QED  BY <2>1, <2>2 DEF PendStep, QueueStep
<1>10. AddStep(r, Cons(h, b))
  BY <1>4, <1>5, AddOld, AddCons
<1> QED  BY <1>4, <1>6, <1>8, <1>9, <1>10, ClearGoing

\* DeliverFreed keeps it.
LEMMA DeliverFreedClear ==
  ASSUME Base, Clear, DeliverFreed
  PROVE  Clear'
<1>1. Going(Self, stack[Self], z.mask[Self], own[Self]) /\ corrupt' /\ z' = z /\ ~corrupt
  BY DeliverFreedGoes DEF DeliverFreed, At
<1>2. PendStep /\ QueueStep(Self)
  BY <1>1 DEF PendStep, QueueStep
<1> QED  BY <1>1, <1>2, AddSelf, ClearGoing

\* The return from what has replaced the mask, and sigprocmask.
LEMMA UnmaskStartsClear ==
  ASSUME Base, Clear, ~corrupt, NEW r, r = Self, r \in Task, NEW y, NEW g \in Frame, g.op # "addpending", NEW b, b \in Seq(Frame), AddStep(r, b),
         NEW m, NEW o, Going(r, Cons(UnmaskFrame(y, r), Cons(g, b)), m, o),
         IsMasked(z, r, m, y), SameSignals(y, z')
  PROVE  Clear'
<1>1. y \in SigState /\ z.mask \in MaskMap
  BY DEF IsMasked, Base, Typed, SigState
<1>2. PICK u : u = UnmaskFrame(y, r)
  OBVIOUS
<1>3. y.mask[r] = m /\ z'.pending = z.pending /\ z'.actions = z.actions /\ sig_pendingset(y, r) = sig_pendingset(z, r)
  BY <1>1 DEF IsMasked, SameSignals, MaskMap, sig_pendingset
<1>4. u \in Frame /\ u.op = "unmask" /\ u.set = sig_pendingset(z, r) \ m
  BY <1>1, <1>2, <1>3, UnmaskFrameMade
<1>5. Cons(g, b) \in Seq(Frame)
  BY ConsAt
<1>6. AddStep(r, Cons(g, b))
  BY AddCons
<1>7. PICK c \in Seq(Frame) : c = Cons(g, b)
  BY <1>5
<1>8. AddStep(r, Cons(u, c)) /\ Going(r, Cons(u, c), m, o)
  BY <1>2, <1>4, <1>6, <1>7, AddCons
<1>9. SeenTo(Cons(u, c), sig_pendingset(z, r), m, z.actions[r], r)
  BY <1>4, SeenUnmask
<1> QED  BY <1>3, <1>8, <1>9, ClearSame

\* HandlerReturn and SuspendResumed keep it.
LEMMA RestoreClear ==
  ASSUME Base, Clear, HandlerReturn \/ SuspendResumed
  PROVE  Clear'
<1>1. PICK b : OnTop(Self, Top, b) /\ b = Tail(stack[Self])
  BY AtTop DEF HandlerReturn, SuspendResumed, At
<1>2. ~corrupt
  BY DEF HandlerReturn, SuspendResumed, At
<1>3. PICK r : r = Self
  OBVIOUS
<1>4. OnTop(r, Top, b) /\ r \in Task /\ b \in Seq(Frame)
  BY <1>1, <1>3 DEF OnTop
<1>5. PICK y, g : /\ Going(r, Cons(UnmaskFrame(y, r), Cons(g, b)), Top.saved, own[r])
                  /\ IsMasked(z, r, Top.saved, y) /\ IsLocked(y, r, z') /\ g \in Frame /\ g.op # "addpending"
  <2>1. CASE HandlerReturn
    <3>1. PICK y, g : /\ Going(Self, Cons(UnmaskFrame(y, Self), Cons(g, Tail(stack[Self]))), Top.saved, own[Self])
                      /\ IsMasked(z, Self, Top.saved, y) /\ IsLocked(y, Self, z')
                      /\ g \in Frame /\ g.op = "posted" /\ g.next = Top.next
      BY <2>1, HandlerReturnGoes
    <3> QED  BY <1>1, <1>3, <3>1
  <2>2. CASE SuspendResumed
    <3>1. PICK y, g : /\ Going(Self, Cons(UnmaskFrame(y, Self), Cons(g, Tail(stack[Self]))), Top.saved, own[Self])
                      /\ IsMasked(z, Self, Top.saved, y) /\ IsLocked(y, Self, z')
                      /\ g \in Frame /\ g.op = "unlock"
      BY <2>2, SuspendResumedGoes
    <3> QED  BY <1>1, <1>3, <3>1
  <2> QED  BY <2>1, <2>2
<1>6. SameSignals(y, z') /\ AddStep(r, b)
  BY <1>4, <1>5, AddOld DEF IsLocked
<1> QED  BY <1>2, <1>3, <1>4, <1>5, <1>6, UnmaskStartsClear

\* SigProcMask keeps it.
LEMMA SigProcMaskClear ==
  ASSUME Base, Clear, NEW S \in SUBSET Sig, SigProcMask(S)
  PROVE  Clear'
<1>1. ~corrupt /\ Self \in Client
  BY DEF SigProcMask, InUser
<1>2. PICK y, g, o : /\ Going(Self, Cons(UnmaskFrame(y, Self), Cons(g, stack[Self])), S, o)
                     /\ IsMasked(z, Self, S, y) /\ SameSignals(y, z') /\ g \in Frame /\ g.op = "unlock"
  BY SigProcMaskGoes
<1>3. PICK r, b : r = Self /\ b = stack[Self]
  OBVIOUS
<1>4. r \in Task /\ b \in Seq(Frame) /\ AddStep(r, b) /\ g.op # "addpending"
  BY <1>2, <1>3, Runner, AddSelf
<1>5. Going(r, Cons(UnmaskFrame(y, r), Cons(g, b)), S, o) /\ IsMasked(z, r, S, y)
  BY <1>2, <1>3
<1> QED  BY <1>1, <1>2, <1>3, <1>4, <1>5, UnmaskStartsClear

\* The pending signals of the tasks in y are those in zz and, for t, those of X.
PendingIn(zz, t, X, y) ==
  \A u \in Task : sig_pendingset(y, u) \subseteq IF u = t THEN sig_pendingset(zz, u) \union X ELSE sig_pendingset(zz, u)

\* The new list of a task has only signals of the old one and of X.
LEMMA PendsPending ==
  ASSUME NEW zz \in SigState, NEW t \in Task, NEW m, NEW y, Pends(zz, t, m, y), NEW X,
         \A i \in 1..Len(m) : m[i].sig \in X \/ \E j \in 1..Len(zz.pending[t]) : m[i].sig = zz.pending[t][j].sig
  PROVE  PendingIn(zz, t, X, y)
<1>1. y.pending[t] = m /\ \A u \in Task \ {t} : y.pending[u] = zz.pending[u]
  BY DEF Pends, SigState, ActMap
<1>2. sig_pendingset(y, t) \subseteq sig_pendingset(zz, t) \union X
  BY <1>1 DEF sig_pendingset
<1>3. \A u \in Task \ {t} : sig_pendingset(y, u) = sig_pendingset(zz, u)
  BY <1>1 DEF sig_pendingset
<1> QED  BY <1>2, <1>3 DEF PendingIn

\* sig_removependingsignal adds no signal.
LEMMA RemovedPending ==
  ASSUME NEW zz \in SigState, NEW t \in Task, NEW s \in sig_pendingset(zz, t), NEW y, y = sig_removependingsignal(zz, t, s)
  PROVE  PendingIn(zz, t, {}, y) /\ y.actions = zz.actions /\ SameTasks(zz, y)
<1>1. PICK i, m : IsCut(zz.pending[t], i, m) /\ Pends(zz, t, m, y)
  BY RemovedState
<1>2. PICK l \in Seq(Action) : l = zz.pending[t]
  BY DEF SigState, ActMap
<1>3. Len(l) \in Nat /\ IsCut(l, i, m)
  BY <1>1, <1>2, LenProperties
<1>4. \A n \in 1..Len(m) : \E j \in 1..Len(l) : m[n] = l[j]
  <2> SUFFICES ASSUME NEW n \in 1..Len(m) PROVE \E j \in 1..Len(l) : m[n] = l[j]
    OBVIOUS
  <2>1. n \in 1..(Len(l) - 1) /\ n \in 1..Len(l) /\ n + 1 \in 1..Len(l)
    BY <1>3 DEF IsCut
  <2>2. m[n] = l[n] \/ m[n] = l[n + 1]
    BY <1>3, <2>1 DEF IsCut
  <2> QED  BY <2>1, <2>2
<1>5. \A n \in 1..Len(m) : m[n].sig \in {} \/ \E j \in 1..Len(zz.pending[t]) : m[n].sig = zz.pending[t][j].sig
  BY <1>2, <1>4
<1> QED  BY <1>1, <1>5, PendsPending DEF Pends

\* AddPending adds the signal.
LEMMA AddedPending ==
  ASSUME NEW zz \in SigState, NEW t \in Task, NEW a \in Action, NEW y, Pends(zz, t, Append(zz.pending[t], a), y)
  PROVE  PendingIn(zz, t, {a.sig}, y) /\ y.actions = zz.actions
<1>1. PICK l \in Seq(Action) : l = zz.pending[t]
  BY DEF SigState, ActMap
<1>2. PICK m : m = Append(l, a)
  OBVIOUS
<1>3. Len(l) \in Nat /\ Len(m) = Len(l) + 1 /\ m[Len(l) + 1] = a /\ \A i \in 1..Len(l) : m[i] = l[i]
  BY <1>1, <1>2, AppendProperties, LenProperties
<1>4. \A i \in 1..Len(m) : m[i].sig \in {a.sig} \/ \E j \in 1..Len(l) : m[i].sig = l[j].sig
  <2> SUFFICES ASSUME NEW i \in 1..Len(m) PROVE m[i] = a \/ (i \in 1..Len(l) /\ m[i] = l[i])
    OBVIOUS
  <2>1. i = Len(l) + 1 \/ i \in 1..Len(l)
    BY <1>3
  <2> QED  BY <1>3, <2>1
<1>5. Pends(zz, t, m, y)
  BY <1>1, <1>2
<1>6. PICK X : X = {a.sig}
  OBVIOUS
<1>7. \A i \in 1..Len(m) : m[i].sig \in X \/ \E j \in 1..Len(zz.pending[t]) : m[i].sig = zz.pending[t][j].sig
  BY <1>1, <1>4, <1>6
<1>8. PendingIn(zz, t, X, y)
  BY <1>5, <1>7, PendsPending
<1> QED  BY <1>5, <1>6, <1>8 DEF Pends

\* Overwrite adds none that is not pending.
LEMMA OverwrittenPending ==
  ASSUME NEW zz \in SigState, NEW t \in Task, NEW a, a.sig \in sig_pendingset(zz, t), NEW e, NEW m, NEW y,
         IsOverwritten(zz.pending[t], e, a, m), Pends(zz, t, m, y)
  PROVE  PendingIn(zz, t, {}, y) /\ y.actions = zz.actions
<1>1. PICK l \in Seq(Action) : l = zz.pending[t]
  BY DEF SigState, ActMap
<1>2. PICK j \in 1..Len(l) : a.sig = l[j].sig
  BY <1>1 DEF sig_pendingset
<1>3. \A i \in 1..Len(m) : m[i].sig \in {} \/ \E n \in 1..Len(l) : m[i].sig = l[n].sig
  <2> SUFFICES ASSUME NEW i \in 1..Len(m) PROVE i \in 1..Len(l) /\ (m[i] = a \/ m[i] = l[i])
    BY <1>2
  <2> QED  BY <1>1 DEF IsOverwritten
<1> QED  BY <1>1, <1>3, PendsPending DEF Pends

\* Signals that come to the pending ones of t are masked there and not waited for.
LEMMA PendingStep ==
  ASSUME NEW t \in Task, NEW X, PendingIn(z, t, X, z'),
         \A x \in X : x \in z.mask[t] /\ ~WaitsFor(z, t, x)
  PROVE  PendStep
<1>1. \A u \in Client : u \in Task
  BY DEF Client
<1> QED  BY <1>1 DEF PendStep, PendingIn

\* Without new signals nothing comes to the pending ones.
LEMMA PendingLess ==
  ASSUME NEW zz, NEW t, NEW y, PendingIn(zz, t, {}, y), NEW u \in Task
  PROVE  sig_pendingset(y, u) \subseteq sig_pendingset(zz, u)
BY DEF PendingIn

\* Queues that stay.
LEMMA QueuesStay ==
  ASSUME NEW r, z'.actions = z.actions
  PROVE  QueueStep(r)
BY DEF QueueStep

\* With that, the signals of the running task come from the old ones and the masked ones.
LEMMA RunnerPends ==
  ASSUME PendStep, NEW r, r \in Client
  PROVE  sig_pendingset(z', r) \subseteq sig_pendingset(z, r) \union z.mask[r]
BY DEF PendStep

\* SigAddPending keeps it.
LEMMA SigAddPendingClear ==
  ASSUME Base, Clear, SigAddPending
  PROVE  Clear'
<1>1. PICK b : OnTop(Self, Top, b) /\ b = Tail(stack[Self])
  BY AtTop DEF SigAddPending, At
<1>2. PICK r, f : r = Self /\ f = Top
  OBVIOUS
<1>3. /\ f.op = "addpending" /\ ~corrupt /\ OnTop(r, f, b) /\ f \in Frame /\ b \in Seq(Frame) /\ r \in Task /\ r \in Client
      /\ z' = AddPending(z, f.to, f.act) /\ z \in SigState
  BY <1>1, <1>2 DEF SigAddPending, At, OnTop, Base, Typed
<1>4. PICK t, a : t = f.to /\ a = f.act
  OBVIOUS
<1>5. t \in Task /\ a \in Action
  BY <1>3, <1>4, FrameKinds DEF Loose, Client
<1>6. Going(r, b, z.mask[r], own[r])
  BY <1>1, <1>2, SigAddPendingGoes
<1>7. PendingIn(z, t, {a.sig}, z') /\ z'.actions = z.actions
  <2>1. Pends(z, t, Append(z.pending[t], a), z')
    BY <1>3, <1>4, <1>5, AddedState
  <2> QED  BY <1>3, <1>5, <2>1, AddedPending
<1>8. a.sig \in z.mask[t] /\ ~WaitsFor(z, t, a.sig)
  <2>1. CASE t = r
    <3>1. a.sig \in z.mask[t]
      BY <1>3, <1>4, <2>1 DEF OnTop, AddTo
    <3>2. t \notin Asleep(z.k)
      BY <1>2, <2>1, Runner
    <3> QED  BY <1>5, <3>1, <3>2, WaitsForMeans
  <2>2. CASE t # r
    <3>1. f \in Frames(stack[Self])
      BY <1>2, <1>3, FramesCons DEF OnTop
    <3> QED  BY <1>2, <1>3, <1>4, <2>2, <3>1 DEF Clear, AddsMasked
  <2> QED  BY <2>1, <2>2
<1>9. PendStep /\ QueueStep(r)
  <2>1. PICK X : X = {a.sig}
    OBVIOUS
  <2>2. PendingIn(z, t, X, z') /\ \A x \in X : x \in z.mask[t] /\ ~WaitsFor(z, t, x)
    BY <1>7, <1>8, <2>1
  <2> QED  BY <1>5, <1>7, <2>2, PendingStep, QueuesStay
<1>10. PICK P, m, A, Q : P = sig_pendingset(z, r) /\ m = z.mask[r] /\ A = z.actions[r] /\ Q = sig_pendingset(z', r)
  OBVIOUS
<1>11. SeenTo(Cons(f, b), P, m, A, r) /\ Q \subseteq P \union m
  BY <1>2, <1>3, <1>9, <1>10, RunnerSees, RunnerPends DEF OnTop
<1>12. ~AheadFrame(f, A, r) /\ ~Saver(f)
  BY <1>3 DEF AheadFrame, Saver
<1>13. SeenTo(b, P, m, A, r)
  BY <1>3, <1>11, <1>12, SeenPop
<1>14. SeenTo(b, Q, m, A, r)
  BY <1>11, <1>13, SeenGrow
<1>15. SeenTo(b, sig_pendingset(z', r), z.mask[r], z'.actions[r], r)
  BY <1>7, <1>10, <1>14
<1> QED  BY <1>3, <1>6, <1>9, <1>15, AddOld, ClearGoing

\* A task outside all calls has seen to all signals.
LEMMA AtRestClear ==
  ASSUME Clear, ~corrupt, NEW r, r \in Client, stack[r] = <<>>
  PROVE  sig_pendingset(z, r) \intersect Handled \subseteq z.mask[r]
<1>1. SeenTo(stack[r], sig_pendingset(z, r), z.mask[r], z.actions[r], r)
  BY DEF Clear, AllSeenTo
<1>2. <<>> \in Seq(Frame)
  OBVIOUS
<1>3. Frames(stack[r]) = {}
  BY <1>2, FramesEmpty
<1> QED  BY <1>1, <1>3 DEF SeenTo, CoveredBy, AheadIn, InUnmask

\* The waits that find a signal keep it.
LEMMA TakesClear ==
  ASSUME Base, Clear, ~corrupt, NEW r, r = Self, r \in Client, stack[r] = <<>>, Going(r, <<>>, z.mask[r], own[r]),
         NEW x \in sig_pendingset(z, r), z' = sig_removependingsignal(z, r, x)
  PROVE  Clear'
<1>1. r \in Task /\ z \in SigState
  BY DEF Client, Base, Typed
<1>2. PendingIn(z, r, {}, z') /\ z'.actions = z.actions
  BY <1>1, RemovedPending
<1>3. PendStep /\ QueueStep(r)
  BY <1>1, <1>2, PendingStep, QueuesStay
<1>4. PICK P, m, A, Q : P = sig_pendingset(z, r) /\ m = z.mask[r] /\ A = z.actions[r] /\ Q = sig_pendingset(z', r)
  OBVIOUS
<1>5. SeenTo(<<>>, P, m, A, r) /\ Q \subseteq P \union m
  BY <1>3, <1>4, RunnerSees, RunnerPends
<1>6. SeenTo(<<>>, Q, m, A, r)
  BY <1>5, SeenGrow
<1>7. SeenTo(<<>>, sig_pendingset(z', r), z.mask[r], z'.actions[r], r) /\ AddStep(r, <<>>)
  BY <1>2, <1>4, <1>6, AddSelf
<1> QED  BY <1>3, <1>7, ClearGoing

\* SigSuspend keeps it.
LEMMA SuspendClear ==
  ASSUME Base, Clear, NEW S \in SUBSET Sig, SigSuspend(S)
  PROVE  Clear'
<1>1. ~corrupt /\ Self \in Client /\ stack[Self] = <<>> /\ corrupt' = corrupt
  BY DEF SigSuspend, InUser
<1>2. CASE SuspendTakes(S)
  BY <1>1, <1>2, SuspendTakesGoes, TakesClear
<1>3. CASE SuspendWaits(S)
  <2>1. PICK w : /\ Moved(Self, Cons(w, <<>>), S, own[Self]) /\ w \in Frame /\ w.op = "suspend"
                 /\ z'.pending = z.pending /\ z'.actions = z.actions /\ z'.waitmask[Self] = {}
    BY <1>3, SuspendWaitsMoves
  <2>2. PICK r, b : r = Self /\ b = <<>>
    OBVIOUS
  <2>3. b \in Seq(Frame) /\ Moved(r, Cons(w, b), S, own[r]) /\ r \in Client /\ r \in Task /\ stack[r] = b
    BY <1>1, <2>1, <2>2 DEF Client
  <2>4. \A t : sig_pendingset(z', t) = sig_pendingset(z, t)
    BY <2>1 DEF sig_pendingset
  <2>5. PendStep /\ QueueStep(r)
    BY <2>1, <2>4, QueuesStay DEF PendStep
  <2>6. AddStep(r, Cons(w, b))
    BY <2>1, <2>3, AddSelf, AddCons
  <2>7. SeenTo(Cons(w, b), sig_pendingset(z', r), S, z'.actions[r], r)
    BY <2>1, <2>3, SeenSaver DEF Saver
  <2>8. z'.mask[r] = S
    BY <2>3 DEF Moved, Base, Typed, SigState, MaskMap
  <2>9. sig_pendingset(z, r) \subseteq S
    BY <1>3, <2>2 DEF SuspendWaits
  <2>10. Missed(r)' = {}
    BY <2>1, <2>2, <2>4, <2>8, <2>9 DEF Missed, sig_pendingset
  <2> QED  BY <1>1, <2>3, <2>5, <2>6, <2>7, <2>10, ClearMoved
<1> QED  BY <1>2, <1>3 DEF SuspendTakes, SuspendWaits

\* SigTimedWait keeps it.
LEMMA TimedClear ==
  ASSUME Base, Clear, NEW S \in SUBSET Sig, NEW q \in BOOLEAN, SigTimedWait(S, q)
  PROVE  Clear'
<1>1. ~corrupt /\ Self \in Client /\ stack[Self] = <<>> /\ corrupt' = corrupt
  BY DEF SigTimedWait, InUser
<1>2. CASE TimedTakes(S, q)
  BY <1>1, <1>2, TimedTakesGoes, TakesClear
<1>3. CASE TimedWaits(S, q)
  <2>1. PICK w : /\ Moved(Self, Cons(w, <<>>), z.mask[Self], own[Self]) /\ w \in Frame /\ w.op = "timedwait"
                 /\ z'.pending = z.pending /\ z'.actions = z.actions /\ z'.waitmask[Self] = S
    BY <1>3, TimedWaitsMoves
  <2>2. PICK r, b, m : r = Self /\ b = <<>> /\ m = z.mask[r]
    OBVIOUS
  <2>3. b \in Seq(Frame) /\ Moved(r, Cons(w, b), m, own[r]) /\ r \in Client /\ r \in Task /\ stack[r] = b
    BY <1>1, <2>1, <2>2 DEF Client
  <2>4. \A t : sig_pendingset(z', t) = sig_pendingset(z, t)
    BY <2>1 DEF sig_pendingset
  <2>5. PendStep /\ QueueStep(r)
    BY <2>1, <2>4, QueuesStay DEF PendStep
  <2>6. AddStep(r, Cons(w, b))
    BY <2>1, <2>3, AddSelf, AddCons
  <2>7. SeenTo(b, sig_pendingset(z', r), m, z'.actions[r], r)
    BY <1>1, <2>1, <2>2, <2>3, <2>4, RunnerSees
  <2>8. SeenTo(Cons(w, b), sig_pendingset(z', r), m, z'.actions[r], r)
    BY <2>1, <2>3, <2>7, SeenCons
  <2>9. z'.mask[r] = m
    BY <2>3 DEF Moved, Base, Typed, SigState, MaskMap
  <2>10. sig_pendingset(z, r) \intersect S = {}
    BY <1>3, <2>2 DEF TimedWaits
  <2>11. sig_pendingset(z, r) \intersect Handled \subseteq m
    BY <1>1, <2>2, <2>3, AtRestClear
  <2>12. z'.waitmask[r] = S /\ sig_pendingset(z', r) = sig_pendingset(z, r)
    BY <2>1, <2>2, <2>4
  <2>13. Missed(r)' = sig_pendingset(z', r) \intersect (z'.waitmask[r] \union (Handled \ z'.mask[r]))
    BY <2>12 DEF Missed, sig_pendingset
  <2>14. Missed(r)' = {}
    BY <2>9, <2>10, <2>11, <2>12, <2>13
  <2> QED  BY <1>1, <2>3, <2>5, <2>6, <2>8, <2>14, ClearMoved
<1> QED  BY <1>2, <1>3 DEF TimedTakes, TimedWaits

\* An interrupt handler that adds only masked signals keeps it.
LEMMA InterruptClear ==
  ASSUME Base, Clear, ~corrupt, Interrupts, PendStep, \A t \in Client : z.actions[t] # <<>> => z'.actions[t] # <<>>
  PROVE  Clear'
<1>1. PICK r, s, m : r = Self /\ s = stack[Self] /\ m = z.mask[Self]
  OBVIOUS
<1>2. Moved(r, s, m, own[r]) /\ AddStep(r, s)
  BY <1>1, InterruptMoves, AddSelf
<1>3. QueueStep(r)
  BY DEF QueueStep
<1>4. corrupt' = corrupt
  BY DEF Interrupts
<1>5. r \notin Asleep(z'.k)
  BY <1>1, Runner DEF Interrupts
<1>6. ASSUME r \in Client PROVE SeenTo(s, sig_pendingset(z', r), m, z'.actions[r], r)
  <2>1. PICK P, A, Q, B : P = sig_pendingset(z, r) /\ A = z.actions[r] /\ Q = sig_pendingset(z', r) /\ B = z'.actions[r]
    OBVIOUS
  <2>2. SeenTo(s, P, m, A, r) /\ Q \subseteq P \union m /\ (A # <<>> => B # <<>>)
    BY <1>1, <1>6, <2>1, RunnerSees, RunnerPends
  <2> QED  BY <2>1, <2>2, SeenGrow
<1> QED  BY <1>2, <1>3, <1>4, <1>5, <1>6, ClearMoved

\* SigTimeout keeps it.
LEMMA SigTimeoutClear ==
  ASSUME Base, Clear, NEW t \in Client, SigTimeout(t)
  PROVE  Clear'
<1>1. ~corrupt
  BY DEF SigTimeout, InterruptsEnabled
<1>2. Interrupts /\ z'.pending = z.pending /\ z'.actions = z.actions
  BY SigTimeoutDoes
<1>3. PendStep
  BY <1>2 DEF PendStep, sig_pendingset
<1> QED  BY <1>1, <1>2, <1>3, InterruptClear

\* sig_queueaction empties no queue, and fills that of t when the signal has a handler.
LEMMA QueuesGrow ==
  ASSUME NEW zz \in SigState, NEW t \in Task, NEW a \in Action, NEW y, Queues(zz, t, a, y)
  PROVE  /\ \A u \in Task : zz.actions[u] # <<>> => y.actions[u] # <<>>
         /\ a.sig \in Handled => y.actions[t] # <<>>
<1>1. PICK l \in Seq(Action) : l = zz.actions[t]
  BY DEF SigState, ActMap
<1>2. PICK m : m = Append(l, a)
  OBVIOUS
<1>3. m \in Seq(Action) /\ Len(m) = Len(l) + 1 /\ Len(l) \in Nat
  BY <1>1, <1>2, AppendProperties, LenProperties
<1>4. m # <<>>
  BY <1>3
<1>5. y.actions = IF a.sig \in Handled THEN [zz.actions EXCEPT ![t] = m] ELSE zz.actions
  BY <1>1, <1>2 DEF Queues
<1>6. zz.actions \in ActMap
  BY DEF SigState
<1> QED  BY <1>4, <1>5, <1>6 DEF ActMap

\* IsrKill keeps it.
LEMMA IsrKillClear ==
  ASSUME Base, sent \in 0..MaxSends, Clear, NEW t \in Client, NEW x \in IsrSig, IsrKill(t, x)
  PROVE  Clear'
<1>1. ~corrupt /\ z \in SigState /\ t \in Task /\ \A u \in Client : u \in Task
  BY DEF IsrKill, InterruptsEnabled, Base, Typed, Client
<1>2. Interrupts /\ \E a : a \in Action /\ IsrCases(t, a)
  BY IsrKillDoes
<1>3. PICK a \in Action : IsrCases(t, a)
  BY <1>2
<1>4. CASE \E y : Queues(z, t, a, y) /\ IsScheduled(y, t, z')
  <2>1. PICK y : Queues(z, t, a, y) /\ IsScheduled(y, t, z')
    BY <1>4
  <2>2. z'.pending = z.pending /\ z'.actions = y.actions
    BY <2>1 DEF Queues, IsScheduled
  <2>3. PendStep
    BY <2>2 DEF PendStep, sig_pendingset
  <2>4. \A u \in Task : z.actions[u] # <<>> => y.actions[u] # <<>>
    BY <1>1, <2>1, QueuesGrow
  <2>5. \A u \in Client : z.actions[u] # <<>> => z'.actions[u] # <<>>
    BY <1>1, <2>2, <2>4
  <2> QED  BY <1>1, <1>2, <2>3, <2>5, InterruptClear
<1>5. CASE IsWoken(z, t, z')
  <2>1. PendStep /\ z'.actions = z.actions
    BY <1>5 DEF IsWoken, SameSignals, PendStep, sig_pendingset
  <2> QED  BY <1>1, <1>2, <2>1, InterruptClear
<1>6. CASE /\ a.sig \in sig_pendingset(z, t)
           /\ \E m : IsOverwritten(z.pending[t], FirstPending(z, t, a.sig), a, m) /\ Pends(z, t, m, z')
  <2>1. PendingIn(z, t, {}, z') /\ z'.actions = z.actions
    BY <1>1, <1>6, OverwrittenPending
  <2>2. PendStep
    BY <1>1, <2>1, PendingStep
  <2> QED  BY <1>1, <1>2, <2>1, <2>2, InterruptClear
<1>7. CASE /\ Masked(z, t, a.sig) /\ ~WaitsFor(z, t, a.sig) /\ Pends(z, t, Append(z.pending[t], a), z')
  <2>1. PICK X : X = {a.sig}
    OBVIOUS
  <2>2. PendingIn(z, t, X, z') /\ z'.actions = z.actions
    BY <1>1, <1>7, <2>1, AddedPending
  <2>3. \A v \in X : v \in z.mask[t] /\ ~WaitsFor(z, t, v)
    BY <1>7, <2>1 DEF Masked
  <2>4. PendStep
    BY <1>1, <2>2, <2>3, PendingStep
  <2> QED  BY <1>1, <1>2, <2>2, <2>4, InterruptClear
<1> QED  BY <1>3, <1>4, <1>5, <1>6, <1>7 DEF IsrCases

\* sig_tcbdispatch keeps it, when the frames b of its caller see to all but the signal it sends.
LEMMA DispatchClear ==
  ASSUME Base, Clear, ~corrupt, NEW r, NEW y, NEW b, Dispatching(r, y, b), NEW t \in Client, NEW a \in Action,
         Dispatch(y, t, a, b), own' = own, corrupt' = corrupt,
         \A u \in Task : sig_pendingset(y, u) \subseteq sig_pendingset(z, u), y.actions = z.actions, AddStep(r, b),
         t # r \/ a.sig \in z.mask[r] \/ a.sig \notin Handled => SeenTo(b, sig_pendingset(y, r), z.mask[r], z.actions[r], r)
  PROVE  Clear'
<1>1. /\ r = Self /\ r \in Client /\ r \in Task /\ t \in Task /\ b \in Seq(Frame) /\ y \in SigState /\ z.mask = y.mask
      /\ stack \in [Task -> Seq(Frame)] /\ \A u \in Client : u \in Task
  BY DEF Dispatching, Client, InPlace, Base, Typed
<1>2. Going(r, stack'[r], z.mask[r], own[r]) /\ DispatchCases(r, y, t, a, b)
  BY DispatchGoes, DispatchDoes
<1>3. ASSUME \A u \in Task : sig_pendingset(z', u) \subseteq sig_pendingset(y, u),
             \A u \in Task : z.actions[u] # <<>> => z'.actions[u] # <<>>,
             AddStep(r, stack'[r]), SeenTo(stack'[r], sig_pendingset(z', r), z.mask[r], z'.actions[r], r)
      PROVE  Clear'
  <2>1. PendStep
    BY <1>1, <1>3 DEF PendStep
  <2>2. QueueStep(r)
    BY <1>1, <1>3 DEF QueueStep
  <2> QED  BY <1>2, <1>3, <2>1, <2>2, ClearGoing
<1>4. PICK m, A, P, Q, B : /\ m = z.mask[r] /\ A = z.actions[r] /\ P = sig_pendingset(y, r)
                           /\ Q = sig_pendingset(z', r) /\ B = z'.actions[r]
  OBVIOUS
<1>5. ASSUME stack' = [stack EXCEPT ![r] = b], t # r \/ a.sig \in m,
             \A u \in Task : sig_pendingset(z', u) \subseteq sig_pendingset(y, u), z'.actions = z.actions
      PROVE  Clear'
  <2>1. stack'[r] = b
    BY <1>1, <1>5
  <2>2. SeenTo(b, P, m, A, r) /\ Q \subseteq P \union m /\ A = B
    BY <1>1, <1>4, <1>5
  <2>3. SeenTo(b, Q, m, B, r)
    BY <2>2, SeenGrow
  <2> QED  BY <1>3, <1>4, <1>5, <2>1, <2>3
<1>6. CASE /\ ~Masked(y, t, a.sig) /\ Queues(y, t, a, z')
           /\ stack' = [stack EXCEPT ![r] = Cons([op |-> "schedule", to |-> t, act |-> a], b)]
  <2>1. PICK f \in Frame : f = [op |-> "schedule", to |-> t, act |-> a]
    BY FrameMade
  <2>2. stack'[r] = Cons(f, b) /\ f.op = "schedule" /\ f.to = t
    BY <1>1, <1>6, <2>1
  <2>3. AddStep(r, Cons(f, b))
    BY <1>1, <2>2, AddCons
  <2>4. z'.pending = y.pending
    BY <1>6 DEF Queues
  <2>5. \A u : sig_pendingset(z', u) = sig_pendingset(y, u)
    BY <2>4 DEF sig_pendingset
  <2>6. \A u \in Task : z.actions[u] # <<>> => z'.actions[u] # <<>>
    BY <1>1, <1>6, QueuesGrow
  <2>7. SeenTo(Cons(f, b), Q, m, B, r)
    <3>1. CASE t = r /\ a.sig \in Handled
      <4>1. B # <<>>
        BY <1>1, <1>4, <1>6, <3>1, QueuesGrow
      <4>2. f \in Frames(Cons(f, b)) /\ AheadFrame(f, B, r)
        BY <1>1, <2>2, <3>1, <4>1, FramesCons DEF AheadFrame
      <4> QED  BY <4>2 DEF SeenTo, AheadIn
    <3>2. CASE t # r \/ a.sig \notin Handled
      <4>1. SeenTo(b, P, m, A, r) /\ Q \subseteq P \union m /\ (A # <<>> => B # <<>>)
        BY <1>1, <1>4, <2>5, <2>6, <3>2
      <4>2. SeenTo(b, Q, m, B, r)
        BY <4>1, SeenGrow
      <4> QED  BY <1>1, <4>2, SeenCons
    <3> QED  BY <3>1, <3>2
  <2> QED  BY <1>3, <1>4, <2>2, <2>3, <2>5, <2>6, <2>7
<1>7. CASE Masked(y, t, a.sig) /\ IsWoken(y, t, z') /\ stack' = [stack EXCEPT ![r] = b]
  <2>1. z'.pending = y.pending /\ z'.actions = z.actions
    BY <1>7 DEF IsWoken, SameSignals
  <2>2. \A u \in Task : sig_pendingset(z', u) \subseteq sig_pendingset(y, u)
    BY <2>1 DEF sig_pendingset
  <2> QED  BY <1>1, <1>4, <1>5, <1>7, <2>1, <2>2 DEF Masked
<1>8. CASE /\ Masked(y, t, a.sig) /\ a.sig \in sig_pendingset(y, t)
           /\ \E l : IsOverwritten(y.pending[t], FirstPending(y, t, a.sig), a, l) /\ Pends(y, t, l, z')
           /\ stack' = [stack EXCEPT ![r] = b]
  <2>1. PendingIn(y, t, {}, z') /\ z'.actions = z.actions
    <3>1. PICK l, e : IsOverwritten(y.pending[t], e, a, l) /\ Pends(y, t, l, z')
      BY <1>8
    <3>2. PICK v : v = z'
      OBVIOUS
    <3>3. IsOverwritten(y.pending[t], e, a, l) /\ Pends(y, t, l, v) /\ a.sig \in sig_pendingset(y, t)
      BY <1>8, <3>1, <3>2
    <3>4. y \in SigState /\ t \in Task
      BY <1>1
    <3>5. PendingIn(y, t, {}, v)
      BY ONLY <3>3, <3>4, OverwrittenPending
    <3> QED  BY <3>1, <3>2, <3>5 DEF Pends
  <2>2. \A u \in Task : sig_pendingset(z', u) \subseteq sig_pendingset(y, u)
    BY <2>1, PendingLess
  <2> QED  BY <1>1, <1>4, <1>5, <1>8, <2>1, <2>2 DEF Masked
<1>9. CASE /\ Masked(y, t, a.sig) /\ ~WaitsFor(y, t, a.sig) /\ z' = y
           /\ stack' = [stack EXCEPT ![r] = Cons([op |-> "addpending", to |-> t, act |-> a], b)]
  <2>1. PICK f \in Frame : f = [op |-> "addpending", to |-> t, act |-> a]
    BY FrameMade
  <2>2. stack'[r] = Cons(f, b) /\ f.op = "addpending" /\ f.to = t /\ f.act = a
    BY <1>1, <1>9, <2>1
  <2>3. a.sig \in z.mask[t] /\ ~WaitsFor(z, t, a.sig)
    <3>1. a.sig \in z.mask[t]
      BY <1>1, <1>9 DEF Masked
    <3>2. Asleep(y.k) = Asleep(z.k) /\ y.waitmask = z.waitmask
      BY DEF Dispatching
    <3> QED  BY <1>1, <1>9, <3>1, <3>2, WaitsForMeans
  <2>4. AddStep(r, Cons(f, b))
    <3>1. Frames(Cons(f, b)) = {f} \union Frames(b)
      BY <1>1, FramesCons
    <3> QED  BY <2>2, <2>3, <3>1 DEF AddStep
  <2>5. SeenTo(b, P, m, A, r) /\ Q = P /\ B = A
    BY <1>1, <1>4, <1>9, <2>3
  <2>6. SeenTo(Cons(f, b), Q, m, B, r)
    BY <1>1, <2>5, SeenCons
  <2> QED  BY <1>3, <1>4, <1>9, <2>2, <2>4, <2>6
<1> QED  BY <1>2, <1>6, <1>7, <1>8, <1>9 DEF DispatchCases

\* Kill keeps it.
LEMMA KillClear ==
  ASSUME Base, sent \in 0..MaxSends, Clear, NEW t \in Client, NEW x \in Sig, Kill(t, x)
  PROVE  Clear'
<1>1. ~corrupt /\ Self \in Client /\ own' = own /\ corrupt' = corrupt /\ InUser
  BY DEF Kill, InUser
<1>2. PICK b : /\ b = Cons([op |-> "unlock"], stack[Self]) /\ b = <<[op |-> "unlock"]>> \o stack[Self]
               /\ Dispatching(Self, Locked(z), b) /\ IsLocked(z, Self, Locked(z)) /\ stack[Self] \in Seq(Frame)
  BY <1>1, KillStarts
<1>3. PICK a, y, r, s : a = [id |-> sent + 1, sig |-> x] /\ y = Locked(z) /\ r = Self /\ s = stack[Self]
  OBVIOUS
<1>4. a \in Action
  BY <1>3, SignalAssumption DEF Action, SendId, Kill
<1>5. PICK g \in Frame : g = [op |-> "unlock"]
  BY FrameMade
<1>6. Dispatch(y, t, a, b) /\ Dispatching(r, y, b) /\ s \in Seq(Frame) /\ b = Cons(g, s) /\ g.op = "unlock" /\ r \in Client /\ s = stack[r]
  BY <1>1, <1>2, <1>3, <1>5 DEF Kill
<1>7. y.pending = z.pending /\ y.actions = z.actions
  BY <1>2, <1>3 DEF IsLocked, SameSignals
<1>8. \A u : sig_pendingset(y, u) = sig_pendingset(z, u)
  BY <1>7 DEF sig_pendingset
<1>9. AddStep(r, b)
  BY <1>6, AddSelf, AddCons
<1>10. SeenTo(s, sig_pendingset(z, r), z.mask[r], z.actions[r], r)
  BY <1>1, <1>3, <1>6, RunnerSees
<1>11. SeenTo(b, sig_pendingset(z, r), z.mask[r], z.actions[r], r)
  BY <1>6, <1>10, SeenCons
<1>12. SeenTo(b, sig_pendingset(y, r), z.mask[r], z.actions[r], r)
  BY <1>8, <1>11
<1>13. \A u \in Task : sig_pendingset(y, u) \subseteq sig_pendingset(z, u)
  BY <1>8
<1> QED  BY <1>1, <1>4, <1>6, <1>7, <1>9, <1>12, <1>13, DispatchClear

\* UnmaskTakes keeps it.
LEMMA UnmaskTakesClear ==
  ASSUME Base, Clear, UnmaskTakes
  PROVE  Clear'
<1>1. PICK c : OnTop(Self, Top, c) /\ c = Tail(stack[Self])
  BY AtTop DEF UnmaskTakes, At
<1>2. PICK b, x, y, a :
           /\ b = Cons(Rest(Top, x), Tail(stack[Self])) /\ x = sig_lowest(Top.set) /\ x \in sig_pendingset(z, Self)
           /\ y = sig_removependingsignal(z, Self, x) /\ a = FirstPending(z, Self, x) /\ a \in Action
           /\ Dispatching(Self, y, b) /\ Dispatch(y, Self, a, b) /\ own' = own /\ corrupt' = corrupt
  BY UnmaskStarts
<1>3. PICK r, f : r = Self /\ f = Top
  OBVIOUS
<1>4. /\ f.op = "unmask" /\ ~corrupt /\ OnTop(r, f, c) /\ f \in Frame /\ c \in Seq(Frame) /\ r \in Client /\ r \in Task
      /\ z \in SigState
  BY <1>1, <1>3 DEF UnmaskTakes, At, OnTop, Base, Typed
<1>5. PICK g : g = Rest(f, x)
  OBVIOUS
<1>6. g \in Frame /\ g.op = "unmask" /\ g.set = f.set \ {x}
  <2>1. PICK h : h = [f EXCEPT !.set = @ \ {x}]
    OBVIOUS
  <2> QED  BY <1>4, <1>5, <2>1, RestMade
<1>7. b = Cons(g, c) /\ Dispatching(r, y, b) /\ Dispatch(y, r, a, b) /\ a.sig = x
  BY <1>1, <1>2, <1>3, <1>4, <1>5, FirstFound
<1>8. PendingIn(z, r, {}, y) /\ y.actions = z.actions
  BY <1>2, <1>3, <1>4, RemovedPending
<1>9. \A u \in Task : sig_pendingset(y, u) \subseteq sig_pendingset(z, u)
  BY <1>8, PendingLess
<1>10. AddStep(r, b)
  BY <1>4, <1>6, <1>7, AddOld, AddCons
<1>11. PICK P, m, A, Q : P = sig_pendingset(z, r) /\ m = z.mask[r] /\ A = z.actions[r] /\ Q = sig_pendingset(y, r)
  OBVIOUS
<1>12. SeenTo(Cons(f, c), P, m, A, r) /\ Q \subseteq P \union m
  BY <1>3, <1>4, <1>9, <1>11, RunnerSees DEF OnTop
<1>13. ASSUME x \in m \/ x \notin Handled PROVE SeenTo(b, Q, m, A, r)
  <2>1. SeenTo(Cons(g, c), Q, m, A, r)
    BY <1>4, <1>6, <1>12, <1>13, SeenRest
  <2> QED  BY <1>7, <2>1
<1>14. r # r \/ a.sig \in z.mask[r] \/ a.sig \notin Handled => SeenTo(b, sig_pendingset(y, r), z.mask[r], z.actions[r], r)
  BY <1>7, <1>11, <1>13
<1> QED  BY <1>2, <1>4, <1>7, <1>8, <1>9, <1>10, <1>14, DispatchClear

\* Every step keeps it.
LEMMA NextClear ==
  ASSUME Ground, Clear, [Next]_vars
  PROVE  Clear'
<1>1. Base /\ HandledOnly /\ sent \in 0..MaxSends
  BY DEF Ground
<1>2. ASSUME AppCall PROVE Clear'
  <2>1. \A S \in SetArg : S \in SUBSET Sig
    BY SignalAssumption
  <2> QED  BY <1>1, <1>2, <2>1, KillClear, SigProcMaskClear, SuspendClear, TimedClear DEF AppCall
<1>3. ASSUME Step PROVE Clear'
  <2>1. CASE SigAddPending
    BY <1>1, <2>1, SigAddPendingClear
  <2>2. CASE Schedule
    BY <1>1, <2>2, ScheduleOwnClear, ScheduleOtherClear DEF Schedule, ScheduleOwn, ScheduleOther
  <2>3. CASE Return \/ TimedWaitResumed
    BY <1>1, <2>3, ReturnsClear
  <2>4. CASE up_sigdeliver
    BY <1>1, <2>4, SigdeliverClear
  <2>5. CASE DeliverNext
    <3>1. DeliverEnds \/ DeliverTakes \/ DeliverFreed
      BY <2>5 DEF DeliverEnds, DeliverTakes, DeliverFreed, DeliverNext
    <3> QED  BY <1>1, <3>1, ReturnsClear, DeliverTakesClear, DeliverFreedClear
  <2>6. CASE HandlerReturn \/ SuspendResumed
    BY <1>1, <2>6, RestoreClear
  <2>7. CASE DeliverFree
    BY <1>1, <2>7, DeliverFreeClear
  <2>8. CASE UnmaskNext
    <3>1. UnmaskEnds \/ UnmaskSkips \/ UnmaskTakes
      BY <2>8 DEF UnmaskEnds, UnmaskSkips, UnmaskTakes, UnmaskNext
    <3> QED  BY <1>1, <3>1, ReturnsClear, UnmaskSkipsClear, UnmaskTakesClear
  <2> QED  BY <1>3, <2>1, <2>2, <2>3, <2>4, <2>5, <2>6, <2>7, <2>8 DEF Step
<1>4. ASSUME Interrupt PROVE Clear'
  BY <1>1, <1>4, IsrKillClear, SigTimeoutClear DEF Interrupt
<1>5. CASE UNCHANGED vars
  BY <1>5 DEF vars, Clear, AddsMasked, AllSeenTo, SleepersClear, Missed, Self, SeenTo, CoveredBy, AheadIn, InUnmask
<1> QED  BY <1>2, <1>3, <1>4, <1>5 DEF Next

\* The pending signals are seen to in every state.
LEMMA ClearAlways == Spec => []Clear
<1>1. Init => Clear
  <2> SUFFICES ASSUME Init PROVE Clear
    OBVIOUS
  <2>1. Ground
    BY InitGround
  <2>2. <<>> \in Seq(Frame) /\ \A t \in Task : stack[t] = <<>> /\ z.pending[t] = <<>>
    BY DEF Init
  <2>3. \A t \in Task : Frames(stack[t]) = {} /\ sig_pendingset(z, t) = {}
    <3>1. \A t \in Task : Frames(stack[t]) = {}
      BY <2>2, FramesEmpty
    <3>2. Len(<<>>) = 0 /\ \A i \in 1..0 : FALSE
      OBVIOUS
    <3>3. \A t \in Task : sig_pendingset(z, t) = {}
      BY <2>2, <3>2 DEF sig_pendingset
    <3> QED  BY <3>1, <3>3
  <2>4. AddsMasked
    BY <2>1, <2>3, Runner DEF Ground, AddsMasked
  <2>5. AllSeenTo
    BY <2>3 DEF AllSeenTo, SeenTo, CoveredBy, Client
  <2>6. SleepersClear
    BY <2>3 DEF SleepersClear, Missed, Asleep
  <2> QED  BY <2>4, <2>5, <2>6 DEF Clear
<1>2. Ground /\ Clear /\ [Next]_vars => Clear'
  BY NextClear
<1> QED  BY <1>1, <1>2, GroundAlways, PTL DEF Spec

\* No signal is forgotten among the pending ones: while a task waits, none is pending that
\* it waits for, and while it waits or runs its program outside all calls, none that it does
\* not mask and has a handler for, for any tasks, masks and handlers and however sends,
\* handlers, time-outs and interrupts fall.
THEOREM NoSignalEverMissed == Spec => []NoSignalMissed
<1>1. Clear => NoSignalMissed
  <2> SUFFICES ASSUME Clear, ~corrupt, NEW t \in Client
               PROVE  /\ z.k.state[t] = "WAIT_SIG" => sig_pendingset(z, t) \intersect z.waitmask[t] = {}
                      /\ z.k.state[t] = "WAIT_SIG" \/ stack[t] = <<>> =>
                           sig_pendingset(z, t) \intersect Handled \subseteq z.mask[t]
    BY DEF NoSignalMissed
  <2>1. t \in Task
    BY DEF Client
  <2>2. CASE z.k.state[t] = "WAIT_SIG"
    <3>1. Missed(t) = {}
      BY <2>1, <2>2 DEF Clear, SleepersClear, Asleep
    <3> QED  BY <3>1 DEF Missed
  <2>3. CASE z.k.state[t] # "WAIT_SIG"
    BY <2>3, AtRestClear
  <2> QED  BY <2>2, <2>3
<1> QED  BY <1>1, ClearAlways, PTL

-----------------------------------------------------------------------------
\* Every queued action is on its way.

\* The sends in a list, each at most once, and those that the frames of s add to the pending
\* signals of t.
IdsOf(l) == {l[i].id : i \in 1..Len(l)}
OnceIn(l) == \A i, j \in 1..Len(l) : l[i].id = l[j].id => i = j
AddIds(s, t) == {f.act.id : f \in {g \in Frames(s) : AddTo(g, t)}}
OnceAdds(s, t) == \A i, j \in 1..Len(s) : AddTo(s[i], t) /\ AddTo(s[j], t) /\ s[i].act.id = s[j].act.id => i = j

\* A send is in one place only: in the queue A of t, among its pending signals P, or in a
\* call that adds it to these; and it is one of the first n.
Distinct(A, P, s, t, n) ==
  /\ OnceIn(A) /\ OnceIn(P) /\ OnceAdds(s, t)
  /\ IdsOf(A) \intersect IdsOf(P) = {} /\ IdsOf(A) \intersect AddIds(s, t) = {} /\ IdsOf(P) \intersect AddIds(s, t) = {}
  /\ \A x \in IdsOf(A) \union IdsOf(P) \union AddIds(s, t) : x \in Nat /\ x <= n

Uniq == \A t \in Client : Distinct(z.actions[t], z.pending[t], stack[Self], t, sent)

\* Append
LEMMA OnceAppend ==
  ASSUME NEW l \in Seq(Action), NEW a \in Action, OnceIn(l), a.id \notin IdsOf(l), NEW m, m = Append(l, a)
  PROVE  OnceIn(m) /\ IdsOf(m) = IdsOf(l) \union {a.id}
<1>1. Len(l) \in Nat /\ Len(m) = Len(l) + 1 /\ m[Len(l) + 1] = a /\ \A i \in 1..Len(l) : m[i] = l[i]
  BY AppendProperties, LenProperties
<1>2. \A i \in 1..Len(m) : i = Len(l) + 1 \/ i \in 1..Len(l)
  BY <1>1
<1>3. \A i \in 1..Len(l) : i \in 1..Len(m)
  BY <1>1
<1>4. Len(l) + 1 \in 1..Len(m)
  BY <1>1
<1>5. OnceIn(m)
  <2> SUFFICES ASSUME NEW i \in 1..Len(m), NEW j \in 1..Len(m), m[i].id = m[j].id PROVE i = j
    BY DEF OnceIn
  <2>1. CASE i \in 1..Len(l) /\ j \in 1..Len(l)
    BY <1>1, <2>1 DEF OnceIn
  <2>2. CASE i = Len(l) + 1 /\ j \in 1..Len(l)
    BY <1>1, <2>2 DEF IdsOf
  <2>3. CASE j = Len(l) + 1 /\ i \in 1..Len(l)
    BY <1>1, <2>3 DEF IdsOf
  <2> QED  BY <1>2, <2>1, <2>2, <2>3
<1>6. ASSUME NEW x \in IdsOf(m) PROVE x \in IdsOf(l) \union {a.id}
  BY <1>1, <1>2 DEF IdsOf
<1>7. ASSUME NEW x \in IdsOf(l) \union {a.id} PROVE x \in IdsOf(m)
  <2>1. CASE x = a.id
    BY <1>1, <1>4, <2>1 DEF IdsOf
  <2>2. CASE x \in IdsOf(l)
    BY <1>1, <1>3, <2>2 DEF IdsOf
  <2> QED  BY <2>1, <2>2
<1> QED  BY <1>5, <1>6, <1>7

\* dq_rem
LEMMA OnceCut ==
  ASSUME NEW l \in Seq(Action), NEW i, NEW m, OnceIn(l), IsCut(l, i, m)
  PROVE  OnceIn(m) /\ IdsOf(m) \subseteq IdsOf(l) \ {l[i].id}
<1>1. Len(l) \in Nat /\ i \in 1..Len(l) /\ Len(m) = Len(l) - 1
  BY LenProperties DEF IsCut
<1>2. PICK at : at = [n \in 1..Len(m) |-> IF n < i THEN n ELSE n + 1]
  OBVIOUS
<1>3. \A n \in 1..Len(m) : at[n] \in 1..Len(l) /\ at[n] # i
  BY <1>1, <1>2
<1>4. \A n \in 1..Len(m) : m[n] = l[at[n]]
  BY <1>1, <1>2 DEF IsCut
<1>5. \A n, p \in 1..Len(m) : at[n] = at[p] => n = p
  BY <1>1, <1>2
<1>6. OnceIn(m)
  <2> SUFFICES ASSUME NEW n \in 1..Len(m), NEW p \in 1..Len(m), m[n].id = m[p].id PROVE n = p
    BY DEF OnceIn
  <2>1. l[at[n]].id = l[at[p]].id /\ at[n] \in 1..Len(l) /\ at[p] \in 1..Len(l)
    BY <1>3, <1>4
  <2>2. at[n] = at[p]
    BY <2>1 DEF OnceIn
  <2> QED  BY <1>5, <2>2
<1>7. \A n \in 1..Len(m) : m[n].id \in IdsOf(l) /\ m[n].id # l[i].id
  BY <1>1, <1>3, <1>4 DEF OnceIn, IdsOf
<1> QED  BY <1>6, <1>7 DEF IdsOf

\* Overwrite
LEMMA OnceOverwritten ==
  ASSUME NEW l \in Seq(Action), NEW e, NEW a, NEW m, OnceIn(l), IsOverwritten(l, e, a, m), a.id \notin IdsOf(l)
  PROVE  OnceIn(m) /\ IdsOf(m) \subseteq IdsOf(l) \union {a.id}
<1>1. Len(m) = Len(l) /\ \A i \in 1..Len(l) : m[i] = IF l[i] = e THEN a ELSE l[i]
  BY DEF IsOverwritten
<1>2. OnceIn(m)
  <2> SUFFICES ASSUME NEW i \in 1..Len(l), NEW j \in 1..Len(l), m[i].id = m[j].id PROVE i = j
    BY <1>1 DEF OnceIn
  <2>1. l[i].id \in IdsOf(l) /\ l[j].id \in IdsOf(l)
    BY DEF IdsOf
  <2>2. CASE l[i] = e /\ l[j] = e
    BY <2>2 DEF OnceIn
  <2>3. CASE l[i] # e /\ l[j] # e
    BY <1>1, <2>3 DEF OnceIn
  <2>4. CASE l[i] = e /\ l[j] # e
    BY <1>1, <2>1, <2>4
  <2>5. CASE l[i] # e /\ l[j] = e
    BY <1>1, <2>1, <2>5
  <2> QED  BY <2>2, <2>3, <2>4, <2>5
<1>3. \A i \in 1..Len(m) : m[i].id \in IdsOf(l) \union {a.id}
  BY <1>1 DEF IdsOf
<1> QED  BY <1>2, <1>3 DEF IdsOf

\* The sends in the frames, frame by frame.
LEMMA AddsCons ==
  ASSUME NEW f \in Frame, NEW b \in Seq(Frame), NEW t, NEW s, s = Cons(f, b)
  PROVE  /\ AddIds(s, t) = IF AddTo(f, t) THEN AddIds(b, t) \union {f.act.id} ELSE AddIds(b, t)
         /\ OnceAdds(s, t) <=> OnceAdds(b, t) /\ (AddTo(f, t) => f.act.id \notin AddIds(b, t))
<1>1. Frames(s) = {f} \union Frames(b)
  BY FramesCons
<1>2. AddIds(s, t) = IF AddTo(f, t) THEN AddIds(b, t) \union {f.act.id} ELSE AddIds(b, t)
  BY <1>1 DEF AddIds
<1>3. /\ Len(b) \in Nat /\ Len(s) = Len(b) + 1 /\ s[1] = f /\ \A i \in 1..Len(b) : s[i + 1] = b[i]
  <2>1. /\ Len(b) \in Nat /\ Len(Cons(f, b)) = Len(b) + 1 /\ Cons(f, b)[1] = f
        /\ \A i \in 1..Len(b) : Cons(f, b)[i + 1] = b[i]
    BY ONLY f \in Frame, b \in Seq(Frame), ConsAt
  <2> QED  BY <2>1
<1>4. \A i \in 1..Len(s) : i = 1 \/ (i - 1 \in 1..Len(b) /\ s[i] = b[i - 1])
  <2> SUFFICES ASSUME NEW i \in 1..Len(s), i # 1 PROVE i - 1 \in 1..Len(b) /\ s[i] = b[i - 1]
    OBVIOUS
  <2>1. i - 1 \in 1..Len(b) /\ (i - 1) + 1 = i
    BY <1>3
  <2> QED  BY <1>3, <2>1
<1>5. \A i \in 1..Len(b) : i + 1 \in 1..Len(s) /\ i + 1 # 1
  BY <1>3
<1>6. ASSUME OnceAdds(s, t) PROVE OnceAdds(b, t) /\ (AddTo(f, t) => f.act.id \notin AddIds(b, t))
  <2>1. ASSUME NEW i \in 1..Len(b), NEW j \in 1..Len(b), AddTo(b[i], t), AddTo(b[j], t), b[i].act.id = b[j].act.id
        PROVE  i = j
    <3>1. i + 1 = j + 1
      BY <1>3, <1>5, <1>6, <2>1 DEF OnceAdds
    <3> QED  BY <3>1
  <2>2. ASSUME AddTo(f, t), f.act.id \in AddIds(b, t) PROVE FALSE
    <3>1. PICK i \in 1..Len(b) : AddTo(b[i], t) /\ b[i].act.id = f.act.id
      BY <2>2 DEF AddIds, Frames
    <3>2. 1 \in 1..Len(s)
      BY <1>3
    <3>3. i + 1 = 1
      BY <1>3, <1>5, <1>6, <2>2, <3>1, <3>2 DEF OnceAdds
    <3> QED  BY <1>5, <3>3
  <2> QED  BY <2>1, <2>2 DEF OnceAdds
<1>7. ASSUME OnceAdds(b, t), AddTo(f, t) => f.act.id \notin AddIds(b, t) PROVE OnceAdds(s, t)
  <2> SUFFICES ASSUME NEW i \in 1..Len(s), NEW j \in 1..Len(s), AddTo(s[i], t), AddTo(s[j], t), s[i].act.id = s[j].act.id
               PROVE  i = j
    BY DEF OnceAdds
  <2>1. \A k \in 1..Len(b) : AddTo(b[k], t) => b[k].act.id \in AddIds(b, t)
    BY DEF AddIds, Frames
  <2>2. CASE i = 1 /\ j # 1
    BY <1>3, <1>4, <1>7, <2>1, <2>2
  <2>3. CASE i # 1 /\ j = 1
    BY <1>3, <1>4, <1>7, <2>1, <2>3
  <2>4. CASE i # 1 /\ j # 1
    <3>1. i - 1 = j - 1
      BY <1>4, <1>7, <2>4 DEF OnceAdds
    <3> QED  BY <3>1
  <2> QED  BY <2>2, <2>3, <2>4
<1> QED  BY <1>2, <1>6, <1>7

\* The send x is in none of these places.
Fresh(x, A, P, s, t) == x \notin IdsOf(A) \union IdsOf(P) \union AddIds(s, t)

\* A frame that adds nothing to the pending signals of t.
LEMMA DistinctPush ==
  ASSUME NEW f \in Frame, NEW b \in Seq(Frame), NEW t, ~AddTo(f, t), NEW A, NEW P, NEW n
  PROVE  Distinct(A, P, Cons(f, b), t, n) <=> Distinct(A, P, b, t, n)
<1>1. PICK s : s = Cons(f, b)
  OBVIOUS
<1>2. AddIds(s, t) = AddIds(b, t) /\ (OnceAdds(s, t) <=> OnceAdds(b, t))
  BY <1>1, AddsCons
<1>3. Distinct(A, P, s, t, n) <=> Distinct(A, P, b, t, n)
  BY <1>2 DEF Distinct
<1> QED  BY <1>1, <1>3

\* A frame less.
LEMMA DistinctPop ==
  ASSUME NEW f \in Frame, NEW b \in Seq(Frame), NEW t, NEW A, NEW P, NEW n, Distinct(A, P, Cons(f, b), t, n)
  PROVE  Distinct(A, P, b, t, n) /\ (AddTo(f, t) => Fresh(f.act.id, A, P, b, t) /\ f.act.id \in Nat /\ f.act.id <= n)
<1>1. PICK s : s = Cons(f, b)
  OBVIOUS
<1>2. Distinct(A, P, s, t, n)
  BY <1>1
<1>3. /\ AddIds(s, t) = IF AddTo(f, t) THEN AddIds(b, t) \union {f.act.id} ELSE AddIds(b, t)
      /\ OnceAdds(s, t) <=> OnceAdds(b, t) /\ (AddTo(f, t) => f.act.id \notin AddIds(b, t))
  BY <1>1, AddsCons
<1> HIDE DEF Cons
<1>4. Distinct(A, P, b, t, n)
  BY <1>2, <1>3 DEF Distinct
<1>5. ASSUME AddTo(f, t) PROVE Fresh(f.act.id, A, P, b, t) /\ f.act.id \in Nat /\ f.act.id <= n
  BY <1>2, <1>3, <1>5 DEF Distinct, Fresh
<1> QED  BY <1>4, <1>5

\* A frame that adds a send that is nowhere else.
LEMMA DistinctAdd ==
  ASSUME NEW f \in Frame, NEW b \in Seq(Frame), NEW t, NEW A, NEW P, NEW n, Distinct(A, P, b, t, n),
         Fresh(f.act.id, A, P, b, t), f.act.id \in Nat, f.act.id <= n
  PROVE  Distinct(A, P, Cons(f, b), t, n)
<1>1. PICK s : s = Cons(f, b)
  OBVIOUS
<1>2. /\ AddIds(s, t) = IF AddTo(f, t) THEN AddIds(b, t) \union {f.act.id} ELSE AddIds(b, t)
      /\ OnceAdds(s, t) <=> OnceAdds(b, t) /\ (AddTo(f, t) => f.act.id \notin AddIds(b, t))
  BY <1>1, AddsCons
<1>3. AddIds(s, t) \subseteq AddIds(b, t) \union {f.act.id} /\ OnceAdds(s, t)
  BY <1>2 DEF Distinct, Fresh
<1>4. Distinct(A, P, s, t, n)
  BY <1>3 DEF Distinct, Fresh
<1> QED  BY <1>1, <1>4

\* The lists lose some, and the send x that is nowhere else comes to one of them.
LEMMA DistinctLists ==
  ASSUME NEW A, NEW P, NEW s, NEW t, NEW n, Distinct(A, P, s, t, n), NEW B, NEW Q, OnceIn(B), OnceIn(Q), NEW x,
         \/ IdsOf(B) \subseteq IdsOf(A) /\ IdsOf(Q) \subseteq IdsOf(P) \union {x}
         \/ IdsOf(B) \subseteq IdsOf(A) \union {x} /\ IdsOf(Q) \subseteq IdsOf(P),
         Fresh(x, A, P, s, t), x \in Nat, x <= n
  PROVE  Distinct(B, Q, s, t, n)
BY DEF Distinct, Fresh

\* The lists lose some.
LEMMA DistinctLess ==
  ASSUME NEW A, NEW P, NEW s, NEW t, NEW n, Distinct(A, P, s, t, n), NEW B, NEW Q, OnceIn(B), OnceIn(Q),
         IdsOf(B) \subseteq IdsOf(A), IdsOf(Q) \subseteq IdsOf(P)
  PROVE  Distinct(B, Q, s, t, n)
BY DEF Distinct

\* More sends; the next one is nowhere.
LEMMA DistinctNext ==
  ASSUME NEW A, NEW P, NEW s, NEW t, NEW n \in Nat, Distinct(A, P, s, t, n), NEW x, x = n + 1
  PROVE  Distinct(A, P, s, t, x) /\ Fresh(x, A, P, s, t) /\ x \in Nat /\ x <= x
<1>1. \A y \in IdsOf(A) \union IdsOf(P) \union AddIds(s, t) : y \in Nat /\ y <= n
  BY DEF Distinct
<1>2. \A y \in IdsOf(A) \union IdsOf(P) \union AddIds(s, t) : y \in Nat /\ y <= x /\ y # x
  BY <1>1
<1> QED  BY <1>2 DEF Distinct, Fresh

\* Without calls, what is in the lists counts.
LEMMA DistinctQuiet ==
  ASSUME NEW A, NEW P, NEW s, NEW t, NEW n, Distinct(A, P, s, t, n), NEW q, \A f \in Frames(q) : ~AddTo(f, t)
  PROVE  Distinct(A, P, q, t, n)
<1>1. AddIds(q, t) = {}
  BY DEF AddIds
<1>2. OnceAdds(q, t)
  BY DEF OnceAdds, Frames
<1> QED  BY <1>1, <1>2 DEF Distinct

\* A step that moves the running task and keeps the sends apart.
LEMMA UniqMoved ==
  ASSUME Base, NEW r, NEW s, NEW m, NEW o, Moved(r, s, m, o),
         \A t \in Client : Distinct(z'.actions[t], z'.pending[t], s, t, sent')
  PROVE  Uniq'
<1>1. r = Self /\ r \in Task /\ stack' = [stack EXCEPT ![r] = s] /\ stack \in [Task -> Seq(Frame)]
  BY DEF Moved, Base, Typed
<1>2. PICK u : u = Self'
  OBVIOUS
<1>3. ASSUME NEW t \in Client PROVE Distinct(z'.actions[t], z'.pending[t], stack'[u], t, sent')
  <2>1. CASE u = r
    BY <1>1, <2>1
  <2>2. CASE u # r
    <3>1. u \in Task
      BY <1>2, ReadyHead DEF Moved, Self, Sound
    <3>2. stack'[u] = stack[u] /\ u # Self
      BY <1>1, <2>2, <3>1
    <3>3. \A f \in Frames(stack[u]) : WaitFrame(f)
      BY <3>1, <3>2, QuietFrames
    <3>4. \A f \in Frames(stack[u]) : ~AddTo(f, t)
      BY <3>3 DEF WaitFrame, AddTo
    <3>5. PICK A, P, n, q : A = z'.actions[t] /\ P = z'.pending[t] /\ n = sent' /\ q = stack[u]
      OBVIOUS
    <3>6. Distinct(A, P, s, t, n) /\ \A f \in Frames(q) : ~AddTo(f, t)
      BY <3>4, <3>5
    <3>7. Distinct(A, P, q, t, n)
      BY ONLY <3>6, DistinctQuiet
    <3> QED  BY <3>2, <3>5, <3>7
  <2> QED  BY <2>1, <2>2
<1> QED  BY <1>2, <1>3 DEF Uniq

\* The stack s of r adds only what the stack of r now adds.
Refits(r, s) == \A t \in Client : \A A, P, n : Distinct(A, P, stack[r], t, n) => Distinct(A, P, s, t, n)

\* The frames of the stack itself, with or without the one on top.
LEMMA RefitOld ==
  ASSUME NEW r, NEW f, NEW b, OnTop(r, f, b)
  PROVE  Refits(r, b)
<1>1. f \in Frame /\ b \in Seq(Frame) /\ stack[r] = Cons(f, b)
  BY DEF OnTop
<1> SUFFICES ASSUME NEW t \in Client, NEW A, NEW P, NEW n, Distinct(A, P, Cons(f, b), t, n) PROVE Distinct(A, P, b, t, n)
  BY <1>1 DEF Refits
<1> QED  BY <1>1, DistinctPop

\* Every stack is its own.
LEMMA RefitSelf ==
  ASSUME NEW r
  PROVE  Refits(r, stack[r])
BY DEF Refits

\* Frames on top that add nothing.
LEMMA RefitCons ==
  ASSUME NEW r, NEW f \in Frame, NEW b \in Seq(Frame), Refits(r, b), f.op # "addpending"
  PROVE  Refits(r, Cons(f, b))
<1> SUFFICES ASSUME NEW t \in Client, NEW A, NEW P, NEW n, Distinct(A, P, stack[r], t, n) PROVE Distinct(A, P, Cons(f, b), t, n)
  BY DEF Refits
<1>1. Distinct(A, P, b, t, n) /\ ~AddTo(f, t)
  BY DEF Refits, AddTo
<1> QED  BY <1>1, DistinctPush

\* A step that leaves the lists alone and adds nothing.
LEMMA UniqSame ==
  ASSUME Base, Uniq, NEW r, NEW s, NEW m, NEW o, Moved(r, s, m, o), Refits(r, s),
         z'.pending = z.pending, z'.actions = z.actions, sent' = sent
  PROVE  Uniq'
<1>1. \A t \in Client : Distinct(z.actions[t], z.pending[t], stack[r], t, sent)
  BY DEF Uniq, Moved
<1>2. \A t \in Client : Distinct(z.actions[t], z.pending[t], s, t, sent)
  BY <1>1 DEF Refits
<1>3. \A t \in Client : Distinct(z'.actions[t], z'.pending[t], s, t, sent')
  BY <1>2
<1> QED  BY <1>3, UniqMoved

\* Schedule for the caller itself, DeliverFree and UnmaskSkips keep the sends apart: a frame takes the place of another.
LEMMA ReplaceUniq ==
  ASSUME Base, Uniq, ScheduleOwn \/ DeliverFree \/ UnmaskSkips
  PROVE  Uniq'
<1>1. PICK b : OnTop(Self, Top, b) /\ b = Tail(stack[Self])
  BY AtTop DEF ScheduleOwn, DeliverFree, UnmaskSkips, At
<1>2. PICK r, f : r = Self /\ f = Top
  OBVIOUS
<1>3. OnTop(r, f, b) /\ f \in Frame /\ b \in Seq(Frame) /\ r \in Task /\ z \in SigState /\ b = Tail(stack[r])
  BY <1>1, <1>2 DEF OnTop, Base, Typed
<1>4. ASSUME NEW d \in Frame, d.op # "addpending", Going(r, Cons(d, b), z.mask[r], own[r]),
             z'.pending = z.pending, z'.actions = z.actions, sent' = sent
      PROVE  Uniq'
  <2>1. Moved(r, Cons(d, b), z.mask[r], own[r])
    BY <1>4, GoingMoves
  <2>2. Refits(r, Cons(d, b))
    BY <1>3, <1>4, RefitOld, RefitCons
  <2> QED  BY <1>4, <2>1, <2>2, UniqSame
<1>5. CASE ScheduleOwn
  <2>1. PICK d : d = DeliverFrame(z, r, TRUE)
    OBVIOUS
  <2>2. d \in Frame /\ d.op = "deliver"
    BY <1>3, <2>1, DeliverFrameMade
  <2>3. Going(r, Cons(d, b), z.mask[r], own[r]) /\ z'.pending = z.pending /\ z'.actions = z.actions /\ sent' = sent
    BY <1>2, <1>3, <1>5, <2>1, ScheduleOwnGoes DEF IsLocked, SameSignals, ScheduleOwn, Schedule
  <2> QED  BY <1>4, <2>2, <2>3
<1>6. CASE DeliverFree
  <2>1. PICK d : d = [op |-> "deliver", next |-> f.next, irqoff |-> f.irqoff]
    OBVIOUS
  <2>2. f.op = "posted" /\ z' = z /\ sent' = sent
    BY <1>2, <1>6 DEF DeliverFree, At
  <2>3. d \in Frame /\ d.op = "deliver"
    BY <1>3, <2>1, <2>2, FrameKinds, FrameMade
  <2>4. Going(r, Cons(d, b), z.mask[r], own[r])
    BY <1>2, <1>3, <1>6, <2>1, DeliverFreeGoes
  <2> QED  BY <1>4, <2>2, <2>3, <2>4
<1>7. CASE UnmaskSkips
  <2>1. PICK x, d, g : x = sig_lowest(f.set) /\ d = Rest(f, x) /\ g = [f EXCEPT !.set = @ \ {x}]
    OBVIOUS
  <2>2. f.op = "unmask" /\ sent' = sent
    BY <1>2, <1>7 DEF UnmaskSkips, UnmaskNext, At
  <2>3. d \in Frame /\ d.op = "unmask"
    BY <1>3, <2>1, <2>2, RestMade
  <2>4. Going(r, Cons(d, b), z.mask[r], own[r]) /\ z' = z
    BY <1>2, <1>3, <1>7, <2>1, UnmaskSkipsGoes
  <2> QED  BY <1>4, <2>2, <2>3, <2>4
<1> QED  BY <1>5, <1>6, <1>7

\* So do the steps that pop a frame.
LEMMA PopUniq ==
  ASSUME Base, Uniq, ScheduleOther \/ Return \/ UnmaskEnds \/ DeliverEnds \/ TimedWaitResumed
  PROVE  Uniq'
<1>1. PICK b : OnTop(Self, Top, b) /\ b = Tail(stack[Self])
  BY AtTop DEF ScheduleOther, Return, UnmaskEnds, DeliverEnds, TimedWaitResumed, At
<1>2. Going(Self, b, z.mask[Self], own[Self]) /\ z'.pending = z.pending /\ z'.actions = z.actions /\ sent' = sent
  <2>1. CASE Return
    BY <1>1, <2>1, ReturnGoes DEF Return, IsUnlocked, SameSignals
  <2>2. CASE UnmaskEnds
    BY <1>1, <2>2, UnmaskEndsGoes DEF UnmaskEnds, UnmaskNext, IsUnlocked, SameSignals
  <2>3. CASE DeliverEnds
    BY <1>1, <2>3, DeliverEndsGoes DEF DeliverEnds, DeliverNext, IsUnlocked, SameSignals
  <2>4. CASE TimedWaitResumed
    BY <1>1, <2>4, TimedWaitResumedGoes DEF TimedWaitResumed
  <2>5. CASE ScheduleOther
    BY <1>1, <2>5, ScheduleOtherGoes DEF ScheduleOther, Schedule, IsScheduled
  <2> QED  BY <2>1, <2>2, <2>3, <2>4, <2>5
<1> QED  BY <1>1, <1>2, GoingMoves, RefitOld, UniqSame

\* So does up_sigdeliver.
LEMMA SigdeliverUniq ==
  ASSUME Base, Uniq, up_sigdeliver
  PROVE  Uniq'
<1>1. Self \in Client /\ z \in SigState /\ sent' = sent
  BY DEF up_sigdeliver, Base, Typed
<1>2. PICK s : OnStack(Self, s)
  BY <1>1, AtUser
<1>3. PICK r, d : r = Self /\ d = DeliverFrame(z, r, FALSE)
  OBVIOUS
<1>4. s \in Seq(Frame) /\ s = stack[r] /\ r \in Task
  BY <1>2, <1>3 DEF OnStack
<1>5. Going(r, Cons(d, s), z.mask[r], own[r]) /\ z'.pending = z.pending /\ z'.actions = z.actions
  BY <1>3, <1>4, SigdeliverGoes
<1>6. d \in Frame /\ d.op = "deliver"
  BY <1>1, <1>3, <1>4, DeliverFrameMade
<1>7. Refits(r, Cons(d, s))
  BY <1>4, <1>6, RefitSelf, RefitCons
<1>8. Moved(r, Cons(d, s), z.mask[r], own[r])
  BY <1>5, GoingMoves
<1> QED  BY <1>1, <1>5, <1>7, <1>8, UniqSame

\* So do the return from what has replaced the mask, and sigprocmask.
LEMMA UnmaskStartsUniq ==
  ASSUME Base, Uniq, NEW r, r \in Task, NEW y, NEW g \in Frame, g.op # "addpending", NEW b, b \in Seq(Frame), Refits(r, b),
         NEW m, NEW o, Going(r, Cons(UnmaskFrame(y, r), Cons(g, b)), m, o),
         IsMasked(z, r, m, y), SameSignals(y, z'), sent' = sent
  PROVE  Uniq'
<1>1. y \in SigState /\ z'.pending = z.pending /\ z'.actions = z.actions
  BY DEF IsMasked, SameSignals
<1>2. PICK u : u = UnmaskFrame(y, r)
  OBVIOUS
<1>3. u \in Frame /\ u.op = "unmask"
  BY <1>1, <1>2, UnmaskFrameMade
<1>4. Cons(g, b) \in Seq(Frame)
  BY ConsAt
<1>5. PICK c \in Seq(Frame) : c = Cons(g, b)
  BY <1>4
<1>6. Refits(r, c)
  BY <1>5, RefitCons
<1>7. Refits(r, Cons(u, c))
  BY <1>3, <1>6, RefitCons
<1>8. Moved(r, Cons(u, c), m, o)
  BY <1>2, <1>5, GoingMoves
<1> QED  BY <1>1, <1>7, <1>8, UniqSame

\* HandlerReturn, SuspendResumed and SigProcMask.
LEMMA RestoreUniq ==
  ASSUME Base, Uniq, HandlerReturn \/ SuspendResumed \/ \E S \in SUBSET Sig : SigProcMask(S)
  PROVE  Uniq'
<1>1. PICK r : r = Self
  OBVIOUS
<1>2. r \in Task /\ stack[r] \in Seq(Frame)
  BY <1>1, Runner
<1>3. ASSUME HandlerReturn \/ SuspendResumed
      PROVE \E b : b = Tail(stack[r]) /\ b \in Seq(Frame) /\ Refits(r, b)
  <2>1. PICK b : OnTop(r, Top, b) /\ b = Tail(stack[r])
    BY <1>1, <1>3, AtTop DEF HandlerReturn, SuspendResumed, At
  <2> QED  BY <2>1, RefitOld DEF OnTop
<1>4. CASE HandlerReturn
  <2>1. PICK b : b = Tail(stack[r]) /\ b \in Seq(Frame) /\ Refits(r, b)
    BY <1>3, <1>4
  <2>2. PICK y, g : /\ Going(Self, Cons(UnmaskFrame(y, Self), Cons(g, Tail(stack[Self]))), Top.saved, own[Self])
                    /\ IsMasked(z, Self, Top.saved, y) /\ IsLocked(y, Self, z') /\ g \in Frame /\ g.op = "posted"
    BY <1>4, HandlerReturnGoes
  <2>3. Going(r, Cons(UnmaskFrame(y, r), Cons(g, b)), Top.saved, own[r]) /\ IsMasked(z, r, Top.saved, y)
    BY <1>1, <2>1, <2>2
  <2>4. SameSignals(y, z') /\ g.op # "addpending" /\ sent' = sent
    BY <1>4, <2>2 DEF IsLocked, HandlerReturn
  <2> QED  BY <1>2, <2>1, <2>2, <2>3, <2>4, UnmaskStartsUniq
<1>5. CASE SuspendResumed
  <2>1. PICK b : b = Tail(stack[r]) /\ b \in Seq(Frame) /\ Refits(r, b)
    BY <1>3, <1>5
  <2>2. PICK y, g : /\ Going(Self, Cons(UnmaskFrame(y, Self), Cons(g, Tail(stack[Self]))), Top.saved, own[Self])
                    /\ IsMasked(z, Self, Top.saved, y) /\ IsLocked(y, Self, z') /\ g \in Frame /\ g.op = "unlock"
    BY <1>5, SuspendResumedGoes
  <2>3. Going(r, Cons(UnmaskFrame(y, r), Cons(g, b)), Top.saved, own[r]) /\ IsMasked(z, r, Top.saved, y)
    BY <1>1, <2>1, <2>2
  <2>4. SameSignals(y, z') /\ g.op # "addpending" /\ sent' = sent
    BY <1>5, <2>2 DEF IsLocked, SuspendResumed
  <2> QED  BY <1>2, <2>1, <2>2, <2>3, <2>4, UnmaskStartsUniq
<1>6. ASSUME NEW S \in SUBSET Sig, SigProcMask(S) PROVE Uniq'
  <2>1. PICK b : b = stack[r]
    OBVIOUS
  <2>2. PICK y, g, o : /\ Going(Self, Cons(UnmaskFrame(y, Self), Cons(g, stack[Self])), S, o)
                       /\ IsMasked(z, Self, S, y) /\ SameSignals(y, z') /\ g \in Frame /\ g.op = "unlock"
    BY <1>6, SigProcMaskGoes
  <2>3. Going(r, Cons(UnmaskFrame(y, r), Cons(g, b)), S, o) /\ IsMasked(z, r, S, y)
    BY <1>1, <2>1, <2>2
  <2>4. g.op # "addpending" /\ sent' = sent /\ b \in Seq(Frame) /\ Refits(r, b)
    BY <1>2, <1>6, <2>1, <2>2, RefitSelf DEF SigProcMask
  <2> QED  BY <1>2, <2>2, <2>3, <2>4, UnmaskStartsUniq
<1> QED  BY <1>4, <1>5, <1>6

\* The sends are apart in the state zz, and x is nowhere for t.
Apart(zz, s, n) == \A u \in Client : Distinct(zz.actions[u], zz.pending[u], s, u, n)
New(x, zz, s, t, n) == Fresh(x, zz.actions[t], zz.pending[t], s, t) /\ x \in Nat /\ x <= n

\* sig_queueaction
LEMMA QueuesApart ==
  ASSUME NEW zz \in SigState, NEW t \in Client, NEW a \in Action, NEW y, Queues(zz, t, a, y), NEW s, NEW n,
         Apart(zz, s, n), New(a.id, zz, s, t, n)
  PROVE  Apart(y, s, n)
<1>1. t \in Task /\ zz.actions \in ActMap
  BY DEF Client, SigState
<1>2. PICK l \in Seq(Action) : l = zz.actions[t]
  BY <1>1 DEF ActMap
<1>3. PICK m, P : m = Append(l, a) /\ P = zz.pending[t]
  OBVIOUS
<1>4. Distinct(l, P, s, t, n) /\ Fresh(a.id, l, P, s, t) /\ a.id \in Nat /\ a.id <= n
  BY <1>2, <1>3 DEF Apart, New
<1>5. OnceIn(l) /\ OnceIn(P) /\ a.id \notin IdsOf(l)
  BY <1>4 DEF Distinct, Fresh
<1>6. PICK x : x = a.id
  OBVIOUS
<1>7. OnceIn(m) /\ IdsOf(m) \subseteq IdsOf(l) \union {x}
  BY <1>3, <1>5, <1>6, OnceAppend
<1>8. Distinct(m, P, s, t, n)
  BY <1>4, <1>5, <1>6, <1>7, DistinctLists
<1>9. y.pending = zz.pending /\ y.actions = IF a.sig \in Handled THEN [zz.actions EXCEPT ![t] = m] ELSE zz.actions
  BY <1>2, <1>3 DEF Queues
<1>10. ASSUME NEW u \in Client PROVE Distinct(y.actions[u], y.pending[u], s, u, n)
  <2>1. u \in Task /\ Distinct(zz.actions[u], zz.pending[u], s, u, n)
    BY DEF Client, Apart
  <2>2. CASE u = t /\ a.sig \in Handled
    <3>1. y.actions[u] = m /\ y.pending[u] = P
      BY <1>1, <1>3, <1>9, <2>2 DEF ActMap
    <3> QED  BY <1>8, <2>2, <3>1
  <2>3. CASE u # t \/ a.sig \notin Handled
    <3>1. y.actions[u] = zz.actions[u] /\ y.pending[u] = zz.pending[u]
      BY <1>1, <1>9, <2>1, <2>3 DEF ActMap
    <3> QED  BY <2>1, <3>1
  <2> QED  BY <2>2, <2>3
<1> QED  BY <1>10 DEF Apart

\* A change of the pending signals of t.
LEMMA PendsApart ==
  ASSUME NEW zz \in SigState, NEW t \in Client, NEW m, NEW y, Pends(zz, t, m, y), NEW s, NEW n,
         Apart(zz, s, n), Distinct(zz.actions[t], m, s, t, n)
  PROVE  Apart(y, s, n)
<1>1. t \in Task /\ zz.pending \in ActMap /\ y.actions = zz.actions /\ y.pending = [zz.pending EXCEPT ![t] = m]
  BY DEF Client, SigState, Pends
<1>2. ASSUME NEW u \in Client PROVE Distinct(y.actions[u], y.pending[u], s, u, n)
  <2>1. u \in Task /\ Distinct(zz.actions[u], zz.pending[u], s, u, n)
    BY DEF Client, Apart
  <2>2. CASE u = t
    <3>1. y.pending[u] = m
      BY <1>1, <2>2 DEF ActMap
    <3> QED  BY <1>1, <2>2, <3>1
  <2>3. CASE u # t
    <3>1. y.pending[u] = zz.pending[u]
      BY <1>1, <2>1, <2>3 DEF ActMap
    <3> QED  BY <1>1, <2>1, <3>1
  <2> QED  BY <2>2, <2>3
<1> QED  BY <1>2 DEF Apart

\* AddPending
LEMMA AddedApart ==
  ASSUME NEW zz \in SigState, NEW t \in Client, NEW a \in Action, NEW y, Pends(zz, t, Append(zz.pending[t], a), y),
         NEW s, NEW n, Apart(zz, s, n), New(a.id, zz, s, t, n)
  PROVE  Apart(y, s, n)
<1>1. PICK l \in Seq(Action) : l = zz.pending[t]
  BY DEF SigState, ActMap, Client
<1>2. PICK m, A, x : m = Append(l, a) /\ A = zz.actions[t] /\ x = a.id
  OBVIOUS
<1>3. Distinct(A, l, s, t, n) /\ Fresh(x, A, l, s, t) /\ x \in Nat /\ x <= n
  BY <1>1, <1>2 DEF Apart, New
<1>4. OnceIn(l) /\ OnceIn(A) /\ x \notin IdsOf(l)
  BY <1>3 DEF Distinct, Fresh
<1>5. OnceIn(m) /\ IdsOf(m) \subseteq IdsOf(l) \union {x}
  BY <1>2, <1>4, OnceAppend
<1>6. Distinct(A, m, s, t, n)
  BY <1>3, <1>4, <1>5, DistinctLists
<1>7. Pends(zz, t, m, y) /\ Distinct(zz.actions[t], m, s, t, n)
  BY <1>1, <1>2, <1>6
<1> QED  BY <1>7, PendsApart

\* Overwrite
LEMMA OverwrittenApart ==
  ASSUME NEW zz \in SigState, NEW t \in Client, NEW a, NEW e, NEW m, NEW y, IsOverwritten(zz.pending[t], e, a, m),
         Pends(zz, t, m, y), NEW s, NEW n, Apart(zz, s, n), New(a.id, zz, s, t, n)
  PROVE  Apart(y, s, n)
<1>1. PICK l \in Seq(Action) : l = zz.pending[t]
  BY DEF SigState, ActMap, Client
<1>2. PICK A, x : A = zz.actions[t] /\ x = a.id
  OBVIOUS
<1>3. Distinct(A, l, s, t, n) /\ Fresh(x, A, l, s, t) /\ x \in Nat /\ x <= n
  BY <1>1, <1>2 DEF Apart, New
<1>4. OnceIn(l) /\ OnceIn(A) /\ a.id \notin IdsOf(l) /\ IsOverwritten(l, e, a, m)
  BY <1>1, <1>2, <1>3 DEF Distinct, Fresh
<1>5. OnceIn(m) /\ IdsOf(m) \subseteq IdsOf(l) \union {x}
  BY <1>2, <1>4, OnceOverwritten
<1>6. Distinct(A, m, s, t, n)
  BY <1>3, <1>4, <1>5, DistinctLists
<1>7. Distinct(zz.actions[t], m, s, t, n)
  BY <1>2, <1>6
<1> QED  BY <1>7, PendsApart

\* sig_removependingsignal
LEMMA RemovedApart ==
  ASSUME NEW zz \in SigState, NEW t \in Client, NEW v \in sig_pendingset(zz, t), NEW y, y = sig_removependingsignal(zz, t, v),
         NEW s, NEW n, Apart(zz, s, n)
  PROVE  Apart(y, s, n) /\ \A a : a = FirstPending(zz, t, v) => New(a.id, y, s, t, n)
<1>1. t \in Task
  BY DEF Client
<1>2. PICK l \in Seq(Action) : l = zz.pending[t]
  BY <1>1 DEF SigState, ActMap
<1>3. PICK i, m : l[i] = FirstPending(zz, t, v) /\ IsCut(l, i, m) /\ Pends(zz, t, m, y)
  BY <1>1, <1>2, RemovedState
<1>4. PICK A, x : A = zz.actions[t] /\ x = l[i].id
  OBVIOUS
<1>5. Distinct(A, l, s, t, n) /\ OnceIn(l) /\ OnceIn(A)
  BY <1>2, <1>4 DEF Apart, Distinct
<1>6. OnceIn(m) /\ IdsOf(m) \subseteq IdsOf(l) \ {x}
  BY <1>3, <1>4, <1>5, OnceCut
<1>7. Distinct(A, m, s, t, n)
  BY <1>5, <1>6, DistinctLess
<1>8. Apart(y, s, n)
  BY <1>3, <1>4, <1>7, PendsApart
<1>9. x \in IdsOf(l)
  BY <1>3, <1>4 DEF IsCut, IdsOf
<1>10. Fresh(x, A, m, s, t) /\ x \in Nat /\ x <= n
  BY <1>5, <1>6, <1>9 DEF Distinct, Fresh
<1>11. y.actions[t] = A /\ y.pending[t] = m
  BY <1>1, <1>3, <1>4 DEF Pends, SigState, ActMap
<1>12. New(x, y, s, t, n)
  BY <1>10, <1>11 DEF New
<1> QED  BY <1>3, <1>4, <1>8, <1>12

\* The sends are apart, in these terms.
LEMMA UniqApart ==
  ASSUME Base, Uniq, NEW r, r = Self
  PROVE  Apart(z, stack[r], sent)
BY DEF Uniq, Apart

\* Frames that add nothing leave them apart.
LEMMA RefitApart ==
  ASSUME NEW r, NEW s, NEW zz, NEW n, Refits(r, s), Apart(zz, stack[r], n)
  PROVE  Apart(zz, s, n)
BY DEF Refits, Apart

\* A step after which they are apart.
LEMMA ApartUniq ==
  ASSUME Base, NEW r, NEW s, NEW m, NEW o, Moved(r, s, m, o), NEW n, n = sent', NEW y, y = z', Apart(y, s, n)
  PROVE  Uniq'
<1>1. \A t \in Client : Distinct(z'.actions[t], z'.pending[t], s, t, sent')
  BY DEF Apart
<1> QED  BY <1>1, UniqMoved

\* A frame that adds nothing for any task.
LEMMA PushApart ==
  ASSUME NEW zz, NEW f \in Frame, NEW b \in Seq(Frame), NEW n, Apart(zz, b, n), f.op # "addpending"
  PROVE  Apart(zz, Cons(f, b), n)
<1> SUFFICES ASSUME NEW u \in Client PROVE Distinct(zz.actions[u], zz.pending[u], Cons(f, b), u, n)
  BY DEF Apart
<1>1. PICK A, P : A = zz.actions[u] /\ P = zz.pending[u]
  OBVIOUS
<1>2. Distinct(A, P, b, u, n) /\ ~AddTo(f, u)
  BY <1>1 DEF Apart, AddTo
<1>3. Distinct(A, P, Cons(f, b), u, n)
  BY <1>2, DistinctPush
<1> QED  BY <1>1, <1>3

\* sig_tcbdispatch keeps them apart, when the send is nowhere else.
LEMMA DispatchUniq ==
  ASSUME Base, NEW r, NEW y, NEW b, Dispatching(r, y, b), NEW t \in Client, NEW a \in Action,
         Dispatch(y, t, a, b), own' = own, corrupt' = corrupt, NEW n, n = sent', Apart(y, b, n), New(a.id, y, b, t, n)
  PROVE  Uniq'
<1>1. r \in Task /\ t \in Task /\ b \in Seq(Frame) /\ y \in SigState /\ stack \in [Task -> Seq(Frame)]
  BY DEF Dispatching, Client, InPlace, Base, Typed
<1>2. Moved(r, stack'[r], z.mask[r], own[r]) /\ DispatchCases(r, y, t, a, b)
  BY DispatchGoes, DispatchDoes, GoingMoves
<1>3. PICK v, s : v = z' /\ s = stack'[r]
  OBVIOUS
<1>4. SUFFICES Apart(v, s, n)
  BY <1>2, <1>3, ApartUniq
<1>5. CASE /\ Queues(y, t, a, v)
           /\ stack' = [stack EXCEPT ![r] = Cons([op |-> "schedule", to |-> t, act |-> a], b)]
  <2>1. PICK f \in Frame : f = [op |-> "schedule", to |-> t, act |-> a]
    BY FrameMade
  <2>2. s = Cons(f, b) /\ f.op # "addpending"
    BY <1>1, <1>3, <1>5, <2>1
  <2>3. Apart(v, b, n)
    BY <1>1, <1>5, QueuesApart
  <2> QED  BY <1>1, <2>2, <2>3, PushApart
<1>6. CASE IsWoken(y, t, v) /\ stack' = [stack EXCEPT ![r] = b]
  <2>1. s = b /\ v.pending = y.pending /\ v.actions = y.actions
    BY <1>1, <1>3, <1>6 DEF IsWoken, SameSignals
  <2> QED  BY <2>1 DEF Apart
<1>7. CASE /\ \E l : IsOverwritten(y.pending[t], FirstPending(y, t, a.sig), a, l) /\ Pends(y, t, l, v)
           /\ stack' = [stack EXCEPT ![r] = b]
  <2>1. s = b
    BY <1>1, <1>3, <1>7
  <2>2. PICK l, e : IsOverwritten(y.pending[t], e, a, l) /\ Pends(y, t, l, v)
    BY <1>7
  <2>3. Apart(v, b, n)
    BY <1>1, <2>2, OverwrittenApart
  <2> QED  BY <2>1, <2>3
<1>8. CASE v = y /\ stack' = [stack EXCEPT ![r] = Cons([op |-> "addpending", to |-> t, act |-> a], b)]
  <2>1. PICK f \in Frame : f = [op |-> "addpending", to |-> t, act |-> a]
    BY FrameMade
  <2>2. s = Cons(f, b) /\ f.act = a /\ f.to = t
    BY <1>1, <1>3, <1>8, <2>1
  <2>3. ASSUME NEW u \in Client PROVE Distinct(v.actions[u], v.pending[u], Cons(f, b), u, n)
    <3>1. PICK A, P : A = y.actions[u] /\ P = y.pending[u]
      OBVIOUS
    <3>2. Distinct(A, P, b, u, n)
      BY <3>1 DEF Apart
    <3>3. CASE u = t
      <4>1. Fresh(f.act.id, A, P, b, u) /\ f.act.id \in Nat /\ f.act.id <= n
        BY <2>2, <3>1, <3>3 DEF New
      <4>2. Distinct(A, P, Cons(f, b), u, n)
        BY <1>1, <3>2, <4>1, DistinctAdd
      <4> QED  BY <1>8, <3>1, <4>2
    <3>4. CASE u # t
      <4>1. ~AddTo(f, u)
        BY <2>2, <3>4 DEF AddTo
      <4>2. Distinct(A, P, Cons(f, b), u, n)
        BY <1>1, <3>2, <4>1, DistinctPush
      <4> QED  BY <1>8, <3>1, <4>2
    <3> QED  BY <3>3, <3>4
  <2> QED  BY <2>2, <2>3 DEF Apart
<1> QED  BY <1>2, <1>3, <1>5, <1>6, <1>7, <1>8 DEF DispatchCases

\* Kill: the number of the send is new.
LEMMA KillUniq ==
  ASSUME Base, sent \in 0..MaxSends, Uniq, NEW t \in Client, NEW x \in Sig, Kill(t, x)
  PROVE  Uniq'
<1>1. Self \in Client /\ own' = own /\ corrupt' = corrupt /\ InUser /\ sent' = sent + 1 /\ sent \in Nat
  BY SignalAssumption DEF Kill, InUser
<1>2. PICK b : /\ b = Cons([op |-> "unlock"], stack[Self]) /\ b = <<[op |-> "unlock"]>> \o stack[Self]
               /\ Dispatching(Self, Locked(z), b) /\ IsLocked(z, Self, Locked(z)) /\ stack[Self] \in Seq(Frame)
  BY <1>1, KillStarts
<1>3. PICK a, y, r, s : a = [id |-> sent + 1, sig |-> x] /\ y = Locked(z) /\ r = Self /\ s = stack[Self]
  OBVIOUS
<1>4. a \in Action
  BY <1>3, SignalAssumption DEF Action, SendId, Kill
<1>5. PICK g \in Frame : g = [op |-> "unlock"]
  BY FrameMade
<1>6. Dispatch(y, t, a, b) /\ Dispatching(r, y, b) /\ s \in Seq(Frame) /\ b = Cons(g, s) /\ g.op = "unlock" /\ s = stack[r]
  BY <1>2, <1>3, <1>5 DEF Kill
<1>7. y.pending = z.pending /\ y.actions = z.actions
  BY <1>2, <1>3 DEF IsLocked, SameSignals
<1>8. Apart(z, s, sent)
  BY <1>3, <1>6, UniqApart
<1>9. Apart(z, b, sent)
  BY <1>6, <1>8, PushApart
<1>10. PICK n, k : n = sent + 1 /\ k = sent
  OBVIOUS
<1>11. ASSUME NEW u \in Client PROVE Distinct(y.actions[u], y.pending[u], b, u, n) /\ New(n, y, b, u, n)
  <2>1. PICK A, P : A = y.actions[u] /\ P = y.pending[u]
    OBVIOUS
  <2>2. Distinct(A, P, b, u, k)
    BY <1>7, <1>9, <1>10, <2>1 DEF Apart
  <2>3. k \in Nat /\ n = k + 1
    BY <1>1, <1>10
  <2>4. Distinct(A, P, b, u, n) /\ Fresh(n, A, P, b, u) /\ n \in Nat /\ n <= n
    BY <2>2, <2>3, DistinctNext
  <2> QED  BY <2>1, <2>4 DEF New
<1>12. Apart(y, b, n)
  BY <1>11 DEF Apart
<1>13. New(a.id, y, b, t, n) /\ n = sent'
  BY <1>1, <1>3, <1>10, <1>11
<1> QED  BY <1>1, <1>4, <1>6, <1>12, <1>13, DispatchUniq

\* UnmaskTakes: the send leaves the list of pending signals first.
LEMMA UnmaskTakesUniq ==
  ASSUME Base, Uniq, UnmaskTakes
  PROVE  Uniq'
<1>1. PICK c : OnTop(Self, Top, c) /\ c = Tail(stack[Self])
  BY AtTop DEF UnmaskTakes, At
<1>2. PICK b, x, y, a :
           /\ b = Cons(Rest(Top, x), Tail(stack[Self])) /\ x = sig_lowest(Top.set) /\ x \in sig_pendingset(z, Self)
           /\ y = sig_removependingsignal(z, Self, x) /\ a = FirstPending(z, Self, x) /\ a \in Action
           /\ Dispatching(Self, y, b) /\ Dispatch(y, Self, a, b) /\ own' = own /\ corrupt' = corrupt
  BY UnmaskStarts
<1>3. PICK r, f : r = Self /\ f = Top
  OBVIOUS
<1>4. /\ f.op = "unmask" /\ OnTop(r, f, c) /\ f \in Frame /\ c \in Seq(Frame) /\ r \in Client /\ z \in SigState /\ sent' = sent
  BY <1>1, <1>3 DEF UnmaskTakes, UnmaskNext, At, OnTop, Base, Typed
<1>5. PICK g : g = Rest(f, x)
  OBVIOUS
<1>6. g \in Frame /\ g.op = "unmask"
  <2>1. PICK h : h = [f EXCEPT !.set = @ \ {x}]
    OBVIOUS
  <2> QED  BY <1>4, <1>5, <2>1, RestMade
<1>7. /\ b = Cons(g, c) /\ Dispatching(r, y, b) /\ Dispatch(y, r, a, b)
      /\ x \in sig_pendingset(z, r) /\ y = sig_removependingsignal(z, r, x) /\ a = FirstPending(z, r, x)
  BY <1>1, <1>2, <1>3, <1>5
<1>8. PICK n : n = sent
  OBVIOUS
<1>9. Refits(r, b)
  <2>1. Refits(r, c)
    BY <1>4, RefitOld
  <2> QED  BY <1>4, <1>6, <1>7, <2>1, RefitCons
<1>10. Apart(z, stack[r], n)
  BY <1>3, <1>8, UniqApart
<1>11. Apart(z, b, n)
  BY <1>9, <1>10, RefitApart
<1>12. Apart(y, b, n) /\ New(a.id, y, b, r, n)
  BY <1>4, <1>7, <1>11, RemovedApart
<1>13. n = sent'
  BY <1>4, <1>8
<1> QED  BY <1>2, <1>4, <1>7, <1>12, <1>13, DispatchUniq

\* SigAddPending: the send goes from the frame to the list.
LEMMA SigAddPendingUniq ==
  ASSUME Base, Uniq, SigAddPending
  PROVE  Uniq'
<1>1. PICK b : OnTop(Self, Top, b) /\ b = Tail(stack[Self])
  BY AtTop DEF SigAddPending, At
<1>2. PICK r, f, n, y : r = Self /\ f = Top /\ n = sent /\ y = z'
  OBVIOUS
<1>3. /\ f.op = "addpending" /\ y = AddPending(z, f.to, f.act) /\ n = sent' /\ OnTop(r, f, b)
      /\ f \in Frame /\ b \in Seq(Frame) /\ z \in SigState /\ stack[r] = Cons(f, b)
  BY <1>1, <1>2 DEF SigAddPending, At, OnTop, Base, Typed
<1>4. PICK t, a : t = f.to /\ a = f.act
  OBVIOUS
<1>5. t \in Client /\ t \in Task /\ a \in Action /\ AddTo(f, t)
  BY <1>3, <1>4, FrameKinds DEF Client, AddTo, Loose
<1>6. Apart(z, stack[r], n)
  BY <1>2, UniqApart
<1>7. ASSUME NEW u \in Client
      PROVE  /\ Distinct(z.actions[u], z.pending[u], b, u, n)
             /\ AddTo(f, u) => Fresh(a.id, z.actions[u], z.pending[u], b, u) /\ a.id \in Nat /\ a.id <= n
  <2>1. PICK A, P : A = z.actions[u] /\ P = z.pending[u]
    OBVIOUS
  <2>2. Distinct(A, P, Cons(f, b), u, n)
    BY <1>3, <1>6, <2>1 DEF Apart
  <2>3. Distinct(A, P, b, u, n) /\ (AddTo(f, u) => Fresh(f.act.id, A, P, b, u) /\ f.act.id \in Nat /\ f.act.id <= n)
    BY <1>3, <2>2, DistinctPop
  <2> QED  BY <1>4, <2>1, <2>3
<1>8. Apart(z, b, n)
  BY <1>7 DEF Apart
<1>9. New(a.id, z, b, t, n)
  BY <1>5, <1>7 DEF New
<1>10. Pends(z, t, Append(z.pending[t], a), y)
  BY <1>3, <1>4, <1>5, AddedState
<1>11. Apart(y, b, n)
  BY <1>3, <1>5, <1>8, <1>9, <1>10, AddedApart
<1>12. Going(r, b, z.mask[r], own[r])
  BY <1>1, <1>2, SigAddPendingGoes
<1>13. Moved(r, b, z.mask[r], own[r])
  BY <1>12, GoingMoves
<1> QED  BY <1>2, <1>3, <1>11, <1>13, ApartUniq

\* DeliverTakes: the action leaves the queue.
LEMMA DeliverTakesUniq ==
  ASSUME Base, HandledOnly, Uniq, DeliverTakes
  PROVE  Uniq'
<1>1. PICK b : OnTop(Self, Top, b) /\ b = Tail(stack[Self])
  BY AtTop DEF DeliverTakes, At
<1>2. PICK l, i, m, d, h : /\ Delivers(Self, Top, l, i, m, d, h)
                           /\ Going(Self, Cons(h, Tail(stack[Self])), d, own[Self])
  BY DeliverTakesGoes
<1>3. PICK r, f, n, y : r = Self /\ f = Top /\ n = sent /\ y = z'
  OBVIOUS
<1>4. OnTop(r, f, b) /\ Delivers(r, f, l, i, m, d, h) /\ Going(r, Cons(h, b), d, own[r]) /\ b \in Seq(Frame) /\ r \in Client /\ r \in Task
  BY <1>1, <1>2, <1>3 DEF OnTop
<1>5. /\ l = z.actions[r] /\ l \in Seq(Action) /\ h \in Frame /\ h.op = "handler" /\ y.pending = z.pending
      /\ y.actions = [z.actions EXCEPT ![r] = m] /\ z.actions \in ActMap
  BY <1>3, <1>4 DEF Delivers, Base, Typed, SigState
<1>6. PICK j : IsCut(l, j, m)
  BY <1>4 DEF Delivers
<1>7. n = sent'
  BY <1>3 DEF DeliverTakes, DeliverNext
<1>8. Apart(z, b, n)
  <2>1. Apart(z, stack[r], n) /\ Refits(r, b)
    BY <1>3, <1>4, UniqApart, RefitOld
  <2> QED  BY <2>1, RefitApart
<1>9. ASSUME NEW u \in Client PROVE Distinct(y.actions[u], y.pending[u], b, u, n)
  <2>1. Distinct(z.actions[u], z.pending[u], b, u, n) /\ u \in Task
    BY <1>8 DEF Apart, Client
  <2>2. CASE u # r
    BY <1>5, <2>1, <2>2 DEF ActMap
  <2>3. CASE u = r
    <3>1. PICK P : P = z.pending[u]
      OBVIOUS
    <3>2. Distinct(l, P, b, u, n) /\ OnceIn(l) /\ OnceIn(P)
      BY <1>5, <2>1, <2>3, <3>1 DEF Distinct
    <3>3. OnceIn(m) /\ IdsOf(m) \subseteq IdsOf(l)
      BY <1>5, <1>6, <3>2, OnceCut
    <3>4. Distinct(m, P, b, u, n)
      BY <3>2, <3>3, DistinctLess
    <3>5. y.actions[u] = m /\ y.pending[u] = P
      BY <1>4, <1>5, <2>3, <3>1 DEF ActMap
    <3> QED  BY <3>4, <3>5
  <2> QED  BY <2>2, <2>3
<1>10. Apart(y, b, n)
  BY <1>9 DEF Apart
<1>11. Apart(y, Cons(h, b), n)
  BY <1>4, <1>5, <1>10, PushApart
<1>12. Moved(r, Cons(h, b), d, own[r])
  BY <1>4, GoingMoves
<1> QED  BY <1>3, <1>7, <1>11, <1>12, ApartUniq

\* DeliverFreed changes nothing here.
LEMMA DeliverFreedUniq ==
  ASSUME Base, Uniq, DeliverFreed
  PROVE  Uniq'
<1>1. Going(Self, stack[Self], z.mask[Self], own[Self]) /\ z' = z
  BY DeliverFreedGoes
<1>2. PICK r : r = Self
  OBVIOUS
<1>3. Going(r, stack[r], z.mask[r], own[r]) /\ sent' = sent
  BY <1>1, <1>2 DEF DeliverFreed, DeliverNext
<1>4. Moved(r, stack[r], z.mask[r], own[r]) /\ Refits(r, stack[r])
  BY <1>3, GoingMoves, RefitSelf
<1> QED  BY <1>1, <1>3, <1>4, UniqSame

\* A wait that takes a pending signal.
LEMMA TakesUniq ==
  ASSUME Base, Uniq, stack[Self] = <<>>, sent' = sent, Going(Self, <<>>, z.mask[Self], own[Self]),
         NEW x \in sig_pendingset(z, Self), z' = sig_removependingsignal(z, Self, x)
  PROVE  Uniq'
<1>1. PICK r, s, n, y : r = Self /\ s = <<>> /\ n = sent /\ y = z'
  OBVIOUS
<1>2. r \in Client /\ z \in SigState /\ n = sent' /\ s = stack[r]
  BY <1>1 DEF Going, Base, Typed
<1>3. Apart(z, s, n)
  BY <1>1, <1>2, UniqApart
<1>4. Apart(y, s, n)
  BY <1>1, <1>2, <1>3, RemovedApart
<1>5. Moved(r, s, z.mask[r], own[r])
  BY <1>1, GoingMoves
<1> QED  BY <1>1, <1>2, <1>4, <1>5, ApartUniq

\* The frame of a wait adds nothing.
LEMMA WaitsUniq ==
  ASSUME Base, Uniq, stack[Self] = <<>>, sent' = sent, NEW w \in Frame, WaitFrame(w), NEW m,
         Moved(Self, Cons(w, <<>>), m, own[Self]), z'.pending = z.pending, z'.actions = z.actions
  PROVE  Uniq'
<1>1. PICK r, b : r = Self /\ b = stack[r]
  OBVIOUS
<1>2. b \in Seq(Frame) /\ Moved(r, Cons(w, b), m, own[r]) /\ w.op # "addpending"
  BY <1>1, Runner DEF WaitFrame
<1>3. Refits(r, b)
  BY <1>1, RefitSelf
<1>4. Refits(r, Cons(w, b))
  BY <1>2, <1>3, RefitCons
<1> QED  BY <1>2, <1>4, UniqSame

\* SigSuspend and SigTimedWait.
LEMMA WaitUniq ==
  ASSUME Base, Uniq, NEW S \in SUBSET Sig, SigSuspend(S) \/ \E q \in BOOLEAN : SigTimedWait(S, q)
  PROVE  Uniq'
<1>1. stack[Self] = <<>> /\ sent' = sent
  BY DEF SigSuspend, SigTimedWait
<1>2. CASE SuspendTakes(S)
  BY <1>1, <1>2, SuspendTakesGoes, TakesUniq
<1>3. CASE SuspendWaits(S)
  <2>1. PICK w : /\ Moved(Self, Cons(w, <<>>), S, own[Self]) /\ w \in Frame /\ w.op = "suspend"
                 /\ z'.pending = z.pending /\ z'.actions = z.actions
    BY <1>3, SuspendWaitsMoves
  <2> QED  BY <1>1, <2>1, WaitsUniq DEF WaitFrame
<1>4. ASSUME NEW q \in BOOLEAN, TimedTakes(S, q) PROVE Uniq'
  BY <1>1, <1>4, TimedTakesGoes, TakesUniq
<1>5. ASSUME NEW q \in BOOLEAN, TimedWaits(S, q) PROVE Uniq'
  <2>1. PICK w : /\ Moved(Self, Cons(w, <<>>), z.mask[Self], own[Self]) /\ w \in Frame /\ w.op = "timedwait"
                 /\ z'.pending = z.pending /\ z'.actions = z.actions
    BY <1>5, TimedWaitsMoves
  <2> QED  BY <1>1, <2>1, WaitsUniq DEF WaitFrame
<1> QED  BY <1>2, <1>3, <1>4, <1>5 DEF SuspendTakes, SuspendWaits, TimedTakes, TimedWaits

\* SigTimeout sends nothing.
LEMMA SigTimeoutUniq ==
  ASSUME Base, Uniq, NEW t \in Client, SigTimeout(t)
  PROVE  Uniq'
<1>1. Interrupts /\ z'.pending = z.pending /\ z'.actions = z.actions
  BY SigTimeoutDoes
<1>2. PICK r : r = Self
  OBVIOUS
<1>3. Moved(r, stack[r], z.mask[r], own[r]) /\ Refits(r, stack[r])
  BY <1>1, <1>2, InterruptMoves, RefitSelf
<1>4. sent' = sent
  BY DEF SigTimeout
<1> QED  BY <1>1, <1>3, <1>4, UniqSame

\* IsrKill: the number of the send is new.
LEMMA IsrKillUniq ==
  ASSUME Base, sent \in 0..MaxSends, Uniq, NEW t \in Client, NEW x \in IsrSig, IsrKill(t, x)
  PROVE  Uniq'
<1>1. Interrupts /\ \E a : a = [id |-> sent + 1, sig |-> x] /\ a \in Action /\ IsrCases(t, a)
  BY IsrKillDoes
<1>2. PICK a \in Action : a = [id |-> sent + 1, sig |-> x] /\ IsrCases(t, a)
  BY <1>1
<1>3. PICK r, s, n, k, y : r = Self /\ s = stack[Self] /\ n = sent + 1 /\ k = sent /\ y = z'
  OBVIOUS
<1>4. n = sent' /\ k \in Nat /\ n = k + 1 /\ a.id = n /\ z \in SigState
  BY <1>2, <1>3, SignalAssumption DEF IsrKill, Base, Typed
<1>5. Apart(z, s, k)
  BY <1>3, UniqApart
<1>6. ASSUME NEW u \in Client PROVE Distinct(z.actions[u], z.pending[u], s, u, n) /\ New(n, z, s, u, n)
  <2>1. PICK A, P : A = z.actions[u] /\ P = z.pending[u]
    OBVIOUS
  <2>2. Distinct(A, P, s, u, k)
    BY <1>5, <2>1 DEF Apart
  <2>3. Distinct(A, P, s, u, n) /\ Fresh(n, A, P, s, u) /\ n \in Nat /\ n <= n
    BY <1>4, <2>2, DistinctNext
  <2> QED  BY <2>1, <2>3 DEF New
<1>7. Apart(z, s, n) /\ New(a.id, z, s, t, n)
  BY <1>4, <1>6 DEF Apart
<1>8. Moved(r, s, z.mask[r], own[r])
  BY <1>1, <1>3, InterruptMoves
<1>9. SUFFICES Apart(y, s, n)
  BY <1>3, <1>4, <1>8, ApartUniq
<1>10. CASE \E w : Queues(z, t, a, w) /\ IsScheduled(w, t, y)
  <2>1. PICK w : Queues(z, t, a, w) /\ IsScheduled(w, t, y)
    BY <1>10
  <2>2. Apart(w, s, n)
    BY <1>4, <1>7, <2>1, QueuesApart
  <2>3. y.actions = w.actions /\ y.pending = w.pending
    BY <2>1 DEF IsScheduled
  <2> QED  BY <2>2, <2>3 DEF Apart
<1>11. CASE IsWoken(z, t, y)
  BY <1>7, <1>11 DEF Apart, IsWoken, SameSignals
<1>12. CASE \E m : IsOverwritten(z.pending[t], FirstPending(z, t, a.sig), a, m) /\ Pends(z, t, m, y)
  <2>1. PICK m, e : IsOverwritten(z.pending[t], e, a, m) /\ Pends(z, t, m, y)
    BY <1>12
  <2> QED  BY <1>4, <1>7, <2>1, OverwrittenApart
<1>13. CASE Pends(z, t, Append(z.pending[t], a), y)
  BY <1>4, <1>7, <1>13, AddedApart
<1> QED  BY <1>2, <1>3, <1>10, <1>11, <1>12, <1>13 DEF IsrCases

\* Every step keeps the sends apart.
LEMMA NextUniq ==
  ASSUME Ground, Uniq, [Next]_vars
  PROVE  Uniq'
<1>1. Base /\ HandledOnly /\ sent \in 0..MaxSends
  BY DEF Ground
<1>2. ASSUME AppCall PROVE Uniq'
  <2>1. \A S \in SetArg : S \in SUBSET Sig
    BY SignalAssumption
  <2> QED  BY <1>1, <1>2, <2>1, KillUniq, RestoreUniq, WaitUniq DEF AppCall
<1>3. ASSUME Step PROVE Uniq'
  <2>1. CASE SigAddPending
    BY <1>1, <2>1, SigAddPendingUniq
  <2>2. CASE Schedule
    BY <1>1, <2>2, ReplaceUniq, PopUniq DEF Schedule, ScheduleOwn, ScheduleOther
  <2>3. CASE Return \/ TimedWaitResumed
    BY <1>1, <2>3, PopUniq
  <2>4. CASE up_sigdeliver
    BY <1>1, <2>4, SigdeliverUniq
  <2>5. CASE DeliverNext
    <3>1. DeliverEnds \/ DeliverTakes \/ DeliverFreed
      BY <2>5 DEF DeliverEnds, DeliverTakes, DeliverFreed, DeliverNext
    <3> QED  BY <1>1, <3>1, PopUniq, DeliverTakesUniq, DeliverFreedUniq
  <2>6. CASE HandlerReturn \/ SuspendResumed
    BY <1>1, <2>6, RestoreUniq
  <2>7. CASE DeliverFree
    BY <1>1, <2>7, ReplaceUniq
  <2>8. CASE UnmaskNext
    <3>1. UnmaskEnds \/ UnmaskSkips \/ UnmaskTakes
      BY <2>8 DEF UnmaskEnds, UnmaskSkips, UnmaskTakes, UnmaskNext
    <3> QED  BY <1>1, <3>1, PopUniq, ReplaceUniq, UnmaskTakesUniq
  <2> QED  BY <1>3, <2>1, <2>2, <2>3, <2>4, <2>5, <2>6, <2>7, <2>8 DEF Step
<1>4. ASSUME Interrupt PROVE Uniq'
  BY <1>1, <1>4, IsrKillUniq, SigTimeoutUniq DEF Interrupt
<1>5. CASE UNCHANGED vars
  BY <1>5 DEF vars, Uniq, Self
<1> QED  BY <1>2, <1>3, <1>4, <1>5 DEF Next

\* At the start nothing is sent.
LEMMA InitUniq ==
  ASSUME Init
  PROVE  Uniq
<1>1. Base
  BY InitGround DEF Ground
<1>2. <<>> \in Seq(Frame) /\ Self \in Task /\ \A t \in Task : stack[t] = <<>> /\ z.pending[t] = <<>> /\ z.actions[t] = <<>>
  BY <1>1, Runner DEF Init
<1>3. PICK e : e = <<>>
  OBVIOUS
<1>4. Len(e) = 0 /\ \A i \in 1..0 : FALSE
  BY <1>3
<1>5. IdsOf(e) = {} /\ OnceIn(e) /\ \A t : OnceAdds(e, t)
  BY <1>4 DEF IdsOf, OnceIn, OnceAdds
<1>6. Frames(e) = {}
  BY <1>2, <1>3, FramesEmpty
<1>7. \A t : AddIds(e, t) = {}
  BY <1>6 DEF AddIds
<1>8. \A t, n : Distinct(e, e, e, t, n)
  BY <1>5, <1>7 DEF Distinct
<1>9. ASSUME NEW t \in Client PROVE Distinct(z.actions[t], z.pending[t], stack[Self], t, sent)
  <2>1. t \in Task
    BY DEF Client
  <2>2. z.actions[t] = e /\ z.pending[t] = e /\ stack[Self] = e
    BY <1>2, <1>3, <2>1
  <2> QED  BY <1>8, <2>2
<1> QED  BY <1>9 DEF Uniq

\* A send is in one place only in every state.
LEMMA UniqAlways == Spec => []Uniq
<1>1. Init => Uniq
  BY InitUniq
<1>2. Ground /\ Uniq /\ [Next]_vars => Uniq'
  BY NextUniq
<1> QED  BY <1>1, <1>2, GroundAlways, PTL DEF Spec

\* The calls of s make t run up_sigdeliver; a call of s has the head of the queue l before it.
\* That is enough for the whole queue, since sig_deliver goes through it in order.
Carrier(f) == f.op \in {"deliver", "handler", "posted"}
Called(s, t) == \E f \in Frames(s) : f.op = "schedule" /\ f.to = t
HeadNext(l, s) == l # <<>> => \E f \in Frames(s) : Carrier(f) /\ f.next = l[1].id
OnWay == \A t \in Client : t \in z.sigdeliver \/ Called(stack[Self], t) \/ HeadNext(z.actions[t], stack[t])

\* The frames s have before them what the frames p have, and call the tasks that p call.
Carried(p, s) == \A f \in Frames(p) : Carrier(f) /\ f.next # NULL => \E g \in Frames(s) : Carrier(g) /\ g.next = f.next
Keeps(p, s) == Carried(p, s) /\ \A t \in Client : Called(p, t) => Called(s, t)

\* What keeps the queue of t on its way when r goes on with the stack s.
StaysOn(r, s, t) ==
  \/ t \in z'.sigdeliver \/ Called(s, t) \/ (t = r /\ HeadNext(z'.actions[t], s))
  \/ /\ z'.actions[t] = z.actions[t] /\ t \notin z.sigdeliver /\ ~Called(stack[r], t)
     /\ t = r => Carried(stack[r], s)

\* The head of a queue that a call has before it.
LEMMA CarriedHead ==
  ASSUME NEW l \in Seq(Action), NEW p, NEW s, HeadNext(l, p), Carried(p, s)
  PROVE  HeadNext(l, s)
<1>1. CASE l # <<>>
  <2>1. 1 \in 1..Len(l)
    BY <1>1, EmptySeq, LenProperties
  <2>2. l[1].id # NULL
    BY <2>1, NotNull
  <2> QED  BY <1>1, <2>2 DEF HeadNext, Carried
<1>2. CASE l = <<>>
  BY <1>2 DEF HeadNext
<1> QED  BY <1>1, <1>2

\* Frames that are calls of a wait, or none, call nobody.
LEMMA WaitCallsNobody ==
  ASSUME NEW s \in Seq(Frame), s = <<>> \/ AtWait(s), WaitsLast(s)
  PROVE  \A t : ~Called(s, t)
<1>1. CASE s = <<>>
  BY <1>1, FramesEmpty DEF Called
<1>2. CASE s # <<>>
  <2>1. Len(s) \in Nat /\ Len(s) # 0 /\ WaitFrame(s[1])
    BY <1>2, EmptySeq, LenProperties DEF AtWait
  <2>2. 1 \in 1..Len(s)
    BY <2>1
  <2>3. Len(s) = 1
    BY <2>1, <2>2 DEF WaitsLast
  <2>4. \A f \in Frames(s) : WaitFrame(f)
    BY <2>1, <2>3 DEF Frames
  <2> QED  BY <2>4 DEF Called, WaitFrame
<1> QED  BY <1>1, <1>2

\* A step that keeps every queue on its way.
LEMMA WayMoved ==
  ASSUME Base, OnWay, NEW r, NEW s, NEW m, NEW o, Moved(r, s, m, o), \A t \in Client : StaysOn(r, s, t)
  PROVE  OnWay'
<1>1. /\ r = Self /\ r \in Task /\ s \in Seq(Frame) /\ stack' = [stack EXCEPT ![r] = s] /\ stack \in [Task -> Seq(Frame)]
      /\ z.actions \in ActMap /\ WaitsLast(s) /\ (Self' = r \/ s = <<>> \/ AtWait(s))
  BY DEF Moved, Base, Typed, SigState, Shape
<1>2. PICK u : u = Self'
  OBVIOUS
<1>3. \A t \in Client : Called(s, t) => Called(stack'[u], t)
  <2>1. CASE u = r
    BY <1>1, <2>1
  <2>2. CASE u # r
    BY <1>1, <1>2, <2>2, WaitCallsNobody
  <2> QED  BY <2>1, <2>2
<1>4. ASSUME NEW t \in Client
      PROVE  t \in z'.sigdeliver \/ Called(stack'[u], t) \/ HeadNext(z'.actions[t], stack'[t])
  <2>1. t \in Task
    BY DEF Client
  <2>2. CASE t \in z'.sigdeliver \/ Called(s, t)
    BY <1>3, <2>2
  <2>3. CASE t = r /\ HeadNext(z'.actions[t], s)
    BY <1>1, <2>3
  <2>4. CASE z'.actions[t] = z.actions[t] /\ t \notin z.sigdeliver /\ ~Called(stack[r], t) /\ (t = r => Carried(stack[r], s))
    <3>1. PICK l \in Seq(Action) : l = z.actions[t]
      BY <1>1, <2>1 DEF ActMap
    <3>2. HeadNext(l, stack[t])
      BY <1>1, <2>4, <3>1 DEF OnWay
    <3>3. CASE t = r
      <4>1. HeadNext(l, s)
        BY <2>4, <3>2, <3>3, CarriedHead
      <4> QED  BY <1>1, <2>4, <3>1, <3>3, <4>1
    <3>4. CASE t # r
      BY <1>1, <2>1, <2>4, <3>1, <3>2, <3>4
    <3> QED  BY <3>3, <3>4
  <2> QED  BY <2>2, <2>3, <2>4 DEF StaysOn
<1> QED  BY <1>2, <1>4 DEF OnWay

\* A queue that is left alone.
LEMMA StaysSame ==
  ASSUME NEW r, NEW s, NEW t \in Client, z'.actions[t] = z.actions[t], t \in z.sigdeliver => t \in z'.sigdeliver,
         Keeps(stack[r], s)
  PROVE  StaysOn(r, s, t)
BY DEF StaysOn, Keeps

\* A step that leaves all queues alone and keeps the calls.
LEMMA WaySame ==
  ASSUME Base, OnWay, NEW r, NEW s, NEW m, NEW o, Moved(r, s, m, o), Keeps(stack[r], s),
         z'.actions = z.actions, z.sigdeliver \subseteq z'.sigdeliver
  PROVE  OnWay'
<1>1. \A t \in Client : StaysOn(r, s, t)
  BY StaysSame
<1> QED  BY <1>1, WayMoved

\* The same frames.
LEMMA KeepsSelf ==
  ASSUME NEW p
  PROVE  Keeps(p, p)
BY DEF Keeps, Carried

\* Another frame on top.
LEMMA KeepsCons ==
  ASSUME NEW p, NEW f \in Frame, NEW b \in Seq(Frame), Keeps(p, b)
  PROVE  Keeps(p, Cons(f, b))
<1>1. PICK s : s = Cons(f, b)
  OBVIOUS
<1>2. Frames(b) \subseteq Frames(s)
  BY <1>1, FramesCons
<1>3. Keeps(p, s)
  BY <1>2 DEF Keeps, Carried, Called
<1> QED  BY <1>1, <1>3

\* A frame less, which calls nobody and has nothing before it.
LEMMA KeepsTail ==
  ASSUME NEW f \in Frame, NEW b \in Seq(Frame), f.op # "schedule", ~Carrier(f) \/ f.next = NULL
  PROVE  Keeps(Cons(f, b), b)
<1>1. PICK s : s = Cons(f, b)
  OBVIOUS
<1>2. Frames(s) = {f} \union Frames(b)
  BY <1>1, FramesCons
<1>3. Keeps(s, b)
  BY <1>2 DEF Keeps, Carried, Called
<1> QED  BY <1>1, <1>3

\* A frame that takes the place of another one that has the same action before it.
LEMMA KeepsSwap ==
  ASSUME NEW f \in Frame, NEW g \in Frame, NEW b \in Seq(Frame), Carrier(f), Carrier(g), g.next = f.next
  PROVE  Keeps(Cons(f, b), Cons(g, b))
<1>1. PICK p, s : p = Cons(f, b) /\ s = Cons(g, b)
  OBVIOUS
<1>2. Frames(p) = {f} \union Frames(b) /\ Frames(s) = {g} \union Frames(b) /\ f.op # "schedule"
  BY <1>1, FramesCons DEF Carrier
<1>3. Keeps(p, s)
  BY <1>2 DEF Keeps, Carried, Called
<1> QED  BY <1>1, <1>3

\* Steps that take a frame off which calls nobody and has nothing before it.
LEMMA PopWay ==
  ASSUME Base, OnWay, SigAddPending \/ Return \/ UnmaskEnds \/ DeliverEnds \/ TimedWaitResumed
  PROVE  OnWay'
<1>1. PICK b : OnTop(Self, Top, b) /\ b = Tail(stack[Self])
  BY AtTop DEF SigAddPending, Return, UnmaskEnds, DeliverEnds, TimedWaitResumed, At
<1>2. PICK r, f : r = Self /\ f = Top
  OBVIOUS
<1>3. OnTop(r, f, b) /\ f \in Frame /\ b \in Seq(Frame) /\ stack[r] = Cons(f, b) /\ z \in SigState
  BY <1>1, <1>2 DEF OnTop, Base, Typed
<1>4. /\ Going(r, b, z.mask[r], own[r]) /\ z'.actions = z.actions /\ z'.sigdeliver = z.sigdeliver
      /\ f.op # "schedule" /\ (~Carrier(f) \/ f.next = NULL)
  <2>1. CASE Return
    BY <1>1, <1>2, <2>1, ReturnGoes DEF Return, At, IsUnlocked, SameSignals, Carrier
  <2>2. CASE UnmaskEnds
    BY <1>1, <1>2, <2>2, UnmaskEndsGoes DEF UnmaskEnds, At, IsUnlocked, SameSignals, Carrier
  <2>3. CASE DeliverEnds
    BY <1>1, <1>2, <2>3, DeliverEndsGoes DEF DeliverEnds, At, IsUnlocked, SameSignals
  <2>4. CASE TimedWaitResumed
    BY <1>1, <1>2, <2>4, TimedWaitResumedGoes DEF TimedWaitResumed, At, Carrier
  <2>5. CASE SigAddPending
    <3>1. f.op = "addpending" /\ z' = AddPending(z, f.to, f.act)
      BY <1>2, <2>5 DEF SigAddPending, At
    <3>2. f.to \in Task /\ f.act \in Action
      BY <1>3, <3>1, FrameKinds DEF Client, Loose
    <3>3. z'.actions = z.actions /\ z'.sigdeliver = z.sigdeliver
      BY <1>3, <3>1, <3>2, AddedState DEF Pends, SameTasks
    <3> QED  BY <1>1, <1>2, <2>5, <3>1, <3>3, SigAddPendingGoes DEF Carrier
  <2> QED  BY <2>1, <2>2, <2>3, <2>4, <2>5
<1>5. Keeps(Cons(f, b), b)
  BY <1>3, <1>4, KeepsTail
<1>6. Keeps(stack[r], b)
  BY <1>3, <1>5
<1>7. Moved(r, b, z.mask[r], own[r])
  BY <1>4, GoingMoves
<1> QED  BY <1>4, <1>6, <1>7, WaySame

\* Schedule, for another task: it will continue in up_sigdeliver.
LEMMA ScheduleOtherWay ==
  ASSUME Base, OnWay, ScheduleOther
  PROVE  OnWay'
<1>1. PICK b : OnTop(Self, Top, b) /\ b = Tail(stack[Self])
  BY AtTop DEF ScheduleOther, At
<1>2. PICK r, f : r = Self /\ f = Top
  OBVIOUS
<1>3. f \in Frame /\ b \in Seq(Frame) /\ stack[r] = Cons(f, b) /\ f.op = "schedule"
  BY <1>1, <1>2 DEF OnTop, ScheduleOther, At
<1>4. Going(r, b, z.mask[r], own[r]) /\ z'.actions = z.actions /\ z'.sigdeliver = z.sigdeliver \union {f.to}
  BY <1>1, <1>2, ScheduleOtherGoes DEF IsScheduled
<1>5. Moved(r, b, z.mask[r], own[r])
  BY <1>4, GoingMoves
<1>6. PICK s : s = Cons(f, b)
  OBVIOUS
<1>7. Frames(s) = {f} \union Frames(b) /\ stack[r] = s
  BY <1>3, <1>6, FramesCons
<1>8. ASSUME NEW t \in Client PROVE StaysOn(r, b, t)
  <2>1. CASE t = f.to
    BY <1>4, <2>1 DEF StaysOn
  <2>2. CASE t # f.to
    <3>1. Carried(s, b) /\ (Called(s, t) => Called(b, t))
      BY <1>3, <1>7, <2>2 DEF Carried, Called, Carrier
    <3> QED  BY <1>4, <1>7, <3>1 DEF StaysOn
  <2> QED  BY <2>1, <2>2
<1> QED  BY <1>5, <1>8, WayMoved

\* A frame of sig_deliver that starts has the head of the queue before it.
LEMMA StartsWay ==
  ASSUME NEW r \in Task, z \in SigState, NEW q \in BOOLEAN, NEW d, d = DeliverFrame(z, r, q), NEW b \in Seq(Frame),
         NEW s, s = Cons(d, b), z'.actions = z.actions
  PROVE  HeadNext(z'.actions[r], s)
<1>1. d \in Frame /\ d.op = "deliver" /\ d.next = IF z.actions[r] = <<>> THEN NULL ELSE z.actions[r][1].id
  BY DeliverFrameMade
<1>2. d \in Frames(s)
  BY <1>1, FramesCons
<1> QED  BY <1>1, <1>2 DEF HeadNext, Carrier

\* Schedule, for the caller itself: its handlers are called at once.
LEMMA ScheduleOwnWay ==
  ASSUME Base, OnWay, ScheduleOwn
  PROVE  OnWay'
<1>1. PICK b : OnTop(Self, Top, b) /\ b = Tail(stack[Self])
  BY AtTop DEF ScheduleOwn, At
<1>2. PICK r, f, d : r = Self /\ f = Top /\ d = DeliverFrame(z, r, TRUE)
  OBVIOUS
<1>3. /\ f \in Frame /\ b \in Seq(Frame) /\ stack[r] = Cons(f, b) /\ f.op = "schedule" /\ f.to = r
      /\ r \in Task /\ z \in SigState
  BY <1>1, <1>2 DEF OnTop, ScheduleOwn, At, Base, Typed
<1>4. PICK s, p : s = Cons(d, b) /\ p = Cons(f, b)
  OBVIOUS
<1>5. Going(r, s, z.mask[r], own[r]) /\ z'.actions = z.actions /\ z'.sigdeliver = z.sigdeliver
  BY <1>1, <1>2, <1>4, ScheduleOwnGoes DEF IsLocked, SameSignals
<1>6. Moved(r, s, z.mask[r], own[r])
  BY <1>5, GoingMoves
<1>7. HeadNext(z'.actions[r], s)
  BY <1>2, <1>3, <1>4, <1>5, StartsWay
<1>8. d \in Frame
  BY <1>2, <1>3, DeliverFrameMade
<1>9. Frames(p) = {f} \union Frames(b) /\ Frames(s) = {d} \union Frames(b) /\ stack[r] = p
  BY <1>3, <1>4, <1>8, FramesCons
<1>10. ASSUME NEW t \in Client PROVE StaysOn(r, s, t)
  <2>1. CASE t = r
    BY <1>7, <2>1 DEF StaysOn
  <2>2. CASE t # r
    <3>1. Called(p, t) => Called(s, t)
      BY <1>3, <1>9, <2>2 DEF Called
    <3> QED  BY <1>5, <1>9, <2>2, <3>1 DEF StaysOn
  <2> QED  BY <2>1, <2>2
<1> QED  BY <1>6, <1>10, WayMoved

\* up_sigdeliver clears the request and starts sig_deliver.
LEMMA SigdeliverWay ==
  ASSUME Base, OnWay, up_sigdeliver
  PROVE  OnWay'
<1>1. Self \in Client /\ z \in SigState
  BY DEF up_sigdeliver, Base, Typed
<1>2. PICK b : OnStack(Self, b)
  BY <1>1, AtUser
<1>3. PICK r, d : r = Self /\ d = DeliverFrame(z, r, FALSE)
  OBVIOUS
<1>4. b \in Seq(Frame) /\ b = stack[r] /\ r \in Task
  BY <1>2, <1>3 DEF OnStack
<1>5. PICK s : s = Cons(d, b)
  OBVIOUS
<1>6. Going(r, s, z.mask[r], own[r]) /\ z'.actions = z.actions /\ z'.sigdeliver = z.sigdeliver \ {r}
  BY <1>3, <1>4, <1>5, SigdeliverGoes
<1>7. Moved(r, s, z.mask[r], own[r])
  BY <1>6, GoingMoves
<1>8. HeadNext(z'.actions[r], s)
  BY <1>1, <1>3, <1>4, <1>5, <1>6, StartsWay
<1>9. d \in Frame
  BY <1>1, <1>3, <1>4, DeliverFrameMade
<1>10. Keeps(stack[r], s)
  BY <1>4, <1>5, <1>9, KeepsSelf, KeepsCons
<1>11. ASSUME NEW t \in Client PROVE StaysOn(r, s, t)
  <2>1. CASE t = r
    BY <1>8, <2>1 DEF StaysOn
  <2>2. CASE t # r
    BY <1>6, <1>10, <2>2, StaysSame
  <2> QED  BY <2>1, <2>2
<1> QED  BY <1>7, <1>11, WayMoved

\* DeliverFree and UnmaskSkips: the frame that follows has the same action before it, or none.
LEMMA ReplaceWay ==
  ASSUME Base, OnWay, DeliverFree \/ UnmaskSkips
  PROVE  OnWay'
<1>1. PICK b : OnTop(Self, Top, b) /\ b = Tail(stack[Self])
  BY AtTop DEF DeliverFree, UnmaskSkips, At
<1>2. PICK r, f : r = Self /\ f = Top
  OBVIOUS
<1>3. f \in Frame /\ b \in Seq(Frame) /\ stack[r] = Cons(f, b)
  BY <1>1, <1>2 DEF OnTop
<1>4. ASSUME NEW d \in Frame, Keeps(Cons(f, b), Cons(d, b)), Going(r, Cons(d, b), z.mask[r], own[r]), z' = z
      PROVE  OnWay'
  <2>1. Moved(r, Cons(d, b), z.mask[r], own[r]) /\ Keeps(stack[r], Cons(d, b))
    BY <1>3, <1>4, GoingMoves
  <2> QED  BY <1>4, <2>1, WaySame
<1>5. CASE DeliverFree
  <2>1. PICK d : d = [op |-> "deliver", next |-> f.next, irqoff |-> f.irqoff]
    OBVIOUS
  <2>2. f.op = "posted" /\ z' = z
    BY <1>2, <1>5 DEF DeliverFree, At
  <2>3. d \in Frame /\ d.op = "deliver" /\ d.next = f.next
    BY <1>3, <2>1, <2>2, FrameKinds, FrameMade
  <2>4. Going(r, Cons(d, b), z.mask[r], own[r])
    BY <1>1, <1>2, <1>5, <2>1, DeliverFreeGoes
  <2>5. Keeps(Cons(f, b), Cons(d, b))
    BY <1>3, <2>2, <2>3, KeepsSwap DEF Carrier
  <2> QED  BY <1>4, <2>2, <2>3, <2>4, <2>5
<1>6. CASE UnmaskSkips
  <2>1. PICK x, d, g : x = sig_lowest(f.set) /\ d = Rest(f, x) /\ g = [f EXCEPT !.set = @ \ {x}]
    OBVIOUS
  <2>2. f.op = "unmask"
    BY <1>2, <1>6 DEF UnmaskSkips, At
  <2>3. d \in Frame
    BY <1>3, <2>1, <2>2, RestMade
  <2>4. Going(r, Cons(d, b), z.mask[r], own[r]) /\ z' = z
    BY <1>1, <1>2, <1>6, <2>1, UnmaskSkipsGoes
  <2>5. Keeps(Cons(f, b), b)
    BY <1>3, <2>2, KeepsTail DEF Carrier
  <2>6. Keeps(Cons(f, b), Cons(d, b))
    BY <1>3, <2>3, <2>5, KeepsCons
  <2> QED  BY <1>4, <2>3, <2>4, <2>6
<1> QED  BY <1>5, <1>6

\* The return from what has replaced the mask, and sigprocmask.
LEMMA UnmaskStartsWay ==
  ASSUME Base, OnWay, NEW r, r \in Task, NEW y, NEW c \in Seq(Frame), Keeps(stack[r], c),
         NEW m, NEW o, Going(r, Cons(UnmaskFrame(y, r), c), m, o),
         IsMasked(z, r, m, y), SameSignals(y, z')
  PROVE  OnWay'
<1>1. y \in SigState /\ z'.actions = z.actions /\ z'.sigdeliver = z.sigdeliver
  BY DEF IsMasked, SameSignals
<1>2. PICK u : u = UnmaskFrame(y, r)
  OBVIOUS
<1>3. u \in Frame
  BY <1>1, <1>2, UnmaskFrameMade
<1>4. Keeps(stack[r], Cons(u, c))
  BY <1>3, KeepsCons
<1>5. Moved(r, Cons(u, c), m, o)
  BY <1>2, GoingMoves
<1> QED  BY <1>1, <1>4, <1>5, WaySame

\* HandlerReturn, SuspendResumed and SigProcMask.
LEMMA RestoreWay ==
  ASSUME Base, OnWay, HandlerReturn \/ SuspendResumed \/ \E S \in SUBSET Sig : SigProcMask(S)
  PROVE  OnWay'
<1>1. PICK r, f : r = Self /\ f = Top
  OBVIOUS
<1>2. r \in Task /\ stack[r] \in Seq(Frame)
  BY <1>1, Runner
<1>3. ASSUME HandlerReturn \/ SuspendResumed
      PROVE \E b : b = Tail(stack[r]) /\ b \in Seq(Frame) /\ f \in Frame /\ stack[r] = Cons(f, b)
  <2>1. PICK b : OnTop(r, f, b) /\ b = Tail(stack[r])
    BY <1>1, <1>3, AtTop DEF HandlerReturn, SuspendResumed, At
  <2> QED  BY <2>1 DEF OnTop
<1>4. CASE HandlerReturn
  <2>1. PICK b : b = Tail(stack[r]) /\ b \in Seq(Frame) /\ f \in Frame /\ stack[r] = Cons(f, b)
    BY <1>3, <1>4
  <2>2. PICK y, g : /\ Going(Self, Cons(UnmaskFrame(y, Self), Cons(g, Tail(stack[Self]))), Top.saved, own[Self])
                    /\ IsMasked(z, Self, Top.saved, y) /\ IsLocked(y, Self, z')
                    /\ g \in Frame /\ g.op = "posted" /\ g.next = Top.next
    BY <1>4, HandlerReturnGoes
  <2>3. PICK c : c = Cons(g, b)
    OBVIOUS
  <2>4. Going(r, Cons(UnmaskFrame(y, r), c), f.saved, own[r]) /\ IsMasked(z, r, f.saved, y)
    BY <1>1, <2>1, <2>2, <2>3
  <2>5. SameSignals(y, z') /\ f.op = "handler" /\ c \in Seq(Frame)
    BY <1>1, <1>4, <2>1, <2>2, <2>3, ConsAt DEF IsLocked, HandlerReturn, At
  <2>6. Keeps(Cons(f, b), Cons(g, b))
    BY <1>1, <2>1, <2>2, <2>5, KeepsSwap DEF Carrier
  <2>7. Keeps(stack[r], c)
    BY <2>1, <2>3, <2>6
  <2> QED  BY <1>2, <2>4, <2>5, <2>7, UnmaskStartsWay
<1>5. CASE SuspendResumed
  <2>1. PICK b : b = Tail(stack[r]) /\ b \in Seq(Frame) /\ f \in Frame /\ stack[r] = Cons(f, b)
    BY <1>3, <1>5
  <2>2. PICK y, g : /\ Going(Self, Cons(UnmaskFrame(y, Self), Cons(g, Tail(stack[Self]))), Top.saved, own[Self])
                    /\ IsMasked(z, Self, Top.saved, y) /\ IsLocked(y, Self, z') /\ g \in Frame /\ g.op = "unlock"
    BY <1>5, SuspendResumedGoes
  <2>3. PICK c : c = Cons(g, b)
    OBVIOUS
  <2>4. Going(r, Cons(UnmaskFrame(y, r), c), f.saved, own[r]) /\ IsMasked(z, r, f.saved, y)
    BY <1>1, <2>1, <2>2, <2>3
  <2>5. SameSignals(y, z') /\ f.op = "suspend" /\ c \in Seq(Frame)
    BY <1>1, <1>5, <2>1, <2>2, <2>3, ConsAt DEF IsLocked, SuspendResumed, At
  <2>6. Keeps(Cons(f, b), b)
    BY <2>1, <2>5, KeepsTail DEF Carrier
  <2>7. Keeps(Cons(f, b), Cons(g, b))
    BY <2>1, <2>2, <2>6, KeepsCons
  <2>8. Keeps(stack[r], c)
    BY <2>1, <2>3, <2>7
  <2> QED  BY <1>2, <2>4, <2>5, <2>8, UnmaskStartsWay
<1>6. ASSUME NEW S \in SUBSET Sig, SigProcMask(S) PROVE OnWay'
  <2>1. PICK b \in Seq(Frame) : b = stack[r]
    BY <1>2
  <2>2. PICK y, g, o : /\ Going(Self, Cons(UnmaskFrame(y, Self), Cons(g, stack[Self])), S, o)
                       /\ IsMasked(z, Self, S, y) /\ SameSignals(y, z') /\ g \in Frame /\ g.op = "unlock"
    BY <1>6, SigProcMaskGoes
  <2>3. PICK c : c = Cons(g, b)
    OBVIOUS
  <2>4. Going(r, Cons(UnmaskFrame(y, r), c), S, o) /\ IsMasked(z, r, S, y) /\ c \in Seq(Frame)
    BY <1>1, <2>1, <2>2, <2>3, ConsAt
  <2>5. Keeps(stack[r], c)
    BY <2>1, <2>2, <2>3, KeepsSelf, KeepsCons
  <2> QED  BY <1>2, <2>2, <2>4, <2>5, UnmaskStartsWay
<1> QED  BY <1>4, <1>5, <1>6

\* SigSuspend and SigTimedWait leave the queues alone.
LEMMA WaitWay ==
  ASSUME Base, OnWay, NEW S \in SUBSET Sig, SigSuspend(S) \/ \E q \in BOOLEAN : SigTimedWait(S, q)
  PROVE  OnWay'
<1>1. stack[Self] = <<>> /\ Self \in Task /\ z \in SigState /\ <<>> \in Seq(Frame)
  BY Runner DEF SigSuspend, SigTimedWait, Base, Typed
<1>2. PICK r, e : r = Self /\ e = stack[r]
  OBVIOUS
<1>3. e = <<>> /\ e \in Seq(Frame)
  BY <1>1, <1>2
<1>4. ASSUME Going(Self, <<>>, z.mask[Self], own[Self]), \E x \in sig_pendingset(z, Self) : z' = sig_removependingsignal(z, Self, x)
      PROVE  OnWay'
  <2>1. z'.actions = z.actions /\ z'.sigdeliver = z.sigdeliver
    <3>1. PICK x \in sig_pendingset(z, Self) : z' = sig_removependingsignal(z, Self, x)
      BY <1>4
    <3>2. PICK m : Pends(z, Self, m, z')
      BY <1>1, <3>1, RemovedState
    <3> QED  BY <3>2 DEF Pends, SameTasks
  <2>2. Moved(r, e, z.mask[r], own[r]) /\ Keeps(stack[r], e)
    BY <1>2, <1>3, <1>4, GoingMoves, KeepsSelf
  <2> QED  BY <2>1, <2>2, WaySame
<1>5. ASSUME NEW w \in Frame, NEW m, Moved(Self, Cons(w, <<>>), m, own[Self]),
             z'.actions = z.actions, z'.sigdeliver = z.sigdeliver
      PROVE  OnWay'
  <2>1. Moved(r, Cons(w, e), m, own[r])
    BY <1>2, <1>3, <1>5
  <2>2. Keeps(stack[r], e)
    BY <1>2, KeepsSelf
  <2>3. Keeps(stack[r], Cons(w, e))
    BY <1>3, <2>2, KeepsCons
  <2> QED  BY <1>5, <2>1, <2>3, WaySame
<1>6. CASE SuspendTakes(S)
  BY <1>4, <1>6, SuspendTakesGoes
<1>7. CASE SuspendWaits(S)
  <2>1. PICK w : /\ Moved(Self, Cons(w, <<>>), S, own[Self]) /\ w \in Frame
                 /\ z'.actions = z.actions /\ z'.sigdeliver = z.sigdeliver
    BY <1>7, SuspendWaitsMoves
  <2> QED  BY <1>5, <2>1
<1>8. ASSUME NEW q \in BOOLEAN, TimedTakes(S, q) PROVE OnWay'
  BY <1>4, <1>8, TimedTakesGoes
<1>9. ASSUME NEW q \in BOOLEAN, TimedWaits(S, q) PROVE OnWay'
  <2>1. PICK w : /\ Moved(Self, Cons(w, <<>>), z.mask[Self], own[Self]) /\ w \in Frame
                 /\ z'.actions = z.actions /\ z'.sigdeliver = z.sigdeliver
    BY <1>9, TimedWaitsMoves
  <2> QED  BY <1>5, <2>1
<1> QED  BY <1>6, <1>7, <1>8, <1>9 DEF SuspendTakes, SuspendWaits, TimedTakes, TimedWaits

\* sig_queueaction leaves the queues of the others alone.
LEMMA QueuesOthers ==
  ASSUME NEW zz \in SigState, NEW t, NEW a, NEW y, Queues(zz, t, a, y), NEW u \in Task, u # t
  PROVE  y.actions[u] = zz.actions[u]
BY DEF Queues, SigState, ActMap

\* sig_tcbdispatch: the action it queues has a call that sees to it.
LEMMA DispatchWay ==
  ASSUME Base, OnWay, NEW r, NEW y, NEW b, Dispatching(r, y, b), NEW t \in Client, NEW a \in Action,
         Dispatch(y, t, a, b), own' = own, corrupt' = corrupt, y.actions = z.actions, Keeps(stack[r], b)
  PROVE  OnWay'
<1>1. r \in Task /\ b \in Seq(Frame) /\ y \in SigState /\ stack \in [Task -> Seq(Frame)] /\ y.sigdeliver = z.sigdeliver
  BY DEF Dispatching, Client, InPlace, Base, Typed
<1>2. Moved(r, stack'[r], z.mask[r], own[r]) /\ DispatchCases(r, y, t, a, b)
  BY DispatchGoes, DispatchDoes, GoingMoves
<1>3. PICK v, s : v = z' /\ s = stack'[r]
  OBVIOUS
<1>4. CASE /\ Queues(y, t, a, v)
           /\ stack' = [stack EXCEPT ![r] = Cons([op |-> "schedule", to |-> t, act |-> a], b)]
  <2>1. PICK f \in Frame : f = [op |-> "schedule", to |-> t, act |-> a]
    BY FrameMade
  <2>2. s = Cons(f, b) /\ f.op = "schedule" /\ f.to = t
    BY <1>1, <1>3, <1>4, <2>1
  <2>3. Keeps(stack[r], s)
    BY <1>1, <2>2, KeepsCons
  <2>4. Called(s, t)
    <3>1. f \in Frames(s)
      BY <1>1, <2>2, FramesCons
    <3> QED  BY <2>2, <3>1 DEF Called
  <2>5. ASSUME NEW u \in Client PROVE StaysOn(r, s, u)
    <3>1. CASE u = t
      BY <2>4, <3>1 DEF StaysOn
    <3>2. CASE u # t
      <4>1. u \in Task
        BY DEF Client
      <4>2. z'.actions[u] = z.actions[u] /\ z'.sigdeliver = z.sigdeliver
        BY <1>1, <1>3, <1>4, <3>2, <4>1, QueuesOthers DEF Queues, SameTasks
      <4> QED  BY <2>3, <4>2, StaysSame
    <3> QED  BY <3>1, <3>2
  <2>6. Moved(r, s, z.mask[r], own[r])
    BY <1>2, <1>3
  <2> QED  BY <2>5, <2>6, WayMoved
<1>5. ASSUME z'.actions = z.actions, z'.sigdeliver = z.sigdeliver, Keeps(stack[r], s) PROVE OnWay'
  <2>1. Moved(r, s, z.mask[r], own[r])
    BY <1>2, <1>3
  <2> QED  BY <1>5, <2>1, WaySame
<1>6. CASE (IsWoken(y, t, v) \/ \E l : Pends(y, t, l, v)) /\ stack' = [stack EXCEPT ![r] = b]
  <2>1. s = b /\ v.actions = y.actions /\ v.sigdeliver = y.sigdeliver
    BY <1>1, <1>3, <1>6 DEF IsWoken, SameSignals, Pends, SameTasks
  <2> QED  BY <1>1, <1>3, <1>5, <2>1
<1>7. CASE v = y /\ stack' = [stack EXCEPT ![r] = Cons([op |-> "addpending", to |-> t, act |-> a], b)]
  <2>1. PICK f \in Frame : f = [op |-> "addpending", to |-> t, act |-> a]
    BY FrameMade
  <2>2. s = Cons(f, b)
    BY <1>1, <1>3, <1>7, <2>1
  <2>3. Keeps(stack[r], s)
    BY <1>1, <2>2, KeepsCons
  <2> QED  BY <1>1, <1>3, <1>5, <1>7, <2>3
<1> QED  BY <1>2, <1>3, <1>4, <1>6, <1>7 DEF DispatchCases

\* Kill
LEMMA KillWay ==
  ASSUME Base, sent \in 0..MaxSends, OnWay, NEW t \in Client, NEW x \in Sig, Kill(t, x)
  PROVE  OnWay'
<1>1. own' = own /\ corrupt' = corrupt /\ InUser
  BY DEF Kill, InUser
<1>2. PICK b : /\ b = Cons([op |-> "unlock"], stack[Self]) /\ b = <<[op |-> "unlock"]>> \o stack[Self]
               /\ Dispatching(Self, Locked(z), b) /\ IsLocked(z, Self, Locked(z)) /\ stack[Self] \in Seq(Frame)
  BY <1>1, KillStarts
<1>3. PICK a, y, r, s : a = [id |-> sent + 1, sig |-> x] /\ y = Locked(z) /\ r = Self /\ s = stack[Self]
  OBVIOUS
<1>4. a \in Action
  BY <1>3, SignalAssumption DEF Action, SendId, Kill
<1>5. PICK g \in Frame : g = [op |-> "unlock"]
  BY FrameMade
<1>6. Dispatch(y, t, a, b) /\ Dispatching(r, y, b) /\ s \in Seq(Frame) /\ b = Cons(g, s) /\ s = stack[r]
  BY <1>2, <1>3, <1>5 DEF Kill
<1>7. y.actions = z.actions
  BY <1>2, <1>3 DEF IsLocked, SameSignals
<1>8. Keeps(stack[r], b)
  BY <1>6, KeepsSelf, KeepsCons
<1> QED  BY <1>1, <1>4, <1>6, <1>7, <1>8, DispatchWay

\* UnmaskTakes
LEMMA UnmaskTakesWay ==
  ASSUME Base, OnWay, UnmaskTakes
  PROVE  OnWay'
<1>1. PICK c : OnTop(Self, Top, c) /\ c = Tail(stack[Self])
  BY AtTop DEF UnmaskTakes, At
<1>2. PICK b, x, y, a :
           /\ b = Cons(Rest(Top, x), Tail(stack[Self])) /\ x = sig_lowest(Top.set) /\ x \in sig_pendingset(z, Self)
           /\ y = sig_removependingsignal(z, Self, x) /\ a = FirstPending(z, Self, x) /\ a \in Action
           /\ Dispatching(Self, y, b) /\ Dispatch(y, Self, a, b) /\ own' = own /\ corrupt' = corrupt
  BY UnmaskStarts
<1>3. PICK r, f, g : r = Self /\ f = Top /\ g = Rest(f, x)
  OBVIOUS
<1>4. /\ f.op = "unmask" /\ f \in Frame /\ c \in Seq(Frame) /\ r \in Client /\ r \in Task /\ z \in SigState
      /\ stack[r] = Cons(f, c)
  BY <1>1, <1>3 DEF UnmaskTakes, At, OnTop, Base, Typed
<1>5. g \in Frame
  <2>1. PICK h : h = [f EXCEPT !.set = @ \ {x}]
    OBVIOUS
  <2> QED  BY <1>3, <1>4, <2>1, RestMade
<1>6. b = Cons(g, c) /\ Dispatching(r, y, b) /\ Dispatch(y, r, a, b)
  BY <1>1, <1>2, <1>3
<1>7. y.actions = z.actions
  BY <1>2, <1>3, <1>4, RemovedState DEF Pends
<1>8. Keeps(Cons(f, c), c)
  BY <1>4, KeepsTail DEF Carrier
<1>9. Keeps(stack[r], c)
  BY <1>4, <1>8
<1>10. Keeps(stack[r], b)
  BY <1>4, <1>5, <1>6, <1>9, KeepsCons
<1> QED  BY <1>2, <1>4, <1>6, <1>7, <1>10, DispatchWay

\* The queue without the action i that the frame f has reached, when the frame h of the handler
\* has the one behind it before it.
LEMMA CutHead ==
  ASSUME NEW l \in Seq(Action), OnceIn(l), NEW i \in 1..Len(l), NEW m, IsCut(l, i, m),
         NEW f \in Frame, NEW h \in Frame, NEW b \in Seq(Frame), f.next = l[i].id, Carrier(h),
         h.next = IF i < Len(l) THEN l[i + 1].id ELSE NULL, HeadNext(l, Cons(f, b))
  PROVE  HeadNext(m, Cons(h, b))
<1>1. PICK p, s : p = Cons(f, b) /\ s = Cons(h, b)
  OBVIOUS
<1>2. Frames(p) = {f} \union Frames(b) /\ Frames(s) = {h} \union Frames(b)
  BY <1>1, FramesCons
<1>3. Len(l) \in Nat /\ m \in Seq(Action) /\ Len(m) = Len(l) - 1 /\ l # <<>>
  BY LenProperties, EmptySeq DEF IsCut
<1>4. SUFFICES ASSUME m # <<>> PROVE \E g \in Frames(s) : Carrier(g) /\ g.next = m[1].id
  BY <1>1 DEF HeadNext
<1>5. Len(m) \in Nat /\ Len(m) # 0
  BY <1>3, <1>4, EmptySeq, LenProperties
<1>6. 1 \in 1..(Len(l) - 1)
  BY <1>3, <1>5
<1>7. m[1] = IF 1 < i THEN l[1] ELSE l[1 + 1]
  BY <1>6 DEF IsCut
<1>8. CASE i = 1
  <2>1. m[1] = l[i + 1] /\ i < Len(l)
    BY <1>3, <1>6, <1>7, <1>8
  <2> QED  BY <1>2, <2>1
<1>9. CASE i # 1
  <2>1. m[1] = l[1] /\ 1 \in 1..Len(l)
    BY <1>3, <1>7, <1>9
  <2>2. l[1].id # l[i].id
    BY <1>9, <2>1 DEF OnceIn
  <2>3. PICK g \in Frames(p) : Carrier(g) /\ g.next = l[1].id
    BY <1>1, <1>3 DEF HeadNext
  <2>4. g \in Frames(b)
    BY <1>2, <2>2, <2>3
  <2> QED  BY <1>2, <2>1, <2>3, <2>4
<1> QED  BY <1>8, <1>9

\* DeliverTakes: nested calls of sig_deliver leave the head of the queue before one of them.
LEMMA DeliverTakesWay ==
  ASSUME Base, HandledOnly, Uniq, OnWay, DeliverTakes
  PROVE  OnWay'
<1>1. PICK b : OnTop(Self, Top, b) /\ b = Tail(stack[Self])
  BY AtTop DEF DeliverTakes, At
<1>2. PICK l, i, m, d, h : /\ Delivers(Self, Top, l, i, m, d, h)
                           /\ Going(Self, Cons(h, Tail(stack[Self])), d, own[Self])
  BY DeliverTakesGoes
<1>3. PICK r, f : r = Self /\ f = Top
  OBVIOUS
<1>4. /\ OnTop(r, f, b) /\ Delivers(r, f, l, i, m, d, h) /\ Going(r, Cons(h, b), d, own[r]) /\ b \in Seq(Frame)
      /\ r \in Client /\ r \in Task /\ f \in Frame /\ stack[r] = Cons(f, b)
  BY <1>1, <1>2, <1>3 DEF OnTop
<1>5. /\ l = z.actions[r] /\ l \in Seq(Action) /\ h \in Frame /\ h.op = "handler" /\ z'.sigdeliver = z.sigdeliver
      /\ z'.actions = [z.actions EXCEPT ![r] = m] /\ z.actions \in ActMap /\ i \in 1..Len(l) /\ l[i].id = f.next
      /\ h.next = IF i < Len(l) THEN l[i + 1].id ELSE NULL
  BY <1>4 DEF Delivers, Base, Typed, SigState
<1>6. r \notin z.sigdeliver /\ f.op = "deliver"
  BY <1>3 DEF DeliverTakes, At
<1>7. OnceIn(l)
  BY <1>4, <1>5 DEF Uniq, Distinct
<1>8. IsCut(l, i, m)
  <2>1. PICK j : l[j] = l[i] /\ IsCut(l, j, m)
    BY <1>4 DEF Delivers
  <2>2. j \in 1..Len(l)
    BY <2>1 DEF IsCut
  <2>3. j = i
    BY <1>5, <1>7, <2>1, <2>2 DEF OnceIn
  <2> QED  BY <2>1, <2>3
<1>9. PICK p, s : p = Cons(f, b) /\ s = Cons(h, b)
  OBVIOUS
<1>10. Frames(p) = {f} \union Frames(b) /\ Frames(s) = {h} \union Frames(b) /\ stack[r] = p
  BY <1>4, <1>5, <1>9, FramesCons
<1>11. \A t \in Client : Called(p, t) => Called(s, t)
  BY <1>6, <1>10 DEF Called
<1>12. ASSUME NEW t \in Client PROVE StaysOn(r, s, t)
  <2>1. CASE t # r
    <3>1. t \in Task
      BY DEF Client
    <3>2. z'.actions[t] = z.actions[t]
      BY <1>5, <2>1, <3>1 DEF ActMap
    <3> QED  BY <1>5, <1>10, <1>11, <2>1, <3>2 DEF StaysOn
  <2>2. CASE t = r /\ Called(p, r)
    BY <1>11, <2>2 DEF StaysOn
  <2>3. CASE t = r /\ ~Called(p, r)
    <3>1. HeadNext(l, p)
      BY <1>3, <1>4, <1>5, <1>6, <1>10, <2>3 DEF OnWay
    <3>2. HeadNext(l, Cons(f, b)) /\ Carrier(h) /\ f.next = l[i].id
      BY <1>5, <1>9, <3>1 DEF Carrier
    <3>3. HeadNext(m, Cons(h, b))
      BY ONLY <1>4, <1>5, <1>7, <1>8, <3>2, CutHead
    <3>4. z'.actions[t] = m
      BY <1>4, <1>5, <2>3 DEF ActMap
    <3> QED  BY <1>9, <2>3, <3>3, <3>4 DEF StaysOn
  <2> QED  BY <2>1, <2>2, <2>3
<1>13. Moved(r, s, d, own[r])
  BY <1>4, <1>9, GoingMoves
<1> QED  BY <1>12, <1>13, WayMoved

\* DeliverFreed leaves the calls and the queues as they are.
LEMMA DeliverFreedWay ==
  ASSUME Base, OnWay, DeliverFreed
  PROVE  OnWay'
<1>1. PICK r : r = Self
  OBVIOUS
<1>2. Going(r, stack[r], z.mask[r], own[r]) /\ z' = z
  BY <1>1, DeliverFreedGoes
<1>3. Moved(r, stack[r], z.mask[r], own[r]) /\ Keeps(stack[r], stack[r])
  BY <1>2, GoingMoves, KeepsSelf
<1> QED  BY <1>2, <1>3, WaySame

\* IsrKill makes the task continue in up_sigdeliver; SigTimeout queues nothing.
LEMMA InterruptWay ==
  ASSUME Base, sent \in 0..MaxSends, OnWay, Interrupt
  PROVE  OnWay'
<1>1. PICK r, s : r = Self /\ s = stack[r]
  OBVIOUS
<1>2. Keeps(stack[r], s) /\ z \in SigState
  BY <1>1, KeepsSelf DEF Base, Typed
<1>3. ASSUME NEW t \in Client, SigTimeout(t) PROVE OnWay'
  <2>1. Interrupts /\ z'.actions = z.actions /\ z'.sigdeliver = z.sigdeliver
    BY <1>3, SigTimeoutDoes
  <2>2. Moved(r, s, z.mask[r], own[r])
    BY <1>1, <2>1, InterruptMoves
  <2> QED  BY <1>2, <2>1, <2>2, WaySame
<1>4. ASSUME NEW t \in Client, NEW x \in IsrSig, IsrKill(t, x) PROVE OnWay'
  <2>1. Interrupts /\ \E a : a \in Action /\ IsrCases(t, a)
    BY <1>4, IsrKillDoes
  <2>2. PICK a \in Action : IsrCases(t, a)
    BY <2>1
  <2>3. Moved(r, s, z.mask[r], own[r])
    BY <1>1, <2>1, InterruptMoves
  <2>4. CASE \E y : Queues(z, t, a, y) /\ IsScheduled(y, t, z')
    <3>1. PICK y : Queues(z, t, a, y) /\ IsScheduled(y, t, z')
      BY <2>4
    <3>2. z'.actions = y.actions /\ z'.sigdeliver = z.sigdeliver \union {t}
      BY <3>1 DEF Queues, SameTasks, IsScheduled
    <3>3. ASSUME NEW u \in Client PROVE StaysOn(r, s, u)
      <4>1. CASE u = t
        BY <3>2, <4>1 DEF StaysOn
      <4>2. CASE u # t
        <5>1. u \in Task
          BY DEF Client
        <5>2. z'.actions[u] = z.actions[u]
          BY <1>2, <3>1, <3>2, <4>2, <5>1, QueuesOthers
        <5> QED  BY <1>2, <3>2, <5>2, StaysSame
      <4> QED  BY <4>1, <4>2
    <3> QED  BY <2>3, <3>3, WayMoved
  <2>5. CASE IsWoken(z, t, z') \/ \E m : Pends(z, t, m, z')
    <3>1. z'.actions = z.actions /\ z'.sigdeliver = z.sigdeliver
      BY <2>5 DEF IsWoken, SameSignals, Pends, SameTasks
    <3> QED  BY <1>2, <2>3, <3>1, WaySame
  <2> QED  BY <2>2, <2>4, <2>5 DEF IsrCases
<1> QED  BY <1>3, <1>4 DEF Interrupt

\* Every step keeps the queued actions on their way.
LEMMA NextWay ==
  ASSUME Ground, Uniq, OnWay, [Next]_vars
  PROVE  OnWay'
<1>1. Base /\ HandledOnly /\ sent \in 0..MaxSends
  BY DEF Ground
<1>2. ASSUME AppCall PROVE OnWay'
  <2>1. \A S \in SetArg : S \in SUBSET Sig
    BY SignalAssumption
  <2> QED  BY <1>1, <1>2, <2>1, KillWay, RestoreWay, WaitWay DEF AppCall
<1>3. ASSUME Step PROVE OnWay'
  <2>1. CASE SigAddPending \/ Return \/ TimedWaitResumed
    BY <1>1, <2>1, PopWay
  <2>2. CASE Schedule
    BY <1>1, <2>2, ScheduleOwnWay, ScheduleOtherWay DEF Schedule, ScheduleOwn, ScheduleOther
  <2>3. CASE up_sigdeliver
    BY <1>1, <2>3, SigdeliverWay
  <2>4. CASE DeliverNext
    <3>1. DeliverEnds \/ DeliverTakes \/ DeliverFreed
      BY <2>4 DEF DeliverEnds, DeliverTakes, DeliverFreed, DeliverNext
    <3> QED  BY <1>1, <3>1, PopWay, DeliverTakesWay, DeliverFreedWay
  <2>5. CASE HandlerReturn \/ SuspendResumed
    BY <1>1, <2>5, RestoreWay
  <2>6. CASE DeliverFree
    BY <1>1, <2>6, ReplaceWay
  <2>7. CASE UnmaskNext
    <3>1. UnmaskEnds \/ UnmaskSkips \/ UnmaskTakes
      BY <2>7 DEF UnmaskEnds, UnmaskSkips, UnmaskTakes, UnmaskNext
    <3> QED  BY <1>1, <3>1, PopWay, ReplaceWay, UnmaskTakesWay
  <2> QED  BY <1>3, <2>1, <2>2, <2>3, <2>4, <2>5, <2>6, <2>7 DEF Step
<1>4. ASSUME Interrupt PROVE OnWay'
  BY <1>1, <1>4, InterruptWay
<1>5. CASE UNCHANGED vars
  BY <1>5 DEF vars, OnWay, Self
<1> QED  BY <1>2, <1>3, <1>4, <1>5 DEF Next

\* The queued actions are on their way in every state.
LEMMA OnWayAlways == Spec => [](Base /\ OnWay)
<1>1. Init => OnWay
  <2> SUFFICES ASSUME Init, NEW t \in Client PROVE HeadNext(z.actions[t], stack[t])
    BY DEF OnWay
  <2>1. t \in Task
    BY DEF Client
  <2>2. z.actions = [u \in Task |-> <<>>]
    BY DEF Init
  <2>3. z.actions[t] = <<>>
    BY <2>1, <2>2
  <2> QED  BY <2>3 DEF HeadNext
<1>2. Ground /\ Uniq /\ OnWay /\ [Next]_vars => OnWay'
  BY NextWay
<1>3. Ground => Base
  BY DEF Ground
<1> QED  BY <1>1, <1>2, <1>3, GroundAlways, UniqAlways, PTL DEF Spec

\* An action queued for a handler is never stranded, for any tasks, masks and handlers and
\* however handlers nest and sends and interrupts fall: its task is to continue in
\* up_sigdeliver, or the sender is about to see to that, or a sig_deliver of the task still
\* has it before it.
THEOREM QueuedActionsOnWay == Spec => []ActionsWillBeDelivered
<1>1. Base /\ OnWay => ActionsWillBeDelivered
  <2> SUFFICES ASSUME Base, OnWay, NEW t \in Client, NEW n \in 1..Len(z.actions[t])
               PROVE  \/ t \in z.sigdeliver
                      \/ \E u \in Client : \E i \in 1..Len(stack[u]) :
                           stack[u][i].op = "schedule" /\ stack[u][i].to = t
                      \/ \E i \in 1..Len(stack[t]), m \in 1..n :
                           /\ stack[t][i].op \in {"deliver", "handler", "posted"}
                           /\ stack[t][i].next = z.actions[t][m].id
    BY DEF ActionsWillBeDelivered
  <2>1. t \in Task /\ Self \in Task
    BY Runner DEF Client
  <2>2. PICK l \in Seq(Action) : l = z.actions[t]
    BY <2>1 DEF Base, Typed, SigState, ActMap
  <2>3. Len(l) \in Nat /\ l # <<>> /\ 1 \in 1..n
    BY <2>2, LenProperties, EmptySeq
  <2>4. CASE Called(stack[Self], t)
    <3>1. PICK i \in 1..Len(stack[Self]) : stack[Self][i].op = "schedule" /\ stack[Self][i].to = t
      BY <2>4 DEF Called, Frames
    <3>2. stack[Self] # <<>>
      BY <3>1
    <3>3. Self \in Client
      BY <2>1, <3>2 DEF Client, Base, Typed
    <3> QED  BY <3>1, <3>3
  <2>5. CASE HeadNext(z.actions[t], stack[t])
    <3>1. PICK f \in Frames(stack[t]) : Carrier(f) /\ f.next = z.actions[t][1].id
      BY <2>2, <2>3, <2>5 DEF HeadNext
    <3>2. PICK i \in 1..Len(stack[t]) : f = stack[t][i]
      BY DEF Frames
    <3> QED  BY <2>3, <3>1, <3>2 DEF Carrier
  <2> QED  BY <2>4, <2>5 DEF OnWay
<1> QED  BY <1>1, OnWayAlways, PTL
=============================================================================
