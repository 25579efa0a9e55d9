------------------------ MODULE NonPreemptiveProofs -------------------------
(***************************************************************************)
(* For every table of tasks, PRINT_LIM and width of size_t: the scan of    *)
(* scheduler() selects the task served before all others, and each task is *)
(* run to completion before the next one starts.                           *)
(***************************************************************************)
EXTENDS NonPreemptive, WellFoundedInduction, TLAPS

\* Every search from the front of a list finds a first element.
LEMMA LeastElement ==
  ASSUME NEW S \in SUBSET Nat, S # {}
  PROVE  \E m \in S : \A n \in S : m <= n
<1>1. \E m \in S : \A n \in S : <<n, m>> \notin OpToRel(<, Nat)
  BY NatLessThanWellFounded, WFMin
<1>2. PICK m \in S : \A n \in S : <<n, m>> \notin OpToRel(<, Nat)
  BY <1>1
<1>3. \A n \in S : m <= n
  <2> SUFFICES ASSUME NEW n \in S, ~(m <= n) PROVE FALSE
    OBVIOUS
  <2>1. n \in Nat /\ m \in Nat /\ n < m
    OBVIOUS
  <2>2. <<n, m>> \in OpToRel(<, Nat)
    BY <2>1, Zenon DEF OpToRel
  <2> QED  BY <2>2, <1>2
<1> QED  BY <1>3

\* Every search from the back of a bounded range finds a last element.
LEMMA GreatestElement ==
  ASSUME NEW b \in Nat, NEW S \in SUBSET (0..b), S # {}
  PROVE  \E m \in S : \A n \in S : n <= m
<1> DEFINE T == {n \in Nat : b - n \in S}
<1>1. T \in SUBSET Nat /\ T # {}
  <2>1. PICK s \in S : TRUE
    OBVIOUS
  <2>2. b - s \in T
    BY <2>1
  <2> QED  BY <2>2
<1>2. PICK m \in T : \A n \in T : m <= n
  BY <1>1, LeastElement
<1>3. \A n \in S : n <= b - m
  <2> SUFFICES ASSUME NEW n \in S PROVE n <= b - m
    OBVIOUS
  <2>1. b - n \in T
    OBVIOUS
  <2> QED  BY <2>1, <1>2
<1> QED  BY <1>2, <1>3

\* What RunsToCompletion needs to be inductive.  A task whose counter has
\* wrapped round becomes TASK_RDY again: that is harmless because the only
\* task that runs after it terminated is the last one in the order.
IInv ==
  /\ TypeOK
  /\ \A i \in Tasks : state[i] # "WAIT"
  /\ \A i, j \in Tasks : Before(i, j) /\ state[i] # "TERM" => cnt[j] = 0 /\ state[j] # "TERM"
  /\ (\A i \in Tasks : state[i] = "TERM") => \A j \in Tasks : ~Before(t, j)

\* The scan finds a task whenever one is eligible.
LEMMA ScanFinds ==
  ASSUME TypeOK, Eligible # {}
  PROVE  Candidates # {}
<1>1. Eligible \in SUBSET Nat
  BY TableAssumption DEF Eligible, Tasks
<1>2. PICK m \in Eligible : \A n \in Eligible : m <= n
  BY <1>1, LeastElement
<1>3. m \in Candidates
  BY <1>1, <1>2 DEF Candidates
<1> QED  BY <1>3

\* The task the scan selects: the last of those it marks.
LEMMA SelectedIsLast ==
  ASSUME TypeOK, Candidates # {}
  PROVE  Selected \in Candidates /\ \A j \in Candidates : j <= Selected
<1>1. Candidates \in SUBSET (0..TASK_NUMBER) /\ TASK_NUMBER \in Nat
  BY TableAssumption DEF Candidates, Eligible, Tasks
<1>2. \E i \in Candidates : \A j \in Candidates : j <= i
  BY <1>1, GreatestElement
<1> QED  BY <1>2 DEF Selected

\* No eligible task is served before the selected one.
LEMMA SelectedIsFirstServed ==
  ASSUME TypeOK, Candidates # {}, NEW i \in Eligible
  PROVE  Selected \in Eligible /\ ~Before(i, Selected)
<1> DEFINE n == Selected
<1>1. n \in Candidates /\ \A j \in Candidates : j <= n
  BY SelectedIsLast
<1>2. Eligible \in SUBSET Nat /\ Candidates \subseteq Eligible
      /\ \A j \in Eligible : prio[j] \in Nat
  BY TableAssumption DEF Eligible, Candidates, Tasks, TypeOK
<1>3. n \in Eligible
  BY <1>1, <1>2
<1> HIDE DEF n
<1>4. CASE i <= n
  BY <1>1, <1>2, <1>3, <1>4 DEF Candidates, Before, n
<1>5. CASE n < i
  <2> SUFFICES ASSUME prio[n] <= prio[i] PROVE FALSE
    BY <1>2, <1>3, <1>5 DEF Before, n
  <2> DEFINE L == {e \in Eligible : n < e /\ prio[n] <= prio[e]}
  <2>1. L \in SUBSET Nat /\ i \in L
    BY <1>2, <1>5
  <2>2. PICK e \in L : \A f \in L : e <= f
    BY <2>1, LeastElement
  <2>3. \A j \in Eligible : j < e => prio[j] <= prio[e]
    <3> SUFFICES ASSUME NEW j \in Eligible, j < e PROVE prio[j] <= prio[e]
      OBVIOUS
    <3>1. CASE j <= n
      BY <1>1, <1>2, <1>3, <2>2, <3>1 DEF Candidates
    <3>2. CASE n < j
      BY <1>2, <1>3, <2>2, <3>2
    <3> QED  BY <1>2, <1>3, <3>1, <3>2
  <2>4. e \in Candidates
    BY <2>2, <2>3 DEF Candidates
  <2> QED  BY <1>1, <1>2, <1>3, <2>2, <2>4
<1> QED  BY <1>2, <1>3, <1>4, <1>5 DEF n

\* The tables of hello_world.c start in the invariant.
LEMMA InitIInv == Init => IInv
<1> SUFFICES ASSUME Init PROVE IInv
  OBVIOUS
<1>1. TypeOK
  BY TableAssumption DEF Init, TypeOK, Tasks, TaskStates
<1>2. 0 \in Tasks
  BY TableAssumption DEF Tasks
<1> QED  BY <1>1, <1>2 DEF IInv, Init, Before

\* One pass of the scheduling loop preserves the invariant.
LEMMA NextIInv == IInv /\ [Next]_vars => IInv'
<1> SUFFICES ASSUME IInv, [Next]_vars PROVE IInv'
  OBVIOUS
<1>1. CASE UNCHANGED vars
  BY <1>1 DEF IInv, TypeOK, Before, vars
<1>2. CASE RunOnce
  <2> DEFINE n == Selected
  <2>1. TypeOK /\ prio' = prio /\ t' = n
    BY <1>2 DEF RunOnce, IInv
  <2>2. /\ state' = [i \in Tasks |-> IF i = n THEN PrintResult(n)
                                     ELSE IF i \in Candidates THEN "RUN" ELSE state[i]]
        /\ cnt' = [cnt EXCEPT ![n] = Inc(@)]
    BY <1>2 DEF RunOnce
  <2>3. Candidates \subseteq Tasks /\ n \in Tasks
    BY <2>1, SelectedIsLast DEF Candidates, Eligible, Selected, TypeOK
  <2>4. PrintResult(n) \in {"RDY", "TERM"}
    BY DEF PrintResult
  <2> HIDE DEF n
  <2>5. Inc(cnt[n]) \in 0..(SIZE_MOD - 1)
    BY <2>1, <2>3, TableAssumption DEF Inc, TypeOK
  <2>6. TypeOK'
    BY <2>1, <2>2, <2>3, <2>4, <2>5 DEF TypeOK, TaskStates
  <2>7. \A i \in Tasks : state'[i] # "WAIT"
    BY <2>2, <2>4 DEF IInv
  <2>8. \A i, j \in Tasks : Before(i, j)' <=> Before(i, j)
    BY <2>1 DEF Before
  <2>9. CASE Candidates = {}
    <3>1. Eligible = {}
      BY <2>1, <2>9, ScanFinds
    <3>2. \A i \in Tasks : state[i] = "TERM"
      BY <3>1 DEF IInv, Eligible, TypeOK, TaskStates
    <3>3. n = t
      BY <2>9 DEF n, Selected
    <3>4. \A j \in Tasks : ~Before(t, j)
      BY <3>2 DEF IInv
    <3>5. \A i \in Tasks : i # n => state'[i] = "TERM"
      BY <2>2, <2>9, <3>2
    <3>6. \A i, j \in Tasks : Before(i, j)' /\ state'[i] # "TERM" => cnt'[j] = 0 /\ state'[j] # "TERM"
      BY <2>8, <3>3, <3>4, <3>5
    <3>7. \A j \in Tasks : ~Before(t, j)'
      BY <2>1, <3>3, <3>4 DEF Before
    <3> QED  BY <2>1, <2>6, <2>7, <3>3, <3>6, <3>7 DEF IInv, Before
  <2>10. CASE Candidates # {}
    <3>1. n \in Eligible /\ \A i \in Eligible : ~Before(i, n)
      BY <2>1, <2>10, SelectedIsFirstServed, SelectedIsLast DEF n, Candidates
    <3>2. \A i \in Tasks : state[i] = "TERM" <=> i \notin Eligible
      BY DEF IInv, Eligible, TypeOK, TaskStates
    <3>3. Candidates \subseteq Eligible
      BY DEF Candidates
    <3>4. \A i \in Tasks : state'[i] # "TERM" => state[i] # "TERM"
      BY <2>2, <3>1, <3>2, <3>3
    <3>5. \A i \in Tasks : i # n /\ state[i] # "TERM" => state'[i] # "TERM"
      BY <2>2
    <3>6. ASSUME NEW i \in Tasks, NEW j \in Tasks, Before(i, j), state[i] # "TERM"
          PROVE  cnt'[j] = 0 /\ state'[j] # "TERM"
      <4>1. cnt[j] = 0 /\ state[j] # "TERM"
        BY <3>6 DEF IInv
      <4>2. j # n
        BY <3>1, <3>2, <3>6
      <4> QED  BY <2>1, <2>2, <2>3, <3>5, <4>1, <4>2 DEF TypeOK
    <3>7. ASSUME \A i \in Tasks : state'[i] = "TERM", NEW j \in Tasks, Before(n, j)
          PROVE  FALSE
      <4>1. state'[j] # "TERM"
        BY <2>3, <3>1, <3>2, <3>6, <3>7
      <4> QED  BY <3>7, <4>1
    <3> QED  BY <2>1, <2>3, <2>6, <2>7, <2>8, <3>4, <3>6, <3>7 DEF IInv, Before
  <2> QED  BY <2>9, <2>10
<1> QED  BY <1>1, <1>2 DEF Next

\* The counters stay in size_t and t always points into the table.
THEOREM TypeCorrect == Spec => []TypeOK
<1>1. IInv => TypeOK
  BY DEF IInv
<1> QED  BY <1>1, InitIInv, NextIInv, PTL DEF Spec

\* Whatever the table of priorities, no task of hello_world.c is started
\* before every task served before it has reported TASK_TERM.
THEOREM RunToCompletion == Spec => []RunsToCompletion
<1>1. IInv => RunsToCompletion
  BY DEF IInv, RunsToCompletion
<1> QED  BY <1>1, InitIInv, NextIInv, PTL DEF Spec
=============================================================================
