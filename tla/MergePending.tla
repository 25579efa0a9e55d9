---------------------------- MODULE MergePending ----------------------------
(***************************************************************************)
(* The loop of sched_mergepending, one pending task per step, for every    *)
(* pair of sorted lists of bounded length: it computes Kernel's Merged,    *)
(* the closed form that the other modules and the proofs use.              *)
(***************************************************************************)
EXTENDS Kernel, FiniteSets

CONSTANT MaxPending   \* bound on the length of g_pendingtasks

ASSUME MergePendingAssumption == MaxPending \in Nat /\ IsFiniteSet(Task)

VARIABLES
  P0, R0,   \* the two lists when the function is called
  prio,     \* the priorities of their tasks
  ready,    \* g_readytorun
  ptcb,     \* the number of pending tasks already moved
  rtcb,     \* position of the cursor rtcb in ready
  ret       \* whether the head of ready was replaced

vars == <<P0, R0, prio, ready, ptcb, rtcb, ret>>

InOrder(l) == \A i, j \in 1..Len(l) : i < j => prio[l[i]] >= prio[l[j]]

\* The two lists share no task; the idle task ends the ready-to-run list.
Init ==
  /\ prio \in {f \in [Task -> 0..SCHED_PRIORITY_MAX] :
                 \A t \in Task : f[t] = 0 <=> t = IDLE}
  /\ \E order \in [1..Cardinality(Task) -> Task], n \in 0..MaxPending :
       /\ \A i, j \in DOMAIN order : order[i] = order[j] => i = j
       /\ n < Cardinality(Task)
       /\ P0 = SubSeq(order, 1, n)
       /\ R0 = SubSeq(order, n + 1, Cardinality(Task))
  /\ R0[Len(R0)] = IDLE
  /\ InOrder(P0) /\ InOrder(R0)
  /\ ready = R0 /\ ptcb = 0 /\ rtcb = 1 /\ ret = FALSE

\* Fault: the search stops at a task of the same priority.
PlaceBeforeEqual(p) ==
  CHOOSE i \in rtcb..Len(ready) :
    /\ prio[ready[i]] <= p
    /\ \A n \in rtcb..(i - 1) : p < prio[ready[n]]

\* The inner loop: from the cursor to the first task of lower priority.
Place(p) ==
  CHOOSE i \in rtcb..Len(ready) :
    /\ prio[ready[i]] < p
    /\ \A n \in rtcb..(i - 1) : p <= prio[ready[n]]

\* The cursor is left on the task just inserted.
NextCursor(i) == i

\* One turn of the outer loop.
MoveOne ==
  LET t == P0[ptcb + 1] IN
    /\ ptcb < Len(P0)
    /\ ready' = InsertAtPos(ready, Place(prio[t]), t)
    /\ rtcb' = NextCursor(Place(prio[t]))
    /\ ret' = (ret \/ Place(prio[t]) = 1)
    /\ ptcb' = ptcb + 1
    /\ UNCHANGED <<P0, R0, prio>>

Done == ptcb = Len(P0) /\ UNCHANGED vars

Next == MoveOne \/ Done

Spec == Init /\ [][Next]_vars

\* The single pass over both lists gives the merge that Kernel defines, and
\* reports a new head exactly when there is one.
LoopComputesMerged ==
  ptcb = Len(P0) => /\ ready = Merged(P0, R0, prio)
                    /\ ret <=> ready[1] # R0[1]

\* The merge keeps the list sorted and, among equals, ready tasks stay ahead.
MergeIsStable ==
  \A i, j \in 1..Len(ready) : i < j =>
    /\ prio[ready[i]] >= prio[ready[j]]
    /\ prio[ready[i]] = prio[ready[j]] /\ InList(R0, ready[j]) => InList(R0, ready[i])
=============================================================================
