----------------------------- MODULE ReadyOrder -----------------------------
(***************************************************************************)
(* The order in which tasks became runnable, recorded beside the Scheduler *)
(* as a history variable, to compare it with the order in which they will  *)
(* run.                                                                    *)
(***************************************************************************)
EXTENDS Scheduler

VARIABLE
  ahead   \* the pairs of runnable tasks of which the first became so before

Runnable(kk) == {t \in Task : kk.state[t] \in {"RUNNING", "READYTORUN", "PENDING"}}

\* The task that goes behind the others of its priority in this step although
\* it stays runnable: it yields, uses up its time slice or gets a priority.
SentBack ==
  IF pc[Self].at = "setparam" /\ pc'[Self].at = "setparam_unlock" THEN {pc[Self].who}
  ELSE IF pc' = pc /\ k'.state[Self] = "READYTORUN"
          /\ Runnable(k') = Runnable(k) THEN {Self}
  ELSE {}

\* The tasks that stay runnable keep their order, and are ahead of a new one.
Record ==
  LET stay == (Runnable(k) \cap Runnable(k')) \ SentBack
  IN  ahead' = (ahead \cap (stay \X stay)) \union (stay \X (Runnable(k') \ stay))

OrderInit == Init /\ ahead = {}
OrderNext == Next /\ Record
OrderSpec == OrderInit /\ [][OrderNext]_<<vars, ahead>>
OrderFairSpec == OrderSpec /\ WF_vars(Tick) /\ WF_vars(FinishCall)

\* Tasks of equal priority are scheduled first in, first out: in g_readytorun
\* they are in the order in which they became runnable, the time they spent on
\* g_pendingtasks included.
EqualPriorityFifo ==
  LET R == k.list["READYTORUN"] IN
    \A i, j \in 1..Len(R) :
      i < j /\ k.prio[R[i]] = k.prio[R[j]] => <<R[i], R[j]>> \in ahead
=============================================================================
