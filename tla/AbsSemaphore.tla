---------------------------- MODULE AbsSemaphore ----------------------------
(***************************************************************************)
(* What a counting semaphore promises, without task lists, priorities or   *)
(* negative counts: permits are neither lost nor duplicated, a waiter gets *)
(* a permit or fails, and nothing but a wait's own end takes it back.      *)
(***************************************************************************)
EXTENDS Naturals, FiniteSets

CONSTANTS Task, Sem, InitCount, ResetArg, NULL

VARIABLES
  avail,   \* the free permits of each semaphore
  status   \* what each task's wait has come to: [phase, sem]

vars == <<avail, status>>

Idle == [phase |-> "idle", sem |-> NULL]
Waiters(s) == {t \in Task : status[t] = [phase |-> "waiting", sem |-> s]}

Init ==
  /\ avail = InitCount
  /\ status = [t \in Task |-> Idle]

\* A permit is taken at once.
Take(t, s) ==
  /\ status[t] = Idle /\ avail[s] > 0
  /\ avail' = [avail EXCEPT ![s] = @ - 1]
  /\ UNCHANGED status

Wait(t, s) ==
  /\ status[t] = Idle /\ avail[s] = 0
  /\ status' = [status EXCEPT ![t] = [phase |-> "waiting", sem |-> s]]
  /\ UNCHANGED avail

\* The tasks in W are handed a permit each.
Grant(W) ==
  status' = [t \in Task |-> IF t \in W THEN [phase |-> "granted", sem |-> NULL] ELSE status[t]]

Post(s) ==
  \/ Waiters(s) = {} /\ avail' = [avail EXCEPT ![s] = @ + 1] /\ UNCHANGED status
  \/ \E t \in Waiters(s) : Grant({t}) /\ UNCHANGED avail

\* n permits: for the waiters first, what remains replaces the count.
Reset(s, n) ==
  \E W \in SUBSET Waiters(s) :
    /\ Cardinality(W) <= n
    /\ Cardinality(W) < n => W = Waiters(s)
    /\ Grant(W)
    /\ avail' = IF W = Waiters(s) THEN [avail EXCEPT ![s] = n - Cardinality(W)] ELSE avail

\* A signal or a timeout ends a wait: no permit is consumed.
Abort(t) ==
  /\ status[t].phase = "waiting"
  /\ status' = [status EXCEPT ![t] = [phase |-> "failed", sem |-> NULL]]
  /\ UNCHANGED avail

Return(t) ==
  /\ status[t].phase \in {"granted", "failed"}
  /\ status' = [status EXCEPT ![t] = Idle]
  /\ UNCHANGED avail

\* The task starts over: its wait, or the permit it was handed, is gone.
Restart(t) ==
  /\ status' = [status EXCEPT ![t] = Idle]
  /\ UNCHANGED avail

Next ==
  \/ \E t \in Task, s \in Sem : Take(t, s) \/ Wait(t, s)
  \/ \E t \in Task : Abort(t) \/ Return(t) \/ Restart(t)
  \/ \E s \in Sem : Post(s) \/ \E n \in ResetArg : Reset(s, n)

Spec == Init /\ [][Next]_vars
=============================================================================
