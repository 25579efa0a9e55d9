--------------------------- MODULE NonPreemptive ---------------------------
(***************************************************************************)
(* The cooperative priority scheduler of                                   *)
(* scheduling/NonPreemtiveScheduler/sources/hello_world.c: a static table  *)
(* of tasks, a scheduler() that scans it for the most urgent live task and *)
(* a main loop that runs the selected task once and stores the state that  *)
(* it returns.  The table is what the user of the file edits, so that its  *)
(* priorities are any.                                                     *)
(***************************************************************************)
EXTENDS Integers

CONSTANTS
  TASK_NUMBER,  \* length of the table
  MaxPrio,      \* bound on the prio fields
  PRINT_LIM,    \* how often a task prints before it reports TASK_TERM
  SIZE_MOD      \* 2^w for the w-bit size_t of the build: cnt++ wraps at SIZE_MOD

Tasks == 0..(TASK_NUMBER - 1)

ASSUME TableAssumption ==
  /\ TASK_NUMBER \in Nat \ {0} /\ MaxPrio \in Nat
  /\ PRINT_LIM \in Nat /\ SIZE_MOD \in Nat /\ PRINT_LIM < SIZE_MOD

TaskStates == {"NEW", "RDY", "RUN", "WAIT", "TERM"}

VARIABLES
  prio,   \* TASKS[i].prio, never assigned
  state,  \* TASKS[i].state
  cnt,    \* the static counter of each print_i
  t       \* main's local t: the task that ran last

vars == <<prio, state, cnt, t>>

TypeOK ==
  /\ prio \in [Tasks -> 0..MaxPrio]
  /\ state \in [Tasks -> TaskStates]
  /\ cnt \in [Tasks -> 0..(SIZE_MOD - 1)]
  /\ t \in Tasks
-----------------------------------------------------------------------------
\* The states the scan accepts.
Eligible == {i \in Tasks : state[i] \in {"NEW", "RDY", "RUN"}}

\* Fault: the scan keeps the first of several tasks of the same priority.
CandidatesStrict == {i \in Eligible : \A j \in Eligible : j < i => prio[j] < prio[i]}

\* The entries the scan stops at (curr_prio <= TASKS[i].prio): eligible, with
\* no larger prio before them.  Each is marked TASK_RUN, the last is selected.
Candidates == {i \in Eligible : \A j \in Eligible : j < i => prio[j] <= prio[i]}

\* scheduler(t): with nothing eligible it returns its argument.
Selected == IF Candidates = {} THEN t ELSE CHOOSE i \in Candidates : \A j \in Candidates : j <= i

\* Fault: a task never reports that it is done.
PrintForever(i) == "RDY"

\* What print_i returns: it prints while cnt++ < PRINT_LIM.
PrintResult(i) == IF cnt[i] < PRINT_LIM THEN "RDY" ELSE "TERM"

\* Fault: the counter is not confined to size_t.
IncUnbounded(c) == c + 1

\* cnt++ on a size_t.
Inc(c) == (c + 1) % SIZE_MOD

\* init_tasks and the prologue of main.
Init ==
  /\ prio \in [Tasks -> 0..MaxPrio]
  /\ state = [i \in Tasks |-> "NEW"]
  /\ cnt = [i \in Tasks |-> 0]
  /\ t = 0

\* One turn of main's loop: t = scheduler(t); t->state = t->pTask();
RunOnce ==
  LET n == Selected IN
    /\ state' = [i \in Tasks |-> IF i = n THEN PrintResult(n)
                                 ELSE IF i \in Candidates THEN "RUN"
                                 ELSE state[i]]
    /\ cnt' = [cnt EXCEPT ![n] = Inc(@)]
    /\ t' = n
    /\ UNCHANGED prio

Next == RunOnce

Spec == Init /\ [][Next]_vars

\* main's loop never stops.
FairSpec == Spec /\ WF_vars(Next)
-----------------------------------------------------------------------------
\* i is served before j: more urgent, or as urgent and later in the table.
Before(i, j) == prio[i] > prio[j] \/ (prio[i] = prio[j] /\ i > j)

\* A task is not started until every task served before it has reported
\* TASK_TERM, although the scan also marks tasks TASK_RUN that do not run.
RunsToCompletion ==
  \A i, j \in Tasks : Before(i, j) /\ state[i] # "TERM" => cnt[j] = 0

\* Every task of the table gets finished, the least urgent one too.
AllTerminate == <>(\A i \in Tasks : state[i] = "TERM")
=============================================================================
