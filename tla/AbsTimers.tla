----------------------------- MODULE AbsTimers ------------------------------
(***************************************************************************)
(* What a set of timers promises: each one counts down by itself, one per  *)
(* tick, is served in the tick in which its count reaches zero, and is not *)
(* disturbed by the others being set, stopped or served.                   *)
(***************************************************************************)
EXTENDS Integers

CONSTANT Timer

OFF == -1

VARIABLES
  left,    \* the ticks each timer has left, OFF if it is not running
  serving  \* a tick is being served

vars == <<left, serving>>

Init == left = [d \in Timer |-> OFF] /\ serving = FALSE

\* A timer that is set never expires in the current tick.
Setting == (Nat \ {0}) \union {OFF}

\* The timers of D are stopped or set, all others keep their time.
SetAll(D) ==
  /\ \A d \in D : left'[d] \in Setting
  /\ left' = [d \in Timer |-> IF d \in D THEN left'[d] ELSE left[d]]
  /\ UNCHANGED serving

Tick ==
  /\ ~serving
  /\ left' = [d \in Timer |-> IF left[d] = OFF THEN OFF ELSE left[d] - 1]
  /\ serving' = TRUE

\* A timer that is due fires, and its handler may set it again.
Fire(d) == serving /\ left[d] = 0 /\ SetAll({d})

\* The tick is over when every timer that was due has been served.
Served ==
  /\ serving /\ \A d \in Timer : left[d] # 0
  /\ serving' = FALSE
  /\ UNCHANGED left

Next ==
  \/ Tick
  \/ Served
  \/ \E d \in Timer : Fire(d)
  \/ ~serving /\ \E d \in Timer : SetAll({d})
  \/ ~serving /\ \E D \in SUBSET Timer : SetAll(D) /\ \A d \in D : left'[d] = OFF

Spec == Init /\ [][Next]_vars
=============================================================================
