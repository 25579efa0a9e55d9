------------------------------ MODULE MCSignal ------------------------------
EXTENDS Signal
CONSTANTS idle, ta, tb
MCBootList == <<ta, tb, idle>>
MCBootPrio == [t \in Task |-> IF t = idle THEN 0 ELSE IF t = ta THEN 2 ELSE 1]
\* The handler of 1 runs with 1 masked, the handler of 2 with both masked.
MCSaMask == [s \in Handled |-> IF s = 1 THEN {} ELSE {1}]
=============================================================================
