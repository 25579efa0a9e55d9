------------------------------ MODULE MCMqueue ------------------------------
EXTENDS Mqueue
CONSTANTS idle, ta, tb, tc, q1, q2
\* Two tasks of the same priority and a more urgent one.
MCBootList == <<ta, tb, tc, idle>>
MCBootPrio == [t \in Task |-> IF t = idle THEN 0 ELSE IF t = ta THEN 2 ELSE 1]
=============================================================================
