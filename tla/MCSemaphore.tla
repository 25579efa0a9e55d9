---------------------------- MODULE MCSemaphore -----------------------------
EXTENDS Semaphore
CONSTANTS idle, ta, tb, tc, s1, s2
\* Two tasks of the same priority and a less urgent one; a binary semaphore
\* and one that starts without a permit.
MCBootList == <<ta, tb, tc, idle>>
MCBootListSmall == <<ta, tc, idle>>
MCBootPrio == [t \in Task |-> IF t = idle THEN 0 ELSE IF t = tc THEN 1 ELSE 2]
MCInitCount == [s \in Sem |-> IF s = s1 THEN 1 ELSE 0]
=============================================================================
