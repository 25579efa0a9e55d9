---------------------------- MODULE MCTimerSystem ---------------------------
EXTENDS TimerSystem
=============================================================================
