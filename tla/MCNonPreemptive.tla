-------------------------- MODULE MCNonPreemptive ---------------------------
EXTENDS NonPreemptive
=============================================================================
