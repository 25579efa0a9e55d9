---------------------------- MODULE MCScheduler -----------------------------
EXTENDS Scheduler
CONSTANTS idle, mgr, ta, tb
=============================================================================
