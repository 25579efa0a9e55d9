-------------------------- MODULE MCMergePending ---------------------------
EXTENDS MergePending
CONSTANTS idle, ta, tb, tc, td
=============================================================================
