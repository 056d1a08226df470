------------------------------ MODULE MC_Thread ------------------------------
EXTENDS Thread

CONSTANTS o1, o2, i1, i2
=============================================================================
