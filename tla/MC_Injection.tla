---------------------------- MODULE MC_Injection ------------------------------
EXTENDS Injection

CONSTANTS p1, p2
=============================================================================
