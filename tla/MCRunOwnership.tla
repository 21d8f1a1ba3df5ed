---------------------------- MODULE MCRunOwnership ----------------------------
EXTENDS RunOwnership, TLC

CONSTANTS c1, c2, s1, t1, t2

MCServerOf == [t \in Threads |-> s1]
=============================================================================
