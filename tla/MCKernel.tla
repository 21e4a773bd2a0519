------------------------------ MODULE MCKernel ------------------------------
EXTENDS KernelProperties, TLC

CONSTANTS main, t2, t3, t4, l1, l2, c1, s1

Workers == Permutations(Threads \ {Main}) \cup Permutations(Locks)

NoMonitor == <<>>
OneMonitor == [c \in {c1} |-> l1]
=============================================================================
