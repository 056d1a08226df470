------------------------------- MODULE MC_Table -------------------------------
EXTENDS Table, TLC

CONSTANTS e1, e2, e3

\* Two entries share a name, so get and del act on the newest of them.
MCEntryName == [e \in Entries |-> IF e = e3 THEN "n2" ELSE "n1"]
\* strcmp puts "n1" before "n2".
MCNameRank == [n \in Names |-> IF n = "n1" THEN 1 ELSE 2]
\* The threads run the same code.
ThreadSymmetry == Permutations(Threads)
==============================================================================
