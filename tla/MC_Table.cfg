\* Three threads, three entries (two named n1), callers following the usage
\* of table_test.cpp.
CONSTANTS
    Threads = {t1, t2, t3}
    Entries = {e1, e2, e3}
    Names = {"n1", "n2"}
    EntryName <- MCEntryName
    NoThread = NoThread
    NULL = NULL
    NameRank <- MCNameRank
    ContinueAfterAbort = FALSE
    e1 = e1
    e2 = e2
    e3 = e3
SPECIFICATION Spec
INVARIANT NoWaitCycle
INVARIANT NoUseAfterFree
INVARIANT ListHoldsTable
INVARIANT ReverseReverses
INVARIANT SortSorts
PROPERTY ListImplementsSeq
SYMMETRY ThreadSymmetry
