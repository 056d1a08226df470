-------------------------------- MODULE Table --------------------------------
(***************************************************************************)
(* The locked name -> record Table of src/table.cpp, used by several       *)
(* threads, with the pthread locks of src/PadThreads.h and the llist       *)
(* operations it calls.                                                    *)
(*                                                                         *)
(* The table is an llist of entries, newest first (the pointer-level      *)
(* list of LList, one node per entry), guarded by three locks:             *)
(* the rwlock table_rwlock (read-held for a whole walk, write-held by del),*)
(* the mutex tableLock (held while the list is read or changed) and a      *)
(* mutex per entry (held by the thread get or a walk handed the entry to). *)
(* Every blocking lock request is a state of its own, so the threads that  *)
(* wait and what they wait for are visible.                                *)
(*                                                                         *)
(* Callers follow the usage of table_test.cpp: an entry handed out by get, *)
(* getFirst or getNext is released before the thread calls the table       *)
(* again, and a walk runs to its end or is abandoned with abortWalk.       *)
(***************************************************************************)
EXTENDS Integers, Sequences, SequencesExt, Relation

CONSTANTS
    Threads,            \* threads using the table
    Entries,            \* TableEntry objects, each added at most once
    Names,              \* names looked up by get and del
    EntryName,          \* the name of each entry (names may repeat)
    NoThread,           \* owner of a free lock
    NULL,               \* the null pointer
    NameRank,           \* the order strcmp puts the names in
    ContinueAfterAbort  \* the walk of table_test.cpp main: getNext after
                        \* abortWalk

ASSUME EntryName \in [Entries -> Names] /\ NoThread \notin Threads
       /\ NameRank \in [Names -> Nat]
       /\ ContinueAfterAbort \in BOOLEAN

VARIABLES
    list,        \* the llist: head, next, prev and val of each node
    status,      \* per entry: "new" (not yet added), "intable", "freed"
    tableLock,   \* holder of tableLock, or NoThread
    writer,      \* holder of table_rwlock for writing, or NoThread
    readers,     \* holders of table_rwlock for reading
    entryOwner,  \* per entry: holder of its lock, or NoThread
    pc,          \* per thread: where it is in a table call
    cur,         \* per thread: the Entry (and walk cursor) it refers to
    name         \* per thread: the name get or del looks for

vars == <<list, status, tableLock, writer, readers, entryOwner, pc, cur,
          name>>
locks == <<tableLock, writer, readers, entryOwner>>

PCs == {"idle", "add", "get", "get_acq", "holding", "del_rw", "del_tl",
        "del_acq", "first_rw", "first_tl", "walk_acq", "walk_holding",
        "walk", "next_tl", "dtor_tl", "dtor_pop", "dtor_acq", "gone"}

TypeOK ==
    /\ list \in [head : Entries \cup {NULL}, next : [Entries -> Entries \cup {NULL}],
                 prev : [Entries -> Entries \cup {NULL}], val : [Entries -> Entries]]
    /\ status \in [Entries -> {"new", "intable", "freed"}]
    /\ tableLock \in Threads \cup {NoThread}
    /\ writer \in Threads \cup {NoThread}
    /\ readers \subseteq Threads
    /\ entryOwner \in [Entries -> Threads \cup {NoThread}]
    /\ pc \in [Threads -> PCs]
    /\ cur \in [Threads -> Entries] /\ name \in [Threads -> Names]

-----------------------------------------------------------------------------
(* PadThreads: CriticalSection::enter is pthread_mutex_lock on a default   *)
(* (non-recursive) mutex; rwlock is a pthread rwlock, which by default on  *)
(* Linux grants a read lock whenever no writer holds it.                   *)

MutexFree(owner) == owner = NoThread
ReadLockable == writer = NoThread
WriteLockable == writer = NoThread /\ readers = {}

(* llist over the table.  The node llist_add allocates for an entry is    *)
(* named by the entry itself (each entry is added at most once), and its   *)
(* val is the entry.                                                       *)

\* TableEntry::compare, "used to sort table": strcmp of the names.
Compare(e1, e2) == NameRank[EntryName[e1]] - NameRank[EntryName[e2]]

\* TableEntry::findName: strcmp of the entry's name with the name sought
\* is 0.
NameIs(e, n) == EntryName[e] = n

LL == INSTANCE LList WITH Nodes <- Entries, Lcf <- Compare, Lmatch <- NameIs

\* The entries of the table, head first.
table == LL!ValsOf(list)

\* llist_find / llist_pop with TableEntry::findName: the first node, from
\* the head, whose entry has the name n; NULL if none.
FindName(n) == LL!FirstMatch(list, n)

\* llist_add: the entry's node becomes the new head.
ListAdd(e) == LL!llist_add(list, e, e)

\* llist_pop through llist_remove: the node unlinked from the list.
ListPop(node) == LL!llist_remove(list, node)

\* The cursor moved on, as *cursor = ((llist_entry *) *cursor)->next:
\* the next field of the node, freed or not.
NextOf(node) == list.next[node]

-----------------------------------------------------------------------------
Init ==
    /\ list = LL!EmptyList([e \in Entries |-> e])
    /\ status = [e \in Entries |-> "new"]
    /\ tableLock = NoThread /\ writer = NoThread /\ readers = {}
    /\ entryOwner = [e \in Entries |-> NoThread]
    /\ pc = [t \in Threads |-> "idle"]
    /\ cur = [t \in Threads |-> CHOOSE e \in Entries : TRUE]
    /\ name = [t \in Threads |-> CHOOSE n \in Names : TRUE]

Goto(t, l) == pc' = [pc EXCEPT ![t] = l]

\* A thread calls add with a new entry, or get, del or getFirst with a
\* name: the first lock the call asks for is then awaited.  Or, when no
\* other thread is inside a call, it destroys the table (Table::~Table);
\* nobody calls the table once its destructor has begun.
Call(t) ==
    /\ pc[t] = "idle"
    /\ \/ \E e \in Entries :
             /\ status[e] = "new"
             /\ \A u \in Threads : pc[u] = "add" => cur[u] # e
             /\ cur' = [cur EXCEPT ![t] = e]
             /\ Goto(t, "add") /\ UNCHANGED name
       \/ \E n \in Names, l \in {"get", "del_rw"} :
             /\ name' = [name EXCEPT ![t] = n]
             /\ Goto(t, l) /\ UNCHANGED cur
       \/ Goto(t, "first_rw") /\ UNCHANGED <<cur, name>>
       \/ /\ \A u \in Threads \ {t} : pc[u] = "idle"
          /\ Goto(t, "dtor_tl") /\ UNCHANGED <<cur, name>>
    /\ \A u \in Threads : pc[u] \notin {"dtor_tl", "dtor_pop", "dtor_acq", "gone"}
    /\ UNCHANGED <<list, status, locks>>

\* Table::add: under tableLock, llist_add puts the entry at the head.
AddLocked(t) ==
    /\ pc[t] = "add" /\ MutexFree(tableLock)
    /\ list' = ListAdd(cur[t])
    /\ status' = [status EXCEPT ![cur[t]] = "intable"]
    /\ Goto(t, "idle")
    /\ UNCHANGED <<locks, cur, name>>

\* Table::add when llist_add's malloc of the node fails: tableLock is
\* entered and left with the list unchanged, add returns false, and the
\* caller (table_test.cpp:84-85) deletes the entry.
AddFailed(t) ==
    /\ pc[t] = "add" /\ MutexFree(tableLock)
    /\ status' = [status EXCEPT ![cur[t]] = "freed"]
    /\ Goto(t, "idle")
    /\ UNCHANGED <<list, locks, cur, name>>

\* Table::get takes tableLock and finds the name; with no match it leaves
\* tableLock and returns NULL.
GetLocked(t) ==
    LET n == FindName(name[t]) IN
    /\ pc[t] = "get" /\ MutexFree(tableLock)
    /\ IF n = NULL
         THEN Goto(t, "idle") /\ UNCHANGED <<tableLock, cur>>
         ELSE /\ tableLock' = t
              /\ cur' = [cur EXCEPT ![t] = list.val[n]]
              /\ Goto(t, "get_acq")
    /\ UNCHANGED <<list, status, writer, readers, entryOwner, name>>

\* Entry->acquire() with tableLock still held, then tableLock.leave().
\* The same step ends getFirst and getNext, whose walk goes on.
Acquire(t) ==
    /\ pc[t] \in {"get_acq", "walk_acq"}
    /\ MutexFree(entryOwner[cur[t]])
    /\ entryOwner' = [entryOwner EXCEPT ![cur[t]] = t]
    /\ tableLock' = NoThread
    /\ Goto(t, IF pc[t] = "get_acq" THEN "holding" ELSE "walk_holding")
    /\ UNCHANGED <<list, status, writer, readers, cur, name>>

\* Mutant: the caller forgets Entry->release().
ReleaseForgotten(t) ==
    /\ pc[t] \in {"holding", "walk_holding"}
    /\ Goto(t, IF pc[t] = "holding" THEN "idle" ELSE "walk")
    /\ UNCHANGED <<list, status, tableLock, writer, readers, entryOwner, cur,
                   name>>

\* The caller's Entry->release(), before its next call on the table.
Release(t) ==
    /\ pc[t] \in {"holding", "walk_holding"}
    /\ entryOwner' = [entryOwner EXCEPT ![cur[t]] = NoThread]
    /\ Goto(t, IF pc[t] = "holding" THEN "idle" ELSE "walk")
    /\ UNCHANGED <<list, status, tableLock, writer, readers, cur, name>>

\* Table::del asks for the write lock on table_rwlock.
DelWriteLocked(t) ==
    /\ pc[t] = "del_rw" /\ WriteLockable
    /\ writer' = t
    /\ Goto(t, "del_tl")
    /\ UNCHANGED <<list, status, tableLock, readers, entryOwner, cur, name>>

\* Then tableLock, and llist_pop removes the first entry with the name;
\* with none, both locks are left and del returns false.
DelLocked(t) ==
    LET n == FindName(name[t]) IN
    /\ pc[t] = "del_tl" /\ MutexFree(tableLock)
    /\ IF n = NULL
         THEN /\ writer' = NoThread /\ Goto(t, "idle")
              /\ UNCHANGED <<list, tableLock, cur>>
         ELSE /\ list' = ListPop(n)
              /\ tableLock' = t
              /\ cur' = [cur EXCEPT ![t] = list.val[n]]
              /\ Goto(t, "del_acq") /\ UNCHANGED writer
    /\ UNCHANGED <<status, readers, entryOwner, name>>

\* Mutant: del deletes the entry without acquiring its lock first.
DelAcquiredWithoutLock(t) ==
    /\ pc[t] = "del_acq"
    /\ status' = [status EXCEPT ![cur[t]] = "freed"]
    /\ tableLock' = NoThread /\ writer' = NoThread
    /\ Goto(t, "idle")
    /\ UNCHANGED <<list, readers, entryOwner, cur, name>>

\* Entry->acquire(), then delete Entry (its lock goes with it), then
\* tableLock.leave() and table_rwlock.unlock().
DelAcquired(t) ==
    /\ pc[t] = "del_acq" /\ MutexFree(entryOwner[cur[t]])
    /\ status' = [status EXCEPT ![cur[t]] = "freed"]
    /\ tableLock' = NoThread /\ writer' = NoThread
    /\ Goto(t, "idle")
    /\ UNCHANGED <<list, readers, entryOwner, cur, name>>

\* Table::getFirst asks for the read lock, held until the walk ends.
FirstReadLocked(t) ==
    /\ pc[t] = "first_rw" /\ ReadLockable
    /\ readers' = readers \cup {t}
    /\ Goto(t, "first_tl")
    /\ UNCHANGED <<list, status, tableLock, writer, entryOwner, cur, name>>

\* Under tableLock the cursor is set to the head; an empty table ends the
\* walk at once, releasing the read lock.
FirstLocked(t) ==
    /\ pc[t] = "first_tl" /\ MutexFree(tableLock)
    /\ IF list.head = NULL
         THEN /\ readers' = readers \ {t} /\ Goto(t, "idle")
              /\ UNCHANGED <<tableLock, cur>>
         ELSE /\ tableLock' = t
              /\ cur' = [cur EXCEPT ![t] = list.val[list.head]]
              /\ Goto(t, "walk_acq") /\ UNCHANGED readers
    /\ UNCHANGED <<list, status, writer, entryOwner, name>>

\* Having released the entry, the walker calls getNext.
NextCall(t) ==
    /\ pc[t] = "walk"
    /\ Goto(t, "next_tl")
    /\ UNCHANGED <<list, status, locks, cur, name>>

\* Table::getNext: under tableLock the cursor moves to the next node; at
\* the end of the list tableLock and the read lock are left.
NextLocked(t) ==
    /\ pc[t] = "next_tl" /\ MutexFree(tableLock)
    /\ IF NextOf(cur[t]) = NULL
         THEN /\ readers' = readers \ {t} /\ Goto(t, "idle")
              /\ UNCHANGED <<tableLock, cur>>
         ELSE /\ tableLock' = t
              /\ cur' = [cur EXCEPT ![t] = list.val[NextOf(cur[t])]]
              /\ Goto(t, "walk_acq") /\ UNCHANGED readers
    /\ UNCHANGED <<list, status, writer, entryOwner, name>>

\* Table::abortWalk unlocks table_rwlock.  The walk in table_test.cpp's
\* main goes on calling getNext after it.
AbortWalk(t) ==
    /\ pc[t] = "walk"
    /\ readers' = readers \ {t}
    /\ Goto(t, IF ContinueAfterAbort THEN "next_tl" ELSE "idle")
    /\ UNCHANGED <<list, status, tableLock, writer, entryOwner, cur, name>>

\* ~Table takes tableLock.
DtorLocked(t) ==
    /\ pc[t] = "dtor_tl" /\ MutexFree(tableLock)
    /\ tableLock' = t
    /\ Goto(t, "dtor_pop")
    /\ UNCHANGED <<list, status, writer, readers, entryOwner, cur, name>>

\* The loop's test: llist_pop(&table, NULL, NULL) removes the head; with
\* the list empty it returns NULL and tableLock is left.
DtorPop(t) ==
    /\ pc[t] = "dtor_pop"
    /\ IF list.head = NULL
         THEN /\ tableLock' = NoThread /\ Goto(t, "gone")
              /\ UNCHANGED <<list, cur>>
         ELSE /\ list' = ListPop(list.head)
              /\ cur' = [cur EXCEPT ![t] = list.val[list.head]]
              /\ Goto(t, "dtor_acq") /\ UNCHANGED tableLock
    /\ UNCHANGED <<status, writer, readers, entryOwner, name>>

\* Mutant: "if" for "while": one entry is deleted and ~Table leaves.
DtorAcquiredOnce(t) ==
    /\ pc[t] = "dtor_acq" /\ MutexFree(entryOwner[cur[t]])
    /\ status' = [status EXCEPT ![cur[t]] = "freed"]
    /\ tableLock' = NoThread /\ Goto(t, "gone")
    /\ UNCHANGED <<list, writer, readers, entryOwner, cur, name>>

\* Entry->acquire(), then delete Entry, and round the loop again.
DtorAcquired(t) ==
    /\ pc[t] = "dtor_acq" /\ MutexFree(entryOwner[cur[t]])
    /\ status' = [status EXCEPT ![cur[t]] = "freed"]
    /\ Goto(t, "dtor_pop")
    /\ UNCHANGED <<list, locks, cur, name>>

\* The table is gone: nothing more happens.
Destroyed(t) == pc[t] = "gone" /\ UNCHANGED vars

Next ==
    \E t \in Threads :
       \/ Call(t) \/ AddLocked(t) \/ AddFailed(t) \/ GetLocked(t) \/ Acquire(t)
       \/ Release(t) \/ DelWriteLocked(t) \/ DelLocked(t) \/ DelAcquired(t)
       \/ FirstReadLocked(t) \/ FirstLocked(t) \/ NextCall(t)
       \/ NextLocked(t) \/ AbortWalk(t)
       \/ DtorLocked(t) \/ DtorPop(t) \/ DtorAcquired(t) \/ Destroyed(t)

Spec == Init /\ [][Next]_vars

-----------------------------------------------------------------------------
(* Properties                                                               *)

\* The threads holding the lock that thread t is blocked on.
BlockedOn(t) ==
    LET Mutex(o) == IF o = NoThread THEN {} ELSE {o} IN
    CASE pc[t] \in {"add", "get", "del_tl", "first_tl", "next_tl", "dtor_tl"}
                                          -> Mutex(tableLock)
      [] pc[t] \in {"get_acq", "walk_acq", "del_acq", "dtor_acq"}
                                          -> Mutex(entryOwner[cur[t]])
      [] pc[t] = "del_rw"   -> IF WriteLockable THEN {}
                               ELSE readers \cup Mutex(writer)
      [] pc[t] = "first_rw" -> Mutex(writer)
      [] OTHER              -> {}

WaitsFor == [p \in Threads \X Threads |-> p[2] \in BlockedOn(p[1])]

\* No set of threads waits on each other in a cycle (a thread waiting on a
\* lock it holds itself included): with the lock order rwlock, tableLock,
\* entry of table.cpp and callers releasing each entry before calling the
\* table again, no subset of the threads deadlocks.
NoWaitCycle == IsIrreflexive(TransitiveClosure(WaitsFor, Threads), Threads)

\* No thread refers to an entry that del has deleted: get's and the walk's
\* entries are protected by the entry lock del acquires before deleting,
\* and a walk's cursor by the read lock del's write lock excludes.
NoUseAfterFree ==
    \A t \in Threads :
       pc[t] \in {"get_acq", "holding", "walk_acq", "walk_holding", "walk",
                  "next_tl"} => status[cur[t]] # "freed"

\* The pointer list holds exactly the entries add put in the table and no
\* del has popped, each once, linked both ways: next from the head ends in
\* NULL and every prev (which llist_remove and llist_reverse follow) is
\* the node before.  An entry del or the destructor has popped but not yet
\* deleted (it waits for the entry lock) is in no list.  Once ~Table has
\* returned, every entry added has been deleted.
Popped == {cur[t] : t \in {u \in Threads : pc[u] \in {"del_acq", "dtor_acq"}}}

ListHoldsTable ==
    /\ LL!WellFormed(list)
    /\ {e \in Entries : status[e] = "intable"} = ToSet(table) \cup Popped
    /\ Popped \cap ToSet(table) = {}
    /\ (\E t \in Threads : pc[t] = "gone") => \A e \in Entries : status[e] # "intable"

\* The entries of the list change only as llist.h says: llist_add puts one
\* at the head, llist_pop removes the first with the name it is given.
AbstractList == INSTANCE LListSeq WITH s <- table, Vals <- Entries, Keys <- Names,
                              Matches <- NameIs

ListImplementsSeq == AbstractList!Spec

\* llist_reverse, applied to any non-empty list the table reaches, leaves
\* a well-formed list with the entries in the opposite order.  (On the
\* empty list it reads lle_swap uninitialised.)
ReverseReverses ==
    list.head # NULL =>
        \A r \in LL!llist_reverse(list) :
            LL!WellFormed(r) /\ LL!ValsOf(r) = Reverse(table)

\* llist_sort with TableEntry::compare, applied to any list the table
\* reaches, keeps the nodes and their links, permutes the entries, and
\* puts their names in strcmp order.
Rank(e) == NameRank[EntryName[e]]

SortSorts ==
    LET sorted == LL!llist_sort(list)
        vals   == LL!ValsOf(sorted)
    IN  /\ LL!NodesOf(sorted) = LL!NodesOf(list)
        /\ ToSet(vals) = ToSet(table)
        /\ [i \in 1..Len(vals) |-> Rank(vals[i])]
              = SortSeq([i \in 1..Len(table) |-> Rank(table[i])], <)
========================================================================
