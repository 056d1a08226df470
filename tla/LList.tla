-------------------------------- MODULE LList --------------------------------
(***************************************************************************)
(* The doubly linked list of src/llist.c at the level of its nodes.        *)
(*                                                                         *)
(* A list is a record [head, next, prev, val]: the llist_entry pointer the *)
(* caller keeps in *llist, and the next, prev and val fields of each node. *)
(* Nodes are the llist_entry objects; NULL is the null pointer.  A node    *)
(* that llist_remove freed has its fields cleared, as nothing reads them  *)
(* again before llist_add reuses the node.                                 *)
(*                                                                         *)
(* The operations are operators from a list to the list they leave, used  *)
(* by the modules whose code calls them (Table).                           *)
(***************************************************************************)
EXTENDS Integers, Sequences, SequencesExt, FiniteSets

CONSTANTS
    Nodes,       \* llist_entry objects
    NULL,        \* the null pointer
    Lcf(_, _),   \* the comparison passed to llist_sort, as an int
    Lmatch(_, _) \* lcf(val, data) == 0 for the lcf passed to llist_find/pop

ASSUME NULL \notin Nodes

Ptr == Nodes \cup {NULL}

\* A list with no nodes; every field of the nodes is NULL and each node's
\* val is given by v0.
EmptyList(v0) ==
    [head |-> NULL, next |-> [n \in Nodes |-> NULL],
     prev |-> [n \in Nodes |-> NULL], val |-> v0]

\* The nodes met following next from n, at most k of them (a cycle shows
\* as a sequence of k nodes).
RECURSIVE NodesFrom(_, _, _)
NodesFrom(L, n, k) ==
    IF n = NULL \/ k = 0 THEN << >> ELSE <<n>> \o NodesFrom(L, L.next[n], k - 1)

\* The nodes of the list from *llist on, as a walk (llist_find, llist_apply)
\* sees them; one more than there are nodes if next runs in a cycle.
NodesOf(L) == NodesFrom(L, L.head, Cardinality(Nodes) + 1)

\* The payloads, in list order: the sequence the list stands for.
ValsOf(L) == LET ns == NodesOf(L) IN [i \in DOMAIN ns |-> L.val[ns[i]]]

\* llist_add: the fresh node e carries v and becomes the head.
llist_add(L, e, v) ==
    IF L.head # NULL
      THEN [L EXCEPT !.val[e] = v, !.prev[e] = NULL, !.next[e] = L.head,
                     !.prev[L.head] = e, !.head = e]
      ELSE [L EXCEPT !.val[e] = v, !.prev[e] = NULL, !.next[e] = NULL,
                     !.head = e]

\* Mutant: the last else branch relinks only e->next->prev, leaving
\* e->prev->next pointing at the freed node.
UnlinkKeepingPrevNext(L, e) ==
    CASE e = L.head /\ L.next[e] = NULL -> [L EXCEPT !.head = NULL]
      [] e = L.head -> [L EXCEPT !.prev[L.next[e]] = NULL, !.head = L.next[e]]
      [] L.next[e] = NULL -> [L EXCEPT !.next[L.prev[e]] = NULL]
      [] OTHER -> [L EXCEPT !.prev[L.next[e]] = L.prev[e]]

\* Mutant: removing the head does not clear the new head's prev.
UnlinkHeadKeepingPrev(L, e) ==
    CASE e = L.head /\ L.next[e] = NULL -> [L EXCEPT !.head = NULL]
      [] e = L.head -> [L EXCEPT !.head = L.next[e]]
      [] L.next[e] = NULL -> [L EXCEPT !.next[L.prev[e]] = NULL]
      [] OTHER -> [L EXCEPT !.next[L.prev[e]] = L.next[e],
                            !.prev[L.next[e]] = L.prev[e]]

\* llist_remove of a node e: the four cases of its unlinking,
\* then free(e).  The freed node's fields are never read again (llist_add
\* sets all of them when the node is reused), so they are cleared.
Unlink(L, e) ==
    CASE e = L.head /\ L.next[e] = NULL -> [L EXCEPT !.head = NULL]
      [] e = L.head -> [L EXCEPT !.prev[L.next[e]] = NULL, !.head = L.next[e]]
      [] L.next[e] = NULL -> [L EXCEPT !.next[L.prev[e]] = NULL]
      [] OTHER -> [L EXCEPT !.next[L.prev[e]] = L.next[e],
                            !.prev[L.next[e]] = L.prev[e]]

llist_remove(L, e) == [Unlink(L, e) EXCEPT !.next[e] = NULL, !.prev[e] = NULL]

\* llist_find / llist_pop with a comparison: the first node, from the
\* head, whose payload matches data (lcf(val, data) == 0); NULL if none.
FirstMatch(L, data) ==
    LET ns == NodesOf(L)
        i  == SelectInSeq(ns, LAMBDA n : Lmatch(L.val[n], data))
    IN  IF i = 0 THEN NULL ELSE ns[i]

\* Mutant: the walk goes on through lle->next after the exchange (the old
\* prev).
RECURSIVE ReverseLoopThroughNext(_, _, _)
ReverseLoopThroughNext(L, lle, swap) ==
    IF lle = NULL THEN [list |-> L, swap |-> swap]
    ELSE ReverseLoopThroughNext([L EXCEPT !.prev[lle] = L.next[lle],
                                          !.next[lle] = L.prev[lle]],
                                L.prev[lle], lle)

\* The loop of llist_reverse from node lle, lle_swap holding the last node
\* handled: each node's next and prev are exchanged and the walk goes on
\* through the new prev (the old next).
RECURSIVE ReverseLoop(_, _, _)
ReverseLoop(L, lle, swap) ==
    IF lle = NULL THEN [list |-> L, swap |-> swap]
    ELSE ReverseLoop([L EXCEPT !.prev[lle] = L.next[lle],
                               !.next[lle] = L.prev[lle]],
                     L.next[lle], lle)

\* llist_reverse: *llist becomes the last lle_swap.  On an empty list the
\* loop never runs and lle_swap is read uninitialised: *llist may become
\* any pointer.
llist_reverse(L) ==
    IF L.head = NULL
      THEN {[L EXCEPT !.head = p] : p \in Ptr}
      ELSE LET r == ReverseLoop(L, L.head, NULL)
           IN  {[r.list EXCEPT !.head = r.swap]}

\* Mutant: the payloads exchanged when lcf(...) < 0.
RECURSIVE SortInnerInverted(_, _, _)
SortInnerInverted(L, lle1, lle2) ==
    IF lle2 = NULL THEN L
    ELSE SortInnerInverted(IF Lcf(L.val[lle1], L.val[lle2]) < 0
                             THEN [L EXCEPT !.val[lle1] = L.val[lle2],
                                            !.val[lle2] = L.val[lle1]]
                             ELSE L,
                           lle1, L.next[lle2])

\* The inner loop of llist_sort: lle2 runs over the nodes after lle1, and
\* the payloads are exchanged whenever lcf(lle1->val, lle2->val) > 0.
RECURSIVE SortInner(_, _, _)
SortInner(L, lle1, lle2) ==
    IF lle2 = NULL THEN L
    ELSE SortInner(IF Lcf(L.val[lle1], L.val[lle2]) > 0
                     THEN [L EXCEPT !.val[lle1] = L.val[lle2],
                                    !.val[lle2] = L.val[lle1]]
                     ELSE L,
                   lle1, L.next[lle2])

\* The outer loop of llist_sort from node lle1.
RECURSIVE SortOuter(_, _)
SortOuter(L, lle1) ==
    IF lle1 = NULL THEN L
    ELSE SortOuter(SortInner(L, lle1, L.next[lle1]), L.next[lle1])

\* llist_sort(llist, lcf): the selection sort exchanging payloads.
llist_sort(L) == SortOuter(L, L.head)

-----------------------------------------------------------------------------
\* A well-formed list: following next from the head ends in NULL without
\* meeting a node twice, the head has no prev, and each node's prev is the
\* node before it.
WellFormed(L) ==
    LET ns == NodesOf(L) IN
    /\ Len(ns) <= Cardinality(Nodes)
    /\ IsInjective(ns)
    /\ L.head # NULL => L.prev[L.head] = NULL
    /\ \A i \in 1..(Len(ns) - 1) : L.prev[ns[i + 1]] = ns[i]
=============================================================================
