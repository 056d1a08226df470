------------------------------- MODULE LListSeq -------------------------------
(***************************************************************************)
(* What src/llist.h promises of a list: a sequence of payloads, to which   *)
(* llist_add "adds to start of list" and from which llist_pop "find[s] and *)
(* remove[s] ... first item found", or the first item when it is given no  *)
(* comparison.  llist_find and llist_apply leave the sequence as it is.    *)
(*                                                                         *)
(* Matches(v, k) is the comparison the caller passes: lcf(v, k) == 0.      *)
(***************************************************************************)
EXTENDS Sequences, SequencesExt

CONSTANTS Vals, Keys, Matches(_, _)

VARIABLE s

Init == s = << >>

AddHead(v) == s' = <<v>> \o s

PopFound(k) ==
    LET i == SelectInSeq(s, LAMBDA v : Matches(v, k))
    IN  i # 0 /\ s' = RemoveAt(s, i)

PopFirst == s # << >> /\ s' = Tail(s)

Next == (\E v \in Vals : AddHead(v)) \/ (\E k \in Keys : PopFound(k)) \/ PopFirst

Spec == Init /\ [][Next]_s
=============================================================================
