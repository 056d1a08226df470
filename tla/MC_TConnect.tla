---------------------------- MODULE MC_TConnect ----------------------------
(* Model-checking instance of TConnect.  The timeouts tried are an        *)
(* infinite wait (-1), the rejected 0, one shorter than the kernel's      *)
(* connect timer (2) and one longer (4).                                   *)
EXTENDS TConnect

MCTimeouts == {-1, 0, 2, 4}
=============================================================================
