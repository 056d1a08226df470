----------------------------- MODULE MC_Session -----------------------------
(* Model-checking instance of Session.  The timeouts tried are an         *)
(* infinite wait (-1), the rejected 0, one shorter than the kernel's      *)
(* connect timer (2) and one longer (4).                                   *)
EXTENDS Session

MCTimeouts == {-1, 0, 2, 4}

\* The name is not found, or has the longest dotted text, or is 0.0.0.0.
MCHostAnswers == {[found |-> FALSE],
                  [found |-> TRUE, addr |-> <<255, 255, 255, 255>>],
                  [found |-> TRUE, addr |-> <<0, 0, 0, 0>>]}
=============================================================================
