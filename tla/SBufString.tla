----------------------------- MODULE SBufString -----------------------------
(***************************************************************************)
(* What src/sbuf.h promises: each sbuf holds a string of bytes, which the  *)
(* calls change as their comments say.  This is the abstract specification *)
(* that the buffer-level model SBuf is checked to implement.               *)
(*                                                                         *)
(* call records the last call: its name, the sbufs it was given, and the  *)
(* value that defines its effect (the bytes appended, the length truncated *)
(* to, the text printf formatted, the contents detach handed out).  A      *)
(* caller's view of the buffer thus includes what it asked for.            *)
(***************************************************************************)
EXTENDS Integers, Sequences, SequencesExt, CStrings

CONSTANTS Bufs, Chars, Strings, Formats, TruncLens

VARIABLES str, live, call

vars == <<str, live, call>>

Init ==
    /\ str = [b \in Bufs |-> << >>]
    /\ live = [b \in Bufs |-> TRUE]
    /\ call = [op |-> "none", buf |-> << >>, val |-> << >>]

Did(op, bufs, v) == call' = [op |-> op, buf |-> bufs, val |-> v]

Becomes(b, s) == str' = [str EXCEPT ![b] = s] /\ UNCHANGED live

\* sbuf_new / sbuf_delete: an empty sbuf comes to life, or one goes away.
New(b) ==
    /\ ~live[b] /\ live' = [live EXCEPT ![b] = TRUE]
    /\ str' = [str EXCEPT ![b] = << >>] /\ Did("new", <<b>>, << >>)

Delete(b) ==
    /\ live[b] /\ live' = [live EXCEPT ![b] = FALSE]
    /\ str' = [str EXCEPT ![b] = << >>] /\ Did("delete", <<b>>, << >>)

\* "clear sbuf contents"
Reset(b) == live[b] /\ Becomes(b, << >>) /\ Did("reset", <<b>>, << >>)

\* The contents cut to the first n bytes; a length outside 0..length is
\* ignored.
Truncate(b) ==
    \E n \in TruncLens :
        /\ live[b]
        /\ Becomes(b, IF n \in 0..Len(str[b]) THEN SubSeq(str[b], 1, n)
                                               ELSE str[b])
        /\ Did("truncate", <<b>>, <<n>>)

AppendBytes(b) ==
    \E s \in Strings :
        live[b] /\ Becomes(b, str[b] \o s) /\ Did("appendbytes", <<b>>, s)

AppendChar(b) ==
    \E c \in Chars :
        live[b] /\ Becomes(b, Append(str[b], c)) /\ Did("appendchar", <<b>>, <<c>>)

\* appendstr takes a C string: the bytes before its NUL.
AppendStr(b) ==
    \E s \in Strings :
        live[b] /\ Becomes(b, str[b] \o CString(s)) /\ Did("appendstr", <<b>>, s)

\* printf replaces the contents by the formatted text, appendf appends it.
Printf(b) ==
    \E f \in Formats : \E a \in ArgsFor(f, Chars) :
        /\ live[b]
        /\ Becomes(b, FormatWith(f, a))
        /\ Did("printf", <<b>>, FormatWith(f, a))

Appendf(b) ==
    \E f \in Formats : \E a \in ArgsFor(f, Chars) :
        /\ live[b]
        /\ Becomes(b, str[b] \o FormatWith(f, a))
        /\ Did("appendf", <<b>>, FormatWith(f, a))

\* "Detach and return sbuf contents": the caller takes the contents and
\* the sbuf is left empty.
Detach(b) == live[b] /\ Becomes(b, << >>) /\ Did("detach", <<b>>, str[b])

\* sbuf_move(src, dest): dest takes src's contents, src is left empty.
Move(src, dest) ==
    /\ src # dest /\ live[src] /\ live[dest]
    /\ str' = [str EXCEPT ![dest] = str[src], ![src] = << >>]
    /\ Did("move", <<src, dest>>, << >>) /\ UNCHANGED live

Next ==
    \/ \E b \in Bufs :
          \/ New(b) \/ Delete(b) \/ Reset(b) \/ Truncate(b) \/ AppendBytes(b)
          \/ AppendChar(b) \/ AppendStr(b) \/ Printf(b) \/ Appendf(b)
          \/ Detach(b)
    \/ \E src, dest \in Bufs : Move(src, dest)

Spec == Init /\ [][Next]_vars
=============================================================================
