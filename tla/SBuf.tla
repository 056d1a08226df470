-------------------------------- MODULE SBuf --------------------------------
(***************************************************************************)
(* The growable string buffer of src/sbuf.c at the level of its struct:    *)
(* the allocation (buf, buflen), the length NUL, and the bytes written     *)
(* into the allocation since it was made.                                  *)
(*                                                                         *)
(* mem holds the bytes written from the start of buf; the allocation's     *)
(* other bytes are uninitialised.  realloc keeps mem, so growing only      *)
(* changes buflen; buf is NULL exactly when buflen is 0.  sbuf_ptr and     *)
(* sbuf_len read the state without changing it and are not actions.        *)
(* malloc and realloc failures abort() the process and are left out.       *)
(*                                                                         *)
(* sbuf_vappendf hands the same va_list to vsnprintf again after growing   *)
(* the buffer.  Where va_list is an array type (x86-64) the callee's       *)
(* va_list is the caller's, already consumed by the first vsnprintf, and   *)
(* the second one reads the arguments that follow; where it is a pointer   *)
(* or a struct passed by value (i386, ARM, AArch64) each vsnprintf starts  *)
(* from the first argument.  VaListShared chooses the build.               *)
(***************************************************************************)
EXTENDS Integers, Sequences, SequencesExt, CStrings

CONSTANTS
    Bufs,          \* sbuf objects
    Chars,         \* bytes passed to appendchar and as "%c" arguments
    Strings,       \* byte strings passed to appendbytes and appendstr
    Formats,       \* formats passed to printf and appendf
    TruncLens,     \* lengths passed to truncate
    MaxCalls,      \* bound on the number of calls
    VaListShared   \* the build's va_list is an array type (see above)

ASSUME MaxCalls \in Nat /\ VaListShared \in BOOLEAN

VARIABLES
    sb,      \* per sbuf: [live, mem, NUL, buflen]
    call,    \* the last call, as in SBufString, and what detach returned
    calls    \* calls made so far

vars == <<sb, call, calls>>

\* sbuf_init: no allocation, empty.
Fresh == [live |-> TRUE, mem |-> << >>, NUL |-> 0, buflen |-> 0]

\* The contents: the NUL bytes from buf.
Content(s) == SubSeq(s.mem, 1, s.NUL)

\* Writing bytes into the allocation at byte offset off (memcpy, or the
\* stores of appendchar, truncate and vsnprintf).
WriteAt(mem, off, bytes) ==
    SubSeq(mem, 1, off) \o bytes \o SubSeq(mem, off + Len(bytes) + 1, Len(mem))

\* "while (len > sb->buflen) sb->buflen *= 2"
RECURSIVE Doubled(_, _)
Doubled(cap, need) == IF need > cap THEN Doubled(2 * cap, need) ELSE cap

\* sbuf_extendby: room for len more bytes after NUL; the first allocation
\* is at least 64 bytes, and the size doubles until it is enough.
ExtendBy(s, len) ==
    IF len + s.NUL <= s.buflen THEN s
    ELSE [s EXCEPT !.buflen = Doubled(IF s.buflen = 0 THEN 64 ELSE s.buflen,
                                      len + s.NUL)]

AppendBytesTo(s, str) ==
    LET e == ExtendBy(s, Len(str) + 1)
    IN  [e EXCEPT !.mem = WriteAt(e.mem, e.NUL, str \o <<0>>),
                  !.NUL = e.NUL + Len(str)]

\* sbuf_appendchar
AppendCharTo(s, c) ==
    LET e == ExtendBy(s, 2)
    IN  [e EXCEPT !.mem = WriteAt(e.mem, e.NUL, <<c, 0>>), !.NUL = e.NUL + 1]

\* vsnprintf(buf + NUL, buflen - NUL, ...) of the text out: with room for
\* at least one byte it writes as much of out as fits and a NUL.
Vsnprintf(s, out) ==
    LET size == s.buflen - s.NUL
    IN  IF size > 0
          THEN [s EXCEPT !.mem = WriteAt(s.mem, s.NUL,
                                   SubSeq(out, 1, Min({Len(out), size - 1}))
                                   \o <<0>>)]
          ELSE s

\* sbuf_vappendf with the arguments args.  When the text does not fit, the
\* buffer grows to the length vsnprintf returned plus one and vsnprintf
\* runs again; with a shared va_list it then formats the values that
\* follow args (later).  The "%c" conversions make every text of a format
\* the same length, so the second pass always fits and the loop ends.
VappendfTo(s, fmt, args, later) ==
    LET out1 == FormatWith(fmt, args)
        w1   == Vsnprintf(s, out1)
    IN  IF Len(out1) < s.buflen - s.NUL
          THEN [w1 EXCEPT !.NUL = @ + Len(out1)]
          ELSE LET e    == ExtendBy(w1, Len(out1) + 1)
                   out2 == FormatWith(fmt, IF VaListShared THEN later ELSE args)
               IN  [Vsnprintf(e, out2) EXCEPT !.NUL = @ + Len(out2)]

-----------------------------------------------------------------------------
Init ==
    /\ sb = [b \in Bufs |-> Fresh]
    /\ call = [op |-> "none", buf |-> << >>, val |-> << >>, ret |-> << >>]
    /\ calls = 0

Callable(b) == sb[b].live /\ calls < MaxCalls

\* A call on sbuf b leaves it as s; v is the call's value in SBufString.
Op(b, name, v, s) ==
    /\ sb' = [sb EXCEPT ![b] = s]
    /\ call' = [op |-> name, buf |-> <<b>>, val |-> v, ret |-> << >>]
    /\ calls' = calls + 1

New(b) == ~sb[b].live /\ calls < MaxCalls /\ Op(b, "new", << >>, Fresh)

\* sbuf_delete frees buf and the struct.
Delete(b) ==
    Callable(b) /\ Op(b, "delete", << >>, [Fresh EXCEPT !.live = FALSE])

\* sbuf_reset: NUL = 0, nothing written.
Reset(b) == Callable(b) /\ Op(b, "reset", << >>, [sb[b] EXCEPT !.NUL = 0])

\* sbuf_truncate: a len below 0 or above NUL returns at once; otherwise NUL
\* becomes len and, when buf is not NULL, a NUL byte is stored there.
Truncate(b) ==
    \E n \in TruncLens :
        /\ Callable(b)
        /\ Op(b, "truncate", <<n>>,
              IF n < 0 \/ n > sb[b].NUL THEN sb[b]
              ELSE [sb[b] EXCEPT !.NUL = n,
                                 !.mem = IF sb[b].buflen > 0
                                           THEN WriteAt(@, n, <<0>>) ELSE @])

AppendBytes(b) ==
    \E s \in Strings :
        Callable(b) /\ Op(b, "appendbytes", s, AppendBytesTo(sb[b], s))

AppendChar(b) ==
    \E c \in Chars :
        Callable(b) /\ Op(b, "appendchar", <<c>>, AppendCharTo(sb[b], c))

\* sbuf_appendstr: sbuf_appendbytes of strlen(str) bytes.
AppendStr(b) ==
    \E s \in Strings :
        Callable(b) /\ Op(b, "appendstr", s, AppendBytesTo(sb[b], CString(s)))

\* sbuf_printf: sbuf_reset, then sbuf_vappendf.
Printf(b) ==
    \E f \in Formats : \E a, later \in ArgsFor(f, Chars) :
        /\ Callable(b)
        /\ Op(b, "printf", FormatWith(f, a),
              VappendfTo([sb[b] EXCEPT !.NUL = 0], f, a, later))

\* sbuf_appendf: sbuf_vappendf.
Appendf(b) ==
    \E f \in Formats : \E a, later \in ArgsFor(f, Chars) :
        /\ Callable(b)
        /\ Op(b, "appendf", FormatWith(f, a), VappendfTo(sb[b], f, a, later))

\* sbuf_detach returns buf (strdup("") when it is NULL) and re-initialises
\* the sbuf; ret is the C string the caller gets.
Detach(b) ==
    /\ Callable(b)
    /\ sb' = [sb EXCEPT ![b] = Fresh]
    /\ call' = [op |-> "detach", buf |-> <<b>>, val |-> Content(sb[b]),
                ret |-> IF sb[b].buflen = 0 THEN << >> ELSE CString(sb[b].mem)]
    /\ calls' = calls + 1

\* Mutant: sbuf_move without the final sbuf_init(src).
MoveWithoutInit(src, dest) ==
    /\ src # dest /\ Callable(src) /\ Callable(dest)
    /\ sb' = [sb EXCEPT ![dest] = sb[src]]
    /\ call' = [op |-> "move", buf |-> <<src, dest>>, val |-> << >>,
                ret |-> << >>]
    /\ calls' = calls + 1

\* sbuf_move: dest's buf is freed, dest takes src's fields, src is
\* re-initialised.  (Moving an sbuf onto itself is not modelled.)
Move(src, dest) ==
    /\ src # dest /\ Callable(src) /\ Callable(dest)
    /\ sb' = [sb EXCEPT ![dest] = sb[src], ![src] = Fresh]
    /\ call' = [op |-> "move", buf |-> <<src, dest>>, val |-> << >>,
                ret |-> << >>]
    /\ calls' = calls + 1

\* Once the calls are used up the buffers stay as they are.
Done == calls = MaxCalls /\ UNCHANGED vars

Next ==
    \/ \E b \in Bufs :
          \/ New(b) \/ Delete(b) \/ Reset(b) \/ Truncate(b) \/ AppendBytes(b)
          \/ AppendChar(b) \/ AppendStr(b) \/ Printf(b) \/ Appendf(b)
          \/ Detach(b)
    \/ \E src, dest \in Bufs : Move(src, dest)
    \/ Done

Spec == Init /\ [][Next]_vars

-----------------------------------------------------------------------------
(***************************************************************************)
(* Properties                                                              *)
(***************************************************************************)

String == INSTANCE SBufString
    WITH str  <- [b \in Bufs |-> IF sb[b].live THEN Content(sb[b]) ELSE << >>],
         live <- [b \in Bufs |-> sb[b].live],
         call <- [op |-> call.op, buf |-> call.buf, val |-> call.val]

SBufImplementsString == String!Spec
=============================================================================
