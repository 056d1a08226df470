------------------------------ MODULE CStrings ------------------------------
(***************************************************************************)
(* Byte strings as C sees them, shared by the sbuf modules.                *)
(*                                                                         *)
(* A format handed to sbuf_printf / sbuf_appendf is a sequence of items:   *)
(* a literal byte, or the conversion Conv, which stands for "%c": it       *)
(* consumes the next int argument and outputs it as one byte.  Formatting  *)
(* is kept to that conversion because what the properties tell apart is    *)
(* which argument values end up in the buffer, not how they are printed.   *)
(***************************************************************************)
EXTENDS Integers, Sequences, FiniteSets, SequencesExt

CONSTANT Conv

\* A C string read from the bytes s: everything before the first NUL
\* (what strlen, strdup and printf's "%s" see).
CString(s) ==
    LET i == SelectInSeq(s, LAMBDA x : x = 0)
    IN  IF i = 0 THEN s ELSE SubSeq(s, 1, i - 1)

\* The number of conversions among the first i items of a format.
ConvsUpTo(fmt, i) == Cardinality({j \in 1..i : fmt[j] = Conv})

\* The argument lists a format takes: one value of chars per conversion.
ArgsFor(fmt, chars) == [1..ConvsUpTo(fmt, Len(fmt)) -> chars]

\* What vsnprintf formats from fmt with the argument values argv, taken in
\* order: each literal byte as it is, each conversion the next value.
FormatWith(fmt, argv) ==
    [i \in 1..Len(fmt) |-> IF fmt[i] = Conv THEN argv[ConvsUpTo(fmt, i)]
                                            ELSE fmt[i]]
=============================================================================
