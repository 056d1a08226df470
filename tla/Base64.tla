------------------------------- MODULE Base64 -------------------------------
(***************************************************************************)
(* Base64Encode and Base64Decode of src/base64.c as pure operators, and    *)
(* the reference they are checked against: the RFC 4648 encoding without  *)
(* padding, which is what the code produces (it never emits '=').          *)
(*                                                                         *)
(* A character of the text is represented by its index in the charset.    *)
(* Each of the three charsets (WEBcharset, B64charset, UU_charset) holds   *)
(* 64 distinct characters, none of them NUL, so the encoder's              *)
(* charset[index] and the decoder's strchr(charset, c) - charset are       *)
(* inverse lookups and strlen of the text is its number of characters.    *)
(* The charset sanity check (strlen(charset) != 64) never fires for them.  *)
(***************************************************************************)
EXTENDS Integers, Sequences

\* x <= a - b with a - b computed in 32-bit unsigned int, for x, a, b below
\* 2^31: a difference below zero wraps to at least 2^32 - b, above every x.
UIntSubGeq(a, b, x) == IF a >= b THEN x <= a - b ELSE TRUE

\* The bit operations of the code on non-negative values: x >> k, and
\* x & m for a mask m = 2^k - 1.  Wherever the code joins two values with
\* |, the left one is shifted up past every bit of the right one, so the
\* join is their sum.
ShR(x, k) == x \div 2^k
LowBits(x, k) == x % 2^k

\* B64_allocEncodedBuffer: the bytes malloc'd for the text of n data bytes
\* (mem_size + linefeed + 1, linefeed being 0); NULL (0) for n = 0.
AllocEncoded(n) == IF n = 0 THEN 0 ELSE (n * 8 + 5) \div 6 + 1

\* B64_allocDecodedBuffer: the bytes malloc'd for the data decoded from a
\* text of n characters; NULL (0) for n = 0.
AllocDecoded(n) == IF n = 0 THEN 0 ELSE (n * 6 + 7) \div 8

-----------------------------------------------------------------------------
(* Base64Encode                                                            *)

\* One pass of the loop over the data, from the pending bits and the shift
\* left by the previous pass: "case 0" (six bits are pending) emits them
\* and falls through into "case -2", which emits the top six bits of the
\* byte and keeps its low two; the default case emits the pending bits
\* shifted up, joined with the top bits of the byte, and keeps the byte's
\* low 8 - shift bits.  out is what the pass emits.
EncodeStep(st, d) ==
    CASE st.shift = 0 ->
           [out |-> <<st.bits, ShR(d, 2)>>, bits |-> LowBits(d, 2), shift |-> 4]
      [] st.shift = -2 ->
           [out |-> <<ShR(d, 2)>>, bits |-> LowBits(d, 2), shift |-> 4]
      [] OTHER ->
           [out   |-> <<st.bits * 2^st.shift + ShR(d, 8 - st.shift)>>,
            bits  |-> LowBits(d, 8 - st.shift),
            shift |-> st.shift - 2]

\* Mutant: the last character taken from the pending bits as they are,
\* without "bits << shift".
EncodeTailUnshifted(st) == <<st.bits>>

\* After the loop: the last character from the pending bits, shifted up
\* unless shift is 0.
EncodeTail(st) == <<IF st.shift # 0 THEN st.bits * 2^st.shift ELSE st.bits>>

\* The passes of the loop over the bytes i, i+1 and i+2 (those of them
\* that exist), from the state st: the text they emit and the state they
\* leave.
Passes(data, i, st) ==
    LET p1 == EncodeStep(st, data[i])
        p2 == IF i + 1 <= Len(data) THEN EncodeStep(p1, data[i + 1])
                                    ELSE [p1 EXCEPT !.out = << >>]
        p3 == IF i + 2 <= Len(data) THEN EncodeStep(p2, data[i + 2])
                                    ELSE [p2 EXCEPT !.out = << >>]
    IN  [p3 EXCEPT !.out = p1.out \o p2.out \o @]

\* The text emitted by the loop from the i-th byte on, and then the tail.
RECURSIVE EncodeFrom(_, _, _)
EncodeFrom(data, i, st) ==
    IF i > Len(data) THEN EncodeTail(st)
    ELSE LET group == Passes(data, i, st)
         IN  group.out \o EncodeFrom(data, i + 3, group)

\* The text Base64Encode returns for non-empty data (shift starts at -2).
\* For empty data B64_allocEncodedBuffer returns NULL and so does
\* Base64Encode; callers (webcodec.c) only pass non-empty data.
Base64Encode(data) == EncodeFrom(data, 1, [bits |-> 0, shift |-> -2])

-----------------------------------------------------------------------------
(* Base64Decode                                                            *)

\* Mutant: the shifted values kept whole, as if bits were an int.
DecodeGroupUntruncated(six, p) ==
    << six[p] * 4 + ShR(six[p + 1], 4),
       six[p + 1] * 16 + ShR(six[p + 2], 2),
       six[p + 2] * 64 + six[p + 3] >>

\* Lines 72-77: four six-bit values starting at position p make three
\* bytes; each "bits = v << k" is truncated to the 8 bits of the unsigned
\* char bits.
DecodeGroup(six, p) ==
    << ((six[p] * 4) % 256) + ShR(six[p + 1], 4),
       ((six[p + 1] * 16) % 256) + ShR(six[p + 2], 2),
       ((six[p + 2] * 64) % 256) + six[p + 3] >>

\* The main loop "for (byte_num=0; byte_num<=data_size-4; byte_num+=4)"
\* with data_size-4 computed in unsigned int.  A pass that would read
\* sixbitbuffer past its data_size bytes is undefined behaviour (a heap
\* over-read, and over-write of *decoded_text); the result then records
\* overrun and the decoding stops there.
RECURSIVE DecodeMain(_, _)
DecodeMain(six, byte_num) ==
    IF ~UIntSubGeq(Len(six), 4, byte_num)
      THEN [overrun |-> FALSE, byte_num |-> byte_num, out |-> << >>]
    ELSE IF byte_num + 4 > Len(six)
      THEN [overrun |-> TRUE, byte_num |-> byte_num, out |-> << >>]
    ELSE LET rest == DecodeMain(six, byte_num + 4)
         IN  [rest EXCEPT !.out = DecodeGroup(six, byte_num + 1) \o @]

\* The loop over lastbyte = 2 .. data_size - byte_num: case 2 makes a byte
\* from two values, case 3 one more from the next two.
DecodeTail(six, byte_num) ==
    LET p == byte_num + 1
        r == Len(six) - byte_num
    IN  (IF r >= 2 THEN << ((six[p] * 4) % 256) + ShR(six[p + 1], 4) >>
                   ELSE << >>)
        \o (IF r >= 3 THEN << ((six[p + 1] * 16) % 256)
                              + ShR(six[p + 2], 2) >>
                      ELSE << >>)

\* Base64Decode of a text: the decoded bytes (size is their number), and
\* whether the decoding overran its buffers.  An empty text makes
\* B64_allocDecodedBuffer return NULL and Base64Decode return 0.
Base64Decode(six) ==
    IF Len(six) = 0 THEN [overrun |-> FALSE, out |-> << >>]
    ELSE LET m == DecodeMain(six, 0)
         IN  IF m.overrun THEN [overrun |-> TRUE, out |-> m.out]
             ELSE [overrun |-> FALSE, out |-> m.out \o DecodeTail(six, m.byte_num)]

-----------------------------------------------------------------------------
(***************************************************************************)
(* Reference (RFC 4648, section 4, without the '=' padding): the data read *)
(* as a bit string, most significant bit of each byte first, cut into      *)
(* six-bit groups, the last one filled up with zero bits.                  *)
(***************************************************************************)
DataBit(data, k) ==
    IF k < 8 * Len(data) THEN (data[k \div 8 + 1] \div 2^(7 - (k % 8))) % 2
                         ELSE 0

\* The six-bit group starting at bit g, most significant bit first.
GroupAt(data, g) ==
    32 * DataBit(data, g) + 16 * DataBit(data, g + 1) + 8 * DataBit(data, g + 2)
    + 4 * DataBit(data, g + 3) + 2 * DataBit(data, g + 4) + DataBit(data, g + 5)

RfcBase64(data) ==
    [j \in 1..((8 * Len(data) + 5) \div 6) |-> GroupAt(data, 6 * (j - 1))]
=============================================================================
