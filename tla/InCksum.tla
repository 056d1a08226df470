------------------------------ MODULE InCksum ------------------------------
(***************************************************************************)
(* The Internet checksum routine in_cksum (src/PadSocket.c, the BSD code   *)
(* at the end of the file), as pure operators over a buffer of bytes.      *)
(*                                                                         *)
(* The C code walks the buffer as an array of unsigned shorts, so each     *)
(* 16-bit word is read in the HOST byte order.  The modelled build is the  *)
(* little-endian Linux build (thalf_connect needs struct iphdr/tcphdr and  *)
(* gethostbyname_r): the first byte of a word is its low-order byte.  The  *)
(* accumulator is a 32-bit int; the buffers hashed by this library are at  *)
(* most 40 bytes, far below the ~64 KiB at which it could overflow, so it  *)
(* is kept as an unbounded integer here.                                   *)
(***************************************************************************)
EXTENDS Integers, Sequences

Byte == 0..255

\* A 16-bit word as read from memory at byte offset i (1-based) on a
\* little-endian host: *w with w pointing at buf[i].
HostWord(buf, i) == buf[i] + 256 * buf[i + 1]

\* Lines "while (nleft > 1) { sum += *w++; nleft -= 2; }" followed by the
\* odd-byte mop-up, which copies the last byte into the first byte in memory
\* of the zeroed u_short answer, i.e. into its low-order byte.
RECURSIVE WordSum(_, _)
WordSum(buf, i) ==
    LET nleft == Len(buf) - i + 1
    IN  IF nleft > 1 THEN HostWord(buf, i) + WordSum(buf, i + 2)
        ELSE IF nleft = 1 THEN buf[i]
        ELSE 0

\* Mutant: the second carry fold "sum += (sum >> 16)" left out.
FoldWithoutCarryAdd(sum) ==
    65535 - (((sum \div 65536) + (sum % 65536)) % 65536)

\* sum = (sum >> 16) + (sum & 0xffff); sum += (sum >> 16); answer = ~sum,
\* truncated to the 16 bits of the u_short answer.
FoldAndComplement(sum) ==
    LET s1 == (sum \div 65536) + (sum % 65536)
        s2 == s1 + (s1 \div 65536)
    IN  65535 - (s2 % 65536)

in_cksum(buf) == FoldAndComplement(WordSum(buf, 1))

\* Mutant: the checksum stored in network order, as htons(in_cksum(...)).
StoreNetWord(buf, k, w) ==
    [buf EXCEPT ![k] = w \div 256, ![k + 1] = w % 256]

\* Storing the u_short result into the buffer at byte offset k, as
\* "send_tcp.check = in_cksum(...)" does: low byte first in memory.
StoreHostWord(buf, k, w) ==
    [buf EXCEPT ![k] = w % 256, ![k + 1] = w \div 256]

-----------------------------------------------------------------------------
(***************************************************************************)
(* Reference definition (RFC 1071): the one's-complement sum, with         *)
(* end-around carry, of the buffer read as big-endian (network order)      *)
(* 16-bit words, an odd last byte padded on the right with a zero byte;    *)
(* the checksum is the one's complement of that sum.                       *)
(***************************************************************************)
NetWord(buf, i) ==
    IF i + 1 <= Len(buf) THEN 256 * buf[i] + buf[i + 1] ELSE 256 * buf[i]

RECURSIVE NetSum(_, _)
NetSum(buf, i) == IF i > Len(buf) THEN 0 ELSE NetWord(buf, i) + NetSum(buf, i + 2)

\* Adding with end-around carry is adding modulo 65535, with 65535 (not 0)
\* standing for a non-zero sum that is a multiple of 65535 (RFC 1071,
\* section 2 (B): the carries may be deferred and added in at the end).
OnesSum(buf) ==
    LET total == NetSum(buf, 1)
    IN  IF total = 0 THEN 0 ELSE 1 + ((total - 1) % 65535)

RfcChecksum(buf) == 65535 - OnesSum(buf)

\* Exchanging the two bytes of a 16-bit value.
ByteSwap(w) == (w % 256) * 256 + w \div 256
=============================================================================
