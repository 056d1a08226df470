------------------------------ MODULE Resolve ------------------------------
(***************************************************************************)
(* getIPAddress() and getMyIPAddress() of src/PadSocket.c, as operators    *)
(* over the outcomes of the resolver and socket calls they make.           *)
(*                                                                         *)
(* Neither function touches state another thread can see: gethostbyname_r  *)
(* works in the buffer the call mallocs, glibc's inet_ntoa in a thread-    *)
(* local one, and the datagram socket is the call's own.  A call is        *)
(* therefore one step of its caller, whose result records what the caller  *)
(* gets back: the address returned, the caller's IPaddress buffer and the  *)
(* descriptors left open.                                                  *)
(*                                                                         *)
(* An address (an in_addr's s_addr) is its 4 bytes in memory, in network  *)
(* order; a caller's IPaddress argument is << >> for NULL and <<b>> for a  *)
(* buffer whose bytes are b (bufSize of them).                             *)
(***************************************************************************)
EXTENDS Integers, Sequences

\* The s_addr 0, which both functions return for an error.
Zero == <<0, 0, 0, 0>>

\* The decimal digits of n as ASCII bytes.
RECURSIVE Decimal(_)
Decimal(n) == IF n < 10 THEN <<48 + n>> ELSE Decimal(n \div 10) \o <<48 + (n % 10)>>

\* inet_ntoa: the dotted-decimal text of an address (without its NUL).
inet_ntoa(a) ==
    Decimal(a[1]) \o <<46>> \o Decimal(a[2]) \o <<46>> \o Decimal(a[3])
    \o <<46>> \o Decimal(a[4])

\* strncpy(dst, src, n): the n bytes of dst become src, then NULs; when
\* src has n bytes or more, no NUL is stored.  n is a size_t: a negative
\* int passed for it is beyond every buffer (the bytes past dst are not
\* represented).
strncpy(dst, src, n) ==
    [i \in DOMAIN dst |-> CASE n >= 0 /\ i > n -> dst[i]
                            [] i <= Len(src) -> src[i]
                            [] OTHER        -> 0]

\* "if (IPaddress) IPaddress[0] = '\0'".
Cleared(ip) == IF ip = << >> THEN ip ELSE <<[ip[1] EXCEPT ![1] = 0]>>

\* "if (IPaddress) strncpy(IPaddress, inet_ntoa(addr), bufSize)".
CopyText(ip, a, bufSize) ==
    IF ip = << >> THEN ip ELSE <<strncpy(ip[1], inet_ntoa(a), bufSize)>>

\* Mutant: the sanity check compares with the length of the longest text,
\* forgetting its NUL.
BufSizeOKStrlen(ip, bufSize) == ip = << >> \/ bufSize < 0 \/ bufSize >= 15

\* "!IPaddress || bufSize >= sizeof("111.222.333.444")": room for the
\* longest dotted text and its NUL.  The int bufSize is converted to
\* size_t for the comparison, so a negative one passes too.
BufSizeOK(ip, bufSize) == ip = << >> \/ bufSize < 0 \/ bufSize >= 16

Result(ret, ip, fds) == [ret |-> ret, ip |-> ip, fds |-> fds]

(***************************************************************************)
(* getIPAddress(peerName, IPaddress, bufSize).  answer is what             *)
(* gethostbyname_r finds for the name: [found |-> TRUE, addr |-> a] or     *)
(* [found |-> FALSE] (HOST_NOT_FOUND and the other errors, res != 0 or phe *)
(* NULL); mallocOK is whether the 1024-byte work buffer is allocated.  The *)
(* ERANGE loop doubles the buffer until the answer fits; realloc is taken  *)
(* to succeed, so the loop ends with the same answer whatever the size the *)
(* answer needs, and the one buffer is freed before every return after    *)
(* the malloc.                                                             *)
(***************************************************************************)
getIPAddress(answer, ip, bufSize, mallocOK) ==
    LET cleared == Cleared(ip) IN
    CASE ~BufSizeOK(ip, bufSize) \/ ~mallocOK \/ ~answer.found
             -> Result(Zero, cleared, 0)
      [] OTHER -> Result(answer.addr, CopyText(cleared, answer.addr, bufSize), 0)

\* Mutant: the getsockname failure path returns without close(s).
getMyIPAddressNameLeak(peer, ip, bufSize, sys, answer, mallocOK) ==
    LET cleared == Cleared(ip) IN
    CASE ~BufSizeOK(ip, bufSize)  -> Result(Zero, cleared, 0)
      [] ~peer  -> getIPAddress(answer, cleared, bufSize, mallocOK)
      [] ~sys.socket  -> Result(Zero, cleared, 0)
      [] ~sys.connect -> Result(Zero, cleared, 0)
      [] ~sys.name    -> Result(Zero, cleared, 1)
      [] OTHER -> Result(sys.local, CopyText(cleared, sys.local, bufSize), 0)

(***************************************************************************)
(* getMyIPAddress(peer, IPaddress, bufSize).  With a peer (peer TRUE), the *)
(* address the kernel picks for a datagram socket connected to it: sys     *)
(* says whether socket, connect and getsockname succeed and which local    *)
(* address getsockname returns; every path after socket closes it.         *)
(* Without one, getIPAddress of the host's name (answer, mallocOK).        *)
(***************************************************************************)
getMyIPAddress(peer, ip, bufSize, sys, answer, mallocOK) ==
    LET cleared == Cleared(ip) IN
    CASE ~BufSizeOK(ip, bufSize)  -> Result(Zero, cleared, 0)
      [] ~peer  -> getIPAddress(answer, cleared, bufSize, mallocOK)
      [] ~sys.socket  -> Result(Zero, cleared, 0)
      [] ~sys.connect -> Result(Zero, cleared, 0)
      [] ~sys.name    -> Result(Zero, cleared, 0)
      [] OTHER -> Result(sys.local, CopyText(cleared, sys.local, bufSize), 0)
=============================================================================
