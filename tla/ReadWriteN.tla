----------------------------- MODULE ReadWriteN -----------------------------
(***************************************************************************)
(* readn() and writen() of src/PadSocket.c on a connected TCP socket, and  *)
(* the peer at the other end.                                              *)
(*                                                                         *)
(* A caller sends a request of WriteLen bytes with writen and then reads   *)
(* a reply of ReadLen bytes with readn.  A byte is represented by its      *)
(* position in its stream, so the bytes that reach the peer (wire) and    *)
(* the bytes recv stores into the caller's buffer (buf) show both the      *)
(* order and the offsets (ptr) at which the loops copy them.              *)
(*                                                                         *)
(* send() on a connected socket may send fewer bytes than asked (a short  *)
(* count), fail with EINTR, or fail with EPIPE/ECONNRESET after the peer   *)
(* reset the connection; its send buffer never fills in the model.  recv() *)
(* returns what is queued up to nleft bytes; with nothing queued it        *)
(* returns 0 after the peer's FIN, -1 after a reset, -1 with EAGAIN on a   *)
(* non-blocking socket, and otherwise sleeps until a segment or a signal   *)
(* (EINTR) arrives.  The socket's O_NONBLOCK flag is the input sockNonblock. *)
(***************************************************************************)
EXTENDS Integers, Sequences

CONSTANTS
    WriteLen,      \* nbytes passed to writen
    ReadLen,       \* nbytes passed to readn
    ReplyLens,     \* the lengths of reply the peer may send before closing
    MaxIoSignals   \* signals that may interrupt send or recv

VARIABLES
    io,         \* "idle", "writen", "readn" or "end" (the caller's progress)
    nleft,      \* the local nleft of the running loop
    ptr,        \* offset of the local ptr from the start of the buffer
    wire,       \* request bytes received by the peer, in order
    buf,        \* the caller's reply buffer: stream position or 0 per byte
    consumed,   \* reply bytes taken out of the socket by recv
    queued,     \* reply bytes the peer has sent that recv has not taken
    toSend,     \* reply bytes the peer has still to send
    remote,     \* "open", "closed" (FIN sent) or "reset"
    wret,       \* <<r>> once writen has returned r, << >> before
    rret,       \* <<r>> once readn has returned r, << >> before
    ioSignals   \* signals delivered so far

ioVars == <<io, nleft, ptr, wire, buf, consumed, queued, toSend, remote, wret,
            rret, ioSignals>>

IoInit ==
    /\ io = "idle" /\ nleft = 0 /\ ptr = 0
    /\ wire = << >> /\ buf = [i \in 1..ReadLen |-> 0]
    /\ consumed = 0 /\ queued = 0 /\ toSend \in ReplyLens /\ remote = "open"
    /\ wret = << >> /\ rret = << >> /\ ioSignals = 0

Interrupted == ioSignals < MaxIoSignals /\ ioSignals' = ioSignals + 1

\* The caller calls writen(fd, request, WriteLen).
CallWriten ==
    /\ io = "idle"
    /\ io' = "writen" /\ nleft' = WriteLen /\ ptr' = 0
    /\ UNCHANGED <<wire, buf, consumed, queued, toSend, remote, wret, rret,
                   ioSignals>>

\* Mutant: the loop does not advance ptr after a short count.
WritenPassSamePtr ==
    /\ io = "writen" /\ nleft > 0
    /\ \/ /\ remote # "reset"
          /\ \E k \in 1..nleft :
                /\ wire' = wire \o [i \in 1..k |-> ptr + i]
                /\ IF nleft - k = 0
                     THEN /\ io' = "readn" /\ wret' = <<WriteLen>>
                          /\ nleft' = ReadLen /\ ptr' = 0
                     ELSE /\ nleft' = nleft - k /\ UNCHANGED <<io, wret, ptr>>
          /\ UNCHANGED ioSignals
       \/ /\ Interrupted
          /\ UNCHANGED <<wire, io, wret, nleft, ptr>>
       \/ /\ remote = "reset"
          /\ io' = "end" /\ wret' = <<-1>>
          /\ UNCHANGED <<wire, nleft, ptr, ioSignals>>
    /\ UNCHANGED <<buf, consumed, queued, toSend, remote, rret>>

\* One pass of writen's loop: send(fd, ptr, nleft) sends k bytes; EINTR
\* goes round again; any other error is returned.  When nleft reaches 0
\* the loop ends and nbytes - nleft is returned, and the caller goes on to
\* readn(fd, reply, ReadLen).
WritenPass ==
    /\ io = "writen" /\ nleft > 0
    /\ \/ /\ remote # "reset"
          /\ \E k \in 1..nleft :
                /\ wire' = wire \o [i \in 1..k |-> ptr + i]
                /\ IF nleft - k = 0
                     THEN /\ io' = "readn" /\ wret' = <<WriteLen>>
                          /\ nleft' = ReadLen /\ ptr' = 0
                     ELSE /\ nleft' = nleft - k /\ ptr' = ptr + k
                          /\ UNCHANGED <<io, wret>>
          /\ UNCHANGED ioSignals
       \/ /\ Interrupted
          /\ UNCHANGED <<wire, io, wret, nleft, ptr>>
       \/ /\ remote = "reset"
          /\ io' = "end" /\ wret' = <<-1>>
          /\ UNCHANGED <<wire, nleft, ptr, ioSignals>>
    /\ UNCHANGED <<buf, consumed, queued, toSend, remote, rret>>

\* Mutant: recv's 0 (the peer's FIN) taken as "go round again": the loop
\* spins on recv returning 0 and nothing in the model changes.
ReadnPassNoBreak(sockNonblock) ==
    /\ io = "readn" /\ nleft > 0
    /\ \/ /\ queued > 0
          /\ LET n == IF queued < nleft THEN queued ELSE nleft IN
             /\ buf' = [i \in 1..ReadLen |->
                          IF i > ptr /\ i <= ptr + n THEN consumed + i - ptr
                                                     ELSE buf[i]]
             /\ consumed' = consumed + n /\ queued' = queued - n
             /\ IF nleft - n = 0
                  THEN io' = "end" /\ rret' = <<ReadLen>> /\ UNCHANGED <<nleft, ptr>>
                  ELSE nleft' = nleft - n /\ ptr' = ptr + n /\ UNCHANGED <<io, rret>>
          /\ UNCHANGED ioSignals
       \/ /\ queued = 0 /\ remote = "open" /\ ~sockNonblock /\ Interrupted
          /\ UNCHANGED <<io, rret, nleft, ptr, buf, consumed, queued>>
       \/ /\ queued = 0 /\ (remote = "reset" \/ (remote = "open" /\ sockNonblock))
          /\ io' = "end" /\ rret' = <<-1>>
          /\ UNCHANGED <<nleft, ptr, buf, consumed, queued, ioSignals>>
    /\ UNCHANGED <<wire, toSend, remote, wret>>

\* Mutant: the loop does not advance ptr after a short count.
ReadnPassSamePtr(sockNonblock) ==
    /\ io = "readn" /\ nleft > 0
    /\ \/ /\ queued > 0
          /\ LET n == IF queued < nleft THEN queued ELSE nleft IN
             /\ buf' = [i \in 1..ReadLen |->
                          IF i > ptr /\ i <= ptr + n THEN consumed + i - ptr
                                                     ELSE buf[i]]
             /\ consumed' = consumed + n /\ queued' = queued - n
             /\ IF nleft - n = 0
                  THEN io' = "end" /\ rret' = <<ReadLen>> /\ UNCHANGED <<nleft, ptr>>
                  ELSE nleft' = nleft - n /\ UNCHANGED <<io, rret, ptr>>
          /\ UNCHANGED ioSignals
       \/ /\ queued = 0 /\ remote = "closed"
          /\ io' = "end" /\ rret' = <<ReadLen - nleft>>
          /\ UNCHANGED <<nleft, ptr, buf, consumed, queued, ioSignals>>
       \/ /\ queued = 0 /\ remote = "open" /\ ~sockNonblock /\ Interrupted
          /\ UNCHANGED <<io, rret, nleft, ptr, buf, consumed, queued>>
       \/ /\ queued = 0 /\ (remote = "reset" \/ (remote = "open" /\ sockNonblock))
          /\ io' = "end" /\ rret' = <<-1>>
          /\ UNCHANGED <<nleft, ptr, buf, consumed, queued, ioSignals>>
    /\ UNCHANGED <<wire, toSend, remote, wret>>

\* One pass of readn's loop: recv(fd, ptr, nleft) copies n queued bytes
\* to ptr; 0 (the peer closed) breaks out with the short count; EINTR goes
\* round again; any other error (ECONNRESET, or EAGAIN on a non-blocking
\* socket with nothing queued) is returned.  With nleft at 0 the loop ends
\* and nbytes - nleft is returned.
ReadnPass(sockNonblock) ==
    /\ io = "readn" /\ nleft > 0
    /\ \/ /\ queued > 0
          /\ LET n == IF queued < nleft THEN queued ELSE nleft IN
             /\ buf' = [i \in 1..ReadLen |->
                          IF i > ptr /\ i <= ptr + n THEN consumed + i - ptr
                                                     ELSE buf[i]]
             /\ consumed' = consumed + n /\ queued' = queued - n
             /\ IF nleft - n = 0
                  THEN io' = "end" /\ rret' = <<ReadLen>> /\ UNCHANGED <<nleft, ptr>>
                  ELSE nleft' = nleft - n /\ ptr' = ptr + n /\ UNCHANGED <<io, rret>>
          /\ UNCHANGED ioSignals
       \/ /\ queued = 0 /\ remote = "closed"
          /\ io' = "end" /\ rret' = <<ReadLen - nleft>>
          /\ UNCHANGED <<nleft, ptr, buf, consumed, queued, ioSignals>>
       \/ /\ queued = 0 /\ remote = "open" /\ ~sockNonblock /\ Interrupted
          /\ UNCHANGED <<io, rret, nleft, ptr, buf, consumed, queued>>
       \/ /\ queued = 0 /\ (remote = "reset" \/ (remote = "open" /\ sockNonblock))
          /\ io' = "end" /\ rret' = <<-1>>
          /\ UNCHANGED <<nleft, ptr, buf, consumed, queued, ioSignals>>
    /\ UNCHANGED <<wire, toSend, remote, wret>>

-----------------------------------------------------------------------------
(* The peer: it reads the whole request, then sends its reply in segments  *)
(* of any size and closes; or it resets the connection at any time.        *)

PeerSend ==
    /\ remote = "open" /\ Len(wire) = WriteLen /\ toSend > 0
    /\ \E c \in 1..toSend : queued' = queued + c /\ toSend' = toSend - c
    /\ UNCHANGED <<io, nleft, ptr, wire, buf, consumed, remote, wret, rret,
                   ioSignals>>

PeerClose ==
    /\ remote = "open" /\ Len(wire) = WriteLen /\ toSend = 0
    /\ remote' = "closed"
    /\ UNCHANGED <<io, nleft, ptr, wire, buf, consumed, queued, toSend, wret,
                   rret, ioSignals>>

\* A reset discards what was queued and not yet read.
PeerReset ==
    /\ remote = "open"
    /\ remote' = "reset" /\ queued' = 0
    /\ UNCHANGED <<io, nleft, ptr, wire, buf, consumed, toSend, wret, rret,
                   ioSignals>>

IoNext(sockNonblock) ==
    \/ CallWriten \/ WritenPass \/ ReadnPass(sockNonblock)
    \/ PeerSend \/ PeerClose \/ PeerReset

-----------------------------------------------------------------------------
(***************************************************************************)
(* Properties                                                              *)
(***************************************************************************)

IoTypeOK ==
    /\ io \in {"idle", "writen", "readn", "end"}
    /\ nleft \in 0..(IF WriteLen > ReadLen THEN WriteLen ELSE ReadLen)
    /\ wire \in Seq(1..WriteLen) /\ Len(wire) <= WriteLen
    /\ buf \in [1..ReadLen -> 0..ReadLen]
    /\ remote \in {"open", "closed", "reset"}
    /\ wret \in {<< >>, <<-1>>, <<WriteLen>>}
    /\ rret \in {<< >>, <<-1>>} \cup {<<r>> : r \in 0..ReadLen}

\* The peer receives the request's bytes in order, each once, and writen
\* returns nbytes only once all of them are sent: the short counts send
\* returns are added up by nleft and ptr without a gap or an overlap.
WritenSendsInOrder ==
    /\ wire = [i \in 1..Len(wire) |-> i]
    /\ wret = <<WriteLen>> => Len(wire) = WriteLen

\* When readn returns a count r >= 0, the first r bytes of the buffer are
\* the first r bytes of the reply, in order, and the rest is untouched; r
\* falls short of nbytes only when the peer closed after sending r bytes.
ReadnFillsPrefix ==
    \A r \in 0..ReadLen : rret = <<r>> =>
        /\ buf = [i \in 1..ReadLen |-> IF i <= r THEN i ELSE 0]
        /\ r < ReadLen => remote = "closed" /\ toSend = 0 /\ queued = 0

\* readn returns once the peer has sent its reply and closed: a FIN that
\* arrives before nbytes have been read ends the loop with a short count.
ReadnReturns == io = "readn" ~> io = "end"
=============================================================================
