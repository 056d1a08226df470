------------------------------- MODULE Session -------------------------------
(***************************************************************************)
(* A client session over src/PadSocket.c: the client looks up the server's *)
(* address, with getIPAddress(name, IPaddress, bufSize) or, for a server   *)
(* on this host, getMyIPAddress(NULL, IPaddress, bufSize); if it gets one, *)
(* it calls tconnect(s, addr, len, timeout) and, when that returns         *)
(* SUCCESS, writen(s, request, WriteLen) followed by readn(s, reply,       *)
(* ReadLen) on the same socket, in whatever O_NONBLOCK mode tconnect left  *)
(* it.  This is how the library's client calls are meant to be used       *)
(* together: "0 indicates error" for the lookup, tconnect restores the    *)
(* caller's mode, and readn and writen have no EAGAIN handling of their    *)
(* own.  A client whose lookup returns 0 does not connect.                 *)
(***************************************************************************)
EXTENDS TConnect, ReadWriteN, Resolve

CONSTANTS
    HostAnswers,  \* what gethostbyname_r finds for a name
    BufSizes      \* sizes of the client's IPaddress buffer (0: NULL)

\* Uninitialised bytes of the client's buffer: a non-NUL 'x'.
Garbage == 120

VARIABLE
    lookup   \* <<r>> once the lookup has returned the Result r, << >> before

sessionVars == <<vars, ioVars, lookup>>

\* The IPaddress argument for a buffer of n bytes, NULL for 0.
IPArg(n) == IF n = 0 THEN << >> ELSE <<[i \in 1..n |-> Garbage]>>

\* getMyIPAddress(NULL, ...) makes no socket calls.
NoSys == [socket |-> FALSE, connect |-> FALSE, name |-> FALSE, local |-> Zero]

\* The lookup has given the client an address to connect to, or has failed.
Resolved == lookup # << >> /\ lookup[1].ret # Zero
LookupFailed == lookup # << >> /\ lookup[1].ret = Zero

\* tconnect has returned SUCCESS: s is connected.
Connected == pc = "done" /\ result = "SUCCESS"

\* The client's lookup: the server's name, or this host's when the server
\* runs here; the work buffer may not be allocated.
LookUp ==
    /\ lookup = << >>
    /\ \E n \in BufSizes, a \in HostAnswers, mallocOK \in BOOLEAN :
          \/ lookup' = <<getIPAddress(a, IPArg(n), n, mallocOK)>>
          \/ lookup' = <<getMyIPAddress(FALSE, IPArg(n), n, NoSys, a, mallocOK)>>
    /\ UNCHANGED <<vars, ioVars>>

\* A step of tconnect or of the kernel, once the client has an address.
ConnStep(A) == Resolved /\ A /\ UNCHANGED <<ioVars, lookup>>

\* A step of the caller's I/O or of the peer, on the connected socket.
IoStep(A) == Connected /\ A /\ UNCHANGED <<vars, lookup>>

\* The client whose lookup failed has nothing left to do.
GaveUp == LookupFailed /\ UNCHANGED sessionVars

SessionInit == Init /\ IoInit /\ lookup = << >>

SessionNext ==
    \/ LookUp
    \/ ConnStep(Next)
    \/ IoStep(IoNext(nonblock))
    \/ GaveUp

\* tconnect's fairness on its steps once the lookup is done, and: the
\* lookup returns; the caller's loops run whenever they can; the peer,
\* once it has the request, goes on to send its reply and close.
SessionFairness ==
    /\ WF_sessionVars(LookUp)
    /\ WF_sessionVars(ConnStep(Start)) /\ WF_sessionVars(ConnStep(Connect))
    /\ WF_sessionVars(ConnStep(SelectStep(SelectTimedOut \/ SelectReady)))
    /\ WF_sessionVars(ConnStep(Tick)) /\ WF_sessionVars(ConnStep(KernelTimeout))
    /\ WF_sessionVars(IoStep(CallWriten)) /\ WF_sessionVars(IoStep(WritenPass))
    /\ WF_sessionVars(IoStep(ReadnPass(nonblock)))
    /\ WF_sessionVars(IoStep(PeerSend)) /\ WF_sessionVars(IoStep(PeerClose))

SessionSpec == SessionInit /\ [][SessionNext]_sessionVars /\ SessionFairness

-----------------------------------------------------------------------------
(* Properties                                                               *)

\* The C string in the bytes b: those before the first NUL.
Text(b) ==
    LET nul == CHOOSE i \in DOMAIN b : b[i] = 0 /\ \A j \in 1..(i - 1) : b[j] # 0
    IN  SubSeq(b, 1, nul - 1)

\* When the lookup has returned, the client's IPaddress buffer holds a C
\* string within its bufSize bytes, whatever failed (the '\0' store, the
\* sanity check and strncpy of getIPAddress and getMyIPAddress), and an
\* address returned as non-zero comes with exactly its dotted text.  The
\* converse, that a 0 return comes with an empty buffer as the comments at
\* PadSocket.c:190-201 promise, is not claimed: a name resolving to
\* 0.0.0.0 returns 0 with the text "0.0.0.0".
ResolvedStringMatches ==
    \A r \in {lookup[i] : i \in DOMAIN lookup} :
       r.ip # << >> =>
          /\ \E i \in DOMAIN r.ip[1] : r.ip[1][i] = 0
          /\ r.ret # Zero => Text(r.ip[1]) = inet_ntoa(r.ret)

\* Once the lookup has given the client an address, its call of tconnect
\* returns, whatever the peer does, including with an infinite timeout
\* (the kernel's connect timer then ends the wait).
ConnectReturns == Resolved ~> (pc = "done")
=============================================================================
