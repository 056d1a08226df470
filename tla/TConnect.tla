------------------------------ MODULE TConnect ------------------------------
(***************************************************************************)
(* tconnect() of src/PadSocket.c: connect() with a caller-chosen timeout,  *)
(* together with the helpers it calls (setBlocking, getSocketSysError,     *)
(* getSocketSysGenericError, isconnected) and the kernel side of the TCP   *)
(* connection it drives.                                                   *)
(*                                                                         *)
(* The modelled build is POSIX/Linux.  One call of tconnect on one socket  *)
(* is modelled; its steps are the system calls it makes, because the      *)
(* kernel completes the connection, and signals arrive, between them.     *)
(* Time is counted in ticks of one millisecond, the unit of the timeout    *)
(* argument.                                                               *)
(***************************************************************************)
EXTENDS Integers

CONSTANTS
    Timeouts,             \* the values of the timeout argument that are tried
    Peers,                \* how the addressed peer answers: subset of PeerKinds
    SysConnectTimeout,    \* ticks after which the kernel gives up on a SYN
    MaxSignals,           \* signals that may interrupt one call
    SyncErrors,           \* errors connect() may return for an unroutable peer
    LenOutcomes,          \* what getsockopt makes of isconnected's len
    FcntlMayFail,         \* whether fcntl F_GETFL/F_SETFL may fail
    SelectMayFail,        \* whether select may fail other than by EINTR
    SelectUpdatesTimeout  \* Linux: select writes the unslept time into tv

PeerKinds == {"listening", "refusing", "silent", "unroutable"}

\* The outcomes of getsockopt(s, SOL_SOCKET, SO_ERROR, &err, &len) when len
\* is the uninitialised local of isconnected: a large stack value makes it
\* work ("valid"); a negative one makes it fail with EINVAL ("negative"); a
\* value in 0..3 copies fewer than sizeof(int) bytes into the uninitialised
\* err, which is then any value, zero included ("short").
LenKinds == {"valid", "negative", "short"}

ASSUME /\ Timeouts \subseteq Int
       /\ Peers \subseteq PeerKinds
       /\ SysConnectTimeout \in Nat \ {0}
       /\ MaxSignals \in Nat
       /\ SyncErrors \subseteq {"ECONNREFUSED", "ENETUNREACH", "ENETDOWN"}
       /\ LenOutcomes \subseteq LenKinds
       /\ {FcntlMayFail, SelectMayFail, SelectUpdatesTimeout} \subseteq BOOLEAN

Results == {"SUCCESS", "TIMEOUT", "CONNECT_FAILED", "ERROR"}

\* errno values; "NONE" is 0 and "GARBAGE" any other value of an
\* uninitialised int.
Errnos == {"NONE", "EINTR", "EINPROGRESS", "ECONNREFUSED", "ENETUNREACH",
           "ENETDOWN", "ETIMEDOUT", "EINVAL", "ENOMEM", "EBADF", "GARBAGE"}

VARIABLES
    pc,                \* "start", "connect", "select" (the two loops) or "done"
    timeout,           \* the timeout argument of the call
    peer,              \* how the peer answers a SYN
    nonblock,          \* the O_NONBLOCK flag of socket s
    origNonblock,      \* the flag when tconnect was called (ghost)
    changeWasRequired, \* tconnect's local, set through setBlocking
    kstate,            \* kernel state of s: "closed", "synsent",
                       \* "established" or "failed"
    soError,           \* the pending SO_ERROR of s
    tv,                \* the struct timeval passed to select, in ticks
    elapsed,           \* ticks since the call began (ghost)
    signals,           \* signals delivered during the call
    errno,
    result             \* the value returned, "none" until the call returns

vars == <<pc, timeout, peer, nonblock, origNonblock, changeWasRequired,
          kstate, soError, tv, elapsed, signals, errno, result>>

kernel == <<kstate, soError>>

TypeOK ==
    /\ pc \in {"start", "connect", "select", "done"}
    /\ timeout \in Timeouts
    /\ peer \in Peers
    /\ nonblock \in BOOLEAN /\ origNonblock \in BOOLEAN
    /\ changeWasRequired \in BOOLEAN
    /\ kstate \in {"closed", "synsent", "established", "failed"}
    /\ soError \in Errnos
    /\ tv \in Int /\ elapsed \in 0..SysConnectTimeout
    /\ signals \in 0..MaxSignals
    /\ errno \in Errnos
    /\ result \in Results \cup {"none"}

-----------------------------------------------------------------------------
(* Helpers                                                                  *)

\* Mutant: ECONNREFUSED classed with the errors of a connect in progress.
GenericErrorRefusedAgain(e) ==
    IF e \in {"EWOULDBLOCK", "EINPROGRESS", "ENETDOWN", "ECONNREFUSED"}
    THEN "EAGAIN"
    ELSE IF e \in {"ECONNABORTED", "EINVAL"} THEN "EPIPE"
    ELSE e

\* getSocketSysGenericError: the errors after which a connect may still
\* complete are mapped to EAGAIN.
GenericError(e) ==
    IF e \in {"EWOULDBLOCK", "EINPROGRESS", "ENETDOWN"} THEN "EAGAIN"
    ELSE IF e \in {"ECONNABORTED", "EINVAL"} THEN "EPIPE"
    ELSE e

\* setBlocking(s, state, &changeRequired): the possible outcomes as records
\* of the success status, the new O_NONBLOCK flag and the new value of
\* *changeRequired.  F_GETFL failing leaves *changeRequired untouched;
\* F_SETFL failing leaves the flag but has already set *changeRequired.
SetBlocking(flag, state, changeRequired) ==
    LET needed == (flag = state)   \* nonblocking and want blocking, or v.v.
    IN  {[ok |-> TRUE, flag |-> ~state, changed |-> needed]}
        \cup (IF FcntlMayFail
              THEN {[ok |-> FALSE, flag |-> flag, changed |-> changeRequired],
                    [ok |-> FALSE, flag |-> flag, changed |-> needed]}
              ELSE {})

\* Mutant: blocking mode set on every connected return, as if setBlocking
\* always reported a change (its WIN32 behaviour).
ReturnConnectedAlwaysRestore ==
    /\ pc' = "done"
    /\ \E o \in SetBlocking(nonblock, TRUE, changeWasRequired) :
          /\ nonblock' = o.flag
          /\ changeWasRequired' = o.changed
          /\ result' = IF o.ok THEN "SUCCESS" ELSE "ERROR"
          /\ errno' = IF o.ok THEN errno ELSE "EBADF"

\* The return path on a connected socket: restore blocking mode if it was
\* changed, reporting ERROR if that fails, SUCCESS otherwise.
ReturnConnected ==
    /\ pc' = "done"
    /\ IF changeWasRequired
       THEN \E o \in SetBlocking(nonblock, TRUE, changeWasRequired) :
               /\ nonblock' = o.flag
               /\ changeWasRequired' = o.changed
               /\ result' = IF o.ok THEN "SUCCESS" ELSE "ERROR"
               /\ errno' = IF o.ok THEN errno ELSE "EBADF"
       ELSE /\ result' = "SUCCESS"
            /\ UNCHANGED <<nonblock, changeWasRequired, errno>>

\* Whether select reports s readable or writable: a connection that has
\* completed or failed, or a socket that is not connecting at all (a TCP
\* socket in CLOSE state polls as hung up, which select reports readable).
Ready == kstate \in {"closed", "established", "failed"}

-----------------------------------------------------------------------------
(* The steps of tconnect                                                    *)

Init ==
    /\ pc = "start"
    /\ timeout \in Timeouts
    /\ peer \in Peers
    /\ nonblock \in BOOLEAN
    /\ origNonblock = nonblock
    /\ changeWasRequired \in BOOLEAN    \* uninitialised, never read unset
    /\ kstate = "closed"
    /\ soError = "NONE"
    /\ tv = 0 /\ elapsed = 0 /\ signals = 0
    /\ errno = "NONE"
    /\ result = "none"

\* Up to the connect loop: reject a zero timeout, fill in tv, and make the
\* socket non-blocking, remembering whether that changed it.
Start ==
    /\ pc = "start"
    /\ IF timeout = 0
       THEN /\ result' = "ERROR" /\ pc' = "done"
            /\ UNCHANGED <<nonblock, changeWasRequired, tv>>
       ELSE /\ tv' = timeout
            /\ \E o \in SetBlocking(nonblock, FALSE, changeWasRequired) :
                  /\ nonblock' = o.flag
                  /\ changeWasRequired' = o.changed
                  /\ IF o.ok THEN pc' = "connect" /\ UNCHANGED result
                             ELSE pc' = "done" /\ result' = "ERROR"
    /\ UNCHANGED <<timeout, peer, origNonblock, kernel, elapsed, signals, errno>>

\* What a non-blocking connect() returns for each kind of peer: a listening
\* peer on the loopback accepts at once; a refusing one on the loopback
\* refuses at once; otherwise the SYN is sent and the call returns
\* EINPROGRESS.  (A non-blocking connect never sleeps, so it is never
\* interrupted: the EINTR branch of the loop is not reachable.)
ConnectOutcomes(p) ==
    CASE p = "listening"  -> {"NONE", "EINPROGRESS"}
      [] p = "refusing"   -> {"ECONNREFUSED", "EINPROGRESS"}
      [] p = "silent"     -> {"EINPROGRESS"}
      [] p = "unroutable" -> SyncErrors

\* One pass of the connect loop.
Connect ==
    /\ pc = "connect"
    /\ \E e \in ConnectOutcomes(peer) :
          \/ /\ e = "NONE"
             /\ kstate' = "established"
             /\ ReturnConnected
          \/ /\ e # "NONE" /\ GenericError(e) = "EAGAIN"
             /\ kstate' = IF e = "EINPROGRESS" THEN "synsent" ELSE kstate
             /\ pc' = "select" /\ errno' = e
             /\ UNCHANGED <<result, nonblock, changeWasRequired>>
          \/ /\ e # "NONE" /\ GenericError(e) # "EAGAIN"
             /\ pc' = "done" /\ result' = "CONNECT_FAILED" /\ errno' = e
             /\ UNCHANGED <<kstate, nonblock, changeWasRequired>>
    /\ UNCHANGED <<timeout, peer, origNonblock, soError, tv, elapsed, signals>>

\* Mutant: the interrupted select restarted with the full timeout.
SelectInterruptedRestart ==
    /\ signals < MaxSignals
    /\ signals' = signals + 1
    /\ errno' = "EINTR"
    /\ tv' = timeout
    /\ UNCHANGED <<pc, result, nonblock, changeWasRequired, kernel>>

\* select failed with EINTR: the loop calls it again with tv as it now is.
\* Linux has written the unslept time into tv; elsewhere tv still holds
\* the full timeout, so the wait starts over.
SelectInterrupted ==
    /\ signals < MaxSignals
    /\ signals' = signals + 1
    /\ errno' = "EINTR"
    /\ tv' = IF SelectUpdatesTimeout THEN tv ELSE timeout
    /\ UNCHANGED <<pc, result, nonblock, changeWasRequired, kernel>>

\* select failed otherwise (ENOMEM): the call returns ERROR.
SelectFailed ==
    /\ SelectMayFail
    /\ pc' = "done" /\ result' = "ERROR" /\ errno' = "ENOMEM"
    /\ UNCHANGED <<tv, signals, nonblock, changeWasRequired, kernel>>

\* Mutant: select returning 0 treated like EINTR, the loop going round.
SelectTimedOutRetries ==
    /\ timeout > 0 /\ tv = 0 /\ ~Ready
    /\ UNCHANGED <<pc, result, tv, signals, errno, nonblock,
                   changeWasRequired, kernel>>

\* select returned 0: the timeout expired with s neither readable nor
\* writable.
SelectTimedOut ==
    /\ timeout > 0 /\ tv = 0 /\ ~Ready
    /\ pc' = "done" /\ result' = "TIMEOUT"
    /\ UNCHANGED <<tv, signals, errno, nonblock, changeWasRequired, kernel>>

\* select returned s ready and isconnected() asks for SO_ERROR (which the
\* kernel clears when read); a zero error means connected, any other is
\* left in errno, ETIMEDOUT giving TIMEOUT and the rest CONNECT_FAILED.
SelectReady ==
    /\ Ready
    /\ \E lenKind \in LenOutcomes :
       \E err \in CASE lenKind = "valid"    -> {soError}
                    [] lenKind = "negative" -> {"EINVAL"}
                    [] lenKind = "short"    -> {"NONE", "GARBAGE"} :
          /\ soError' = IF lenKind = "negative" THEN soError ELSE "NONE"
          /\ IF lenKind # "negative" /\ err = "NONE"
             THEN ReturnConnected
             ELSE /\ pc' = "done"
                  /\ errno' = err
                  /\ result' = IF err = "ETIMEDOUT" THEN "TIMEOUT"
                                                    ELSE "CONNECT_FAILED"
                  /\ UNCHANGED <<nonblock, changeWasRequired>>
    /\ UNCHANGED <<kstate, tv, signals>>

\* One pass of the select loop, taking the branch A.
SelectStep(A) ==
    /\ pc = "select"
    /\ A
    /\ UNCHANGED <<timeout, peer, origNonblock, elapsed>>

Select ==
    SelectStep(SelectInterrupted \/ SelectFailed \/ SelectTimedOut \/ SelectReady)

-----------------------------------------------------------------------------
(* Time and the kernel                                                      *)

\* One tick passes while tconnect sleeps in select on a connecting socket.
Tick ==
    /\ pc = "select"
    /\ kstate = "synsent"
    /\ elapsed < SysConnectTimeout
    /\ timeout < 0 \/ tv > 0
    /\ elapsed' = elapsed + 1
    /\ tv' = IF timeout > 0 THEN tv - 1 ELSE tv
    /\ UNCHANGED <<pc, timeout, peer, nonblock, origNonblock,
                   changeWasRequired, kernel, signals, errno, result>>

\* The peer's SYN-ACK or RST arrives, possibly after tconnect has returned
\* (the kernel goes on connecting a socket tconnect gave up on).
Handshake ==
    /\ kstate = "synsent"
    /\ peer \in {"listening", "refusing"}
    /\ elapsed < SysConnectTimeout
    /\ IF peer = "listening"
       THEN kstate' = "established" /\ UNCHANGED soError
       ELSE kstate' = "failed" /\ soError' = "ECONNREFUSED"
    /\ UNCHANGED <<pc, timeout, peer, nonblock, origNonblock,
                   changeWasRequired, tv, elapsed, signals, errno, result>>

\* The kernel's own connect timer expires (every retransmitted SYN lost).
KernelTimeout ==
    /\ kstate = "synsent"
    /\ elapsed = SysConnectTimeout
    /\ kstate' = "failed" /\ soError' = "ETIMEDOUT"
    /\ UNCHANGED <<pc, timeout, peer, nonblock, origNonblock,
                   changeWasRequired, tv, elapsed, signals, errno, result>>

\* The call has returned and the kernel has nothing left to do.
Returned ==
    /\ pc = "done"
    /\ kstate # "synsent" \/ peer \notin {"listening", "refusing"}
    /\ UNCHANGED vars

Next ==
    \/ Start \/ Connect \/ Select
    \/ Tick \/ Handshake \/ KernelTimeout
    \/ Returned

\* The calling thread is always scheduled again, time passes while it
\* sleeps in select, and the kernel's connect timer fires.  Signals and
\* failing system calls may happen but are never forced to.
Fairness ==
    /\ WF_vars(Start) /\ WF_vars(Connect)
    /\ WF_vars(SelectStep(SelectTimedOut \/ SelectReady))
    /\ WF_vars(Tick) /\ WF_vars(KernelTimeout)

Spec == Init /\ [][Next]_vars /\ Fairness

-----------------------------------------------------------------------------
(* Properties                                                               *)

\* The step in which tconnect returns.
Returns == pc # "done" /\ pc' = "done"

\* The verdict tconnect returns agrees with the kernel's state of the socket
\* at that moment: SUCCESS only for an established connection, TIMEOUT and
\* CONNECT_FAILED never for one.  This is what isconnected's SO_ERROR check
\* and the EAGAIN classification of connect's errors must get right.
VerdictMatchesConnection ==
    [][Returns =>
        /\ result' = "SUCCESS" => kstate' = "established"
        /\ result' \in {"TIMEOUT", "CONNECT_FAILED"} => kstate' # "established"
      ]_vars

\* When tconnect reports SUCCESS, the socket is back in the blocking mode it
\* had when tconnect was called (restored only if setBlocking had to change
\* it, whether or not it already was non-blocking).
ModeRestoredOnSuccess ==
    [][Returns /\ result' = "SUCCESS" => nonblock' = origNonblock]_vars

\* Every return with a verdict about the connection (SUCCESS, TIMEOUT or
\* CONNECT_FAILED) leaves the socket in the blocking mode it had when
\* tconnect was called: "On every exit path that changed blocking mode,
\* attempt to restore it before returning".
ModeRestoredOnReturn ==
    [][Returns /\ result' \in {"SUCCESS", "TIMEOUT", "CONNECT_FAILED"}
         => nonblock' = origNonblock]_vars

\* With a positive timeout tconnect returns within it, signals or not, and
\* a TIMEOUT not caused by the kernel's own connect timer is returned
\* exactly when the timeout has run out.
ReturnsWithinBudget ==
    [][Returns =>
        /\ timeout > 0 => elapsed' <= timeout
        /\ result' = "TIMEOUT" /\ errno' # "ETIMEDOUT" => elapsed' = timeout
      ]_vars
=============================================================================
