---------------------------- MODULE THalfConnect ----------------------------
(***************************************************************************)
(* thalf_connect() of src/PadSocket.c, the stealth half-open probe, called *)
(* by one or more threads of one process, together with IsSocketReady (the *)
(* readiness poller of its receive loop), the target host and the network. *)
(*                                                                         *)
(* Each call takes a correlation token from the two function-level statics *)
(* blah and curr_unique_val, builds a SYN whose source port and sequence   *)
(* number are the token and whose checksum in_cksum computes over the      *)
(* pseudo-header struct, sends it on a raw socket, and reads segments from *)
(* that socket until one is addressed to curr_unique_val.  On Linux every  *)
(* open raw TCP socket receives a copy of every inbound TCP segment, so    *)
(* each probe also sees replies to other probes and unrelated traffic.     *)
(*                                                                         *)
(* Ports and tokens are the 16-bit values the host reads from the header  *)
(* fields; their bytes in memory are little-endian (the modelled build).   *)
(***************************************************************************)
EXTENDS Integers, Sequences, FiniteSets, InCksum, Resolve

CONSTANTS
    Threads,          \* threads calling thalf_connect
    PID,              \* getpid() of the process
    MaxCalls,         \* calls each thread makes, one after the other
    Timeouts,         \* values of the timeout argument tried
    Ports,            \* ports of the target that are probed
    SrcAddr, DstAddr, \* the local and the target IPv4 address, as 4 bytes
    CrossPorts,       \* local ports unrelated hosts send segments to
    MaxCross,         \* unrelated segments that may arrive in a behaviour
    MaxDup,           \* replies the network may duplicate in a behaviour
    MaxQueue,         \* segments a raw socket's receive buffer holds
    SysCallsMayFail   \* whether getMyIPAddress, socket, fcntl, sendto,
                      \* select and recvfrom may fail

ASSUME /\ PID \in 1..65535 /\ MaxCalls \in Nat
       /\ Timeouts \subseteq Nat
       /\ Ports \subseteq 1..65535 /\ CrossPorts \subseteq 1..65535
       /\ SrcAddr \in [1..4 -> Byte] /\ DstAddr \in [1..4 -> Byte]
       /\ {MaxCross, MaxDup, MaxQueue} \subseteq Nat
       /\ SysCallsMayFail \in BOOLEAN

Results == {"SUCCESS", "TIMEOUT", "CONNECT_FAILED", "ERROR"}
PortStates == {"open", "closed", "filtered"}
U16 == 0..65535

\* A segment reaching the local host: who sent it, its source and
\* destination ports and whether its SYN flag is set.
Segments == [from : {"target", "other"}, sport : U16, dport : U16,
             syn : BOOLEAN]

VARIABLES
    blah, curr_unique_val,  \* the statics of thalf_connect
    pc,         \* per thread: "idle", "start", "inc", "store", "send", "wait"
    calls,      \* per thread: calls made so far
    timeout,    \* per thread: timeout argument of the current call
    port,       \* per thread: target port of the current call
    reg,        \* per thread: blah + 1 as computed in a register
    token,      \* per thread: getpid() + blah as computed by this thread
    fds,        \* per thread: the sockets it holds open, "raw" and "udp"
    queue,      \* per thread: segments waiting in that socket
    left,       \* per thread: time left in the current IsSocketReady wait
    elapsed,    \* per thread: ticks since the SYN was sent (ghost)
    result,     \* per thread: result of its last call
    portState,  \* the target's port states, fixed for a behaviour
    syns,       \* SYNs on their way to the target, as byte images
    net,        \* segments on their way to the local host
    dups,       \* replies duplicated so far
    cross       \* unrelated segments sent so far

statics == <<blah, curr_unique_val>>
env == <<portState, syns, net, dups, cross>>
vars == <<blah, curr_unique_val, pc, calls, timeout, port, reg, token,
          fds, queue, left, elapsed, result, portState, syns, net,
          dups, cross>>

-----------------------------------------------------------------------------
(* The SYN on the wire                                                      *)

LE16(v) == <<v % 256, v \div 256>>
BE16(v) == <<v \div 256, v % 256>>
LE32(v) == LE16(v % 65536) \o LE16(v \div 65536)

\* struct tcphdr as filled in at lines "send_tcp.source = ..." to
\* "send_tcp.urg_ptr = 0": source and seq are the token (no htons/htonl),
\* dest is sin_port, doff = 5 and syn = 1 in the little-endian bitfields,
\* window = htons(512).
TcpHeader(src, dst, check) ==
    LE16(src) \o LE16(dst) \o LE32(src) \o LE32(0)
    \o <<5 * 16, 2>> \o BE16(512) \o LE16(check) \o LE16(0)

\* Mutant: tcp_length set to the size of the whole pseudo_header struct.
PseudoHeaderStructLength(src, dst) ==
    src \o <<0, 0, 0, 0>> \o dst \o <<0, 0, 0, 0>>
    \o <<0, 6>> \o BE16(40)

\* The pseudo_header struct in memory: src_address and dest_address are
\* unsigned long (8 bytes on 64-bit Linux) holding the network-order
\* s_addr, then placeholder, protocol IPPROTO_TCP and htons(20).
PseudoHeader(src, dst) ==
    src \o <<0, 0, 0, 0>> \o dst \o <<0, 0, 0, 0>>
    \o <<0, 6>> \o BE16(20)

\* send_tcp with check = in_cksum(&pseudo_header, sizeof pseudo_header).
SynImage(src, dst) ==
    TcpHeader(src, dst, in_cksum(PseudoHeader(SrcAddr, DstAddr)
                                 \o TcpHeader(src, dst, 0)))

\* The target's TCP input check (RFC 793): the checksum over the 12-byte
\* pseudo-header of the IP addresses, protocol and length, and the segment.
ChecksumAccepted(image) ==
    RfcChecksum(SrcAddr \o DstAddr \o <<0, 6>> \o BE16(Len(image)) \o image)
        = 0

\* The source and destination ports of a segment image, as read by a host.
ImageSport(image) == image[1] + 256 * image[2]
ImageDport(image) == image[3] + 256 * image[4]

-----------------------------------------------------------------------------
TypeOK ==
    /\ blah \in U16 /\ curr_unique_val \in U16
    /\ pc \in [Threads -> {"idle", "start", "inc", "store", "send", "wait"}]
    /\ calls \in [Threads -> 0..MaxCalls]
    /\ timeout \in [Threads -> Timeouts]
    /\ port \in [Threads -> Ports]
    /\ reg \in [Threads -> U16] /\ token \in [Threads -> U16]
    /\ fds \in [Threads -> SUBSET {"raw", "udp"}]
    /\ queue \in [Threads -> Seq(Segments)]
    /\ left \in [Threads -> Nat] /\ elapsed \in [Threads -> Nat]
    /\ result \in [Threads -> Results \cup {"none"}]
    /\ portState \in [Ports -> PortStates]
    /\ syns \subseteq Seq(Byte)
    /\ net \subseteq Segments
    /\ dups \in 0..MaxDup /\ cross \in 0..MaxCross

Init ==
    /\ blah = 0 /\ curr_unique_val = 0        \* zero-initialised statics
    /\ pc = [t \in Threads |-> "idle"]
    /\ calls = [t \in Threads |-> 0]
    /\ timeout \in [Threads -> Timeouts]
    /\ port \in [Threads -> Ports]
    /\ reg = [t \in Threads |-> 0] /\ token = [t \in Threads |-> 0]
    /\ fds = [t \in Threads |-> {}]
    /\ queue = [t \in Threads |-> <<>>]
    /\ left = [t \in Threads |-> 0] /\ elapsed = [t \in Threads |-> 0]
    /\ result = [t \in Threads |-> "none"]
    /\ portState \in [Ports -> PortStates]
    /\ syns = {} /\ net = {} /\ dups = 0 /\ cross = 0

-----------------------------------------------------------------------------
(* One call of thalf_connect by thread t                                    *)

\* The thread enters thalf_connect for a peer port with a timeout.
Call(t) ==
    /\ pc[t] = "idle" /\ calls[t] < MaxCalls
    /\ calls' = [calls EXCEPT ![t] = @ + 1]
    /\ \E to \in Timeouts, p \in Ports :
          /\ timeout' = [timeout EXCEPT ![t] = to]
          /\ port' = [port EXCEPT ![t] = p]
    /\ pc' = [pc EXCEPT ![t] = "start"]
    /\ result' = [result EXCEPT ![t] = "none"]
    /\ UNCHANGED <<statics, reg, token, fds, queue, left, elapsed, env>>

\* A zero timeout is refused before the statics are touched.
Start(t) ==
    /\ pc[t] = "start"
    /\ IF timeout[t] = 0
         THEN /\ pc' = [pc EXCEPT ![t] = "idle"]
              /\ result' = [result EXCEPT ![t] = "ERROR"]
         ELSE /\ pc' = [pc EXCEPT ![t] = "inc"]
              /\ UNCHANGED result
    /\ UNCHANGED <<statics, calls, timeout, port, reg, token, fds, queue,
                   left, elapsed, env>>

\* Mutant: the increment of blah dropped, every call reuses the token.
IncDropped(t) ==
    /\ pc[t] = "inc"
    /\ reg' = [reg EXCEPT ![t] = blah]
    /\ pc' = [pc EXCEPT ![t] = "store"]
    /\ UNCHANGED <<statics, calls, timeout, port, token, fds, queue,
                   left, elapsed, result, env>>

\* blah++ : the load of blah and the addition, in a register.  Another
\* thread may run between this load and the store of the next step.
Inc(t) ==
    /\ pc[t] = "inc"
    /\ reg' = [reg EXCEPT ![t] = (blah + 1) % 65536]
    /\ pc' = [pc EXCEPT ![t] = "store"]
    /\ UNCHANGED <<statics, calls, timeout, port, token, fds, queue,
                   left, elapsed, result, env>>

\* Mutant: the token kept in an int, getpid() + blah not truncated.
StoreUntruncated(t) ==
    LET v == PID + reg[t] IN
    /\ pc[t] = "store"
    /\ blah' = reg[t]
    /\ curr_unique_val' = v
    /\ token' = [token EXCEPT ![t] = v]
    /\ pc' = [pc EXCEPT ![t] = IF v = 0 THEN "inc" ELSE "send"]
    /\ UNCHANGED <<calls, timeout, port, reg, fds, queue, left, elapsed,
                   result, env>>

\* The store of blah and of curr_unique_val = getpid() + blah, truncated
\* to unsigned short; the do-while repeats while the value is 0.
Store(t) ==
    LET v == (PID + reg[t]) % 65536 IN
    /\ pc[t] = "store"
    /\ blah' = reg[t]
    /\ curr_unique_val' = v
    /\ token' = [token EXCEPT ![t] = v]
    /\ pc' = [pc EXCEPT ![t] = IF v = 0 THEN "inc" ELSE "send"]
    /\ UNCHANGED <<calls, timeout, port, reg, fds, queue, left, elapsed,
                   result, env>>

\* Returning from the call with result r, the raw socket closed.
Return(t, r) ==
    /\ pc' = [pc EXCEPT ![t] = "idle"]
    /\ result' = [result EXCEPT ![t] = r]
    /\ fds' = [fds EXCEPT ![t] = @ \ {"raw"}]

\* The outcomes of getMyIPAddress(peer, NULL, 0)'s socket, connect and
\* getsockname; the kernel picks SrcAddr as the source towards the target.
MyIPOutcomes ==
    {o \in [socket : BOOLEAN, connect : BOOLEAN, name : BOOLEAN,
            local : {SrcAddr}] :
        ~SysCallsMayFail => o.socket /\ o.connect /\ o.name}

\* What thread t holds open after getMyIPAddress returned my.
AfterMyIP(t, my) == fds[t] \cup (IF my.fds > 0 THEN {"udp"} ELSE {})

\* The SYN is sent: the raw socket is open and the receive loop starts.
SynSent(t, own) ==
    \E src \in {token[t], curr_unique_val} :
       /\ syns' = syns \cup {SynImage(src, port[t])}
       /\ fds' = [fds EXCEPT ![t] = own \cup {"raw"}]
       /\ queue' = [queue EXCEPT ![t] = <<>>]
       /\ left' = [left EXCEPT ![t] = timeout[t]]
       /\ elapsed' = [elapsed EXCEPT ![t] = 0]
       /\ pc' = [pc EXCEPT ![t] = "wait"]
       /\ UNCHANGED result

\* A return with ERROR before the receive loop, holding own.
SendFailed(t, own) ==
    /\ pc' = [pc EXCEPT ![t] = "idle"]
    /\ result' = [result EXCEPT ![t] = "ERROR"]
    /\ fds' = [fds EXCEPT ![t] = own]
    /\ UNCHANGED <<queue, left, elapsed, syns>>

\* Mutant: a failing sendto returns without going to the error handler.
SendLeaksOnError(t) ==
    /\ pc[t] = "send"
    /\ \E sys \in MyIPOutcomes :
         LET my  == getMyIPAddress(TRUE, << >>, 0, sys, [found |-> FALSE], TRUE)
             own == AfterMyIP(t, my)
         IN  \/ my.ret = Zero /\ SendFailed(t, own)
             \/ my.ret # Zero /\ SysCallsMayFail /\ SendFailed(t, own \cup {"raw"})
             \/ my.ret # Zero /\ SynSent(t, own)
    /\ UNCHANGED <<statics, calls, timeout, port, reg, token, portState, net,
                   dups, cross>>

\* From "send_tcp.source = curr_unique_val" to the sendto.  No function
\* is called between the computation of the token and the filling of the
\* header, so the compiler may use the value in its register or reload the
\* static, which another thread may have changed in between: both builds
\* are possible.  getMyIPAddress(peer, NULL, 0) gives the pseudo-header's
\* source address, and 0 is an error; socket may then fail (nothing to
\* close), or setBlocking or sendto, and the error handler closes it.
Send(t) ==
    /\ pc[t] = "send"
    /\ \E sys \in MyIPOutcomes :
         LET my  == getMyIPAddress(TRUE, << >>, 0, sys, [found |-> FALSE], TRUE)
             own == AfterMyIP(t, my)
         IN  \/ my.ret = Zero /\ SendFailed(t, own)
             \/ my.ret # Zero /\ SysCallsMayFail /\ SendFailed(t, own)
             \/ my.ret # Zero /\ SynSent(t, own)
    /\ UNCHANGED <<statics, calls, timeout, port, reg, token, portState, net,
                   dups, cross>>

\* IsSocketReady returns YES and recvfrom reads the oldest segment; the
\* loop ends when its destination port equals curr_unique_val, read again
\* from memory after the calls, and the handler classifies it by its SYN
\* flag.  Any other segment restarts IsSocketReady with the full timeout.
WaitReady(t) ==
    LET m == Head(queue[t]) IN
    /\ queue[t] # <<>>
    /\ queue' = [queue EXCEPT ![t] = Tail(@)]
    /\ IF m.dport = curr_unique_val
         THEN /\ Return(t, IF m.syn THEN "SUCCESS" ELSE "CONNECT_FAILED")
              /\ UNCHANGED left
         ELSE /\ left' = [left EXCEPT ![t] = timeout[t]]
              /\ UNCHANGED <<pc, result, fds>>

\* recvfrom fails after select reported the socket readable.
RecvFailed(t) ==
    /\ SysCallsMayFail /\ queue[t] # <<>>
    /\ Return(t, "ERROR")
    /\ UNCHANGED <<queue, left>>

\* Mutant: the test of select's result for a timeout never true.
WaitTimedOutUnreachable(t) ==
    /\ queue[t] = <<>> /\ left[t] < 0
    /\ Return(t, "TIMEOUT")
    /\ UNCHANGED <<queue, left>>

\* select returns 0: IsSocketReady returns NO and the call TIMEOUT.
WaitTimedOut(t) ==
    /\ queue[t] = <<>> /\ left[t] = 0
    /\ Return(t, "TIMEOUT")
    /\ UNCHANGED <<queue, left>>

\* select fails with an error other than EINTR.
SelectFailed(t) ==
    /\ SysCallsMayFail
    /\ Return(t, "ERROR")
    /\ UNCHANGED <<queue, left>>

WaitStep(t, A) ==
    /\ pc[t] = "wait" /\ A
    /\ UNCHANGED <<statics, calls, timeout, port, reg, token, elapsed, env>>

Wait(t) ==
    WaitStep(t, WaitReady(t) \/ RecvFailed(t) \/ WaitTimedOut(t)
                \/ SelectFailed(t))

-----------------------------------------------------------------------------
(* Time, the target and the network                                         *)

Asleep(t) == pc[t] = "wait" /\ queue[t] = <<>> /\ left[t] > 0

\* One unit of time passes for every thread blocked in select.
Tick ==
    /\ \E t \in Threads : Asleep(t)
    /\ left' = [t \in Threads |-> IF Asleep(t) THEN left[t] - 1 ELSE left[t]]
    /\ elapsed' = [t \in Threads |->
                     IF Asleep(t) THEN elapsed[t] + 1 ELSE elapsed[t]]
    /\ UNCHANGED <<statics, pc, calls, timeout, port, reg, token, fds,
                   queue, result, env>>

\* The target's TCP input: a SYN whose checksum verifies is answered with
\* SYN-ACK by an open port and RST by a closed one; a filtered port, or a
\* bad checksum, gives no answer.
Target ==
    \E s \in syns :
       LET state == portState[ImageDport(s)] IN
       /\ syns' = syns \ {s}
       /\ net' = IF ChecksumAccepted(s) /\ state # "filtered"
                   THEN net \cup {[from |-> "target", sport |-> ImageDport(s),
                                   dport |-> ImageSport(s),
                                   syn |-> state = "open"]}
                   ELSE net
       /\ UNCHANGED <<portState, dups, cross>>
       /\ UNCHANGED <<statics, pc, calls, timeout, port, reg, token, fds,
                      queue, left, elapsed, result>>

\* A segment reaches the local host, possibly long after it was sent:
\* every open raw TCP socket gets a copy unless its buffer is full.  The
\* network may deliver a duplicate later.
Arrive ==
    \E m \in net, again \in BOOLEAN :
       /\ again => dups < MaxDup
       /\ net' = IF again THEN net ELSE net \ {m}
       /\ dups' = IF again THEN dups + 1 ELSE dups
       /\ queue' = [t \in Threads |->
                      IF "raw" \in fds[t] /\ Len(queue[t]) < MaxQueue
                        THEN Append(queue[t], m) ELSE queue[t]]
       /\ UNCHANGED <<portState, syns, cross>>
       /\ UNCHANGED <<statics, pc, calls, timeout, port, reg, token, fds,
                      left, elapsed, result>>

\* The network loses a segment.
Lose ==
    /\ \E m \in net : net' = net \ {m}
    /\ UNCHANGED <<portState, syns, dups, cross>>
    /\ UNCHANGED <<statics, pc, calls, timeout, port, reg, token, fds,
                   queue, left, elapsed, result>>

\* Another host sends a TCP segment to a local port.
CrossTraffic ==
    /\ cross < MaxCross
    /\ \E p \in CrossPorts, syn \in BOOLEAN :
          net' = net \cup {[from |-> "other", sport |-> 1, dport |-> p,
                            syn |-> syn]}
    /\ cross' = cross + 1
    /\ UNCHANGED <<portState, syns, dups>>
    /\ UNCHANGED <<statics, pc, calls, timeout, port, reg, token, fds,
                   queue, left, elapsed, result>>

\* Every thread has made its calls and the network is quiet.
Finished ==
    /\ \A t \in Threads : pc[t] = "idle" /\ calls[t] = MaxCalls
    /\ syns = {} /\ net = {}
    /\ UNCHANGED vars

Next ==
    \/ \E t \in Threads : Call(t) \/ Start(t) \/ Inc(t) \/ Store(t)
                          \/ Send(t) \/ Wait(t)
    \/ Tick \/ Target \/ Arrive \/ Lose \/ CrossTraffic \/ Finished

\* Each thread keeps running once in a call, select returns when its
\* timeout expires, and the target answers.  Failures, losses, duplicates
\* and unrelated traffic are never forced.
Fairness ==
    /\ \A t \in Threads :
          /\ WF_vars(Start(t)) /\ WF_vars(Inc(t)) /\ WF_vars(Store(t))
          /\ WF_vars(Send(t))
          /\ WF_vars(WaitStep(t, WaitReady(t) \/ WaitTimedOut(t)))
    /\ WF_vars(Tick)

Spec == Init /\ [][Next]_vars /\ Fairness

-----------------------------------------------------------------------------
(* Properties                                                               *)

Returns(t) == pc[t] # "idle" /\ pc'[t] = "idle"

\* The verdict of thalf_connect is the state of the probed port: SUCCESS
\* only if the target's port is open, CONNECT_FAILED only if it is closed.
\* The receive loop accepts any segment addressed to curr_unique_val, so
\* this depends on the token being unique to the call and the only
\* segments to it being the target's replies to this call's SYN.
ProbeVerdictSound ==
    [][\A t \in Threads :
         Returns(t) =>
            /\ result'[t] = "SUCCESS" => portState[port[t]] = "open"
            /\ result'[t] = "CONNECT_FAILED" => portState[port[t]] = "closed"
      ]_vars

\* Every SYN thalf_connect transmits carries a checksum that the target's
\* RFC 793 check accepts, although in_cksum runs over the code's own
\* pseudo_header struct rather than the 12-byte pseudo-header.
SynChecksumValid == \A s \in syns : ChecksumAccepted(s)

\* A thread holds a socket open only while its call waits for the reply,
\* and then only the raw socket: every return path of thalf_connect, the
\* error ones included, closes the raw socket, and every return of the
\* getMyIPAddress it calls closes the datagram socket opened there.
SocketsReleased ==
    \A t \in Threads : fds[t] \subseteq (IF pc[t] = "wait" THEN {"raw"} ELSE {})

\* A call with a positive timeout returns within that timeout of sending
\* its SYN (the spec's "wait up to the timeout for a response").
ProbeWithinBudget ==
    [][\A t \in Threads :
         Returns(t) /\ pc[t] = "wait" => elapsed'[t] <= timeout[t]]_vars

\* Every call returns.
ProbeTerminates == \A t \in Threads : (pc[t] # "idle") ~> (pc[t] = "idle")
=============================================================================
