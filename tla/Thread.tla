------------------------------- MODULE Thread -------------------------------
(***************************************************************************)
(* The Thread class of src/PadThreads.cpp and the POSIX threads it starts. *)
(*                                                                         *)
(* Each Thread object has the fields fThreadRunning and tid; a caller     *)
(* calls StartThread, StopThread and the destructor on it.  The OS side:   *)
(* every pthread_t value in Tids is free or names a thread running the     *)
(* main of an object, with a cancellation request pending or not.  The     *)
(* threads are detached, so a thread's id is free again as soon as the    *)
(* thread ends, and pthread_create may hand it to the next thread created  *)
(* (glibc reuses the descriptor of an exited detached thread).             *)
(*                                                                         *)
(* Cancellation is deferred: pthread_cancel only marks the target; the     *)
(* target ends when it next reaches a cancellation point (ExitIfNeeded,    *)
(* or a call such as usleep or printf in its main).                        *)
(*                                                                         *)
(* The release build (NDEBUG) is modelled: assert(fThreadRunning != true)  *)
(* in StartThread is compiled out and the early return is taken.           *)
(***************************************************************************)
EXTENDS Naturals, FiniteSets

CONSTANTS
    Objects,      \* Thread objects
    Tids,         \* pthread_t values
    NoTid,        \* tid == 0
    NoObj,        \* no object: a free id, or no cancellation requested
    MainReturns   \* the derived class's main() may return

ASSUME NoTid \notin Tids /\ NoObj \notin Objects /\ MainReturns \in BOOLEAN

VARIABLES
    fThreadRunning,  \* per object
    tid,             \* per object
    alive,           \* per object: not yet destroyed
    owner,           \* per id: the object whose main its thread runs, or NoObj
    cancelBy         \* per id: the object whose call requested its
                     \* cancellation, or NoObj

vars == <<fThreadRunning, tid, alive, owner, cancelBy>>

TypeOK ==
    /\ fThreadRunning \in [Objects -> BOOLEAN]
    /\ tid \in [Objects -> Tids \cup {NoTid}]
    /\ alive \in [Objects -> BOOLEAN]
    /\ owner \in [Tids -> Objects \cup {NoObj}]
    /\ cancelBy \in [Tids -> Objects \cup {NoObj}]

\* Thread::Thread for every object.
Init ==
    /\ fThreadRunning = [o \in Objects |-> FALSE]
    /\ tid = [o \in Objects |-> NoTid]
    /\ alive = [o \in Objects |-> TRUE]
    /\ owner = [i \in Tids |-> NoObj]
    /\ cancelBy = [i \in Tids |-> NoObj]

FreeTids == {i \in Tids : owner[i] = NoObj}

\* pthread_cancel(id) called by object o: a live thread is marked (the
\* first request is the one recorded); for an id whose thread has ended it
\* does nothing.
Cancel(id, o) ==
    cancelBy' = IF owner[id] # NoObj /\ cancelBy[id] = NoObj
                  THEN [cancelBy EXCEPT ![id] = o] ELSE cancelBy

\* The thread id ends: its id is free.
Ends(id) ==
    /\ owner' = [owner EXCEPT ![id] = NoObj]
    /\ cancelBy' = [cancelBy EXCEPT ![id] = NoObj]

-----------------------------------------------------------------------------
\* StartThread, fThreadRunning already set: "return (already started)".
StartRunning(o) ==
    /\ alive[o] /\ fThreadRunning[o]
    /\ UNCHANGED vars

\* StartThread: pthread_create fails (EAGAIN, certain when every id is in
\* use) and false is returned with nothing changed.
StartFails(o) ==
    /\ alive[o] /\ ~fThreadRunning[o]
    /\ UNCHANGED vars

\* StartThread: pthread_create makes a thread with a free id, which starts
\* in ThreadStarter, calling o's main; pthread_detach; fThreadRunning.
StartCreates(o) ==
    \E id \in FreeTids :
        /\ alive[o] /\ ~fThreadRunning[o]
        /\ owner' = [owner EXCEPT ![id] = o]
        /\ tid' = [tid EXCEPT ![o] = id]
        /\ fThreadRunning' = [fThreadRunning EXCEPT ![o] = TRUE]
        /\ UNCHANGED <<alive, cancelBy>>

\* Mutant: StopThread clears the flag without pthread_cancel.
StopThreadNoCancel(o) ==
    /\ alive[o]
    /\ IF tid[o] # NoTid
         THEN fThreadRunning' = [fThreadRunning EXCEPT ![o] = FALSE]
         ELSE UNCHANGED fThreadRunning
    /\ UNCHANGED <<tid, alive, owner, cancelBy>>

\* StopThread: with a tid, pthread_cancel(tid), fThreadRunning = false and
\* true is returned; with none, false.  tid is left as it is.
StopThread(o) ==
    /\ alive[o]
    /\ IF tid[o] # NoTid
         THEN /\ Cancel(tid[o], o)
              /\ fThreadRunning' = [fThreadRunning EXCEPT ![o] = FALSE]
         ELSE UNCHANGED <<cancelBy, fThreadRunning>>
    /\ UNCHANGED <<tid, alive, owner>>

\* Mutant: a destructor that leaves the thread running.
DestroyWithoutCancel(o) ==
    /\ alive[o]
    /\ alive' = [alive EXCEPT ![o] = FALSE]
    /\ UNCHANGED <<fThreadRunning, tid, owner, cancelBy>>

\* ~Thread: "if (tid) pthread_cancel(tid)", and the object is gone.
Destroy(o) ==
    /\ alive[o]
    /\ IF tid[o] # NoTid THEN Cancel(tid[o], o) ELSE UNCHANGED cancelBy
    /\ alive' = [alive EXCEPT ![o] = FALSE]
    /\ UNCHANGED <<fThreadRunning, tid, owner>>

\* A thread with a cancellation pending reaches a cancellation point
\* (ExitIfNeeded's pthread_testcancel) and ends.
CancellationPoint(id) ==
    /\ owner[id] # NoObj /\ cancelBy[id] # NoObj
    /\ Ends(id)
    /\ UNCHANGED <<fThreadRunning, tid, alive>>

\* main() returns and ThreadStarter returns 0: the thread ends.
MainReturn(id) ==
    /\ MainReturns /\ owner[id] # NoObj
    /\ Ends(id)
    /\ UNCHANGED <<fThreadRunning, tid, alive>>

\* Every object destroyed and every thread ended: nothing more happens.
Terminated ==
    /\ \A o \in Objects : ~alive[o]
    /\ FreeTids = Tids
    /\ UNCHANGED vars

Next ==
    \/ \E o \in Objects :
          StartRunning(o) \/ StartFails(o) \/ StartCreates(o) \/ StopThread(o)
          \/ Destroy(o)
    \/ \E id \in Tids : CancellationPoint(id) \/ MainReturn(id)
    \/ Terminated

\* A cancelled thread keeps reaching cancellation points.
Fairness == \A id \in Tids : WF_vars(CancellationPoint(id))

Spec == Init /\ [][Next]_vars /\ Fairness

-----------------------------------------------------------------------------
(***************************************************************************)
(* Properties                                                              *)
(***************************************************************************)

NoThreadOf(o) == \A id \in Tids : owner[id] # o

\* Once StopThread has cleared fThreadRunning, o's main stops: every thread
\* running it ends, unless StartThread sets the flag again.  This rests on
\* StopThread cancelling the thread that tid names, whichever call of
\* StartThread made it.
StopTakesEffect ==
    \A o \in Objects : ~fThreadRunning[o] ~> (NoThreadOf(o) \/ fThreadRunning[o])

\* Once the destructor has run, no thread runs the object's main (the
\* destructor's pthread_cancel reaches it).
DestroyEndsThread == \A o \in Objects : ~alive[o] ~> NoThreadOf(o)

\* fThreadRunning set means a thread runs the object's main: StartThread
\* relies on it to "not start it more than once" (PadThreads.cpp:90) and
\* returns true without creating one.
RunningMeansThread ==
    \A o \in Objects : alive[o] /\ fThreadRunning[o] => ~NoThreadOf(o)
=============================================================================
