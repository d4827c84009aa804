-------------------------- MODULE ServerLifecycle --------------------------
(***************************************************************************)
(* CIOCPModel from Start to Stop: one thread creates and releases the      *)
(* objects that the worker threads use.  What a worker does with a packet  *)
(* is IocpModel; here it is the use of the list's critical section, and    *)
(* then of the listen context, to post the accept again.                   *)
(*                                                                         *)
(* main calls Start once and never Stop, the destructor calls Stop: the    *)
(* thread here calls both.  The sockets and the clients are external: a    *)
(* posted accept may complete at any time.                                 *)
(***************************************************************************)
EXTENDS Naturals, FiniteSets

CONSTANTS
  Threads,  \* the worker threads, m_nThreads of them
  Accepts,  \* the contexts of the listen socket, MAX_POST_ACCEPT of them
  MaxWait,  \* MAXIMUM_WAIT_OBJECTS, 64
  Faults,   \* what may fail: see FaultKinds
  NULL

(* CreateIoCompletionPort for the port; CreateThread; one of the calls     *)
(* from WSASocket to listen; WSAIoctl; _PostAccept; a completed operation. *)
FaultKinds == {"port", "thread", "listen", "ioctl", "post", "abort"}

ASSUME LifecycleAssumption ==
  /\ IsFiniteSet(Threads) /\ Threads # {}
  /\ MaxWait \in Nat
  /\ Faults \subseteq FaultKinds
  /\ NULL \notin Accepts \cup {"set", "unset", "open", "nosocket", "socket"}

VARIABLES
  m_csContextList,     \* the critical section: "none", "ready" or "deleted"
  m_hShutdownEvent,    \* NULL, "unset" or "set"
  m_hIOCompletionPort, \* NULL or "open"
  m_phWorkerThreads,   \* NULL or the threads whose handles it holds
  m_pListenContext,    \* NULL, "nosocket" or "socket"
  m_arrayIoContext,    \* the accept contexts made so far
  posted,              \* the accepts posted and not completed
  completed,           \* the accepts whose packets are in the port
  exits,               \* the exit packets in the port
  main,                \* where the thread that calls Start and Stop is
  returnTo,            \* where _DeInitialize returns to
  pc, job,             \* of each worker: where it is, the accept it handles
  crashed              \* has the program used what is gone, or not there yet?

objects == <<m_csContextList, m_hShutdownEvent, m_hIOCompletionPort, m_phWorkerThreads,
             m_pListenContext, m_arrayIoContext>>
port == <<posted, completed, exits>>
workers == <<pc, job>>
vars == <<objects, port, main, returnTo, workers, crashed>>

Init ==
  /\ m_csContextList = "none"
  /\ m_hShutdownEvent = NULL
  /\ m_hIOCompletionPort = NULL
  /\ m_phWorkerThreads = NULL
  /\ m_pListenContext = NULL
  /\ m_arrayIoContext = {}
  /\ posted = {}
  /\ completed = {}
  /\ exits = 0
  /\ main = "new"
  /\ returnTo = "failed"
  /\ pc = [t \in Threads |-> "none"]
  /\ job = [t \in Threads |-> NULL]
  /\ crashed = FALSE

-----------------------------------------------------------------------------
(* Start                                                                   *)
Start ==
  /\ main = "new"
  /\ m_csContextList' = "ready"
  /\ m_hShutdownEvent' = "unset"
  /\ main' = "port"
  /\ UNCHANGED <<m_hIOCompletionPort, m_phWorkerThreads, m_pListenContext, m_arrayIoContext,
                 port, returnTo, workers, crashed>>

_InitializeIOCP ==
  /\ main = "port"
  /\ \/ /\ m_hIOCompletionPort' = "open"
        /\ m_phWorkerThreads' = {}
        /\ main' = "threads"
     \/ /\ "port" \in Faults
        /\ main' = "failed"
        /\ UNCHANGED <<m_hIOCompletionPort, m_phWorkerThreads>>
  /\ UNCHANGED <<m_csContextList, m_hShutdownEvent, m_pListenContext, m_arrayIoContext,
                 port, returnTo, workers, crashed>>

(* A thread that cannot be created leaves a NULL handle: it is unborn.     *)
CreateWorker(t) ==
  /\ main = "threads"
  /\ pc[t] = "none"
  /\ \/ /\ pc' = [pc EXCEPT ![t] = "test"]
        /\ m_phWorkerThreads' = m_phWorkerThreads \cup {t}
     \/ /\ "thread" \in Faults
        /\ pc' = [pc EXCEPT ![t] = "unborn"]
        /\ UNCHANGED m_phWorkerThreads
  /\ main' = IF \A u \in Threads \ {t} : pc[u] # "none" THEN "listen" ELSE main
  /\ UNCHANGED <<m_csContextList, m_hShutdownEvent, m_hIOCompletionPort, m_pListenContext,
                 m_arrayIoContext, port, returnTo, job, crashed>>

(* _InitializeListenSocket: the socket is created, joined to the port,     *)
(* bound and set to listen; then it looks up the functions for accepts,    *)
(* where it releases everything on failure, as its caller does once more.  *)
ListenSocket ==
  /\ main = "listen"
  /\ \/ m_pListenContext' = "socket" /\ main' = "ioctl"
     \/ "listen" \in Faults /\ m_pListenContext' \in {"nosocket", "socket"} /\ main' = "delete"
  /\ UNCHANGED <<m_csContextList, m_hShutdownEvent, m_hIOCompletionPort, m_phWorkerThreads,
                 m_arrayIoContext, port, returnTo, workers, crashed>>

Ioctl ==
  /\ main = "ioctl"
  /\ \/ main' = "accepts" /\ UNCHANGED returnTo
     \/ "ioctl" \in Faults /\ main' = "delete" /\ returnTo' = "delete"
  /\ UNCHANGED <<objects, port, workers, crashed>>

(* The accepts are posted one after the other; the first failure ends it.  *)
InitialAccept(a) ==
  /\ main = "accepts"
  /\ a \notin m_arrayIoContext
  /\ \/ /\ m_arrayIoContext' = m_arrayIoContext \cup {a}
        /\ posted' = posted \cup {a}
        /\ main' = IF m_arrayIoContext' = Accepts THEN "running" ELSE main
     \/ "post" \in Faults /\ main' = "delete" /\ UNCHANGED <<m_arrayIoContext, posted>>
  /\ UNCHANGED <<m_csContextList, m_hShutdownEvent, m_hIOCompletionPort, m_phWorkerThreads,
                 m_pListenContext, completed, exits, returnTo, workers, crashed>>

-----------------------------------------------------------------------------
(* Stop                                                                    *)
(* Mutant: the calling thread is taken for one of the workers. *)
StopPostsTooFew ==
  /\ main = "running"
  /\ m_hShutdownEvent' = "set"
  /\ exits' = exits + Cardinality(Threads) - 1
  /\ returnTo' = "stopped"
  /\ main' = "wait"
  /\ UNCHANGED <<m_csContextList, m_hIOCompletionPort, m_phWorkerThreads, m_pListenContext,
                 m_arrayIoContext, posted, completed, workers, crashed>>

(* Mutant: the loop over the threads goes one step too far. *)
StopPostsTooMany ==
  /\ main = "running"
  /\ m_hShutdownEvent' = "set"
  /\ exits' = exits + Cardinality(Threads) + 1
  /\ returnTo' = "stopped"
  /\ main' = "wait"
  /\ UNCHANGED <<m_csContextList, m_hIOCompletionPort, m_phWorkerThreads, m_pListenContext,
                 m_arrayIoContext, posted, completed, workers, crashed>>

(* The event is set before the first exit packet is posted.                *)
Stop ==
  /\ main = "running"
  /\ m_pListenContext = "socket"
  /\ m_hShutdownEvent' = "set"
  /\ exits' = exits + Cardinality(Threads)
  /\ returnTo' = "stopped"
  /\ main' = "wait"
  /\ UNCHANGED <<m_csContextList, m_hIOCompletionPort, m_phWorkerThreads, m_pListenContext,
                 m_arrayIoContext, posted, completed, workers, crashed>>

(* Mutant: WaitForMultipleObjects waits for one of the threads. *)
WaitForOne ==
  /\ main = "wait"
  /\ \E t \in Threads : pc[t] = "exited"
  /\ main' = "clear"
  /\ UNCHANGED <<objects, port, returnTo, workers, crashed>>

(* WaitForMultipleObjects fails at once for too many threads, or a handle  *)
(* that is NULL; the code does not look at what it returns.                *)
WaitWaits == Cardinality(Threads) <= MaxWait /\ \A t \in Threads : pc[t] # "unborn"

WaitForThreads ==
  /\ main = "wait"
  /\ WaitWaits => \A t \in Threads : pc[t] = "exited"
  /\ main' = "clear"
  /\ UNCHANGED <<objects, port, returnTo, workers, crashed>>

(* Using a critical section that is deleted is undefined: the program may  *)
(* crash.  What it does after a crash is of no interest.                   *)
UseCriticalSection ==
  IF m_csContextList = "ready" THEN UNCHANGED crashed ELSE crashed' \in {crashed, TRUE}

_ClearContextList ==
  /\ main = "clear"
  /\ UseCriticalSection
  /\ main' = "delete"
  /\ UNCHANGED <<objects, port, returnTo, workers>>

-----------------------------------------------------------------------------
(* _DeInitialize                                                           *)
DeleteContextListLock ==
  /\ main = "delete"
  /\ UseCriticalSection
  /\ m_csContextList' = "deleted"
  /\ main' = "event"
  /\ UNCHANGED <<m_hShutdownEvent, m_hIOCompletionPort, m_phWorkerThreads, m_pListenContext,
                 m_arrayIoContext, port, returnTo, workers>>

ReleaseEvent ==
  /\ main = "event"
  /\ m_hShutdownEvent' = NULL
  /\ main' = "handles"
  /\ UNCHANGED <<m_csContextList, m_hIOCompletionPort, m_phWorkerThreads, m_pListenContext,
                 m_arrayIoContext, port, returnTo, workers, crashed>>

(* The loop over m_nThreads handles reads the array, which may be gone.    *)
ReleaseThreads ==
  /\ main = "handles"
  /\ crashed' = (crashed \/ m_phWorkerThreads = NULL)
  /\ m_phWorkerThreads' = NULL
  /\ main' = "close"
  /\ UNCHANGED <<m_csContextList, m_hShutdownEvent, m_hIOCompletionPort, m_pListenContext,
                 m_arrayIoContext, port, returnTo, workers>>

(* Mutant: the port is left open. *)
ReleasePortNot ==
  /\ main = "close"
  /\ main' = "context"
  /\ UNCHANGED <<objects, port, returnTo, workers, crashed>>

ReleasePort ==
  /\ main = "close"
  /\ m_hIOCompletionPort' = NULL
  /\ completed' = {}
  /\ exits' = 0
  /\ main' = "context"
  /\ UNCHANGED <<m_csContextList, m_hShutdownEvent, m_phWorkerThreads, m_pListenContext,
                 m_arrayIoContext, posted, returnTo, workers, crashed>>

(* The listen context takes its socket and the accept contexts with it;    *)
(* closing the socket ends the accepts.                                    *)
ReleaseListenContext ==
  /\ main = "context"
  /\ m_pListenContext' = NULL
  /\ m_arrayIoContext' = {}
  /\ posted' = {}
  /\ main' = returnTo
  /\ returnTo' = "failed"
  /\ UNCHANGED <<m_csContextList, m_hShutdownEvent, m_hIOCompletionPort, m_phWorkerThreads,
                 completed, exits, workers, crashed>>

-----------------------------------------------------------------------------
(* The workers                                                             *)
(* The loop of _WorkerThread: an event that is gone is not set.            *)
Test(t) ==
  /\ pc[t] = "test"
  /\ pc' = [pc EXCEPT ![t] = IF m_hShutdownEvent = "set" THEN "exited" ELSE "wait"]
  /\ UNCHANGED <<objects, port, main, returnTo, job, crashed>>

(* Without a port the call fails, which ends the thread.                   *)
GetNothing(t) ==
  /\ pc[t] = "wait"
  /\ m_hIOCompletionPort = NULL
  /\ pc' = [pc EXCEPT ![t] = "exited"]
  /\ UNCHANGED <<objects, port, main, returnTo, job, crashed>>

GetExit(t) ==
  /\ pc[t] = "wait"
  /\ exits > 0
  /\ exits' = exits - 1
  /\ pc' = [pc EXCEPT ![t] = "exited"]
  /\ UNCHANGED <<objects, posted, completed, main, returnTo, job, crashed>>

(* A packet of an accept: a connection, or an error that ends the thread.  *)
GetAccept(t) ==
  /\ pc[t] = "wait"
  /\ \E a \in completed :
       /\ completed' = completed \ {a}
       /\ \/ pc' = [pc EXCEPT ![t] = "handle"] /\ job' = [job EXCEPT ![t] = a]
          \/ "abort" \in Faults /\ pc' = [pc EXCEPT ![t] = "exited"] /\ UNCHANGED job
  /\ UNCHANGED <<objects, posted, exits, main, returnTo, crashed>>

(* The client is served, and _AddToContextList takes the lock.             *)
HandleAccept(t) ==
  /\ pc[t] = "handle"
  /\ UseCriticalSection
  /\ pc' = [pc EXCEPT ![t] = "repost"]
  /\ UNCHANGED <<objects, port, main, returnTo, job>>

_PostAccept(t) ==
  /\ pc[t] = "repost"
  /\ crashed' = (crashed \/ m_pListenContext = NULL)
  /\ \/ m_pListenContext = "socket" /\ posted' = posted \cup {job[t]}
     \/ (m_pListenContext # "socket" \/ "post" \in Faults) /\ UNCHANGED posted
  /\ pc' = [pc EXCEPT ![t] = "test"]
  /\ job' = [job EXCEPT ![t] = NULL]
  /\ UNCHANGED <<objects, completed, exits, main, returnTo>>

(* A client connects to a posted accept.                                   *)
Complete(a) ==
  /\ a \in posted
  /\ m_hIOCompletionPort = "open"
  /\ posted' = posted \ {a}
  /\ completed' = completed \cup {a}
  /\ UNCHANGED <<objects, exits, main, returnTo, workers, crashed>>

-----------------------------------------------------------------------------
Main ==
  \/ Start
  \/ _InitializeIOCP
  \/ \E t \in Threads : CreateWorker(t)
  \/ ListenSocket
  \/ Ioctl
  \/ \E a \in Accepts : InitialAccept(a)
  \/ WaitForThreads
  \/ _ClearContextList
  \/ DeleteContextListLock
  \/ ReleaseEvent
  \/ ReleaseThreads
  \/ ReleasePort
  \/ ReleaseListenContext

Worker(t) ==
  \/ Test(t)
  \/ GetNothing(t)
  \/ GetExit(t)
  \/ GetAccept(t)
  \/ HandleAccept(t)
  \/ _PostAccept(t)

Next == Main \/ Stop \/ (\E t \in Threads : Worker(t)) \/ \E a \in Accepts : Complete(a)

Spec == Init /\ [][Next]_vars

(* Every thread that is not waiting goes on; Stop need not be called.      *)
FairSpec ==
  /\ Spec
  /\ WF_vars(Main)
  /\ \A t \in Threads : WF_vars(Worker(t))

-----------------------------------------------------------------------------
MainPC == {"new", "port", "threads", "listen", "ioctl", "accepts", "running", "wait", "clear",
           "delete", "event", "handles", "close", "context", "stopped", "failed"}

(* Every variable keeps its type; a worker handles an accept it has taken. *)
TypeOK ==
  /\ m_csContextList \in {"none", "ready", "deleted"}
  /\ m_hShutdownEvent \in {NULL, "unset", "set"}
  /\ m_hIOCompletionPort \in {NULL, "open"}
  /\ m_phWorkerThreads = NULL \/ m_phWorkerThreads \in SUBSET Threads
  /\ m_pListenContext \in {NULL, "nosocket", "socket"}
  /\ m_arrayIoContext \subseteq Accepts
  /\ posted \subseteq Accepts
  /\ completed \subseteq Accepts \ posted
  /\ exits \in 0 .. Cardinality(Threads)
  /\ main \in MainPC
  /\ returnTo \in {"delete", "failed", "stopped"}
  /\ pc \in [Threads -> {"none", "unborn", "test", "wait", "handle", "repost", "exited"}]
  /\ job \in [Threads -> Accepts \cup {NULL}]
  /\ \A t \in Threads : job[t] # NULL <=> pc[t] \in {"handle", "repost"}
  /\ crashed \in BOOLEAN

(* Stop releases the critical section and the listen context when no       *)
(* worker can still use them, whichever packets, errors and the event end  *)
(* the workers, unless its wait fails.                                     *)
NothingAfterRelease ==
  (main = "stopped" \/ returnTo = "stopped") /\ WaitWaits =>
    \A t \in Threads :
      pc[t] \in {"handle", "repost"} => m_csContextList = "ready" /\ m_pListenContext # NULL

(* A failure of Start is what Start returns, not a crash: it logs it and   *)
(* releases everything.                                                    *)
StartDoesNotCrash == ~crashed

(* Stop returns: no exit packet is missing, whichever threads the event    *)
(* or an error has ended before they took one.                             *)
StopReturns == main = "wait" ~> main = "stopped"

(* No worker is left behind by a Start that failed.                        *)
FailedStartEndsWorkers ==
  main = "failed" ~> \A t \in Threads : pc[t] \in {"none", "unborn", "exited"}
=============================================================================
