----------------------- MODULE ServerLifecycleProofs -----------------------
(***************************************************************************)
(* Stop releases nothing a worker still uses, for any number of workers    *)
(* and accepts and any failures.                                           *)
(***************************************************************************)
EXTENDS ServerLifecycle, FiniteSetTheorems, TLAPS

(* Before the accepts are posted, nothing is posted.                       *)
StartsEmpty ==
  /\ main \in {"new", "port", "threads", "listen", "ioctl"} =>
       /\ m_arrayIoContext = {}
       /\ posted = {}
       /\ completed = {}
       /\ \A t \in Threads : job[t] = NULL
  /\ main \in {"new", "port", "threads", "listen", "ioctl", "accepts", "running"} => exits = 0

(* An accept context is posted, in a packet, or with one worker.           *)
AcceptsInOnePlace ==
  /\ \A t \in Threads : job[t] \notin posted \cup completed
  /\ \A t, u \in Threads : t # u /\ job[t] = job[u] => job[t] = NULL
  /\ main = "accepts" =>
       /\ posted \cup completed \subseteq m_arrayIoContext
       /\ \A t \in Threads : job[t] # NULL => job[t] \in m_arrayIoContext

(* What exists while Start goes on, the server runs, or Stop waits.        *)
ObjectsExist ==
  /\ main \in {"port", "threads", "listen", "ioctl", "accepts", "running", "wait"} =>
       m_csContextList = "ready"
  /\ main \in {"ioctl", "accepts", "running", "wait"} => m_pListenContext = "socket"
  /\ main = "threads" => m_phWorkerThreads \in SUBSET Threads

(* Where Stop and a failed Start meet in _DeInitialize.                    *)
OnStopPath == main = "stopped" \/ returnTo = "stopped"

Paths ==
  /\ main \in {"wait", "clear"} => returnTo = "stopped"
  /\ returnTo = "stopped" =>
       main \in {"wait", "clear", "delete", "event", "handles", "close", "context"}
  /\ returnTo = "delete" => main \in {"delete", "event", "handles", "close", "context"}

(* Once Stop has waited, every worker has ended.                           *)
WorkersEnded ==
  OnStopPath /\ main # "wait" /\ WaitWaits => \A t \in Threads : pc[t] = "exited"

IInv ==
  TypeOK /\ StartsEmpty /\ AcceptsInOnePlace /\ ObjectsExist /\ Paths /\ WorkersEnded

-----------------------------------------------------------------------------
LEMMA InitIInv == Init => IInv
<1> SUFFICES ASSUME Init PROVE IInv
  OBVIOUS
<1> USE LifecycleAssumption DEF Init
<1>1. 0 \in 0 .. Cardinality(Threads)
  BY FS_CardinalityType
<1>2. TypeOK
  BY <1>1 DEF TypeOK, MainPC
<1>3. StartsEmpty /\ AcceptsInOnePlace /\ ObjectsExist /\ Paths /\ WorkersEnded
  BY DEF StartsEmpty, AcceptsInOnePlace, ObjectsExist, Paths, WorkersEnded, OnStopPath
<1> QED
  BY <1>2, <1>3 DEF IInv

-----------------------------------------------------------------------------
LEMMA TypeStep ==
  ASSUME IInv, [Next]_vars
  PROVE  TypeOK'
<1> USE LifecycleAssumption DEF IInv, TypeOK
<1>1. Cardinality(Threads) \in Nat
  BY FS_CardinalityType
<1>2. CASE UNCHANGED vars
  BY <1>2 DEF vars, objects, port, workers
<1>3. CASE Start \/ _InitializeIOCP
  BY <1>3 DEF Start, _InitializeIOCP, port, workers, MainPC
<1>4. ASSUME NEW t \in Threads, CreateWorker(t) PROVE TypeOK'
  BY <1>4 DEF CreateWorker, port, MainPC, StartsEmpty, ObjectsExist
<1>5. CASE ListenSocket \/ Ioctl
  BY <1>5 DEF ListenSocket, Ioctl, objects, port, workers, MainPC
<1>6. ASSUME NEW a \in Accepts, InitialAccept(a) PROVE TypeOK'
  BY <1>6 DEF InitialAccept, AcceptsInOnePlace, workers, MainPC
<1>7. CASE Stop
  BY <1>1, <1>7 DEF Stop, StartsEmpty, workers, MainPC
<1>8. CASE WaitForThreads \/ _ClearContextList
  <2>1. CASE WaitForThreads
    BY <1>8, <2>1 DEF WaitForThreads, objects, port, workers, MainPC
  <2>2. CASE _ClearContextList
    BY <1>8, <2>2 DEF _ClearContextList, UseCriticalSection, objects, port, workers, MainPC
  <2> QED
    BY <1>8, <2>1, <2>2
<1>9. CASE DeleteContextListLock \/ ReleaseEvent \/ ReleaseThreads
  BY <1>9 DEF DeleteContextListLock, ReleaseEvent, ReleaseThreads, UseCriticalSection, port,
       workers, MainPC
<1>10. CASE ReleasePort \/ ReleaseListenContext
  BY <1>1, <1>10 DEF ReleasePort, ReleaseListenContext, workers, MainPC
<1>11. ASSUME NEW t \in Threads, Test(t) \/ GetNothing(t) PROVE TypeOK'
  BY <1>11 DEF Test, GetNothing, objects, port
<1>12. ASSUME NEW t \in Threads, GetExit(t) PROVE TypeOK'
  BY <1>1, <1>12 DEF GetExit, objects
<1>13. ASSUME NEW t \in Threads, GetAccept(t) PROVE TypeOK'
  BY <1>13 DEF GetAccept, objects
<1>14. ASSUME NEW t \in Threads, HandleAccept(t) PROVE TypeOK'
  BY <1>14 DEF HandleAccept, UseCriticalSection, objects, port
<1>15. ASSUME NEW t \in Threads, _PostAccept(t) PROVE TypeOK'
  <2>1. job[t] \in Accepts /\ job[t] \notin completed
    BY <1>15 DEF _PostAccept, AcceptsInOnePlace
  <2> QED
    BY <1>15, <2>1 DEF _PostAccept, objects
<1>16. ASSUME NEW a \in Accepts, Complete(a) PROVE TypeOK'
  BY <1>16 DEF Complete, objects, workers
<1> QED
  BY <1>2, <1>3, <1>4, <1>5, <1>6, <1>7, <1>8, <1>9, <1>10, <1>11, <1>12, <1>13, <1>14,
     <1>15, <1>16 DEF Next, Main, Worker

(* A worker leaves the objects and the other workers alone.                *)
LEMMA WorkerStep ==
  ASSUME TypeOK, NEW t \in Threads, Worker(t)
  PROVE  /\ UNCHANGED <<objects, main, returnTo>>
         /\ exits # 0 \/ exits' = exits
         /\ pc[t] \notin {"none", "unborn", "exited"}
         /\ pc' = [pc EXCEPT ![t] = pc'[t]] /\ pc'[t] # "unborn"
         /\ job' = [job EXCEPT ![t] = job'[t]]
         /\ \/ job'[t] = job[t] /\ UNCHANGED posted /\ completed' \subseteq completed
            \/ job[t] = NULL /\ job'[t] \in completed /\ completed' = completed \ {job'[t]}
               /\ UNCHANGED posted
            \/ job'[t] = NULL /\ job[t] # NULL /\ posted' \subseteq posted \cup {job[t]}
               /\ UNCHANGED completed
<1> USE DEF TypeOK
<1>1. CASE Test(t) \/ GetNothing(t) \/ GetExit(t)
  BY <1>1 DEF Test, GetNothing, GetExit, objects, port
<1>2. CASE GetAccept(t)
  BY <1>2 DEF GetAccept, objects
<1>3. CASE HandleAccept(t)
  BY <1>3 DEF HandleAccept, objects, port
<1>4. CASE _PostAccept(t)
  BY <1>4 DEF _PostAccept, objects
<1> QED
  BY <1>1, <1>2, <1>3, <1>4 DEF Worker

LEMMA PlaceStep ==
  ASSUME IInv, [Next]_vars
  PROVE  StartsEmpty' /\ AcceptsInOnePlace'
<1> USE LifecycleAssumption DEF IInv, TypeOK, StartsEmpty, AcceptsInOnePlace
<1>1. CASE UNCHANGED vars
  BY <1>1 DEF vars, objects, port, workers
<1>2. CASE Start \/ _InitializeIOCP \/ ListenSocket
  BY <1>2 DEF Start, _InitializeIOCP, ListenSocket, port, workers
<1>3. ASSUME NEW t \in Threads, CreateWorker(t) PROVE StartsEmpty' /\ AcceptsInOnePlace'
  BY <1>3 DEF CreateWorker, port
<1>4. CASE Ioctl
  BY <1>4 DEF Ioctl, objects, port, workers
<1>5. ASSUME NEW a \in Accepts, InitialAccept(a) PROVE StartsEmpty' /\ AcceptsInOnePlace'
  BY <1>5 DEF InitialAccept, workers
<1>6. CASE Stop \/ WaitForThreads \/ _ClearContextList
  BY <1>6 DEF Stop, WaitForThreads, _ClearContextList, objects, port, workers
<1>7. CASE DeleteContextListLock \/ ReleaseEvent \/ ReleaseThreads \/ ReleasePort
  BY <1>7 DEF DeleteContextListLock, ReleaseEvent, ReleaseThreads, ReleasePort, port, workers
<1>8. CASE ReleaseListenContext
  BY <1>8 DEF ReleaseListenContext, workers
<1>9. ASSUME NEW t \in Threads, Worker(t) PROVE StartsEmpty' /\ AcceptsInOnePlace'
  <2>1. UNCHANGED <<main, m_arrayIoContext>>
    BY <1>9, WorkerStep DEF objects
  <2>2. StartsEmpty'
    BY <1>9, <2>1, WorkerStep
  <2>3. AcceptsInOnePlace'
    BY <1>9, <2>1, WorkerStep
  <2> QED
    BY <2>2, <2>3
<1>10. ASSUME NEW a \in Accepts, Complete(a) PROVE StartsEmpty' /\ AcceptsInOnePlace'
  BY <1>10 DEF Complete, objects, workers
<1> QED
  BY <1>1, <1>2, <1>3, <1>4, <1>5, <1>6, <1>7, <1>8, <1>9, <1>10 DEF Next, Main

LEMMA PathStep ==
  ASSUME IInv, [Next]_vars
  PROVE  ObjectsExist' /\ Paths'
<1> USE DEF IInv, TypeOK, ObjectsExist, Paths
<1>1. CASE UNCHANGED vars
  BY <1>1 DEF vars, objects, port, workers
<1>2. CASE Start \/ _InitializeIOCP \/ ListenSocket
  BY <1>2 DEF Start, _InitializeIOCP, ListenSocket
<1>3. ASSUME NEW t \in Threads, CreateWorker(t) PROVE ObjectsExist' /\ Paths'
  BY <1>3 DEF CreateWorker
<1>4. CASE Ioctl
  BY <1>4 DEF Ioctl, objects
<1>5. ASSUME NEW a \in Accepts, InitialAccept(a) PROVE ObjectsExist' /\ Paths'
  BY <1>5 DEF InitialAccept
<1>6. CASE Stop \/ WaitForThreads \/ _ClearContextList
  BY <1>6 DEF Stop, WaitForThreads, _ClearContextList, objects
<1>7. CASE DeleteContextListLock \/ ReleaseEvent \/ ReleaseThreads \/ ReleasePort
  BY <1>7 DEF DeleteContextListLock, ReleaseEvent, ReleaseThreads, ReleasePort
<1>8. CASE ReleaseListenContext
  BY <1>8 DEF ReleaseListenContext
<1>9. ASSUME NEW t \in Threads, Worker(t) PROVE ObjectsExist' /\ Paths'
  BY <1>9, WorkerStep DEF objects
<1>10. ASSUME NEW a \in Accepts, Complete(a) PROVE ObjectsExist' /\ Paths'
  BY <1>10 DEF Complete, objects
<1> QED
  BY <1>1, <1>2, <1>3, <1>4, <1>5, <1>6, <1>7, <1>8, <1>9, <1>10 DEF Next, Main

LEMMA EndStep ==
  ASSUME IInv, [Next]_vars
  PROVE  WorkersEnded'
<1> USE DEF IInv, TypeOK, Paths, WorkersEnded, OnStopPath, WaitWaits
<1>1. CASE UNCHANGED vars
  BY <1>1 DEF vars, objects, port, workers
<1>2. CASE Start \/ _InitializeIOCP \/ ListenSocket \/ Ioctl
  BY <1>2 DEF Start, _InitializeIOCP, ListenSocket, Ioctl, workers
<1>3. ASSUME NEW t \in Threads, CreateWorker(t) PROVE WorkersEnded'
  BY <1>3 DEF CreateWorker
<1>4. ASSUME NEW a \in Accepts, InitialAccept(a) PROVE WorkersEnded'
  BY <1>4 DEF InitialAccept, workers
<1>5. CASE Stop \/ _ClearContextList
  BY <1>5 DEF Stop, _ClearContextList, workers
<1>6. CASE WaitForThreads
  BY <1>6 DEF WaitForThreads, workers
<1>7. CASE DeleteContextListLock \/ ReleaseEvent \/ ReleaseThreads \/ ReleasePort
  BY <1>7 DEF DeleteContextListLock, ReleaseEvent, ReleaseThreads, ReleasePort, workers
<1>8. CASE ReleaseListenContext
  BY <1>8 DEF ReleaseListenContext, workers
<1>9. ASSUME NEW t \in Threads, Worker(t) PROVE WorkersEnded'
  <2>1. UNCHANGED <<main, returnTo>> /\ pc[t] \notin {"unborn", "exited"}
    BY <1>9, WorkerStep
  <2>2. WaitWaits' => WaitWaits
    BY <1>9, WorkerStep
  <2> QED
    BY <2>1, <2>2
<1>10. ASSUME NEW a \in Accepts, Complete(a) PROVE WorkersEnded'
  BY <1>10 DEF Complete, workers
<1> QED
  BY <1>1, <1>2, <1>3, <1>4, <1>5, <1>6, <1>7, <1>8, <1>9, <1>10 DEF Next, Main

-----------------------------------------------------------------------------
LEMMA Inductive == Spec => []IInv
<1>1. IInv /\ [Next]_vars => IInv'
  BY TypeStep, PlaceStep, PathStep, EndStep DEF IInv
<1> QED
  BY <1>1, InitIInv, PTL DEF Spec

(* Every variable keeps its type: there are never more exit packets than   *)
(* workers, and an accept is posted once.                                  *)
THEOREM TypeCorrect == Spec => []TypeOK
<1>1. IInv => TypeOK
  BY DEF IInv
<1> QED
  BY <1>1, Inductive, PTL

(* Stop releases nothing that a worker still uses.                         *)
THEOREM ReleaseCorrect == Spec => []NothingAfterRelease
<1>1. IInv => NothingAfterRelease
  BY LifecycleAssumption DEF IInv, WorkersEnded, OnStopPath, ObjectsExist, NothingAfterRelease
<1> QED
  BY <1>1, Inductive, PTL
=============================================================================
