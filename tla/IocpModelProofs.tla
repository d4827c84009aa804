-------------------------- MODULE IocpModelProofs --------------------------
(***************************************************************************)
(* OneOwner for any number of worker threads, accept contexts and clients, *)
(* whatever goes wrong.                                                    *)
(***************************************************************************)
EXTENDS IocpModel, TLAPS

(* Nobody can write x: nothing is posted on it, none of its packets is on  *)
(* the port, and no thread has it.                                         *)
Untouched(x) ==
  /\ posted[x] = 0
  /\ \A p \in queue : p.io # x
  /\ \A t \in Threads : x \notin Touches(t)

(* The accept context a holds a client whose first request has not been    *)
(* handled.                                                                *)
Accepting(a) ==
  \/ posted[a] > 0
  \/ \E p \in queue : p.io = a
  \/ \E t \in Threads : pc[t] \in {"data", "nodata"} /\ job[t] = a

(* A client goes from the backlog to one accept context, and its own       *)
(* context comes into play when the accept is handled.                     *)
ClientsMoveOn ==
  /\ \A k \in Conns : peer[k] = "none" =>
       /\ k \notin backlog
       /\ \A a \in Accepts : m_sockAccept[a] # k
       /\ Untouched(k)
  /\ \A k \in backlog :
       /\ \A a \in Accepts : m_sockAccept[a] # k
       /\ Untouched(k)
  /\ \A a, b \in Accepts :
       m_sockAccept[a] # NULL /\ m_sockAccept[a] = m_sockAccept[b] => a = b
  /\ \A a \in Accepts :
       m_sockAccept[a] # NULL /\ Accepting(a) => Untouched(m_sockAccept[a])

PacketsNameTheirClient ==
  \A p \in queue : p.io \in Accepts => m_sockAccept[p.io] # NULL

IInv == TypeOK /\ OneOwner /\ ClientsMoveOn /\ PacketsNameTheirClient

-----------------------------------------------------------------------------
LEMMA InitIInv == Init => IInv
<1> SUFFICES ASSUME Init PROVE IInv
  OBVIOUS
<1> USE IocpAssumption DEF Init, Contexts
<1>1. TypeOK
  BY DEF TypeOK, PC, Packets
<1>2. \A t \in Threads : Touches(t) = {}
  BY DEF Touches
<1>3. OneOwner /\ ClientsMoveOn /\ PacketsNameTheirClient
  BY <1>2 DEF OneOwner, ClientsMoveOn, PacketsNameTheirClient, Untouched
<1> QED
  BY <1>1, <1>3 DEF IInv

-----------------------------------------------------------------------------
LEMMA TypeStep ==
  ASSUME TypeOK, OneOwner, PacketsNameTheirClient, [Next]_vars
  PROVE  TypeOK'
<1> USE IocpAssumption DEF TypeOK, Contexts
<1>1. CASE UNCHANGED vars
  BY <1>1 DEF vars, buffer, objects, clients, Client
<1>2. ASSUME NEW k \in Conns, Connect(k) \/ Send(k) \/ Leave(k) PROVE TypeOK'
  BY <1>2 DEF Connect, Send, Leave, buffer, objects, Client
<1>3. ASSUME NEW a \in Accepts, NEW k \in Conns, TakeClient(a, k) PROVE TypeOK'
  BY <1>3 DEF TakeClient, buffer, objects, Client
<1>4. ASSUME NEW x \in Contexts, NEW n \in Nat, NEW e \in {"none", "netname", "other"},
             Complete(x, n, e)
      PROVE  queue' \subseteq Packets /\ posted' \in [Contexts -> Nat]
  BY <1>4 DEF Complete, Packet, Packets
<1>5. ASSUME NEW x \in Contexts, NEW k \in Conns, Receive(x, k)
      PROVE  /\ queue' \subseteq Packets /\ posted' \in [Contexts -> Nat]
             /\ inbox' \in [Conns -> 0 .. MaxInbox]
  BY <1>4, <1>5 DEF Receive
<1>6. ASSUME NEW a \in Accepts, CompleteAccept(a) PROVE TypeOK'
  BY <1>5, <1>6 DEF CompleteAccept, buffer, objects, Client
<1>7. ASSUME NEW k \in Conns, CompleteRecv(k) PROVE TypeOK'
  BY <1>5, <1>7 DEF CompleteRecv, objects, Client
<1>8. ASSUME NEW k \in Conns, CompleteSend(k) PROVE TypeOK'
  BY <1>4, <1>8 DEF CompleteSend, buffer, objects, clients, Client
<1>9. ASSUME NEW t \in Threads, HandleError(t) \/ ClientLeft(t) PROVE TypeOK'
  BY <1>9 DEF HandleError, ClientLeft, Dequeue, Transferred, goto, _RemoveContext,
       buffer, objects, clients,
       Client, PC
<1>10. ASSUME NEW t \in Threads, RecvDone(t) PROVE TypeOK'
  BY <1>10 DEF RecvDone, Dequeue, Transferred, goto, objects, clients, Client, PC, Packets
<1>11. ASSUME NEW t \in Threads, SendDone(t) PROVE TypeOK'
  BY <1>11 DEF SendDone, Dequeue, Transferred, goto, objects, clients, Client, PC, Packets
<1>12. ASSUME NEW t \in Threads, AcceptDone(t) PROVE TypeOK'
  BY <1>12 DEF AcceptDone, PacketsNameTheirClient, Dequeue, Transferred, goto, buffer,
       objects, clients,
       Client, PC, Packets
<1>13. ASSUME NEW t \in Threads, DoFirstRecvWithData(t) PROVE TypeOK'
  BY <1>13 DEF DoFirstRecvWithData, goto, clients, Client, PC
<1>14. ASSUME NEW t \in Threads, DoFirstRecvWithoutData(t) PROVE TypeOK'
  BY <1>14 DEF DoFirstRecvWithoutData, goto, clients, Client, PC
<1>15. ASSUME NEW t \in Threads, RunClient(t) PROVE TypeOK'
  BY <1>15 DEF RunClient, goto, objects, clients, Client, PC
<1>16. ASSUME NEW t \in Threads, PostWrite(t) PROVE TypeOK'
  BY <1>16 DEF PostWrite, Post, _AddToContextList, goto, buffer, clients, Client, PC
<1>17. ASSUME NEW t \in Threads, PostRecv(t) PROVE TypeOK'
  BY <1>17 DEF PostRecv, Post, goto, objects, clients, Client, PC
<1>18. ASSUME NEW t \in Threads, PostAccept(t) PROVE TypeOK'
  <2>1. \A u \in Threads : u # t /\ pc[u] \in {"data", "nodata", "run", "send"} => job[u] # job[t]
    BY <1>18 DEF PostAccept, OneOwner, Touches, PC
  <2> QED
    BY <1>18, <2>1 DEF PostAccept, Post, goto, buffer, objects, clients, Client, PC
<1> QED
  BY <1>1, <1>2, <1>3, <1>6, <1>7, <1>8, <1>9, <1>10, <1>11, <1>12, <1>13, <1>14, <1>15,
     <1>16, <1>17, <1>18 DEF Next, Sockets, WorkerThread

-----------------------------------------------------------------------------
(* What a thread has changes only when it moves, or when its accept        *)
(* context gets another client.                                            *)
LEMMA SameTouches ==
  ASSUME NEW u \in Threads, pc'[u] = pc[u], job'[u] = job[u],
         job[u] \in Accepts => m_sockAccept'[job[u]] = m_sockAccept[job[u]]
  PROVE  Touches(u)' = Touches(u)
BY DEF Touches, Client

(* A thread that moves leaves the others where they are.                   *)
LEMMA OthersTouch ==
  ASSUME TypeOK, NEW t \in Threads, NEW there, NEW x, goto(t, there, x), UNCHANGED m_sockAccept
  PROVE  \A u \in Threads : u # t => Touches(u)' = Touches(u)
BY SameTouches DEF goto, TypeOK

(* The clients, and the end of a socket operation.                         *)
LEMMA OwnersOfSockets ==
  ASSUME TypeOK, OneOwner, ClientsMoveOn,
         Sockets \/ \E k \in Conns : Connect(k) \/ Send(k) \/ Leave(k)
  PROVE  OneOwner'
<1> USE DEF Contexts
<1>1. ASSUME NEW k \in Conns, Connect(k) \/ Send(k) \/ Leave(k) PROVE OneOwner'
  <2>1. \A u \in Threads : Touches(u)' = Touches(u)
    BY <1>1, SameTouches DEF Connect, Send, Leave
  <2> QED
    BY <1>1, <2>1 DEF Connect, Send, Leave, OneOwner
<1>2. ASSUME NEW a \in Accepts, NEW k \in Conns, TakeClient(a, k) PROVE OneOwner'
  <2>1. \A u \in Threads : a \notin Touches(u)
    BY <1>2 DEF TakeClient, OneOwner, TypeOK
  <2>2. \A u \in Threads : job[u] = a => Touches(u)' = Touches(u)
    BY <1>2, <2>1, IocpAssumption DEF TakeClient, Touches, TypeOK, PC
  <2>3. \A u \in Threads : job[u] # a => Touches(u)' = Touches(u)
    BY <1>2, SameTouches DEF TakeClient, TypeOK
  <2> QED
    BY <1>2, <2>2, <2>3 DEF TakeClient, OneOwner
<1>3. ASSUME NEW x \in Contexts, NEW n, NEW e, Complete(x, n, e), UNCHANGED <<pc, job, m_sockAccept>>
      PROVE  OneOwner'
  <2>1. \A u \in Threads : Touches(u)' = Touches(u)
    BY <1>3, SameTouches
  <2>2. posted[x] = 1 /\ posted'[x] = 0 /\ \A y \in Contexts : y # x => posted'[y] = posted[y]
    BY <1>3 DEF Complete, OneOwner, TypeOK
  <2>3. \A u \in Threads : x \notin Touches(u)
    BY <2>2 DEF OneOwner
  <2>4. \A p \in queue : p.io # x /\ p.io \in Contexts
    BY <2>2 DEF OneOwner, TypeOK, Packets
  <2>5. queue' = queue \cup {Packet(x, n, e)}
    BY <1>3 DEF Complete
  <2>6. Packet(x, n, e).io = x
    BY DEF Packet
  <2>7. \A u \in Threads : Touches(u) \subseteq Contexts
    BY DEF TypeOK, Touches, PC
  <2>8. (\A y \in Contexts : posted[y] <= 1)' /\ (\A p \in queue : posted[p.io] = 0)'
    BY <2>2, <2>4, <2>5, <2>6 DEF OneOwner
  <2>9. (\A p, q \in queue : p.io = q.io => p = q)'
    BY <2>4, <2>5, <2>6 DEF OneOwner
  <2>10. (\A u \in Threads : \A y \in Touches(u) :
            /\ posted[y] = 0
            /\ \A p \in queue : p.io # y
            /\ \A v \in Threads : y \in Touches(v) => u = v)'
    BY <2>1, <2>2, <2>3, <2>5, <2>6, <2>7 DEF OneOwner
  <2> QED
    BY <2>8, <2>9, <2>10 DEF OneOwner
<1>4. ASSUME NEW x \in Contexts, NEW k \in Conns, Receive(x, k), UNCHANGED <<pc, job, m_sockAccept>>
      PROVE  OneOwner'
  BY <1>3, <1>4 DEF Receive
<1>5. ASSUME NEW a \in Accepts, CompleteAccept(a) PROVE OneOwner'
  BY <1>4, <1>5 DEF CompleteAccept, TypeOK
<1>6. ASSUME NEW k \in Conns, CompleteRecv(k) PROVE OneOwner'
  BY <1>4, <1>6 DEF CompleteRecv
<1>7. ASSUME NEW k \in Conns, CompleteSend(k) PROVE OneOwner'
  BY <1>3, <1>7 DEF CompleteSend
<1> QED
  BY <1>1, <1>2, <1>5, <1>6, <1>7 DEF Sockets

(* A packet goes from the port to a thread: the thread takes its context,  *)
(* or drops it.                                                            *)
LEMMA OwnersOfPackets ==
  ASSUME TypeOK, OneOwner, PacketsNameTheirClient, NEW t \in Threads,
         HandleError(t) \/ ClientLeft(t) \/ RecvDone(t) \/ SendDone(t) \/ AcceptDone(t)
  PROVE  OneOwner'
<1> USE IocpAssumption DEF Contexts
<1>1. ASSUME NEW p \in queue, Dequeue(t, p), UNCHANGED <<posted, m_sockAccept>>,
             \A u \in Threads : u # t => Touches(u)' = Touches(u),
             Touches(t)' \subseteq {p.io}
      PROVE  OneOwner'
  <2>1. posted[p.io] = 0 /\ \A q \in queue : q.io = p.io => q = p
    BY DEF OneOwner
  <2>2. \A u \in Threads : p.io \notin Touches(u)
    BY <2>1 DEF OneOwner
  <2>3. queue' = queue \ {p}
    BY <1>1 DEF Dequeue
  <2> QED
    BY <1>1, <2>1, <2>2, <2>3 DEF OneOwner
<1>2. CASE HandleError(t)
  <2>1. PICK p \in queue : /\ Dequeue(t, p)
                           /\ goto(t, "wait", NULL) \/ goto(t, "exited", NULL)
    BY <1>2 DEF HandleError
  <2>2. Touches(t)' = {}
    BY <2>1 DEF goto, Touches, TypeOK
  <2>3. UNCHANGED <<posted, m_sockAccept>>
    BY <1>2 DEF HandleError
  <2> QED
    BY <1>1, <2>1, <2>2, <2>3, OthersTouch
<1>3. CASE ClientLeft(t)
  <2>1. PICK p \in queue : Dequeue(t, p)
    BY <1>3 DEF ClientLeft
  <2>2. \A u \in Threads : Touches(u)' = Touches(u)
    BY <1>3, SameTouches DEF ClientLeft
  <2>3. Touches(t) = {}
    BY <2>1 DEF Dequeue, Touches
  <2>4. UNCHANGED <<posted, m_sockAccept>>
    BY <1>3 DEF ClientLeft
  <2> QED
    BY <1>1, <2>1, <2>2, <2>3, <2>4
<1>4. CASE RecvDone(t) \/ SendDone(t)
  <2>1. PICK p \in queue : /\ Dequeue(t, p)
                           /\ p.io \in Conns
                           /\ goto(t, "run", p.io) \/ goto(t, "recv", p.io)
    BY <1>4 DEF RecvDone, SendDone, Transferred
  <2>2. Touches(t)' = {p.io}
    BY <2>1 DEF goto, Touches, Client, TypeOK
  <2>3. UNCHANGED <<posted, m_sockAccept>>
    BY <1>4 DEF RecvDone, SendDone, Transferred
  <2> QED
    BY <1>1, <2>1, <2>2, <2>3, OthersTouch
<1>5. CASE AcceptDone(t)
  <2>1. PICK p \in queue : /\ Dequeue(t, p)
                           /\ goto(t, "data", p.io) \/ goto(t, "nodata", p.io)
    BY <1>5 DEF AcceptDone
  <2>2. Touches(t)' = {p.io}
    BY <2>1 DEF goto, Touches, TypeOK
  <2>3. UNCHANGED <<posted, m_sockAccept>>
    BY <1>5 DEF AcceptDone
  <2> QED
    BY <1>1, <2>1, <2>2, <2>3, OthersTouch
<1> QED
  BY <1>2, <1>3, <1>4, <1>5

(* A thread takes the context of its client when it accepts it, keeps what *)
(* it has while it serves the client, and gives it to the operation it     *)
(* posts.                                                                  *)
LEMMA OwnersOfHandlers ==
  ASSUME TypeOK, OneOwner, ClientsMoveOn, NEW t \in Threads,
         \/ DoFirstRecvWithData(t) \/ DoFirstRecvWithoutData(t) \/ RunClient(t)
         \/ PostWrite(t) \/ PostRecv(t) \/ PostAccept(t)
  PROVE  OneOwner'
<1> USE IocpAssumption DEF Contexts
<1>1. CASE DoFirstRecvWithData(t) \/ DoFirstRecvWithoutData(t)
  <2>1. pc[t] \in {"data", "nodata"} /\ UNCHANGED <<posted, queue, m_sockAccept>>
    BY <1>1 DEF DoFirstRecvWithData, DoFirstRecvWithoutData
  <2>2. \E there \in {"run", "repost"} : goto(t, there, job[t])
    BY <1>1 DEF DoFirstRecvWithData, DoFirstRecvWithoutData
  <2>3. Touches(t) = {job[t]} /\ Touches(t)' \subseteq {job[t], Client(t)} /\ job[t] \in Accepts
    BY <2>1, <2>2 DEF goto, Touches, Client, TypeOK
  <2>4. Untouched(Client(t)) /\ Client(t) \in Conns
    BY <2>1, <2>3 DEF ClientsMoveOn, Accepting, Client, TypeOK
  <2>5. \A u \in Threads : u # t => Touches(u)' = Touches(u)
    BY <2>1, <2>2, OthersTouch
  <2> QED
    BY <2>1, <2>3, <2>4, <2>5 DEF OneOwner, Untouched
<1>2. CASE RunClient(t)
  <2>1. UNCHANGED <<posted, queue, m_sockAccept>> /\ goto(t, "send", job[t]) /\ pc[t] = "run"
    BY <1>2 DEF RunClient
  <2>2. Touches(t)' = Touches(t)
    BY <2>1 DEF goto, Touches, Client, TypeOK
  <2>3. \A u \in Threads : Touches(u)' = Touches(u)
    BY <2>1, <2>2, OthersTouch
  <2> QED
    BY <2>1, <2>3 DEF OneOwner
<1>3. ASSUME NEW x \in Touches(t), Post(x), UNCHANGED queue, Touches(t)' \subseteq Touches(t) \ {x},
             \A u \in Threads : u # t => Touches(u)' = Touches(u)
      PROVE  OneOwner'
  <2>1. posted[x] = 0 /\ \A p \in queue : p.io # x
    BY <1>3 DEF OneOwner
  <2>2. \A u \in Threads : u # t => x \notin Touches(u)
    BY <1>3 DEF OneOwner
  <2>3. \A u \in Threads : Touches(u)' \subseteq Touches(u) /\ x \notin Touches(u)'
    BY <1>3, <2>2
  <2>4. \A y \in Contexts : posted'[y] <= 1 /\ (y # x => posted'[y] = posted[y])
    BY <1>3, <2>1 DEF Post, OneOwner, TypeOK
  <2>5. \A p \in queue : p.io \in Contexts
    BY DEF TypeOK, Packets
  <2>6. \A u \in Threads : Touches(u) \subseteq Contexts
    BY DEF TypeOK, Touches, PC
  <2> QED
    BY <1>3, <2>1, <2>3, <2>4, <2>5, <2>6 DEF OneOwner
<1>4. CASE PostWrite(t)
  <2>1. UNCHANGED <<queue, m_sockAccept>> /\ Post(Client(t)) /\ pc[t] = "send"
    BY <1>4 DEF PostWrite
  <2>2. \/ job[t] \in Accepts /\ goto(t, "repost", job[t])
        \/ job[t] \notin Accepts /\ goto(t, "wait", NULL)
    BY <1>4 DEF PostWrite
  <2>3. Client(t) \in Touches(t) /\ Client(t) \in Conns
    BY <2>1 DEF Touches, TypeOK
  <2>4. Touches(t)' \subseteq Touches(t) \ {Client(t)}
    BY <2>1, <2>2, <2>3 DEF goto, Touches, TypeOK
  <2>5. \A u \in Threads : u # t => Touches(u)' = Touches(u)
    BY <2>1, <2>2, OthersTouch
  <2> QED
    BY <1>3, <2>1, <2>3, <2>4, <2>5
<1>5. CASE PostRecv(t)
  <2>1. UNCHANGED <<queue, m_sockAccept>> /\ Post(job[t]) /\ pc[t] = "recv" /\ goto(t, "wait", NULL)
    BY <1>5 DEF PostRecv
  <2>2. Touches(t) = {job[t]} /\ Touches(t)' = {}
    BY <2>1 DEF goto, Touches, TypeOK
  <2>3. \A u \in Threads : u # t => Touches(u)' = Touches(u)
    BY <2>1, OthersTouch
  <2> QED
    BY <1>3, <2>1, <2>2, <2>3
<1>6. CASE PostAccept(t)
  <2>1. UNCHANGED queue /\ Post(job[t]) /\ pc[t] = "repost" /\ goto(t, "wait", NULL)
    BY <1>6 DEF PostAccept
  <2>2. Touches(t) = {job[t]} /\ Touches(t)' = {}
    BY <2>1 DEF goto, Touches, TypeOK
  <2>3. \A u \in Threads : u # t /\ job[u] = job[t] => pc[u] \notin PC \ {"wait", "exited"}
    BY <2>2 DEF OneOwner, Touches, PC
  <2>4. \A u \in Threads : u # t => job[u] # job[t]
    BY <2>1, <2>3 DEF TypeOK
  <2>5. \A u \in Threads : u # t => Touches(u)' = Touches(u)
    BY <1>6, <2>4, SameTouches DEF PostAccept, goto, TypeOK
  <2> QED
    BY <1>3, <2>1, <2>2, <2>5
<1> QED
  BY <1>1, <1>2, <1>4, <1>5, <1>6

-----------------------------------------------------------------------------
(* ClientsMoveOn is kept by a step that takes no untouched context and     *)
(* gives no accept context a packet.                                       *)
LEMMA MoveOnKept ==
  ASSUME TypeOK, ClientsMoveOn, UNCHANGED <<peer, backlog, m_sockAccept>>,
         \A k \in Conns : Untouched(k) => Untouched(k)',
         \A a \in Accepts : Accepting(a)' => Accepting(a)
  PROVE  ClientsMoveOn'
<1>1. backlog \subseteq Conns /\ \A a \in Accepts : m_sockAccept[a] # NULL => m_sockAccept[a] \in Conns
  BY DEF TypeOK
<1> QED
  BY <1>1 DEF ClientsMoveOn

LEMMA ClientsOfSockets ==
  ASSUME TypeOK, OneOwner, ClientsMoveOn, PacketsNameTheirClient,
         Sockets \/ \E k \in Conns : Connect(k) \/ Send(k) \/ Leave(k)
  PROVE  ClientsMoveOn' /\ PacketsNameTheirClient'
<1> USE IocpAssumption DEF Contexts
<1>1. ASSUME NEW k \in Conns, Connect(k) \/ Send(k) \/ Leave(k)
      PROVE  ClientsMoveOn' /\ PacketsNameTheirClient'
  <2>1. \A u \in Threads : Touches(u)' = Touches(u)
    BY <1>1, SameTouches DEF Connect, Send, Leave
  <2>2. UNCHANGED <<posted, queue, pc, job, m_sockAccept>>
    BY <1>1 DEF Connect, Send, Leave
  <2>3. \A x \in Contexts : (Untouched(x)' <=> Untouched(x)) /\ (Accepting(x)' <=> Accepting(x))
    BY <2>1, <2>2 DEF Untouched, Accepting
  <2>4. /\ \A j \in Conns : peer'[j] = "none" => peer[j] = "none" /\ j \notin backlog'
        /\ \A j \in backlog' : j \in backlog \/ (j \in Conns /\ peer[j] = "none")
    <3>1. CASE Connect(k)
      BY <3>1 DEF Connect, ClientsMoveOn, TypeOK
    <3>2. CASE Send(k) \/ Leave(k)
      BY <3>2 DEF Send, Leave, ClientsMoveOn, TypeOK
    <3> QED
      BY <1>1, <3>1, <3>2
  <2>5. ClientsMoveOn'
    BY <2>2, <2>3, <2>4 DEF ClientsMoveOn, TypeOK
  <2> QED
    BY <2>2, <2>5 DEF PacketsNameTheirClient
<1>2. ASSUME NEW a \in Accepts, NEW k \in Conns, TakeClient(a, k)
      PROVE  ClientsMoveOn' /\ PacketsNameTheirClient'
  <2>1. \A u \in Threads : a \notin Touches(u)
    BY <1>2 DEF TakeClient, OneOwner, TypeOK
  <2>2. \A u \in Threads : job[u] = a => Touches(u)' = Touches(u)
    BY <1>2, <2>1 DEF TakeClient, Touches, TypeOK, PC
  <2>3. \A u \in Threads : job[u] # a => Touches(u)' = Touches(u)
    BY <1>2, SameTouches DEF TakeClient, TypeOK
  <2>4. \A u \in Threads : Touches(u)' = Touches(u)
    BY <2>2, <2>3
  <2>5. UNCHANGED <<posted, queue, pc, job, peer>>
    BY <1>2 DEF TakeClient
  <2>6. \A x \in Contexts : (Untouched(x)' <=> Untouched(x)) /\ (Accepting(x)' <=> Accepting(x))
    BY <2>4, <2>5 DEF Untouched, Accepting
  <2>7. /\ backlog' = backlog \ {k} /\ k \in backlog /\ Untouched(k) /\ peer[k] # "none"
        /\ m_sockAccept' = [m_sockAccept EXCEPT ![a] = k]
        /\ \A b \in Accepts : m_sockAccept[b] # k
    BY <1>2 DEF TakeClient, ClientsMoveOn
  <2>8. ClientsMoveOn'
    BY <2>5, <2>6, <2>7 DEF ClientsMoveOn, TypeOK
  <2>9. PacketsNameTheirClient'
    BY <2>5, <2>7 DEF PacketsNameTheirClient, TypeOK
  <2> QED
    BY <2>8, <2>9
<1>3. ASSUME NEW x \in Contexts, NEW n, NEW e, Complete(x, n, e),
             UNCHANGED <<pc, job, m_sockAccept, peer, backlog>>,
             x \in Accepts => m_sockAccept[x] # NULL
      PROVE  ClientsMoveOn' /\ PacketsNameTheirClient'
  <2>1. \A u \in Threads : Touches(u)' = Touches(u)
    BY <1>3, SameTouches
  <2>2. posted[x] > 0 /\ \A y \in Contexts : y # x => posted'[y] = posted[y]
    BY <1>3 DEF Complete, TypeOK
  <2>3. queue' = queue \cup {Packet(x, n, e)} /\ Packet(x, n, e).io = x
    BY <1>3 DEF Complete, Packet
  <2>4. \A k \in Conns : Untouched(k) => Untouched(k)'
    BY <2>1, <2>2, <2>3 DEF Untouched
  <2>5. \A a \in Accepts : Accepting(a)' => Accepting(a)
    BY <1>3, <2>2, <2>3 DEF Accepting
  <2>6. ClientsMoveOn'
    BY <1>3, <2>4, <2>5, MoveOnKept
  <2>7. PacketsNameTheirClient'
    BY <1>3, <2>3 DEF PacketsNameTheirClient
  <2> QED
    BY <2>6, <2>7
<1>4. ASSUME NEW x \in Contexts, NEW k \in Conns, Receive(x, k),
             UNCHANGED <<pc, job, m_sockAccept, peer, backlog>>,
             x \in Accepts => m_sockAccept[x] # NULL
      PROVE  ClientsMoveOn' /\ PacketsNameTheirClient'
  BY <1>3, <1>4 DEF Receive
<1>5. ASSUME NEW a \in Accepts, CompleteAccept(a) PROVE ClientsMoveOn' /\ PacketsNameTheirClient'
  BY <1>4, <1>5 DEF CompleteAccept, TypeOK
<1>6. ASSUME NEW k \in Conns, CompleteRecv(k) PROVE ClientsMoveOn' /\ PacketsNameTheirClient'
  BY <1>4, <1>6 DEF CompleteRecv
<1>7. ASSUME NEW k \in Conns, CompleteSend(k) PROVE ClientsMoveOn' /\ PacketsNameTheirClient'
  BY <1>3, <1>7 DEF CompleteSend, clients
<1> QED
  BY <1>1, <1>2, <1>5, <1>6, <1>7 DEF Sockets

LEMMA ClientsOfPackets ==
  ASSUME TypeOK, OneOwner, ClientsMoveOn, PacketsNameTheirClient, NEW t \in Threads,
         HandleError(t) \/ ClientLeft(t) \/ RecvDone(t) \/ SendDone(t) \/ AcceptDone(t)
  PROVE  ClientsMoveOn' /\ PacketsNameTheirClient'
<1> USE IocpAssumption DEF Contexts
<1>1. /\ UNCHANGED <<posted, m_sockAccept, peer, backlog>>
      /\ queue' \subseteq queue
  BY DEF HandleError, ClientLeft, RecvDone, SendDone, AcceptDone, Dequeue, Transferred, clients
<1>2. PICK p \in queue : /\ pc[t] = "wait"
                         /\ \/ UNCHANGED <<pc, job>>
                            \/ goto(t, "wait", NULL) \/ goto(t, "exited", NULL)
                            \/ p.io \in Conns /\ (goto(t, "run", p.io) \/ goto(t, "recv", p.io))
                            \/ p.io \in Accepts /\ (goto(t, "data", p.io) \/ goto(t, "nodata", p.io))
  BY DEF HandleError, ClientLeft, RecvDone, SendDone, AcceptDone, Dequeue, Transferred
<1>3. Touches(t)' \subseteq {p.io}
  BY <1>1, <1>2 DEF goto, Touches, Client, TypeOK
<1>4. \A u \in Threads : u # t => Touches(u)' = Touches(u)
  BY <1>1, <1>2, OthersTouch, SameTouches
<1>5. \A k \in Conns : Untouched(k) => Untouched(k)'
  BY <1>1, <1>3, <1>4 DEF Untouched
<1>6. \A a \in Accepts : Accepting(a)' => Accepting(a)
  BY <1>1, <1>2 DEF Accepting, goto, TypeOK
<1>7. ClientsMoveOn'
  BY <1>1, <1>5, <1>6, MoveOnKept
<1> QED
  BY <1>1, <1>7 DEF PacketsNameTheirClient

LEMMA ClientsOfHandlers ==
  ASSUME TypeOK, OneOwner, ClientsMoveOn, PacketsNameTheirClient, NEW t \in Threads,
         \/ DoFirstRecvWithData(t) \/ DoFirstRecvWithoutData(t) \/ RunClient(t)
         \/ PostWrite(t) \/ PostRecv(t) \/ PostAccept(t)
  PROVE  ClientsMoveOn' /\ PacketsNameTheirClient'
<1> USE IocpAssumption DEF Contexts
<1>1. CASE DoFirstRecvWithData(t) \/ DoFirstRecvWithoutData(t)
  <2>1. pc[t] \in {"data", "nodata"} /\ UNCHANGED <<posted, queue, m_sockAccept, peer, backlog>>
    BY <1>1 DEF DoFirstRecvWithData, DoFirstRecvWithoutData, clients
  <2>2. \E there \in {"run", "repost"} : goto(t, there, job[t])
    BY <1>1 DEF DoFirstRecvWithData, DoFirstRecvWithoutData
  <2>3. /\ Touches(t) = {job[t]} /\ Touches(t)' \subseteq {job[t], Client(t)}
        /\ job[t] \in Accepts /\ Client(t) = m_sockAccept[job[t]] /\ Client(t) \in Conns
    BY <2>1, <2>2 DEF goto, Touches, Client, TypeOK
  <2>4. /\ peer[Client(t)] # "none" /\ Client(t) \notin backlog
        /\ \A b \in Accepts : b # job[t] => m_sockAccept[b] # Client(t)
    BY <2>3 DEF ClientsMoveOn
  <2>5. \A u \in Threads : u # t => Touches(u)' = Touches(u) /\ job[t] \notin Touches(u)
    BY <2>1, <2>2, <2>3, OthersTouch DEF OneOwner
  <2>6. \A k \in Conns : k # Client(t) /\ Untouched(k) => Untouched(k)'
    BY <2>1, <2>3, <2>5 DEF Untouched
  <2>7. \A a \in Accepts : Accepting(a)' => Accepting(a)
    BY <2>1, <2>2 DEF Accepting, goto, TypeOK
  <2>8. ~Accepting(job[t])'
    <3>1. posted[job[t]] = 0 /\ \A p \in queue : p.io # job[t]
      BY <2>3 DEF OneOwner
    <3>2. \A u \in Threads : u # t /\ pc[u] \in {"data", "nodata"} => job[u] # job[t]
      BY <2>5 DEF Touches
    <3> QED
      BY <2>1, <2>2, <3>1, <3>2 DEF Accepting, goto, TypeOK
  <2>9. /\ backlog \subseteq Conns
        /\ \A a \in Accepts : m_sockAccept[a] # NULL => m_sockAccept[a] \in Conns
    BY DEF TypeOK
  <2>10. (\A k \in Conns : peer[k] = "none" =>
            k \notin backlog /\ (\A a \in Accepts : m_sockAccept[a] # k) /\ Untouched(k))'
    BY <2>1, <2>4, <2>6 DEF ClientsMoveOn
  <2>11. (\A k \in backlog : (\A a \in Accepts : m_sockAccept[a] # k) /\ Untouched(k))'
    BY <2>1, <2>4, <2>6, <2>9 DEF ClientsMoveOn
  <2>12. (\A a \in Accepts :
            m_sockAccept[a] # NULL /\ Accepting(a) => Untouched(m_sockAccept[a]))'
    <3>1. ASSUME NEW a \in Accepts, m_sockAccept[a] # NULL, Accepting(a)'
          PROVE  Untouched(m_sockAccept[a])'
      <4>1. a # job[t] /\ Accepting(a)
        BY <2>2, <2>7, <2>8, <3>1 DEF goto, TypeOK
      <4>2. m_sockAccept[a] \in Conns /\ m_sockAccept[a] # Client(t) /\ Untouched(m_sockAccept[a])
        BY <2>4, <2>9, <3>1, <4>1 DEF ClientsMoveOn
      <4>3. PICK k \in Conns : k = m_sockAccept[a] /\ k = m_sockAccept'[a]
        BY <2>1, <4>2
      <4>4. Untouched(k)'
        BY <2>6, <4>2, <4>3
      <4> QED
        BY <4>3, <4>4 DEF Untouched
    <3> QED
      BY <2>1, <3>1
  <2>13. ClientsMoveOn'
    BY <2>1, <2>10, <2>11, <2>12 DEF ClientsMoveOn
  <2> QED
    BY <2>1, <2>13 DEF PacketsNameTheirClient
<1>2. CASE RunClient(t)
  <2>1. /\ UNCHANGED <<posted, queue, m_sockAccept, peer, backlog>>
        /\ goto(t, "send", job[t]) /\ pc[t] = "run"
    BY <1>2 DEF RunClient, clients
  <2>2. \A u \in Threads : Touches(u)' = Touches(u)
    BY <2>1, OthersTouch DEF goto, Touches, Client, TypeOK
  <2>3. \A k \in Conns : Untouched(k) => Untouched(k)'
    BY <2>1, <2>2 DEF Untouched
  <2>4. \A a \in Accepts : Accepting(a)' => Accepting(a)
    BY <2>1 DEF Accepting, goto, TypeOK
  <2> QED
    BY <2>1, <2>3, <2>4, MoveOnKept DEF PacketsNameTheirClient
<1>3. CASE PostWrite(t) \/ PostRecv(t)
  <2>1. UNCHANGED <<queue, m_sockAccept, peer, backlog>>
    BY <1>3 DEF PostWrite, PostRecv, clients
  <2>2. PICK x \in Conns \cap Touches(t) :
          /\ \A y \in Contexts : y # x => posted'[y] = posted[y]
          /\ goto(t, "wait", NULL) \/ (job[t] \in Touches(t) /\ goto(t, "repost", job[t]))
    <3>1. CASE PostWrite(t)
      <4>1. pc[t] = "send" /\ Client(t) \in Conns /\ Touches(t) = {job[t], Client(t)}
        BY <3>1 DEF PostWrite, Touches, TypeOK
      <4>2. goto(t, "wait", NULL) \/ goto(t, "repost", job[t])
        BY <3>1 DEF PostWrite
      <4>3. \A y \in Contexts : y # Client(t) => posted'[y] = posted[y]
        BY <3>1 DEF PostWrite, Post, TypeOK
      <4> QED
        BY <4>1, <4>2, <4>3
    <3>2. CASE PostRecv(t)
      <4>1. job[t] \in Conns /\ Touches(t) = {job[t]} /\ goto(t, "wait", NULL)
        BY <3>2 DEF PostRecv, Touches, TypeOK
      <4>2. \A y \in Contexts : y # job[t] => posted'[y] = posted[y]
        BY <3>2 DEF PostRecv, Post, TypeOK
      <4> QED
        BY <4>1, <4>2
    <3> QED
      BY <1>3, <3>1, <3>2
  <2>3. Touches(t)' \subseteq Touches(t)
    <3>1. CASE goto(t, "wait", NULL)
      BY <3>1 DEF goto, Touches, TypeOK
    <3>2. CASE job[t] \in Touches(t) /\ goto(t, "repost", job[t])
      <4>1. Touches(t)' = {job[t]}
        BY <3>2 DEF goto, Touches, TypeOK
      <4> QED
        BY <3>2, <4>1
    <3> QED
      BY <2>2, <3>1, <3>2
  <2>4. \A u \in Threads : u # t => Touches(u)' = Touches(u)
    BY <2>1, <2>2, OthersTouch
  <2>5. \A k \in Conns : Untouched(k) => Untouched(k)'
    BY <2>1, <2>2, <2>3, <2>4 DEF Untouched
  <2>6. \A a \in Accepts : Accepting(a)' => Accepting(a)
    BY <2>1, <2>2 DEF Accepting, goto, TypeOK
  <2> QED
    BY <2>1, <2>5, <2>6, MoveOnKept DEF PacketsNameTheirClient
<1>4. CASE PostAccept(t)
  <2>1. /\ UNCHANGED <<queue, peer, backlog>> /\ pc[t] = "repost" /\ goto(t, "wait", NULL)
        /\ job[t] \in Accepts /\ m_sockAccept' = [m_sockAccept EXCEPT ![job[t]] = NULL]
        /\ \A y \in Contexts : y # job[t] => posted'[y] = posted[y]
    BY <1>4 DEF PostAccept, Post, clients, TypeOK
  <2>2. Touches(t) = {job[t]} /\ Touches(t)' = {}
    BY <2>1 DEF goto, Touches, TypeOK
  <2>3. \A u \in Threads : u # t /\ job[u] = job[t] => pc[u] \notin PC \ {"wait", "exited"}
    BY <2>2 DEF OneOwner, Touches, PC
  <2>4. \A u \in Threads : u # t => job[u] # job[t]
    BY <2>1, <2>3 DEF TypeOK
  <2>5. \A u \in Threads : u # t => Touches(u)' = Touches(u)
    BY <2>1, <2>4, SameTouches DEF goto, TypeOK
  <2>6. \A k \in Conns : Untouched(k) => Untouched(k)'
    BY <2>1, <2>2, <2>5 DEF Untouched
  <2>7. \A a \in Accepts : a # job[t] /\ Accepting(a)' => Accepting(a)
    BY <2>1 DEF Accepting, goto, TypeOK
  <2>8. ClientsMoveOn'
    BY <2>1, <2>6, <2>7 DEF ClientsMoveOn, TypeOK
  <2>9. \A p \in queue : p.io # job[t]
    BY <2>2 DEF OneOwner
  <2>10. PacketsNameTheirClient'
    BY <2>1, <2>9 DEF PacketsNameTheirClient, TypeOK
  <2> QED
    BY <2>8, <2>10
<1> QED
  BY <1>1, <1>2, <1>3, <1>4

-----------------------------------------------------------------------------
LEMMA StepIInv == IInv /\ [Next]_vars => IInv'
<1> SUFFICES ASSUME IInv, [Next]_vars PROVE IInv'
  OBVIOUS
<1>1. TypeOK'
  BY TypeStep DEF IInv
<1>2. CASE UNCHANGED vars
  <2>1. UNCHANGED <<posted, queue, pc, job, m_sockAccept, peer, backlog>>
    BY <1>2 DEF vars, clients
  <2>2. \A u \in Threads : Touches(u)' = Touches(u)
    BY <2>1, SameTouches
  <2>3. \A x : (Untouched(x)' <=> Untouched(x)) /\ (Accepting(x)' <=> Accepting(x))
    BY <2>1, <2>2 DEF Untouched, Accepting
  <2>4. OneOwner'
    BY <2>1, <2>2 DEF IInv, OneOwner
  <2>5. ClientsMoveOn' /\ PacketsNameTheirClient'
    BY <2>1, <2>3, MoveOnKept DEF IInv, PacketsNameTheirClient
  <2> QED
    BY <1>1, <2>4, <2>5 DEF IInv
<1>3. CASE Sockets \/ \E k \in Conns : Connect(k) \/ Send(k) \/ Leave(k)
  BY <1>1, <1>3, OwnersOfSockets, ClientsOfSockets DEF IInv
<1>4. ASSUME NEW t \in Threads,
             HandleError(t) \/ ClientLeft(t) \/ RecvDone(t) \/ SendDone(t) \/ AcceptDone(t)
      PROVE  IInv'
  BY <1>1, <1>4, OwnersOfPackets, ClientsOfPackets DEF IInv
<1>5. ASSUME NEW t \in Threads,
             \/ DoFirstRecvWithData(t) \/ DoFirstRecvWithoutData(t) \/ RunClient(t)
             \/ PostWrite(t) \/ PostRecv(t) \/ PostAccept(t)
      PROVE  IInv'
  BY <1>1, <1>5, OwnersOfHandlers, ClientsOfHandlers DEF IInv
<1> QED
  BY <1>2, <1>3, <1>4, <1>5 DEF Next, WorkerThread

(* IInv is an invariant of CIOCPModel.                                     *)
THEOREM Invariance == Spec => []IInv
<1> QED
  BY InitIInv, StepIInv, PTL DEF Spec

(* Every variable keeps its type: a thread that serves an accept context   *)
(* finds a client on it, in _DoFirstRecvWithData as in PostWrite.          *)
THEOREM TypeCorrect == Spec => []TypeOK
<1>1. IInv => TypeOK
  BY DEF IInv
<1> QED
  BY <1>1, Invariance, PTL

(* No buffer and no CClientParse is used by two threads, or by a thread    *)
(* and a socket operation, at the same time: the code needs no lock for    *)
(* them, whatever fails.                                                   *)
THEOREM OwnerCorrect == Spec => []OneOwner
<1>1. IInv => OneOwner
  BY DEF IInv
<1> QED
  BY <1>1, Invariance, PTL
=============================================================================
