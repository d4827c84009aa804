------------------------- MODULE IocpServiceProofs -------------------------
(***************************************************************************)
(* What CIOCPModel owes to its clients, for any number of worker threads,  *)
(* accepts and clients, under named restrictions of what may go wrong:     *)
(* without partial sends only requests are run; without failed posts and   *)
(* unexpected errors clients are served, and accepts are lost to resets    *)
(* only.                                                                   *)
(***************************************************************************)
EXTENDS IocpModelProofs

(* The buffer and the counters a thread finds on its client.               *)
ThreadFits(t) ==
  /\ pc[t] = "run" =>
       m_szBuffer[Client(t)] = "request" /\ m_nSendBytes[Client(t)] = 0
  /\ pc[t] = "send" =>
       m_OpType[Client(t)] = "SEND" /\ m_nSendBytes[Client(t)] = 0

(* What a receive or a send in flight on k has left on its context.        *)
ContextFits(k) ==
  /\ posted[k] > 0 /\ m_OpType[k] = "SEND" => m_nSendBytes[k] = 0
  /\ \A p \in queue :
       p.io = k /\ p.error = "none" /\ p.bytes > 0 =>
         /\ m_OpType[k] = "RECV" => m_szBuffer[k] = "request"
         /\ m_OpType[k] = "SEND" => m_nSendBytes[k] = 0 /\ p.bytes = m_nTotalBytes[k]

Fits == (\A t \in Threads : ThreadFits(t)) /\ (\A k \in Conns : ContextFits(k))

SameBuffer(k) ==
  /\ m_OpType'[k] = m_OpType[k]
  /\ m_szBuffer'[k] = m_szBuffer[k]
  /\ m_nTotalBytes'[k] = m_nTotalBytes[k]
  /\ m_nSendBytes'[k] = m_nSendBytes[k]

LEMMA InitFits == Init => Fits
BY IocpAssumption DEF Init, Fits, ThreadFits, ContextFits, Contexts

(* What a step of another thread or of a socket leaves as it is.           *)
LEMMA ThreadStillFits ==
  ASSUME TypeOK, NEW u \in Threads, ThreadFits(u), pc'[u] = pc[u], job'[u] = job[u],
         pc[u] \in {"run", "send"} => Client(u)' = Client(u) /\ SameBuffer(Client(u))
  PROVE  ThreadFits(u)'
BY DEF ThreadFits, SameBuffer, TypeOK

LEMMA ContextStillFits ==
  ASSUME NEW k \in Conns, ContextFits(k), SameBuffer(k),
         posted'[k] > 0 => posted[k] > 0,
         \A p \in queue' : p.io = k => p \in queue
  PROVE  ContextFits(k)'
BY DEF ContextFits, SameBuffer

LEMMA FitsOfSockets ==
  ASSUME "partial" \notin Faults, IInv, Fits,
         Sockets \/ \E k \in Conns : Connect(k) \/ Send(k) \/ Leave(k)
  PROVE  Fits'
<1> USE IocpAssumption DEF Contexts
<1>t. TypeOK /\ OneOwner
  BY DEF IInv
<1>1. ASSUME NEW k \in Conns, Connect(k) \/ Send(k) \/ Leave(k) PROVE Fits'
  <2>1. UNCHANGED <<buffer, m_sockAccept, pc, job, posted, queue>>
    BY <1>1 DEF Connect, Send, Leave
  <2>2. \A u \in Threads : Client(u)' = Client(u)
    BY <2>1 DEF Client
  <2>3. \A u \in Threads : ThreadFits(u)'
    BY <1>t, <2>1, <2>2, ThreadStillFits DEF Fits, SameBuffer, buffer
  <2>4. \A j \in Conns : ContextFits(j)'
    BY <2>1, ContextStillFits DEF Fits, SameBuffer, buffer
  <2> QED
    BY <2>3, <2>4 DEF Fits
<1>2. ASSUME NEW a \in Accepts, NEW k \in Conns, TakeClient(a, k) PROVE Fits'
  <2>1. /\ UNCHANGED <<buffer, pc, job, posted, queue>>
        /\ m_sockAccept' = [m_sockAccept EXCEPT ![a] = k]
        /\ posted[a] > 0
    BY <1>2 DEF TakeClient
  <2>2. \A u \in Threads : pc[u] \in {"run", "send"} => job[u] # a
    BY <1>t, <2>1 DEF OneOwner, Touches, TypeOK
  <2>3. \A u \in Threads : pc[u] \in {"run", "send"} => Client(u)' = Client(u)
    BY <1>t, <2>1, <2>2 DEF Client, TypeOK
  <2>4. \A u \in Threads : ThreadFits(u)'
    BY <1>t, <2>1, <2>3, ThreadStillFits DEF Fits, SameBuffer, buffer
  <2>5. \A j \in Conns : ContextFits(j)'
    BY <2>1, ContextStillFits DEF Fits, SameBuffer, buffer
  <2> QED
    BY <2>4, <2>5 DEF Fits
<1>3. ASSUME NEW x \in Contexts, NEW n, NEW e, Complete(x, n, e),
             UNCHANGED <<pc, job, m_sockAccept>>,
             \A j \in Conns : j # x => SameBuffer(j),
             x \in Conns => ContextFits(x)'
      PROVE  Fits'
  <2>1. /\ posted[x] > 0 /\ \A y \in Contexts : y # x => posted'[y] = posted[y]
        /\ queue' = queue \cup {Packet(x, n, e)} /\ Packet(x, n, e).io = x
    BY <1>3, <1>t DEF Complete, Packet, TypeOK
  <2>2. \A u \in Threads : Client(u)' = Client(u)
    BY <1>3 DEF Client
  <2>3. \A u \in Threads : pc[u] \in {"run", "send"} => Client(u) # x /\ Client(u) \in Conns
    BY <1>t, <2>1 DEF OneOwner, Touches, TypeOK
  <2>4. \A u \in Threads : ThreadFits(u)'
    BY <1>t, <1>3, <2>2, <2>3, ThreadStillFits DEF Fits
  <2>5. \A j \in Conns : j # x => ContextFits(j)'
    BY <1>3, <2>1, ContextStillFits DEF Fits
  <2> QED
    BY <1>3, <2>4, <2>5 DEF Fits
<1>4. ASSUME NEW a \in Accepts, CompleteAccept(a) PROVE Fits'
  <2>1. \E n, e : Complete(a, n, e)
    BY <1>4 DEF CompleteAccept, Receive
  <2>2. UNCHANGED <<pc, job, m_sockAccept>> /\ \A j \in Conns : SameBuffer(j)
    BY <1>4 DEF CompleteAccept, buffer, SameBuffer
  <2> QED
    BY <1>3, <2>1, <2>2
<1>5. ASSUME NEW k \in Conns, CompleteRecv(k) PROVE Fits'
  <2>1. PICK n, e : Complete(k, n, e) /\ (n > 0 => n = inbox[k] /\ inbox'[k] = 0)
    BY <1>5, <1>t DEF CompleteRecv, Receive, TypeOK
  <2>2. /\ UNCHANGED <<pc, job, m_sockAccept, m_OpType, m_nTotalBytes, m_nSendBytes>>
        /\ m_OpType[k] = "RECV"
        /\ \A j \in Conns : j # k => SameBuffer(j)
        /\ n > 0 => m_szBuffer'[k] = "request"
    BY <1>5, <1>t, <2>1 DEF CompleteRecv, SameBuffer, TypeOK
  <2>3. posted[k] > 0 /\ queue' = queue \cup {Packet(k, n, e)} /\ \A p \in queue : p.io # k
    BY <1>t, <2>1 DEF Complete, OneOwner
  <2>4. ContextFits(k)'
    BY <2>2, <2>3 DEF ContextFits, Packet
  <2> QED
    BY <1>3, <2>1, <2>2, <2>4
<1>6. ASSUME NEW k \in Conns, CompleteSend(k) PROVE Fits'
  <2>1. PICK n, e : Complete(k, n, e) /\ (n > 0 => n = m_nTotalBytes[k])
    BY <1>6, <1>t DEF CompleteSend, TypeOK
  <2>2. UNCHANGED <<pc, job, m_sockAccept, buffer>> /\ m_OpType[k] = "SEND"
    BY <1>6 DEF CompleteSend
  <2>3. posted[k] > 0 /\ queue' = queue \cup {Packet(k, n, e)} /\ \A p \in queue : p.io # k
    BY <1>t, <2>1 DEF Complete, OneOwner
  <2>4. m_nSendBytes[k] = 0
    BY <2>2, <2>3 DEF Fits, ContextFits
  <2>5. ContextFits(k)'
    BY <2>1, <2>2, <2>3, <2>4 DEF ContextFits, Packet, buffer
  <2>6. \A j \in Conns : SameBuffer(j)
    BY <2>2 DEF buffer, SameBuffer
  <2> QED
    BY <1>3, <2>1, <2>2, <2>5, <2>6
<1> QED
  BY <1>1, <1>2, <1>4, <1>5, <1>6 DEF Sockets

(* A thread moves and writes at most the context c, which is its own or    *)
(* nobody's; it may post x, which it had.                                  *)
LEMMA FitsOfThread ==
  ASSUME IInv, Fits, NEW t \in Threads, NEW there, NEW x, goto(t, there, x),
         UNCHANGED m_sockAccept, queue' \subseteq queue,
         NEW c \in Conns,
         \A u \in Threads : u # t => c \notin Touches(u),
         \A j \in Conns : j # c => SameBuffer(j) /\ (posted'[j] > 0 => posted[j] > 0),
         ThreadFits(t)', ContextFits(c)'
  PROVE  Fits'
<1>t. TypeOK
  BY DEF IInv
<1>1. ASSUME NEW u \in Threads, u # t PROVE ThreadFits(u)'
  <2>1. pc'[u] = pc[u] /\ job'[u] = job[u] /\ Client(u)' = Client(u)
    BY <1>t, <1>1 DEF goto, Client, TypeOK
  <2>2. pc[u] \in {"run", "send"} => Client(u) \in Conns /\ Client(u) \in Touches(u)
    BY <1>t DEF TypeOK, Touches
  <2> QED
    BY <1>t, <1>1, <2>1, <2>2, ThreadStillFits DEF Fits
<1>2. ASSUME NEW j \in Conns, j # c PROVE ContextFits(j)'
  BY <1>2, ContextStillFits DEF Fits
<1> QED
  BY <1>1, <1>2 DEF Fits

LEMMA FitsOfPackets ==
  ASSUME IInv, Fits, NEW t \in Threads,
         HandleError(t) \/ ClientLeft(t) \/ RecvDone(t) \/ SendDone(t) \/ AcceptDone(t)
  PROVE  Fits'
<1> USE IocpAssumption DEF Contexts
<1>t. TypeOK /\ OneOwner
  BY DEF IInv
<1>q. /\ UNCHANGED <<posted, m_sockAccept>>
      /\ queue' \subseteq queue
      /\ pc[t] = "wait"
  BY DEF HandleError, ClientLeft, RecvDone, SendDone, AcceptDone, Dequeue, Transferred
<1>1. CASE HandleError(t) \/ ClientLeft(t) \/ AcceptDone(t)
  <2>1. \A j \in Conns : SameBuffer(j)
    BY <1>1 DEF HandleError, ClientLeft, AcceptDone, buffer, SameBuffer
  <2>2. pc'[t] \notin {"run", "send"}
    BY <1>1, <1>t, <1>q DEF HandleError, ClientLeft, AcceptDone, goto, TypeOK
  <2>3. \A u \in Threads : u # t => pc'[u] = pc[u] /\ job'[u] = job[u]
    BY <1>1, <1>t DEF HandleError, ClientLeft, AcceptDone, goto, TypeOK
  <2>4. \A u \in Threads : u # t => Client(u)' = Client(u)
    BY <1>q, <2>3 DEF Client
  <2>5. \A u \in Threads : pc[u] \in {"run", "send"} => Client(u) \in Conns
    BY <1>t DEF TypeOK
  <2>6. \A u \in Threads : u # t => ThreadFits(u)'
    BY <1>t, <2>1, <2>3, <2>4, <2>5, ThreadStillFits DEF Fits
  <2>7. ThreadFits(t)'
    BY <2>2 DEF ThreadFits
  <2>8. \A j \in Conns : ContextFits(j)'
    BY <1>q, <2>1, ContextStillFits DEF Fits
  <2> QED
    BY <2>6, <2>7, <2>8 DEF Fits
<1>2. CASE RecvDone(t)
  <2>1. PICK p \in queue :
          /\ Dequeue(t, p) /\ p.error = "none" /\ p.bytes > 0 /\ p.io \in Conns
          /\ m_OpType[p.io] = "RECV" /\ goto(t, "run", p.io)
          /\ m_nTotalBytes' = [m_nTotalBytes EXCEPT ![p.io] = p.bytes]
          /\ m_nSendBytes' = [m_nSendBytes EXCEPT ![p.io] = 0]
    BY <1>2 DEF RecvDone, Transferred
  <2>2. UNCHANGED <<m_OpType, m_szBuffer>>
    BY <1>2 DEF RecvDone, Transferred
  <2>3. posted[p.io] = 0 /\ \A q \in queue' : q.io # p.io
    BY <1>t, <2>1 DEF Dequeue, OneOwner
  <2>4. m_szBuffer[p.io] = "request"
    BY <2>1 DEF Fits, ContextFits
  <2>5. ThreadFits(t)'
    BY <1>t, <2>1, <2>2, <2>4 DEF ThreadFits, Client, goto, TypeOK
  <2>6. ContextFits(p.io)'
    BY <1>q, <2>3 DEF ContextFits
  <2>7. \A j \in Conns : j # p.io => SameBuffer(j)
    BY <1>t, <2>1, <2>2 DEF SameBuffer, TypeOK
  <2>8. \A u \in Threads : p.io \notin Touches(u)
    BY <1>t, <2>1 DEF OneOwner
  <2> QED
    BY <1>q, <2>1, <2>5, <2>6, <2>7, <2>8, FitsOfThread
<1>3. CASE SendDone(t)
  <2>1. PICK p \in queue :
          /\ Dequeue(t, p) /\ p.error = "none" /\ p.bytes > 0 /\ p.io \in Conns
          /\ m_OpType[p.io] = "SEND"
          /\ m_nSendBytes' = [m_nSendBytes EXCEPT ![p.io] = @ + p.bytes]
          /\ goto(t, IF m_nSendBytes'[p.io] < m_nTotalBytes[p.io] THEN "run" ELSE "recv", p.io)
    BY <1>3 DEF SendDone, Transferred
  <2>2. UNCHANGED <<m_OpType, m_szBuffer, m_nTotalBytes>>
    BY <1>3 DEF SendDone, Transferred
  <2>3. posted[p.io] = 0 /\ \A q \in queue' : q.io # p.io
    BY <1>t, <2>1 DEF Dequeue, OneOwner
  <2>4. m_nSendBytes[p.io] = 0 /\ p.bytes = m_nTotalBytes[p.io]
    BY <2>1 DEF Fits, ContextFits
  <2>5. goto(t, "recv", p.io)
    BY <1>t, <2>1, <2>4 DEF TypeOK
  <2>6. ThreadFits(t)'
    BY <1>t, <2>5 DEF ThreadFits, goto, TypeOK
  <2>7. ContextFits(p.io)'
    BY <1>q, <2>3 DEF ContextFits
  <2>8. \A j \in Conns : j # p.io => SameBuffer(j)
    BY <1>t, <2>1, <2>2 DEF SameBuffer, TypeOK
  <2>9. \A u \in Threads : p.io \notin Touches(u)
    BY <1>t, <2>1 DEF OneOwner
  <2> QED
    BY <1>q, <2>1, <2>5, <2>6, <2>7, <2>8, <2>9, FitsOfThread
<1> QED
  BY <1>1, <1>2, <1>3

LEMMA FitsOfHandlers ==
  ASSUME IInv, Fits, NEW t \in Threads,
         \/ DoFirstRecvWithData(t) \/ DoFirstRecvWithoutData(t) \/ RunClient(t)
         \/ PostWrite(t) \/ PostRecv(t) \/ PostAccept(t)
  PROVE  Fits'
<1> USE IocpAssumption DEF Contexts
<1>t. TypeOK /\ OneOwner /\ ClientsMoveOn
  BY DEF IInv
<1>q. UNCHANGED queue
  BY DEF DoFirstRecvWithData, DoFirstRecvWithoutData, RunClient, PostWrite, PostRecv, PostAccept
<1>1. CASE DoFirstRecvWithData(t) \/ DoFirstRecvWithoutData(t)
  <2>1. /\ pc[t] \in {"data", "nodata"} /\ UNCHANGED <<posted, m_sockAccept>>
        /\ job[t] \in Accepts /\ Client(t) \in Conns
    BY <1>1, <1>t DEF DoFirstRecvWithData, DoFirstRecvWithoutData, TypeOK
  <2>c. PICK c \in Conns : c = Client(t)
    BY <2>1
  <2>2. Untouched(c)
    BY <1>t, <2>1, <2>c DEF ClientsMoveOn, Accepting, Client, TypeOK
  <2>3. PICK there \in {"run", "repost"} :
          /\ goto(t, there, job[t])
          /\ there = "run" => m_szBuffer'[Client(t)] = "request" /\ m_nSendBytes'[Client(t)] = 0
    BY <1>1, <1>t, <2>1 DEF DoFirstRecvWithData, DoFirstRecvWithoutData, TypeOK
  <2>4. \A j \in Conns : j # c => SameBuffer(j)
    BY <1>1, <1>t, <2>1, <2>c DEF DoFirstRecvWithData, DoFirstRecvWithoutData, SameBuffer, TypeOK
  <2>5. Client(t)' = Client(t)
    BY <1>t, <2>1, <2>3 DEF goto, Client, TypeOK
  <2>6. ThreadFits(t)'
    BY <1>t, <2>3, <2>5 DEF ThreadFits, goto, TypeOK
  <2>7. ContextFits(c)'
    BY <1>q, <2>1, <2>2 DEF ContextFits, Untouched
  <2> QED
    BY <1>q, <2>1, <2>2, <2>3, <2>4, <2>6, <2>7, FitsOfThread DEF Untouched
<1>2. CASE RunClient(t) \/ PostWrite(t)
  <2>1. /\ pc[t] \in {"run", "send"} /\ UNCHANGED m_sockAccept
        /\ Client(t) \in Conns /\ Client(t) \in Touches(t)
    BY <1>2, <1>t DEF RunClient, PostWrite, Touches, TypeOK
  <2>c. PICK c \in Conns : c = Client(t)
    BY <2>1
  <2>2. \A u \in Threads : u # t => c \notin Touches(u)
    BY <1>t, <2>1, <2>c DEF OneOwner
  <2>3. posted[c] = 0 /\ \A p \in queue : p.io # c
    BY <1>t, <2>1, <2>c DEF OneOwner
  <2>4. m_nSendBytes[Client(t)] = 0 /\ m_nSendBytes'[Client(t)] = 0
    BY <1>2, <1>t, <2>1 DEF RunClient, PostWrite, buffer, Fits, ThreadFits, TypeOK
  <2>5. PICK there, x : goto(t, there, x)
    BY <1>2 DEF RunClient, PostWrite
  <2>6. ThreadFits(t)'
    <3>1. CASE RunClient(t)
      <4>1. goto(t, "send", job[t]) /\ m_OpType' = [m_OpType EXCEPT ![Client(t)] = "SEND"]
        BY <3>1 DEF RunClient
      <4>2. Client(t)' = Client(t)
        BY <1>t, <2>1, <4>1 DEF goto, Client, TypeOK
      <4> QED
        BY <1>t, <2>1, <2>4, <4>1, <4>2 DEF goto, ThreadFits, TypeOK
    <3>2. CASE PostWrite(t)
      BY <1>t, <3>2 DEF PostWrite, goto, ThreadFits, TypeOK
    <3> QED
      BY <1>2, <3>1, <3>2
  <2>7. ContextFits(c)'
    BY <1>q, <2>3, <2>4, <2>c DEF ContextFits
  <2>8. \A j \in Conns : j # c => SameBuffer(j) /\ (posted'[j] > 0 => posted[j] > 0)
    BY <1>2, <1>t, <2>1, <2>c DEF RunClient, PostWrite, Post, buffer, SameBuffer, TypeOK
  <2> QED
    BY <1>q, <2>1, <2>2, <2>5, <2>6, <2>7, <2>8, FitsOfThread
<1>3. CASE PostRecv(t)
  <2>1. /\ pc[t] = "recv" /\ goto(t, "wait", NULL) /\ UNCHANGED m_sockAccept
        /\ job[t] \in Conns /\ Touches(t) = {job[t]}
    BY <1>3, <1>t DEF PostRecv, Touches, TypeOK
  <2>c. PICK c \in Conns : c = job[t]
    BY <2>1
  <2>2. m_OpType'[c] = "RECV"
    BY <1>3, <1>t, <2>c DEF PostRecv, TypeOK
  <2>3. \A p \in queue : p.io # c
    BY <1>t, <2>1, <2>c DEF OneOwner
  <2>4. ThreadFits(t)' /\ ContextFits(c)'
    BY <1>q, <1>t, <2>1, <2>2, <2>3 DEF ThreadFits, ContextFits, goto, TypeOK
  <2>5. \A j \in Conns : j # c => SameBuffer(j) /\ (posted'[j] > 0 => posted[j] > 0)
    BY <1>3, <1>t, <2>1, <2>c DEF PostRecv, Post, SameBuffer, TypeOK
  <2>6. \A u \in Threads : u # t => c \notin Touches(u)
    BY <1>t, <2>1, <2>c DEF OneOwner
  <2> QED
    BY <1>q, <2>1, <2>4, <2>5, <2>6, FitsOfThread
<1>4. CASE PostAccept(t)
  <2>1. /\ pc[t] = "repost" /\ goto(t, "wait", NULL) /\ job[t] \in Accepts
        /\ m_sockAccept' = [m_sockAccept EXCEPT ![job[t]] = NULL]
        /\ \A j \in Conns : SameBuffer(j) /\ posted'[j] = posted[j]
    BY <1>4, <1>t DEF PostAccept, Post, buffer, SameBuffer, TypeOK
  <2>2. \A u \in Threads : u # t /\ pc[u] \in {"run", "send"} => job[u] # job[t]
    BY <1>t, <2>1 DEF OneOwner, Touches
  <2>3. \A u \in Threads : u # t /\ pc[u] \in {"run", "send"} =>
          Client(u)' = Client(u) /\ Client(u) \in Conns
    BY <1>t, <2>1, <2>2 DEF goto, Client, TypeOK
  <2>4. \A u \in Threads : u # t => ThreadFits(u)'
    BY <1>t, <2>1, <2>3, ThreadStillFits DEF goto, Fits, TypeOK
  <2>5. ThreadFits(t)'
    BY <1>t, <2>1 DEF ThreadFits, goto, TypeOK
  <2>6. \A j \in Conns : ContextFits(j)'
    BY <1>q, <2>1, ContextStillFits DEF Fits
  <2> QED
    BY <2>4, <2>5, <2>6 DEF Fits
<1> QED
  BY <1>1, <1>2, <1>3, <1>4

LEMMA StepFits ==
  ASSUME "partial" \notin Faults, IInv, Fits, [Next]_vars
  PROVE  Fits'
<1>1. CASE UNCHANGED vars
  <2>1. UNCHANGED <<buffer, m_sockAccept, pc, job, posted, queue>>
    BY <1>1 DEF vars
  <2>2. \A u \in Threads : Client(u)' = Client(u)
    BY <2>1 DEF Client
  <2>3. \A u \in Threads : ThreadFits(u)'
    BY <2>1, <2>2, ThreadStillFits DEF IInv, Fits, SameBuffer, buffer
  <2>4. \A j \in Conns : ContextFits(j)'
    BY <2>1, ContextStillFits DEF Fits, SameBuffer, buffer
  <2> QED
    BY <2>3, <2>4 DEF Fits
<1>2. CASE Sockets \/ \E k \in Conns : Connect(k) \/ Send(k) \/ Leave(k)
  BY <1>2, FitsOfSockets
<1>3. ASSUME NEW t \in Threads,
             HandleError(t) \/ ClientLeft(t) \/ RecvDone(t) \/ SendDone(t) \/ AcceptDone(t)
      PROVE  Fits'
  BY <1>3, FitsOfPackets
<1>4. ASSUME NEW t \in Threads,
             \/ DoFirstRecvWithData(t) \/ DoFirstRecvWithoutData(t) \/ RunClient(t)
             \/ PostWrite(t) \/ PostRecv(t) \/ PostAccept(t)
      PROVE  Fits'
  BY <1>4, FitsOfHandlers
<1> QED
  BY <1>1, <1>2, <1>3, <1>4 DEF Next, WorkerThread

(* When every send that succeeds sends the whole reply, what Run handles   *)
(* is always a request: the counters of a context never carry over from    *)
(* one reply to the next.  With partial sends it is false: SendDone goes   *)
(* back to PostWrite, which runs the business first.                       *)
THEOREM RequestsOnly ==
  ASSUME "partial" \notin Faults
  PROVE  Spec => []RunIsGivenARequest
<1>1. Init => Fits
  BY InitFits
<1>2. IInv /\ Fits /\ [Next]_vars => Fits'
  BY StepFits
<1>3. Fits => RunIsGivenARequest
  BY DEF Fits, ThreadFits, RunIsGivenARequest
<1> QED
  BY <1>1, <1>2, <1>3, Invariance, PTL DEF Spec

-----------------------------------------------------------------------------
(* The client whose connection context x is about.                         *)
ClientOf(x) == IF x \in Accepts THEN m_sockAccept[x] ELSE x

(* A thread handles an accept without data only when the client has left,  *)
(* and replies are not empty.                                              *)
ThreadKnows(t) ==
  /\ pc[t] = "nodata" => peer[Client(t)] = "closed"
  /\ pc[t] = "send" => m_nTotalBytes[Client(t)] > 0

(* A packet without data says that the client has left, and how.           *)
PacketTellsTruth(p) ==
  /\ p.error # "other"
  /\ p.error = "netname" => peer[ClientOf(p.io)] = "reset"
  /\ p.error = "none" /\ p.bytes = 0 => peer[ClientOf(p.io)] = "closed"

(* Known to be gone, waited for, or being served.                          *)
Remembered(k) ==
  peer[k] = "open" =>
    \/ k \in backlog
    \/ \E a \in Accepts : m_sockAccept[a] = k /\ Accepting(a)
    \/ InPlay(k)

Truths ==
  /\ \A t \in Threads : ThreadKnows(t)
  /\ \A p \in queue : PacketTellsTruth(p)
  /\ \A k \in Conns : posted[k] > 0 /\ m_OpType[k] = "SEND" => m_nTotalBytes[k] > 0

Service ==
  /\ \A k \in Conns : Remembered(k)
  /\ AcceptLostToReset

LEMMA InitService == Init => Truths /\ Service
<1> SUFFICES ASSUME Init PROVE Truths /\ Service
  OBVIOUS
<1> USE IocpAssumption DEF Init, Contexts
<1>1. Truths
  BY DEF Truths, ThreadKnows
<1>2. Service
  BY DEF Service, Remembered, AcceptLostToReset, InPlay
<1> QED
  BY <1>1, <1>2

(* A client that has left stays so.                                        *)
LEMMA GoneForGood ==
  ASSUME TypeOK, [Next]_vars, NEW k \in Conns, peer[k] \in {"closed", "reset"}
  PROVE  peer'[k] = peer[k]
<1>1. CASE UNCHANGED vars
  BY <1>1 DEF vars, clients
<1>2. ASSUME NEW j \in Conns, Connect(j) \/ Send(j) \/ Leave(j) PROVE peer'[k] = peer[k]
  BY <1>2 DEF Connect, Send, Leave, TypeOK
<1>3. CASE Sockets
  BY <1>3 DEF Sockets, CompleteAccept, TakeClient, CompleteRecv, CompleteSend, clients
<1>4. ASSUME NEW t \in Threads, WorkerThread(t) PROVE peer'[k] = peer[k]
  BY <1>4 DEF WorkerThread, HandleError, ClientLeft, RecvDone, SendDone, AcceptDone,
     DoFirstRecvWithData, DoFirstRecvWithoutData, RunClient, PostWrite, PostRecv, PostAccept, clients
<1> QED
  BY <1>1, <1>2, <1>3, <1>4 DEF Next

(* A packet stays true while the accept it is about keeps its client.      *)
LEMMA PacketStaysTrue ==
  ASSUME TypeOK, PacketsNameTheirClient, [Next]_vars, NEW p \in queue, PacketTellsTruth(p),
         p.io \in Accepts => m_sockAccept'[p.io] = m_sockAccept[p.io]
  PROVE  PacketTellsTruth(p)'
<1>1. ClientOf(p.io) \in Conns /\ ClientOf(p.io)' = ClientOf(p.io)
  BY DEF ClientOf, TypeOK, Packets, Contexts, PacketsNameTheirClient
<1>2. PICK k \in Conns : k = ClientOf(p.io) /\ k = ClientOf(p.io)'
  BY <1>1
<1>3. peer[k] \in {"closed", "reset"} => peer'[k] = peer[k]
  BY GoneForGood
<1> QED
  BY <1>2, <1>3 DEF PacketTellsTruth

(* A thread that does not move keeps what it knows.                        *)
LEMMA ThreadStillKnows ==
  ASSUME TypeOK, [Next]_vars, NEW u \in Threads, ThreadKnows(u), pc'[u] = pc[u],
         pc[u] \in {"nodata", "send"} => Client(u)' = Client(u),
         pc[u] = "send" => m_nTotalBytes'[Client(u)] = m_nTotalBytes[Client(u)]
  PROVE  ThreadKnows(u)'
<1>1. CASE pc[u] \in {"nodata", "send"}
  <2>1. PICK k \in Conns : k = Client(u) /\ k = Client(u)'
    BY <1>1 DEF TypeOK
  <2>2. peer[k] \in {"closed", "reset"} => peer'[k] = peer[k]
    BY GoneForGood
  <2> QED
    BY <1>1, <2>1, <2>2 DEF ThreadKnows
<1>2. CASE pc[u] \notin {"nodata", "send"}
  BY <1>2 DEF ThreadKnows
<1> QED
  BY <1>1, <1>2

LEMMA TruthsOfSockets ==
  ASSUME "abort" \notin Faults, IInv, Truths,
         Sockets \/ \E k \in Conns : Connect(k) \/ Send(k) \/ Leave(k)
  PROVE  Truths'
<1> USE IocpAssumption DEF Contexts
<1>t. TypeOK /\ OneOwner /\ PacketsNameTheirClient /\ [Next]_vars
  BY DEF IInv, Next
<1>1. ASSUME NEW k \in Conns, Connect(k) \/ Send(k) \/ Leave(k) PROVE Truths'
  <2>1. UNCHANGED <<buffer, m_sockAccept, pc, job, posted, queue>>
    BY <1>1 DEF Connect, Send, Leave
  <2>2. \A u \in Threads : Client(u)' = Client(u)
    BY <2>1 DEF Client
  <2>3. \A u \in Threads : ThreadKnows(u)'
    BY <1>t, <2>1, <2>2, ThreadStillKnows DEF Truths, buffer
  <2>4. \A p \in queue : PacketTellsTruth(p)'
    BY <1>t, <2>1, PacketStaysTrue DEF Truths
  <2> QED
    BY <2>1, <2>3, <2>4 DEF Truths, buffer
<1>2. ASSUME NEW a \in Accepts, NEW k \in Conns, TakeClient(a, k) PROVE Truths'
  <2>1. /\ UNCHANGED <<buffer, pc, job, posted, queue>>
        /\ m_sockAccept' = [m_sockAccept EXCEPT ![a] = k]
        /\ posted[a] > 0
    BY <1>2 DEF TakeClient
  <2>2. \A u \in Threads : pc[u] \in {"nodata", "run", "send"} => job[u] # a
    BY <1>t, <2>1 DEF OneOwner, Touches, TypeOK
  <2>3. \A u \in Threads : pc[u] \in {"nodata", "send"} => Client(u)' = Client(u)
    BY <1>t, <2>1, <2>2 DEF Client, TypeOK
  <2>4. \A u \in Threads : ThreadKnows(u)'
    BY <1>t, <2>1, <2>3, ThreadStillKnows DEF Truths, buffer
  <2>5. \A p \in queue : p.io # a
    BY <1>t, <2>1 DEF OneOwner
  <2>6. \A p \in queue : PacketTellsTruth(p)'
    BY <1>t, <2>1, <2>5, PacketStaysTrue DEF Truths, TypeOK
  <2> QED
    BY <2>1, <2>4, <2>6 DEF Truths, buffer
<1>3. ASSUME NEW x \in Contexts, NEW n, NEW e, Complete(x, n, e),
             UNCHANGED <<pc, job, m_sockAccept, peer, m_OpType, m_nTotalBytes>>,
             PacketTellsTruth(Packet(x, n, e))
      PROVE  Truths'
  <2>1. /\ posted' = [posted EXCEPT ![x] = @ - 1]
        /\ queue' = queue \cup {Packet(x, n, e)}
    BY <1>3 DEF Complete
  <2>2. \A u \in Threads : Client(u)' = Client(u)
    BY <1>3 DEF Client
  <2>3. \A u \in Threads : ThreadKnows(u)'
    BY <1>t, <1>3, <2>2, ThreadStillKnows DEF Truths
  <2>4. \A p \in queue : PacketTellsTruth(p)'
    BY <1>t, <1>3, PacketStaysTrue DEF Truths
  <2>5. PacketTellsTruth(Packet(x, n, e))'
    BY <1>3 DEF PacketTellsTruth, ClientOf
  <2>6. \A p \in queue' : PacketTellsTruth(p)'
    BY <2>1, <2>4, <2>5
  <2>7. (\A k \in Conns : posted[k] > 0 /\ m_OpType[k] = "SEND" => m_nTotalBytes[k] > 0)'
    BY <1>t, <1>3, <2>1 DEF Truths, TypeOK
  <2> QED
    BY <2>3, <2>6, <2>7 DEF Truths
<1>4. ASSUME NEW x \in Contexts, NEW k \in Conns, Receive(x, k), k = ClientOf(x),
             UNCHANGED <<pc, job, m_sockAccept, peer, m_OpType, m_nTotalBytes>>
      PROVE  Truths'
  <2>1. PICK n, e : /\ Complete(x, n, e)
                    /\ \/ n > 0 /\ e = "none"
                       \/ e = "none" /\ peer[k] = "closed"
                       \/ e = "netname" /\ peer[k] = "reset"
    BY <1>4 DEF Receive
  <2>2. PacketTellsTruth(Packet(x, n, e))
    BY <1>4, <2>1 DEF PacketTellsTruth, Packet
  <2> QED
    BY <1>3, <1>4, <2>1, <2>2
<1>5. ASSUME NEW a \in Accepts, CompleteAccept(a) PROVE Truths'
  <2>1. m_sockAccept[a] \in Conns /\ m_sockAccept[a] = ClientOf(a)
    BY <1>5, <1>t DEF CompleteAccept, ClientOf, TypeOK
  <2> QED
    BY <1>4, <1>5, <2>1 DEF CompleteAccept, buffer
<1>6. ASSUME NEW k \in Conns, CompleteRecv(k) PROVE Truths'
  <2>1. k = ClientOf(k)
    BY DEF ClientOf
  <2> QED
    BY <1>4, <1>6, <2>1 DEF CompleteRecv
<1>7. ASSUME NEW k \in Conns, CompleteSend(k) PROVE Truths'
  <2>1. PICK n, e : /\ Complete(k, n, e)
                    /\ \/ e = "none" /\ (n = m_nTotalBytes[k] \/ n > 0)
                       \/ e = "netname" /\ peer[k] = "reset"
    BY <1>7, <1>t DEF CompleteSend, TypeOK
  <2>2. posted[k] > 0 /\ m_OpType[k] = "SEND"
    BY <1>7, <2>1 DEF CompleteSend, Complete
  <2>3. m_nTotalBytes[k] > 0
    BY <2>2 DEF Truths
  <2>4. PacketTellsTruth(Packet(k, n, e))
    BY <2>1, <2>3 DEF PacketTellsTruth, Packet, ClientOf
  <2> QED
    BY <1>3, <1>7, <2>1, <2>4 DEF CompleteSend, buffer, clients
<1> QED
  BY <1>1, <1>2, <1>5, <1>6, <1>7 DEF Sockets

LEMMA TruthsOfPackets ==
  ASSUME IInv, Truths, NEW t \in Threads,
         HandleError(t) \/ ClientLeft(t) \/ RecvDone(t) \/ SendDone(t) \/ AcceptDone(t)
  PROVE  Truths'
<1> USE IocpAssumption DEF Contexts
<1>t. TypeOK /\ OneOwner /\ PacketsNameTheirClient /\ [Next]_vars
  BY DEF IInv, Next, WorkerThread
<1>q. /\ UNCHANGED <<posted, m_sockAccept, peer, m_OpType>>
      /\ queue' \subseteq queue
  BY DEF HandleError, ClientLeft, RecvDone, SendDone, AcceptDone, Dequeue, Transferred,
       buffer, clients
<1>1. PICK p \in queue :
        /\ pc[t] = "wait"
        /\ \/ UNCHANGED <<pc, job>>
           \/ \E there \in {"wait", "exited", "run", "recv", "data"} : \E x : goto(t, there, x)
           \/ goto(t, "nodata", p.io) /\ p.io \in Accepts /\ p.error = "none" /\ ~(p.bytes > 0)
        /\ m_nTotalBytes' = m_nTotalBytes \/ m_nTotalBytes' = [m_nTotalBytes EXCEPT ![p.io] = p.bytes]
  BY DEF HandleError, ClientLeft, RecvDone, SendDone, AcceptDone, Dequeue, Transferred, buffer
<1>2. \A k \in Conns : k # p.io => m_nTotalBytes'[k] = m_nTotalBytes[k]
  BY <1>1, <1>t DEF TypeOK
<1>3. ThreadKnows(t)'
  <2>1. CASE goto(t, "nodata", p.io) /\ p.io \in Accepts /\ p.error = "none" /\ ~(p.bytes > 0)
    <3>1. Client(t)' = m_sockAccept[p.io] /\ pc'[t] = "nodata"
      BY <2>1, <1>q, <1>t DEF goto, Client, TypeOK
    <3>2. p.bytes = 0
      BY <2>1, <1>t DEF TypeOK, Packets
    <3>3. peer[m_sockAccept[p.io]] = "closed"
      BY <2>1, <3>2 DEF Truths, PacketTellsTruth, ClientOf
    <3> QED
      BY <1>q, <3>1, <3>3 DEF ThreadKnows
  <2>2. CASE pc'[t] \notin {"nodata", "send"}
    BY <2>2 DEF ThreadKnows
  <2> QED
    BY <1>1, <1>t, <2>1, <2>2 DEF goto, TypeOK
<1>4. ASSUME NEW u \in Threads, u # t PROVE ThreadKnows(u)'
  <2>1. pc'[u] = pc[u] /\ Client(u)' = Client(u)
    BY <1>1, <1>4, <1>q, <1>t DEF goto, Client, TypeOK
  <2>2. pc[u] = "send" => Client(u) \in Conns /\ Client(u) # p.io
    BY <1>t DEF TypeOK, OneOwner, Touches
  <2> QED
    BY <1>t, <1>2, <2>1, <2>2, ThreadStillKnows DEF Truths
<1>5. \A q \in queue' : PacketTellsTruth(q)'
  BY <1>q, <1>t, PacketStaysTrue DEF Truths
<1>6. (\A k \in Conns : posted[k] > 0 /\ m_OpType[k] = "SEND" => m_nTotalBytes[k] > 0)'
  BY <1>q, <1>2, <1>t DEF Truths, OneOwner
<1> QED
  BY <1>3, <1>4, <1>5, <1>6 DEF Truths

LEMMA TruthsOfHandlers ==
  ASSUME IInv, Truths, NEW t \in Threads,
         \/ DoFirstRecvWithData(t) \/ DoFirstRecvWithoutData(t) \/ RunClient(t)
         \/ PostWrite(t) \/ PostRecv(t) \/ PostAccept(t)
  PROVE  Truths'
<1> USE IocpAssumption DEF Contexts
<1>t. TypeOK /\ OneOwner /\ ClientsMoveOn /\ PacketsNameTheirClient /\ [Next]_vars
  BY DEF IInv, Next, WorkerThread
<1>q. UNCHANGED queue
  BY DEF DoFirstRecvWithData, DoFirstRecvWithoutData, RunClient, PostWrite, PostRecv, PostAccept
<1>1. CASE DoFirstRecvWithData(t) \/ DoFirstRecvWithoutData(t)
  <2>1. /\ pc[t] \in {"data", "nodata"}
        /\ UNCHANGED <<posted, m_sockAccept, m_nTotalBytes>>
        /\ Client(t) \in Conns /\ job[t] \in Accepts
    BY <1>1, <1>t DEF DoFirstRecvWithData, DoFirstRecvWithoutData, TypeOK
  <2>2. Untouched(Client(t))
    BY <1>t, <2>1 DEF ClientsMoveOn, Accepting, Client, TypeOK
  <2>3. \E there \in {"run", "repost"} : goto(t, there, job[t])
    BY <1>1 DEF DoFirstRecvWithData, DoFirstRecvWithoutData
  <2>4. ThreadKnows(t)'
    BY <1>t, <2>3 DEF ThreadKnows, goto, TypeOK
  <2>5. \A u \in Threads : u # t => ThreadKnows(u)'
    <3>1. \A u \in Threads : u # t => pc'[u] = pc[u] /\ Client(u)' = Client(u)
      BY <1>t, <2>1, <2>3 DEF goto, Client, TypeOK
    <3> QED
      BY <1>t, <2>1, <3>1, ThreadStillKnows DEF Truths
  <2>6. \A q \in queue' : PacketTellsTruth(q)'
    BY <1>q, <1>t, <2>1, PacketStaysTrue DEF Truths
  <2>7. \A k \in Conns : k # Client(t) => m_OpType'[k] = m_OpType[k]
    BY <1>1, <1>t, <2>1 DEF DoFirstRecvWithData, DoFirstRecvWithoutData, TypeOK
  <2>8. (\A k \in Conns : posted[k] > 0 /\ m_OpType[k] = "SEND" => m_nTotalBytes[k] > 0)'
    BY <1>t, <2>1, <2>2, <2>7 DEF Truths, Untouched
  <2> QED
    BY <2>4, <2>5, <2>6, <2>8 DEF Truths
<1>2. CASE RunClient(t)
  <2>1. /\ pc[t] = "run" /\ goto(t, "send", job[t])
        /\ UNCHANGED <<posted, m_sockAccept>>
        /\ Client(t) \in Conns /\ Client(t) \in Touches(t)
    BY <1>2, <1>t DEF RunClient, TypeOK, Touches
  <2>2. /\ m_nTotalBytes'[Client(t)] > 0
        /\ \A k \in Conns : k # Client(t) =>
             m_nTotalBytes'[k] = m_nTotalBytes[k] /\ m_OpType'[k] = m_OpType[k]
    BY <1>2, <1>t, <2>1 DEF RunClient, TypeOK
  <2>3. \A u \in Threads : Client(u)' = Client(u)
    BY <1>t, <2>1 DEF goto, Client, TypeOK
  <2>4. ThreadKnows(t)'
    BY <1>t, <2>1, <2>2, <2>3 DEF ThreadKnows, goto, TypeOK
  <2>5. \A u \in Threads : u # t => ThreadKnows(u)'
    <3>1. \A u \in Threads : u # t =>
            pc'[u] = pc[u] /\ (pc[u] = "send" => Client(u) \in Conns /\ Client(u) # Client(t))
      BY <1>t, <2>1 DEF goto, TypeOK, OneOwner, Touches
    <3> QED
      BY <1>t, <2>2, <2>3, <3>1, ThreadStillKnows DEF Truths
  <2>6. \A q \in queue' : PacketTellsTruth(q)'
    BY <1>q, <1>t, <2>1, PacketStaysTrue DEF Truths
  <2>7. (\A k \in Conns : posted[k] > 0 /\ m_OpType[k] = "SEND" => m_nTotalBytes[k] > 0)'
    BY <1>t, <2>1, <2>2 DEF Truths
  <2> QED
    BY <2>4, <2>5, <2>6, <2>7 DEF Truths
<1>3. CASE PostWrite(t)
  <2>1. /\ pc[t] = "send" /\ (goto(t, "repost", job[t]) \/ goto(t, "wait", NULL))
        /\ UNCHANGED <<m_sockAccept, m_OpType, m_nTotalBytes>>
        /\ Client(t) \in Conns
        /\ \A k \in Conns : k # Client(t) => posted'[k] = posted[k]
    BY <1>3, <1>t DEF PostWrite, Post, buffer, TypeOK
  <2>2. ThreadKnows(t)'
    BY <1>t, <2>1 DEF ThreadKnows, goto, TypeOK
  <2>3. \A u \in Threads : u # t => ThreadKnows(u)'
    <3>1. \A u \in Threads : u # t => pc'[u] = pc[u] /\ Client(u)' = Client(u)
      BY <1>t, <2>1 DEF goto, Client, TypeOK
    <3> QED
      BY <1>t, <2>1, <3>1, ThreadStillKnows DEF Truths
  <2>4. \A q \in queue' : PacketTellsTruth(q)'
    BY <1>q, <1>t, <2>1, PacketStaysTrue DEF Truths
  <2>5. m_nTotalBytes[Client(t)] > 0
    BY <2>1 DEF Truths, ThreadKnows
  <2>6. (\A k \in Conns : posted[k] > 0 /\ m_OpType[k] = "SEND" => m_nTotalBytes[k] > 0)'
    BY <2>1, <2>5 DEF Truths
  <2> QED
    BY <2>2, <2>3, <2>4, <2>6 DEF Truths
<1>4. CASE PostRecv(t)
  <2>1. /\ pc[t] = "recv" /\ goto(t, "wait", NULL) /\ UNCHANGED m_sockAccept
        /\ job[t] \in Conns /\ Touches(t) = {job[t]}
        /\ m_OpType'[job[t]] = "RECV"
        /\ \A k \in Conns : k # job[t] =>
             /\ posted'[k] = posted[k] /\ m_OpType'[k] = m_OpType[k]
             /\ m_nTotalBytes'[k] = m_nTotalBytes[k]
    BY <1>4, <1>t DEF PostRecv, Post, Touches, TypeOK
  <2>2. ThreadKnows(t)'
    BY <1>t, <2>1 DEF ThreadKnows, goto, TypeOK
  <2>3. \A u \in Threads : u # t => ThreadKnows(u)'
    <3>1. \A u \in Threads : u # t =>
            /\ pc'[u] = pc[u] /\ Client(u)' = Client(u)
            /\ pc[u] = "send" => Client(u) \in Conns /\ Client(u) # job[t]
      BY <1>t, <2>1 DEF goto, Client, TypeOK, OneOwner, Touches
    <3> QED
      BY <1>t, <2>1, <3>1, ThreadStillKnows DEF Truths
  <2>4. \A q \in queue' : PacketTellsTruth(q)'
    BY <1>q, <1>t, <2>1, PacketStaysTrue DEF Truths
  <2>5. (\A k \in Conns : posted[k] > 0 /\ m_OpType[k] = "SEND" => m_nTotalBytes[k] > 0)'
    BY <2>1 DEF Truths
  <2> QED
    BY <2>2, <2>3, <2>4, <2>5 DEF Truths
<1>5. CASE PostAccept(t)
  <2>1. /\ pc[t] = "repost" /\ goto(t, "wait", NULL) /\ job[t] \in Accepts
        /\ m_sockAccept' = [m_sockAccept EXCEPT ![job[t]] = NULL]
        /\ UNCHANGED <<m_OpType, m_nTotalBytes>>
        /\ \A k \in Conns : posted'[k] = posted[k]
        /\ Touches(t) = {job[t]}
    BY <1>5, <1>t DEF PostAccept, Post, Touches, buffer, TypeOK
  <2>2. ThreadKnows(t)'
    BY <1>t, <2>1 DEF ThreadKnows, goto, TypeOK
  <2>3. \A u \in Threads : u # t => ThreadKnows(u)'
    <3>1. \A u \in Threads : u # t /\ pc[u] \in {"nodata", "send"} => job[u] # job[t]
      BY <1>t, <2>1 DEF OneOwner, Touches
    <3>2. \A u \in Threads : u # t =>
            pc'[u] = pc[u] /\ (pc[u] \in {"nodata", "send"} => Client(u)' = Client(u))
      BY <1>t, <2>1, <3>1 DEF goto, Client, TypeOK
    <3> QED
      BY <1>t, <2>1, <3>2, ThreadStillKnows DEF Truths
  <2>4. \A q \in queue : q.io # job[t]
    BY <1>t, <2>1 DEF OneOwner
  <2>5. \A q \in queue' : PacketTellsTruth(q)'
    BY <1>q, <1>t, <2>1, <2>4, PacketStaysTrue DEF Truths, TypeOK
  <2>6. (\A k \in Conns : posted[k] > 0 /\ m_OpType[k] = "SEND" => m_nTotalBytes[k] > 0)'
    BY <2>1 DEF Truths
  <2> QED
    BY <2>2, <2>3, <2>5, <2>6 DEF Truths
<1> QED
  BY <1>1, <1>2, <1>3, <1>4, <1>5

-----------------------------------------------------------------------------
(* A step that moves no client keeps the service if what it takes out of   *)
(* play belongs to a client that has left.                                 *)
LEMMA ServiceKept ==
  ASSUME TypeOK, Service, UNCHANGED <<peer, backlog, m_sockAccept>>,
         \A k \in Conns : InPlay(k) => InPlay(k)' \/ peer[k] # "open",
         \A a \in Accepts : InPlay(a) =>
           InPlay(a)' \/ (m_sockAccept[a] # NULL /\ peer[m_sockAccept[a]] = "reset"),
         \A a \in Accepts : Accepting(a) /\ m_sockAccept[a] # NULL =>
           \/ Accepting(a)' \/ peer[m_sockAccept[a]] # "open"
           \/ \E k \in Conns : k = m_sockAccept[a] /\ InPlay(k)'
  PROVE  Service'
<1>1. \A a \in Accepts : InPlay(a)' \/ LostToReset(a)'
  BY DEF Service, AcceptLostToReset, LostToReset
<1>2. ASSUME NEW k \in Conns, peer[k] = "open"
      PROVE  k \in backlog \/ (\E a \in Accepts : m_sockAccept[a] = k /\ Accepting(a)') \/ InPlay(k)'
  <2>1. CASE k \in backlog \/ InPlay(k)
    BY <1>2, <2>1
  <2>2. ASSUME NEW a \in Accepts, m_sockAccept[a] = k, Accepting(a)
        PROVE  (\E b \in Accepts : m_sockAccept[b] = k /\ Accepting(b)') \/ InPlay(k)'
    BY <1>2, <2>2, IocpAssumption DEF Contexts
  <2> QED
    BY <1>2, <2>1, <2>2 DEF Service, Remembered
<1>3. \A k \in Conns : Remembered(k)'
  BY <1>2 DEF Remembered
<1> QED
  BY <1>1, <1>3 DEF Service, AcceptLostToReset

LEMMA ServiceOfSockets ==
  ASSUME IInv, Service, Sockets \/ \E k \in Conns : Connect(k) \/ Send(k) \/ Leave(k)
  PROVE  Service'
<1> USE IocpAssumption DEF Contexts
<1>t. TypeOK /\ OneOwner
  BY DEF IInv
<1>1. ASSUME NEW k \in Conns, Connect(k) \/ Send(k) \/ Leave(k) PROVE Service'
  <2>1. \A u \in Threads : Touches(u)' = Touches(u)
    BY <1>1, SameTouches DEF Connect, Send, Leave
  <2>2. UNCHANGED <<posted, queue, pc, job, m_sockAccept>>
    BY <1>1 DEF Connect, Send, Leave
  <2>3. \A x \in Contexts : (InPlay(x)' <=> InPlay(x)) /\ (Accepting(x)' <=> Accepting(x))
    BY <2>1, <2>2 DEF InPlay, Accepting
  <2>4. \A j \in Conns : peer'[j] = "open" => j \in backlog' \/ peer[j] = "open"
    BY <1>1, <1>t DEF Connect, Send, Leave, TypeOK
  <2>5. backlog \subseteq backlog' /\ \A j \in Conns : peer[j] = "reset" => peer'[j] = "reset"
    BY <1>1, <1>t DEF Connect, Send, Leave, TypeOK
  <2>6. \A j \in Conns : Remembered(j)'
    BY <2>2, <2>3, <2>4, <2>5 DEF Service, Remembered
  <2>7. \A a \in Accepts : InPlay(a)' \/ LostToReset(a)'
    BY <1>t, <2>2, <2>3, <2>5 DEF Service, AcceptLostToReset, LostToReset, TypeOK
  <2> QED
    BY <2>6, <2>7 DEF Service, AcceptLostToReset
<1>2. ASSUME NEW a \in Accepts, NEW k \in Conns, TakeClient(a, k) PROVE Service'
  <2>1. \A u \in Threads : a \notin Touches(u)
    BY <1>2, <1>t DEF TakeClient, OneOwner
  <2>2. \A u \in Threads : job[u] = a => Touches(u)' = Touches(u)
    BY <1>2, <1>t, <2>1 DEF TakeClient, Touches, TypeOK, PC
  <2>3. \A u \in Threads : job[u] # a => Touches(u)' = Touches(u)
    BY <1>2, <1>t, SameTouches DEF TakeClient, TypeOK
  <2>4. UNCHANGED <<posted, queue, pc, job, peer>> /\ posted[a] > 0 /\ m_sockAccept[a] = NULL
    BY <1>2 DEF TakeClient
  <2>5. \A x \in Contexts : (InPlay(x)' <=> InPlay(x)) /\ (Accepting(x)' <=> Accepting(x))
    BY <2>2, <2>3, <2>4 DEF InPlay, Accepting
  <2>6. m_sockAccept' = [m_sockAccept EXCEPT ![a] = k] /\ backlog' = backlog \ {k}
    BY <1>2 DEF TakeClient
  <2>7. InPlay(a)' /\ Accepting(a)'
    BY <2>4 DEF InPlay, Accepting
  <2>8. \A j \in Conns : Remembered(j)'
    BY <1>t, <2>4, <2>5, <2>6, <2>7 DEF Service, Remembered, TypeOK
  <2>9. \A b \in Accepts : InPlay(b)' \/ LostToReset(b)'
    BY <1>t, <2>4, <2>5, <2>6, <2>7 DEF Service, AcceptLostToReset, LostToReset, TypeOK
  <2> QED
    BY <2>8, <2>9 DEF Service, AcceptLostToReset
<1>3. ASSUME NEW x \in Contexts, NEW n, NEW e, Complete(x, n, e),
             UNCHANGED <<pc, job, m_sockAccept, peer, backlog>>
      PROVE  Service'
  <2>1. \A u \in Threads : Touches(u)' = Touches(u)
    BY <1>3, SameTouches
  <2>2. /\ \A y \in Contexts : y # x => posted'[y] = posted[y]
        /\ queue' = queue \cup {Packet(x, n, e)} /\ Packet(x, n, e).io = x
    BY <1>3, <1>t DEF Complete, Packet, TypeOK
  <2>3. \A y \in Contexts : (InPlay(y) => InPlay(y)') /\ (Accepting(y) => Accepting(y)')
    BY <1>3, <2>1, <2>2 DEF InPlay, Accepting
  <2> QED
    BY <1>3, <1>t, <2>3, ServiceKept
<1>4. ASSUME NEW a \in Accepts, CompleteAccept(a) PROVE Service'
  BY <1>3, <1>4 DEF CompleteAccept, Receive
<1>5. ASSUME NEW k \in Conns, CompleteRecv(k) PROVE Service'
  BY <1>3, <1>5 DEF CompleteRecv, Receive
<1>6. ASSUME NEW k \in Conns, CompleteSend(k) PROVE Service'
  BY <1>3, <1>6 DEF CompleteSend, clients
<1> QED
  BY <1>1, <1>2, <1>4, <1>5, <1>6 DEF Sockets

LEMMA ServiceOfPackets ==
  ASSUME IInv, Truths, Service, NEW t \in Threads,
         HandleError(t) \/ ClientLeft(t) \/ RecvDone(t) \/ SendDone(t) \/ AcceptDone(t)
  PROVE  Service'
<1> USE IocpAssumption DEF Contexts
<1>t. TypeOK /\ OneOwner /\ PacketsNameTheirClient
  BY DEF IInv
<1>q. UNCHANGED <<posted, m_sockAccept, peer, backlog>>
  BY DEF HandleError, ClientLeft, RecvDone, SendDone, AcceptDone, clients
<1>1. PICK p \in queue :
        /\ pc[t] = "wait" /\ queue' = queue \ {p}
        /\ \/ /\ UNCHANGED <<pc, job>> \/ goto(t, "wait", NULL) \/ goto(t, "exited", NULL)
              /\ \/ p.error \in {"netname", "other"}
                 \/ p.error = "none" /\ p.bytes = 0 /\ p.io \in Conns
           \/ p.io \in Conns /\ (goto(t, "run", p.io) \/ goto(t, "recv", p.io))
           \/ p.io \in Accepts /\ (goto(t, "data", p.io) \/ goto(t, "nodata", p.io))
  BY DEF HandleError, ClientLeft, RecvDone, SendDone, AcceptDone, Dequeue, Transferred
<1>2. Touches(t) = {}
  BY <1>1 DEF Touches
<1>3. \A u \in Threads : u # t => Touches(u)' = Touches(u)
  BY <1>1, <1>q, <1>t, OthersTouch, SameTouches
<1>4. \A x \in Contexts : x # p.io /\ InPlay(x) => InPlay(x)'
  BY <1>1, <1>2, <1>3, <1>q DEF InPlay
<1>5. \A a \in Accepts : a # p.io /\ Accepting(a) => Accepting(a)'
  BY <1>1, <1>q, <1>t DEF Accepting, goto, TypeOK
<1>6. CASE p.error \in {"netname", "other"} \/ (p.error = "none" /\ p.bytes = 0 /\ p.io \in Conns)
  <2>1. PacketTellsTruth(p)
    BY DEF Truths
  <2>2. p.io \in Conns => peer[p.io] \in {"reset", "closed"}
    BY <1>6, <2>1 DEF PacketTellsTruth, ClientOf
  <2>3. p.io \in Accepts => m_sockAccept[p.io] # NULL /\ peer[m_sockAccept[p.io]] = "reset"
    BY <1>6, <1>t, <2>1 DEF PacketTellsTruth, ClientOf, PacketsNameTheirClient
  <2> QED
    BY <1>4, <1>5, <1>q, <1>t, <2>2, <2>3, ServiceKept
<1>7. CASE p.io \in Conns /\ (goto(t, "run", p.io) \/ goto(t, "recv", p.io))
  <2>1. Touches(t)' = {p.io}
    BY <1>7, <1>t DEF goto, Touches, Client, TypeOK
  <2>2. InPlay(p.io)'
    BY <2>1 DEF InPlay
  <2> QED
    BY <1>4, <1>5, <1>7, <1>q, <1>t, <2>2, ServiceKept
<1>8. CASE p.io \in Accepts /\ (goto(t, "data", p.io) \/ goto(t, "nodata", p.io))
  <2>1. Touches(t)' = {p.io}
    BY <1>8, <1>t DEF goto, Touches, TypeOK
  <2>2. InPlay(p.io)' /\ Accepting(p.io)'
    BY <1>8, <1>t, <2>1 DEF InPlay, Accepting, goto, TypeOK
  <2> QED
    BY <1>4, <1>5, <1>8, <1>q, <1>t, <2>2, ServiceKept
<1> QED
  BY <1>1, <1>6, <1>7, <1>8

LEMMA ServiceOfHandlers ==
  ASSUME "post" \notin Faults, IInv, Truths, Service, NEW t \in Threads,
         \/ DoFirstRecvWithData(t) \/ DoFirstRecvWithoutData(t) \/ RunClient(t)
         \/ PostWrite(t) \/ PostRecv(t) \/ PostAccept(t)
  PROVE  Service'
<1> USE IocpAssumption DEF Contexts
<1>t. TypeOK /\ OneOwner /\ ClientsMoveOn
  BY DEF IInv
<1>q. UNCHANGED <<queue, peer, backlog>>
  BY DEF DoFirstRecvWithData, DoFirstRecvWithoutData, RunClient, PostWrite, PostRecv, PostAccept, clients
<1>1. CASE DoFirstRecvWithData(t) \/ DoFirstRecvWithoutData(t)
  <2>1. /\ pc[t] \in {"data", "nodata"} /\ UNCHANGED <<posted, m_sockAccept>>
        /\ job[t] \in Accepts /\ m_sockAccept[job[t]] = Client(t) /\ Touches(t) = {job[t]}
    BY <1>1, <1>t DEF DoFirstRecvWithData, DoFirstRecvWithoutData, Client, Touches, TypeOK
  <2>2. PICK k \in Conns : k = Client(t)
    BY <1>t, <2>1 DEF TypeOK
  <2>3. \/ goto(t, "run", job[t])
        \/ goto(t, "repost", job[t]) /\ peer[k] = "closed"
    BY <1>1, <2>2 DEF DoFirstRecvWithData, DoFirstRecvWithoutData, Truths, ThreadKnows
  <2>4. job[t] \in Touches(t)' /\ (goto(t, "run", job[t]) => k \in Touches(t)')
    BY <1>t, <2>1, <2>2, <2>3 DEF goto, Touches, Client, TypeOK
  <2>5. \A u \in Threads : u # t => Touches(u)' = Touches(u)
    BY <1>t, <2>1, <2>3, OthersTouch
  <2>6. \A x \in Contexts : InPlay(x) => InPlay(x)'
    BY <1>q, <2>1, <2>4, <2>5 DEF InPlay
  <2>7. \A a \in Accepts : a # job[t] /\ Accepting(a) => Accepting(a)'
    BY <1>q, <1>t, <2>1, <2>3 DEF Accepting, goto, TypeOK
  <2>8. InPlay(k)' \/ peer[k] # "open"
    BY <2>3, <2>4 DEF InPlay
  <2> QED
    BY <1>q, <1>t, <2>1, <2>2, <2>6, <2>7, <2>8, ServiceKept
<1>2. CASE RunClient(t)
  <2>1. UNCHANGED <<posted, m_sockAccept>> /\ goto(t, "send", job[t]) /\ pc[t] = "run"
    BY <1>2 DEF RunClient
  <2>2. Touches(t)' = Touches(t)
    BY <1>t, <2>1 DEF goto, Touches, Client, TypeOK
  <2>3. \A u \in Threads : Touches(u)' = Touches(u)
    BY <1>t, <2>1, <2>2, OthersTouch
  <2>4. \A x \in Contexts : (InPlay(x) => InPlay(x)') /\ (Accepting(x) => Accepting(x)')
    BY <1>q, <1>t, <2>1, <2>3 DEF InPlay, Accepting, goto, TypeOK
  <2> QED
    BY <1>q, <1>t, <2>1, <2>4, ServiceKept
<1>3. CASE PostWrite(t)
  <2>1. /\ pc[t] = "send" /\ UNCHANGED m_sockAccept
        /\ \/ job[t] \in Accepts /\ goto(t, "repost", job[t])
           \/ job[t] \notin Accepts /\ goto(t, "wait", NULL)
    BY <1>3 DEF PostWrite
  <2>2. PICK k \in Conns : k = Client(t)
    BY <1>t, <2>1 DEF TypeOK
  <2>3. posted' = [posted EXCEPT ![k] = @ + 1] /\ Touches(t) = {job[t], k}
    BY <1>3, <2>1, <2>2 DEF PostWrite, Post, Touches
  <2>4. \A x \in Contexts : posted[x] > 0 => posted'[x] > 0
    BY <1>t, <2>3 DEF TypeOK
  <2>5. posted'[k] > 0
    BY <1>t, <2>3 DEF TypeOK
  <2>6. \A u \in Threads : u # t => Touches(u)' = Touches(u)
    BY <1>t, <2>1, OthersTouch
  <2>7. job[t] \in Accepts => job[t] \in Touches(t)'
    BY <1>t, <2>1 DEF goto, Touches, TypeOK
  <2>8. job[t] \notin Accepts => job[t] = k
    BY <2>2 DEF Client
  <2>9. \A x \in Contexts : InPlay(x) => InPlay(x)'
    BY <1>q, <2>3, <2>4, <2>5, <2>6, <2>7, <2>8 DEF InPlay
  <2>10. \A a \in Accepts : Accepting(a) => Accepting(a)'
    BY <1>q, <1>t, <2>1, <2>4 DEF Accepting, goto, TypeOK
  <2> QED
    BY <1>q, <1>t, <2>1, <2>9, <2>10, ServiceKept
<1>4. CASE PostRecv(t)
  <2>1. /\ pc[t] = "recv" /\ UNCHANGED m_sockAccept /\ goto(t, "wait", NULL)
        /\ posted' = [posted EXCEPT ![job[t]] = @ + 1]
        /\ job[t] \in Conns /\ Touches(t) = {job[t]}
    BY <1>4, <1>t DEF PostRecv, Post, Touches, TypeOK
  <2>2. posted'[job[t]] > 0 /\ \A x \in Contexts : posted[x] > 0 => posted'[x] > 0
    BY <1>t, <2>1 DEF TypeOK
  <2>3. \A u \in Threads : u # t => Touches(u)' = Touches(u)
    BY <1>t, <2>1, OthersTouch
  <2>4. \A x \in Contexts : InPlay(x) => InPlay(x)'
    BY <1>q, <2>1, <2>2, <2>3 DEF InPlay
  <2>5. \A a \in Accepts : Accepting(a) => Accepting(a)'
    BY <1>q, <1>t, <2>1, <2>2 DEF Accepting, goto, TypeOK
  <2> QED
    BY <1>q, <1>t, <2>1, <2>4, <2>5, ServiceKept
<1>5. CASE PostAccept(t)
  <2>1. /\ pc[t] = "repost" /\ goto(t, "wait", NULL)
        /\ posted' = [posted EXCEPT ![job[t]] = @ + 1]
        /\ m_sockAccept' = [m_sockAccept EXCEPT ![job[t]] = NULL]
        /\ job[t] \in Accepts /\ Touches(t) = {job[t]}
    BY <1>5, <1>t DEF PostAccept, Post, Touches, TypeOK
  <2>2. PICK a \in Accepts : a = job[t]
    BY <2>1
  <2>3. posted'[a] > 0 /\ \A x \in Contexts : posted[x] > 0 => posted'[x] > 0
    BY <1>t, <2>1, <2>2 DEF TypeOK
  <2>4. \A u \in Threads : u # t /\ job[u] = a => pc[u] \notin PC \ {"wait", "exited"}
    BY <1>t, <2>1, <2>2 DEF OneOwner, Touches, PC
  <2>5. \A u \in Threads : u # t => job[u] # a
    BY <1>t, <2>4 DEF TypeOK
  <2>6. \A u \in Threads : u # t => Touches(u)' = Touches(u)
    BY <1>t, <2>1, <2>2, <2>5, SameTouches DEF goto, TypeOK
  <2>7. \A x \in Contexts : InPlay(x) => InPlay(x)'
    BY <1>q, <2>1, <2>2, <2>3, <2>6 DEF InPlay
  <2>8. \A b \in Accepts : b # a /\ Accepting(b) => Accepting(b)'
    BY <1>q, <1>t, <2>1, <2>2, <2>3 DEF Accepting, goto, TypeOK
  <2>9. ~Accepting(a)
    BY <1>t, <2>1, <2>2, <2>5 DEF Accepting, OneOwner
  <2>10. InPlay(a)'
    BY <2>3 DEF InPlay
  <2>11. \A b \in Accepts : b # a => m_sockAccept'[b] = m_sockAccept[b]
    BY <1>t, <2>1, <2>2 DEF TypeOK
  <2>12. \A k \in Conns : Remembered(k)'
    BY <1>q, <2>7, <2>8, <2>9, <2>11 DEF Service, Remembered
  <2>13. \A b \in Accepts : InPlay(b)' \/ LostToReset(b)'
    BY <1>q, <2>7, <2>10, <2>11 DEF Service, AcceptLostToReset, LostToReset
  <2> QED
    BY <2>12, <2>13 DEF Service, AcceptLostToReset
<1> QED
  BY <1>1, <1>2, <1>3, <1>4, <1>5

LEMMA StepService ==
  ASSUME "abort" \notin Faults, "post" \notin Faults, IInv, Truths, Service, [Next]_vars
  PROVE  Truths' /\ Service'
<1>1. CASE UNCHANGED vars
  <2>1. UNCHANGED <<buffer, m_sockAccept, pc, job, posted, queue, peer, backlog>>
    BY <1>1 DEF vars, clients
  <2>2. \A u \in Threads : Client(u)' = Client(u) /\ Touches(u)' = Touches(u)
    BY <2>1, SameTouches DEF Client
  <2>3. Truths'
    BY <2>1, <2>2 DEF Truths, ThreadKnows, PacketTellsTruth, ClientOf, buffer
  <2>4. \A x : (InPlay(x)' <=> InPlay(x)) /\ (Accepting(x)' <=> Accepting(x))
    BY <2>1, <2>2 DEF InPlay, Accepting
  <2>5. Service'
    BY <2>1, <2>4, ServiceKept DEF IInv
  <2> QED
    BY <2>3, <2>5
<1>2. CASE Sockets \/ \E k \in Conns : Connect(k) \/ Send(k) \/ Leave(k)
  BY <1>2, TruthsOfSockets, ServiceOfSockets
<1>3. ASSUME NEW t \in Threads,
             HandleError(t) \/ ClientLeft(t) \/ RecvDone(t) \/ SendDone(t) \/ AcceptDone(t)
      PROVE  Truths' /\ Service'
  BY <1>3, TruthsOfPackets, ServiceOfPackets
<1>4. ASSUME NEW t \in Threads,
             \/ DoFirstRecvWithData(t) \/ DoFirstRecvWithoutData(t) \/ RunClient(t)
             \/ PostWrite(t) \/ PostRecv(t) \/ PostAccept(t)
      PROVE  Truths' /\ Service'
  BY <1>4, TruthsOfHandlers, ServiceOfHandlers
<1> QED
  BY <1>1, <1>2, <1>3, <1>4 DEF Next, WorkerThread

(* Truths and Service are invariants of CIOCPModel when every operation    *)
(* can be posted and fails only because the client has reset.              *)
THEOREM ServiceInvariance ==
  ASSUME "abort" \notin Faults, "post" \notin Faults
  PROVE  Spec => [](Truths /\ Service)
<1>1. Init => Truths /\ Service
  BY InitService
<1>2. IInv /\ (Truths /\ Service) /\ [Next]_vars => (Truths /\ Service)'
  BY StepService
<1> QED
  BY <1>1, <1>2, Invariance, PTL DEF Spec

(* The accepts of the listen socket: each one is posted, completed, or in  *)
(* the hands of a thread that posts it again, unless its client has reset  *)
(* the connection; HandleError leaves that one out.                        *)
THEOREM AcceptsCorrect ==
  ASSUME "abort" \notin Faults, "post" \notin Faults
  PROVE  Spec => []AcceptLostToReset
<1>1. Truths /\ Service => AcceptLostToReset
  BY DEF Service
<1> QED
  BY <1>1, ServiceInvariance, PTL

(* A client that stays connected is never forgotten: an AcceptEx can take  *)
(* it, has taken it, or its own context receives, sends or is handled.     *)
THEOREM ServedCorrect ==
  ASSUME "abort" \notin Faults, "post" \notin Faults
  PROVE  Spec => []ClientServed
<1>1. IInv /\ Truths /\ Service => ClientServed
  <2>1. \A a \in Accepts : IInv /\ Accepting(a) => InPlay(a)
    BY DEF IInv, TypeOK, Accepting, InPlay, Touches
  <2> QED
    BY <2>1 DEF Service, Remembered, ClientServed
<1> QED
  BY <1>1, Invariance, ServiceInvariance, PTL
=============================================================================
