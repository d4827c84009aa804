----------------------------- MODULE IocpModel -----------------------------
(***************************************************************************)
(* CIOCPModel: worker threads take finished socket operations from one     *)
(* completion port.  MAX_POST_ACCEPT contexts of the listen socket wait    *)
(* for clients; each client gets a context of its own, with the buffer     *)
(* and the CClientParse object that serve it: receive a request, run it,   *)
(* send the reply, receive again.                                          *)
(*                                                                         *)
(* The actions from Connect to CompleteSend are the clients and Windows:   *)
(* the sockets and the port.  Run and GetReturnValue of CClientParse are   *)
(* one step here, see ClientParse; Start and Stop are ServerLifecycle.     *)
(* WAIT_TIMEOUT is left out: a wait without limit does not give it.        *)
(***************************************************************************)
EXTENDS Integers

CONSTANTS
  Threads,   \* the worker threads
  Accepts,   \* the PER_IO_CONTEXTs of the listen socket, MAX_POST_ACCEPT of them
  Conns,     \* the clients, each with the PER_IO_CONTEXT that serves it
  MaxReply,  \* bound on the bytes of a reply
  MaxInbox,  \* bound on the requests a client sends ahead
  Faults,    \* what may go wrong: see FaultKinds
  NULL

(* A client resets its connection; an operation ends with another error;   *)
(* an operation cannot be posted; a send stops after a part of the reply.  *)
FaultKinds == {"reset", "abort", "post", "partial"}

Contexts == Accepts \cup Conns

ASSUME IocpAssumption ==
  /\ Accepts \cap Conns = {}
  /\ NULL \notin Contexts
  /\ MaxReply \in Nat \ {0}
  /\ MaxInbox \in Nat \ {0}
  /\ Faults \subseteq FaultKinds

VARIABLES
  m_OpType,      \* of each client's context: SEND, RECV or NONE
  m_szBuffer,    \* what its buffer holds: nothing, a request or a reply
  m_nTotalBytes,
  m_nSendBytes,
  m_sockAccept,  \* the client on the socket of each accept context
  contexts,      \* the clients whose PER_SOCKET_CONTEXT exists
  m_arrayClientContext,
  pc, job,       \* of each thread: where it is, the context it handles
  posted,        \* how often each context is posted and not completed
  queue,         \* the packets of the completion port
  backlog,       \* connected clients that no AcceptEx has taken
  peer,          \* what each client does with its connection
  inbox          \* requests of each client that no receive has taken

buffer == <<m_OpType, m_szBuffer, m_nTotalBytes, m_nSendBytes>>
objects == <<contexts, m_arrayClientContext>>
clients == <<backlog, peer, inbox>>
vars == <<buffer, m_sockAccept, objects, pc, job, posted, queue, clients>>

(* After Start: the accepts are posted and the threads wait on the port.   *)
Init ==
  /\ m_OpType = [k \in Conns |-> "NONE"]
  /\ m_szBuffer = [k \in Conns |-> "empty"]
  /\ m_nTotalBytes = [k \in Conns |-> 0]
  /\ m_nSendBytes = [k \in Conns |-> 0]
  /\ m_sockAccept = [a \in Accepts |-> NULL]
  /\ contexts = {}
  /\ m_arrayClientContext = {}
  /\ pc = [t \in Threads |-> "wait"]
  /\ job = [t \in Threads |-> NULL]
  /\ posted = [x \in Contexts |-> IF x \in Accepts THEN 1 ELSE 0]
  /\ queue = {}
  /\ backlog = {}
  /\ peer = [k \in Conns |-> "none"]
  /\ inbox = [k \in Conns |-> 0]

-----------------------------------------------------------------------------
(* The clients                                                             *)
Connect(k) ==
  /\ peer[k] = "none"
  /\ peer' = [peer EXCEPT ![k] = "open"]
  /\ backlog' = backlog \cup {k}
  /\ UNCHANGED <<buffer, m_sockAccept, objects, pc, job, posted, queue, inbox>>

Send(k) ==
  /\ peer[k] = "open"
  /\ inbox[k] < MaxInbox
  /\ inbox' = [inbox EXCEPT ![k] = @ + 1]
  /\ UNCHANGED <<buffer, m_sockAccept, objects, pc, job, posted, queue, backlog, peer>>

Leave(k) ==
  /\ peer[k] = "open"
  /\ \E how \in {"closed", "reset"} :
       /\ how = "reset" => "reset" \in Faults
       /\ peer' = [peer EXCEPT ![k] = how]
  /\ UNCHANGED <<buffer, m_sockAccept, objects, pc, job, posted, queue, backlog, inbox>>

(* The sockets.  AcceptEx takes a client when it connects, but completes   *)
(* only when the client has sent something or has left.                    *)
TakeClient(a, k) ==
  /\ posted[a] > 0
  /\ m_sockAccept[a] = NULL
  /\ k \in backlog
  /\ m_sockAccept' = [m_sockAccept EXCEPT ![a] = k]
  /\ backlog' = backlog \ {k}
  /\ UNCHANGED <<buffer, objects, pc, job, posted, queue, peer, inbox>>

Packet(x, n, e) == [io |-> x, bytes |-> n, error |-> e]

(* A posted operation of x ends: its packet enters the port.               *)
Complete(x, n, e) ==
  /\ posted[x] > 0
  /\ posted' = [posted EXCEPT ![x] = @ - 1]
  /\ queue' = queue \cup {Packet(x, n, e)}

(* Receiving from k on context x, an accept or a receive.                  *)
Receive(x, k) ==
  \/ inbox[k] > 0 /\ Complete(x, inbox[k], "none") /\ inbox' = [inbox EXCEPT ![k] = 0]
  \/ inbox[k] = 0 /\ peer[k] = "closed" /\ Complete(x, 0, "none") /\ UNCHANGED inbox
  \/ peer[k] = "reset" /\ Complete(x, 0, "netname") /\ UNCHANGED inbox
  \/ "abort" \in Faults /\ Complete(x, 0, "other") /\ UNCHANGED inbox

CompleteAccept(a) ==
  /\ m_sockAccept[a] # NULL
  /\ Receive(a, m_sockAccept[a])
  /\ UNCHANGED <<buffer, m_sockAccept, objects, pc, job, backlog, peer>>

CompleteRecv(k) ==
  /\ m_OpType[k] = "RECV"
  /\ Receive(k, k)
  /\ m_szBuffer' = [m_szBuffer EXCEPT ![k] = IF inbox[k] > inbox'[k] THEN "request" ELSE @]
  /\ UNCHANGED <<m_OpType, m_nTotalBytes, m_nSendBytes, m_sockAccept, objects, pc, job,
                 backlog, peer>>

CompleteSend(k) ==
  /\ m_OpType[k] = "SEND"
  /\ \/ Complete(k, m_nTotalBytes[k], "none")
     \/ "partial" \in Faults /\ \E n \in 1 .. m_nTotalBytes[k] - 1 : Complete(k, n, "none")
     \/ peer[k] = "reset" /\ Complete(k, 0, "netname")
     \/ "abort" \in Faults /\ Complete(k, 0, "other")
  /\ UNCHANGED <<buffer, m_sockAccept, objects, pc, job, clients>>

-----------------------------------------------------------------------------
(* _WorkerThread: GetQueuedCompletionStatus returns packet p to thread t.  *)
Dequeue(t, p) ==
  /\ pc[t] = "wait"
  /\ p \in queue
  /\ queue' = queue \ {p}

goto(t, there, x) ==
  /\ pc' = [pc EXCEPT ![t] = there]
  /\ job' = [job EXCEPT ![t] = x]

(* _RemoveContext deletes what the list holds, which is nothing:           *)
(* _AddToContextList does not add.                                         *)
_AddToContextList(k) == UNCHANGED m_arrayClientContext

_RemoveContext(x) ==
  IF x \in m_arrayClientContext
  THEN /\ contexts' = contexts \ {x}
       /\ m_arrayClientContext' = m_arrayClientContext \ {x}
  ELSE UNCHANGED objects

(* HandleError: an error other than a lost peer ends the thread.           *)
HandleError(t) ==
  /\ \E p \in queue :
       /\ Dequeue(t, p)
       /\ \/ p.error = "netname" /\ goto(t, "wait", NULL) /\ _RemoveContext(p.io)
          \/ p.error = "other" /\ goto(t, "exited", NULL) /\ UNCHANGED objects
  /\ UNCHANGED <<buffer, m_sockAccept, posted, clients>>

(* Mutant: no bytes, whatever the operation was. *)
ClientLeftAny(t) ==
  /\ \E p \in queue :
       /\ Dequeue(t, p)
       /\ p.error = "none" /\ p.bytes = 0
       /\ _RemoveContext(p.io)
  /\ UNCHANGED <<buffer, m_sockAccept, pc, job, posted, clients>>

(* No bytes on a connection: the client has left.                          *)
ClientLeft(t) ==
  /\ \E p \in queue :
       /\ Dequeue(t, p)
       /\ p.error = "none" /\ p.bytes = 0 /\ p.io \in Conns
       /\ _RemoveContext(p.io)
  /\ UNCHANGED <<buffer, m_sockAccept, pc, job, posted, clients>>

(* An operation on the connection of a client has moved bytes.             *)
Transferred(t, p, op) ==
  /\ Dequeue(t, p)
  /\ p.error = "none" /\ p.bytes > 0 /\ p.io \in Conns
  /\ m_OpType[p.io] = op

RecvDone(t) ==
  /\ \E p \in queue :
       /\ Transferred(t, p, "RECV")
       /\ m_nTotalBytes' = [m_nTotalBytes EXCEPT ![p.io] = p.bytes]
       /\ m_nSendBytes' = [m_nSendBytes EXCEPT ![p.io] = 0]
       /\ goto(t, "run", p.io)
  /\ UNCHANGED <<m_OpType, m_szBuffer, m_sockAccept, objects, posted, clients>>

(* Mutants: the else of "not all sent" is lost; off by one; no receive is   *)
(* posted after the reply.                                                 *)
SendDoneBoth(t) ==
  /\ \E p \in queue :
       /\ Transferred(t, p, "SEND")
       /\ m_nSendBytes' = [m_nSendBytes EXCEPT ![p.io] = @ + p.bytes]
       /\ goto(t, "recv", p.io)
       /\ posted' = [posted EXCEPT ![p.io] =
                       IF m_nSendBytes'[p.io] < m_nTotalBytes[p.io] THEN @ + 1 ELSE @]
  /\ UNCHANGED <<m_OpType, m_szBuffer, m_nTotalBytes, m_sockAccept, objects, clients>>

SendDoneAtMost(t) ==
  /\ \E p \in queue :
       /\ Transferred(t, p, "SEND")
       /\ m_nSendBytes' = [m_nSendBytes EXCEPT ![p.io] = @ + p.bytes]
       /\ goto(t, IF m_nSendBytes'[p.io] <= m_nTotalBytes[p.io] THEN "run" ELSE "recv", p.io)
  /\ UNCHANGED <<m_OpType, m_szBuffer, m_nTotalBytes, m_sockAccept, objects, posted, clients>>

SendDoneStops(t) ==
  /\ \E p \in queue : Transferred(t, p, "SEND")
  /\ UNCHANGED <<buffer, m_sockAccept, objects, pc, job, posted, clients>>

(* A part of the reply is left: PostWrite, which runs the business first.  *)
SendDone(t) ==
  /\ \E p \in queue :
       /\ Transferred(t, p, "SEND")
       /\ m_nSendBytes' = [m_nSendBytes EXCEPT ![p.io] = @ + p.bytes]
       /\ goto(t, IF m_nSendBytes'[p.io] < m_nTotalBytes[p.io] THEN "run" ELSE "recv", p.io)
  /\ UNCHANGED <<m_OpType, m_szBuffer, m_nTotalBytes, m_sockAccept, objects, posted, clients>>

AcceptDone(t) ==
  /\ \E p \in queue :
       /\ Dequeue(t, p)
       /\ p.error = "none" /\ p.io \in Accepts
       /\ goto(t, IF p.bytes > 0 THEN "data" ELSE "nodata", p.io)
  /\ UNCHANGED <<buffer, m_sockAccept, objects, posted, clients>>

-----------------------------------------------------------------------------
(* The client thread t serves.                                             *)
Client(t) == IF job[t] \in Accepts THEN m_sockAccept[job[t]] ELSE job[t]

(* An operation on x is posted, or cannot be.                              *)
Post(x) ==
  \/ posted' = [posted EXCEPT ![x] = @ + 1]
  \/ "post" \in Faults /\ UNCHANGED posted

(* The first request of a client: its contexts are made, unless its socket *)
(* cannot be associated with the port.                                     *)
(* The m_nTotalBytes it gets is written again by RunClient before any use. *)
DoFirstRecvWithData(t) ==
  /\ pc[t] = "data"
  /\ LET k == Client(t)
     IN  \/ /\ contexts' = contexts \cup {k}
            /\ m_OpType' = [m_OpType EXCEPT ![k] = "SEND"]
            /\ m_szBuffer' = [m_szBuffer EXCEPT ![k] = "request"]
            /\ m_nSendBytes' = [m_nSendBytes EXCEPT ![k] = 0]
            /\ goto(t, "run", job[t])
         \/ /\ "post" \in Faults
            /\ goto(t, "repost", job[t])
            /\ UNCHANGED <<contexts, m_OpType, m_szBuffer, m_nSendBytes>>
  /\ UNCHANGED <<m_nTotalBytes, m_arrayClientContext, m_sockAccept, posted, queue, clients>>

(* Mutant: the failed receive ends the handler of the accept. *)
DoFirstRecvWithoutDataReturns(t) ==
  /\ pc[t] = "nodata"
  /\ contexts' = contexts \cup {Client(t)}
  /\ m_OpType' = [m_OpType EXCEPT ![Client(t)] = "RECV"]
  /\ goto(t, "wait", NULL)
  /\ UNCHANGED <<m_szBuffer, m_nTotalBytes, m_nSendBytes, m_arrayClientContext, m_sockAccept,
                 posted, queue, clients>>

(* A client that left without a word: the receive is posted on the socket  *)
(* of the new context, which was not set, and fails.                       *)
DoFirstRecvWithoutData(t) ==
  /\ pc[t] = "nodata"
  /\ LET k == Client(t)
     IN  \/ /\ contexts' = contexts \cup {k}
            /\ m_OpType' = [m_OpType EXCEPT ![k] = "RECV"]
         \/ "post" \in Faults /\ UNCHANGED <<contexts, m_OpType>>
  /\ goto(t, "repost", job[t])
  /\ UNCHANGED <<m_szBuffer, m_nTotalBytes, m_nSendBytes, m_arrayClientContext, m_sockAccept,
                 posted, queue, clients>>

(* PostWrite up to WSASend: Run handles what the buffer holds, and         *)
(* GetReturnValue writes the reply over it.  On the rest of a reply it     *)
(* clears as many bytes behind the buffer as were sent: m_nSendBytes may   *)
(* be among them (so may m_pClientParse, which is not modelled).           *)
RunClient(t) ==
  /\ pc[t] = "run"
  /\ \E n \in 1 .. MaxReply :
       m_nTotalBytes' = [m_nTotalBytes EXCEPT ![Client(t)] = n]
  /\ m_szBuffer' = [m_szBuffer EXCEPT ![Client(t)] = "reply"]
  /\ m_OpType' = [m_OpType EXCEPT ![Client(t)] = "SEND"]
  /\ \/ UNCHANGED m_nSendBytes
     \/ /\ m_szBuffer[Client(t)] = "reply"
        /\ m_nSendBytes' = [m_nSendBytes EXCEPT ![Client(t)] = 0]
  /\ goto(t, "send", job[t])
  /\ UNCHANGED <<m_sockAccept, objects, posted, queue, clients>>

(* Mutant: an accept is posted again after every request. *)
PostWriteReposts(t) ==
  /\ pc[t] = "send"
  /\ Post(Client(t))
  /\ _AddToContextList(Client(t))
  /\ goto(t, "repost", job[t])
  /\ UNCHANGED <<buffer, m_sockAccept, contexts, queue, clients>>

(* After the first request of a client the accept is posted again.         *)
PostWrite(t) ==
  /\ pc[t] = "send"
  /\ Post(Client(t))
  /\ IF job[t] \in Accepts
     THEN _AddToContextList(Client(t)) /\ goto(t, "repost", job[t])
     ELSE UNCHANGED m_arrayClientContext /\ goto(t, "wait", NULL)
  /\ UNCHANGED <<buffer, m_sockAccept, contexts, queue, clients>>

PostRecv(t) ==
  /\ pc[t] = "recv"
  /\ m_OpType' = [m_OpType EXCEPT ![job[t]] = "RECV"]
  /\ m_szBuffer' = [m_szBuffer EXCEPT ![job[t]] = "empty"]
  /\ m_nSendBytes' = [m_nSendBytes EXCEPT ![job[t]] = 0]
  /\ m_nTotalBytes' = [m_nTotalBytes EXCEPT ![job[t]] = 0]
  /\ Post(job[t])
  /\ goto(t, "wait", NULL)
  /\ UNCHANGED <<m_sockAccept, objects, queue, clients>>

(* _PostAccept, with a new socket.                                         *)
PostAccept(t) ==
  /\ pc[t] = "repost"
  /\ m_sockAccept' = [m_sockAccept EXCEPT ![job[t]] = NULL]
  /\ Post(job[t])
  /\ goto(t, "wait", NULL)
  /\ UNCHANGED <<buffer, objects, queue, clients>>

WorkerThread(t) ==
  \/ HandleError(t)
  \/ ClientLeft(t)
  \/ RecvDone(t)
  \/ SendDone(t)
  \/ AcceptDone(t)
  \/ DoFirstRecvWithData(t)
  \/ DoFirstRecvWithoutData(t)
  \/ RunClient(t)
  \/ PostWrite(t)
  \/ PostRecv(t)
  \/ PostAccept(t)

Sockets ==
  \/ \E a \in Accepts : CompleteAccept(a) \/ \E k \in Conns : TakeClient(a, k)
  \/ \E k \in Conns : CompleteRecv(k) \/ CompleteSend(k)

Next ==
  \/ \E t \in Threads : WorkerThread(t)
  \/ Sockets
  \/ \E k \in Conns : Connect(k) \/ Send(k) \/ Leave(k)

Spec == Init /\ [][Next]_vars

(* Threads that have work go on, and Windows completes what can be         *)
(* completed.  The port is a queue: no packet is passed over for ever.     *)
(* Nothing is asked of the clients: they may stay silent for ever.         *)
Taken(x) ==
  /\ \E t \in Threads : WorkerThread(t)
  /\ \E p \in queue \ queue' : p.io = x

FairSpec ==
  /\ Spec
  /\ \A t \in Threads : WF_vars(WorkerThread(t))
  /\ \A x \in Contexts : SF_vars(Taken(x))
  /\ \A a \in Accepts : WF_vars(CompleteAccept(a)) /\ WF_vars(\E k \in Conns : TakeClient(a, k))
  /\ \A k \in Conns : WF_vars(CompleteRecv(k)) /\ WF_vars(CompleteSend(k))

-----------------------------------------------------------------------------
PC == {"wait", "exited", "data", "nodata", "run", "send", "recv", "repost"}

Packets == [io : Contexts, bytes : Nat, error : {"none", "netname", "other"}]

(* Every variable keeps its type, and a thread the kind of context its     *)
(* place in the code is for: an accept, or a client.                       *)
TypeOK ==
  /\ m_OpType \in [Conns -> {"NONE", "SEND", "RECV"}]
  /\ m_szBuffer \in [Conns -> {"empty", "request", "reply"}]
  /\ m_nTotalBytes \in [Conns -> Nat]
  /\ m_nSendBytes \in [Conns -> Nat]
  /\ m_sockAccept \in [Accepts -> Conns \cup {NULL}]
  /\ contexts \subseteq Conns
  /\ m_arrayClientContext \subseteq contexts
  /\ pc \in [Threads -> PC]
  /\ job \in [Threads -> Contexts \cup {NULL}]
  /\ posted \in [Contexts -> Nat]
  /\ queue \subseteq Packets
  /\ backlog \subseteq Conns
  /\ peer \in [Conns -> {"none", "open", "closed", "reset"}]
  /\ inbox \in [Conns -> 0 .. MaxInbox]
  /\ \A t \in Threads :
       /\ pc[t] \in {"wait", "exited"} <=> job[t] = NULL
       /\ pc[t] \in {"data", "nodata", "repost"} => job[t] \in Accepts
       /\ pc[t] = "recv" => job[t] \in Conns
       /\ pc[t] \in {"data", "nodata", "run", "send"} => Client(t) \in Conns

(* The contexts a thread has in its hands.                                 *)
Touches(t) ==
  CASE pc[t] \in {"wait", "exited"} -> {}
    [] pc[t] \in {"data", "nodata", "recv", "repost"} -> {job[t]}
    [] pc[t] \in {"run", "send"} -> {job[t], Client(t)}

(* A context, its buffer and its CClientParse have one owner: the socket   *)
(* operation posted on it, the packet of its last operation, or the thread *)
(* that handles that packet.  The code uses no lock for them.              *)
OneOwner ==
  /\ \A x \in Contexts : posted[x] <= 1
  /\ \A p, q \in queue : p.io = q.io => p = q
  /\ \A p \in queue : posted[p.io] = 0
  /\ \A t \in Threads : \A x \in Touches(t) :
       /\ posted[x] = 0
       /\ \A p \in queue : p.io # x
       /\ \A u \in Threads : x \in Touches(u) => t = u

(* "The data could not all be sent, go on sending": what Run handles is a  *)
(* request of the client, never the rest of the server's own reply.        *)
RunIsGivenARequest ==
  \A t \in Threads : pc[t] = "run" => m_szBuffer[Client(t)] = "request"

InPlay(x) ==
  \/ posted[x] > 0
  \/ \E p \in queue : p.io = x
  \/ \E t \in Threads : x \in Touches(t)

(* The accept is neither posted, nor on the port, nor in a thread that     *)
(* will post it again: the client it took has reset its connection.        *)
LostToReset(a) ==
  ~InPlay(a) /\ m_sockAccept[a] # NULL /\ peer[m_sockAccept[a]] = "reset"

(* "Ten sockets accept", and an accept is lost in one way only: after a    *)
(* failed completion nobody posts it again.                                *)
AcceptLostToReset == \A a \in Accepts : InPlay(a) \/ LostToReset(a)

(* A client that stays connected is waited for or being served.            *)
ClientServed ==
  \A k \in Conns :
    peer[k] = "open" =>
      \/ k \in backlog
      \/ \E a \in Accepts : m_sockAccept[a] = k /\ InPlay(a)
      \/ InPlay(k)

(* The accept has taken a client that says nothing.                        *)
Silent(a) ==
  /\ posted[a] > 0
  /\ m_sockAccept[a] # NULL
  /\ peer[m_sockAccept[a]] = "open"
  /\ inbox[m_sockAccept[a]] = 0

(* What a client has sent is answered, its reply sent and the thread about *)
(* to receive the next request, unless the client resets its connection or *)
(* no accept is left for it: AcceptEx waits for the first data, so clients *)
(* that say nothing hold the accepts, and resets lose them.                *)
RequestsAnswered ==
  \A k \in Conns :
    inbox[k] > 0 ~>
      \/ \E t \in Threads : pc[t] = "recv" /\ job[t] = k
      \/ peer[k] = "reset"
      \/ k \in backlog /\ \A a \in Accepts : Silent(a) \/ LostToReset(a)
=============================================================================
