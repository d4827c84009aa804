------------------------- MODULE LoginVerifyProofs -------------------------
(***************************************************************************)
(* The client library for any number of sockets, threads of KeepAlive and  *)
(* calls: the end of the threads is visible, and foreign answers and false *)
(* kicks come only where calls were mixed with the polls of KeepAlive.     *)
(* And Md5Encode for passwords of every length: the blocks that Encode     *)
(* digests are those of the standard, except at 56 bytes past a block.     *)
(***************************************************************************)
EXTENDS MCLoginVerify, SequenceTheorems, FiniteSetTheorems, TLAPS

(* A socket that is being connected is not watched.                        *)
ConnectsUnwatched == pc[Caller] = "connect" => ~watched

IInv == TypeOK /\ ConnectsUnwatched /\ EndIsVisible

-----------------------------------------------------------------------------
LEMMA InitIInv == Init => IInv
<1> SUFFICES ASSUME Init PROVE IInv
  OBVIOUS
<1> USE LoginVerifyAssumption DEF Init
<1>1. NoRequest \in Calls
  BY DEF NoRequest, Request, Calls
<1>2. << >> \in Seq(Calls) /\ << >> \in Seq([to : Calls \cup {NULL}, one : BOOLEAN])
  OBVIOUS
<1>3. pc \in [Threads -> PC.Caller \cup PC.Keepers]
  BY DEF Threads, PC
<1>4. pc[Caller] = "ready" /\ \A k \in Keepers : pc[k] = "ended"
  BY DEF Threads
<1>5. TypeOK
  <2>1. requests \in [Sockets -> Seq(Calls)]
    BY <1>2
  <2>2. replies \in [Sockets -> Seq([to : Calls \cup {NULL}, one : BOOLEAN])]
    BY <1>2
  <2>3. link \in [Sockets -> Links] /\ on \in [Threads -> Sockets \cup {NULL}]
    BY DEF Links
  <2>4. pc[Caller] \in PC.Caller /\ \A k \in Keepers : pc[k] \in PC.Keepers
    BY <1>4 DEF PC
  <2> QED
    BY <1>1, <1>3, <2>1, <2>2, <2>3, <2>4 DEF TypeOK, Results
<1>6. ConnectsUnwatched /\ EndIsVisible
  BY DEF ConnectsUnwatched, EndIsVisible
<1> QED
  BY <1>5, <1>6 DEF IInv

-----------------------------------------------------------------------------
Answers == [to : Calls \cup {NULL}, one : BOOLEAN]

(* What is left of a queue when its first elements are taken.              *)
LEMMA DropFirstType ==
  ASSUME NEW S, NEW q \in Seq(S), NEW n \in 1 .. Len(q)
  PROVE  DropFirst(q, n) \in Seq(S) /\ Head(q) \in S
<1>1. \A i \in n + 1 .. Len(q) : q[i] \in S
  OBVIOUS
<1>2. SubSeq(q, n + 1, Len(q)) \in Seq(S)
  BY <1>1, SubSeqProperties
<1>3. Head(q) \in S
  BY HeadTailProperties
<1> QED
  BY <1>2, <1>3 DEF DropFirst

(* The network keeps its types, and what is known of the sockets.          *)
NetworkOK ==
  /\ link \in [Sockets -> Links]
  /\ requests \in [Sockets -> Seq(Calls)]
  /\ replies \in [Sockets -> Seq(Answers)]
  /\ session \subseteq Sockets
  /\ kicked \subseteq session

LEMMA SendType ==
  ASSUME NetworkOK, NEW s \in Sockets \cup {NULL}, NEW r \in Calls, Send(s, r)
  PROVE  NetworkOK'
<1>1. s \in Sockets
  BY DEF Send, CanSend
<1>2. Append(requests[s], r) \in Seq(Calls)
  BY <1>1, AppendProperties DEF NetworkOK
<1> QED
  BY <1>1, <1>2 DEF Send, NetworkOK, Links

LEMMA ArrivesType ==
  ASSUME NetworkOK, NEW s \in Sockets \cup {NULL}, Arrives(s)
  PROVE  NetworkOK' /\ s \in Sockets /\ Head(replies[s]) \in Answers
<1>1. s \in Sockets
  BY DEF Arrives
<1>2. PICK n \in 1 .. Len(replies[s]) : replies' = [replies EXCEPT ![s] = DropFirst(@, n)]
  BY DEF Arrives
<1>3. DropFirst(replies[s], n) \in Seq(Answers) /\ Head(replies[s]) \in Answers
  BY <1>1, DropFirstType DEF NetworkOK
<1> QED
  BY <1>1, <1>2, <1>3 DEF Arrives, NetworkOK

LEMMA CloseType ==
  ASSUME NetworkOK, NEW S, Close(S)
  PROVE  NetworkOK'
<1>1. << >> \in Seq(Calls) /\ << >> \in Seq(Answers)
  OBVIOUS
<1> QED
  BY <1>1 DEF Close, NetworkOK, Links

LEMMA ServerType ==
  ASSUME NetworkOK, Network
  PROVE  NetworkOK'
<1> PICK s \in Sockets : Serve(s) \/ Kick(s) \/ ServerEnds(s)
  BY DEF Network
<1>1. CASE Serve(s)
  <2>1. PICK n \in 1 .. Len(requests[s]), b \in BOOLEAN :
          /\ requests' = [requests EXCEPT ![s] = DropFirst(@, n)]
          /\ replies' = [replies EXCEPT ![s] =
                           Append(@, Reply(IF n = 1 THEN Head(requests[s]) ELSE NULL, b))]
          /\ session' = IF n = 1 /\ Head(requests[s]).by = "login" THEN session \cup {s}
                        ELSE session
    BY <1>1 DEF Serve
  <2>2. DropFirst(requests[s], n) \in Seq(Calls) /\ Head(requests[s]) \in Calls
    BY DropFirstType DEF NetworkOK
  <2>3. Reply(IF n = 1 THEN Head(requests[s]) ELSE NULL, b) \in Answers
    BY <2>2 DEF Reply, Answers
  <2>4. replies' \in [Sockets -> Seq(Answers)]
    BY <2>1, <2>3, AppendProperties DEF NetworkOK
  <2> QED
    BY <1>1, <2>1, <2>2, <2>4 DEF Serve, NetworkOK
<1>2. CASE Kick(s)
  BY <1>2 DEF Kick, NetworkOK
<1>3. CASE ServerEnds(s)
  <2>1. << >> \in Seq(Calls)
    OBVIOUS
  <2> QED
    BY <1>3, <2>1 DEF ServerEnds, NetworkOK, Links
<1> QED
  BY <1>1, <1>2, <1>3

(* The rest of TypeOK.                                                     *)
ClientOK ==
  /\ clientState_ \in {"initial", "connected", "relogin"}
  /\ clientSocket_ \in Sockets \cup {NULL}
  /\ pc \in [Threads -> PC.Caller \cup PC.Keepers]
  /\ pc[Caller] \in PC.Caller
  /\ \A k \in Keepers : pc[k] \in PC.Keepers
  /\ on \in [Threads -> Sockets \cup {NULL}]
  /\ limited \subseteq Sockets
  /\ call \in Calls
  /\ result \in Results
  /\ loggedIn \in BOOLEAN
  /\ watched \in BOOLEAN
  /\ mixed \subseteq Sockets

LEMMA CallerType ==
  ASSUME ClientOK, NetworkOK, CallerNext
  PROVE  ClientOK' /\ NetworkOK'
<1> USE LoginVerifyAssumption DEF ClientOK, Threads, Caller, PC, goto, leave, Current
<1>1. CASE InitEnv
  BY <1>1 DEF InitEnv, Ready, NetworkOK, Links
<1>2. CASE Connect
  BY <1>2 DEF Connect, NetworkOK, Links
<1>3. ASSUME NEW by \in {"login", "query"}, SendCall(by)
      PROVE  /\ NetworkOK' /\ pc' \in [Threads -> PC.Caller \cup PC.Keepers]
             /\ pc'[Caller] \in PC.Caller /\ \A k \in Keepers : pc'[k] = pc[k]
             /\ call' \in Calls /\ result' \in Results /\ mixed' \subseteq Sockets
  <2>1. call' \in Calls
    BY <1>3 DEF SendCall, Request, Calls
  <2>2. NetworkOK'
    <3>1. CASE Send(clientSocket_, call')
      BY <2>1, <3>1, SendType
    <3>2. CASE UNCHANGED network
      BY <3>2 DEF network, NetworkOK
    <3> QED
      BY <1>3, <3>1, <3>2 DEF SendCall
  <2>3. mixed' \subseteq Sockets
    BY <1>3 DEF SendCall
  <2> QED
    BY <1>3, <2>1, <2>2, <2>3 DEF SendCall, Results
<1>4. CASE Login \/ Query
  <2>1. limited' \subseteq Sockets
    BY <1>4 DEF Login, Query
  <2>2. PICK by \in {"login", "query"} : SendCall(by)
    BY <1>4 DEF Login, Query
  <2>3. UNCHANGED <<clientState_, clientSocket_, on, loggedIn, watched>>
    BY <2>2 DEF SendCall
  <2> QED
    BY <1>3, <2>1, <2>2, <2>3
<1>5. CASE Receive
  BY <1>5 DEF Receive, network, NetworkOK
<1>6. CASE ReturnReply
  <2>1. NetworkOK'
    BY <1>6, ArrivesType DEF ReturnReply
  <2> QED
    BY <1>6, <2>1 DEF ReturnReply, Results
<1>7. CASE ReturnNothing
  BY <1>7 DEF ReturnNothing, TimedOut, network, NetworkOK, Results
<1>8. CASE KeepAlive
  <2>1. NetworkOK'
    <3>1. CASE UNCHANGED network
      BY <3>1 DEF network, NetworkOK
    <3>2. ASSUME NEW S, Close(S) PROVE NetworkOK'
      BY <3>2, CloseType
    <3> QED
      BY <1>8, <3>1, <3>2 DEF KeepAlive
  <2> QED
    BY <1>8, <2>1 DEF KeepAlive
<1>9. CASE cleanEnv
  <2>1. NetworkOK'
    BY <1>9, CloseType DEF cleanEnv
  <2> QED
    BY <1>9, <2>1 DEF cleanEnv
<1> QED
  BY <1>1, <1>2, <1>4, <1>5, <1>6, <1>7, <1>8, <1>9 DEF CallerNext

LEMMA KeeperType ==
  ASSUME ClientOK, NetworkOK, NEW k \in Keepers, ReLogin(k)
  PROVE  ClientOK' /\ NetworkOK'
<1> USE LoginVerifyAssumption DEF ClientOK, Threads, PC, goto, leave, Current
<1>1. CASE Check(k) \/ ReceivePoll(k) \/ Publish(k) \/ SetSocket(k)
  <2>1. NetworkOK'
    BY <1>1 DEF Check, ReceivePoll, Publish, SetSocket, network, NetworkOK
  <2>2. CASE Check(k)
    BY <2>1, <2>2 DEF Check
  <2>3. CASE ReceivePoll(k)
    BY <2>1, <2>3 DEF ReceivePoll
  <2>4. CASE Publish(k) \/ SetSocket(k)
    BY <2>1, <2>4 DEF Publish, SetSocket
  <2> QED
    BY <1>1, <2>2, <2>3, <2>4
<1>2. CASE Poll(k)
  <2>1. NoRequest \in Calls
    BY DEF NoRequest, Request, Calls
  <2>2. NetworkOK'
    <3>1. CASE Send(clientSocket_, NoRequest)
      BY <2>1, <3>1, SendType
    <3>2. CASE UNCHANGED network
      BY <3>2 DEF network, NetworkOK
    <3> QED
      BY <1>2, <3>1, <3>2 DEF Poll
  <2> QED
    BY <1>2, <2>2 DEF Poll
<1>3. CASE PollReply(k)
  <2>1. NetworkOK'
    <3>1. CASE Arrives(on[k])
      BY <3>1, ArrivesType
    <3>2. CASE UNCHANGED network
      BY <3>2 DEF network, NetworkOK
    <3> QED
      BY <1>3, <3>1, <3>2 DEF PollReply
  <2> QED
    BY <1>3, <2>1 DEF PollReply
<1>4. CASE CloseSocket(k)
  <2>1. NetworkOK'
    BY <1>4, CloseType DEF CloseSocket
  <2> QED
    BY <1>4, <2>1 DEF CloseSocket
<1> QED
  BY <1>1, <1>2, <1>3, <1>4 DEF ReLogin

LEMMA TypeStep == TypeOK /\ [Next]_vars => TypeOK'
<1> SUFFICES ASSUME ClientOK, NetworkOK, [Next]_vars PROVE ClientOK' /\ NetworkOK'
  BY DEF TypeOK, ClientOK, NetworkOK, Answers
<1>1. CASE UNCHANGED vars
  BY <1>1 DEF vars, network, ClientOK, NetworkOK
<1>2. CASE Client
  BY <1>2, CallerType, KeeperType DEF Client
<1>3. CASE Network
  <2>1. UNCHANGED <<clientState_, clientSocket_, pc, on, limited, call, result, loggedIn,
                    watched, mixed>>
    BY <1>3 DEF Network, Serve, Kick, ServerEnds
  <2> QED
    BY <1>3, <2>1, ServerType DEF ClientOK
<1> QED
  BY <1>1, <1>2, <1>3 DEF Next

-----------------------------------------------------------------------------
LEMMA EndStep ==
  ASSUME IInv, [Next]_vars
  PROVE  ConnectsUnwatched' /\ EndIsVisible'
<1> USE LoginVerifyAssumption
        DEF IInv, TypeOK, ConnectsUnwatched, EndIsVisible, Alive, Threads, Caller, goto, leave
<1>1. CASE UNCHANGED vars
  BY <1>1 DEF vars
<1>2. CASE InitEnv \/ Connect
  BY <1>2 DEF InitEnv, Connect
<1>3. CASE Login \/ Query \/ Receive \/ ReturnReply \/ ReturnNothing \/ cleanEnv
  <2>1. /\ UNCHANGED <<clientState_, clientSocket_, watched>>
        /\ \A k \in Keepers : pc'[k] = pc[k]
        /\ pc'[Caller] # "connect"
    BY <1>3 DEF Login, Query, SendCall, Receive, ReturnReply, ReturnNothing, cleanEnv, Ready
  <2> QED
    BY <2>1
<1>4. CASE KeepAlive
  BY <1>4 DEF KeepAlive, Ready
<1>5. ASSUME NEW k \in Keepers, Check(k) PROVE ConnectsUnwatched' /\ EndIsVisible'
  BY <1>5 DEF Check
<1>6. ASSUME NEW k \in Keepers,
             Poll(k) \/ ReceivePoll(k) \/ PollReply(k) \/ Publish(k) \/ CloseSocket(k)
      PROVE  ConnectsUnwatched' /\ EndIsVisible'
  <2>1. /\ pc'[Caller] = pc[Caller] /\ pc'[k] # "ended" /\ watched' = watched
    BY <1>6 DEF Poll, ReceivePoll, PollReply, Publish, CloseSocket
  <2> QED
    BY <2>1
<1>7. ASSUME NEW k \in Keepers, SetSocket(k) PROVE ConnectsUnwatched' /\ EndIsVisible'
  BY <1>7 DEF SetSocket
<1>8. CASE Network
  BY <1>8 DEF Network, Serve, Kick, ServerEnds
<1> QED
  BY <1>1, <1>2, <1>3, <1>4, <1>5, <1>6, <1>7, <1>8 DEF Next, Client, CallerNext, ReLogin

-----------------------------------------------------------------------------
LEMMA Inductive == Spec => []IInv
<1>1. IInv /\ [Next]_vars => IInv'
  BY TypeStep, EndStep DEF IInv
<1> QED
  BY <1>1, InitIInv, PTL DEF Spec

(* Every variable keeps its type.                                          *)
THEOREM TypeCorrect == Spec => []TypeOK
<1>1. IInv => TypeOK
  BY DEF IInv
<1> QED
  BY <1>1, Inductive, PTL

(* When the threads of KeepAlive have ended the program can see it, also   *)
(* when several of them write clientState_ and clientSocket_ at once.      *)
THEOREM EndCorrect == Spec => []EndIsVisible
<1>1. IInv => EndIsVisible
  BY DEF IInv
<1> QED
  BY <1>1, Inductive, PTL

-----------------------------------------------------------------------------
(* Whose answer a call returns, and what a thread of KeepAlive is told.    *)

(* The call waits for its answer on s; the threads that wait for one, as   *)
(* those that have sent but not begun to receive may take it from s.       *)
Receiving(s) ==
  \/ pc[Caller] = "receive" /\ clientSocket_ = s
  \/ pc[Caller] = "recv" /\ on[Caller] = s

WaitingOn(s) ==
  { k \in Keepers : pc[k] = "receive" \/ (pc[k] = "recv" /\ on[k] = s) }

Polled(s) ==
  \E k \in Keepers : \/ pc[k] = "receive" /\ clientSocket_ = s
                     \/ pc[k] = "recv" /\ on[k] = s

(* The program could call on s now; a thread gives the connection up.      *)
Usable(s) ==
  /\ clientSocket_ = s
  /\ link[s] \in {"up", "ended"}
  /\ pc[Caller] \notin {"receive", "recv"}

Ending(k) == pc[k] \in {"lost", "told", "close", "clear"}

InTransit(s) == Len(requests[s]) + Len(replies[s])

PollsOnly(s) ==
  /\ \A i \in 1 .. Len(requests[s]) : requests[s][i].by = "poll"
  /\ \A i \in 1 .. Len(replies[s]) : replies[s][i].one => s \in kicked

QueuesMatchLink ==
  \A s \in Sockets :
    /\ link[s] # "up" => requests[s] = << >>
    /\ link[s] \in {"unused", "failed"} => replies[s] = << >>

(* On a connection that is not mixed a call waits alone, and nothing is on *)
(* the way but the call or its answer.                                     *)
CallIsAlone ==
  \A s \in Sockets \ mixed :
    Receiving(s) =>
      /\ \A k \in Keepers : ~Alive(k)
      /\ s = clientSocket_
      /\ InTransit(s) <= 1
      /\ \A i \in 1 .. Len(requests[s]) : requests[s][i] = call
      /\ \A i \in 1 .. Len(replies[s]) : replies[s][i].to = call

SameSocket == pc[Caller] = "recv" => clientSocket_ \in {on[Caller], NULL}

(* Between two calls every message on the way has a thread waiting for it, *)
(* so that none is left when the last thread has ended.                    *)
NothingLeft ==
  \A s \in Sockets \ mixed :
    Usable(s) /\ (\A k \in Keepers : ~Ending(k)) => InTransit(s) <= Cardinality(WaitingOn(s))

(* A thread waits for the answers to polls only.                           *)
PollsWhilePolled ==
  \A s \in Sockets \ mixed : Usable(s) \/ Polled(s) => PollsOnly(s)

AnswersOK ==
  QueuesMatchLink /\ CallIsAlone /\ SameSocket /\ NothingLeft /\ PollsWhilePolled

-----------------------------------------------------------------------------
LEMMA DropFirstElements ==
  ASSUME NEW S, NEW q \in Seq(S), NEW n \in 1 .. Len(q)
  PROVE  /\ Len(DropFirst(q, n)) = Len(q) - n
         /\ \A i \in 1 .. Len(q) - n : DropFirst(q, n)[i] = q[n + i] /\ n + i \in 1 .. Len(q)
         /\ Head(q) = q[1]
<1>1. \A i \in n + 1 .. Len(q) : q[i] \in S
  OBVIOUS
<1>2. /\ Len(SubSeq(q, n + 1, Len(q))) = Len(q) - n
      /\ \A i \in 1 .. Len(q) - n : SubSeq(q, n + 1, Len(q))[i] = q[n + i]
  BY <1>1, SubSeqProperties
<1> QED
  BY <1>2, HeadTailProperties DEF DropFirst

LEMMA EmptyQueues ==
  ASSUME NEW s \in Sockets, requests[s] = << >>, replies[s] = << >>
  PROVE  InTransit(s) = 0 /\ PollsOnly(s)
BY DEF InTransit, PollsOnly

LEMMA WaitingFinite ==
  ASSUME NEW s
  PROVE  /\ IsFiniteSet(WaitingOn(s)) /\ Cardinality(WaitingOn(s)) \in Nat
         /\ IsFiniteSet(WaitingOn(s)') /\ Cardinality(WaitingOn(s)') \in Nat
<1>1. WaitingOn(s) \subseteq Keepers /\ WaitingOn(s)' \subseteq Keepers
  BY DEF WaitingOn
<1> QED
  BY <1>1, LoginVerifyAssumption, FS_Subset, FS_CardinalityType

LEMMA TransitType ==
  ASSUME TypeOK, NEW s \in Sockets
  PROVE  InTransit(s) \in Nat /\ Len(requests[s]) \in Nat /\ Len(replies[s]) \in Nat
BY DEF TypeOK, InTransit

LEMMA InitAnswers == Init => AnswersOK
<1> SUFFICES ASSUME Init PROVE AnswersOK
  OBVIOUS
<1> USE LoginVerifyAssumption DEF Init, Threads
<1>1. QueuesMatchLink /\ CallIsAlone /\ SameSocket
  BY DEF QueuesMatchLink, CallIsAlone, SameSocket, Receiving
<1>2. NothingLeft /\ PollsWhilePolled
  BY DEF NothingLeft, PollsWhilePolled, Usable, Polled
<1> QED
  BY <1>1, <1>2 DEF AnswersOK

-----------------------------------------------------------------------------
(* The steps of the program.                                               *)
LEMMA InitEnvAnswers ==
  ASSUME TypeOK, AnswersOK, InitEnv
  PROVE  AnswersOK'
<1> USE LoginVerifyAssumption DEF AnswersOK, TypeOK, InitEnv, Ready, goto, Threads
<1>1. PICK s \in Sockets :
        link[s] = "unused" /\ clientSocket_' = s /\ link' = [link EXCEPT ![s] = "failed"]
  OBVIOUS
<1>2. pc'[Caller] = "connect" /\ \A k \in Keepers : pc'[k] = pc[k]
  OBVIOUS
<1>3. QueuesMatchLink'
  BY <1>1 DEF QueuesMatchLink
<1>4. CallIsAlone' /\ SameSocket'
  BY <1>2 DEF CallIsAlone, SameSocket, Receiving
<1>5. NothingLeft'
  BY <1>1 DEF NothingLeft, Usable
<1>6. PollsWhilePolled'
  <2> SUFFICES ASSUME NEW r \in Sockets \ mixed, Polled(r)' PROVE PollsOnly(r)'
    BY <1>1 DEF PollsWhilePolled, Usable
  <2>1. CASE r = s
    BY <1>1, <2>1, EmptyQueues DEF QueuesMatchLink, PollsOnly
  <2>2. CASE r # s
    BY <1>1, <1>2, <2>2 DEF PollsWhilePolled, Polled, PollsOnly
  <2> QED
    BY <2>1, <2>2
<1> QED
  BY <1>3, <1>4, <1>5, <1>6

LEMMA ConnectAnswers ==
  ASSUME TypeOK, AnswersOK, Connect
  PROVE  AnswersOK'
<1> USE LoginVerifyAssumption DEF AnswersOK, TypeOK, Connect, goto, Threads
<1>1. pc'[Caller] = "ready" /\ \A k \in Keepers : pc'[k] = pc[k]
  OBVIOUS
<1>2. \A s \in Sockets : \/ link'[s] = link[s]
                         \/ link[s] = "failed" /\ link'[s] = "up"
  OBVIOUS
<1>3. QueuesMatchLink'
  BY <1>2 DEF QueuesMatchLink
<1>4. CallIsAlone' /\ SameSocket'
  BY <1>1 DEF CallIsAlone, SameSocket, Receiving
<1>5. ASSUME NEW s \in Sockets \ mixed, link[s] = "failed"
      PROVE  PollsOnly(s)' /\ InTransit(s)' = 0
  BY <1>5 DEF QueuesMatchLink, PollsOnly, InTransit
<1>6. ASSUME NEW s \in Sockets, Usable(s)', link[s] # "failed" PROVE Usable(s)
  BY <1>1, <1>2, <1>6 DEF Usable
<1>7. NothingLeft'
  <2> SUFFICES ASSUME NEW s \in Sockets \ mixed, Usable(s)', \A k \in Keepers : ~Ending(k)'
               PROVE  InTransit(s)' <= Cardinality(WaitingOn(s))'
    BY DEF NothingLeft
  <2>1. WaitingOn(s)' = WaitingOn(s)
    BY <1>1 DEF WaitingOn
  <2>2. \A k \in Keepers : ~Ending(k)
    BY <1>1 DEF Ending
  <2> QED
    BY <1>5, <1>6, <2>1, <2>2, WaitingFinite DEF NothingLeft, InTransit
<1>8. PollsWhilePolled'
  <2> SUFFICES ASSUME NEW s \in Sockets \ mixed, Usable(s)' \/ Polled(s)'
               PROVE  PollsOnly(s)'
    BY DEF PollsWhilePolled
  <2>1. Polled(s)' => Polled(s)
    BY <1>1 DEF Polled
  <2>2. PollsOnly(s) => PollsOnly(s)'
    BY DEF PollsOnly
  <2> QED
    BY <1>5, <1>6, <2>1, <2>2 DEF PollsWhilePolled
<1> QED
  BY <1>3, <1>4, <1>7, <1>8

LEMMA SendCallAnswers ==
  ASSUME TypeOK, AnswersOK, NEW by, SendCall(by)
  PROVE  AnswersOK'
<1> USE LoginVerifyAssumption DEF AnswersOK, TypeOK, SendCall, Ready, goto, Threads
<1>1. \A k \in Keepers : pc'[k] = pc[k] /\ on'[k] = on[k]
  OBVIOUS
<1>2. mixed \subseteq mixed' /\ mixed' \subseteq Sockets
  BY DEF Current
<1>3. \A s : WaitingOn(s)' = WaitingOn(s)
  BY <1>1 DEF WaitingOn
<1>4. CASE UNCHANGED network
  <2>1. pc'[Caller] \in {"ready", "crashed"}
    BY <1>4 DEF Send, CanSend, network
  <2>2. QueuesMatchLink' /\ CallIsAlone' /\ SameSocket'
    BY <1>4, <2>1 DEF network, QueuesMatchLink, CallIsAlone, SameSocket, Receiving
  <2>3. \A s \in Sockets :
          /\ Usable(s)' <=> Usable(s)
          /\ Polled(s)' <=> Polled(s)
          /\ InTransit(s)' = InTransit(s)
          /\ PollsOnly(s)' <=> PollsOnly(s)
    BY <1>1, <1>4, <2>1 DEF network, Usable, Polled, InTransit, PollsOnly
  <2>4. NothingLeft'
    BY <1>1, <1>2, <1>3, <2>3 DEF NothingLeft, Ending
  <2>5. PollsWhilePolled'
    BY <1>2, <2>3 DEF PollsWhilePolled
  <2> QED
    BY <2>2, <2>4, <2>5
<1>5. CASE Send(clientSocket_, call') /\ pc'[Caller] = "receive"
  <2>1. PICK c \in Sockets : c = clientSocket_ /\ link[c] \in {"up", "ended"}
    BY <1>5 DEF Send, CanSend
  <2>2. \A s \in Sockets \ {c} :
          link'[s] = link[s] /\ requests'[s] = requests[s] /\ replies'[s] = replies[s]
    BY <1>5, <2>1 DEF Send
  <2>3. /\ replies' = replies /\ kicked' = kicked
        /\ \/ link'[c] = "up" /\ requests'[c] = Append(requests[c], call')
           \/ link'[c] = "reset" /\ link[c] = "ended" /\ requests'[c] = requests[c]
    BY <1>5, <2>1 DEF Send
  <2>4. QueuesMatchLink'
    BY <2>1, <2>2, <2>3 DEF QueuesMatchLink
  <2>5. CallIsAlone'
    <3> SUFFICES ASSUME NEW s \in Sockets \ mixed', Receiving(s)'
                 PROVE  /\ \A k \in Keepers : ~Alive(k)'
                        /\ s = clientSocket_'
                        /\ InTransit(s)' <= 1
                        /\ \A i \in 1 .. Len(requests'[s]) : requests'[s][i] = call'
                        /\ \A i \in 1 .. Len(replies'[s]) : replies'[s][i].to = call'
      BY DEF CallIsAlone
    <3>1. s = c /\ s = clientSocket_'
      BY <1>5, <2>1 DEF Receiving
    <3>2. \A k \in Keepers : ~Alive(k)
      BY <2>1, <3>1 DEF Current
    <3>3. WaitingOn(c) = {} /\ \A k \in Keepers : ~Ending(k)
      BY <3>2 DEF WaitingOn, Ending, Alive
    <3>4. InTransit(c) <= 0
      BY <1>2, <2>1, <3>1, <3>3, FS_EmptySet DEF NothingLeft, Usable
    <3>5. requests[c] = << >> /\ replies[c] = << >>
      BY <3>4, EmptySeq DEF InTransit
    <3>6. requests'[c] = << >> \/ requests'[c] = <<call'>>
      BY <2>3, <3>5
    <3>7. Len(requests'[c]) <= 1 /\ \A i \in 1 .. Len(requests'[c]) : requests'[c][i] = call'
      <4>1. CASE requests'[c] = << >>
        BY <4>1
      <4>2. CASE requests'[c] = <<call'>>
        BY <4>2
      <4> QED
        BY <3>6, <4>1, <4>2
    <3>8. replies'[c] = << >> /\ InTransit(s)' <= 1
      BY <2>3, <3>1, <3>5, <3>6, <3>7 DEF InTransit
    <3>9. \A k \in Keepers : ~Alive(k)'
      BY <1>1, <3>2 DEF Alive
    <3> QED
      BY <3>1, <3>7, <3>8, <3>9
  <2>6. SameSocket' /\ NothingLeft'
    BY <1>5 DEF SameSocket, NothingLeft, Usable
  <2>7. PollsWhilePolled'
    <3> SUFFICES ASSUME NEW s \in Sockets \ mixed', Polled(s)' PROVE PollsOnly(s)'
      BY <1>5 DEF PollsWhilePolled, Usable
    <3>1. Polled(s) /\ \E k \in Keepers : Alive(k)
      BY <1>1 DEF Polled, Alive
    <3>2. s # c
      BY <2>1, <3>1 DEF Current
    <3> QED
      BY <1>2, <2>2, <2>3, <3>1, <3>2 DEF PollsWhilePolled, PollsOnly
  <2> QED
    BY <2>4, <2>5, <2>6, <2>7
<1> QED
  BY <1>4, <1>5

LEMMA ReceiveAnswers ==
  ASSUME TypeOK, AnswersOK, Receive
  PROVE  AnswersOK'
<1> USE LoginVerifyAssumption DEF AnswersOK, TypeOK, Receive, goto, Threads, network
<1>1. /\ pc'[Caller] = "recv" /\ on'[Caller] = clientSocket_
      /\ \A k \in Keepers : pc'[k] = pc[k] /\ on'[k] = on[k]
  OBVIOUS
<1>2. QueuesMatchLink' /\ SameSocket' /\ NothingLeft'
  BY <1>1 DEF QueuesMatchLink, SameSocket, NothingLeft, Usable
<1>3. CallIsAlone'
  <2>1. \A s \in Sockets : Receiving(s)' => Receiving(s)
    BY <1>1 DEF Receiving
  <2>2. \A s : InTransit(s)' = InTransit(s)
    BY DEF InTransit
  <2>3. \A k \in Keepers : Alive(k)' <=> Alive(k)
    BY <1>1 DEF Alive
  <2> QED
    BY <2>1, <2>2, <2>3 DEF CallIsAlone
<1>4. PollsWhilePolled'
  <2>1. \A s \in Sockets : Polled(s)' => Polled(s)
    BY <1>1 DEF Polled
  <2>2. \A s : PollsOnly(s)' <=> PollsOnly(s)
    BY DEF PollsOnly
  <2>3. \A s : ~Usable(s)'
    BY <1>1 DEF Usable
  <2> QED
    BY <2>1, <2>2, <2>3 DEF PollsWhilePolled
<1> QED
  BY <1>2, <1>3, <1>4

(* A call that returns, on a connection that is not mixed, leaves nothing  *)
(* on the way, unless the connection is lost.                              *)
LEMMA ReturnAnswers ==
  ASSUME TypeOK, AnswersOK, pc[Caller] = "recv", leave(Caller, "ready"),
         mixed \subseteq mixed', mixed' \subseteq Sockets,
         UNCHANGED <<clientSocket_, link, requests, kicked>>,
         \A s \in Sockets \ mixed' :
           IF on[Caller] = s
           THEN link[s] \in {"up", "ended"} => requests[s] = << >> /\ replies'[s] = << >>
           ELSE replies'[s] = replies[s],
         \A s \in Sockets : link[s] \in {"unused", "failed"} => replies'[s] = replies[s],
         \A s \in Sockets \ mixed' : replies'[s] = << >> \/ replies'[s] = replies[s]
  PROVE  AnswersOK'
<1> USE LoginVerifyAssumption DEF AnswersOK, TypeOK, leave, goto, Threads
<1>1. /\ pc'[Caller] = "ready"
      /\ \A k \in Keepers : pc'[k] = pc[k] /\ on'[k] = on[k]
  OBVIOUS
<1>2. QueuesMatchLink' /\ SameSocket' /\ CallIsAlone'
  BY <1>1 DEF QueuesMatchLink, SameSocket, CallIsAlone, Receiving
<1>3. ASSUME NEW s \in Sockets \ mixed', Usable(s)'
      PROVE  requests'[s] = << >> /\ replies'[s] = << >>
  <2>1. s = clientSocket_ /\ link[s] \in {"up", "ended"}
    BY <1>3 DEF Usable
  <2>2. s = on[Caller]
    BY <2>1 DEF SameSocket
  <2> QED
    BY <2>1, <2>2
<1>4. NothingLeft'
  <2> SUFFICES ASSUME NEW s \in Sockets \ mixed', Usable(s)'
               PROVE  InTransit(s)' <= Cardinality(WaitingOn(s))'
    BY DEF NothingLeft
  <2> QED
    BY <1>3, WaitingFinite DEF InTransit
<1>5. PollsWhilePolled'
  <2> SUFFICES ASSUME NEW s \in Sockets \ mixed', Usable(s)' \/ Polled(s)'
               PROVE  PollsOnly(s)'
    BY DEF PollsWhilePolled
  <2>1. CASE Usable(s)'
    BY <1>3, <2>1 DEF PollsOnly
  <2>2. CASE Polled(s)'
    <3>1. Polled(s)
      BY <1>1, <2>2 DEF Polled
    <3>2. PollsOnly(s)
      BY <3>1 DEF PollsWhilePolled
    <3> QED
      BY <3>2 DEF PollsOnly
  <2> QED
    BY <2>1, <2>2
<1> QED
  BY <1>2, <1>4, <1>5

LEMMA ReturnReplyAnswers ==
  ASSUME TypeOK, AnswersOK, ReturnReply
  PROVE  AnswersOK'
<1> USE LoginVerifyAssumption
<1>1. PICK s \in Sockets : s = on[Caller]
  BY DEF ReturnReply, Arrives, TypeOK, Threads
<1>2. PICK n \in 1 .. Len(replies[s]) : replies' = [replies EXCEPT ![s] = DropFirst(@, n)]
  BY <1>1 DEF ReturnReply, Arrives
<1>3. /\ link[s] \in {"up", "ended", "reset"} /\ pc[Caller] = "recv" /\ leave(Caller, "ready")
      /\ UNCHANGED <<clientSocket_, link, requests, kicked, mixed>>
  BY <1>1 DEF ReturnReply, Arrives
<1>4. ASSUME s \notin mixed PROVE requests[s] = << >> /\ replies'[s] = << >>
  <2>1. InTransit(s) <= 1
    BY <1>1, <1>3, <1>4 DEF AnswersOK, CallIsAlone, Receiving
  <2>2. requests[s] \in Seq(Calls) /\ replies[s] \in Seq(Answers)
    BY DEF TypeOK, Answers
  <2>3. Len(requests[s]) = 0 /\ n = Len(replies[s])
    <3>1. Len(requests[s]) \in Nat /\ Len(replies[s]) \in Nat
      BY <2>2, LenProperties
    <3>2. Len(requests[s]) + Len(replies[s]) <= 1
      BY <2>1 DEF InTransit
    <3>3. n \in Nat /\ 1 <= n /\ n <= Len(replies[s])
      BY <3>1
    <3>4. \A a, b, m \in Nat : a + b <= 1 /\ 1 <= m /\ m <= b => a = 0 /\ m = b
      OBVIOUS
    <3> QED
      BY <3>1, <3>2, <3>3, <3>4
  <2>4. Len(DropFirst(replies[s], n)) = 0 /\ DropFirst(replies[s], n) \in Seq(Answers)
    BY <2>2, <2>3, DropFirstElements, DropFirstType
  <2> QED
    BY <1>2, <2>2, <2>3, <2>4, EmptySeq DEF TypeOK
<1>5. \A r \in Sockets \ {s} : replies'[r] = replies[r]
  BY <1>2 DEF TypeOK
<1> QED
  BY <1>1, <1>3, <1>4, <1>5, ReturnAnswers DEF TypeOK

LEMMA ReturnNothingAnswers ==
  ASSUME TypeOK, AnswersOK, ReturnNothing
  PROVE  AnswersOK'
<1> USE LoginVerifyAssumption
<1>1. /\ pc[Caller] = "recv" /\ leave(Caller, "ready")
      /\ UNCHANGED <<clientSocket_, link, requests, replies, kicked>>
  BY DEF ReturnNothing, network
<1>2. mixed \subseteq mixed' /\ mixed' \subseteq Sockets
  BY DEF ReturnNothing, TimedOut, TypeOK
<1>3. ASSUME NEW s \in Sockets \ mixed', s = on[Caller], link[s] \in {"up", "ended"}
      PROVE  requests[s] = << >> /\ replies[s] = << >>
  <2>1. link[s] = "ended" /\ replies[s] = << >>
    BY <1>3 DEF ReturnNothing, Ended, Broken, TimedOut
  <2> QED
    BY <2>1 DEF AnswersOK, QueuesMatchLink
<1> QED
  BY <1>1, <1>2, <1>3, ReturnAnswers

(* Closing sockets drops what is on the way there, and nothing elsewhere.  *)
LEMMA CloseAnswers ==
  ASSUME TypeOK, AnswersOK, NEW S, Close(S)
  PROVE  /\ \A s \in Sockets :
              \/ link'[s] = "closed" /\ requests'[s] = << >> /\ replies'[s] = << >>
              \/ /\ link'[s] = link[s] /\ requests'[s] = requests[s]
                 /\ replies'[s] = replies[s]
         /\ QueuesMatchLink'
         /\ \A s \in Sockets : PollsOnly(s) => PollsOnly(s)'
<1>1. \A s \in Sockets :
        \/ link'[s] = "closed" /\ requests'[s] = << >> /\ replies'[s] = << >>
        \/ link'[s] = link[s] /\ requests'[s] = requests[s] /\ replies'[s] = replies[s]
  BY DEF Close
<1>2. QueuesMatchLink'
  BY <1>1 DEF AnswersOK, QueuesMatchLink
<1>3. \A s \in Sockets : PollsOnly(s) => PollsOnly(s)'
  BY <1>1 DEF PollsOnly, Close
<1> QED
  BY <1>1, <1>2, <1>3

(* A step that only closes sockets or starts a thread, or does nothing.    *)
LEMMA ReadyAnswers ==
  ASSUME TypeOK, AnswersOK, pc[Caller] = "ready", pc'[Caller] = "ready",
         UNCHANGED <<clientSocket_, on, mixed>>,
         \A k \in Keepers : pc'[k] = pc[k] \/ (pc[k] = "ended" /\ pc'[k] = "sleep"),
         UNCHANGED network \/ \E S \in SUBSET Sockets : Close(S)
  PROVE  AnswersOK'
<1> USE DEF AnswersOK
<1>1. /\ \A s \in Sockets :
           \/ link'[s] = "closed"
           \/ /\ link'[s] = link[s] /\ requests'[s] = requests[s]
              /\ replies'[s] = replies[s]
      /\ QueuesMatchLink'
      /\ \A s \in Sockets : PollsOnly(s) => PollsOnly(s)'
  <2>1. CASE UNCHANGED network
    BY <2>1 DEF network, QueuesMatchLink, PollsOnly
  <2>2. CASE \E S \in SUBSET Sockets : Close(S)
    BY <2>2, CloseAnswers
  <2> QED
    BY <2>1, <2>2
<1>2. CallIsAlone' /\ SameSocket'
  BY DEF CallIsAlone, SameSocket, Receiving
<1>3. NothingLeft'
  <2> SUFFICES ASSUME NEW s \in Sockets \ mixed, Usable(s)', \A k \in Keepers : ~Ending(k)'
               PROVE  InTransit(s)' <= Cardinality(WaitingOn(s))'
    BY DEF NothingLeft
  <2>1. Usable(s) /\ InTransit(s)' = InTransit(s)
    BY <1>1 DEF Usable, InTransit
  <2>2. WaitingOn(s)' = WaitingOn(s) /\ \A k \in Keepers : ~Ending(k)
    BY DEF WaitingOn, Ending
  <2> QED
    BY <2>1, <2>2 DEF NothingLeft
<1>4. PollsWhilePolled'
  <2> SUFFICES ASSUME NEW s \in Sockets \ mixed, Usable(s)' \/ Polled(s)'
               PROVE  PollsOnly(s)'
    BY DEF PollsWhilePolled
  <2>1. Usable(s) \/ Polled(s)
    BY <1>1 DEF Usable, Polled
  <2> QED
    BY <1>1, <2>1 DEF PollsWhilePolled
<1> QED
  BY <1>1, <1>2, <1>3, <1>4

LEMMA CallerAnswers ==
  ASSUME TypeOK, AnswersOK, CallerNext
  PROVE  AnswersOK'
<1> USE LoginVerifyAssumption DEF Threads, goto
<1>1. CASE Login \/ Query
  BY <1>1, SendCallAnswers DEF Login, Query
<1>2. CASE KeepAlive
  <2>1. /\ pc'[Caller] = "ready"
        /\ \A k \in Keepers : pc'[k] = pc[k] \/ (pc[k] = "ended" /\ pc'[k] = "sleep")
    BY <1>2 DEF KeepAlive, Ready, TypeOK
  <2>2. UNCHANGED network \/ \E S \in SUBSET Sockets : Close(S)
    <3>1. ASSUME NEW S \in {{}, { s \in Sockets : link[s] # "unused" }} PROVE S \in SUBSET Sockets
      OBVIOUS
    <3> QED
      BY <1>2, <3>1 DEF KeepAlive
  <2> QED
    BY <1>2, <2>1, <2>2, ReadyAnswers DEF KeepAlive, Ready
<1>3. CASE cleanEnv
  <2>1. Current \in SUBSET Sockets
    BY DEF Current, TypeOK
  <2> QED
    BY <1>3, <2>1, ReadyAnswers DEF cleanEnv, Ready
<1> QED
  BY <1>1, <1>2, <1>3, InitEnvAnswers, ConnectAnswers, ReceiveAnswers, ReturnReplyAnswers,
     ReturnNothingAnswers DEF CallerNext

-----------------------------------------------------------------------------
(* The steps of a thread of KeepAlive.  No call waits on a connection that *)
(* is not mixed while one is alive.                                        *)
LEMMA AliveCalls ==
  ASSUME TypeOK, AnswersOK, NEW k \in Keepers, Alive(k),
         UNCHANGED <<pc[Caller], on[Caller], mixed>>, clientSocket_' \in {clientSocket_, NULL}
  PROVE  CallIsAlone' /\ SameSocket'
<1>1. \A s \in Sockets \ mixed : ~Receiving(s)
  BY DEF AnswersOK, CallIsAlone
<1>2. \A s \in Sockets : Receiving(s)' => Receiving(s)
  BY LoginVerifyAssumption DEF Receiving
<1>3. SameSocket'
  BY DEF AnswersOK, SameSocket
<1> QED
  BY <1>1, <1>2, <1>3 DEF CallIsAlone

LEMMA LocalKeeperAnswers ==
  ASSUME TypeOK, AnswersOK, NEW k \in Keepers,
         Check(k) \/ ReceivePoll(k) \/ Publish(k) \/ SetSocket(k)
  PROVE  AnswersOK'
<1> USE LoginVerifyAssumption
        DEF TypeOK, Check, ReceivePoll, Publish, SetSocket, goto, Threads, network
<1>1. /\ Alive(k) /\ UNCHANGED <<pc[Caller], on[Caller], mixed>>
      /\ clientSocket_' \in {clientSocket_, NULL}
      /\ UNCHANGED <<link, requests, replies, kicked>>
      /\ \A j \in Keepers \ {k} : pc'[j] = pc[j] /\ on'[j] = on[j]
  BY DEF Alive
<1>2. QueuesMatchLink' /\ CallIsAlone' /\ SameSocket'
  BY <1>1, AliveCalls DEF AnswersOK, QueuesMatchLink
<1>3. \A s \in Sockets : /\ Usable(s)' => Usable(s)
                         /\ PollsOnly(s)' <=> PollsOnly(s)
                         /\ InTransit(s)' = InTransit(s)
  BY <1>1 DEF Usable, PollsOnly, InTransit
<1>4. \A s \in Sockets : Polled(s)' => Polled(s)
  BY <1>1 DEF Polled
<1>5. NothingLeft'
  <2> SUFFICES ASSUME NEW s \in Sockets \ mixed, Usable(s)', \A j \in Keepers : ~Ending(j)'
               PROVE  InTransit(s)' <= Cardinality(WaitingOn(s))'
    BY DEF NothingLeft
  <2>1. clientSocket_' = s /\ clientSocket_ = s /\ s # NULL
    BY <1>1 DEF Usable
  <2>2. Check(k) \/ ReceivePoll(k)
    BY <2>1 DEF Ending
  <2>3. WaitingOn(s)' = WaitingOn(s)
    BY <1>1, <2>1, <2>2 DEF WaitingOn
  <2>4. \A j \in Keepers : ~Ending(j)
    BY <1>1, <2>2 DEF Ending
  <2> QED
    BY <1>3, <2>3, <2>4 DEF AnswersOK, NothingLeft
<1>6. PollsWhilePolled'
  BY <1>1, <1>3, <1>4 DEF AnswersOK, PollsWhilePolled
<1> QED
  BY <1>2, <1>5, <1>6 DEF AnswersOK

LEMMA CloseSocketAnswers ==
  ASSUME TypeOK, AnswersOK, NEW k \in Keepers, CloseSocket(k)
  PROVE  AnswersOK'
<1> USE LoginVerifyAssumption DEF TypeOK, CloseSocket, goto, Threads
<1>1. /\ Alive(k) /\ UNCHANGED <<pc[Caller], on, clientSocket_, mixed>> /\ Ending(k)'
      /\ \A j \in Keepers : pc'[j] \in {"receive", "recv"} => pc'[j] = pc[j]
  BY DEF Alive, Ending
<1>2. /\ QueuesMatchLink'
      /\ \A s \in Sockets : PollsOnly(s) => PollsOnly(s)'
      /\ \A s \in Sockets : link'[s] = "closed" \/ link'[s] = link[s]
  BY CloseAnswers
<1>3. CallIsAlone' /\ SameSocket' /\ NothingLeft'
  BY <1>1, AliveCalls DEF NothingLeft
<1>4. \A s \in Sockets : (Usable(s)' => Usable(s)) /\ (Polled(s)' => Polled(s))
  BY <1>1, <1>2 DEF Usable, Polled
<1>5. PollsWhilePolled'
  BY <1>1, <1>2, <1>4 DEF AnswersOK, PollsWhilePolled
<1> QED
  BY <1>2, <1>3, <1>5 DEF AnswersOK

LEMMA PollAnswers ==
  ASSUME TypeOK, AnswersOK, NEW k \in Keepers, Poll(k)
  PROVE  AnswersOK'
<1> USE LoginVerifyAssumption DEF TypeOK, Poll, goto, Threads
<1>1. /\ Alive(k) /\ UNCHANGED <<pc[Caller], on, clientSocket_, mixed>>
      /\ \A j \in Keepers \ {k} : pc'[j] = pc[j]
      /\ pc[k] = "send"
  BY DEF Alive
<1>2. CallIsAlone' /\ SameSocket'
  BY <1>1, AliveCalls
<1>3. CASE UNCHANGED network /\ pc'[k] = "lost"
  <2>1. QueuesMatchLink' /\ NothingLeft'
    BY <1>3 DEF AnswersOK, QueuesMatchLink, NothingLeft, Ending, network
  <2>2. \A s \in Sockets :
          /\ Usable(s)' => Usable(s)
          /\ Polled(s)' => Polled(s)
          /\ PollsOnly(s) => PollsOnly(s)'
    BY <1>1, <1>3 DEF Usable, Polled, PollsOnly, network
  <2>3. PollsWhilePolled'
    BY <1>1, <2>2 DEF AnswersOK, PollsWhilePolled
  <2> QED
    BY <1>2, <2>1, <2>3 DEF AnswersOK
<1>4. CASE Send(clientSocket_, NoRequest) /\ pc'[k] = "receive"
  <2>1. PICK c \in Sockets : c = clientSocket_ /\ link[c] \in {"up", "ended"}
    BY <1>4 DEF Send, CanSend
  <2>2. \A s \in Sockets \ {c} :
          link'[s] = link[s] /\ requests'[s] = requests[s] /\ replies'[s] = replies[s]
    BY <1>4, <2>1 DEF Send
  <2>3. /\ replies' = replies /\ kicked' = kicked
        /\ \/ link'[c] = "up" /\ link[c] = "up"
              /\ requests'[c] = Append(requests[c], NoRequest)
           \/ link'[c] = "reset" /\ link[c] = "ended" /\ requests'[c] = requests[c]
    BY <1>4, <2>1 DEF Send
  <2>4. QueuesMatchLink'
    BY <2>1, <2>2, <2>3 DEF AnswersOK, QueuesMatchLink
  <2>5. c \notin mixed => Usable(c)
    BY <1>1, <2>1 DEF AnswersOK, CallIsAlone, SameSocket, Receiving, Usable
  <2>6. /\ Len(requests'[c]) <= Len(requests[c]) + 1
        /\ \A i \in 1 .. Len(requests'[c]) :
             requests'[c][i] = NoRequest \/ (i \in 1 .. Len(requests[c])
                                             /\ requests'[c][i] = requests[c][i])
    BY <2>3
  <2>7. NothingLeft'
    <3> SUFFICES ASSUME NEW s \in Sockets \ mixed, Usable(s)', \A j \in Keepers : ~Ending(j)'
                 PROVE  InTransit(s)' <= Cardinality(WaitingOn(s)')
      BY <1>1 DEF NothingLeft
    <3>1. s = c
      BY <1>1, <2>1 DEF Usable
    <3>2. \A j \in Keepers : ~Ending(j)
      BY <1>1 DEF Ending
    <3>3. InTransit(c) <= Cardinality(WaitingOn(c))
      BY <2>5, <3>1, <3>2 DEF AnswersOK, NothingLeft
    <3>4. WaitingOn(c)' = WaitingOn(c) \cup {k} /\ k \notin WaitingOn(c)
      BY <1>1, <1>4 DEF WaitingOn
    <3>5. Cardinality(WaitingOn(c)') = Cardinality(WaitingOn(c)) + 1
      BY <3>4, WaitingFinite, FS_AddElement
    <3>6. InTransit(c)' <= InTransit(c) + 1
      BY <2>3, <2>6 DEF InTransit
    <3>7. InTransit(c) \in Nat /\ InTransit(c)' \in Nat
      BY <2>3 DEF InTransit
    <3> QED
      BY <3>1, <3>3, <3>5, <3>6, <3>7, WaitingFinite
  <2>8. PollsWhilePolled'
    <3> SUFFICES ASSUME NEW s \in Sockets \ mixed, Usable(s)' \/ Polled(s)'
                 PROVE  PollsOnly(s)'
      BY <1>1 DEF PollsWhilePolled
    <3>1. CASE s = c
      <4>1. PollsOnly(c)
        BY <2>5, <3>1 DEF AnswersOK, PollsWhilePolled
      <4> QED
        <5>1. NoRequest.by = "poll"
          BY DEF NoRequest, Request
        <5>2. \A i \in 1 .. Len(requests'[c]) : requests'[c][i].by = "poll"
          BY <2>6, <4>1, <5>1 DEF PollsOnly
        <5>3. \A i \in 1 .. Len(replies'[c]) : replies'[c][i].one => c \in kicked'
          BY <2>3, <4>1 DEF PollsOnly
        <5> QED
          BY <3>1, <5>2, <5>3 DEF PollsOnly
    <3>2. CASE s # c
      <4>1. Polled(s)
        BY <1>1, <1>4, <2>1, <3>2 DEF Usable, Polled
      <4> QED
        BY <2>2, <2>3, <3>2, <4>1 DEF AnswersOK, PollsWhilePolled, PollsOnly
    <3> QED
      BY <3>1, <3>2
  <2> QED
    BY <1>2, <2>4, <2>7, <2>8 DEF AnswersOK
<1> QED
  BY <1>3, <1>4

LEMMA PollReplyAnswers ==
  ASSUME TypeOK, AnswersOK, NEW k \in Keepers, PollReply(k)
  PROVE  AnswersOK'
<1> USE LoginVerifyAssumption DEF TypeOK, PollReply, leave, goto, Threads
<1>1. /\ Alive(k) /\ UNCHANGED <<pc[Caller], on[Caller], clientSocket_, mixed>>
      /\ \A j \in Keepers \ {k} : pc'[j] = pc[j] /\ on'[j] = on[j]
      /\ pc[k] = "recv" /\ pc'[k] \in {"told", "sleep", "lost"}
  BY DEF Alive
<1>2. CallIsAlone' /\ SameSocket'
  BY <1>1, AliveCalls
<1>3. CASE UNCHANGED network
  <2> USE <1>3 DEF network
  <2>1. QueuesMatchLink'
    BY DEF AnswersOK, QueuesMatchLink
  <2>2. \A s \in Sockets :
          /\ Usable(s)' => Usable(s)
          /\ Polled(s)' => Polled(s)
          /\ PollsOnly(s) => PollsOnly(s)'
    BY <1>1 DEF Usable, Polled, PollsOnly
  <2>3. PollsWhilePolled'
    BY <1>1, <2>2 DEF AnswersOK, PollsWhilePolled
  <2>4. NothingLeft'
    <3> SUFFICES ASSUME NEW s \in Sockets \ mixed, Usable(s)', \A j \in Keepers : ~Ending(j)'
                 PROVE  InTransit(s)' <= Cardinality(WaitingOn(s)')
      BY <1>1 DEF NothingLeft
    <3>1. pc'[k] = "sleep" /\ \A j \in Keepers : ~Ending(j)
      BY <1>1 DEF Ending
    <3>2. CASE on[k] = s
      <4>1. replies[s] = << >> /\ requests[s] = << >>
        <5>1. Arrives(s) \/ Ended(s)
          BY <3>1, <3>2
        <5>2. ~Arrives(s)
          <6>1. ASSUME NEW n \in 1 .. Len(replies[s]),
                       replies' = [replies EXCEPT ![s] = DropFirst(@, n)]
                PROVE  FALSE
            <7>1. replies[s] \in Seq(Answers)
              BY DEF Answers
            <7>2. Len(DropFirst(replies[s], n)) = Len(replies[s]) - n
              BY <7>1, DropFirstElements
            <7>3. replies[s] = DropFirst(replies[s], n)
              BY <6>1
            <7>4. Len(replies[s]) \in Nat /\ n \in Nat /\ n >= 1
              BY <7>1, LenProperties
            <7> QED
              BY <7>2, <7>3, <7>4
          <6> QED
            BY <6>1 DEF Arrives
        <5> QED
          BY <5>1, <5>2 DEF Ended, AnswersOK, QueuesMatchLink
      <4> QED
        BY <4>1, WaitingFinite DEF InTransit
    <3>3. CASE on[k] # s
      <4>1. WaitingOn(s)' = WaitingOn(s)
        BY <1>1, <3>3 DEF WaitingOn
      <4>2. Usable(s) /\ InTransit(s)' = InTransit(s)
        BY <2>2 DEF InTransit
      <4> QED
        BY <3>1, <4>1, <4>2 DEF AnswersOK, NothingLeft
    <3> QED
      BY <3>2, <3>3
  <2> QED
    BY <1>2, <2>1, <2>3, <2>4 DEF AnswersOK
<1>4. CASE Arrives(on[k])
  <2>1. PICK r \in Sockets :
          r = on[k] /\ link[r] \in {"up", "ended", "reset"} /\ replies[r] \in Seq(Answers)
    BY <1>4 DEF Arrives, Answers
  <2>2. PICK n \in 1 .. Len(replies[r]) : replies' = [replies EXCEPT ![r] = DropFirst(@, n)]
    BY <1>4, <2>1 DEF Arrives
  <2>3. /\ Len(replies'[r]) = Len(replies[r]) - n
        /\ \A i \in 1 .. Len(replies'[r]) :
             n + i \in 1 .. Len(replies[r]) /\ replies'[r][i] = replies[r][n + i]
        /\ \A s \in Sockets \ {r} : replies'[s] = replies[s]
        /\ UNCHANGED <<link, requests, kicked>>
    BY <1>4, <2>1, <2>2, DropFirstElements DEF Arrives
  <2>4. QueuesMatchLink'
    BY <2>1, <2>3 DEF AnswersOK, QueuesMatchLink
  <2>5. PollsWhilePolled'
    <3> SUFFICES ASSUME NEW s \in Sockets \ mixed, Usable(s)' \/ Polled(s)'
                 PROVE  PollsOnly(s)'
      BY <1>1 DEF PollsWhilePolled
    <3>1. Usable(s) \/ Polled(s)
      BY <1>1, <2>3 DEF Usable, Polled
    <3>2. PollsOnly(s)
      BY <3>1 DEF AnswersOK, PollsWhilePolled
    <3> QED
      BY <2>3, <3>2 DEF PollsOnly
  <2>6. NothingLeft'
    <3> SUFFICES ASSUME NEW s \in Sockets \ mixed, Usable(s)', \A j \in Keepers : ~Ending(j)'
                 PROVE  InTransit(s)' <= Cardinality(WaitingOn(s)')
      BY <1>1 DEF NothingLeft
    <3>1. Usable(s) /\ \A j \in Keepers : ~Ending(j)
      BY <1>1, <2>3 DEF Usable, Ending
    <3>2. InTransit(s) <= Cardinality(WaitingOn(s))
      BY <3>1 DEF AnswersOK, NothingLeft
    <3>3. CASE s = r
      <4>1. WaitingOn(s)' = WaitingOn(s) \ {k} /\ k \in WaitingOn(s)
        BY <1>1, <2>1, <3>3 DEF WaitingOn
      <4>2. Cardinality(WaitingOn(s)') = Cardinality(WaitingOn(s)) - 1
        BY <4>1, WaitingFinite, FS_RemoveElement
      <4>3. InTransit(s)' = InTransit(s) - n /\ n \in Nat /\ n >= 1 /\ InTransit(s) \in Nat
        BY <2>1, <2>2, <2>3, <3>3 DEF InTransit
      <4> QED
        BY <3>2, <4>2, <4>3, WaitingFinite
    <3>4. CASE s # r
      <4>1. WaitingOn(s)' = WaitingOn(s) /\ InTransit(s)' = InTransit(s)
        BY <1>1, <2>1, <2>3, <3>4 DEF WaitingOn, InTransit
      <4> QED
        BY <3>2, <4>1
    <3> QED
      BY <3>3, <3>4
  <2> QED
    BY <1>2, <2>4, <2>5, <2>6 DEF AnswersOK
<1> QED
  BY <1>3, <1>4

(* Serving a request moves it from one queue to the other: nothing is added to  *)
(* what is on its way.                                                          *)
LEMMA ServeCount ==
  ASSUME NEW x \in Nat, NEW y \in Nat, NEW m \in 1 .. x, NEW t, NEW u,
         t = x + y, u = (x - m) + (y + 1)
  PROVE  /\ u \in Int
         /\ t <= 1 => m = 1 /\ u <= 1
         /\ \A bound \in Nat : t <= bound => u <= bound
OBVIOUS

-----------------------------------------------------------------------------
(* The steps of the server and the network.                                *)
LEMMA ServeAnswers ==
  ASSUME TypeOK, AnswersOK, NEW c \in Sockets, Serve(c)
  PROVE  AnswersOK'
<1>1. PICK n \in 1 .. Len(requests[c]), b \in BOOLEAN :
        /\ requests' = [requests EXCEPT ![c] = DropFirst(@, n)]
        /\ replies' = [replies EXCEPT ![c] =
                         Append(@, Reply(IF n = 1 THEN Head(requests[c]) ELSE NULL, b))]
        /\ n = 1 /\ Head(requests[c]).by = "poll" => b = (c \in kicked)
        /\ n > 1 => ~b
  BY DEF Serve
<1>2. UNCHANGED <<clientSocket_, pc, on, call, link, kicked, mixed>> /\ link[c] = "up"
  BY DEF Serve
<1>3. PICK a : a = Reply(IF n = 1 THEN Head(requests[c]) ELSE NULL, b)
  OBVIOUS
<1>4. requests[c] \in Seq(Calls) /\ replies[c] \in Seq(Answers)
  BY DEF TypeOK, Answers
<1>5. /\ Len(requests'[c]) = Len(requests[c]) - n
      /\ \A i \in 1 .. Len(requests'[c]) :
           n + i \in 1 .. Len(requests[c]) /\ requests'[c][i] = requests[c][n + i]
      /\ Head(requests[c]) = requests[c][1]
  <2>1. requests'[c] = DropFirst(requests[c], n)
    BY <1>1 DEF TypeOK
  <2>2. /\ Len(DropFirst(requests[c], n)) = Len(requests[c]) - n
        /\ \A i \in 1 .. Len(requests[c]) - n :
             DropFirst(requests[c], n)[i] = requests[c][n + i] /\ n + i \in 1 .. Len(requests[c])
        /\ Head(requests[c]) = requests[c][1]
    BY <1>4, DropFirstElements
  <2> QED
    BY <2>1, <2>2
<1>6. a \in Answers
  BY <1>3, <1>4, DropFirstType DEF Reply, Answers
<1>7. replies'[c] = Append(replies[c], a)
  BY <1>1, <1>3 DEF TypeOK
<1>8. /\ Len(replies'[c]) = Len(replies[c]) + 1
      /\ \A i \in 1 .. Len(replies'[c]) :
           replies'[c][i] = a \/ (i \in 1 .. Len(replies[c]) /\ replies'[c][i] = replies[c][i])
  BY <1>4, <1>6, <1>7, AppendProperties
<1>9. \A s \in Sockets \ {c} : requests'[s] = requests[s] /\ replies'[s] = replies[s]
  BY <1>1 DEF TypeOK
<1>10. \A s \in Sockets : /\ Receiving(s)' <=> Receiving(s)
                          /\ Usable(s)' <=> Usable(s)
                          /\ Polled(s)' <=> Polled(s)
                          /\ WaitingOn(s)' = WaitingOn(s)
  BY <1>2 DEF Receiving, Usable, Polled, WaitingOn
<1>11. /\ InTransit(c) <= 1 => n = 1 /\ InTransit(c)' <= 1
       /\ \A bound \in Nat : InTransit(c) <= bound => InTransit(c)' <= bound
  <2>1. Len(requests[c]) \in Nat /\ Len(replies[c]) \in Nat
    BY <1>4, LenProperties
  <2>2. InTransit(c)' = (Len(requests[c]) - n) + (Len(replies[c]) + 1)
    BY <1>5, <1>8 DEF InTransit
  <2>3. InTransit(c) = Len(requests[c]) + Len(replies[c])
    BY DEF InTransit
  <2> QED
    BY <2>1, <2>2, <2>3, ServeCount
<1>12. QueuesMatchLink' /\ SameSocket'
  BY <1>2, <1>9 DEF AnswersOK, QueuesMatchLink, SameSocket
<1>13. CallIsAlone'
  <2> SUFFICES ASSUME NEW s \in Sockets \ mixed, Receiving(s)
               PROVE  /\ \A k \in Keepers : ~Alive(k)'
                      /\ s = clientSocket_'
                      /\ InTransit(s)' <= 1
                      /\ \A i \in 1 .. Len(requests'[s]) : requests'[s][i] = call
                      /\ \A i \in 1 .. Len(replies'[s]) : replies'[s][i].to = call
    BY <1>2, <1>10 DEF CallIsAlone
  <2>1. /\ \A k \in Keepers : ~Alive(k)
        /\ s = clientSocket_
        /\ InTransit(s) <= 1
        /\ \A i \in 1 .. Len(requests[s]) : requests[s][i] = call
        /\ \A i \in 1 .. Len(replies[s]) : replies[s][i].to = call
    BY DEF AnswersOK, CallIsAlone
  <2>2. CASE s # c
    <3>1. InTransit(s)' = InTransit(s)
      BY <1>9, <2>2 DEF InTransit
    <3>2. \A k \in Keepers : ~Alive(k)'
      BY <1>2, <2>1 DEF Alive
    <3> QED
      BY <1>2, <1>9, <2>1, <2>2, <3>1, <3>2
  <2>3. CASE s = c
    <3>2. n = 1
      BY <1>11, <2>1, <2>3
    <3>3. 1 \in 1 .. Len(requests[c])
      BY <3>2
    <3>4. a.to = call
      BY <1>3, <1>5, <2>1, <2>3, <3>2, <3>3 DEF Reply
    <3>5. InTransit(c)' <= 1
      BY <1>11, <2>1, <2>3
    <3>6. \A k \in Keepers : ~Alive(k)'
      BY <1>2, <2>1 DEF Alive
    <3>7. \A i \in 1 .. Len(requests'[c]) : requests'[c][i] = call
      BY <1>5, <2>1, <2>3
    <3>8. \A i \in 1 .. Len(replies'[c]) : replies'[c][i].to = call
      BY <1>8, <2>1, <2>3, <3>4
    <3> QED
      BY <1>2, <2>1, <2>3, <3>5, <3>6, <3>7, <3>8
  <2> QED
    BY <2>2, <2>3
<1>14. NothingLeft'
  <2> SUFFICES ASSUME NEW s \in Sockets \ mixed, Usable(s), \A k \in Keepers : ~Ending(k)
               PROVE  InTransit(s)' <= Cardinality(WaitingOn(s))
    BY <1>2, <1>10 DEF NothingLeft, Ending
  <2>1. InTransit(s) <= Cardinality(WaitingOn(s))
    BY DEF AnswersOK, NothingLeft
  <2>2. CASE s # c
    BY <1>9, <2>1, <2>2 DEF InTransit
  <2>3. CASE s = c
    BY <1>11, <2>1, <2>3, WaitingFinite
  <2> QED
    BY <2>2, <2>3
<1>15. PollsWhilePolled'
  <2> SUFFICES ASSUME NEW s \in Sockets \ mixed, Usable(s) \/ Polled(s)
               PROVE  PollsOnly(s)'
    BY <1>2, <1>10 DEF PollsWhilePolled
  <2>1. PollsOnly(s)
    BY DEF AnswersOK, PollsWhilePolled
  <2>2. CASE s # c
    BY <1>2, <1>9, <2>1, <2>2 DEF PollsOnly
  <2>3. CASE s = c
    <3>1. a.one => c \in kicked
      <4>1. a.one = b
        BY <1>3 DEF Reply
      <4>2. CASE n = 1
        <5>1. Head(requests[c]).by = "poll"
          BY <1>5, <1>11, <2>1, <2>3, <4>2 DEF PollsOnly
        <5> QED
          BY <1>1, <4>1, <4>2, <5>1
      <4>3. CASE n > 1
        BY <1>1, <4>1, <4>3
      <4> QED
        BY <1>11, <4>2, <4>3
    <3>2. \A i \in 1 .. Len(requests'[c]) : requests'[c][i].by = "poll"
      BY <1>5, <2>1, <2>3 DEF PollsOnly
    <3>3. \A i \in 1 .. Len(replies'[c]) : replies'[c][i].one => c \in kicked'
      BY <1>2, <1>8, <2>1, <2>3, <3>1 DEF PollsOnly
    <3> QED
      BY <2>3, <3>2, <3>3 DEF PollsOnly
  <2> QED
    BY <2>2, <2>3
<1> QED
  BY <1>12, <1>13, <1>14, <1>15 DEF AnswersOK

LEMMA ServerAnswers ==
  ASSUME TypeOK, AnswersOK, Network
  PROVE  AnswersOK'
<1> PICK c \in Sockets : Serve(c) \/ Kick(c) \/ ServerEnds(c)
  BY DEF Network
<1>1. CASE Serve(c)
  BY <1>1, ServeAnswers
<1>2. CASE Kick(c) \/ ServerEnds(c)
  <2>1. UNCHANGED <<clientSocket_, pc, on, call, mixed, replies>> /\ kicked \subseteq kicked'
    BY <1>2 DEF Kick, ServerEnds
  <2>2. \A s \in Sockets :
          \/ link'[s] = link[s] /\ requests'[s] = requests[s]
          \/ link'[s] \in {"ended", "reset"} /\ link[s] = "up" /\ requests'[s] = << >>
    BY <1>2 DEF Kick, ServerEnds, TypeOK
  <2>3. QueuesMatchLink' /\ SameSocket'
    BY <2>1, <2>2 DEF AnswersOK, QueuesMatchLink, SameSocket
  <2>4. \A s \in Sockets : /\ Receiving(s)' <=> Receiving(s)
                           /\ Usable(s)' => Usable(s)
                           /\ Polled(s)' <=> Polled(s)
                           /\ WaitingOn(s)' = WaitingOn(s)
                           /\ PollsOnly(s) => PollsOnly(s)'
    BY <2>1, <2>2 DEF Receiving, Usable, Polled, WaitingOn, PollsOnly
  <2>5. \A s \in Sockets : InTransit(s)' <= InTransit(s) /\ InTransit(s) \in Nat
                           /\ InTransit(s)' \in Nat
    <3> SUFFICES ASSUME NEW s \in Sockets
                 PROVE  InTransit(s)' <= InTransit(s) /\ InTransit(s) \in Nat
                        /\ InTransit(s)' \in Nat
      OBVIOUS
    <3>1. Len(requests[s]) \in Nat /\ Len(replies[s]) \in Nat
      BY TransitType
    <3>2. Len(requests'[s]) = Len(requests[s]) \/ Len(requests'[s]) = 0
      BY <2>2
    <3>3. Len(replies'[s]) = Len(replies[s])
      BY <2>1
    <3>4. \A x, y \in Nat : x + y \in Nat /\ 0 + y \in Nat /\ 0 + y <= x + y /\ x + y <= x + y
      OBVIOUS
    <3> QED
      BY <3>1, <3>2, <3>3, <3>4 DEF InTransit
  <2>6. CallIsAlone'
    BY <2>1, <2>2, <2>4, <2>5 DEF AnswersOK, CallIsAlone, Alive
  <2>7. NothingLeft'
    <3> SUFFICES ASSUME NEW s \in Sockets \ mixed, Usable(s)', \A k \in Keepers : ~Ending(k)
                 PROVE  InTransit(s)' <= Cardinality(WaitingOn(s))
      BY <2>1, <2>4 DEF NothingLeft, Ending
    <3>1. InTransit(s) <= Cardinality(WaitingOn(s))
      BY <2>4 DEF AnswersOK, NothingLeft
    <3> QED
      BY <2>5, <3>1, WaitingFinite
  <2>8. PollsWhilePolled'
    BY <2>1, <2>4 DEF AnswersOK, PollsWhilePolled
  <2> QED
    BY <2>3, <2>6, <2>7, <2>8 DEF AnswersOK
<1> QED
  BY <1>1, <1>2

-----------------------------------------------------------------------------
LEMMA SameAnswers ==
  ASSUME AnswersOK, UNCHANGED vars
  PROVE  AnswersOK'
<1> USE DEF vars, network
<1>1. QueuesMatchLink' /\ SameSocket'
  BY DEF AnswersOK, QueuesMatchLink, SameSocket
<1>2. \A s \in Sockets : /\ Receiving(s)' <=> Receiving(s)
                         /\ Usable(s)' <=> Usable(s)
                         /\ Polled(s)' <=> Polled(s)
                         /\ WaitingOn(s)' = WaitingOn(s)
                         /\ PollsOnly(s) <=> PollsOnly(s)'
                         /\ InTransit(s)' = InTransit(s)
  BY DEF Receiving, Usable, Polled, WaitingOn, PollsOnly, InTransit
<1>3. CallIsAlone'
  BY <1>2 DEF AnswersOK, CallIsAlone, Alive
<1>4. NothingLeft'
  BY <1>2 DEF AnswersOK, NothingLeft, Ending
<1>5. PollsWhilePolled'
  BY <1>2 DEF AnswersOK, PollsWhilePolled
<1> QED
  BY <1>1, <1>3, <1>4, <1>5 DEF AnswersOK

LEMMA StepAnswers == TypeOK /\ AnswersOK /\ [Next]_vars => AnswersOK'
<1> SUFFICES ASSUME TypeOK, AnswersOK, [Next]_vars PROVE AnswersOK'
  OBVIOUS
<1>1. ASSUME NEW k \in Keepers, ReLogin(k) PROVE AnswersOK'
  BY <1>1, LocalKeeperAnswers, CloseSocketAnswers, PollAnswers, PollReplyAnswers DEF ReLogin
<1> QED
  BY <1>1, CallerAnswers, ServerAnswers, SameAnswers DEF Next, Client

LEMMA AnswersInvariant == Spec => []AnswersOK
BY InitAnswers, StepAnswers, TypeCorrect, PTL DEF Spec

(* A call returns the answer to something else only on a connection on     *)
(* which it, or an earlier call, was not alone or has been given up.       *)
THEOREM OwnAnswer == Spec => OtherResultOnlyIfMixed
<1>1. TypeOK /\ AnswersOK /\ [Next]_vars =>
        [pc[Caller] = "recv" /\ pc'[Caller] = "ready" /\ result' = "other" =>
           on[Caller] \in mixed]_vars
  <2> SUFFICES ASSUME TypeOK, AnswersOK, [Next]_vars, pc[Caller] = "recv",
                      pc'[Caller] = "ready", result' = "other", on[Caller] \notin mixed
               PROVE  FALSE
    OBVIOUS
  <2> USE LoginVerifyAssumption DEF TypeOK, Threads, Caller, goto, leave
  <2>1. ReturnReply
    <3>1. ~Network /\ ~UNCHANGED vars
      BY DEF Network, Serve, Kick, ServerEnds, vars
    <3>2. ASSUME NEW k \in Keepers, ReLogin(k) PROVE FALSE
      BY <3>2 DEF ReLogin, Check, Poll, ReceivePoll, PollReply, Publish, CloseSocket, SetSocket
    <3>3. CallerNext
      BY <3>1, <3>2 DEF Next, Client
    <3>4. ~InitEnv /\ ~Connect /\ ~Query /\ ~Login /\ ~Receive /\ ~KeepAlive /\ ~cleanEnv
      BY DEF InitEnv, Connect, Query, Login, SendCall, Receive, KeepAlive, cleanEnv, Ready
    <3>5. ~ReturnNothing
      BY DEF ReturnNothing
    <3> QED
      BY <3>3, <3>4, <3>5 DEF CallerNext
  <2>2. PICK s \in Sockets : s = on[Caller] /\ replies[s] # << >>
    BY <2>1 DEF ReturnReply, Arrives
  <2>3. Head(replies[s]).to # call
    BY <2>1, <2>2 DEF ReturnReply
  <2>4. \A i \in 1 .. Len(replies[s]) : replies[s][i].to = call
    BY <2>2 DEF AnswersOK, CallIsAlone, Receiving
  <2>5. 1 \in 1 .. Len(replies[s]) /\ Head(replies[s]) = replies[s][1]
    BY <2>2, EmptySeq, HeadTailProperties
  <2> QED
    BY <2>3, <2>4, <2>5
<1> QED
  BY <1>1, TypeCorrect, AnswersInvariant, PTL DEF Spec, OtherResultOnlyIfMixed

(* A thread of KeepAlive that reports a second login has been told so by   *)
(* the server, or polled on a mixed connection.                            *)
THEOREM ToldByServer == Spec => ToldOnlyIfKicked
<1>1. TypeOK /\ AnswersOK /\ [Next]_vars =>
        [\A k \in Keepers :
           pc[k] # "told" /\ pc'[k] = "told" => on[k] \in kicked \cup mixed]_vars
  <2> SUFFICES ASSUME TypeOK, AnswersOK, [Next]_vars, NEW k \in Keepers,
                      pc[k] # "told", pc'[k] = "told"
               PROVE  on[k] \in kicked \cup mixed
    OBVIOUS
  <2> USE LoginVerifyAssumption DEF TypeOK, Threads, Caller, goto, leave
  <2>1. PollReply(k)
    <3>1. ~Network /\ ~UNCHANGED vars
      BY DEF Network, Serve, Kick, ServerEnds, vars
    <3>2. ~CallerNext
      BY DEF CallerNext, InitEnv, Connect, Query, Login, SendCall, Receive, ReturnReply,
             ReturnNothing, KeepAlive, cleanEnv
    <3>3. PICK j \in Keepers : ReLogin(j)
      BY <3>1, <3>2 DEF Next, Client
    <3> QED
      BY <3>3 DEF ReLogin, Check, Poll, ReceivePoll, PollReply, Publish, CloseSocket, SetSocket
  <2>2. PICK s \in Sockets : s = on[k] /\ replies[s] # << >> /\ Head(replies[s]).one
    BY <2>1 DEF PollReply, Arrives
  <2>3. 1 \in 1 .. Len(replies[s]) /\ Head(replies[s]) = replies[s][1]
    BY <2>2, EmptySeq, HeadTailProperties
  <2>4. Polled(s)
    BY <2>1, <2>2 DEF PollReply, Polled
  <2> QED
    BY <2>2, <2>3, <2>4 DEF AnswersOK, PollsWhilePolled, PollsOnly
<1> QED
  BY <1>1, TypeCorrect, AnswersInvariant, PTL DEF Spec, ToldOnlyIfKicked

-----------------------------------------------------------------------------
(* n = 64 a + r: what the functions of Md5Encode come to.                  *)
LEMMA BlockArithmetic ==
  ASSUME NEW n \in Nat
  PROVE  \E a \in Nat, r \in 0 .. 63 :
           /\ n = 64 * a + r
           /\ n % 64 = r
           /\ (n * 8) % 512 = 8 * r
           /\ (n + 1 + 8 + 63) \div 64 = IF r < 56 THEN a + 1 ELSE a + 2
<1>1. n = 64 * (n \div 64) + (n % 64) /\ n \div 64 \in Nat /\ n % 64 \in 0 .. 63
  OBVIOUS
<1>2. PICK a \in Nat, r \in 0 .. 63 : n = 64 * a + r /\ n % 64 = r
  BY <1>1
<1>3. (n * 8) % 512 = 8 * r
  BY <1>2
<1>4. (n + 1 + 8 + 63) \div 64 = IF r < 56 THEN a + 1 ELSE a + 2
  BY <1>2
<1> QED
  BY <1>2, <1>3, <1>4

(* The bytes FillData writes, but for those of the password and the length.*)
LEMMA Filling ==
  ASSUME NEW n \in Nat, NEW a \in Nat, NEW r \in 0 .. 63, (n * 8) % 512 = 8 * r
  PROVE  /\ BitNeedFill(n) = 0 <=> r = 56
         /\ Bytes(BitNeedFill(n)) = IF r <= 56 THEN 56 - r ELSE 120 - r
         /\ Bytes(SRC_DATA_LEN) = 8
         /\ Bytes(BIT_OF_GROUP) = 64
<1>1. BitNeedFill(n) = IF r <= 56 THEN 448 - 8 * r ELSE 960 - 8 * r
  BY DEF BitNeedFill, BIT_OF_BYTE, BIT_OF_GROUP, SRC_DATA_LEN
<1>2. (448 - 8 * r) \div 8 = 56 - r /\ (960 - 8 * r) \div 8 = 120 - r
  OBVIOUS
<1>3. Bytes(SRC_DATA_LEN) = 8 /\ Bytes(BIT_OF_GROUP) = 64
  BY DEF Bytes, BIT_OF_BYTE, BIT_OF_GROUP, SRC_DATA_LEN
<1> QED
  BY <1>1, <1>2, <1>3 DEF Bytes, BIT_OF_BYTE

(* At 56 bytes past a block nothing is filled.                             *)
LEMMA NothingFilled ==
  ASSUME NEW n \in Nat, n % 64 = 56
  PROVE  FillData(n).data = NoData
<1>1. BitNeedFill(n) = 0
  BY BlockArithmetic, Filling
<1> QED
  BY <1>1 DEF FillData

(* Otherwise Encode digests the blocks of the standard.                    *)
LEMMA StandardFilled ==
  ASSUME NEW n \in Nat, n % 64 # 56
  PROVE  Blocks(n) = StandardBlocks(n)
<1>1. PICK a \in Nat, r \in 0 .. 63 :
        /\ n = 64 * a + r
        /\ r # 56
        /\ (n * 8) % 512 = 8 * r
        /\ (n + 1 + 8 + 63) \div 64 = IF r < 56 THEN a + 1 ELSE a + 2
  BY BlockArithmetic
<1> DEFINE count == (n + 1 + 8 + 63) \div 64
           all == n + Bytes(BitNeedFill(n))
           total == all + Bytes(SRC_DATA_LEN)
           At(k) == IF k < n THEN "password"
                    ELSE IF k = n THEN "0x80"
                    ELSE IF k < 64 * count - 8 THEN "0" ELSE "length"
           Filled(k) == IF k >= all THEN "length"
                        ELSE IF k < n THEN "password"
                        ELSE IF k = n THEN "0x80" ELSE "0"
<1>2. /\ BitNeedFill(n) # 0
      /\ Bytes(BitNeedFill(n)) = IF r <= 56 THEN 56 - r ELSE 120 - r
      /\ Bytes(SRC_DATA_LEN) = 8
      /\ Bytes(BIT_OF_GROUP) = 64
  BY <1>1, Filling
<1>3. count \in Nat /\ all = 64 * count - 8 /\ total = 64 * count /\ n < all
  BY <1>1, <1>2
<1>4. FillData(n) = [length |-> total, data |-> [i \in 0 .. total - 1 |-> Filled(i)]]
  BY <1>2 DEF FillData
<1> HIDE DEF count, all, total
<1>5. \A k \in Nat : Filled(k) = At(k)
  BY <1>3
<1> HIDE DEF Filled, At
<1> DEFINE filled == FillData(n)
<1>6. /\ DOMAIN filled.data = 0 .. 64 * count - 1
      /\ \A k \in 0 .. 64 * count - 1 : filled.data[k] = At(k)
      /\ filled.length \div 64 = count
  BY <1>3, <1>4, <1>5
<1>7. ASSUME NEW b \in 0 .. count - 1
      PROVE  [i \in { i \in 0 .. 63 : b * 64 + i \in DOMAIN filled.data } |->
                filled.data[b * 64 + i]]
             = [i \in 0 .. 63 |-> At(64 * b + i)]
  <2>1. \A i \in 0 .. 63 : b * 64 + i \in 0 .. 64 * count - 1 /\ b * 64 + i = 64 * b + i
    BY <1>3
  <2>2. { i \in 0 .. 63 : b * 64 + i \in DOMAIN filled.data } = 0 .. 63
    BY <1>6, <2>1
  <2> QED
    BY <1>6, <2>1, <2>2
<1>8. Blocks(n) = [b \in 0 .. count - 1 |->
                     [i \in { i \in 0 .. 63 : b * 64 + i \in DOMAIN filled.data } |->
                        filled.data[b * 64 + i]]]
  <2> DEFINE Cut(size, last) ==
               [b \in 0 .. last |->
                  [i \in { i \in 0 .. size - 1 : b * size + i \in DOMAIN filled.data } |->
                     filled.data[b * size + i]]]
  <2>1. Blocks(n) = Cut(Bytes(BIT_OF_GROUP), filled.length \div Bytes(BIT_OF_GROUP) - 1)
    BY Zenon DEF Blocks
  <2>2. filled.length \div Bytes(BIT_OF_GROUP) - 1 = count - 1
    BY <1>2, <1>6
  <2>3. Cut(64, count - 1) =
          [b \in 0 .. count - 1 |->
             [i \in { i \in 0 .. 63 : b * 64 + i \in DOMAIN filled.data } |->
                filled.data[b * 64 + i]]]
    <3>1. 64 - 1 = 63
      OBVIOUS
    <3> QED
      BY <3>1, Zenon
  <2> HIDE DEF Cut
  <2> QED
    BY <1>2, <2>1, <2>2, <2>3
<1>9. StandardBlocks(n) = [b \in 0 .. count - 1 |-> [i \in 0 .. 63 |-> At(64 * b + i)]]
  BY DEF StandardBlocks, count, At
<1> DEFINE Cut(b) == [i \in { i \in 0 .. 63 : b * 64 + i \in DOMAIN filled.data } |->
                        filled.data[b * 64 + i]]
           Standard(b) == [i \in 0 .. 63 |-> At(64 * b + i)]
<1>10. \A b \in 0 .. count - 1 : Cut(b) = Standard(b)
  BY <1>7, Zenon
<1>11. /\ Blocks(n) = [b \in 0 .. count - 1 |-> Cut(b)]
       /\ StandardBlocks(n) = [b \in 0 .. count - 1 |-> Standard(b)]
  BY <1>8, <1>9, Zenon
<1> HIDE DEF Cut, Standard
<1> QED
  BY <1>10, <1>11

(* md5.cpp cuts a password of any length into the blocks the standard has, *)
(* unless exactly the length is missing to a full block.                   *)
THEOREM PaddingCorrect == PaddingIsStandard
BY Md5Assumption, NothingFilled, StandardFilled DEF PaddingIsStandard

(* So do Login, Register and ResetPassWord, which send its result.         *)
THEOREM HashCorrect == Spec => []HashIsStandard
<1>1. HashIsStandard
  BY PaddingCorrect DEF HashIsStandard
<1> QED
  BY <1>1, PTL
=============================================================================
