---------------------------- MODULE LoginServer ----------------------------
(***************************************************************************)
(* The server: CIOCPModel with a CClientParse in the context of each       *)
(* client.  RunClient, one step in IocpModel, is here the call of Run with *)
(* all the steps ClientParse has for it, while other threads go on, and    *)
(* the call of GetReturnValue.                                             *)
(***************************************************************************)
EXTENDS Integers, FiniteSets

CONSTANTS
  Threads, Accepts, Conns, MaxReply, MaxInbox, Faults,     \* see IocpModel
  Users, Empty, Passwords, Ids, Nodes, Dead, Accounts, UniqueName, Sends, Failed,
                                                           \* see ClientParse
  NULL

VARIABLES
  m_OpType, m_szBuffer, m_nTotalBytes, m_nSendBytes, m_sockAccept, contexts,
  m_arrayClientContext, thread, job, posted, queue, backlog, peer, inbox,
  m_userName, m_userId, m_bReLogin, m_strResult, s_ClientMap, user, user_block,
  free, held, pc, req, row, answered

engine == <<m_OpType, m_szBuffer, m_nTotalBytes, m_nSendBytes, m_sockAccept, contexts,
            m_arrayClientContext, thread, job, posted, queue, backlog, peer, inbox>>
business == <<m_userName, m_userId, m_bReLogin, m_strResult, s_ClientMap, user, user_block,
              free, held, pc, req, row, answered>>
vars == <<engine, business>>

Engine == INSTANCE IocpModel WITH pc <- thread
Business == INSTANCE ClientParse WITH Clients <- Conns

ASSUME LoginServerAssumption ==
  /\ IsFiniteSet(Threads)
  /\ Engine!IocpAssumption
  /\ Business!ClientParseAssumption

Init == Engine!Init /\ Business!Init

-----------------------------------------------------------------------------
(* Thread t is in PostWrite, where it calls Run of k's object.             *)
Runs(t, k) == thread[t] = "run" /\ Engine!Client(t) = k

(* What a thread does outside of Run.                                      *)
Serve(t) ==
  /\ thread[t] # "run"
  /\ Engine!WorkerThread(t)
  /\ UNCHANGED business

(* The sockets and the clients.                                            *)
Outside ==
  /\ Engine!Sockets \/ \E k \in Conns : Engine!Connect(k) \/ Engine!Send(k) \/ Engine!Leave(k)
  /\ UNCHANGED business

(* Run parses what the buffer holds.  The rest of a reply is empty, when   *)
(* only the 0 behind the text is left, or no JSON object.                  *)
Run(t, k) ==
  /\ Runs(t, k)
  /\ Business!Run(k)
  /\ m_szBuffer[k] = "reply" => req'[k].type \in {"invalid", "ignored"}
  /\ UNCHANGED engine

Handle(t, k) ==
  /\ Runs(t, k)
  /\ pc[k] # "reply"
  /\ Business!Handle(k)
  /\ UNCHANGED engine

(* Run has returned; the result is written over the request.               *)
Reply(t, k) ==
  /\ Runs(t, k)
  /\ Business!GetReturnValue(k)
  /\ Engine!RunClient(t)

WorkerThread(t) == Serve(t) \/ \E k \in Conns : Run(t, k) \/ Handle(t, k) \/ Reply(t, k)

Next == Outside \/ \E t \in Threads : WorkerThread(t)

Spec == Init /\ [][Next]_vars

-----------------------------------------------------------------------------
(* "One connection has one business object", and ClientParse describes one *)
(* request of it at a time: an object in the middle of Run is run by one   *)
(* thread.  Only the engine can see to that, the object has no lock.       *)
OneRun ==
  \A k \in Conns :
    pc[k] # "idle" => Cardinality({ t \in Threads : Runs(t, k) }) = 1

(* A request is answered with an earlier result when GetFree finds no      *)
(* node.  That cannot be with as many working connections as threads,      *)
(* whatever becomes of the others.  (The pool has 4; there are 2 threads   *)
(* per processor.)                                                         *)
EnoughConnections ==
  Cardinality(Threads) <= Cardinality(Nodes \ Dead)
    => \A k \in Conns : held[k] # Failed

(* The connections that failed at start and have been lost to a handler.  *)
Lost == { n \in Dead : n \notin free /\ \A k \in Conns : held[k] # n }

(* GetReturnValue returns "the result of the business class".  Alone the   *)
(* business object may return an earlier one (ReturnEarly).  In a server   *)
(* with as many working connections as threads, a request that is not      *)
(* ignored (see Types) is only answered with an earlier result when it met *)
(* a connection that failed at start, which is lost then: there are no     *)
(* more such replies than connections that failed.                         *)
ReplyIsOwn ==
  [][Cardinality(Threads) <= Cardinality(Nodes \ Dead) =>
       /\ Lost \subseteq Lost'
       /\ \A k \in Conns :
            pc[k] # "reply" /\ pc'[k] = "reply" =>
              answered'[k] \/ req'[k].type = "ignored" \/ held[k] \in Lost' \ Lost]_vars
=============================================================================
