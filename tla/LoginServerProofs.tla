------------------------- MODULE LoginServerProofs -------------------------
(***************************************************************************)
(* The server implements the engine, with Run and GetReturnValue as one    *)
(* step, and the business objects, whose requests come from the engine.    *)
(* So the theorems about each of the two hold of the server, and from both *)
(* together follow OneRun, EnoughConnections and ReplyIsOwn.               *)
(***************************************************************************)
EXTENDS LoginServer, FiniteSetTheorems, TLAPS

EngineProofs == INSTANCE IocpServiceProofs WITH pc <- thread
BusinessProofs == INSTANCE ClientParseProofs WITH Clients <- Conns

(* An object in the middle of a request is run by some thread.             *)
RunsFit == \A k \in Conns : pc[k] # "idle" => \E t \in Threads : Runs(t, k)

-----------------------------------------------------------------------------
(* The modules of the theorems extend those of the actions: the definitions *)
(* are the same.                                                           *)
LEMMA Assumptions ==
  /\ EngineProofs!IocpAssumption
  /\ BusinessProofs!ClientParseAssumption
  /\ IsFiniteSet(Nodes)
<1>1. EngineProofs!IocpAssumption
  BY LoginServerAssumption DEF Engine!IocpAssumption, EngineProofs!IocpAssumption,
     Engine!Contexts, EngineProofs!Contexts, Engine!FaultKinds, EngineProofs!FaultKinds
<1>2. IsFiniteSet(Nodes) /\ BusinessProofs!ClientParseAssumption
  BY LoginServerAssumption DEF Business!ClientParseAssumption,
     BusinessProofs!ClientParseAssumption, Business!IsFiniteSet, BusinessProofs!IsFiniteSet,
     IsFiniteSet, Business!Row, BusinessProofs!Row, Business!Request, BusinessProofs!Request,
     Business!Types, BusinessProofs!Types
<1> QED
  BY <1>1, <1>2

LEMMA SameEngine ==
  /\ Engine!Init => EngineProofs!Init
  /\ Engine!Next => EngineProofs!Next
<1>1. Engine!Init => EngineProofs!Init
  BY DEF Engine!Init, EngineProofs!Init, Engine!Contexts, EngineProofs!Contexts
<1>2. Engine!Next => EngineProofs!Next
  BY DEF Engine!Contexts, EngineProofs!Contexts, Engine!buffer, EngineProofs!buffer,
       Engine!objects, EngineProofs!objects, Engine!clients, EngineProofs!clients,
       Engine!vars, EngineProofs!vars, Engine!Connect, EngineProofs!Connect,
       Engine!Send, EngineProofs!Send, Engine!Leave, EngineProofs!Leave,
       Engine!TakeClient, EngineProofs!TakeClient, Engine!Packet, EngineProofs!Packet,
       Engine!Complete, EngineProofs!Complete, Engine!Receive, EngineProofs!Receive,
       Engine!CompleteAccept, EngineProofs!CompleteAccept, Engine!CompleteRecv,
       EngineProofs!CompleteRecv, Engine!CompleteSend, EngineProofs!CompleteSend,
       Engine!Dequeue, EngineProofs!Dequeue, Engine!goto, EngineProofs!goto,
       Engine!_AddToContextList, EngineProofs!_AddToContextList, Engine!_RemoveContext,
       EngineProofs!_RemoveContext, Engine!HandleError, EngineProofs!HandleError,
       Engine!ClientLeft, EngineProofs!ClientLeft, Engine!Transferred, EngineProofs!Transferred,
       Engine!RecvDone, EngineProofs!RecvDone, Engine!SendDone, EngineProofs!SendDone,
       Engine!AcceptDone, EngineProofs!AcceptDone, Engine!Client, EngineProofs!Client,
       Engine!Post, EngineProofs!Post, Engine!DoFirstRecvWithData,
       EngineProofs!DoFirstRecvWithData, Engine!DoFirstRecvWithoutData,
       EngineProofs!DoFirstRecvWithoutData, Engine!RunClient, EngineProofs!RunClient,
       Engine!PostWrite, EngineProofs!PostWrite, Engine!PostRecv,
       EngineProofs!PostRecv, Engine!PostAccept, EngineProofs!PostAccept,
       Engine!WorkerThread, EngineProofs!WorkerThread, Engine!Sockets,
       EngineProofs!Sockets, Engine!Next, EngineProofs!Next
<1> QED
  BY <1>1, <1>2

LEMMA SameBusiness ==
  /\ Business!Init => BusinessProofs!Init
  /\ \A k \in Conns : /\ Business!Run(k) => BusinessProofs!Run(k)
                      /\ Business!Handle(k) => BusinessProofs!Handle(k)
<1>1. Business!Init => BusinessProofs!Init
  BY DEF Business!Init, BusinessProofs!Init, Business!Pool!PoolInit,
         BusinessProofs!Pool!PoolInit, Business!NoRequest, BusinessProofs!NoRequest
<1>2. ASSUME NEW k \in Conns
      PROVE  /\ Business!Run(k) => BusinessProofs!Run(k)
             /\ Business!Handle(k) => BusinessProofs!Handle(k)
  BY DEF Business!session, BusinessProofs!session, Business!db, BusinessProofs!db,
       Business!pool, BusinessProofs!pool, Business!vars, BusinessProofs!vars,
       Business!NoRequest, BusinessProofs!NoRequest, Business!Named,
       BusinessProofs!Named, Business!Matching, BusinessProofs!Matching, Business!goto,
       BusinessProofs!goto, Business!Answer, BusinessProofs!Answer, Business!Finish,
       BusinessProofs!Finish, Business!Continue, BusinessProofs!Continue, Business!At,
       BusinessProofs!At, Business!NeedsLogin, BusinessProofs!NeedsLogin,
       Business!RunWithoutDatabase, BusinessProofs!RunWithoutDatabase,
       Business!RunToDatabase, BusinessProofs!RunToDatabase, Business!Run,
       BusinessProofs!Run, Business!GetFree, BusinessProofs!GetFree,
       Business!ReturnEarly, BusinessProofs!ReturnEarly, Business!Recycle,
       BusinessProofs!Recycle, Business!GetReturnValue, BusinessProofs!GetReturnValue,
       Business!LoginSelectName, BusinessProofs!LoginSelectName,
       Business!LoginSelectPassword, BusinessProofs!LoginSelectPassword,
       Business!RemoveLoginState, BusinessProofs!RemoveLoginState,
       Business!UpdateLoginState, BusinessProofs!UpdateLoginState,
       Business!RegisterSelectName, BusinessProofs!RegisterSelectName,
       Business!RegisterSelectSaler, BusinessProofs!RegisterSelectSaler,
       Business!RegisterInsert, BusinessProofs!RegisterInsert,
       Business!RegisterInsertBlocks, BusinessProofs!RegisterInsertBlocks,
       Business!ResetSelectPassword, BusinessProofs!ResetSelectPassword,
       Business!ResetUpdate, BusinessProofs!ResetUpdate, Business!GetUserLevel,
       BusinessProofs!GetUserLevel, Business!BeyondDeadLine,
       BusinessProofs!BeyondDeadLine, Business!GetFunctionPermission,
       BusinessProofs!GetFunctionPermission, Business!Handle, BusinessProofs!Handle,
       Business!Next, BusinessProofs!Next, Business!Pool!Take,
       BusinessProofs!Pool!Take, Business!Pool!TakeNothing,
       BusinessProofs!Pool!TakeNothing, Business!Pool!GiveUp,
       BusinessProofs!Pool!GiveUp, Business!Pool!Return, BusinessProofs!Pool!Return,
       Business!Pool!Drop, BusinessProofs!Pool!Drop
<1> QED
  BY <1>1, <1>2

-----------------------------------------------------------------------------
LEMMA EngineStep == [Next]_vars => [EngineProofs!Next]_(EngineProofs!vars)
<1> USE DEF vars, engine, EngineProofs!vars, EngineProofs!buffer, EngineProofs!objects,
            EngineProofs!clients
<1>1. Outside => EngineProofs!Next
  BY SameEngine DEF Outside, Engine!Next
<1>2. ASSUME NEW t \in Threads, Serve(t)
      PROVE  EngineProofs!Next
  BY <1>2, SameEngine DEF Serve, Engine!Next
<1>3. ASSUME NEW t \in Threads, NEW k \in Conns, Run(t, k) \/ Handle(t, k)
      PROVE  UNCHANGED EngineProofs!vars
  BY <1>3 DEF Run, Handle
<1>4. ASSUME NEW t \in Threads, NEW k \in Conns, Reply(t, k)
      PROVE  EngineProofs!Next
  BY <1>4, SameEngine DEF Reply, Engine!Next, Engine!WorkerThread
<1>5. UNCHANGED vars => UNCHANGED EngineProofs!vars
  OBVIOUS
<1> QED
  BY <1>1, <1>2, <1>3, <1>4, <1>5 DEF Next, WorkerThread

LEMMA BusinessStep == [Next]_vars => [BusinessProofs!Next]_(BusinessProofs!vars)
<1> USE DEF vars, business, BusinessProofs!vars, BusinessProofs!session, BusinessProofs!db,
            BusinessProofs!pool
<1>1. Outside => UNCHANGED BusinessProofs!vars
  BY DEF Outside
<1>2. ASSUME NEW t \in Threads, Serve(t)
      PROVE  UNCHANGED BusinessProofs!vars
  BY <1>2 DEF Serve
<1>3. ASSUME NEW t \in Threads, NEW k \in Conns, Run(t, k) \/ Handle(t, k) \/ Reply(t, k)
      PROVE  BusinessProofs!Next
  BY <1>3, SameBusiness DEF Run, Handle, Reply, Business!Handle, BusinessProofs!Next
<1>4. UNCHANGED vars => UNCHANGED BusinessProofs!vars
  OBVIOUS
<1> QED
  BY <1>1, <1>2, <1>3, <1>4 DEF Next, WorkerThread

(* The server implements CIOCPModel, for which a request is one step.      *)
THEOREM ImplementsEngine == Spec => EngineProofs!Spec
<1>1. Init => EngineProofs!Init
  BY SameEngine DEF Init
<1> QED
  BY <1>1, EngineStep, PTL DEF Spec, EngineProofs!Spec

(* The server runs the business objects as ClientParse says, whatever the  *)
(* engine and the clients do.                                              *)
THEOREM ImplementsBusiness == Spec => BusinessProofs!Spec
<1>1. Init => BusinessProofs!Init
  BY SameBusiness DEF Init
<1> QED
  BY <1>1, BusinessStep, PTL DEF Spec, BusinessProofs!Spec

-----------------------------------------------------------------------------
CInv == RunsFit /\ EnoughConnections

(* What the theorems about the two parts give.                             *)
Parts ==
  /\ EngineProofs!TypeOK /\ EngineProofs!OneOwner
  /\ BusinessProofs!TypeOK /\ BusinessProofs!NoConnectionLost

LEMMA PartsCorrect == Spec => []Parts
<1>1. EngineProofs!IInv => EngineProofs!TypeOK /\ EngineProofs!OneOwner
  BY DEF EngineProofs!IInv
<1>2. BusinessProofs!IInv => BusinessProofs!TypeOK
  BY DEF BusinessProofs!IInv
<1>3. EngineProofs!Spec => []EngineProofs!IInv
  BY Assumptions, EngineProofs!Invariance
<1>4. BusinessProofs!Spec => []BusinessProofs!IInv
  BY Assumptions, BusinessProofs!Invariance
<1>5. BusinessProofs!Spec => []BusinessProofs!NoConnectionLost
  BY Assumptions, BusinessProofs!ConnectionsKept
<1> QED
  BY <1>1, <1>2, <1>3, <1>4, <1>5, ImplementsEngine, ImplementsBusiness, PTL DEF Parts

(* Two threads that run one object would both own its context.             *)
LEMMA OneThread ==
  ASSUME Parts, NEW k \in Conns, NEW t \in Threads, NEW u \in Threads, Runs(t, k), Runs(u, k)
  PROVE  t = u
BY DEF Parts, Runs, EngineProofs!OneOwner, EngineProofs!Touches, EngineProofs!Contexts,
       Engine!Client, EngineProofs!Client

(* A thread inside of Run stays there while another one moves.             *)
LEMMA OthersServe ==
  ASSUME Parts, NEW t \in Threads, Serve(t), NEW k \in Conns, NEW u \in Threads, Runs(u, k)
  PROVE  Runs(u, k)'
<1> USE DEF Parts, Serve, Runs, Engine!Client, Engine!goto, EngineProofs!TypeOK
<1>1. u # t
  OBVIOUS
<1>2. CASE \/ Engine!HandleError(t) \/ Engine!ClientLeft(t) \/ Engine!RecvDone(t)
           \/ Engine!SendDone(t) \/ Engine!AcceptDone(t)
  BY <1>1, <1>2 DEF Engine!HandleError, Engine!ClientLeft, Engine!RecvDone, Engine!SendDone,
     Engine!AcceptDone
<1>3. CASE \/ Engine!DoFirstRecvWithData(t) \/ Engine!DoFirstRecvWithoutData(t)
           \/ Engine!PostWrite(t) \/ Engine!PostRecv(t)
  BY <1>1, <1>3 DEF Engine!DoFirstRecvWithData, Engine!DoFirstRecvWithoutData,
     Engine!PostWrite, Engine!PostRecv
<1>4. CASE Engine!PostAccept(t)
  <2>1. job[u] # job[t]
    BY <1>1, <1>4 DEF Engine!PostAccept, EngineProofs!OneOwner, EngineProofs!Touches,
       EngineProofs!Contexts, EngineProofs!Client
  <2> QED
    BY <1>1, <1>4, <2>1 DEF Engine!PostAccept
<1> QED
  BY <1>2, <1>3, <1>4 DEF Engine!WorkerThread, Engine!RunClient

(* The sockets and the clients leave the threads where they are.           *)
LEMMA OutsideServes ==
  ASSUME Parts, Outside, NEW k \in Conns, NEW u \in Threads, Runs(u, k)
  PROVE  Runs(u, k)'
<1> USE DEF Parts, Outside, Runs, Engine!Client, EngineProofs!TypeOK
<1>1. CASE \E a \in Accepts, j \in Conns : Engine!TakeClient(a, j)
  BY <1>1, LoginServerAssumption DEF Engine!TakeClient, Engine!IocpAssumption, Engine!Contexts
<1>2. CASE \/ \E a \in Accepts : Engine!CompleteAccept(a)
           \/ \E j \in Conns : Engine!CompleteRecv(j) \/ Engine!CompleteSend(j)
           \/ \E j \in Conns : Engine!Connect(j) \/ Engine!Send(j) \/ Engine!Leave(j)
  BY <1>2 DEF Engine!CompleteAccept, Engine!CompleteRecv, Engine!CompleteSend,
     Engine!Connect, Engine!Send, Engine!Leave
<1> QED
  BY <1>1, <1>2 DEF Engine!Sockets

(* A step of one object leaves the others where they are.                  *)
LEMMA OthersRun ==
  ASSUME Parts, NEW t \in Threads, NEW k \in Conns, Run(t, k) \/ Handle(t, k) \/ Reply(t, k),
         NEW j \in Conns, j # k
  PROVE  pc'[j] = pc[j] /\ held'[j] = held[j]
<1>1. BusinessProofs!Run(k) \/ BusinessProofs!Handle(k)
  BY SameBusiness DEF Run, Handle, Reply, Business!Handle
<1> QED
  BY <1>1, Assumptions, BusinessProofs!OtherClients DEF Parts

LEMMA RunsFitStep ==
  ASSUME Parts, RunsFit, [Next]_vars
  PROVE  RunsFit'
<1> SUFFICES ASSUME NEW j \in Conns, pc'[j] # "idle"
             PROVE  \E t \in Threads : Runs(t, j)'
  BY DEF RunsFit
<1>1. CASE Outside
  BY <1>1, OutsideServes DEF RunsFit, Outside, business
<1>2. ASSUME NEW t \in Threads, Serve(t)
      PROVE  \E u \in Threads : Runs(u, j)'
  BY <1>2, OthersServe DEF RunsFit, Serve, business
<1>3. ASSUME NEW t \in Threads, NEW k \in Conns, Run(t, k) \/ Handle(t, k)
      PROVE  \E u \in Threads : Runs(u, j)'
  <2>1. \A u \in Threads : Runs(u, j) => Runs(u, j)'
    BY <1>3 DEF Run, Handle, engine, Runs, Engine!Client
  <2>2. CASE j = k
    BY <1>3, <2>1, <2>2 DEF Run, Handle
  <2>3. CASE j # k
    BY <1>3, <2>1, <2>3, OthersRun DEF RunsFit
  <2> QED
    BY <2>2, <2>3
<1>4. ASSUME NEW t \in Threads, NEW k \in Conns, Reply(t, k)
      PROVE  \E u \in Threads : Runs(u, j)'
  <2>1. j # k
    BY <1>4 DEF Reply, Business!GetReturnValue, Business!goto, Parts, BusinessProofs!TypeOK
  <2>2. PICK u \in Threads : Runs(u, j)
    BY <1>4, <2>1, OthersRun DEF RunsFit
  <2>3. u # t
    BY <1>4, <2>1, <2>2 DEF Reply, Runs
  <2> QED
    BY <1>4, <2>2, <2>3 DEF Reply, Engine!RunClient, Engine!goto, Runs, Engine!Client, Parts,
       EngineProofs!TypeOK
<1>5. CASE UNCHANGED vars
  BY <1>5 DEF RunsFit, vars, engine, business, Runs, Engine!Client
<1> QED
  BY <1>1, <1>2, <1>3, <1>4, <1>5 DEF Next, WorkerThread

(* With no node free every working connection is with an object, and each  *)
(* of these with a thread of its own: one thread is left for nobody.       *)
LEMMA NodeLeft ==
  ASSUME Parts, RunsFit, NEW t \in Threads, NEW k \in Conns, Runs(t, k), held[k] = NULL,
         Cardinality(Threads) <= Cardinality(Nodes \ Dead)
  PROVE  free # {}
<1> SUFFICES ASSUME free = {} PROVE FALSE
  OBVIOUS
<1> DEFINE Live == Nodes \ Dead
           Uses(n, c, u) == held[c] = n /\ Runs(u, c)
           f == [n \in Live |-> CHOOSE u \in Threads : \E c \in Conns : Uses(n, c, u)]
<1>1. \A n \in Live : f[n] \in Threads /\ \E c \in Conns : Uses(n, c, f[n])
  <2> SUFFICES ASSUME NEW n \in Live
               PROVE  \E u \in Threads : \E c \in Conns : Uses(n, c, u)
    OBVIOUS
  <2>1. PICK c \in Conns : held[c] = n /\ pc[c] \notin {"idle", "reply"}
    BY DEF Parts, BusinessProofs!NoConnectionLost
  <2> QED
    BY <2>1 DEF RunsFit
<1>2. \A u \in Threads, c \in Conns, d \in Conns : Runs(u, c) /\ Runs(u, d) => c = d
  BY DEF Runs
<1>3. \A n \in Live : f[n] # t
  <2> SUFFICES ASSUME NEW n \in Live, f[n] = t PROVE FALSE
    OBVIOUS
  <2>1. PICK c \in Conns : Uses(n, c, t)
    BY <1>1
  <2>2. n = NULL
    BY <2>1, <1>2
  <2> QED
    BY <2>2, LoginServerAssumption DEF Business!ClientParseAssumption
<1>4. \A m \in Live, n \in Live : f[m] = f[n] => m = n
  BY <1>1, <1>2
<1> HIDE DEF f
<1>5. f \in Injection(Live, Threads \ {t})
  <2>1. f \in [Live -> Threads \ {t}]
    BY <1>1, <1>3 DEF f
  <2> QED
    BY <2>1, <1>4 DEF Injection, IsInjective
<1>6. /\ IsFiniteSet(Threads \ {t})
      /\ Cardinality(Threads \ {t}) = Cardinality(Threads) - 1
  BY LoginServerAssumption, FS_RemoveElement
<1>7. Cardinality(Live) <= Cardinality(Threads \ {t})
  BY <1>5, <1>6, FS_Injection
<1>8. Cardinality(Live) \in Nat /\ Cardinality(Threads) \in Nat
  BY LoginServerAssumption, Assumptions, FS_CardinalityType, FS_Difference
<1> QED
  BY <1>6, <1>7, <1>8

LEMMA EnoughStep ==
  ASSUME Parts, RunsFit, EnoughConnections, [Next]_vars
  PROVE  EnoughConnections'
<1> SUFFICES ASSUME Cardinality(Threads) <= Cardinality(Nodes \ Dead), NEW j \in Conns,
                    held[j] # Failed, held'[j] = Failed
             PROVE  FALSE
  BY DEF EnoughConnections
<1>1. PICK t \in Threads, k \in Conns : Run(t, k) \/ Handle(t, k) \/ Reply(t, k)
  BY DEF Next, WorkerThread, Outside, Serve, vars, business
<1>2. j = k
  BY <1>1, OthersRun
<1>3. /\ Failed \notin Nodes \cup {NULL}
      /\ held \in [Conns -> Nodes \cup {NULL, Failed}]
      /\ free \subseteq Nodes
  BY LoginServerAssumption DEF Business!ClientParseAssumption, Parts, BusinessProofs!TypeOK,
     BusinessProofs!Pool!PoolTypeOK
<1>4. \/ UNCHANGED held
      \/ BusinessProofs!GetFree(k) \/ BusinessProofs!ReturnEarly(k) \/ BusinessProofs!Recycle(k)
  <2>1. BusinessProofs!Run(k) \/ BusinessProofs!Handle(k)
    BY <1>1, SameBusiness DEF Run, Handle, Reply, Business!Handle
  <2> QED
    BY <2>1, Assumptions, BusinessProofs!PoolWriters DEF BusinessProofs!pool
<1>5. BusinessProofs!Pool!TakeNothing(k)
  BY <1>2, <1>3, <1>4
     DEF BusinessProofs!GetFree, BusinessProofs!ReturnEarly, BusinessProofs!Recycle,
         BusinessProofs!Pool!Take, BusinessProofs!Pool!GiveUp, BusinessProofs!Pool!Drop,
         BusinessProofs!Pool!Return
<1>6. Runs(t, k)
  BY <1>1 DEF Run, Handle, Reply
<1> QED
  BY <1>5, <1>6, NodeLeft DEF BusinessProofs!Pool!TakeNothing

(* Whenever an object is in the middle of a request a thread runs it, and  *)
(* no request finds the pool empty.                                        *)
THEOREM Invariance == Spec => []CInv
<1>1. Init => CInv
  BY LoginServerAssumption DEF Init, CInv, RunsFit, EnoughConnections, Business!Init,
     Business!Pool!PoolInit, Business!ClientParseAssumption
<1>2. Parts /\ CInv /\ [Next]_vars => CInv'
  BY RunsFitStep, EnoughStep DEF CInv
<1> QED
  BY <1>1, <1>2, PartsCorrect, PTL DEF Spec

(* An object in the middle of a request is run by exactly one thread, for  *)
(* any number of threads, accepts and clients and any faults.              *)
THEOREM OneRunCorrect == Spec => []OneRun
<1>1. Parts /\ CInv => OneRun
  <2> SUFFICES ASSUME Parts, RunsFit, NEW k \in Conns, pc[k] # "idle"
               PROVE  Cardinality({ t \in Threads : Runs(t, k) }) = 1
    BY DEF OneRun, CInv
  <2>1. PICK t \in Threads : Runs(t, k)
    BY DEF RunsFit
  <2>2. { u \in Threads : Runs(u, k) } = {t}
    BY <2>1, OneThread
  <2> QED
    BY <2>2, FS_Singleton
<1> QED
  BY <1>1, PartsCorrect, Invariance, PTL

(* With as many working connections as worker threads no request finds the *)
(* pool empty, and so none is answered with the result of an earlier one.  *)
THEOREM ConnectionsSuffice == Spec => []EnoughConnections
<1>1. CInv => EnoughConnections
  BY DEF CInv
<1> QED
  BY <1>1, Invariance, PTL

-----------------------------------------------------------------------------
Enough == Cardinality(Threads) <= Cardinality(Nodes \ Dead)

(* Handlers that got a working connection have a result, and nodes are     *)
(* lent once.                                                              *)
ResultsOK == BusinessProofs!LentOnce /\ \A k \in Conns : BusinessProofs!AnsweredAt(k)

LEMMA ResultsStep ==
  ASSUME Parts, ResultsOK, [Next]_vars
  PROVE  ResultsOK'
<1>1. CASE UNCHANGED business
  BY <1>1 DEF business, ResultsOK, BusinessProofs!AnsweredAt, BusinessProofs!LentOnce
<1>2. ASSUME NEW t \in Threads, NEW k \in Conns, Run(t, k) \/ Handle(t, k) \/ Reply(t, k)
      PROVE  ResultsOK'
  <2>1. BusinessProofs!Run(k) \/ BusinessProofs!Handle(k)
    BY <1>2, SameBusiness DEF Run, Handle, Reply, Business!Handle
  <2>2. ASSUME NEW j \in Conns PROVE BusinessProofs!AnsweredAt(j)'
    <3>1. CASE j = k
      BY <2>1, <3>1, Assumptions, BusinessProofs!AnswerStep DEF Parts, ResultsOK
    <3>2. CASE j # k
      BY <2>1, <3>2, Assumptions, BusinessProofs!OtherClients
         DEF Parts, ResultsOK, BusinessProofs!AnsweredAt
    <3> QED
      BY <3>1, <3>2
  <2>3. BusinessProofs!LentOnce'
    BY <2>1, Assumptions, BusinessProofs!NodeStep DEF Parts, ResultsOK
  <2> QED
    BY <2>2, <2>3 DEF ResultsOK
<1> QED
  BY <1>1, <1>2 DEF Next, WorkerThread, Outside, Serve, vars

LEMMA OwnStep ==
  ASSUME Enough, Parts, EnoughConnections, ResultsOK, [Next]_vars
  PROVE  /\ Lost \subseteq Lost'
         /\ \A k \in Conns :
              pc[k] # "reply" /\ pc'[k] = "reply" =>
                answered'[k] \/ req'[k].type = "ignored" \/ held[k] \in Lost' \ Lost
<1>1. CASE UNCHANGED business
  BY <1>1 DEF business, Lost
<1>2. ASSUME NEW t \in Threads, NEW k \in Conns, Run(t, k) \/ Handle(t, k) \/ Reply(t, k)
      PROVE  /\ Lost \subseteq Lost'
             /\ \A j \in Conns :
                  pc[j] # "reply" /\ pc'[j] = "reply" =>
                    answered'[j] \/ req'[j].type = "ignored" \/ held[j] \in Lost' \ Lost
  <2>1. BusinessProofs!Run(k) \/ BusinessProofs!Handle(k)
    BY <1>2, SameBusiness DEF Run, Handle, Reply, Business!Handle
  <2>2. Dead \subseteq Nodes
    BY LoginServerAssumption DEF Business!ClientParseAssumption
  <2>3. /\ \A n \in Nodes : BusinessProofs!Gone(n) => BusinessProofs!Gone(n)'
        /\ BusinessProofs!ReturnEarly(k) /\ held[k] # Failed =>
             \E n \in Dead : held[k] = n /\ BusinessProofs!Gone(n)'
    BY <2>1, Assumptions, BusinessProofs!NodeStep DEF Parts, ResultsOK
  <2>4. Lost \subseteq Lost'
    BY <2>2, <2>3 DEF Lost, BusinessProofs!Gone
  <2>5. held[k] # Failed
    BY DEF Enough, EnoughConnections
  <2>6. pc'[k] = "reply" => \/ answered'[k] \/ req'[k].type = "ignored"
                            \/ held[k] \in Lost' \ Lost
    <3>1. CASE BusinessProofs!ReturnEarly(k)
      BY <2>3, <2>5, <3>1 DEF Lost, BusinessProofs!Gone
    <3>2. CASE ~BusinessProofs!ReturnEarly(k)
      BY <2>1, <3>2, Assumptions, BusinessProofs!AnswerStep DEF Parts, ResultsOK
    <3> QED
      BY <3>1, <3>2
  <2>7. \A j \in Conns \ {k} : pc'[j] = pc[j]
    BY <1>2, OthersRun
  <2> QED
    BY <2>4, <2>6, <2>7
<1> QED
  BY <1>1, <1>2 DEF Next, WorkerThread, Outside, Serve, vars

(* With as many working connections as threads every request is answered   *)
(* with its own result, unless it met a connection that failed at start,   *)
(* which no other request will meet.                                       *)
THEOREM OwnResult == Spec => ReplyIsOwn
<1>1. Init => ResultsOK
  BY LoginServerAssumption
     DEF Init, Business!Init, Business!Pool!PoolInit, Business!ClientParseAssumption, ResultsOK,
         BusinessProofs!LentOnce, BusinessProofs!AnsweredAt
<1>2. Parts /\ ResultsOK /\ [Next]_vars => ResultsOK'
  BY ResultsStep
<1>3. Parts /\ EnoughConnections /\ ResultsOK /\ [Next]_vars =>
        [Enough =>
           /\ Lost \subseteq Lost'
           /\ \A k \in Conns :
                pc[k] # "reply" /\ pc'[k] = "reply" =>
                  answered'[k] \/ req'[k].type = "ignored" \/ held[k] \in Lost' \ Lost]_vars
  BY OwnStep
<1> QED
  BY <1>1, <1>2, <1>3, PartsCorrect, ConnectionsSuffice, PTL DEF Spec, ReplyIsOwn, Enough

-----------------------------------------------------------------------------
(* The sessions of the server: the map names clients logged in as their    *)
(* user, a client has one account, a registration that is answered with    *)
(* success left one, and a client is only told to go by a login as its own *)
(* user or under the empty name, whichever threads run the requests and    *)
(* whatever the network does.                                              *)
THEOREM SessionsOnServer ==
  Spec => /\ []Business!MapNamesItsClient
          /\ []Business!SessionIsOneAccount
          /\ []Business!RegisteredMeansAccount
          /\ Business!KickedByItsUser
<1>1. BusinessProofs!Spec => /\ []BusinessProofs!MapNamesItsClient
                             /\ []BusinessProofs!SessionIsOneAccount
                             /\ []BusinessProofs!RegisteredMeansAccount
  BY Assumptions, BusinessProofs!MapCorrect, BusinessProofs!SessionCorrect,
     BusinessProofs!RegistrationCorrect, PTL
<1>2. BusinessProofs!Spec => BusinessProofs!KickedByItsUser
  BY Assumptions, BusinessProofs!KickCorrect
<1>3. /\ BusinessProofs!MapNamesItsClient => Business!MapNamesItsClient
      /\ BusinessProofs!SessionIsOneAccount => Business!SessionIsOneAccount
      /\ BusinessProofs!RegisteredMeansAccount => Business!RegisteredMeansAccount
  BY DEF Business!MapNamesItsClient, BusinessProofs!MapNamesItsClient,
         Business!SessionIsOneAccount, BusinessProofs!SessionIsOneAccount,
         Business!RegisteredMeansAccount, BusinessProofs!RegisteredMeansAccount,
         Business!Named, BusinessProofs!Named
<1>4. BusinessProofs!KickedByItsUser => Business!KickedByItsUser
  BY DEF Business!KickedByItsUser, BusinessProofs!KickedByItsUser,
         Business!vars, BusinessProofs!vars, Business!session, BusinessProofs!session,
         Business!db, BusinessProofs!db, Business!pool, BusinessProofs!pool
<1> QED
  BY <1>1, <1>2, <1>3, <1>4, ImplementsBusiness, PTL

(* Accounts push each other out, when each client has one login role.      *)
THEOREM OneSessionOnServer ==
  ASSUME Business!OneRole
  PROVE  Spec => []Business!SingleSession
<1>1. BusinessProofs!OneRole
  BY DEF Business!OneRole, BusinessProofs!OneRole
<1>2. BusinessProofs!Spec => []BusinessProofs!SingleSession
  BY <1>1, Assumptions, BusinessProofs!OneSession
<1>3. BusinessProofs!SingleSession => Business!SingleSession
  BY DEF Business!SingleSession, BusinessProofs!SingleSession,
         Business!SameSession, BusinessProofs!SameSession
<1> QED
  BY <1>2, <1>3, ImplementsBusiness, PTL

(* A client that stays connected is waited for or being served, also while *)
(* its request takes many steps.                                           *)
THEOREM ServedOnServer ==
  ASSUME "abort" \notin Faults, "post" \notin Faults
  PROVE  Spec => []Engine!ClientServed
<1>1. EngineProofs!Spec => []EngineProofs!ClientServed
  BY Assumptions, EngineProofs!ServedCorrect
<1>2. EngineProofs!ClientServed => Engine!ClientServed
  BY DEF Engine!ClientServed, EngineProofs!ClientServed, Engine!InPlay, EngineProofs!InPlay,
         Engine!Touches, EngineProofs!Touches, Engine!Client, EngineProofs!Client
<1> QED
  BY <1>1, <1>2, ImplementsEngine, PTL
=============================================================================
