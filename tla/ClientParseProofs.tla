------------------------- MODULE ClientParseProofs -------------------------
(***************************************************************************)
(* What holds of ClientParse for any number of clients, users, nodes and   *)
(* requests.  The invariant IInv adds to the properties where each handler *)
(* is: what it holds, whose request it handles, and what it has read.      *)
(***************************************************************************)
EXTENDS ClientParse, TLAPS

(* A handler has a connection from its first query to Recycle.             *)
HeldAt(c) ==
  /\ pc[c] \in {"idle", "getfree", "reply"} => held[c] = NULL
  /\ pc[c] = "query" => held[c] \in Nodes \cup {Failed}
  /\ pc[c] \notin {"idle", "getfree", "reply", "query"} => held[c] \in Nodes \ Dead

RequestAt(c) ==
  /\ pc[c] # "idle" => req[c] \in Sends[c]
  /\ pc[c] \in {"remove", "update"} => req[c].type = "login"

(* Login never stores the id of another user: a row keeps its name.        *)
RowAt(c) == pc[c] \in {"remove", "update"} => row[c] \in Named(req[c].userName)

(* Between the two critical sections of a login as another user, the map   *)
(* has dropped the client, and nobody can put it back.                     *)
LeavingAt(c) ==
  /\ pc[c] = "remove" => m_userName[c] \notin {Empty, req[c].userName}
  /\ pc[c] = "update" /\ m_userName[c] \notin {Empty, req[c].userName} =>
       s_ClientMap[m_userName[c]] # c

(* A registration has inserted its row, or has not answered yet.           *)
RegisterAt(c) ==
  req[c].type = "register" =>
    /\ pc[c] \in {"getfree", "query"} => ~answered[c]
    /\ pc[c] = "blocks" => Named(req[c].userName) # {}

InPlace ==
  \A c \in Clients :
    HeldAt(c) /\ RequestAt(c) /\ RowAt(c) /\ LeavingAt(c) /\ RegisterAt(c)

IInv ==
  /\ TypeOK
  /\ InPlace
  /\ MapNamesItsClient
  /\ SessionIsOneAccount
  /\ RegisteredMeansAccount
  /\ Pool!NoLiveNodeLost

-----------------------------------------------------------------------------
LEMMA InitIInv == Init => IInv
<1> SUFFICES ASSUME Init PROVE IInv
  OBVIOUS
<1> USE ClientParseAssumption DEF Init
<1>1. TypeOK
  BY DEF TypeOK, Pool!PoolInit, Pool!PoolTypeOK, PC, Results, NoRequest
<1>2. InPlace
  BY DEF InPlace, HeldAt, RequestAt, RowAt, LeavingAt, RegisterAt, NoRequest, Pool!PoolInit
<1>3. RegisteredMeansAccount
  BY DEF RegisteredMeansAccount, NoRequest
<1>4. MapNamesItsClient /\ SessionIsOneAccount
  BY DEF MapNamesItsClient, SessionIsOneAccount
<1>5. Pool!NoLiveNodeLost
  BY DEF Pool!NoLiveNodeLost, Pool!PoolInit
<1> QED
  BY <1>1, <1>2, <1>3, <1>4, <1>5 DEF IInv

(* The request of a handler that is not idle.                              *)
LEMMA RequestType ==
  ASSUME NEW c \in Clients, RequestAt(c), pc[c] # "idle"
  PROVE  /\ req[c] \in Request
         /\ req[c].type \in Types
         /\ req[c].userName \in Users
         /\ req[c].passWord \in Passwords
         /\ req[c].newPassWord \in Passwords
BY ClientParseAssumption DEF RequestAt, Request

-----------------------------------------------------------------------------
LEMMA FinishType ==
  ASSUME TypeOK, NEW c \in Clients, NEW result \in Results, Finish(c, result)
  PROVE  /\ m_strResult' \in [Clients -> Results]
         /\ answered' \in [Clients -> BOOLEAN]
         /\ pc' \in [Clients -> PC]
BY DEF TypeOK, Finish, Answer, goto, PC

LEMMA ContinueType ==
  ASSUME TypeOK, NEW c \in Clients, NEW there \in PC, Continue(c, there)
  PROVE  /\ m_strResult' \in [Clients -> Results]
         /\ answered' \in [Clients -> BOOLEAN]
         /\ pc' \in [Clients -> PC]
BY DEF TypeOK, Continue, goto

LEMMA TypeStep ==
  ASSUME TypeOK, InPlace, [Next]_vars
  PROVE  TypeOK'
<1> USE ClientParseAssumption DEF TypeOK, goto, Continue, Finish, Answer, Results, PC
<1>1. CASE UNCHANGED vars
  BY <1>1 DEF vars, session, db, pool, Pool!PoolTypeOK
<1>2. ASSUME NEW c \in Clients, Run(c) PROVE TypeOK'
  <2>1. PICK r \in Sends[c] :
          /\ req' = [req EXCEPT ![c] = r]
          /\ \/ RunWithoutDatabase(c, r) /\ goto(c, "reply")
             \/ RunToDatabase(c, r) /\ goto(c, "getfree")
    BY <1>2 DEF Run
  <2>2. r \in Request
    OBVIOUS
  <2>3. m_strResult' \in [Clients -> Results] /\ answered' \in [Clients -> BOOLEAN]
    <3>1. CASE RunWithoutDatabase(c, r)
      BY <3>1 DEF RunWithoutDatabase
    <3>2. CASE RunToDatabase(c, r)
      BY <3>2 DEF RunToDatabase
    <3> QED
      BY <2>1, <3>1, <3>2
  <2> QED
    BY <1>2, <2>1, <2>2, <2>3 DEF Run, session, db, pool, Pool!PoolTypeOK
<1>3. ASSUME NEW c \in Clients, GetFree(c) \/ ReturnEarly(c) \/ Recycle(c) PROVE TypeOK'
  <2>1. Pool!PoolTypeOK'
    <3>1. CASE GetFree(c)
      <4>1. CASE Pool!Take(c)
        <5>1. PICK n \in free : held' = [held EXCEPT ![c] = n] /\ free' = free \ {n}
          BY <4>1 DEF Pool!Take
        <5> QED
          BY <5>1 DEF Pool!PoolTypeOK
      <4>2. CASE Pool!TakeNothing(c)
        BY <4>2 DEF Pool!PoolTypeOK, Pool!TakeNothing
      <4> QED
        BY <3>1, <4>1, <4>2 DEF GetFree
    <3>2. CASE ReturnEarly(c)
      BY <3>2 DEF ReturnEarly, Pool!PoolTypeOK, Pool!GiveUp, Pool!Drop
    <3>3. CASE Recycle(c)
      BY <3>3 DEF Recycle, Pool!PoolTypeOK, Pool!Return
    <3> QED
      BY <1>3, <3>1, <3>2, <3>3
  <2> QED
    BY <1>3, <2>1 DEF GetFree, ReturnEarly, Recycle, session, db
<1>4. ASSUME NEW c \in Clients, GetReturnValue(c) PROVE TypeOK'
  BY <1>4 DEF GetReturnValue, session, db, pool, Pool!PoolTypeOK
<1>5. ASSUME NEW c \in Clients, LoginSelectName(c) PROVE TypeOK'
  BY <1>5 DEF LoginSelectName, session, db, pool, Pool!PoolTypeOK
<1>6. ASSUME NEW c \in Clients, LoginSelectPassword(c) PROVE TypeOK'
  <2>1. row' \in [Clients -> Ids \cup {NULL}]
    <3>1. CASE UNCHANGED row
      BY <3>1
    <3>2. CASE \E i \in Ids : row' = [row EXCEPT ![c] = i]
      BY <3>2
    <3> QED
      <4> HIDE DEF TypeOK, Finish, Continue
      <4>1. Matching(req[c].userName, req[c].passWord) \subseteq Ids
        BY DEF Matching, Named
      <4> QED
        BY <1>6, <3>1, <3>2, <4>1 DEF LoginSelectPassword
  <2>2. /\ m_strResult' \in [Clients -> Results]
        /\ answered' \in [Clients -> BOOLEAN]
        /\ pc' \in [Clients -> PC]
    BY <1>6 DEF LoginSelectPassword
  <2> QED
    BY <1>6, <2>1, <2>2 DEF LoginSelectPassword, session, db, pool, Pool!PoolTypeOK
<1>7. ASSUME NEW c \in Clients, RemoveLoginState(c) PROVE TypeOK'
  BY <1>7 DEF RemoveLoginState, session, db, pool, Pool!PoolTypeOK
<1>8. ASSUME NEW c \in Clients, UpdateLoginState(c) PROVE TypeOK'
  <2>1. req[c].userName \in Users
    BY <1>8, RequestType DEF InPlace, UpdateLoginState, At
  <2>2. row[c] \in Ids
    BY <1>8 DEF UpdateLoginState, At, InPlace, RowAt, Named
  <2> QED
    BY <1>8, <2>1, <2>2 DEF UpdateLoginState, db, pool, Pool!PoolTypeOK
<1>9. ASSUME NEW c \in Clients, RegisterSelectName(c) \/ RegisterSelectSaler(c) PROVE TypeOK'
  <2>1. CASE RegisterSelectName(c)
    BY <2>1 DEF RegisterSelectName, session, db, pool, Pool!PoolTypeOK
  <2>2. CASE RegisterSelectSaler(c)
    <3> HIDE DEF Finish, Continue, Results, PC
    <3>1. \/ \E result \in Results : Finish(c, result)
          \/ \E there \in PC : Continue(c, there)
      BY <2>2 DEF RegisterSelectSaler, Results, PC
    <3> QED
      BY <2>2, <3>1, FinishType, ContinueType
      DEF RegisterSelectSaler, session, db, pool, Pool!PoolTypeOK
  <2> QED
    BY <1>9, <2>1, <2>2
<1>10. ASSUME NEW c \in Clients, RegisterInsert(c) PROVE TypeOK'
  <2>1. [name |-> req[c].userName, pass |-> req[c].passWord] \in Row
    BY <1>10, RequestType DEF InPlace, RegisterInsert, At, Row
  <2>2. user' \in [Ids -> Row \cup {NULL}]
    <3>1. CASE UNCHANGED user
      BY <3>1
    <3>2. CASE \E i \in Ids :
                 user' = [user EXCEPT ![i] = [name |-> req[c].userName,
                                              pass |-> req[c].passWord]]
      BY <2>1, <3>2
    <3> HIDE DEF TypeOK, Finish, Continue
    <3> QED
      BY <1>10, <3>1, <3>2 DEF RegisterInsert
  <2> QED
    BY <1>10, <2>2 DEF RegisterInsert, session, pool, Pool!PoolTypeOK
<1>11. ASSUME NEW c \in Clients, RegisterInsertBlocks(c) PROVE TypeOK'
  <2>1. user_block' \subseteq Ids \X {1, 2}
    BY <1>11 DEF RegisterInsertBlocks, Matching, Named
  <2> QED
    BY <1>11, <2>1 DEF RegisterInsertBlocks, session, pool, Pool!PoolTypeOK
<1>12. ASSUME NEW c \in Clients, ResetSelectPassword(c) PROVE TypeOK'
  BY <1>12 DEF ResetSelectPassword, session, db, pool, Pool!PoolTypeOK
<1>13. ASSUME NEW c \in Clients, ResetUpdate(c) PROVE TypeOK'
  <2>1. req[c].newPassWord \in Passwords
    BY <1>13, RequestType DEF InPlace, ResetUpdate, At
  <2>2. user' \in [Ids -> Row \cup {NULL}]
    <3>1. ASSUME NEW i \in Ids, user[i] # NULL
          PROVE  [user[i] EXCEPT !.pass = req[c].newPassWord] \in Row
      BY <2>1, <3>1 DEF Row
    <3>2. CASE UNCHANGED user
      BY <3>2
    <3>3. CASE user' = [i \in Ids |-> IF i \in Named(req[c].userName)
                                     THEN [user[i] EXCEPT !.pass = req[c].newPassWord]
                                     ELSE user[i]]
      <4>1. ASSUME NEW i \in Ids PROVE user'[i] \in Row \cup {NULL}
        BY <3>1, <3>3 DEF Named
      <4> QED
        BY <3>3, <4>1
    <3> HIDE DEF TypeOK, Finish
    <3> QED
      BY <1>13, <3>2, <3>3 DEF ResetUpdate
  <2> QED
    BY <1>13, <2>2 DEF ResetUpdate, session, pool, Pool!PoolTypeOK
<1>14. ASSUME NEW c \in Clients,
              GetUserLevel(c) \/ BeyondDeadLine(c) \/ GetFunctionPermission(c)
       PROVE  TypeOK'
  <2>1. CASE GetUserLevel(c)
    BY <2>1 DEF GetUserLevel, session, db, pool, Pool!PoolTypeOK
  <2>2. CASE BeyondDeadLine(c)
    <3> HIDE DEF Finish, Results
    <3>1. \E result \in Results : Finish(c, result)
      BY <2>2 DEF BeyondDeadLine, Results
    <3> QED
      BY <2>2, <3>1, FinishType DEF BeyondDeadLine, session, db, pool, Pool!PoolTypeOK
  <2>3. CASE GetFunctionPermission(c)
    <3> HIDE DEF Finish, Results
    <3>1. \E result \in Results : Finish(c, result)
      BY <2>3 DEF GetFunctionPermission, Results
    <3> QED
      BY <2>3, <3>1, FinishType DEF GetFunctionPermission, session, db, pool, Pool!PoolTypeOK
  <2> QED
    BY <1>14, <2>1, <2>2, <2>3
<1> QED
  BY <1>1, <1>2, <1>3, <1>4, <1>5, <1>6, <1>7, <1>8, <1>9, <1>10, <1>11, <1>12, <1>13,
     <1>14 DEF Next, Handle

-----------------------------------------------------------------------------
(* A thread writes the members of its own client, except m_bReLogin.       *)
LEMMA OtherClients ==
  ASSUME TypeOK, NEW c \in Clients, Run(c) \/ Handle(c), NEW d \in Clients, d # c
  PROVE  /\ m_userName'[d] = m_userName[d]
         /\ m_userId'[d] = m_userId[d]
         /\ m_strResult'[d] = m_strResult[d]
         /\ held'[d] = held[d]
         /\ pc'[d] = pc[d]
         /\ req'[d] = req[d]
         /\ row'[d] = row[d]
         /\ answered'[d] = answered[d]
<1> USE DEF TypeOK, goto, Continue, Finish, Answer, session, db, pool
<1>1. CASE Run(c)
  BY <1>1 DEF Run, RunWithoutDatabase, RunToDatabase
<1>2. CASE GetFree(c) \/ ReturnEarly(c) \/ Recycle(c) \/ GetReturnValue(c)
  BY <1>2 DEF GetFree, ReturnEarly, Recycle, GetReturnValue, Pool!PoolTypeOK, Pool!Take,
       Pool!TakeNothing, Pool!GiveUp, Pool!Drop, Pool!Return
<1>3. CASE \/ LoginSelectName(c) \/ LoginSelectPassword(c)
           \/ RemoveLoginState(c) \/ UpdateLoginState(c)
  BY <1>3 DEF LoginSelectName, LoginSelectPassword, RemoveLoginState, UpdateLoginState
<1>4. CASE \/ RegisterSelectName(c) \/ RegisterSelectSaler(c)
           \/ RegisterInsert(c) \/ RegisterInsertBlocks(c)
  BY <1>4 DEF RegisterSelectName, RegisterSelectSaler, RegisterInsert, RegisterInsertBlocks
<1>5. CASE \/ ResetSelectPassword(c) \/ ResetUpdate(c) \/ GetUserLevel(c)
           \/ BeyondDeadLine(c) \/ GetFunctionPermission(c)
  BY <1>5 DEF ResetSelectPassword, ResetUpdate, GetUserLevel, BeyondDeadLine,
       GetFunctionPermission
<1> QED
  BY <1>1, <1>2, <1>3, <1>4, <1>5 DEF Handle

(* Table user changes by a registration or by a change of a password.      *)
LEMMA UserWriters ==
  ASSUME NEW c \in Clients, Run(c) \/ Handle(c)
  PROVE  RegisterInsert(c) \/ ResetUpdate(c) \/ UNCHANGED user
<1>1. Run(c) => UNCHANGED user
  BY DEF Run, db
<1>2. GetFree(c) \/ ReturnEarly(c) \/ Recycle(c) \/ GetReturnValue(c) => UNCHANGED user
  BY DEF GetFree, ReturnEarly, Recycle, GetReturnValue, db
<1>3. \/ LoginSelectName(c) \/ LoginSelectPassword(c)
      \/ RemoveLoginState(c) \/ UpdateLoginState(c)
      => UNCHANGED user
  BY DEF LoginSelectName, LoginSelectPassword, RemoveLoginState, UpdateLoginState, db
<1>4. \/ RegisterSelectName(c) \/ RegisterSelectSaler(c) \/ RegisterInsertBlocks(c)
      => UNCHANGED user
  BY DEF RegisterSelectName, RegisterSelectSaler, RegisterInsertBlocks, db
<1>5. \/ ResetSelectPassword(c) \/ GetUserLevel(c) \/ BeyondDeadLine(c)
      \/ GetFunctionPermission(c)
      => UNCHANGED user
  BY DEF ResetSelectPassword, GetUserLevel, BeyondDeadLine, GetFunctionPermission, db
<1> QED
  BY <1>1, <1>2, <1>3, <1>4, <1>5 DEF Handle

(* The rows a change of a password leaves.                                 *)
LEMMA ChangedRows ==
  ASSUME TypeOK, NEW c \in Clients, RequestAt(c), ResetUpdate(c), NEW i \in Ids
  PROVE  /\ user'[i] # NULL <=> user[i] # NULL
         /\ user[i] # NULL => user'[i].name = user[i].name
         /\ i \notin Named(req[c].userName) => user'[i] = user[i]
<1>1. CASE UNCHANGED user
  BY <1>1
<1>2. CASE user' = [j \in Ids |-> IF j \in Named(req[c].userName)
                                 THEN [user[j] EXCEPT !.pass = req[c].newPassWord]
                                 ELSE user[j]]
  <2>1. CASE i \in Named(req[c].userName)
    <3>1. user[i] \in Row /\ user[i] # NULL
      BY <2>1 DEF Named, TypeOK
    <3>2. user'[i] = [user[i] EXCEPT !.pass = req[c].newPassWord]
      BY <1>2, <2>1
    <3>3. req[c].newPassWord \in Passwords
      BY RequestType DEF ResetUpdate, At
    <3> QED
      BY <2>1, <3>1, <3>2, <3>3, ClientParseAssumption DEF Row
  <2>2. CASE i \notin Named(req[c].userName)
    BY <1>2, <2>2
  <2> QED
    BY <2>1, <2>2
<1> QED
  BY <1>1, <1>2 DEF ResetUpdate

(* A row of table user is never deleted or renamed.                        *)
LEMMA NamesKept ==
  ASSUME TypeOK, NEW c \in Clients, RequestAt(c),
         Run(c) \/ Handle(c), NEW u
  PROVE  Named(u) \subseteq Named(u)'
<1>1. CASE UNCHANGED user
  BY <1>1 DEF Named
<1>2. CASE RegisterInsert(c)
  BY <1>2, ClientParseAssumption DEF RegisterInsert, TypeOK, Named
<1>3. CASE ResetUpdate(c)
  BY <1>3, ChangedRows DEF Named
<1> QED
  BY <1>1, <1>2, <1>3, UserWriters

-----------------------------------------------------------------------------
(* What a step of c leaves of the place of c, action by action.            *)
LEMMA HeldStep ==
  ASSUME TypeOK, NEW c \in Clients, HeldAt(c), Run(c) \/ Handle(c)
  PROVE  HeldAt(c)'
<1> USE ClientParseAssumption DEF TypeOK, HeldAt, At, goto, Continue, Finish, Answer, db, pool
<1>1. CASE Run(c)
  BY <1>1 DEF Run
<1>2. CASE GetFree(c)
  BY <1>2 DEF GetFree, Pool!PoolTypeOK, Pool!Take, Pool!TakeNothing
<1>3. CASE ReturnEarly(c) \/ Recycle(c) \/ GetReturnValue(c)
  BY <1>3 DEF ReturnEarly, Recycle, GetReturnValue, Pool!PoolTypeOK, Pool!GiveUp, Pool!Drop,
       Pool!Return
<1>4. CASE \/ LoginSelectName(c) \/ LoginSelectPassword(c)
           \/ RemoveLoginState(c) \/ UpdateLoginState(c)
  BY <1>4 DEF LoginSelectName, LoginSelectPassword, RemoveLoginState, UpdateLoginState
<1>5. CASE \/ RegisterSelectName(c) \/ RegisterSelectSaler(c)
           \/ RegisterInsert(c) \/ RegisterInsertBlocks(c)
  BY <1>5 DEF RegisterSelectName, RegisterSelectSaler, RegisterInsert, RegisterInsertBlocks
<1>6. CASE \/ ResetSelectPassword(c) \/ ResetUpdate(c) \/ GetUserLevel(c)
           \/ BeyondDeadLine(c) \/ GetFunctionPermission(c)
  BY <1>6 DEF ResetSelectPassword, ResetUpdate, GetUserLevel, BeyondDeadLine,
       GetFunctionPermission
<1> QED
  BY <1>1, <1>2, <1>3, <1>4, <1>5, <1>6 DEF Handle

LEMMA RequestStep ==
  ASSUME TypeOK, NEW c \in Clients, RequestAt(c), Run(c) \/ Handle(c)
  PROVE  RequestAt(c)'
<1> USE DEF TypeOK, RequestAt, At, goto, Continue, Finish, Answer
<1>1. CASE Run(c)
  BY <1>1 DEF Run
<1>2. CASE GetFree(c) \/ ReturnEarly(c) \/ Recycle(c) \/ GetReturnValue(c)
  BY <1>2 DEF GetFree, ReturnEarly, Recycle, GetReturnValue
<1>3. CASE \/ LoginSelectName(c) \/ LoginSelectPassword(c)
           \/ RemoveLoginState(c) \/ UpdateLoginState(c)
  BY <1>3 DEF LoginSelectName, LoginSelectPassword, RemoveLoginState, UpdateLoginState
<1>4. CASE \/ RegisterSelectName(c) \/ RegisterSelectSaler(c)
           \/ RegisterInsert(c) \/ RegisterInsertBlocks(c)
  BY <1>4 DEF RegisterSelectName, RegisterSelectSaler, RegisterInsert, RegisterInsertBlocks
<1>5. CASE \/ ResetSelectPassword(c) \/ ResetUpdate(c) \/ GetUserLevel(c)
           \/ BeyondDeadLine(c) \/ GetFunctionPermission(c)
  BY <1>5 DEF ResetSelectPassword, ResetUpdate, GetUserLevel, BeyondDeadLine,
       GetFunctionPermission
<1> QED
  BY <1>1, <1>2, <1>3, <1>4, <1>5 DEF Handle

(* Only LoginSelectPassword and RemoveLoginState lead to "remove" and      *)
(* "update", and only RegisterInsert to "blocks".                          *)
LEMMA WhoLeadsThere ==
  ASSUME TypeOK, NEW c \in Clients, Run(c) \/ Handle(c)
  PROVE  /\ pc'[c] = "remove" => LoginSelectPassword(c)
         /\ pc'[c] = "update" => LoginSelectPassword(c) \/ RemoveLoginState(c)
         /\ pc'[c] = "blocks" => RegisterInsert(c)
<1> USE DEF TypeOK, goto, Continue, Finish, Answer
<1>1. CASE Run(c)
  BY <1>1 DEF Run
<1>2. CASE GetFree(c) \/ ReturnEarly(c) \/ Recycle(c) \/ GetReturnValue(c)
  BY <1>2 DEF GetFree, ReturnEarly, Recycle, GetReturnValue
<1>3. CASE LoginSelectName(c) \/ RemoveLoginState(c) \/ UpdateLoginState(c)
  BY <1>3 DEF LoginSelectName, RemoveLoginState, UpdateLoginState
<1>4. CASE RegisterSelectName(c) \/ RegisterSelectSaler(c) \/ RegisterInsertBlocks(c)
  BY <1>4 DEF RegisterSelectName, RegisterSelectSaler, RegisterInsertBlocks
<1>5. CASE \/ ResetSelectPassword(c) \/ ResetUpdate(c) \/ GetUserLevel(c)
           \/ BeyondDeadLine(c) \/ GetFunctionPermission(c)
  BY <1>5 DEF ResetSelectPassword, ResetUpdate, GetUserLevel, BeyondDeadLine,
       GetFunctionPermission
<1>6. CASE LoginSelectPassword(c)
  BY <1>6 DEF LoginSelectPassword
<1>7. CASE RegisterInsert(c)
  BY <1>7 DEF RegisterInsert
<1> QED
  BY <1>1, <1>2, <1>3, <1>4, <1>5, <1>6, <1>7 DEF Handle

LEMMA RowStep ==
  ASSUME TypeOK, NEW c \in Clients, RequestAt(c), RowAt(c), Run(c) \/ Handle(c)
  PROVE  RowAt(c)'
<1>1. CASE pc'[c] \in {"remove", "update"} /\ LoginSelectPassword(c)
  <2>1. PICK i \in Matching(req[c].userName, req[c].passWord) : row' = [row EXCEPT ![c] = i]
    BY <1>1 DEF LoginSelectPassword, Finish, goto, TypeOK
  <2>2. UNCHANGED <<user, req>>
    BY <1>1 DEF LoginSelectPassword, db
  <2> QED
    BY <2>1, <2>2 DEF RowAt, Matching, Named, TypeOK
<1>2. CASE pc'[c] \in {"remove", "update"} /\ RemoveLoginState(c)
  BY <1>2 DEF RemoveLoginState, RowAt, At, Named, db
<1> QED
  BY <1>1, <1>2, WhoLeadsThere DEF RowAt

(* The members of its object and the map that a step of c may write.       *)
LEMMA SessionWriters ==
  ASSUME NEW c \in Clients, Run(c) \/ Handle(c)
  PROVE  \/ UNCHANGED session
         \/ RemoveLoginState(c)
         \/ UpdateLoginState(c)
<1>1. Run(c) => UNCHANGED session
  BY DEF Run
<1>2. GetFree(c) \/ ReturnEarly(c) \/ Recycle(c) \/ GetReturnValue(c) => UNCHANGED session
  BY DEF GetFree, ReturnEarly, Recycle, GetReturnValue
<1>3. LoginSelectName(c) \/ LoginSelectPassword(c) => UNCHANGED session
  BY DEF LoginSelectName, LoginSelectPassword
<1>4. \/ RegisterSelectName(c) \/ RegisterSelectSaler(c)
      \/ RegisterInsert(c) \/ RegisterInsertBlocks(c)
      => UNCHANGED session
  BY DEF RegisterSelectName, RegisterSelectSaler, RegisterInsert, RegisterInsertBlocks
<1>5. \/ ResetSelectPassword(c) \/ ResetUpdate(c) \/ GetUserLevel(c)
      \/ BeyondDeadLine(c) \/ GetFunctionPermission(c)
      => UNCHANGED session
  BY DEF ResetSelectPassword, ResetUpdate, GetUserLevel, BeyondDeadLine, GetFunctionPermission
<1> QED
  BY <1>1, <1>2, <1>3, <1>4, <1>5 DEF Handle

LEMMA LeavingStep ==
  ASSUME TypeOK, NEW c \in Clients, RequestAt(c), LeavingAt(c), Run(c) \/ Handle(c)
  PROVE  LeavingAt(c)'
<1>1. CASE pc'[c] \in {"remove", "update"} /\ LoginSelectPassword(c)
  BY <1>1 DEF LoginSelectPassword, LeavingAt, Finish, Continue, goto, session, TypeOK
<1>2. CASE pc'[c] \in {"remove", "update"} /\ RemoveLoginState(c)
  BY <1>2, ClientParseAssumption DEF RemoveLoginState, LeavingAt, At, Continue, goto, TypeOK
<1> QED
  BY <1>1, <1>2, WhoLeadsThere DEF LeavingAt

LEMMA RegisterStep ==
  ASSUME TypeOK, NEW c \in Clients, RequestAt(c), RegisterAt(c), Run(c) \/ Handle(c)
  PROVE  RegisterAt(c)'
<1> USE DEF TypeOK, goto, RegisterAt
<1>1. CASE Run(c)
  BY <1>1 DEF Run, RunToDatabase, Answer
<1>2. CASE GetFree(c)
  BY <1>2 DEF GetFree
<1>3. CASE pc'[c] \notin {"getfree", "query", "blocks"}
  BY <1>3
<1>4. CASE RegisterInsert(c) /\ pc'[c] = "blocks"
  <2>1. req[c].userName \in Users /\ req[c].passWord \in Passwords
    BY <1>4, RequestType DEF RegisterInsert, At
  <2>2. PICK i \in Ids : user' = [user EXCEPT ![i] = [name |-> req[c].userName,
                                                      pass |-> req[c].passWord]]
    BY <1>4 DEF RegisterInsert, Finish
  <2>3. user'[i] = [name |-> req[c].userName, pass |-> req[c].passWord]
    BY <2>2
  <2>4. user'[i] # NULL /\ user'[i].name = req[c].userName
    BY <2>1, <2>3, ClientParseAssumption DEF Row
  <2> QED
    BY <1>4, <2>4 DEF RegisterInsert, Named
<1>5. pc'[c] \in {"getfree", "query"} => Run(c) \/ GetFree(c)
  <2>1. CASE GetFree(c) \/ ReturnEarly(c) \/ Recycle(c) \/ GetReturnValue(c)
    BY <2>1 DEF GetFree, ReturnEarly, Recycle, GetReturnValue
  <2>2. CASE \/ LoginSelectName(c) \/ LoginSelectPassword(c)
             \/ RemoveLoginState(c) \/ UpdateLoginState(c)
    BY <2>2 DEF LoginSelectName, LoginSelectPassword, RemoveLoginState, UpdateLoginState,
         Continue, Finish
  <2>3. CASE \/ RegisterSelectName(c) \/ RegisterSelectSaler(c)
             \/ RegisterInsert(c) \/ RegisterInsertBlocks(c)
    BY <2>3 DEF RegisterSelectName, RegisterSelectSaler, RegisterInsert,
         RegisterInsertBlocks, Continue, Finish
  <2>4. CASE \/ ResetSelectPassword(c) \/ ResetUpdate(c) \/ GetUserLevel(c)
             \/ BeyondDeadLine(c) \/ GetFunctionPermission(c)
    BY <2>4 DEF ResetSelectPassword, ResetUpdate, GetUserLevel, BeyondDeadLine,
         GetFunctionPermission, Continue, Finish
  <2> QED
    BY <2>1, <2>2, <2>3, <2>4 DEF Handle
<1> QED
  BY <1>1, <1>2, <1>3, <1>4, <1>5, WhoLeadsThere

(* A client whose place is right and that does not move keeps it, whatever *)
(* another one does.                                                       *)
LEMMA OthersInPlace ==
  ASSUME TypeOK, NEW c \in Clients, RequestAt(c), Run(c) \/ Handle(c),
         NEW d \in Clients, d # c,
         HeldAt(d), RequestAt(d), RowAt(d), LeavingAt(d), RegisterAt(d)
  PROVE  (HeldAt(d) /\ RequestAt(d) /\ RowAt(d) /\ LeavingAt(d) /\ RegisterAt(d))'
<1>1. HeldAt(d)' /\ RequestAt(d)'
  BY OtherClients DEF HeldAt, RequestAt
<1>2. RowAt(d)' /\ RegisterAt(d)'
  BY OtherClients, NamesKept DEF RowAt, RegisterAt
<1>3. LeavingAt(d)'
  <2>1. m_userName'[d] = m_userName[d] /\ pc'[d] = pc[d] /\ req'[d] = req[d]
    BY OtherClients
  <2>2. \A u \in Users : s_ClientMap'[u] = d => s_ClientMap[u] = d
    BY SessionWriters, ClientParseAssumption
    DEF session, RemoveLoginState, UpdateLoginState, TypeOK
  <2>3. m_userName[d] \in Users \cup {Empty}
    BY DEF TypeOK
  <2> QED
    BY <2>1, <2>2, <2>3 DEF LeavingAt
<1> QED
  BY <1>1, <1>2, <1>3

LEMMA InPlaceStep ==
  ASSUME TypeOK, InPlace, NEW c \in Clients, Run(c) \/ Handle(c)
  PROVE  InPlace'
<1>1. HeldAt(c) /\ RequestAt(c) /\ RowAt(c) /\ LeavingAt(c) /\ RegisterAt(c)
  BY DEF InPlace
<1>2. (HeldAt(c) /\ RequestAt(c) /\ RowAt(c) /\ LeavingAt(c) /\ RegisterAt(c))'
  BY <1>1, HeldStep, RequestStep, RowStep, LeavingStep, RegisterStep
<1>3. ASSUME NEW d \in Clients, d # c
      PROVE  (HeldAt(d) /\ RequestAt(d) /\ RowAt(d) /\ LeavingAt(d) /\ RegisterAt(d))'
  <2>1. HeldAt(d) /\ RequestAt(d) /\ RowAt(d) /\ LeavingAt(d) /\ RegisterAt(d)
    BY DEF InPlace
  <2> QED
    BY <1>1, <1>3, <2>1, OthersInPlace
<1> QED
  BY <1>2, <1>3 DEF InPlace

-----------------------------------------------------------------------------
(* RemoveLoginState takes a name out; UpdateLoginState puts the client in  *)
(* whose m_userName it has just assigned, and LeavingAt says that no other *)
(* name leads to that client any more.                                     *)
LEMMA MapStep ==
  ASSUME TypeOK, InPlace, MapNamesItsClient, NEW c \in Clients, Run(c) \/ Handle(c)
  PROVE  MapNamesItsClient'
<1>1. CASE UNCHANGED session
  BY <1>1 DEF session, MapNamesItsClient
<1>2. CASE RemoveLoginState(c)
  BY <1>2 DEF RemoveLoginState, MapNamesItsClient, TypeOK
<1>3. CASE UpdateLoginState(c)
  <2> SUFFICES ASSUME NEW v \in Users \ {Empty}, s_ClientMap'[v] # NULL
               PROVE  m_userName'[s_ClientMap'[v]] = v
    BY DEF MapNamesItsClient
  <2>1. /\ req[c].userName \in Users
        /\ m_userName' = [m_userName EXCEPT ![c] = req[c].userName]
        /\ s_ClientMap' = [s_ClientMap EXCEPT ![req[c].userName] = c]
    BY <1>3, RequestType DEF UpdateLoginState, At, InPlace
  <2>2. CASE v = req[c].userName
    BY <2>1, <2>2 DEF TypeOK
  <2>3. CASE v # req[c].userName
    <3>1. s_ClientMap'[v] = s_ClientMap[v] /\ m_userName[s_ClientMap[v]] = v
      BY <2>1, <2>3 DEF TypeOK, MapNamesItsClient
    <3>2. s_ClientMap[v] # c
      BY <1>3, <2>3, <3>1, ClientParseAssumption
      DEF UpdateLoginState, At, InPlace, LeavingAt
    <3> QED
      BY <2>1, <3>1, <3>2 DEF TypeOK
  <2> QED
    BY <2>2, <2>3
<1> QED
  BY <1>1, <1>2, <1>3, SessionWriters

LEMMA SessionStep ==
  ASSUME TypeOK, InPlace, SessionIsOneAccount, NEW c \in Clients, Run(c) \/ Handle(c)
  PROVE  SessionIsOneAccount'
<1>1. \A u : Named(u) \subseteq Named(u)'
  BY NamesKept DEF InPlace
<1>2. CASE UNCHANGED session \/ RemoveLoginState(c)
  BY <1>1, <1>2 DEF session, RemoveLoginState, SessionIsOneAccount
<1>3. CASE UpdateLoginState(c)
  <2>1. row[c] \in Named(req[c].userName)'
    BY <1>1, <1>3 DEF UpdateLoginState, At, InPlace, RowAt
  <2> QED
    BY <1>1, <1>3, <2>1 DEF UpdateLoginState, SessionIsOneAccount, TypeOK
<1> QED
  BY <1>2, <1>3, SessionWriters

(* The answers 1000 and 1002 are given where the account is known to be in *)
(* the table, and accounts stay.                                           *)
LEMMA RegisteredStep ==
  ASSUME TypeOK, InPlace, RegisteredMeansAccount, NEW c \in Clients, Run(c) \/ Handle(c)
  PROVE  RegisteredMeansAccount'
<1>1. \A u : Named(u) \subseteq Named(u)'
  BY NamesKept DEF InPlace
<1>2. ASSUME NEW d \in Clients, pc'[d] \in {"recycle", "reply"}, req'[d].type = "register",
             answered'[d], m_strResult'[d] \in {"1000", "1002"}
      PROVE  (Named(req[d].userName) # {})'
  <2>1. CASE d # c
    <3>1. /\ pc'[d] = pc[d] /\ req'[d] = req[d]
          /\ answered'[d] = answered[d] /\ m_strResult'[d] = m_strResult[d]
      BY <2>1, OtherClients
    <3>2. PICK u : u = req[d].userName
      OBVIOUS
    <3>3. Named(u) # {}
      BY <1>2, <3>1, <3>2 DEF RegisteredMeansAccount
    <3>4. Named(u)' # {}
      BY <1>1, <3>3
    <3> QED
      BY <3>1, <3>2, <3>4 DEF Named
  <2>2. CASE d = c
    <3> USE DEF TypeOK, goto, At, Continue, Finish, Answer
    <3>1. CASE Run(c)
      BY <1>2, <2>2, <3>1 DEF Run, RunWithoutDatabase, RunToDatabase
    <3>2. CASE GetFree(c) \/ Recycle(c) \/ GetReturnValue(c)
      BY <1>1, <1>2, <2>2, <3>2 DEF GetFree, Recycle, GetReturnValue, RegisteredMeansAccount, db, Named
    <3>3. CASE ReturnEarly(c)
      BY <1>2, <2>2, <3>3 DEF ReturnEarly, InPlace, RegisterAt
    <3>4. CASE \/ LoginSelectName(c) \/ LoginSelectPassword(c)
               \/ RemoveLoginState(c) \/ UpdateLoginState(c)
      BY <1>2, <2>2, <3>4 DEF LoginSelectName, LoginSelectPassword, RemoveLoginState,
           UpdateLoginState
    <3>5. CASE RegisterSelectName(c)
      <4>1. CASE Named(req[c].userName) = {}
        BY <1>2, <2>2, <3>5, <4>1 DEF RegisterSelectName
      <4>2. CASE Named(req[c].userName) # {}
        BY <1>1, <2>2, <3>5, <4>2 DEF RegisterSelectName, db, Named
      <4> QED
        BY <4>1, <4>2
    <3>6. CASE RegisterSelectSaler(c)
      BY <1>2, <2>2, <3>6 DEF RegisterSelectSaler
    <3>7. CASE RegisterInsert(c)
      BY <1>2, <2>2, <3>7 DEF RegisterInsert
    <3>8. CASE RegisterInsertBlocks(c)
      BY <1>1, <2>2, <3>8 DEF RegisterInsertBlocks, InPlace, RegisterAt, Named
    <3>9. CASE \/ ResetSelectPassword(c) \/ ResetUpdate(c) \/ GetUserLevel(c)
               \/ BeyondDeadLine(c) \/ GetFunctionPermission(c)
      BY <1>2, <2>2, <3>9 DEF ResetSelectPassword, ResetUpdate, GetUserLevel,
           BeyondDeadLine, GetFunctionPermission
    <3> QED
      BY <3>1, <3>2, <3>3, <3>4, <3>5, <3>6, <3>7, <3>8, <3>9 DEF Handle
  <2> QED
    BY <2>1, <2>2
<1> QED
  BY <1>2 DEF RegisteredMeansAccount

(* Only GetFree, Recycle and an early return touch the pool.               *)
LEMMA PoolWriters ==
  ASSUME NEW c \in Clients, Run(c) \/ Handle(c)
  PROVE  UNCHANGED pool \/ GetFree(c) \/ ReturnEarly(c) \/ Recycle(c)
<1>1. Run(c) \/ GetReturnValue(c) => UNCHANGED pool
  BY DEF Run, GetReturnValue
<1>2. \/ LoginSelectName(c) \/ LoginSelectPassword(c)
      \/ RemoveLoginState(c) \/ UpdateLoginState(c)
      => UNCHANGED pool
  BY DEF LoginSelectName, LoginSelectPassword, RemoveLoginState, UpdateLoginState
<1>3. \/ RegisterSelectName(c) \/ RegisterSelectSaler(c)
      \/ RegisterInsert(c) \/ RegisterInsertBlocks(c)
      => UNCHANGED pool
  BY DEF RegisterSelectName, RegisterSelectSaler, RegisterInsert, RegisterInsertBlocks
<1>4. \/ ResetSelectPassword(c) \/ ResetUpdate(c) \/ GetUserLevel(c)
      \/ BeyondDeadLine(c) \/ GetFunctionPermission(c)
      => UNCHANGED pool
  BY DEF ResetSelectPassword, ResetUpdate, GetUserLevel, BeyondDeadLine,
       GetFunctionPermission
<1> QED
  BY <1>1, <1>2, <1>3, <1>4 DEF Handle

LEMMA PoolStep ==
  ASSUME TypeOK, Pool!NoLiveNodeLost, NEW c \in Clients, Run(c) \/ Handle(c)
  PROVE  Pool!NoLiveNodeLost'
<1> USE DEF Pool!NoLiveNodeLost
<1>1. CASE UNCHANGED pool
  BY <1>1 DEF pool
<1>2. CASE GetFree(c) \/ ReturnEarly(c) \/ Recycle(c)
  <2> USE ClientParseAssumption DEF TypeOK, Pool!PoolTypeOK
  <2>1. CASE Pool!Take(c)
    BY <2>1 DEF Pool!Take
  <2>2. CASE Pool!TakeNothing(c) \/ Pool!GiveUp(c) \/ Pool!Drop(c)
    BY <2>2 DEF Pool!TakeNothing, Pool!GiveUp, Pool!Drop
  <2>3. CASE Pool!Return(c)
    BY <2>3 DEF Pool!Return
  <2> QED
    BY <1>2, <2>1, <2>2, <2>3 DEF GetFree, ReturnEarly, Recycle
<1> QED
  BY <1>1, <1>2, PoolWriters

LEMMA StepIInv == IInv /\ [Next]_vars => IInv'
<1> SUFFICES ASSUME IInv, [Next]_vars PROVE IInv'
  OBVIOUS
<1>1. CASE UNCHANGED vars
  BY <1>1 DEF vars, session, db, pool, IInv, TypeOK, InPlace, HeldAt, RequestAt, RowAt,
       LeavingAt, RegisterAt, MapNamesItsClient, SessionIsOneAccount, RegisteredMeansAccount,
       Named, Pool!NoLiveNodeLost, Pool!PoolTypeOK
<1>2. ASSUME NEW c \in Clients, Run(c) \/ Handle(c) PROVE IInv'
  BY <1>2, TypeStep, InPlaceStep, MapStep, SessionStep, RegisteredStep, PoolStep DEF IInv
<1> QED
  BY <1>1, <1>2 DEF Next

(* The requests, queries and critical sections of any number of clients    *)
(* preserve IInv.                                                          *)
THEOREM Invariance == Spec => []IInv
<1> QED
  BY InitIInv, StepIInv, PTL DEF Spec

(* Every variable keeps its type.                                          *)
THEOREM TypeCorrect == Spec => []TypeOK
<1>1. IInv => TypeOK
  BY DEF IInv
<1> QED
  BY <1>1, Invariance, PTL

(* The map never sends a user to a client logged in as somebody else, for  *)
(* any interleaving of RemoveLoginState and UpdateLoginState.              *)
THEOREM MapCorrect == Spec => []MapNamesItsClient
<1>1. IInv => MapNamesItsClient
  BY DEF IInv
<1> QED
  BY <1>1, Invariance, PTL

(* The id and the name of a session are those of one account.              *)
THEOREM SessionCorrect == Spec => []SessionIsOneAccount
<1>1. IInv => SessionIsOneAccount
  BY DEF IInv
<1> QED
  BY <1>1, Invariance, PTL

(* The answers 1000 and 1002 of Register are followed by an account.       *)
THEOREM RegistrationCorrect == Spec => []RegisteredMeansAccount
<1>1. IInv => RegisteredMeansAccount
  BY DEF IInv
<1> QED
  BY <1>1, Invariance, PTL

(* No way through the handlers loses a connection that works.              *)
THEOREM ConnectionsKept == Spec => []NoConnectionLost
<1>1. IInv => NoConnectionLost
  BY ClientParseAssumption DEF IInv, InPlace, HeldAt, NoConnectionLost, Pool!NoLiveNodeLost
<1> QED
  BY <1>1, Invariance, PTL

(* Only a login as the user of a client, or under the empty name, flags    *)
(* that client.                                                            *)
THEOREM KickCorrect == Spec => KickedByItsUser
<1> DEFINE By(c, d) == /\ pc[d] = "update"
                       /\ pc'[d] # "update"
                       /\ req[d].userName \in {m_userName[c], Empty}
           Kept == \A c \in Clients :
                     m_bReLogin'[c] /\ ~m_bReLogin[c] => \E d \in Clients : By(c, d)
<1>1. IInv /\ [Next]_vars => [Kept]_vars
  <2> SUFFICES ASSUME IInv, NEW d \in Clients, Run(d) \/ Handle(d),
                      NEW c \in Clients, m_bReLogin'[c], ~m_bReLogin[c]
               PROVE  By(c, d)
    BY DEF Next
  <2>1. UpdateLoginState(d)
    BY SessionWriters DEF session, RemoveLoginState
  <2>2. req[d].userName \in Users
    BY <2>1, RequestType DEF UpdateLoginState, At, IInv, InPlace
  <2>3. s_ClientMap[req[d].userName] = c
    BY <2>1 DEF UpdateLoginState
  <2>4. req[d].userName # Empty => m_userName[c] = req[d].userName
    BY <2>2, <2>3, ClientParseAssumption DEF IInv, MapNamesItsClient
  <2>5. pc'[d] = "recycle"
    BY <2>1 DEF UpdateLoginState, Finish, goto, IInv, TypeOK
  <2> QED
    BY <2>1, <2>4, <2>5 DEF UpdateLoginState, At
<1> QED
  BY <1>1, Invariance, PTL DEF Spec, KickedByItsUser

-----------------------------------------------------------------------------
(* Clients of one role: a login never leaves another user behind, and the  *)
(* map leads to the one client of each user that has not been told to go.  *)
RoleInv ==
  \A c \in Clients :
    /\ pc[c] # "remove"
    /\ m_userId[c] # NULL =>
         /\ \E r \in Sends[c] : r.type = "login" /\ r.userName = m_userName[c]
         /\ ~m_bReLogin[c] => s_ClientMap[m_userName[c]] = c

LEMMA RoleStep ==
  ASSUME OneRole, IInv, RoleInv, NEW c \in Clients, Run(c) \/ Handle(c)
  PROVE  RoleInv'
<1>1. \A d \in Clients : pc'[d] # "remove"
  <2>1. ~LoginSelectPassword(c) \/ pc'[c] # "remove"
    BY ClientParseAssumption
    DEF LoginSelectPassword, At, OneRole, RoleInv, IInv, InPlace, RequestAt, TypeOK,
        SessionIsOneAccount, Named, Finish, Continue, goto
  <2> QED
    BY <2>1, WhoLeadsThere, OtherClients DEF IInv, RoleInv
<1>2. CASE UNCHANGED session
  BY <1>1, <1>2 DEF session, RoleInv
<1>3. CASE UpdateLoginState(c)
  <2>1. /\ req[c] \in Sends[c]
        /\ req[c].type = "login"
        /\ req[c].userName \in Users
    BY <1>3, RequestType DEF UpdateLoginState, At, IInv, InPlace, RequestAt
  <2>2. /\ m_userName' = [m_userName EXCEPT ![c] = req[c].userName]
        /\ s_ClientMap' = [s_ClientMap EXCEPT ![req[c].userName] = c]
        /\ m_bReLogin' = [d \in Clients |-> m_bReLogin[d] \/ s_ClientMap[req[c].userName] = d]
        /\ \A d \in Clients \ {c} : m_userId'[d] = m_userId[d]
    BY <1>3 DEF UpdateLoginState, IInv, TypeOK
  <2>3. ASSUME NEW d \in Clients, m_userId'[d] # NULL
        PROVE  /\ \E r \in Sends[d] : r.type = "login" /\ r.userName = m_userName'[d]
               /\ ~m_bReLogin'[d] => s_ClientMap'[m_userName'[d]] = d
    <3>1. CASE d = c
      BY <2>1, <2>2, <3>1 DEF IInv, TypeOK
    <3>2. CASE d # c
      <4>1. m_userName'[d] = m_userName[d] /\ m_userId[d] # NULL
        BY <2>2, <2>3, <3>2 DEF IInv, TypeOK
      <4>2. m_userName[d] \in Users
        BY <4>1, ClientParseAssumption DEF IInv, InPlace, RoleInv, Request
      <4> QED
        BY <2>1, <2>2, <2>3, <3>2, <4>1, <4>2 DEF RoleInv, IInv, TypeOK
    <3> QED
      BY <3>1, <3>2
  <2> QED
    BY <1>1, <2>3 DEF RoleInv
<1>4. ~RemoveLoginState(c)
  BY DEF RemoveLoginState, At, RoleInv
<1> QED
  BY <1>2, <1>3, <1>4, SessionWriters

(* Accounts push each other out: with clients that play one role each, any *)
(* number of clients logged in as one user has one that was not told to go.*)
THEOREM OneSession == ASSUME OneRole PROVE Spec => []SingleSession
<1>1. Init => RoleInv
  BY DEF Init, RoleInv
<1>2. IInv /\ RoleInv /\ [Next]_vars => RoleInv'
  <2>1. RoleInv /\ UNCHANGED vars => RoleInv'
    BY DEF RoleInv, vars, session
  <2> QED
    BY <2>1, RoleStep DEF Next
<1>3. RoleInv => SingleSession
  BY DEF RoleInv, SingleSession, SameSession
<1> QED
  BY <1>1, <1>2, <1>3, Invariance, PTL DEF Spec

-----------------------------------------------------------------------------
(* What LoginServer needs to know of the steps of one object: a handler    *)
(* that has got a working connection assigns m_strResult ...               *)
AnsweredAt(c) == pc[c] = "recycle" => answered[c] \/ req[c].type = "ignored"

LEMMA AnswerStep ==
  ASSUME TypeOK, NEW c \in Clients, AnsweredAt(c), Run(c) \/ Handle(c)
  PROVE  /\ AnsweredAt(c)'
         /\ pc'[c] = "reply" /\ ~ReturnEarly(c) =>
              answered'[c] \/ req'[c].type = "ignored"
<1> USE DEF TypeOK, AnsweredAt, goto, Continue, Finish, Answer
<1>1. CASE Run(c)
  BY <1>1 DEF Run, RunWithoutDatabase
<1>2. CASE GetFree(c) \/ ReturnEarly(c) \/ Recycle(c) \/ GetReturnValue(c)
  BY <1>2 DEF GetFree, ReturnEarly, Recycle, GetReturnValue
<1>3. CASE \/ LoginSelectName(c) \/ LoginSelectPassword(c)
           \/ RemoveLoginState(c) \/ UpdateLoginState(c)
  BY <1>3 DEF LoginSelectName, LoginSelectPassword, RemoveLoginState, UpdateLoginState
<1>4. CASE \/ RegisterSelectName(c) \/ RegisterSelectSaler(c)
           \/ RegisterInsert(c) \/ RegisterInsertBlocks(c)
  BY <1>4 DEF RegisterSelectName, RegisterSelectSaler, RegisterInsert, RegisterInsertBlocks
<1>5. CASE \/ ResetSelectPassword(c) \/ ResetUpdate(c) \/ GetUserLevel(c)
           \/ BeyondDeadLine(c) \/ GetFunctionPermission(c)
  BY <1>5 DEF ResetSelectPassword, ResetUpdate, GetUserLevel, BeyondDeadLine,
       GetFunctionPermission
<1> QED
  BY <1>1, <1>2, <1>3, <1>4, <1>5 DEF Handle

(* ... a node is lent once, and one that is neither free nor lent stays    *)
(* lost, as does a node without a connection once a handler has met it.    *)
LentOnce ==
  \A c \in Clients :
    held[c] \in Nodes => held[c] \notin free /\ \A d \in Clients \ {c} : held[d] # held[c]

Gone(n) == n \notin free /\ \A c \in Clients : held[c] # n

LEMMA NodeStep ==
  ASSUME TypeOK, LentOnce, NEW c \in Clients, Run(c) \/ Handle(c)
  PROVE  /\ LentOnce'
         /\ \A n \in Nodes : Gone(n) => Gone(n)'
         /\ ReturnEarly(c) /\ held[c] # Failed =>
              \E n \in Dead : held[c] = n /\ Gone(n)'
<1> USE ClientParseAssumption DEF TypeOK, Pool!PoolTypeOK, LentOnce, Gone
<1>1. CASE UNCHANGED pool
  BY <1>1 DEF pool, ReturnEarly, Pool!GiveUp, Pool!Drop
<1>2. CASE GetFree(c)
  <2>1. CASE Pool!Take(c)
    BY <1>2, <2>1 DEF Pool!Take, GetFree, ReturnEarly
  <2>2. CASE Pool!TakeNothing(c)
    BY <1>2, <2>2 DEF Pool!TakeNothing, GetFree, ReturnEarly
  <2> QED
    BY <1>2, <2>1, <2>2 DEF GetFree
<1>3. CASE ReturnEarly(c)
  <2>1. CASE Pool!GiveUp(c)
    BY <1>3, <2>1 DEF ReturnEarly, Pool!GiveUp
  <2>2. CASE Pool!Drop(c)
    BY <1>3, <2>2 DEF ReturnEarly, Pool!Drop
  <2> QED
    BY <1>3, <2>1, <2>2 DEF ReturnEarly
<1>4. CASE Recycle(c)
  BY <1>4 DEF Recycle, Pool!Return, ReturnEarly
<1> QED
  BY <1>1, <1>2, <1>3, <1>4, PoolWriters
=============================================================================
