---------------------------- MODULE ClientParse ----------------------------
(***************************************************************************)
(* CClientParse: the business object of each connection.  Run handles one  *)
(* request of its client at a time; the objects of different connections   *)
(* run on different worker threads and share the map s_ClientMap (guarded  *)
(* by s_clientLock), the connection pool s_sqlPool and the database.  Each *)
(* SQL query and each critical section is a step.                          *)
(*                                                                         *)
(* The database is external: a query may fail at any time, the columns     *)
(* that only an answer depends on (LEVEL, EXP, the status of a saler, the  *)
(* permissions) answer anything, and the rows of table user keep only      *)
(* NAME and PASSWORD.                                                      *)
(***************************************************************************)
EXTENDS FiniteSets

CONSTANTS
  Clients,     \* the CClientParse objects, one per connection
  Users,       \* the names requests hold, those of accounts among them
  Empty,       \* the empty name, which requests may hold, too
  Passwords,
  Ids,         \* the ids table user can give: the bound on registrations
  Nodes, Dead, \* the connections of the pool, and those that failed
  Accounts,    \* the rows of table user when the server starts
  UniqueName,  \* does the database refuse a second row with the same NAME?
  Sends,       \* the requests each client may send
  NULL,        \* no id, no client, no node, no request
  Failed       \* GetFree has returned NULL

(* "ignored" stands for an empty message, a type without a case in Run     *)
(* (CS_GETDEADLINE, CS_GETSYSTEMTIME, ...) and a request without one of    *)
(* its fields; "invalid" for a message that is not a JSON object.          *)
Types == {"login", "register", "reset", "deadline", "level", "permission",
          "relogin", "heart", "invalid", "ignored"}

(* A field the type does not have has any value; in a reset passWord is    *)
(* the old password.                                                       *)
Request == [type : Types, userName : Users,
            passWord : Passwords, newPassWord : Passwords]

Row == [name : Users, pass : Passwords]

ASSUME ClientParseAssumption ==
  /\ IsFiniteSet(Nodes)
  /\ Dead \subseteq Nodes
  /\ Failed \notin Nodes \cup {NULL}
  /\ NULL \notin Nodes \cup Clients \cup Users \cup Ids \cup Row
  /\ Accounts \in [Ids -> Row \cup {NULL}]
  /\ UniqueName \in BOOLEAN
  /\ Sends \in [Clients -> SUBSET Request]

VARIABLES
  m_userName,  \* of each client: the user it is logged in as, at first Empty
  m_userId,    \* of each client: the id of that user
  m_bReLogin,  \* of each client: has someone else logged in as that user?
  m_strResult, \* of each client: the last result, kept between requests
  s_ClientMap, \* the client of each user
  user,        \* table user: the row of each id, or NULL
  user_block,  \* table user_block: the ids of accounts and their blocks
  free, held,  \* the pool, see ConnectionPool
  pc,          \* of each client: where Run is
  req,         \* of each client: the document Run handles
  row,         \* of each client: the id Login has read
  answered     \* history: has this Run assigned m_strResult?

session == <<m_userName, m_userId, m_bReLogin, s_ClientMap>>
db == <<user, user_block>>
pool == <<free, held>>
vars == <<session, m_strResult, db, pool, pc, req, row, answered>>

Pool == INSTANCE ConnectionPool WITH Callers <- Clients, Nobody <- NULL

NoRequest == [type |-> "ignored", userName |-> NULL,
              passWord |-> NULL, newPassWord |-> NULL]

Init ==
  /\ m_userName = [c \in Clients |-> Empty]
  /\ m_userId = [c \in Clients |-> NULL]
  /\ m_bReLogin = [c \in Clients |-> FALSE]
  /\ m_strResult = [c \in Clients |-> ""]
  /\ s_ClientMap = [u \in Users |-> NULL]
  /\ user = Accounts
  /\ user_block = {}
  /\ Pool!PoolInit
  /\ pc = [c \in Clients |-> "idle"]
  /\ req = [c \in Clients |-> NoRequest]
  /\ row = [c \in Clients |-> NULL]
  /\ answered = [c \in Clients |-> FALSE]

-----------------------------------------------------------------------------
(* The rows SELECT ... WHERE NAME = u finds, and those with a password.    *)
Named(u) == { i \in Ids : user[i] # NULL /\ user[i].name = u }
Matching(u, p) == { i \in Named(u) : user[i].pass = p }

goto(c, there) == pc' = [pc EXCEPT ![c] = there]

Answer(c, result) ==
  /\ m_strResult' = [m_strResult EXCEPT ![c] = result]
  /\ answered' = [answered EXCEPT ![c] = TRUE]

(* A handler reaches its last query: it answers, then recycles its node.   *)
Finish(c, result) == Answer(c, result) /\ goto(c, "recycle")
Continue(c, there) == goto(c, there) /\ UNCHANGED <<m_strResult, answered>>

(* The connection of c can carry the query at this place of the handler.   *)
At(c, type, there) ==
  /\ pc[c] = there
  /\ req[c].type = type
  /\ held[c] \in Nodes \ Dead

-----------------------------------------------------------------------------
(* Run, up to GetFree in the handlers that query the database; the others  *)
(* have assigned m_strResult or left it alone.                             *)
NeedsLogin == {"deadline", "level", "permission"}

(* Mutant: Run without the case of CS_RELOGINTHREAD. *)
RunWithoutRelogin(c, r) ==
  \/ /\ r.type \in {"ignored", "relogin"}
     /\ answered' = [answered EXCEPT ![c] = FALSE]
     /\ UNCHANGED m_strResult
  \/ r.type = "invalid" /\ Answer(c, "return_code")
  \/ r.type = "heart" /\ Answer(c, "10000")
  \/ /\ r.type \in NeedsLogin
     /\ m_userName[c] = Empty
     /\ Answer(c, IF r.type = "permission" THEN "" ELSE "-1")

RunWithoutDatabase(c, r) ==
  \/ /\ r.type = "ignored"
     /\ answered' = [answered EXCEPT ![c] = FALSE]
     /\ UNCHANGED m_strResult
  \/ r.type = "invalid" /\ Answer(c, "return_code")
  \/ r.type = "heart" /\ Answer(c, "10000")
  \/ r.type = "relogin" /\ Answer(c, IF m_bReLogin[c] THEN "1" ELSE "0")
  \/ /\ r.type \in NeedsLogin
     /\ m_userName[c] = Empty
     /\ Answer(c, IF r.type = "permission" THEN "" ELSE "-1")

RunToDatabase(c, r) ==
  \/ /\ \/ r.type \in {"login", "register", "reset"}
        \/ r.type \in {"deadline", "level"} /\ m_userName[c] # Empty
     /\ answered' = [answered EXCEPT ![c] = FALSE]
     /\ UNCHANGED m_strResult
  \/ r.type = "permission" /\ m_userName[c] # Empty /\ Answer(c, "")

Run(c) ==
  /\ pc[c] = "idle"
  /\ \E r \in Sends[c] :
       /\ req' = [req EXCEPT ![c] = r]
       /\ \/ RunWithoutDatabase(c, r) /\ goto(c, "reply")
          \/ RunToDatabase(c, r) /\ goto(c, "getfree")
  /\ UNCHANGED <<session, db, pool, row>>

(* Mutant: GetFree waits until there is a node. *)
GetFreeWaits(c) ==
  /\ pc[c] = "getfree"
  /\ Pool!Take(c)
  /\ goto(c, "query")
  /\ UNCHANGED <<session, m_strResult, db, req, row, answered>>

(* s_sqlPool.GetFree: a node, or NULL when none is free.                   *)
GetFree(c) ==
  /\ pc[c] = "getfree"
  /\ Pool!Take(c) \/ Pool!TakeNothing(c)
  /\ goto(c, "query")
  /\ UNCHANGED <<session, m_strResult, db, req, row, answered>>

(* No node, or one without a connection: the handler returns.              *)
ReturnEarly(c) ==
  /\ pc[c] = "query"
  /\ Pool!GiveUp(c) \/ Pool!Drop(c)
  /\ goto(c, "reply")
  /\ UNCHANGED <<session, m_strResult, db, req, row, answered>>

Recycle(c) ==
  /\ pc[c] = "recycle"
  /\ Pool!Return(c)
  /\ goto(c, "reply")
  /\ UNCHANGED <<session, m_strResult, db, req, row, answered>>

(* GetReturnValue copies m_strResult into the reply; the document and the  *)
(* local variables of the handler are gone.                                *)
GetReturnValue(c) ==
  /\ pc[c] = "reply"
  /\ goto(c, "idle")
  /\ req' = [req EXCEPT ![c] = NoRequest]
  /\ row' = [row EXCEPT ![c] = NULL]
  /\ answered' = [answered EXCEPT ![c] = FALSE]
  /\ UNCHANGED <<session, m_strResult, db, pool>>

-----------------------------------------------------------------------------
(* Login                                                                   *)
(* Mutants of Login: a failed query without Recycle; a row that was not    *)
(* fetched; the previous user stays in the map; the id of the previous     *)
(* user is kept; nobody is told.                                           *)
LoginSelectNameLeaks(c) ==
  /\ At(c, "login", "query")
  /\ \/ Answer(c, "-3") /\ goto(c, "reply") /\ held' = [held EXCEPT ![c] = NULL]
     \/ Named(req[c].userName) = {} /\ Finish(c, "-1") /\ UNCHANGED held
     \/ Named(req[c].userName) # {} /\ Continue(c, "password") /\ UNCHANGED held
  /\ UNCHANGED <<session, db, free, req, row>>

LoginSelectPasswordNoFetch(c) ==
  /\ At(c, "login", "password")
  /\ Matching(req[c].userName, req[c].passWord) # {}
  /\ Continue(c, "update")
  /\ UNCHANGED <<session, db, pool, req, row>>

LoginSelectPasswordNoRemove(c) ==
  /\ At(c, "login", "password")
  /\ LET found == Matching(req[c].userName, req[c].passWord)
     IN  \/ Finish(c, "-2") /\ UNCHANGED row
         \/ /\ row' \in { [row EXCEPT ![c] = i] : i \in found }
            /\ Continue(c, "update")
  /\ UNCHANGED <<session, db, pool, req>>

UpdateLoginStateOldId(c) ==
  /\ At(c, "login", "update")
  /\ LET u == req[c].userName
     IN  /\ m_userName' = [m_userName EXCEPT ![c] = u]
         /\ m_userId' = IF m_userId[c] = NULL THEN [m_userId EXCEPT ![c] = row[c]]
                        ELSE m_userId
         /\ s_ClientMap' = [s_ClientMap EXCEPT ![u] = c]
  /\ Finish(c, row[c])
  /\ UNCHANGED <<m_bReLogin, db, pool, req, row>>

UpdateLoginStateTellsNobody(c) ==
  /\ At(c, "login", "update")
  /\ m_userName' = [m_userName EXCEPT ![c] = req[c].userName]
  /\ m_userId' = [m_userId EXCEPT ![c] = row[c]]
  /\ s_ClientMap' = [s_ClientMap EXCEPT ![req[c].userName] = c]
  /\ Finish(c, row[c])
  /\ UNCHANGED <<m_bReLogin, db, pool, req, row>>

LoginSelectName(c) ==
  /\ At(c, "login", "query")
  /\ \/ Finish(c, "-3")
     \/ Named(req[c].userName) = {} /\ Finish(c, "-1")
     \/ Named(req[c].userName) # {} /\ Continue(c, "password")
  /\ UNCHANGED <<session, db, pool, req, row>>

LoginSelectPassword(c) ==
  /\ At(c, "login", "password")
  /\ LET found == Matching(req[c].userName, req[c].passWord)
     IN  \/ Finish(c, "-3") /\ UNCHANGED row
         \/ found = {} /\ Finish(c, "-2") /\ UNCHANGED row
         \/ /\ row' \in { [row EXCEPT ![c] = i] : i \in found }
            /\ IF m_userName[c] \in {Empty, req[c].userName}
               THEN Continue(c, "update")
               ELSE Continue(c, "remove")
  /\ UNCHANGED <<session, db, pool, req>>

(* A client logs in as another user: its previous user leaves the map,     *)
(* unless that is the empty name, which counts as no user.                 *)
RemoveLoginState(c) ==
  /\ At(c, "login", "remove")
  /\ s_ClientMap' = [s_ClientMap EXCEPT ![m_userName[c]] = NULL]
  /\ Continue(c, "update")
  /\ UNCHANGED <<m_userName, m_userId, m_bReLogin, db, pool, req, row>>

(* Login assigns the members of its own object and calls UpdateLoginState: *)
(* the client the map has for the user, if any, has been logged in twice.  *)
UpdateLoginState(c) ==
  /\ At(c, "login", "update")
  /\ LET u == req[c].userName
     IN  /\ m_userName' = [m_userName EXCEPT ![c] = u]
         /\ m_userId' = [m_userId EXCEPT ![c] = row[c]]
         /\ m_bReLogin' = [d \in Clients |-> m_bReLogin[d] \/ s_ClientMap[u] = d]
         /\ s_ClientMap' = [s_ClientMap EXCEPT ![u] = c]
  /\ Finish(c, row[c])
  /\ UNCHANGED <<db, pool, req, row>>

-----------------------------------------------------------------------------
(* Register                                                                *)
RegisterSelectName(c) ==
  /\ At(c, "register", "query")
  /\ \/ Finish(c, "1001")
     \/ Named(req[c].userName) # {} /\ Finish(c, "1002")
     \/ Named(req[c].userName) = {} /\ Continue(c, "refer")
  /\ UNCHANGED <<session, db, pool, req, row>>

(* The code of the saler is unknown, disabled or valid.                    *)
RegisterSelectSaler(c) ==
  /\ At(c, "register", "refer")
  /\ \/ \E result \in {"1001", "1003", "1004"} : Finish(c, result)
     \/ Continue(c, "insert")
  /\ UNCHANGED <<session, db, pool, req, row>>

(* Mutant: a failed INSERT falls through, as a failed UPDATE of a password. *)
RegisterInsertUnchecked(c) ==
  /\ At(c, "register", "insert")
  /\ Continue(c, "blocks")
  /\ UNCHANGED <<session, db, pool, req, row>>

RegisterInsert(c) ==
  /\ At(c, "register", "insert")
  /\ \/ Finish(c, "1001") /\ UNCHANGED user
     \/ /\ UniqueName => Named(req[c].userName) = {}
        /\ \E i \in Ids :
             /\ user[i] = NULL
             /\ user' = [user EXCEPT ![i] = [name |-> req[c].userName,
                                             pass |-> req[c].passWord]]
        /\ Continue(c, "blocks")
  /\ UNCHANGED <<session, user_block, pool, req, row>>

(* Three queries, none of whose failures is an error: read the id back and *)
(* give the account its two blocks.                                        *)
RegisterInsertBlocks(c) ==
  /\ At(c, "register", "blocks")
  /\ \/ UNCHANGED user_block
     \/ \E i \in Matching(req[c].userName, req[c].passWord) :
          \E B \in SUBSET {1, 2} : user_block' = user_block \cup ({i} \X B)
  /\ Finish(c, "1000")
  /\ UNCHANGED <<session, user, pool, req, row>>

-----------------------------------------------------------------------------
(* ResetPassWord                                                           *)
(* Mutant: the old password is not compared. *)
ResetSelectPasswordUnchecked(c) ==
  /\ At(c, "reset", "query")
  /\ \/ Finish(c, "5001")
     \/ Named(req[c].userName) = {} /\ Finish(c, "5004")
     \/ Named(req[c].userName) # {} /\ Continue(c, "change")
  /\ UNCHANGED <<session, db, pool, req, row>>

ResetSelectPassword(c) ==
  /\ At(c, "reset", "query")
  /\ \/ Finish(c, "5001")
     \/ Named(req[c].userName) = {} /\ Finish(c, "5004")
     \/ \E i \in Named(req[c].userName) :
          IF user[i].pass = req[c].passWord
          THEN Continue(c, "change")
          ELSE Finish(c, "5002")
  /\ UNCHANGED <<session, db, pool, req, row>>

(* The result of a failed UPDATE, "5003", is overwritten at once.          *)
ResetUpdate(c) ==
  /\ At(c, "reset", "change")
  /\ \/ UNCHANGED user
     \/ user' = [i \in Ids |-> IF i \in Named(req[c].userName)
                               THEN [user[i] EXCEPT !.pass = req[c].newPassWord]
                               ELSE user[i]]
  /\ Finish(c, "0")
  /\ UNCHANGED <<session, user_block, pool, req, row>>

-----------------------------------------------------------------------------
(* GetUserLevel, BeyondDeadLine and GetFunctionPermission                  *)
GetUserLevel(c) ==
  /\ At(c, "level", "query")
  /\ \/ Finish(c, "2003")
     \/ Finish(c, "2001")
     \/ Named(m_userName[c]) # {} /\ Finish(c, "level")
  /\ UNCHANGED <<session, db, pool, req, row>>

BeyondDeadLine(c) ==
  /\ At(c, "deadline", "query")
  /\ \/ Finish(c, "3")
     \/ Named(m_userName[c]) = {} /\ Finish(c, "2001")
     \/ Named(m_userName[c]) # {} /\ \E late \in {"0", "1"} : Finish(c, late)
  /\ UNCHANGED <<session, db, pool, req, row>>

GetFunctionPermission(c) ==
  /\ At(c, "permission", "query")
  /\ \E result \in {"-1", "", "permissions"} : Finish(c, result)
  /\ UNCHANGED <<session, db, pool, req, row>>

-----------------------------------------------------------------------------
(* What the worker thread that runs the request of c does next.            *)
Handle(c) ==
  \/ GetFree(c)
  \/ ReturnEarly(c)
  \/ Recycle(c)
  \/ GetReturnValue(c)
  \/ LoginSelectName(c)
  \/ LoginSelectPassword(c)
  \/ RemoveLoginState(c)
  \/ UpdateLoginState(c)
  \/ RegisterSelectName(c)
  \/ RegisterSelectSaler(c)
  \/ RegisterInsert(c)
  \/ RegisterInsertBlocks(c)
  \/ ResetSelectPassword(c)
  \/ ResetUpdate(c)
  \/ GetUserLevel(c)
  \/ BeyondDeadLine(c)
  \/ GetFunctionPermission(c)

Next == \E c \in Clients : Run(c) \/ Handle(c)

Spec == Init /\ [][Next]_vars

(* A worker thread inside Run waits for nothing but the database and locks *)
(* held for a few instructions.                                            *)
FairSpec == Spec /\ \A c \in Clients : WF_vars(Handle(c))

(* The relogin thread of the client library asks every five seconds.       *)
Poll(c) == Run(c) /\ req'[c].type = "relogin"
PollingSpec == FairSpec /\ \A c \in Clients : SF_vars(Poll(c))

-----------------------------------------------------------------------------
PC == {"idle", "getfree", "query", "password", "remove", "update", "refer",
       "insert", "blocks", "change", "recycle", "reply"}

Results == Ids \cup {"", "-3", "-2", "-1", "0", "1", "3", "1000", "1001", "1002",
                     "1003", "1004", "2001", "2003", "5001", "5002", "5004",
                     "10000", "level", "permissions", "return_code"}

(* Every variable keeps its type.                                          *)
TypeOK ==
  /\ m_userName \in [Clients -> Users \cup {Empty}]
  /\ m_userId \in [Clients -> Ids \cup {NULL}]
  /\ m_bReLogin \in [Clients -> BOOLEAN]
  /\ m_strResult \in [Clients -> Results]
  /\ s_ClientMap \in [Users -> Clients \cup {NULL}]
  /\ user \in [Ids -> Row \cup {NULL}]
  /\ user_block \subseteq Ids \X {1, 2}
  /\ Pool!PoolTypeOK
  /\ pc \in [Clients -> PC]
  /\ req \in [Clients -> Request \cup {NoRequest}]
  /\ row \in [Clients -> Ids \cup {NULL}]
  /\ answered \in [Clients -> BOOLEAN]

(* The map never sends a user to a client that is logged in as somebody    *)
(* else: RemoveLoginState and UpdateLoginState are two critical sections   *)
(* with m_userName assigned between them.  The entry of the empty name may *)
(* be one of a client that has gone on to another user.                    *)
MapNamesItsClient ==
  \A u \in Users \ {Empty} :
    s_ClientMap[u] # NULL => m_userName[s_ClientMap[u]] = u

(* A client is only told to go by a login as its own user, or under the    *)
(* empty name, whose entry stays in the map.                               *)
KickedByItsUser ==
  [][\A c \in Clients :
       m_bReLogin'[c] /\ ~m_bReLogin[c] =>
         \E d \in Clients :
           /\ pc[d] = "update"
           /\ pc'[d] # "update"
           /\ req[d].userName \in {m_userName[c], Empty}]_vars

(* Both have logged in, and as the same user.                              *)
SameSession(c, d) ==
  /\ m_userId[c] # NULL
  /\ m_userId[d] # NULL
  /\ m_userName[c] = m_userName[d]

(* "Accounts push each other out": of the clients logged in as one user at *)
(* most one has not been told to go.                                       *)
SingleSession ==
  \A c, d \in Clients :
    SameSession(c, d) /\ ~m_bReLogin[c] /\ ~m_bReLogin[d] => c = d

(* Each client plays one role: it never logs in as two users (CLoginVerify *)
(* is documented as one object for one login role).                        *)
OneRole ==
  \A c \in Clients : \A r, s \in Sends[c] :
    r.type = "login" /\ s.type = "login" => r.userName = s.userName

(* The database has one row per name and lets no second one in: the UPDATE *)
(* of a password goes by the name alone.                                   *)
NamesAreUnique ==
  /\ UniqueName
  /\ \A i, j \in Ids :
       /\ Accounts[i] # NULL
       /\ Accounts[j] # NULL
       /\ Accounts[i].name = Accounts[j].name
       => i = j

(* The id a client's permissions are read with is the id of the user whose *)
(* level and deadline it is given, and both come with the first login.     *)
SessionIsOneAccount ==
  \A c \in Clients :
    m_userName[c] # Empty \/ m_userId[c] # NULL
      => m_userId[c] \in Named(m_userName[c])

(* Whatever way a handler ends, a connection that works is in the pool or  *)
(* with a handler that is still going to use and recycle it.               *)
NoConnectionLost ==
  \A n \in Nodes \ Dead :
    n \in free \/ \E c \in Clients : held[c] = n /\ pc[c] \notin {"idle", "reply"}

(* A registration that answers 1000 or 1002 leaves an account of that name *)
(* behind it.                                                              *)
RegisteredMeansAccount ==
  \A c \in Clients :
    /\ pc[c] \in {"recycle", "reply"}
    /\ req[c].type = "register"
    /\ answered[c]
    /\ m_strResult[c] \in {"1000", "1002"}
    => Named(req[c].userName) # {}

(* Every request gets a reply.                                             *)
EveryRequestIsAnswered == \A c \in Clients : pc[c] = "getfree" ~> pc[c] = "reply"

(* When two clients are logged in as one user, one of them is told to go   *)
(* by a reply to its poll.                                                 *)
ToldToGo(c) ==
  pc[c] = "reply" /\ req[c].type = "relogin" /\ m_strResult[c] = "1"

TwoSessionsEnd ==
  \A c, d \in Clients :
    c # d => (SameSession(c, d) ~> ToldToGo(c) \/ ToldToGo(d))
=============================================================================
